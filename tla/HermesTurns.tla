----------------------------- MODULE HermesTurns ----------------------------
(***************************************************************************)
(* hermes_client.py: the turns of two conversations with a Hermes server,  *)
(* which keeps transcripts itself if the profile has an API key.  The      *)
(* server may forget its sessions, not stream, be busy, answer under a new *)
(* session, and break off before or after it has told the session.         *)
(*                                                                         *)
(* A message is [turn, by].  A request is [session, messages, stream]; the *)
(* client sends it and later receives the head of the response, with the   *)
(* session, and its body; another turn may be sent in between.             *)
(***************************************************************************)
EXTENDS Integers, FiniteSets, SequencesExt

CONSTANT None

MostSessions == 1  \* Bound: 128 sessions are tracked.

\* `tracked` are the <<conversation, session>> known, the latest last; `sessions`
\* the transcripts of the server; `runs` what it ran, `history` what was answered.
Start(setup) ==
  [setup |-> setup, tracked |-> <<>>, sessions |-> <<>>, lost |-> {}, runs |-> <<>>,
   history |-> <<>>, waiting |-> <<>>, told |-> <<>>]

Says(turn, by) == [turn |-> turn, by |-> by]

SessionOf(s, conversation) ==
  LET known == SelectSeq(s.tracked, LAMBDA t : t.conversation = conversation)
  IN  IF known = <<>> \/ ~s.setup.key THEN None ELSE Last(known).session

\* _pop: forget the session of a conversation.
Dropped(s, conversation) ==
  [s EXCEPT !.tracked = SelectSeq(@, LAMBDA t : t.conversation # conversation)]

\* The turns that were answered when the turn came, as many as the profile keeps.
HistoryOf(s, conversation) ==
  LET answered == SelectSeq(s.history, LAMBDA h : h.conversation = conversation)
      n == Len(answered)
  IN  SubSeq(answered, (IF n > s.setup.limit THEN n - s.setup.limit ELSE 0) + 1, n)

\* Mutant: only the new message is sent, with a session or without.
MessagesNew(s, turn) == <<Says(turn.n, "user")>>

\* _request_messages
Messages(s, turn) ==
  IF SessionOf(s, turn.conversation) # None THEN <<Says(turn.n, "user")>>
  ELSE FlattenSeq([i \in DOMAIN turn.history |->
         <<Says(turn.history[i].n, "user"), Says(turn.history[i].n, "assistant")>>])
       \o <<Says(turn.n, "user")>>

\* What the server makes of a request: it refuses it, or runs it.
Refused(s, session, stream) ==
  CASE stream /\ ~s.setup.streams -> "no_stream"
    [] session # None /\ session \in s.lost -> "no_session"
    [] OTHER -> None

Run(s, turn) ==
  LET session == SessionOf(s, turn.conversation)
      transcript == (IF session = None THEN <<>> ELSE s.sessions[session]) \o Messages(s, turn)
  IN  [s EXCEPT !.runs = Append(@, [n |-> turn.n, conversation |-> turn.conversation,
                                    of |-> turn.history, transcript |-> transcript]),
                !.waiting = Append(@, [turn |-> turn, session |-> session, heard |-> FALSE])]

Tell(s, turn, what) == [s EXCEPT !.told = Append(@, [n |-> turn.n, what |-> what])]

\* send_message: a rejected session is dropped and the turn is sent once more, as
\* a whole; without streaming the same turn is sent over plain HTTP, whose
\* rejection of the session is not retried.
Send(s, turn) ==
  LET session == SessionOf(s, turn.conversation)
      first == Refused(s, session, TRUE)
      again == Dropped(s, turn.conversation)
  IN  CASE first = None -> Run(s, turn)
        [] first = "no_session" -> Run(again, turn)
        [] first = "no_stream" ->
             IF Refused(s, session, FALSE) = None THEN Run(s, turn)
             ELSE Tell(s, turn, "rejected")

\* _store_session_id: the session of the response becomes the latest tracked.
Stored(s, conversation, session) ==
  IF ~s.setup.key THEN s
  ELSE LET rest == SelectSeq(s.tracked, LAMBDA t : t.conversation # conversation)
           all == Append(rest, [conversation |-> conversation, session |-> session])
       IN  [s EXCEPT !.tracked =
              IF Len(all) > MostSessions THEN SubSeq(all, Len(all) - MostSessions + 1, Len(all)) ELSE all]

Waits(s, n) == CHOOSE i \in DOMAIN s.waiting : s.waiting[i].turn.n = n
RunOf(s, turn) == CHOOSE r \in ToSet(s.runs) : r.n = turn.n /\ r.conversation = turn.conversation

\* The server has the session of the run: a new one begins with what it was given,
\* or with the old transcript when it is rotated.
Opened(s, n, end) ==
  LET at == Waits(s, n)
      w == s.waiting[at]
      begun == IF w.session = None THEN RunOf(s, w.turn).transcript ELSE s.sessions[w.session]
  IN  IF w.session # None /\ end # "rotated" THEN s
      ELSE [s EXCEPT !.waiting[at].session = Len(s.sessions) + 1, !.sessions = Append(@, begun)]

\* Response headers tell the session, before the body; not if it breaks off "silent"
\* or the server is "busy".
Headers(s, n, end) ==
  LET w == s.waiting[Waits(s, n)]
      open == Opened(s, n, end)
  IN  IF w.heard \/ end \in {"silent", "busy"} THEN s
      ELSE Stored([open EXCEPT !.waiting[Waits(s, n)].heard = TRUE], w.turn.conversation,
                  open.waiting[Waits(s, n)].session)

\* A run ends: "done" under its session or, "rotated", under a new one; "broken"
\* after the session was told, or "silent" before it, with the run kept in the
\* transcript or not.  "busy" is a run that was refused before it began.
Receive(s, n, end, kept) ==
  LET at == Waits(s, n)
      told == IF end = "silent" THEN Opened(s, n, end) ELSE Headers(s, n, end)
      w == told.waiting[at]
      answered == end \in {"done", "rotated"}
      full == Append(RunOf(s, w.turn).transcript, Says(n, "assistant"))
      ran == [told EXCEPT
                !.waiting = RemoveAt(@, at),
                !.sessions = IF answered \/ kept THEN [@ EXCEPT ![w.session] = full] ELSE @]
  IN  CASE end = "busy" ->
             Tell([s EXCEPT !.waiting = RemoveAt(@, at),
                            !.runs = SelectSeq(@, LAMBDA r : r.n # n)], w.turn, "failed")
        [] answered ->
             Tell([ran EXCEPT !.history =
                     Append(@, [n |-> n, conversation |-> w.turn.conversation])], w.turn, "answered")
        [] OTHER -> Tell(ran, w.turn, "failed")

\* The server is restarted and does not know its sessions any more.
Restarted(s) == [s EXCEPT !.lost = @ \cup DOMAIN s.sessions]

Follow(s, step) ==
  CASE step.do = "send" ->
         Send(s, [n |-> step.n, conversation |-> step.conversation,
                  history |-> HistoryOf(s, step.conversation)])
    [] step.do = "restart" -> Restarted(s)
    [] ~\E w \in ToSet(s.waiting) : w.turn.n = step.n -> s
    [] step.do = "headers" -> Headers(s, step.n, step.end)
    [] OTHER -> Receive(s, step.n, step.end, step.kept)

AfterSteps(setup, steps) == FoldLeft(Follow, Start(setup), steps)
=============================================================================
