------------------------- MODULE ConversationTurns -------------------------
(***************************************************************************)
(* The requests of one conversation entity and the history they share      *)
(* (conversation_history.py and agent.py).  A request resolves its model,  *)
(* reads the history of its conversation, asks the model, which may say    *)
(* with the tool set_conversation_state whether it expects an answer, and  *)
(* records its turn.  Requests interleave at their awaits: the history and *)
(* the indication belong to the entity, not to the request.                *)
(*                                                                         *)
(* A turn is the moment at which it was recorded; what was said in it is   *)
(* data.  Every read and every write of the history runs without an await, *)
(* so each is one action.                                                  *)
(***************************************************************************)
EXTENDS Integers, Sequences, FiniteSets, SequencesExt

CONSTANTS
    Requests,           \* requests that may be in flight together
    Conversations,      \* conversation ids
    MaxTurns,           \* turns kept of a conversation (20)
    MaxConversations,   \* conversations kept (200)
    MaxAge,             \* age at which a turn expires (24 hours)
    HistoryLimit,       \* turns sent to the model (max_history)
    FollowUpMode,       \* follow_up_mode of the profile
    Hints,              \* what a model may indicate: "open", "close"
    MaxClock,           \* bound of the model: the last moment
    None

ASSUME LimitsAssumption ==
    /\ {MaxTurns, MaxConversations, MaxAge} \subseteq Nat \ {0}
    /\ IsFiniteSet(Conversations) /\ None \notin Conversations
    /\ {HistoryLimit, MaxClock} \subseteq Nat
    /\ FollowUpMode \in {"none", "default", "always"}
    /\ Hints \subseteq {"open", "close"}

VARIABLES
    clock,      \* the time now
    turns,      \* _conversations: the turns kept, <<>> when the key is absent
    log,        \* history variable: every turn ever recorded
    pc,         \* where each request is
    conv,       \* the conversation of each request in flight
    context,    \* the turns each has read
    expecting,  \* _expecting_response of the entity, "unset" without attribute
    said,       \* history variable: what the model of each has indicated
    last        \* how the last request to end decided to continue or not

vars == <<clock, turns, log, pc, conv, context, expecting, said, last>>

Indications == {"unset", "open", "close"}
Deciders    == {"none", "user", "mode", "tool", "patterns",
                "failure", "KeyError"}
Moments     == 1..MaxClock

LastOf(s, n) == SubSeq(s, IF Len(s) > n THEN Len(s) - n + 1 ELSE 1, Len(s))

\* What the cleanup leaves of the turns of one conversation.  They are in the
\* order of time, so the expired ones come first.
Trimmed(s, now) ==
    LET fresh == Cardinality({i \in DOMAIN s : s[i] > now - MaxAge})
    IN  LastOf(LastOf(s, fresh), MaxTurns)

KeptIn(f) == {c \in Conversations : f[c] # <<>>}

\* Mutant: sorted the other way round.
EvictedNewest(f) ==
    {c \in KeptIn(f) :
        Cardinality({d \in KeptIn(f) : Last(f[d]) < Last(f[c])})
            >= MaxConversations}

\* The conversations that the hard cap evicts: those behind which there are
\* MaxConversations more recently active ones.
Evicted(f) ==
    {c \in KeptIn(f) :
        Cardinality({d \in KeptIn(f) : Last(f[d]) > Last(f[c])})
            >= MaxConversations}

\* The sweep over all conversations at the end of add_turn.
Pruned(f, now) ==
    LET trimmed == [c \in Conversations |-> Trimmed(f[c], now)]
    IN  [c \in Conversations |->
            IF c \in Evicted(trimmed) THEN <<>> ELSE trimmed[c]]
-----------------------------------------------------------------------------
Init ==
    /\ clock = 0
    /\ turns = [c \in Conversations |-> <<>>]
    /\ log = turns
    /\ pc = [r \in Requests |-> "idle"]
    /\ conv = [r \in Requests |-> None]
    /\ context = [r \in Requests |-> <<>>]
    /\ expecting = "unset"
    /\ said = [r \in Requests |-> "unset"]
    /\ last = [by |-> "none", continues |-> FALSE, said |-> "unset"]

\* Mutant: the conversation is an attribute of the entity.
BeginShared(r, c) ==
    /\ pc[r] = "idle"
    /\ pc' = [pc EXCEPT ![r] = "resolving"]
    /\ conv' = [q \in Requests |-> IF q = r \/ conv[q] # None THEN c ELSE None]
    /\ UNCHANGED <<clock, turns, log, context, expecting, said, last>>

\* Home Assistant calls the entity; the request waits for the model's name.
Begin(r, c) ==
    /\ pc[r] = "idle"
    /\ pc' = [pc EXCEPT ![r] = "resolving"]
    /\ conv' = [conv EXCEPT ![r] = c]
    /\ UNCHANGED <<clock, turns, log, context, expecting, said, last>>

\* A request returns its result; its context variables are reset.
End(r, by, continues) ==
    /\ pc' = [pc EXCEPT ![r] = "idle"]
    /\ conv' = [conv EXCEPT ![r] = None]
    /\ context' = [context EXCEPT ![r] = <<>>]
    /\ said' = [said EXCEPT ![r] = "unset"]
    /\ last' = [by |-> by, continues |-> continues, said |-> said[r]]

\* get_history drops what has expired and returns a copy of the rest.
ReadHistory(r) ==
    LET c == conv[r]
    IN  /\ pc[r] = "resolving"
        /\ turns[c] = <<>> \/ Trimmed(turns[c], clock) # <<>>
        /\ turns' = [turns EXCEPT ![c] = Trimmed(turns[c], clock)]
        /\ context' = [context EXCEPT ![r] = LastOf(turns'[c], HistoryLimit)]
        /\ pc' = [pc EXCEPT ![r] = "asking"]
        /\ UNCHANGED <<clock, log, conv, expecting, said, last>>

\* When everything has expired the cleanup deletes the key that get_history
\* then reads: KeyError.
ReadExpired(r) ==
    LET c == conv[r]
    IN  /\ pc[r] = "resolving"
        /\ turns[c] # <<>> /\ Trimmed(turns[c], clock) = <<>>
        /\ turns' = [turns EXCEPT ![c] = <<>>]
        /\ End(r, "KeyError", FALSE)
        /\ UNCHANGED <<clock, log, expecting>>

\* The model calls set_conversation_state: the entity remembers it.
Indicate(r, i) ==
    /\ pc[r] = "asking"
    /\ expecting' = i
    /\ said' = [said EXCEPT ![r] = i]
    /\ UNCHANGED <<clock, turns, log, pc, conv, context, last>>

\* No model, no answer, a failed tool loop: the indication stays behind.
Fail(r) ==
    /\ pc[r] \in {"resolving", "asking"}
    /\ End(r, "failure", FALSE)
    /\ UNCHANGED <<clock, turns, log, expecting>>

\* add_turn of the history, at the moment the clock moves to.
AddTurn(c) ==
    /\ clock < MaxClock
    /\ clock' = clock + 1
    /\ log' = [log EXCEPT ![c] = Append(@, clock')]
    /\ turns' = Pruned([turns EXCEPT ![c] = Append(@, clock')], clock')

\* Whether the conversation continues.  Only the default mode looks at the
\* indication, and only when the user's words do not end the conversation.
Decide(r, ends, asks) ==
    LET by == CASE ends /\ FollowUpMode # "none"   -> "user"
                [] FollowUpMode # "default"        -> "mode"
                [] expecting # "unset"     -> "tool"
                [] OTHER                   -> "patterns"
    IN  /\ End(r, by, \/ by = "mode" /\ FollowUpMode = "always"
                      \/ by = "tool" /\ expecting = "open"
                      \/ by = "patterns" /\ asks)
        /\ expecting' = IF by = "tool" THEN "unset" ELSE expecting

\* The answer is there: the turn is recorded and the follow-up is decided.
Answer(r) ==
    /\ pc[r] = "asking"
    /\ AddTurn(conv[r])
    /\ \E ends, asks \in BOOLEAN : Decide(r, ends, asks)

Wait ==
    /\ clock < MaxClock
    /\ clock' = clock + 1
    /\ UNCHANGED <<turns, log, pc, conv, context, expecting, said, last>>

Next ==
    \/ \E r \in Requests :
        \/ \E c \in Conversations : Begin(r, c)
        \/ ReadHistory(r)
        \/ ReadExpired(r)
        \/ \E i \in Hints : Indicate(r, i)
        \/ Fail(r)
        \/ Answer(r)
    \/ Wait

Spec == Init /\ [][Next]_vars
-----------------------------------------------------------------------------
Increasing(s) == \A i, j \in DOMAIN s : i < j => s[i] < s[j]

\* Turns are moments in the order in which they were recorded.
TypeOK ==
    /\ clock \in 0..MaxClock
    /\ turns \in [Conversations -> Seq(Moments)]
    /\ log \in [Conversations -> Seq(Moments)]
    /\ \A c \in Conversations : Increasing(turns[c]) /\ Increasing(log[c])
    /\ pc \in [Requests -> {"idle", "resolving", "asking"}]
    /\ conv \in [Requests -> Conversations \cup {None}]
    /\ context \in [Requests -> Seq(Moments)]
    /\ expecting \in Indications
    /\ said \in [Requests -> Indications]
    /\ last \in [by : Deciders, continues : BOOLEAN, said : Indications]

\* What keeps the history bounded: no two turns are of the same moment, so
\* that no two conversations are equally recent.
Distinct ==
    \A c, d \in Conversations :
        c # d => ToSet(turns[c]) \cap ToSet(turns[d]) = {}

\* The turns of the history are of the past.
Past ==
    \A c \in Conversations :
        ToSet(turns[c]) \cup ToSet(log[c]) \subseteq 1..clock

\* The history stays within both of its limits, whatever the requests of many
\* one-shot conversations leave behind.
Bounded ==
    /\ Cardinality(KeptIn(turns)) <= MaxConversations
    /\ \A c \in Conversations : Len(turns[c]) <= MaxTurns

\* The last turn that list `l` held at the moment `now`.
Latest(l, now) ==
    LET before == {u \in ToSet(l) : u <= now}
    IN  CHOOSE u \in before : \A v \in before : v <= u

\* The conversations that were more recently active than c at that moment.
Rivals(l, c, now) ==
    {d \in Conversations \ {c} :
        \E u \in ToSet(l[d]) : Latest(l[c], now) < u /\ u <= now}

\* The turn t of c has expired, or c has had MaxTurns turns since, or as many
\* conversations as are kept had overtaken c at some moment after t.
Forgettable(l, now, c, t) ==
    \/ t <= now - MaxAge
    \/ Cardinality({u \in ToSet(l[c]) : u > t}) >= MaxTurns
    \/ \E then \in t..now : Cardinality(Rivals(l, c, then)) >= MaxConversations

\* A turn is forgotten only because it has expired, because its conversation
\* has had MaxTurns turns since, or because MaxConversations others were more
\* recently active: cleanup, sweep and eviction together drop nothing else.
ForgetsForAReason ==
    \A c \in Conversations : \A t \in ToSet(log[c]) \ ToSet(turns[c]) :
        Forgettable(log, clock, c, t)

\* What a request sends to the model is an unbroken piece of its own
\* conversation, although requests of other conversations are in flight and
\* the history is swept under it.
OwnContext ==
    \A r \in Requests : context[r] # <<>> =>
        /\ conv[r] # None
        /\ \E i, j \in DOMAIN log[conv[r]] :
               context[r] = SubSeq(log[conv[r]], i, j)

\* The turns are in the order of time and within the limits, and each request
\* is given those of its conversation.
HistorySound == TypeOK /\ Bounded /\ OwnContext

\* Reading the history of a conversation returns it, "for a conversation ID"
\* of any age: a request that finds a history does not fail for it.
HistoryReadable == last.by # "KeyError"

\* Smart mode: a request continues when its own assistant expects a follow-up.
\* What another request has indicated does not decide it.
FollowUpOwn ==
    /\ last.by = "tool" =>
           last.said # "unset" /\ (last.continues <=> last.said = "open")
    /\ last.by = "patterns" => last.said = "unset"

\* A request in flight has a conversation.
InFlight == \A r \in Requests : pc[r] # "idle" => conv[r] \in Conversations

\* The inductive invariant.
IInv == TypeOK /\ InFlight /\ Past /\ Distinct /\ Bounded

\* s is found in l after its first k turns.
After(k, s, l) == \A i \in 1..Len(s) : s[i] = l[i + k]

EndsIn(s, l) == \E k \in 0..Len(l) : k + Len(s) = Len(l) /\ After(k, s, l)

Piece(s, l) == \E k \in 0..Len(l) : k + Len(s) <= Len(l) /\ After(k, s, l)

\* What makes OwnContext inductive: the history holds the last turns of every
\* conversation without a gap, and a request holds a piece of them.
NoGaps ==
    /\ \A c \in Conversations : EndsIn(turns[c], log[c])
    /\ \A r \in Requests : context[r] # <<>> =>
           /\ pc[r] = "asking" /\ conv[r] \in Conversations
           /\ Piece(context[r], log[conv[r]])
=============================================================================
