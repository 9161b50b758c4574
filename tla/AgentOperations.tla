-------------------------- MODULE AgentOperations ---------------------------
(***************************************************************************)
(* What a profile's agent works with: the tools that it sees and offers to *)
(* its model, and the turns that it gives to a Hermes server.              *)
(***************************************************************************)
EXTENDS Integers, FiniteSets, SequencesExt, OperationFrame, ProfileTools

Hermes == INSTANCE HermesTurns

\* How a text or a query relates to the tools.
Related(match) == [t \in 1 .. 6 |-> IF t \in DOMAIN match THEN match[t] ELSE "weak"]
Surfaces == {1 .. 6, {1, 2, 3, 5}, {1, 4, 5, 6}}

\* A request begins: which schemas are loaded before the model is asked.
PrepareTools ==
  /\ Ready
  /\ \E text \in [3 .. 5 -> {"no", "weak", "strong", "named", "not"}], visible \in Surfaces,
        used \in {<<>>, <<3>>, <<5, 3>>, <<3, 3, 4>>, <<1, 4, 5>>}, topic \in BOOLEAN :
       LET match == Related(text)
           loaded == Prepared(visible, match, used, topic)
       IN  Answer([op |-> "prepare", visible |-> visible, match |-> match, used |-> used],
                  [loaded |-> loaded, offered |-> Offered(visible, loaded)])

\* The model asks for schemas, by name or by what it wants to do.
LoadsAsked ==
  [names : {<<>>}, match : {Related(m) : m \in [1 .. 5 -> {"no", "weak", "strong"}]} \cup {Absent},
   limit : {Absent, 1}]
  \cup [names : {<<3>>, <<5, 3>>, <<6, 4, 3>>, <<9>>, <<9, 1, 4>>}, match : {Absent}, limit : {Absent, 1, 5}]

LoadTools ==
  /\ Ready
  /\ \E asked \in LoadsAsked, visible \in Surfaces, loaded \in {{}, {3}, {4, 5}, {3, 4, 6}} :
       LET after == Load(visible, loaded, asked)
       IN  Answer([op |-> "load", asked |-> asked, visible |-> visible,
                   offered |-> Offered(visible, loaded)],
                  after @@ [offered |-> Offered(visible, after.loaded)])

-----------------------------------------------------------------------------
(* Three turns for a Hermes server; the second may be sent before the first is  *)
(* answered, or after the head of its answer, and the server may be restarted   *)
(* before a turn.                                                               *)

Setups == [key : BOOLEAN, limit : {1, 2}, streams : BOOLEAN]
Ends ==
  [end : {"done", "rotated", "busy"}, kept : {TRUE}] \cup [end : {"broken", "silent"}, kept : BOOLEAN]

SendOf(n, conversation) == [do |-> "send", n |-> n, conversation |-> conversation]
ReceiveOf(n, how) == [do |-> "receive", n |-> n, end |-> how.end, kept |-> how.kept]
HeadersOf(n, how) == [do |-> "headers", n |-> n, end |-> how.end]
RestartIf(does) == IF does THEN <<[do |-> "restart"]>> ELSE <<>>

\* `c` are the conversations, `h` how the turns end, `r` the restarts before them.
Turns(c, h, r, overlap) ==
  <<SendOf(1, c[1])>>
  \o (CASE overlap = "none" -> <<ReceiveOf(1, h[1])>> \o RestartIf(r[2]) \o <<SendOf(2, c[2])>>
        [] overlap = "sent" -> RestartIf(r[2]) \o <<SendOf(2, c[2]), ReceiveOf(1, h[1])>>
        [] overlap = "heard" -> <<HeadersOf(1, h[1])>> \o RestartIf(r[2])
                                \o <<SendOf(2, c[2]), ReceiveOf(1, h[1])>>)
  \o <<ReceiveOf(2, h[2])>> \o RestartIf(r[3])
  \o <<SendOf(3, c[3]), ReceiveOf(3, [end |-> "done", kept |-> TRUE])>>

TalkToHermes ==
  /\ Ready
  /\ \E setup \in Setups, second \in 1 .. 2, third \in 1 .. 2, h1, h2 \in Ends,
        r2, r3 \in BOOLEAN, overlap \in {"none", "sent", "heard"} :
       LET c == <<1, second, third>>
           after == Hermes!AfterSteps(setup, Turns(c, <<h1, h2>>, <<FALSE, r2, r3>>, overlap))
       IN  Answer([op |-> "hermes", setup |-> setup, conversation |-> c,
                   beside |-> overlap # "none" /\ second = 1],
                  [runs |-> after.runs, told |-> after.told])

AgentNext == PrepareTools \/ LoadTools \/ TalkToHermes

-----------------------------------------------------------------------------
(* Properties *)

\* A request loads few schemas by itself, none that the text says not to use, and
\* those that the text names before any others; each tool that the model asks
\* for is offered in its next question or reported as missing; and a query that
\* matches tools which are not offered makes one of them so.
LoadedIsOffered ==
  /\ request.op = "prepare" =>
       LET m == request.match
           optional == request.visible \ Base
           named == {t \in optional : m[t] = "named"}
       IN  /\ result.loaded \subseteq {t \in optional : m[t] # "not"}
           /\ Cardinality(result.loaded) <= MostPreloads
           /\ named \subseteq result.loaded \/ result.loaded \subseteq named
           /\ result.offered = (request.visible \cap Base) \cup result.loaded
  /\ request.op = "load" =>
       LET a == request.asked
           new == result.offered \ request.offered
       IN  /\ request.offered \subseteq result.offered /\ result.offered \subseteq request.visible
           /\ \A t \in ToSet(a.names) : t \in result.offered \/ t \in ToSet(result.missing)
           /\ a.names = <<>> /\ a.match # Absent =>
                LET open == {t \in request.visible \ request.offered : Rank[a.match[t]] > 0}
                IN  /\ new \subseteq open /\ (open # {} => new # {})
                    /\ \A t \in new, u \in open \ new :
                         Rank[a.match[u]] <= Rank[a.match[t]]
           /\ Cardinality(new) <= 2

\* Each turn reaches Hermes' own agent at most once, whatever is refused or lost;
\* and while the turns of a conversation follow each other, the transcript that
\* a turn is run with has each turn that was answered before once, in order and
\* with its answer, at least the latest that the profile keeps, nothing of
\* another conversation, and the new message at its end, over restarts of the
\* server, new sessions, and sessions that the client does not track any more.
HermesHasTheContext ==
  request.op = "hermes" =>
    LET answered == {result.told[i].n : i \in {i \in DOMAIN result.told : result.told[i].what = "answered"}}
    IN  \A i \in DOMAIN result.runs :
          LET run == result.runs[i]
              earlier == SelectSeq(run.transcript, LAMBDA m : m.turn \in answered /\ m.turn # run.n)
              asked == SelectSeq(earlier, LAMBDA m : m.by = "user")
          IN  /\ \A j \in DOMAIN result.runs : result.runs[j].n = run.n => j = i
              /\ Last(run.transcript) = Hermes!Says(run.n, "user")
              /\ \A m \in ToSet(run.transcript) : request.conversation[m.turn] = run.conversation
              /\ ~request.beside =>
                   /\ \A k \in 1 .. Len(asked) - 1 : asked[k].turn < asked[k + 1].turn
                   /\ earlier = FlattenSeq([k \in DOMAIN asked |->
                        <<Hermes!Says(asked[k].turn, "user"), Hermes!Says(asked[k].turn, "assistant")>>])
                   /\ \A k \in DOMAIN run.of : run.of[k].n \in {m.turn : m \in ToSet(asked)}

\* The models of an agent are given what they need: schemas and context.
AgentSound == LoadedIsOffered /\ HermesHasTheContext

\* "Send one turn, retrying only a server-rejected stale session": a turn whose
\* session the server has forgotten is sent again without it.
StaleSessionRetried ==
  request.op = "hermes" => \A i \in DOMAIN result.told : result.told[i].what # "rejected"
=============================================================================
