--------------------------- MODULE ModelRequests ---------------------------
(***************************************************************************)
(* agent.py, _call_mcp_tool, with mcp_server.py: an agent that has chosen  *)
(* models for a request leaves its selection with the server, under a      *)
(* token, and sends the token with its HTTP tool call, so that the tool    *)
(* works under the selection.  The call, the agent's waiting for it, the   *)
(* messages of others, removals of profiles and stops of the server        *)
(* interleave; a request may arrive when nobody waits any more, or never.  *)
(***************************************************************************)
EXTENDS McpProtocol, FiniteSets

CONSTANTS
  CallTokens,    \* tool calls, each with a token and a request id of its own
  Entries,       \* profiles
  EntryOf,       \* the profile of a call
  Bound,         \* the profile that the server was started for
  Others,        \* messages that others send
  MostRequests,  \* 128: the selections that are retained at a time
  MaxOthers      \* bound: messages of others

ASSUME RequestsAssumption ==
  /\ EntryOf \in [CallTokens -> Entries]
  /\ NoValue \notin CallTokens \cup Entries \cup {"tools/call"}
  /\ \A m \in Others : m.token \notin CallTokens /\ m.body \in {"object", "broken", "list"}
  /\ MostRequests \in Nat \ {0}
  /\ MaxOthers \in Nat

VARIABLES
  server,   \* _model_requests, and the tools that ran with their selections
  stage,    \* what a call is doing
  net,      \* calls whose request is on its way
  profiles, \* the profiles that Home Assistant has
  cleared,  \* calls whose selection was dropped by a stop of the server
  arrived   \* how the request of a call came: "none", "timely" or "late"

callVars == <<server, stage, net, profiles, cleared, arrived>>

CallOf(c) == [token |-> c, id |-> c, tool |-> "image", entry |-> EntryOf[c]]

\* The profile that the context of a request resolves to, _resolve_profile_entry.
Resolved(c) == IF EntryOf[c] \in profiles THEN EntryOf[c] ELSE Bound

RequestOf(c) ==
  [surface |-> "http", from |-> Loopback, bearer |-> [header |-> NoValue, query |-> NoValue],
   body |-> "object", version |-> TRUE, method |-> "tools/call", id |-> c, params |-> TRUE,
   tool |-> "image", entry |-> Resolved(c), token |-> c]

Open == [host |-> {}, extra |-> {}, bearer |-> NoValue, query |-> FALSE]

CallsInit ==
  /\ server = Idle
  /\ stage = [c \in CallTokens |-> "idle"]
  /\ net = {}
  /\ profiles = Entries
  /\ cleared = {}
  /\ arrived = [c \in CallTokens |-> "none"]

-----------------------------------------------------------------------------
Room == Cardinality(server.retained) < MostRequests

\* register_model_request, and the request is sent.
Register(c) ==
  /\ stage[c] = "idle"
  /\ Room
  /\ server' = [server EXCEPT !.retained = @ \cup {CallOf(c)}]
  /\ stage' = [stage EXCEPT ![c] = "waiting"]
  /\ net' = net \cup {c}
  /\ UNCHANGED <<profiles, cleared, arrived>>

\* ModelResolutionError: the call fails before it is sent.
NoRoom(c) ==
  /\ stage[c] = "idle"
  /\ ~Room
  /\ stage' = [stage EXCEPT ![c] = "over"]
  /\ UNCHANGED <<server, net, profiles, cleared, arrived>>

\* The request of a call reaches the server.
Arrive(c) ==
  /\ c \in net
  /\ net' = net \ {c}
  /\ server' = Serve(Open, server, RequestOf(c)).server
  /\ arrived' = [arrived EXCEPT ![c] =
       IF stage[c] = "waiting" /\ c \notin cleared /\ Resolved(c) = EntryOf[c]
       THEN "timely" ELSE "late"]
  /\ UNCHANGED <<stage, profiles, cleared>>

\* The request is lost with its connection.
Lose(c) ==
  /\ c \in net
  /\ net' = net \ {c}
  /\ UNCHANGED <<server, stage, profiles, cleared, arrived>>

\* Mutant: a call that is over leaves its selection.
EndCallOnly(c) ==
  /\ stage[c] = "waiting"
  /\ stage' = [stage EXCEPT ![c] = "over"]
  /\ UNCHANGED <<server, net, profiles, cleared, arrived>>

\* The answer, an error or the timeout of 10 seconds ends the call, whose
\* selection is discarded.
EndCall(c) ==
  /\ stage[c] = "waiting"
  /\ stage' = [stage EXCEPT ![c] = "over"]
  /\ server' = Discard(server, c)
  /\ UNCHANGED <<net, profiles, cleared, arrived>>

\* Anybody's message, over HTTP or a WebSocket.
Other(m) ==
  /\ Len(server.ran) < MaxOthers
  /\ server' = Serve(Open, server, m).server
  /\ UNCHANGED <<stage, net, profiles, cleared, arrived>>

RemoveProfile(e) ==
  /\ e \in profiles
  /\ profiles' = profiles \ {e}
  /\ UNCHANGED <<server, stage, net, cleared, arrived>>

\* stop
Stop ==
  /\ server' = [server EXCEPT !.retained = {}]
  /\ cleared' = cleared \cup {c \in CallTokens : CallOf(c) \in server.retained}
  /\ UNCHANGED <<stage, net, profiles, arrived>>

CallsNext ==
  \/ \E c \in CallTokens : Register(c) \/ NoRoom(c) \/ Arrive(c) \/ Lose(c) \/ EndCall(c)
  \/ \E m \in Others : Other(m)
  \/ \E e \in Entries : RemoveProfile(e)
  \/ Stop

CallsSpec == CallsInit /\ [][CallsNext]_callVars

-----------------------------------------------------------------------------
(* Properties *)

CallsTypeOK ==
  /\ server \in [retained : SUBSET {CallOf(c) : c \in CallTokens},
                 ran : Seq([id : CallTokens \cup {m.id : m \in Others},
                            selection : Entries \cup {NoValue}])]
  /\ stage \in [CallTokens -> {"idle", "waiting", "over"}]
  /\ net \subseteq CallTokens /\ profiles \subseteq Entries /\ cleared \subseteq CallTokens
  /\ arrived \in [CallTokens -> {"none", "timely", "late"}]

\* The places at which call c was run under a selection.
RunsOf(c) == {i \in DOMAIN server.ran : server.ran[i].selection # NoValue /\ server.ran[i].id = c}

\* A selection serves the one call that it was registered for: under it runs
\* that call and nothing else, once, and exactly if its request arrives while the
\* agent waits, the server was not stopped meanwhile and the profile still exists;
\* and of a call that is over, or has arrived, nothing is retained.
SelectionIsTheCalls ==
  /\ \A i \in DOMAIN server.ran : server.ran[i].selection # NoValue =>
       \E c \in CallTokens : server.ran[i] = [id |-> c, selection |-> EntryOf[c]]
  /\ \A c \in CallTokens :
       /\ RunsOf(c) # {} <=> arrived[c] = "timely"
       /\ \A i, j \in RunsOf(c) : i = j
       /\ CallOf(c) \in server.retained => stage[c] = "waiting" /\ arrived[c] = "none"

\* The retained selections are bounded, and are of calls that will discard them.
RetainedBounded == Cardinality(server.retained) <= MostRequests

\* The server keeps selections for calls that can still use them, and uses them so.
SelectionsSound == CallsTypeOK /\ SelectionIsTheCalls /\ RetainedBounded

-----------------------------------------------------------------------------
(* The inductive invariant behind SelectionsSound *)

\* A selection is retained exactly while its request may come in time.
RetainedWhileWaiting ==
  \A c \in CallTokens :
    CallOf(c) \in server.retained <=>
      stage[c] = "waiting" /\ c \notin cleared /\ arrived[c] = "none"

\* A request is on its way at most once, and not before the call begins.
SentOnce ==
  /\ \A c \in net : stage[c] # "idle" /\ arrived[c] = "none"
  /\ \A c \in CallTokens : stage[c] = "idle" => arrived[c] = "none" /\ c \notin cleared

CallsIInv ==
  /\ CallsTypeOK /\ IsFiniteSet(server.retained)
  /\ SelectionIsTheCalls /\ RetainedBounded /\ RetainedWhileWaiting /\ SentOnce
=============================================================================
