--------------------------- MODULE OpenClawClient ---------------------------
(***************************************************************************)
(* openclaw_client.py: one WebSocket to the gateway, shared by all         *)
(* concurrent send_message calls of a profile.  A request is acknowledged, *)
(* its run completes by an event, and a final response repeats the result; *)
(* the receive loop of the socket hands these to the waiting calls.  A     *)
(* call that finds the client disconnected reconnects under connect_lock;  *)
(* unloading the profile calls disconnect(), which does not take the lock. *)
(***************************************************************************)
EXTENDS Integers, Sequences, FiniteSets

CONSTANTS Requests,      \* send_message calls
          Unloads,       \* tasks that unload the profile: disconnect()
          Answers,       \* first answers the gateway may give
          MaxSockets,    \* bound on the sockets ever opened
          MaxEarlyRuns,  \* _MAX_EARLY_EVENT_RUNS
          None

ASSUME RequestsAssumption ==
  /\ Unloads \cap Requests = {}
  /\ None \notin Requests \cup Unloads
  /\ Answers \subseteq {"accepted", "started", "replied", "refused"}
  /\ MaxSockets \in Nat \ {0}
  /\ MaxEarlyRuns \in Nat \ {0}

Tasks == Requests \cup Unloads
Sockets == 1 .. MaxSockets
NoSocket == 0

VARIABLES
  pc,         \* where each task is suspended
  connected,  \* self._connected
  ws,         \* self._ws
  connectLock,\* the request holding self._connect_lock
  readers,    \* sockets whose _receive_loop task runs
  opened,     \* sockets opened so far (1 .. opened)
  net,        \* per socket: open, lost (by the network) or closed (by us)
  chan,       \* per socket: messages from the gateway not yet read
  pending,    \* self._pending_requests
  finals,     \* self._final_responses
  runs,       \* self._agent_runs
  early,      \* self._early_agent_events, oldest run first
  ack,        \* per request: its acknowledgment future
  final,      \* per request: its final response future
  status,     \* per request: the status of its _AgentRun
  gateway,    \* what the gateway has sent for a request
  sentOn,     \* per task: the socket it uses, or is about to close
  outcome,    \* how a request ended
  seen        \* the completion event the receive loop has handled for a live request (history)

client == <<connected, ws, readers, opened>>
futures == <<pending, finals, runs, early, ack, final, status>>
world == <<net, chan, gateway>>
vars == <<pc, connectLock, client, futures, world, sentOn, outcome, seen>>

-----------------------------------------------------------------------------
\* The profile is set up: the client is connected by its first socket.
Init ==
  /\ pc = [t \in Tasks |-> "idle"]
  /\ connected = TRUE
  /\ ws = 1
  /\ connectLock = None
  /\ readers = {1}
  /\ opened = 1
  /\ net = [s \in Sockets |-> IF s = 1 THEN "open" ELSE "unused"]
  /\ chan = [s \in Sockets |-> <<>>]
  /\ pending = {}
  /\ finals = {}
  /\ runs = {}
  /\ early = <<>>
  /\ ack = [r \in Requests |-> "wait"]
  /\ final = [r \in Requests |-> "wait"]
  /\ status = [r \in Requests |-> "none"]
  /\ gateway = [r \in Requests |-> {}]
  /\ sentOn = [t \in Tasks |-> NoSocket]
  /\ outcome = [r \in Requests |-> "none"]
  /\ seen = [r \in Requests |-> "none"]

Goto(t, label) == pc' = [pc EXCEPT ![t] = label]

IsConnected == connected /\ ws # NoSocket

\* _fail_inflight: fail what waits, leave what is already answered.
FailInflight(clearEarly) ==
  /\ ack' = [r \in Requests |->
       IF r \in pending /\ ack[r] = "wait" THEN "lost" ELSE ack[r]]
  /\ final' = [r \in Requests |->
       IF r \in finals /\ final[r] = "wait" THEN "lost" ELSE final[r]]
  /\ status' = [r \in Requests |->
       IF r \in runs /\ status[r] = "none" THEN "error" ELSE status[r]]
  /\ pending' = {} /\ finals' = {} /\ runs' = {}
  /\ early' = IF clearEarly THEN <<>> ELSE early

\* _teardown_connection detaches the socket and cancels the keepalive task.  The
\* receive loop still runs, and reads what arrives, while that task is awaited.
Detach(t) ==
  /\ connected' = FALSE
  /\ ws' = NoSocket
  /\ sentOn' = [sentOn EXCEPT ![t] = ws]

\* Then it cancels the loop, which leaves its cleanup to the teardown.
LoopCancelled(t) ==
  /\ pc[t] = "tearing"
  /\ sentOn[t] \in readers
  /\ readers' = readers \ {sentOn[t]}
  /\ UNCHANGED <<pc, connectLock, connected, ws, opened, futures, world, sentOn, outcome, seen>>

\* Both are gone: fail what is in flight and close the detached socket.
CloseDetached(t, clearEarly) ==
  /\ sentOn[t] \notin readers
  /\ FailInflight(clearEarly)
  /\ IF sentOn[t] # NoSocket
     THEN /\ net' = [net EXCEPT ![sentOn[t]] = "closed"]
          /\ chan' = [chan EXCEPT ![sentOn[t]] = <<>>]
     ELSE UNCHANGED <<net, chan>>

-----------------------------------------------------------------------------
(* send_message *)

\* Register both futures and start to send; the gateway may answer before
\* send() returns.
Dispatch(r, s) ==
  /\ pending' = pending \cup {r}
  /\ finals' = finals \cup {r}
  /\ sentOn' = [sentOn EXCEPT ![r] = s]
  /\ gateway' = [gateway EXCEPT ![r] = IF net[s] = "open" THEN {"request"} ELSE {}]
  /\ Goto(r, "sending")
  /\ UNCHANGED <<runs, early, ack, final, status, outcome, seen, net, chan>>

SendConnected(r) ==
  /\ pc[r] = "idle"
  /\ IsConnected
  /\ Dispatch(r, ws)
  /\ UNCHANGED <<client, connectLock>>

SendDisconnected(r) ==
  /\ pc[r] = "idle"
  /\ ~IsConnected
  /\ Goto(r, "wantConnect")
  /\ UNCHANGED <<connectLock, client, futures, world, sentOn, outcome, seen>>

\* Another request has reconnected while this one waited for the lock.
AlreadyConnected(r) ==
  /\ pc[r] = "wantConnect"
  /\ connectLock = None
  /\ IsConnected
  /\ Dispatch(r, ws)
  /\ UNCHANGED <<client, connectLock>>

BeginConnect(r) ==
  /\ pc[r] = "wantConnect"
  /\ connectLock = None
  /\ ~IsConnected
  /\ connectLock' = r
  /\ Detach(r)
  /\ Goto(r, "tearing")
  /\ UNCHANGED <<readers, opened, futures, world, outcome, seen>>

OldConnectionGone(r) ==
  /\ pc[r] = "tearing"
  /\ CloseDetached(r, FALSE)
  /\ Goto(r, "opening")
  /\ UNCHANGED <<connectLock, client, gateway, sentOn, outcome, seen>>

SocketOpened(r) ==
  /\ pc[r] = "opening"
  /\ opened < MaxSockets
  /\ opened' = opened + 1
  /\ ws' = opened'
  /\ net' = [net EXCEPT ![opened'] = "open"]
  /\ Goto(r, "handshake")
  /\ UNCHANGED <<connectLock, connected, readers, futures, chan, gateway,
                 sentOn, outcome, seen>>

End(r, how) ==
  /\ Goto(r, "done")
  /\ outcome' = [outcome EXCEPT ![r] = how]

\* Mutant: a reconnect that cannot open a socket keeps the connect lock.
OpenFailsLocked(r) ==
  /\ pc[r] = "opening"
  /\ End(r, "lost")
  /\ UNCHANGED <<connectLock, client, futures, world, sentOn, seen>>

OpenFails(r) ==
  /\ pc[r] = "opening"
  /\ connectLock' = None
  /\ End(r, "lost")
  /\ UNCHANGED <<client, futures, world, sentOn, seen>>

\* The handshake is answered: connected, with a receive loop of its own.
HandshakeDone(r) ==
  /\ pc[r] = "handshake"
  /\ ws # NoSocket
  /\ net[ws] = "open"
  /\ connected' = TRUE
  /\ readers' = readers \cup {ws}
  /\ connectLock' = None
  /\ Dispatch(r, ws)
  /\ UNCHANGED <<ws, opened>>

\* Refused, lost, or the socket was taken away by disconnect().
HandshakeFails(r) ==
  /\ pc[r] = "handshake"
  /\ ws' = NoSocket
  /\ net' = IF ws = NoSocket THEN net ELSE [net EXCEPT ![ws] = "closed"]
  /\ connectLock' = None
  /\ End(r, "lost")
  /\ UNCHANGED <<connected, readers, opened, futures, chan, gateway, sentOn, seen>>

Sent(r) ==
  /\ pc[r] = "sending"
  /\ net[sentOn[r]] = "open" \/ gateway[r] # {}
  /\ Goto(r, "awaitAck")
  /\ UNCHANGED <<connectLock, client, futures, world, sentOn, outcome, seen>>

\* The buffered events without those of r; a run completes once.
EarlyWithout(r) ==
  LET at == CHOOSE i \in DOMAIN early : early[i][1] = r
  IN  IF \E i \in DOMAIN early : early[i][1] = r
      THEN SubSeq(early, 1, at - 1) \o SubSeq(early, at + 1, Len(early))
      ELSE early

\* The finally block of send_message: nothing of the request stays behind.
Forget(r) ==
  /\ pending' = pending \ {r}
  /\ finals' = finals \ {r}
  /\ runs' = runs \ {r}
  /\ ack' = [ack EXCEPT ![r] = "wait"]
  /\ final' = [final EXCEPT ![r] = "wait"]
  /\ status' = [status EXCEPT ![r] = "none"]
  /\ early' = IF pc[r] \in {"awaitRun", "grace"}
              THEN EarlyWithout(r) ELSE early

Finish(r, how) ==
  /\ End(r, how)
  /\ Forget(r)
  /\ UNCHANGED <<connectLock, client, world, sentOn, seen>>

SendFails(r) ==
  /\ pc[r] = "sending"
  /\ net[sentOn[r]] # "open"
  /\ Finish(r, "unsent")

AckTimeout(r) ==
  /\ pc[r] = "awaitAck"
  /\ ack[r] = "wait"
  /\ Finish(r, "timeout")

AckRefused(r) ==
  /\ pc[r] = "awaitAck"
  /\ ack[r] \in {"refused", "lost"}
  /\ Finish(r, IF ack[r] = "lost" THEN "lost" ELSE "failed")

\* Events that came before the run was known are replayed.
Replayed(r) ==
  IF \E i \in DOMAIN early : early[i][1] = r
  THEN early[CHOOSE i \in DOMAIN early : early[i][1] = r][2]
  ELSE "none"

\* Mutant: buffered events are dropped instead of replayed.
RegisterRunFresh(r) ==
  /\ pc[r] = "awaitAck"
  /\ ack[r] \in {"accepted", "started", "replied"}
  /\ Replayed(r) # "none" \/ final[r] # "wait" \/ IsConnected
  /\ runs' = runs \cup {r}
  /\ early' = EarlyWithout(r)
  /\ Goto(r, "awaitRun")
  /\ UNCHANGED <<connectLock, client, world, pending, finals, ack, final,
                 status, sentOn, outcome, seen>>

\* Acknowledged: register the run, unless the connection went meanwhile.
RegisterRun(r) ==
  /\ pc[r] = "awaitAck"
  /\ ack[r] \in {"accepted", "started", "replied"}
  /\ Replayed(r) # "none" \/ final[r] # "wait" \/ IsConnected
  /\ runs' = runs \cup {r}
  /\ status' = [status EXCEPT ![r] = Replayed(r)]
  /\ early' = EarlyWithout(r)
  /\ Goto(r, "awaitRun")
  /\ UNCHANGED <<connectLock, client, world, pending, finals, ack, final,
                 sentOn, outcome, seen>>

RegisterLost(r) ==
  /\ pc[r] = "awaitAck"
  /\ ack[r] \in {"accepted", "started", "replied"}
  /\ ~(Replayed(r) # "none" \/ final[r] # "wait" \/ IsConnected)
  /\ Finish(r, "lost")

RunTimeout(r) ==
  /\ pc[r] = "awaitRun"
  /\ final[r] = "wait"
  /\ status[r] = "none"
  /\ Finish(r, "timeout")

\* The run is complete and its final response still to come.
EnterGrace(r) ==
  /\ pc[r] = "awaitRun"
  /\ final[r] = "wait"
  /\ status[r] = "ok"
  /\ ack[r] = "accepted"
  /\ Goto(r, "grace")
  /\ UNCHANGED <<connectLock, client, futures, world, sentOn, outcome, seen>>

\* What send_message returns or raises once it stops waiting.
Result(r) ==
  CASE final[r] \in {"failed", "reply"}       -> final[r]
    [] final[r] = "lost" /\ status[r] # "ok"  -> "lost"
    [] final[r] = "wait" /\ status[r] # "ok"  -> "failed"
    [] OTHER                                  -> "stream"

Return(r) ==
  /\ \/ pc[r] = "awaitRun" /\ (final[r] # "wait" \/ status[r] = "error")
     \/ pc[r] = "awaitRun" /\ status[r] = "ok" /\ ack[r] # "accepted"
     \/ pc[r] = "grace"   \* the response came, or FINAL_RESPONSE_GRACE ended
  /\ Finish(r, Result(r))

\* Home Assistant cancels the conversation while the call waits.
Cancel(r) ==
  /\ pc[r] \in {"sending", "awaitAck", "awaitRun", "grace"}
  /\ Finish(r, "cancelled")

-----------------------------------------------------------------------------
(* The receive loop and the keepalive loop *)

\* _handle_message for a response: the first one resolves the
\* acknowledgment; it is also the final one unless it says the run was
\* accepted, or (an older gateway) only names the run it started.
TakeResponse(r, kind) ==
  LET first == r \in pending IN
  /\ ack' = IF first THEN [ack EXCEPT ![r] = kind] ELSE ack
  /\ pending' = pending \ {r}
  /\ IF (first /\ kind \in {"accepted", "started"}) \/ r \notin finals
     THEN UNCHANGED <<finals, final>>
     ELSE /\ finals' = finals \ {r}
          /\ final' = [final EXCEPT ![r] =
               IF final[r] # "wait" THEN final[r]
               ELSE IF kind \in {"refused", "failed"} THEN "failed" ELSE "reply"]
  /\ UNCHANGED <<runs, early, status, seen>>

\* _handle_agent_event for a completion: apply it, or buffer it while its
\* run is not registered.
TakeCompletion(r, how) ==
  /\ seen' = IF pc[r] = "done" THEN seen ELSE [seen EXCEPT ![r] = how]
  /\ IF r \in runs
     THEN /\ status' = [status EXCEPT ![r] = how]
          /\ UNCHANGED early
     ELSE /\ early' = LET all == Append(early, <<r, how>>)
                      IN  IF Len(all) > MaxEarlyRuns THEN Tail(all) ELSE all
          /\ UNCHANGED status
  /\ UNCHANGED <<pending, finals, runs, ack, final>>

Receive(s) ==
  /\ s \in readers
  /\ chan[s] # <<>>
  /\ LET m == Head(chan[s])
     IN  \/ m.type = "res" /\ TakeResponse(m.req, m.kind)
         \/ m.type = "event" /\ TakeCompletion(m.req, m.kind)
  /\ chan' = [chan EXCEPT ![s] = Tail(@)]
  /\ UNCHANGED <<pc, connectLock, client, net, gateway, sentOn, outcome>>

\* Mutant: a loop does not look whose socket is in use when it ends.
ReaderEndsHasty(s) ==
  /\ s \in readers
  /\ net[s] # "open"
  /\ chan[s] = <<>>
  /\ readers' = readers \ {s}
  /\ connected' = FALSE /\ FailInflight(FALSE)
  /\ UNCHANGED <<pc, connectLock, ws, opened, world, sentOn, outcome, seen>>

\* The socket is gone and everything it delivered is read: a loop whose socket
\* is no longer the one in use leaves the state alone.
ReaderEnds(s) ==
  /\ s \in readers
  /\ net[s] # "open"
  /\ chan[s] = <<>>
  /\ readers' = readers \ {s}
  /\ IF ws = s
     THEN connected' = FALSE /\ FailInflight(FALSE)
     ELSE UNCHANGED <<connected, futures>>
  /\ UNCHANGED <<pc, connectLock, ws, opened, world, sentOn, outcome, seen>>

\* A ping fails before the receive loop has noticed: only the flag changes.
KeepaliveFails ==
  /\ IsConnected
  /\ net[ws] = "lost"
  /\ connected' = FALSE
  /\ UNCHANGED <<pc, connectLock, ws, readers, opened, futures, world, sentOn,
                 outcome, seen>>

-----------------------------------------------------------------------------
(* disconnect(), called once, when the profile is unloaded *)

Disconnect(u) ==
  /\ pc[u] = "idle"
  /\ Detach(u)
  /\ Goto(u, "tearing")
  /\ UNCHANGED <<connectLock, readers, opened, futures, world, outcome, seen>>

Disconnected(u) ==
  /\ pc[u] = "tearing"
  /\ CloseDetached(u, TRUE)
  /\ Goto(u, "done")
  /\ UNCHANGED <<connectLock, client, gateway, sentOn, outcome, seen>>

-----------------------------------------------------------------------------
(* The gateway and the network, outside this repository *)

Deliver(r, m) ==
  /\ net[sentOn[r]] = "open"
  /\ chan' = [chan EXCEPT ![sentOn[r]] = Append(@, m)]
  /\ UNCHANGED <<pc, connectLock, client, futures, net, sentOn, outcome, seen>>

\* The first answer: accepted, the whole reply at once, or refused.
GatewayAnswers(r) ==
  /\ gateway[r] = {"request"}
  /\ sentOn[r] # NoSocket
  /\ \E kind \in Answers :
       /\ gateway' = [gateway EXCEPT ![r] = @ \cup
            CASE kind \in {"accepted", "started"} -> {"answer"}
              [] kind = "replied" -> {"answer", "final"}
              [] kind = "refused" -> {"answer", "final", "event"}]
       /\ Deliver(r, [type |-> "res", req |-> r, kind |-> kind])

GatewayCompletes(r) ==
  /\ "answer" \in gateway[r] /\ "event" \notin gateway[r]
  /\ gateway' = [gateway EXCEPT ![r] = @ \cup {"event"}]
  /\ \E how \in {"ok", "error"} :
       Deliver(r, [type |-> "event", req |-> r, kind |-> how])

GatewayFinal(r) ==
  /\ "answer" \in gateway[r] /\ "final" \notin gateway[r]
  /\ gateway' = [gateway EXCEPT ![r] = @ \cup {"final"}]
  /\ \E kind \in {"reply", "failed"} :
       Deliver(r, [type |-> "res", req |-> r, kind |-> kind])

\* The connection breaks; what has arrived can still be read.
Lose(s) ==
  /\ net[s] = "open"
  /\ net' = [net EXCEPT ![s] = "lost"]
  /\ UNCHANGED <<pc, connectLock, client, futures, chan, gateway, sentOn,
                 outcome, seen>>

-----------------------------------------------------------------------------
Proceed(r) ==
  \/ AlreadyConnected(r) \/ BeginConnect(r)
  \/ LoopCancelled(r) \/ OldConnectionGone(r) \/ SocketOpened(r) \/ OpenFails(r)
  \/ HandshakeDone(r) \/ HandshakeFails(r)
  \/ Sent(r) \/ SendFails(r) \/ AckRefused(r)
  \/ RegisterRun(r) \/ RegisterLost(r) \/ EnterGrace(r) \/ Return(r)

SendMessage(r) ==
  \/ SendConnected(r) \/ SendDisconnected(r) \/ Proceed(r)
  \/ AckTimeout(r) \/ RunTimeout(r) \/ Cancel(r)

Gateway(r) == GatewayAnswers(r) \/ GatewayCompletes(r) \/ GatewayFinal(r)

Next ==
  \/ \E r \in Requests : SendMessage(r) \/ Gateway(r)
  \/ \E s \in Sockets : Receive(s) \/ ReaderEnds(s) \/ Lose(s)
  \/ KeepaliveFails
  \/ \E u \in Unloads : Disconnect(u) \/ LoopCancelled(u) \/ Disconnected(u)

Spec == Init /\ [][Next]_vars

\* Tasks that can continue do; the timeouts are not needed for any of it, and
\* the gateway may stay silent.
FairSpec ==
  /\ Spec
  /\ \A r \in Requests : SF_vars(Proceed(r))
  /\ \A s \in Sockets : WF_vars(Receive(s) \/ ReaderEnds(s))
  /\ \A u \in Unloads : WF_vars(LoopCancelled(u) \/ Disconnected(u))

-----------------------------------------------------------------------------
Waiting == {"sending", "awaitAck", "awaitRun", "grace"}
Connecting == {"tearing", "opening", "handshake"}
Messages ==
  [type : {"res"}, req : Requests,
   kind : {"accepted", "started", "replied", "refused", "reply", "failed"}]
  \cup [type : {"event"}, req : Requests, kind : {"ok", "error"}]

TypeOK ==
  /\ pc \in [Tasks -> Waiting \cup Connecting \cup {"idle", "wantConnect", "done"}]
  /\ connected \in BOOLEAN
  /\ ws \in Sockets \cup {NoSocket}
  /\ connectLock \in Requests \cup {None}
  /\ readers \subseteq Sockets
  /\ opened \in Sockets
  /\ net \in [Sockets -> {"unused", "open", "lost", "closed"}]
  /\ chan \in [Sockets -> Seq(Messages)]
  /\ pending \subseteq Requests /\ finals \subseteq Requests /\ runs \subseteq Requests
  /\ early \in Seq(Requests \X {"ok", "error"})
  /\ ack \in [Requests -> {"wait", "accepted", "started", "replied", "refused",
                           "reply", "failed", "lost"}]
  /\ final \in [Requests -> {"wait", "reply", "failed", "lost"}]
  /\ status \in [Requests -> {"none", "ok", "error"}]
  /\ gateway \in [Requests -> SUBSET {"request", "answer", "event", "final"}]
  /\ sentOn \in [Tasks -> Sockets \cup {NoSocket}]
  /\ outcome \in [Requests -> {"none", "reply", "stream", "failed", "lost",
                               "unsent", "timeout", "cancelled"}]
  /\ seen \in [Requests -> {"none", "ok", "error"}]

\* A connected client reads its socket, and as long as it reads an open one it
\* is connected: whatever stale loop or reconnect came before, nobody can register
\* a request that no receive loop will ever fail, or needs to connect again.
ConnectedHasReader ==
  /\ IsConnected => ws \in readers
  /\ ws \in readers /\ net[ws] = "open" => connected

\* However many requests find the client disconnected, they share one new
\* socket (connect() checks again under connect_lock).
OneConnection ==
  \A s \in Sockets \ {ws} :
    net[s] = "open" =>
      \E t \in Tasks : pc[t] = "tearing" /\ sentOn[t] = s

Unloading == \E u \in Unloads : pc[u] # "idle"

\* A completion that the receive loop has handled is not dropped before its
\* caller has used it, whatever the order in which acknowledgment, completion,
\* registration, connection loss and reconnect come.
CompletionKept ==
  \A r \in Requests :
    seen[r] # "none" /\ ~Unloading /\ final[r] # "lost" =>
      /\ pc[r] \in {"sending", "awaitAck"} => Replayed(r) = seen[r]
      /\ pc[r] \in {"awaitRun", "grace"} => status[r] = seen[r]

\* A run that completed ok is not turned into a connection error by a
\* connection that is lost, or replaced, afterwards.
OkSurvivesLoss ==
  \A r \in Requests :
    seen[r] = "ok" /\ outcome[r] \in {"lost", "timeout"} => Unloading

\* A call that still waits for its answer is registered where the receive loop
\* of its own socket, or a teardown already under way, will find and end it.
WaitersWatched ==
  \A r \in Requests :
    \/ pc[r] \in {"sending", "awaitAck"} /\ ack[r] = "wait"
    \/ pc[r] = "awaitRun" /\ final[r] = "wait" /\ status[r] = "none"
    => /\ r \in pending \cup runs /\ r \in finals
       /\ \/ sentOn[r] = ws /\ ws \in readers
          \/ \E t \in Tasks : pc[t] = "tearing" /\ sentOn[t] = sentOn[r]

\* A call on the connection in use is not failed for the loss of another one: a
\* loop whose socket was replaced ends without effect, and only disconnect(),
\* which fails everything in flight, may have failed it.
LossIsOwn ==
  \A r \in Requests :
    pc[r] \in Waiting /\ "lost" \in {ack[r], final[r]} /\ sentOn[r] = ws /\ connected
    => \E u \in Unloads : pc[u] = "done"

\* One connection at most, whose reader ends the calls that wait on it.
ConnectionSound ==
  TypeOK /\ ConnectedHasReader /\ OneConnection /\ WaitersWatched /\ LossIsOwn

\* What the gateway answers reaches the caller: the call is where the receive loop
\* finds it, and what the loop has handled is not lost.
AnswersKept == WaitersWatched /\ CompletionKept /\ OkSurvivesLoss

\* Callers of a dead connection fail fast: once the socket is gone they end,
\* without any timeout and without a word from the gateway.
FailFast ==
  \A r \in Requests :
    pc[r] \in Waiting /\ net[sentOn[r]] # "open" ~> pc[r] = "done"

\* connect_lock is always given back.
ReconnectEnds ==
  \A r \in Requests : pc[r] \in {"wantConnect"} \cup Connecting
    ~> pc[r] \in Waiting \cup {"done"}

\* No call waits on a dead socket or for the lock of another one's reconnect.
WaitsEnd == FailFast /\ ReconnectEnds

\* After disconnect() has returned and every call has ended the client holds
\* no connection.
DisconnectIsFinal ==
  Unloading /\ (\A t \in Tasks : pc[t] = "done") =>
    \A s \in Sockets : net[s] # "open"

-----------------------------------------------------------------------------
(* The inductive invariant behind ConnectionSound *)

\* Whoever connects holds the lock; until it is done nobody is connected, the
\* old socket is detached, and the new one has no reader yet.
LockHeld ==
  /\ connectLock # None => ~connected
  /\ \A r \in Requests :
       /\ pc[r] \in Connecting => connectLock = r
       /\ pc[r] \in {"tearing", "opening"} => ws = NoSocket
       /\ pc[r] = "handshake" => ws \notin readers

\* A socket that is still to be opened is nobody's, until its handshake is done no
\* call is sent on it, and one that is torn down is never in use again.
SocketsCounted ==
  /\ ws \in 0 .. opened /\ readers \subseteq 1 .. opened
  /\ \A t \in Tasks : sentOn[t] <= opened
  /\ \A r, q \in Requests : pc[r] = "handshake" /\ ws # NoSocket => sentOn[q] # ws
  /\ \A t \in Tasks : pc[t] = "tearing" /\ ws # NoSocket => sentOn[t] # ws

Watched(r) ==
  \/ sentOn[r] = ws /\ ws \in readers
  \/ \E t \in Tasks : pc[t] = "tearing" /\ sentOn[t] = sentOn[r]

\* A call has futures only while it waits, and those that are not resolved are
\* where the receive loop, or a teardown, finds them.
CallsRegistered ==
  \A r \in Requests :
    /\ pc[r] \notin Waiting =>
         /\ r \notin pending \cup finals \cup runs
         /\ ack[r] = "wait" /\ final[r] = "wait" /\ status[r] = "none"
    /\ pc[r] \in {"sending", "awaitAck"} /\ ack[r] = "wait" => r \in pending /\ final[r] = "wait"
    /\ pc[r] = "awaitRun" /\ status[r] = "none" /\ final[r] = "wait" => r \in runs
    /\ pc[r] \in Waiting /\ final[r] = "wait" => r \in finals /\ Watched(r)

IInv ==
  /\ TypeOK
  /\ LockHeld
  /\ SocketsCounted
  /\ CallsRegistered
  /\ ConnectedHasReader
  /\ OneConnection
  /\ LossIsOwn
-----------------------------------------------------------------------------
(* The inductive invariant behind AnswersKept *)

\* The receive loop that runs is that of the socket in use, or of the one that
\* a reconnect is tearing down.
OneReader ==
  /\ \A s \in readers : s = ws \/ \E r \in Requests : pc[r] = "tearing" /\ sentOn[r] = s
  /\ \A r \in Requests : pc[r] \in Waiting => sentOn[r] # NoSocket

\* Nothing is said of a call before it is sent, and it ends once.
Asked ==
  \A r \in Requests :
    /\ pc[r] \notin Waiting \cup {"done"} => gateway[r] = {} /\ seen[r] = "none"
    /\ pc[r] # "done" => outcome[r] = "none"
    /\ seen[r] # "none" => "event" \in gateway[r]

IsEvent(m, r) == m.type = "event" /\ m.req = r
IsResponse(m, r) == m.type = "res" /\ m.req = r
Unanswered(r) == pc[r] \in {"sending", "awaitAck"} /\ ack[r] = "wait"

\* Messages of a call come on its own socket; its completion comes once, after
\* the first answer, and is not handled or buffered before.
OnTheWay ==
  \A s \in Sockets : \A i \in DOMAIN chan[s] : \A r \in Requests :
    /\ chan[s][i].req = r => sentOn[r] = s /\ pc[r] \in Waiting \cup {"done"}
    /\ IsEvent(chan[s][i], r) =>
         /\ "event" \in gateway[r] /\ seen[r] = "none"
         /\ \A n \in DOMAIN early : early[n][1] # r
         /\ \A j \in DOMAIN chan[s] : IsEvent(chan[s][j], r) => i = j
         /\ Unanswered(r) => \E j \in 1..(i - 1) : IsResponse(chan[s][j], r)

\* The answer that a call has not had is still to be read.
AnswerFirst ==
  \A r \in Requests : Unanswered(r) =>
    /\ seen[r] = "none"
    /\ "answer" \in gateway[r] /\ net[sentOn[r]] = "open" =>
         \E i \in DOMAIN chan[sentOn[r]] : IsResponse(chan[sentOn[r]][i], r)

\* The buffer holds the completion of each run that is not registered, once.
Buffered ==
  /\ \A i \in DOMAIN early : \A r \in Requests : early[i][1] = r =>
       /\ "event" \in gateway[r] /\ pc[r] \in {"sending", "awaitAck", "done"}
       /\ pc[r] # "done" => seen[r] = early[i][2]
  /\ \A i, j \in DOMAIN early : early[i][1] = early[j][1] => i = j
  /\ \A r \in Requests : pc[r] \in {"sending", "awaitAck"} /\ seen[r] # "none" =>
       \E i \in DOMAIN early : early[i][1] = r

\* A run is registered until it ends or its connection does, and knows of the
\* completion that was handled; nothing more is read for a call that was
\* failed with its connection.
Registered ==
  \A r \in Requests :
    /\ r \in runs => pc[r] \in {"awaitRun", "grace"}
    /\ pc[r] \in {"sending", "awaitAck"} => status[r] = "none"
    /\ pc[r] \in {"awaitRun", "grace"} =>
         /\ ack[r] \notin {"wait", "lost"}
         /\ r \notin runs => sentOn[r] \notin readers
         /\ seen[r] # "none" => status[r] = seen[r]
    /\ pc[r] \in Waiting /\ ack[r] = "lost" => sentOn[r] \notin readers /\ seen[r] = "none"

\* A completion handled with ok is not followed by a connection error.
OkKept == \A r \in Requests : seen[r] = "ok" => outcome[r] \notin {"lost", "timeout"}

Keeping ==
  OneReader /\ Asked /\ OnTheWay /\ AnswerFirst /\ Buffered /\ Registered /\ OkKept

\* With IInv, inductive as long as the buffer has room.
Kept == ~Unloading => Keeping

\* The buffer has room for the completion of every run that is not in it.
Room ==
  \A r \in Requests :
    (\E i \in DOMAIN early : early[i][1] = r) \/ Len(early) < MaxEarlyRuns
=============================================================================
