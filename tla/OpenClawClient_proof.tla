------------------------ MODULE OpenClawClient_proof ------------------------
(***************************************************************************)
(* OpenClawClient, for any number of calls, unloads and sockets: one       *)
(* connection at most, with a reader, and no call that nobody will end;    *)
(* and the completions that are handled reach their callers as long as the *)
(* buffer of early events has room.                                        *)
(***************************************************************************)
EXTENDS OpenClawClient, SequenceTheorems, FiniteSetTheorems, TLAPS

\* Taking the events of a run out of the buffer leaves a buffer.
LEMMA EarlyWithoutType ==
  ASSUME NEW S, early \in Seq(S), NEW r
  PROVE  EarlyWithout(r) \in Seq(S)
<1> DEFINE at == CHOOSE i \in DOMAIN early : early[i][1] = r
<1>1. CASE \E i \in DOMAIN early : early[i][1] = r
  <2>1. at \in 1 .. Len(early)
    BY <1>1
  <2> HIDE DEF at
  <2>2. SubSeq(early, 1, at - 1) \in Seq(S)
    BY <2>1, SubSeqProperties
  <2>3. SubSeq(early, at + 1, Len(early)) \in Seq(S)
    BY <2>1, SubSeqProperties
  <2>4. SubSeq(early, 1, at - 1) \o SubSeq(early, at + 1, Len(early)) \in Seq(S)
    BY <2>2, <2>3, ConcatProperties
  <2> QED
    BY <1>1, <2>4 DEF EarlyWithout, at
<1>2. CASE ~\E i \in DOMAIN early : early[i][1] = r
  BY <1>2 DEF EarlyWithout
<1> QED
  BY <1>1, <1>2

\* So does buffering another event, and dropping the oldest for it.
LEMMA BufferType ==
  ASSUME NEW S, NEW buffer \in Seq(S), NEW event \in S
  PROVE  Append(buffer, event) \in Seq(S) /\ Tail(Append(buffer, event)) \in Seq(S)
<1>1. Append(buffer, event) \in Seq(S) /\ Append(buffer, event) # <<>>
  BY AppendProperties
<1> QED
  BY <1>1, HeadTailProperties

\* The first socket is connected and read, and no call has begun.
LEMMA InitIInv == Init => IInv
<1> SUFFICES ASSUME Init PROVE IInv
  OBVIOUS
<1> USE RequestsAssumption DEF Init, Tasks, Sockets, NoSocket
<1>1. TypeOK
  <2>1. /\ pc \in [Tasks -> Waiting \cup Connecting \cup {"idle", "wantConnect", "done"}]
        /\ sentOn \in [Tasks -> Sockets \cup {NoSocket}]
    OBVIOUS
  <2>2. /\ ws \in Sockets \cup {NoSocket} /\ connectLock \in Requests \cup {None}
        /\ readers \subseteq Sockets /\ opened \in Sockets
    OBVIOUS
  <2>3. connected \in BOOLEAN
    OBVIOUS
  <2>4. /\ net \in [Sockets -> {"unused", "open", "lost", "closed"}]
        /\ chan \in [Sockets -> Seq(Messages)]
        /\ early \in Seq(Requests \X {"ok", "error"})
    OBVIOUS
  <2>5. /\ pending \subseteq Requests /\ finals \subseteq Requests /\ runs \subseteq Requests
        /\ ack \in [Requests -> {"wait", "accepted", "started", "replied", "refused",
                                 "reply", "failed", "lost"}]
        /\ final \in [Requests -> {"wait", "reply", "failed", "lost"}]
        /\ status \in [Requests -> {"none", "ok", "error"}]
    OBVIOUS
  <2>6. /\ gateway \in [Requests -> SUBSET {"request", "answer", "event", "final"}]
        /\ outcome \in [Requests -> {"none", "reply", "stream", "failed", "lost",
                                     "unsent", "timeout", "cancelled"}]
        /\ seen \in [Requests -> {"none", "ok", "error"}]
    OBVIOUS
  <2> QED
    BY <2>1, <2>2, <2>3, <2>4, <2>5, <2>6 DEF TypeOK
<1>2. LockHeld /\ SocketsCounted
  BY DEF LockHeld, SocketsCounted, Connecting
<1>3. CallsRegistered
  BY DEF CallsRegistered, Waiting
<1>4. ConnectedHasReader
  BY DEF ConnectedHasReader
<1>5. OneConnection
  BY DEF OneConnection
<1>6. LossIsOwn
  BY DEF LossIsOwn, Waiting
<1> QED
  BY <1>1, <1>2, <1>3, <1>4, <1>5, <1>6 DEF IInv

\* A call that finds the client connected registers and sends.
LEMMA SendConnectedStep ==
  ASSUME IInv, NEW r \in Requests, SendConnected(r)
  PROVE  IInv'
<1> USE RequestsAssumption DEF IInv, SendConnected, Dispatch,
        client, futures, world, Goto, Tasks, Sockets, NoSocket
<1>1. TypeOK'
  BY DEF TypeOK, Waiting, Connecting
<1>2. LockHeld'
  BY DEF TypeOK, LockHeld, SocketsCounted, Connecting
<1>3. SocketsCounted'
  <2>1. \A q \in Requests : pc[q] # "handshake"
    BY DEF TypeOK, LockHeld, IsConnected, Connecting
  <2>2. \A t \in Tasks : pc'[t] \in {pc[t], "sending"}
    BY DEF TypeOK
  <2>3. \A q \in Requests : pc'[q] # "handshake"
    BY <2>1, <2>2
  <2>4. /\ ws' \in 0 .. opened' /\ readers' \subseteq 1 .. opened'
        /\ \A t \in Tasks : sentOn'[t] <= opened'
    BY DEF TypeOK, SocketsCounted
  <2>5. \A t \in Tasks : pc'[t] = "tearing" /\ ws' # NoSocket => sentOn'[t] # ws'
    BY DEF TypeOK, SocketsCounted
  <2> QED
    BY <2>3, <2>4, <2>5 DEF SocketsCounted
<1>4. CallsRegistered'
  BY DEF TypeOK, CallsRegistered, Watched, LockHeld, SocketsCounted, ConnectedHasReader,
     IsConnected, Waiting, Connecting
<1>5. ConnectedHasReader'
  BY DEF TypeOK, LockHeld, SocketsCounted, ConnectedHasReader, IsConnected, Connecting
<1>6. OneConnection'
  BY DEF TypeOK, LockHeld, OneConnection, Connecting
<1>7. LossIsOwn'
  BY DEF TypeOK, LockHeld, SocketsCounted, CallsRegistered, LossIsOwn, Waiting, Connecting
<1> QED
  BY <1>1, <1>2, <1>3, <1>4, <1>5, <1>6, <1>7

\* A call that finds it disconnected asks for the lock.
LEMMA SendDisconnectedStep ==
  ASSUME IInv, NEW r \in Requests, SendDisconnected(r)
  PROVE  IInv'
<1> USE RequestsAssumption DEF IInv, SendDisconnected,
        client, futures, world, Goto, Tasks, Sockets, NoSocket
<1>1. TypeOK'
  BY DEF TypeOK, Waiting, Connecting
<1>2. LockHeld'
  BY DEF TypeOK, LockHeld, SocketsCounted, Connecting
<1>3. SocketsCounted'
  BY DEF TypeOK, LockHeld, SocketsCounted, Connecting
<1>4. CallsRegistered'
  BY DEF TypeOK, CallsRegistered, Watched, LockHeld, SocketsCounted, ConnectedHasReader,
     IsConnected, Waiting, Connecting
<1>5. ConnectedHasReader'
  BY DEF TypeOK, LockHeld, SocketsCounted, ConnectedHasReader, IsConnected, Connecting
<1>6. OneConnection'
  BY DEF TypeOK, LockHeld, OneConnection, Connecting
<1>7. LossIsOwn'
  BY DEF TypeOK, LockHeld, SocketsCounted, CallsRegistered, LossIsOwn, Waiting, Connecting
<1> QED
  BY <1>1, <1>2, <1>3, <1>4, <1>5, <1>6, <1>7

\* Another call has connected meanwhile.
LEMMA AlreadyConnectedStep ==
  ASSUME IInv, NEW r \in Requests, AlreadyConnected(r)
  PROVE  IInv'
<1> USE RequestsAssumption DEF IInv, AlreadyConnected, Dispatch,
        client, futures, world, Goto, Tasks, Sockets, NoSocket
<1>1. TypeOK'
  BY DEF TypeOK, Waiting, Connecting
<1>2. LockHeld'
  BY DEF TypeOK, LockHeld, SocketsCounted, Connecting
<1>3. SocketsCounted'
  BY DEF TypeOK, LockHeld, SocketsCounted, Connecting
<1>4. CallsRegistered'
  BY DEF TypeOK, CallsRegistered, Watched, LockHeld, SocketsCounted, ConnectedHasReader,
     IsConnected, Waiting, Connecting
<1>5. ConnectedHasReader'
  BY DEF TypeOK, LockHeld, SocketsCounted, ConnectedHasReader, IsConnected, Connecting
<1>6. OneConnection'
  BY DEF TypeOK, LockHeld, OneConnection, Connecting
<1>7. LossIsOwn'
  BY DEF TypeOK, LockHeld, SocketsCounted, CallsRegistered, LossIsOwn, Waiting, Connecting
<1> QED
  BY <1>1, <1>2, <1>3, <1>4, <1>5, <1>6, <1>7

\* The holder of the lock detaches the old socket.
LEMMA BeginConnectStep ==
  ASSUME IInv, NEW r \in Requests, BeginConnect(r)
  PROVE  IInv'
<1> USE RequestsAssumption DEF IInv, BeginConnect, Detach,
        client, futures, world, Goto, Tasks, Sockets, NoSocket
<1>1. TypeOK'
  BY DEF TypeOK, Waiting, Connecting
<1>2. LockHeld'
  BY DEF TypeOK, LockHeld, SocketsCounted, Connecting
<1>3. SocketsCounted'
  BY DEF TypeOK, LockHeld, SocketsCounted, Connecting
<1>4. CallsRegistered'
  BY DEF TypeOK, CallsRegistered, Watched, LockHeld, SocketsCounted, ConnectedHasReader,
     IsConnected, Waiting, Connecting
<1>5. ConnectedHasReader'
  BY DEF TypeOK, LockHeld, SocketsCounted, ConnectedHasReader, IsConnected, Connecting
<1>6. OneConnection'
  BY DEF TypeOK, LockHeld, OneConnection, Connecting
<1>7. LossIsOwn'
  BY DEF TypeOK, LockHeld, SocketsCounted, CallsRegistered, LossIsOwn, Waiting, Connecting
<1> QED
  BY <1>1, <1>2, <1>3, <1>4, <1>5, <1>6, <1>7

\* A teardown cancels the loop of the socket it has detached.
LEMMA LoopCancelledStep ==
  ASSUME IInv, NEW t \in Tasks, LoopCancelled(t)
  PROVE  IInv'
<1> USE RequestsAssumption DEF IInv, LoopCancelled,
        client, futures, world, Goto, Tasks, Sockets, NoSocket
<1>1. TypeOK'
  BY DEF TypeOK, Waiting, Connecting
<1>2. LockHeld'
  BY DEF TypeOK, LockHeld, SocketsCounted, Connecting
<1>3. SocketsCounted'
  BY DEF TypeOK, LockHeld, SocketsCounted, Connecting
<1>4. CallsRegistered'
  BY DEF TypeOK, CallsRegistered, Watched, LockHeld, SocketsCounted, ConnectedHasReader,
     IsConnected, Waiting, Connecting
<1>5. ConnectedHasReader'
  BY DEF TypeOK, LockHeld, SocketsCounted, ConnectedHasReader, IsConnected, Connecting
<1>6. OneConnection'
  BY DEF TypeOK, LockHeld, OneConnection, Connecting
<1>7. LossIsOwn'
  BY DEF TypeOK, LockHeld, SocketsCounted, CallsRegistered, LossIsOwn, Waiting, Connecting
<1> QED
  BY <1>1, <1>2, <1>3, <1>4, <1>5, <1>6, <1>7

\* It fails the calls that wait on the old socket and closes it.
LEMMA OldConnectionGoneStep ==
  ASSUME IInv, NEW r \in Requests, OldConnectionGone(r)
  PROVE  IInv'
<1> USE RequestsAssumption DEF IInv, OldConnectionGone, CloseDetached, FailInflight,
        client, futures, world, Goto, Tasks, Sockets, NoSocket
<1>1. TypeOK'
  <2>1. /\ pc' \in [Tasks -> Waiting \cup Connecting \cup {"idle", "wantConnect", "done"}]
        /\ connected' \in BOOLEAN
    BY DEF TypeOK, Waiting, Connecting
  <2>2. ack' \in [Requests -> {"wait", "accepted", "started", "replied", "refused",
                               "reply", "failed", "lost"}]
    BY DEF TypeOK
  <2>3. /\ final' \in [Requests -> {"wait", "reply", "failed", "lost"}]
        /\ status' \in [Requests -> {"none", "ok", "error"}]
    BY DEF TypeOK
  <2>4. /\ pending' \subseteq Requests /\ finals' \subseteq Requests /\ runs' \subseteq Requests
        /\ readers' \subseteq Sockets
    BY DEF TypeOK
  <2>5. early' \in Seq(Requests \X {"ok", "error"})
    BY DEF TypeOK
  <2>6. net' \in [Sockets -> {"unused", "open", "lost", "closed"}]
    <3>1. net' = net \/ net' = [net EXCEPT ![sentOn[r]] = "closed"]
      OBVIOUS
    <3> HIDE DEF Sockets, OldConnectionGone, CloseDetached, FailInflight
    <3> QED
      BY <3>1 DEF TypeOK
  <2>7. chan' \in [Sockets -> Seq(Messages)]
    <3>1. <<>> \in Seq(Messages) /\ chan \in [Sockets -> Seq(Messages)]
      BY DEF TypeOK
    <3>2. chan' = chan \/ chan' = [chan EXCEPT ![sentOn[r]] = <<>>]
      OBVIOUS
    <3> HIDE DEF Sockets, OldConnectionGone, CloseDetached, FailInflight
    <3> QED
      BY <3>1, <3>2
  <2> QED
    BY <2>1, <2>2, <2>3, <2>4, <2>5, <2>6, <2>7 DEF TypeOK
<1>2. LockHeld'
  BY DEF TypeOK, LockHeld, SocketsCounted, Connecting
<1>3. SocketsCounted'
  BY DEF TypeOK, LockHeld, SocketsCounted, Connecting
<1>4. CallsRegistered'
  BY DEF TypeOK, CallsRegistered, Watched, LockHeld, SocketsCounted, ConnectedHasReader,
     IsConnected, Waiting, Connecting
<1>5. ConnectedHasReader'
  BY DEF TypeOK, LockHeld, SocketsCounted, ConnectedHasReader, IsConnected, Connecting
<1>6. OneConnection'
  BY DEF TypeOK, LockHeld, OneConnection, Connecting
<1>7. LossIsOwn'
  BY DEF TypeOK, LockHeld, SocketsCounted, CallsRegistered, LossIsOwn, Waiting, Connecting
<1> QED
  BY <1>1, <1>2, <1>3, <1>4, <1>5, <1>6, <1>7

\* It opens a socket that nobody reads yet.
LEMMA SocketOpenedStep ==
  ASSUME IInv, NEW r \in Requests, SocketOpened(r)
  PROVE  IInv'
<1> USE RequestsAssumption DEF IInv, SocketOpened,
        client, futures, world, Goto, Tasks, Sockets, NoSocket
<1>1. TypeOK'
  <2>1. /\ pc' \in [Tasks -> Waiting \cup Connecting \cup {"idle", "wantConnect", "done"}]
        /\ net' \in [Sockets -> {"unused", "open", "lost", "closed"}]
    BY DEF TypeOK, Connecting
  <2>2. ws' \in Sockets /\ opened' \in Sockets
    BY DEF TypeOK
  <2> HIDE DEF SocketOpened, Sockets, NoSocket
  <2>3. /\ UNCHANGED <<connectLock, connected, readers, futures, chan, gateway, sentOn, outcome, seen>>
    BY DEF SocketOpened
  <2> QED
    BY <2>1, <2>2, <2>3 DEF TypeOK
<1>2. LockHeld'
  BY DEF TypeOK, LockHeld, SocketsCounted, Connecting
<1>3. SocketsCounted'
  <2>1. opened \in Nat /\ opened' = opened + 1 /\ ws' = opened + 1
    BY DEF TypeOK
  <2>2. \A t \in Tasks : sentOn'[t] \in 0 .. opened
    BY DEF TypeOK, SocketsCounted
  <2>3. ws' \in 0 .. opened' /\ readers' \subseteq 1 .. opened'
    BY <2>1 DEF SocketsCounted
  <2> HIDE DEF SocketOpened
  <2>4. \A t \in Tasks : sentOn'[t] <= opened' /\ sentOn'[t] # ws'
    BY <2>1, <2>2
  <2> QED
    BY <2>3, <2>4 DEF SocketsCounted
<1>4. CallsRegistered'
  BY DEF TypeOK, CallsRegistered, Watched, LockHeld, SocketsCounted, ConnectedHasReader,
     IsConnected, Waiting, Connecting
<1>5. ConnectedHasReader'
  BY DEF TypeOK, LockHeld, SocketsCounted, ConnectedHasReader, IsConnected, Connecting
<1>6. OneConnection'
  BY DEF TypeOK, LockHeld, OneConnection, Connecting
<1>7. LossIsOwn'
  BY DEF TypeOK, LockHeld, SocketsCounted, CallsRegistered, LossIsOwn, Waiting, Connecting
<1> QED
  BY <1>1, <1>2, <1>3, <1>4, <1>5, <1>6, <1>7

\* It gives the lock back when no socket opens.
LEMMA OpenFailsStep ==
  ASSUME IInv, NEW r \in Requests, OpenFails(r)
  PROVE  IInv'
<1> USE RequestsAssumption DEF IInv, OpenFails, End,
        client, futures, world, Goto, Tasks, Sockets, NoSocket
<1>1. TypeOK'
  BY DEF TypeOK, Waiting, Connecting
<1>2. LockHeld'
  BY DEF TypeOK, LockHeld, SocketsCounted, Connecting
<1>3. SocketsCounted'
  BY DEF TypeOK, LockHeld, SocketsCounted, Connecting
<1>4. CallsRegistered'
  <2>1. ASSUME NEW q \in Requests, Watched(q) PROVE Watched(q)'
    BY <2>1 DEF TypeOK, Watched
  <2>2. \A q \in Requests :
          \/ pc'[q] = pc[q]
          \/ q = r /\ pc[q] = "opening" /\ pc'[q] = "done"
    BY DEF TypeOK
  <2>3. UNCHANGED <<pending, finals, runs, ack, final, status>>
    OBVIOUS
  <2> HIDE DEF OpenFails
  <2> QED
    BY <2>1, <2>2, <2>3 DEF CallsRegistered, Waiting
<1>5. ConnectedHasReader'
  BY DEF TypeOK, LockHeld, SocketsCounted, ConnectedHasReader, IsConnected, Connecting
<1>6. OneConnection'
  BY DEF TypeOK, LockHeld, OneConnection, Connecting
<1>7. LossIsOwn'
  BY DEF TypeOK, LockHeld, SocketsCounted, CallsRegistered, LossIsOwn, Waiting, Connecting
<1> QED
  BY <1>1, <1>2, <1>3, <1>4, <1>5, <1>6, <1>7

\* Connected, the socket has its receive loop.
LEMMA HandshakeDoneStep ==
  ASSUME IInv, NEW r \in Requests, HandshakeDone(r)
  PROVE  IInv'
<1> USE RequestsAssumption DEF IInv, HandshakeDone, Dispatch,
        client, futures, world, Goto, Tasks, Sockets, NoSocket
<1>1. TypeOK'
  BY DEF TypeOK, Waiting, Connecting
<1>2. LockHeld'
  BY DEF TypeOK, LockHeld, SocketsCounted, Connecting
<1>3. SocketsCounted'
  BY DEF TypeOK, LockHeld, SocketsCounted, Connecting
<1>4. CallsRegistered'
  BY DEF TypeOK, CallsRegistered, Watched, LockHeld, SocketsCounted, ConnectedHasReader,
     IsConnected, Waiting, Connecting
<1>5. ConnectedHasReader'
  BY DEF TypeOK, LockHeld, SocketsCounted, ConnectedHasReader, IsConnected, Connecting
<1>6. OneConnection'
  BY DEF TypeOK, LockHeld, OneConnection, Connecting
<1>7. LossIsOwn'
  BY DEF TypeOK, LockHeld, SocketsCounted, CallsRegistered, LossIsOwn, Waiting, Connecting
<1> QED
  BY <1>1, <1>2, <1>3, <1>4, <1>5, <1>6, <1>7

\* A socket that was refused is closed.
LEMMA HandshakeFailsStep ==
  ASSUME IInv, NEW r \in Requests, HandshakeFails(r)
  PROVE  IInv'
<1> USE RequestsAssumption DEF IInv, HandshakeFails, End,
        client, futures, world, Goto, Tasks, Sockets, NoSocket
<1>1. TypeOK'
  BY DEF TypeOK, Waiting, Connecting
<1>2. LockHeld'
  BY DEF TypeOK, LockHeld, SocketsCounted, Connecting
<1>3. SocketsCounted'
  BY DEF TypeOK, LockHeld, SocketsCounted, Connecting
<1>4. CallsRegistered'
  <2>1. ASSUME NEW q \in Requests, Watched(q) PROVE Watched(q)'
    BY <2>1 DEF TypeOK, LockHeld, Watched, Connecting
  <2>2. \A q \in Requests :
          \/ pc'[q] = pc[q]
          \/ q = r /\ pc[q] = "handshake" /\ pc'[q] = "done"
    BY DEF TypeOK
  <2>3. UNCHANGED <<pending, finals, runs, ack, final, status>>
    OBVIOUS
  <2> HIDE DEF HandshakeFails
  <2> QED
    BY <2>1, <2>2, <2>3 DEF CallsRegistered, Waiting
<1>5. ConnectedHasReader'
  BY DEF TypeOK, LockHeld, SocketsCounted, ConnectedHasReader, IsConnected, Connecting
<1>6. OneConnection'
  BY DEF TypeOK, LockHeld, OneConnection, Connecting
<1>7. LossIsOwn'
  BY DEF TypeOK, LockHeld, SocketsCounted, CallsRegistered, LossIsOwn, Waiting, Connecting
<1> QED
  BY <1>1, <1>2, <1>3, <1>4, <1>5, <1>6, <1>7

\* A request that is sent waits for its acknowledgment.
LEMMA SentStep ==
  ASSUME IInv, NEW r \in Requests, Sent(r)
  PROVE  IInv'
<1> USE RequestsAssumption DEF IInv, Sent,
        client, futures, world, Goto, Tasks, Sockets, NoSocket
<1>1. TypeOK'
  BY DEF TypeOK, Waiting, Connecting
<1>2. LockHeld'
  BY DEF TypeOK, LockHeld, SocketsCounted, Connecting
<1>3. SocketsCounted'
  BY DEF TypeOK, LockHeld, SocketsCounted, Connecting
<1>4. CallsRegistered'
  BY DEF TypeOK, CallsRegistered, Watched, LockHeld, SocketsCounted, ConnectedHasReader,
     IsConnected, Waiting, Connecting
<1>5. ConnectedHasReader'
  BY DEF TypeOK, LockHeld, SocketsCounted, ConnectedHasReader, IsConnected, Connecting
<1>6. OneConnection'
  BY DEF TypeOK, LockHeld, OneConnection, Connecting
<1>7. LossIsOwn'
  BY DEF TypeOK, LockHeld, SocketsCounted, CallsRegistered, LossIsOwn, Waiting, Connecting
<1> QED
  BY <1>1, <1>2, <1>3, <1>4, <1>5, <1>6, <1>7

\* A call that ends takes its futures with it.
LEMMA FinishStep ==
  ASSUME IInv, NEW r \in Requests, NEW how \in {"reply", "stream", "failed", "lost", "unsent", "timeout", "cancelled"}, pc[r] \in Waiting, Finish(r, how)
  PROVE  IInv'
<1> USE RequestsAssumption DEF IInv, Finish, Forget, End,
        client, futures, world, Goto, Tasks, Sockets, NoSocket
<1>1. TypeOK'
  <2>1. pc' \in [Tasks -> Waiting \cup Connecting \cup {"idle", "wantConnect", "done"}]
    BY DEF TypeOK, Waiting, Connecting
  <2>2. connected' \in BOOLEAN
    BY DEF TypeOK, Waiting, Connecting
  <2>3. /\ ws' \in Sockets \cup {NoSocket} /\ connectLock' \in Requests \cup {None}
        /\ readers' \subseteq Sockets /\ opened' \in Sockets
    BY DEF TypeOK, Waiting, Connecting
  <2>4. net' \in [Sockets -> {"unused", "open", "lost", "closed"}]
    BY DEF TypeOK, Waiting, Connecting
  <2>5. chan' \in [Sockets -> Seq(Messages)]
    BY DEF TypeOK, Waiting, Connecting
  <2>6. early' \in Seq(Requests \X {"ok", "error"})
    <3>1. early \in Seq(Requests \X {"ok", "error"})
      BY DEF TypeOK
    <3>2. EarlyWithout(r) \in Seq(Requests \X {"ok", "error"})
      BY <3>1, EarlyWithoutType
    <3> QED
      BY <3>1, <3>2
  <2>7. /\ pending' \subseteq Requests /\ finals' \subseteq Requests /\ runs' \subseteq Requests
    BY DEF TypeOK, Waiting, Connecting
  <2>8. ack' \in [Requests -> {"wait", "accepted", "started", "replied", "refused",
                               "reply", "failed", "lost"}]
    BY DEF TypeOK, Waiting, Connecting
  <2>9. /\ final' \in [Requests -> {"wait", "reply", "failed", "lost"}]
        /\ status' \in [Requests -> {"none", "ok", "error"}]
    BY DEF TypeOK, Waiting, Connecting
  <2>10. /\ gateway' \in [Requests -> SUBSET {"request", "answer", "event", "final"}]
        /\ sentOn' \in [Tasks -> Sockets \cup {NoSocket}]
    BY DEF TypeOK, Waiting, Connecting
  <2>11. /\ outcome' \in [Requests -> {"none", "reply", "stream", "failed", "lost",
                                      "unsent", "timeout", "cancelled"}]
        /\ seen' \in [Requests -> {"none", "ok", "error"}]
    BY DEF TypeOK, Waiting, Connecting
  <2> QED
    BY <2>1, <2>2, <2>3, <2>4, <2>5, <2>6, <2>7, <2>8, <2>9, <2>10, <2>11 DEF TypeOK
<1>2. LockHeld'
  BY DEF TypeOK, LockHeld, SocketsCounted, Connecting
<1>3. SocketsCounted'
  BY DEF TypeOK, LockHeld, SocketsCounted, Connecting
<1>4. CallsRegistered'
  BY DEF TypeOK, CallsRegistered, Watched, LockHeld, SocketsCounted, ConnectedHasReader,
     IsConnected, Waiting, Connecting
<1>5. ConnectedHasReader'
  BY DEF TypeOK, LockHeld, SocketsCounted, ConnectedHasReader, IsConnected, Connecting
<1>6. OneConnection'
  <2>1. \A t \in Tasks : pc[t] = "tearing" => pc'[t] = "tearing"
    BY DEF TypeOK, Waiting
  <2>2. sentOn' = sentOn /\ net' = net /\ ws' = ws
    OBVIOUS
  <2> QED
    BY <2>1, <2>2 DEF OneConnection
<1>7. LossIsOwn'
  BY DEF TypeOK, LockHeld, SocketsCounted, CallsRegistered, LossIsOwn, Waiting, Connecting
<1> QED
  BY <1>1, <1>2, <1>3, <1>4, <1>5, <1>6, <1>7

\* A run is registered before anything else can happen to it.
LEMMA RegisterRunStep ==
  ASSUME IInv, NEW r \in Requests, RegisterRun(r)
  PROVE  IInv'
<1> USE RequestsAssumption DEF IInv, RegisterRun,
        client, futures, world, Goto, Tasks, Sockets, NoSocket
<1>1. TypeOK'
  <2>1. pc' \in [Tasks -> Waiting \cup Connecting \cup {"idle", "wantConnect", "done"}]
    BY DEF TypeOK, Waiting, Connecting
  <2>2. connected' \in BOOLEAN
    BY DEF TypeOK, Waiting, Connecting
  <2>3. /\ ws' \in Sockets \cup {NoSocket} /\ connectLock' \in Requests \cup {None}
        /\ readers' \subseteq Sockets /\ opened' \in Sockets
    BY DEF TypeOK, Waiting, Connecting
  <2>4. net' \in [Sockets -> {"unused", "open", "lost", "closed"}]
    BY DEF TypeOK, Waiting, Connecting
  <2>5. chan' \in [Sockets -> Seq(Messages)]
    BY DEF TypeOK, Waiting, Connecting
  <2>6. early' \in Seq(Requests \X {"ok", "error"})
    <3>1. early \in Seq(Requests \X {"ok", "error"})
      BY DEF TypeOK
    <3> QED
      BY <3>1, EarlyWithoutType
  <2>7. /\ pending' \subseteq Requests /\ finals' \subseteq Requests /\ runs' \subseteq Requests
    BY DEF TypeOK, Waiting, Connecting
  <2>8. ack' \in [Requests -> {"wait", "accepted", "started", "replied", "refused",
                               "reply", "failed", "lost"}]
    BY DEF TypeOK, Waiting, Connecting
  <2>9. /\ final' \in [Requests -> {"wait", "reply", "failed", "lost"}]
        /\ status' \in [Requests -> {"none", "ok", "error"}]
    <3>1. \A i \in DOMAIN early : early[i][2] \in {"ok", "error"}
      BY DEF TypeOK
    <3>2. Replayed(r) \in {"none", "ok", "error"}
      BY <3>1 DEF Replayed
    <3> QED
      BY <3>2 DEF TypeOK
  <2>10. /\ gateway' \in [Requests -> SUBSET {"request", "answer", "event", "final"}]
        /\ sentOn' \in [Tasks -> Sockets \cup {NoSocket}]
    BY DEF TypeOK, Waiting, Connecting
  <2>11. /\ outcome' \in [Requests -> {"none", "reply", "stream", "failed", "lost",
                                      "unsent", "timeout", "cancelled"}]
        /\ seen' \in [Requests -> {"none", "ok", "error"}]
    BY DEF TypeOK, Waiting, Connecting
  <2> QED
    BY <2>1, <2>2, <2>3, <2>4, <2>5, <2>6, <2>7, <2>8, <2>9, <2>10, <2>11 DEF TypeOK
<1>2. LockHeld'
  BY DEF TypeOK, LockHeld, SocketsCounted, Connecting
<1>3. SocketsCounted'
  BY DEF TypeOK, LockHeld, SocketsCounted, Connecting
<1>4. CallsRegistered'
  BY DEF TypeOK, CallsRegistered, Watched, LockHeld, SocketsCounted, ConnectedHasReader,
     IsConnected, Waiting, Connecting
<1>5. ConnectedHasReader'
  BY DEF TypeOK, LockHeld, SocketsCounted, ConnectedHasReader, IsConnected, Connecting
<1>6. OneConnection'
  BY DEF TypeOK, LockHeld, OneConnection, Connecting
<1>7. LossIsOwn'
  BY DEF TypeOK, LockHeld, SocketsCounted, CallsRegistered, LossIsOwn, Waiting, Connecting
<1> QED
  BY <1>1, <1>2, <1>3, <1>4, <1>5, <1>6, <1>7

\* A run that completed waits a little for its response.
LEMMA EnterGraceStep ==
  ASSUME IInv, NEW r \in Requests, EnterGrace(r)
  PROVE  IInv'
<1> USE RequestsAssumption DEF IInv, EnterGrace,
        client, futures, world, Goto, Tasks, Sockets, NoSocket
<1>1. TypeOK'
  BY DEF TypeOK, Waiting, Connecting
<1>2. LockHeld'
  BY DEF TypeOK, LockHeld, SocketsCounted, Connecting
<1>3. SocketsCounted'
  BY DEF TypeOK, LockHeld, SocketsCounted, Connecting
<1>4. CallsRegistered'
  BY DEF TypeOK, CallsRegistered, Watched, LockHeld, SocketsCounted, ConnectedHasReader,
     IsConnected, Waiting, Connecting
<1>5. ConnectedHasReader'
  BY DEF TypeOK, LockHeld, SocketsCounted, ConnectedHasReader, IsConnected, Connecting
<1>6. OneConnection'
  BY DEF TypeOK, LockHeld, OneConnection, Connecting
<1>7. LossIsOwn'
  BY DEF TypeOK, LockHeld, SocketsCounted, CallsRegistered, LossIsOwn, Waiting, Connecting
<1> QED
  BY <1>1, <1>2, <1>3, <1>4, <1>5, <1>6, <1>7

\* A response resolves the acknowledgment, the final response or nothing.
LEMMA ResponseStep ==
  ASSUME IInv, NEW s \in Sockets, NEW r \in Requests, NEW kind \in {"accepted", "started", "replied", "refused", "reply", "failed"},
         TakeResponse(r, kind), chan[s] # <<>>, chan' = [chan EXCEPT ![s] = Tail(@)],
         UNCHANGED <<pc, connectLock, client, net, gateway, sentOn, outcome>>
  PROVE  IInv'
<1> USE DEF IInv, TakeResponse, client
<1>1. TypeOK'
  <2>a. /\ pending' \subseteq Requests /\ finals' \subseteq Requests
        /\ ack' \in [Requests -> {"wait", "accepted", "started", "replied", "refused",
                                   "reply", "failed", "lost"}]
    BY DEF TypeOK
  <2>b. final' \in [Requests -> {"wait", "reply", "failed", "lost"}]
    <3>1. final \in [Requests -> {"wait", "reply", "failed", "lost"}]
      BY DEF TypeOK
    <3>2. PICK v \in {"wait", "reply", "failed", "lost"} :
            final' = final \/ final' = [final EXCEPT ![r] = v]
      BY <3>1
    <3> QED
      BY <3>1, <3>2
  <2>c. chan' \in [Sockets -> Seq(Messages)]
    <3>1. chan[s] \in Seq(Messages)
      BY DEF TypeOK
    <3>2. Tail(chan[s]) \in Seq(Messages)
      BY <3>1, HeadTailProperties
    <3> QED
      BY <3>2 DEF TypeOK
  <2> QED
    BY <2>a, <2>b, <2>c DEF TypeOK
<1>2. LockHeld' /\ SocketsCounted'
  BY DEF LockHeld, SocketsCounted
<1>3. CallsRegistered'
  BY DEF TypeOK, CallsRegistered, Watched, Waiting
<1>4. ConnectedHasReader'
  BY DEF ConnectedHasReader, IsConnected
<1>5. OneConnection'
  BY DEF OneConnection
<1>6. LossIsOwn'
  BY DEF TypeOK, LossIsOwn
<1> QED
  BY <1>1, <1>2, <1>3, <1>4, <1>5, <1>6

\* A completion is for a run that is registered, or waits in the buffer.
LEMMA CompletionStep ==
  ASSUME IInv, NEW s \in Sockets, NEW r \in Requests, NEW how \in {"ok", "error"},
         TakeCompletion(r, how), chan[s] # <<>>, chan' = [chan EXCEPT ![s] = Tail(@)],
         UNCHANGED <<pc, connectLock, client, net, gateway, sentOn, outcome>>
  PROVE  IInv'
<1> USE DEF IInv, TakeCompletion, client
<1>1. TypeOK'
  <2>a. early' \in Seq(Requests \X {"ok", "error"})
    <3> DEFINE Events == Requests \X {"ok", "error"}
    <3>1. early \in Seq(Events) /\ <<r, how>> \in Events
      BY DEF TypeOK
    <3> HIDE DEF Events
    <3>2. /\ Append(early, <<r, how>>) \in Seq(Events)
          /\ Tail(Append(early, <<r, how>>)) \in Seq(Events)
      BY <3>1, BufferType
    <3> QED
      BY <3>1, <3>2 DEF Events
  <2>b. /\ status' \in [Requests -> {"none", "ok", "error"}]
        /\ seen' \in [Requests -> {"none", "ok", "error"}]
    <3>1. /\ status' = status \/ status' = [status EXCEPT ![r] = how]
          /\ seen' = seen \/ seen' = [seen EXCEPT ![r] = how]
      OBVIOUS
    <3>2. status' \in [Requests -> {"none", "ok", "error"}]
      BY <3>1 DEF TypeOK
    <3>3. seen' \in [Requests -> {"none", "ok", "error"}]
      BY <3>1 DEF TypeOK
    <3> QED
      BY <3>2, <3>3
  <2>c. chan' \in [Sockets -> Seq(Messages)]
    <3>1. chan[s] \in Seq(Messages)
      BY DEF TypeOK
    <3>2. Tail(chan[s]) \in Seq(Messages)
      BY <3>1, HeadTailProperties
    <3> QED
      BY <3>2 DEF TypeOK
  <2> QED
    BY <2>a, <2>b, <2>c DEF TypeOK
<1>2. LockHeld' /\ SocketsCounted'
  BY DEF LockHeld, SocketsCounted
<1>3. CallsRegistered'
  BY DEF TypeOK, CallsRegistered, Watched, Waiting
<1>4. ConnectedHasReader'
  BY DEF ConnectedHasReader, IsConnected
<1>5. OneConnection'
  BY DEF OneConnection
<1>6. LossIsOwn'
  BY DEF TypeOK, LossIsOwn
<1> QED
  BY <1>1, <1>2, <1>3, <1>4, <1>5, <1>6

\* The receive loop hands on one message after the other.
LEMMA ReceiveStep ==
  ASSUME IInv, NEW s \in Sockets, Receive(s)
  PROVE  IInv'
<1> DEFINE m == Head(chan[s])
<1>1. m \in Messages
  BY HeadTailProperties DEF IInv, TypeOK, Receive
<1>2. \/ m.type = "res" /\ TakeResponse(m.req, m.kind)
      \/ m.type = "event" /\ TakeCompletion(m.req, m.kind)
  BY DEF Receive
<1>3. /\ chan[s] # <<>> /\ chan' = [chan EXCEPT ![s] = Tail(@)]
      /\ UNCHANGED <<pc, connectLock, client, net, gateway, sentOn, outcome>>
  BY DEF Receive
<1> HIDE DEF m
<1>4. CASE m.type = "res" /\ TakeResponse(m.req, m.kind)
  <2>1. /\ m.req \in Requests
        /\ m.kind \in {"accepted", "started", "replied", "refused", "reply", "failed"}
    BY <1>1, <1>4 DEF Messages
  <2> QED
    BY <1>3, <1>4, <2>1, ResponseStep
<1>5. CASE m.type = "event" /\ TakeCompletion(m.req, m.kind)
  <2>1. m.req \in Requests /\ m.kind \in {"ok", "error"}
    BY <1>1, <1>5 DEF Messages
  <2> QED
    BY <1>3, <1>5, <2>1, CompletionStep
<1> QED
  BY <1>2, <1>4, <1>5

\* The loop of the socket in use fails all calls; an older one is nobody's.
LEMMA ReaderEndsStep ==
  ASSUME IInv, NEW s \in Sockets, ReaderEnds(s)
  PROVE  IInv'
<1> USE RequestsAssumption DEF IInv, ReaderEnds, FailInflight,
        client, futures, world, Goto, Tasks, Sockets, NoSocket
<1>1. TypeOK'
  <2>1. /\ pc' \in [Tasks -> Waiting \cup Connecting \cup {"idle", "wantConnect", "done"}]
        /\ connected' \in BOOLEAN
    BY DEF TypeOK, Waiting, Connecting
  <2>2. ack' \in [Requests -> {"wait", "accepted", "started", "replied", "refused",
                               "reply", "failed", "lost"}]
    BY DEF TypeOK
  <2>3. /\ final' \in [Requests -> {"wait", "reply", "failed", "lost"}]
        /\ status' \in [Requests -> {"none", "ok", "error"}]
    BY DEF TypeOK
  <2>4. /\ pending' \subseteq Requests /\ finals' \subseteq Requests /\ runs' \subseteq Requests
        /\ readers' \subseteq Sockets
    BY DEF TypeOK
  <2>5. early' \in Seq(Requests \X {"ok", "error"})
    BY DEF TypeOK
  <2>6. /\ net' \in [Sockets -> {"unused", "open", "lost", "closed"}]
        /\ chan' \in [Sockets -> Seq(Messages)]
    BY DEF TypeOK
  <2> QED
    BY <2>1, <2>2, <2>3, <2>4, <2>5, <2>6 DEF TypeOK
<1>2. LockHeld'
  BY DEF TypeOK, LockHeld, SocketsCounted, Connecting
<1>3. SocketsCounted'
  BY DEF TypeOK, LockHeld, SocketsCounted, Connecting
<1>4. CallsRegistered'
  BY DEF TypeOK, CallsRegistered, Watched, LockHeld, SocketsCounted, ConnectedHasReader,
     IsConnected, Waiting, Connecting
<1>5. ConnectedHasReader'
  BY DEF TypeOK, LockHeld, SocketsCounted, ConnectedHasReader, IsConnected, Connecting
<1>6. OneConnection'
  BY DEF TypeOK, LockHeld, OneConnection, Connecting
<1>7. LossIsOwn'
  BY DEF TypeOK, LockHeld, SocketsCounted, CallsRegistered, LossIsOwn, Waiting, Connecting
<1> QED
  BY <1>1, <1>2, <1>3, <1>4, <1>5, <1>6, <1>7

\* A failed ping only disconnects.
LEMMA KeepaliveFailsStep ==
  ASSUME IInv, KeepaliveFails
  PROVE  IInv'
<1> USE RequestsAssumption DEF IInv, KeepaliveFails,
        client, futures, world, Goto, Tasks, Sockets, NoSocket
<1>1. TypeOK'
  BY DEF TypeOK, Waiting, Connecting
<1>2. LockHeld'
  BY DEF TypeOK, LockHeld, SocketsCounted, Connecting
<1>3. SocketsCounted'
  BY DEF TypeOK, LockHeld, SocketsCounted, Connecting
<1>4. CallsRegistered'
  BY DEF TypeOK, CallsRegistered, Watched, LockHeld, SocketsCounted, ConnectedHasReader,
     IsConnected, Waiting, Connecting
<1>5. ConnectedHasReader'
  BY DEF TypeOK, LockHeld, SocketsCounted, ConnectedHasReader, IsConnected, Connecting
<1>6. OneConnection'
  BY DEF TypeOK, LockHeld, OneConnection, Connecting
<1>7. LossIsOwn'
  BY DEF TypeOK, LockHeld, SocketsCounted, CallsRegistered, LossIsOwn, Waiting, Connecting
<1> QED
  BY <1>1, <1>2, <1>3, <1>4, <1>5, <1>6, <1>7

\* An unload detaches the socket without asking for the lock.
LEMMA DisconnectStep ==
  ASSUME IInv, NEW u \in Unloads, Disconnect(u)
  PROVE  IInv'
<1> USE RequestsAssumption DEF IInv, Disconnect, Detach,
        client, futures, world, Goto, Tasks, Sockets, NoSocket
<1>1. TypeOK'
  BY DEF TypeOK, Waiting, Connecting
<1>2. LockHeld'
  BY DEF TypeOK, LockHeld, SocketsCounted, Connecting
<1>3. SocketsCounted'
  BY DEF TypeOK, LockHeld, SocketsCounted, Connecting
<1>4. CallsRegistered'
  BY DEF TypeOK, CallsRegistered, Watched, LockHeld, SocketsCounted, ConnectedHasReader,
     IsConnected, Waiting, Connecting
<1>5. ConnectedHasReader'
  BY DEF TypeOK, LockHeld, SocketsCounted, ConnectedHasReader, IsConnected, Connecting
<1>6. OneConnection'
  BY DEF TypeOK, LockHeld, OneConnection, Connecting
<1>7. LossIsOwn'
  BY DEF TypeOK, LockHeld, SocketsCounted, CallsRegistered, LossIsOwn, Waiting, Connecting
<1> QED
  BY <1>1, <1>2, <1>3, <1>4, <1>5, <1>6, <1>7

\* It fails the calls that wait and closes the socket.
LEMMA DisconnectedStep ==
  ASSUME IInv, NEW u \in Unloads, Disconnected(u)
  PROVE  IInv'
<1> USE RequestsAssumption DEF IInv, Disconnected, CloseDetached, FailInflight,
        client, futures, world, Goto, Tasks, Sockets, NoSocket
<1>1. TypeOK'
  <2>1. /\ pc' \in [Tasks -> Waiting \cup Connecting \cup {"idle", "wantConnect", "done"}]
        /\ connected' \in BOOLEAN
    BY DEF TypeOK, Waiting, Connecting
  <2>2. ack' \in [Requests -> {"wait", "accepted", "started", "replied", "refused",
                               "reply", "failed", "lost"}]
    BY DEF TypeOK
  <2>3. /\ final' \in [Requests -> {"wait", "reply", "failed", "lost"}]
        /\ status' \in [Requests -> {"none", "ok", "error"}]
    BY DEF TypeOK
  <2>4. /\ pending' \subseteq Requests /\ finals' \subseteq Requests /\ runs' \subseteq Requests
        /\ readers' \subseteq Sockets
    BY DEF TypeOK
  <2>5. early' \in Seq(Requests \X {"ok", "error"})
    BY DEF TypeOK
  <2>6. net' \in [Sockets -> {"unused", "open", "lost", "closed"}]
    <3>1. net' = net \/ net' = [net EXCEPT ![sentOn[u]] = "closed"]
      OBVIOUS
    <3> HIDE DEF Sockets, Disconnected, CloseDetached, FailInflight
    <3> QED
      BY <3>1 DEF TypeOK
  <2>7. chan' \in [Sockets -> Seq(Messages)]
    <3>1. <<>> \in Seq(Messages) /\ chan \in [Sockets -> Seq(Messages)]
      BY DEF TypeOK
    <3>2. chan' = chan \/ chan' = [chan EXCEPT ![sentOn[u]] = <<>>]
      OBVIOUS
    <3> HIDE DEF Sockets, Disconnected, CloseDetached, FailInflight
    <3> QED
      BY <3>1, <3>2
  <2> QED
    BY <2>1, <2>2, <2>3, <2>4, <2>5, <2>6, <2>7 DEF TypeOK
<1>2. LockHeld'
  BY DEF TypeOK, LockHeld, SocketsCounted, Connecting
<1>3. SocketsCounted'
  BY DEF TypeOK, LockHeld, SocketsCounted, Connecting
<1>4. CallsRegistered'
  BY DEF TypeOK, CallsRegistered, Watched, LockHeld, SocketsCounted, ConnectedHasReader,
     IsConnected, Waiting, Connecting
<1>5. ConnectedHasReader'
  BY DEF TypeOK, LockHeld, SocketsCounted, ConnectedHasReader, IsConnected, Connecting
<1>6. OneConnection'
  BY DEF TypeOK, LockHeld, OneConnection, Connecting
<1>7. LossIsOwn'
  BY DEF TypeOK, LockHeld, SocketsCounted, CallsRegistered, LossIsOwn, Waiting, Connecting
<1> QED
  BY <1>1, <1>2, <1>3, <1>4, <1>5, <1>6, <1>7

\* A message of the gateway only adds to what is to be read.
LEMMA DeliverStep ==
  ASSUME IInv, NEW r \in Requests, NEW m \in Messages, Deliver(r, m),
         NEW sent \in SUBSET {"request", "answer", "event", "final"},
         gateway' = [gateway EXCEPT ![r] = sent]
  PROVE  IInv'
<1> USE DEF IInv, Deliver, client, futures
<1>1. TypeOK'
  <2>1. chan' \in [Sockets -> Seq(Messages)]
    <3>1. CASE sentOn[r] \in Sockets
      <4>1. Append(chan[sentOn[r]], m) \in Seq(Messages)
        BY <3>1, AppendProperties DEF TypeOK
      <4> QED
        BY <4>1 DEF TypeOK
    <3>2. CASE sentOn[r] \notin Sockets
      <4>1. chan \in [Sockets -> Seq(Messages)]
        BY DEF TypeOK
      <4>2. chan' = chan
        BY <3>2, <4>1
      <4> QED
        BY <4>1, <4>2
    <3> QED
      BY <3>1, <3>2
  <2>2. gateway' \in [Requests -> SUBSET {"request", "answer", "event", "final"}]
    BY DEF TypeOK
  <2> QED
    BY <2>1, <2>2 DEF TypeOK
<1>2. LockHeld' /\ SocketsCounted'
  BY DEF LockHeld, SocketsCounted
<1>3. CallsRegistered'
  BY DEF CallsRegistered, Watched
<1>4. ConnectedHasReader'
  BY DEF ConnectedHasReader, IsConnected
<1>5. OneConnection'
  BY DEF OneConnection
<1>6. LossIsOwn'
  BY DEF TypeOK, LossIsOwn
<1> QED
  BY <1>1, <1>2, <1>3, <1>4, <1>5, <1>6

\* Answers, completions and final responses are such messages.
LEMMA GatewayStep ==
  ASSUME IInv, NEW r \in Requests, Gateway(r)
  PROVE  IInv'
<1>0. gateway[r] \in SUBSET {"request", "answer", "event", "final"}
  BY DEF IInv, TypeOK
<1>1. CASE GatewayAnswers(r)
  <2>1. PICK kind \in Answers :
          /\ gateway' = [gateway EXCEPT ![r] = @ \cup
               CASE kind \in {"accepted", "started"} -> {"answer"}
                 [] kind = "replied" -> {"answer", "final"}
                 [] kind = "refused" -> {"answer", "final", "event"}]
          /\ Deliver(r, [type |-> "res", req |-> r, kind |-> kind])
    BY <1>1 DEF GatewayAnswers
  <2>2. kind \in {"accepted", "started", "replied", "refused"}
    BY RequestsAssumption
  <2>3. [type |-> "res", req |-> r, kind |-> kind] \in Messages
    BY <2>2 DEF Messages
  <2>4. PICK sent \in SUBSET {"request", "answer", "event", "final"} :
          gateway' = [gateway EXCEPT ![r] = sent]
    BY <1>0, <2>1, <2>2
  <2> QED
    BY <2>1, <2>3, <2>4, DeliverStep
<1>2. CASE GatewayCompletes(r)
  <2>1. PICK how \in {"ok", "error"} : Deliver(r, [type |-> "event", req |-> r, kind |-> how])
    BY <1>2 DEF GatewayCompletes
  <2>2. [type |-> "event", req |-> r, kind |-> how] \in Messages
    BY DEF Messages
  <2>3. gateway' = [gateway EXCEPT ![r] = gateway[r] \cup {"event"}]
    BY <1>2 DEF GatewayCompletes
  <2> QED
    BY <1>0, <2>1, <2>2, <2>3, DeliverStep
<1>3. CASE GatewayFinal(r)
  <2>1. PICK kind \in {"reply", "failed"} : Deliver(r, [type |-> "res", req |-> r, kind |-> kind])
    BY <1>3 DEF GatewayFinal
  <2>2. [type |-> "res", req |-> r, kind |-> kind] \in Messages
    BY DEF Messages
  <2>3. gateway' = [gateway EXCEPT ![r] = gateway[r] \cup {"final"}]
    BY <1>3 DEF GatewayFinal
  <2> QED
    BY <1>0, <2>1, <2>2, <2>3, DeliverStep
<1> QED
  BY <1>1, <1>2, <1>3 DEF Gateway

\* A connection that breaks changes nothing else.
LEMMA LoseStep ==
  ASSUME IInv, NEW s \in Sockets, Lose(s)
  PROVE  IInv'
<1> USE RequestsAssumption DEF IInv, Lose,
        client, futures, world, Goto, Tasks, Sockets, NoSocket
<1>1. TypeOK'
  BY DEF TypeOK, Waiting, Connecting
<1>2. LockHeld'
  BY DEF TypeOK, LockHeld, SocketsCounted, Connecting
<1>3. SocketsCounted'
  BY DEF TypeOK, LockHeld, SocketsCounted, Connecting
<1>4. CallsRegistered'
  BY DEF TypeOK, CallsRegistered, Watched, LockHeld, SocketsCounted, ConnectedHasReader,
     IsConnected, Waiting, Connecting
<1>5. ConnectedHasReader'
  BY DEF TypeOK, LockHeld, SocketsCounted, ConnectedHasReader, IsConnected, Connecting
<1>6. OneConnection'
  BY DEF TypeOK, LockHeld, OneConnection, Connecting
<1>7. LossIsOwn'
  BY DEF TypeOK, LockHeld, SocketsCounted, CallsRegistered, LossIsOwn, Waiting, Connecting
<1> QED
  BY <1>1, <1>2, <1>3, <1>4, <1>5, <1>6, <1>7

\* Every step of calls, receive loops, unloads, gateway and network keeps it.
LEMMA StepIInv == IInv /\ [Next]_vars => IInv'
<1> SUFFICES ASSUME IInv, [Next]_vars PROVE IInv'
  OBVIOUS
<1>1. ASSUME NEW r \in Requests, SendMessage(r) PROVE IInv'
  <2>1. CASE \/ SendFails(r) \/ AckRefused(r) \/ AckTimeout(r) \/ RegisterLost(r)
             \/ RunTimeout(r) \/ Return(r) \/ Cancel(r)
    <3>1. PICK how \in {"reply", "stream", "failed", "lost", "unsent", "timeout", "cancelled"} :
            Finish(r, how)
      BY <2>1 DEF SendFails, AckRefused, AckTimeout, RegisterLost, RunTimeout, Return, Cancel, Result
    <3>2. pc[r] \in Waiting
      BY <2>1 DEF SendFails, AckRefused, AckTimeout, RegisterLost, RunTimeout, Return, Cancel, Waiting
    <3> QED
      BY <3>1, <3>2, FinishStep
  <2>2. CASE \/ SendConnected(r) \/ SendDisconnected(r) \/ AlreadyConnected(r) \/ BeginConnect(r)
             \/ LoopCancelled(r) \/ OldConnectionGone(r) \/ SocketOpened(r) \/ OpenFails(r)
             \/ HandshakeDone(r) \/ HandshakeFails(r) \/ Sent(r) \/ RegisterRun(r) \/ EnterGrace(r)
    <3>1. r \in Tasks
      BY DEF Tasks
    <3> QED
      BY <2>2, <3>1, LoopCancelledStep, SendConnectedStep, SendDisconnectedStep, AlreadyConnectedStep,
         BeginConnectStep, OldConnectionGoneStep, SocketOpenedStep, OpenFailsStep,
         HandshakeDoneStep, HandshakeFailsStep, SentStep, RegisterRunStep, EnterGraceStep
  <2> QED
    BY <1>1, <2>1, <2>2 DEF SendMessage, Proceed
<1>2. CASE UNCHANGED vars
  BY <1>2 DEF IInv, TypeOK, LockHeld, SocketsCounted, CallsRegistered, Watched, ConnectedHasReader,
              OneConnection, LossIsOwn, IsConnected, vars, client, futures, world
<1>3. ASSUME NEW u \in Unloads, Disconnect(u) \/ LoopCancelled(u) \/ Disconnected(u) PROVE IInv'
  <2>1. u \in Tasks
    BY DEF Tasks
  <2> QED
    BY <1>3, <2>1, DisconnectStep, LoopCancelledStep, DisconnectedStep
<1> QED
  BY <1>1, <1>2, <1>3, GatewayStep, ReceiveStep, ReaderEndsStep, LoseStep, KeepaliveFailsStep
  DEF Next

\* In every reachable state the lock, the sockets, the futures and the calls
\* fit together.
THEOREM Invariance == Spec => []IInv
<1> QED
  BY InitIInv, StepIInv, PTL DEF Spec

\* Whoever waits for an answer is registered, and watched.
LEMMA WaitersAreWatched == IInv => WaitersWatched
<1> QED
  BY DEF IInv, CallsRegistered, Watched, WaitersWatched, Waiting

\* A connected client reads its socket, no socket but that one stays open, a call
\* that waits is where its own receive loop or a teardown will end it, and the end
\* of an older loop fails no call of the connection in use, for any number of
\* calls, reconnects and unloads.
THEOREM ConnectionIsSound == Spec => []ConnectionSound
<1>1. IInv => ConnectionSound
  BY WaitersAreWatched DEF IInv, ConnectionSound
<1> QED
  BY <1>1, Invariance, PTL

-----------------------------------------------------------------------------
(* The completion of a run is kept until its caller has used it *)

\* Taking a run out of the buffer leaves the completions of the others.
LEMMA EarlyWithoutKeeps ==
  ASSUME NEW S, early \in Seq(S), NEW r,
         \A i, j \in DOMAIN early : early[i][1] = early[j][1] => i = j
  PROVE  LET e == EarlyWithout(r)
         IN  /\ \A i \in DOMAIN e : e[i][1] # r /\ \E k \in DOMAIN early : e[i] = early[k]
             /\ \A k \in DOMAIN early : early[k][1] # r => \E i \in DOMAIN e : e[i] = early[k]
             /\ \A i, j \in DOMAIN e : e[i][1] = e[j][1] => i = j
<1> DEFINE e == EarlyWithout(r)
           at == CHOOSE i \in DOMAIN early : early[i][1] = r
           size == Len(early)
<1>1. CASE ~\E i \in DOMAIN early : early[i][1] = r
  <2>1. e = early
    BY <1>1 DEF EarlyWithout
  <2> QED BY <1>1, <2>1
<1>2. CASE \E i \in DOMAIN early : early[i][1] = r
  <2>1. at \in DOMAIN early /\ early[at][1] = r
    BY <1>2
  <2>2. size \in Nat /\ DOMAIN early = 1 .. size
    OBVIOUS
  <2>3. e = SubSeq(early, 1, at - 1) \o SubSeq(early, at + 1, size)
    BY <1>2 DEF EarlyWithout
  <2> HIDE DEF at, size, e
  <2>4. at \in 1 .. size
    BY <2>1, <2>2
  <2> DEFINE before == SubSeq(early, 1, at - 1)
             after == SubSeq(early, at + 1, size)
  <2>5. /\ before \in Seq(S) /\ Len(before) = at - 1
        /\ \A i \in 1 .. (at - 1) : before[i] = early[i]
    BY <2>2, <2>4, SubSeqProperties DEF size
  <2>6. /\ after \in Seq(S) /\ Len(after) = size - at
        /\ \A i \in 1 .. (size - at) : after[i] = early[at + i]
    <3>1. /\ after \in Seq(S)
          /\ Len(after) = IF at + 1 <= size THEN size - (at + 1) + 1 ELSE 0
          /\ \A i \in 1 .. (size - (at + 1) + 1) : after[i] = early[(at + 1) + i - 1]
      BY <2>2, <2>4, SubSeqProperties DEF size
    <3>2. Len(after) = size - at /\ size - (at + 1) + 1 = size - at
      BY <2>2, <2>4, <3>1
    <3>3. ASSUME NEW i \in 1 .. (size - at) PROVE after[i] = early[at + i]
      <4>1. (at + 1) + i - 1 = at + i
        BY <2>2, <2>4
      <4> QED BY <3>1, <3>2, <4>1
    <3> QED BY <3>1, <3>2, <3>3
  <2> HIDE DEF before, after
  <2>7. /\ DOMAIN e = 1 .. (size - 1)
        /\ \A i \in 1 .. (size - 1) : e[i] = IF i < at THEN early[i] ELSE early[i + 1]
    <3>1. e = before \o after
      BY <2>3 DEF before, after
    <3>2. /\ e \in Seq(S) /\ Len(e) = (at - 1) + (size - at)
          /\ \A i \in 1 .. ((at - 1) + (size - at)) :
               e[i] = IF i <= at - 1 THEN before[i] ELSE after[i - (at - 1)]
      BY <2>5, <2>6, <3>1, ConcatProperties
    <3>3. (at - 1) + (size - at) = size - 1 /\ size - 1 \in Nat
      BY <2>2, <2>4
    <3>4. ASSUME NEW i \in 1 .. (size - 1)
          PROVE  e[i] = IF i < at THEN early[i] ELSE early[i + 1]
      <4>1. CASE i < at
        <5>1. i \in 1 .. (at - 1) /\ i <= at - 1
          BY <2>2, <2>4, <4>1
        <5> QED BY <2>5, <3>2, <3>3, <4>1, <5>1
      <4>2. CASE ~(i < at)
        <5>1. /\ ~(i <= at - 1) /\ i - (at - 1) \in 1 .. (size - at)
              /\ at + (i - (at - 1)) = i + 1
          BY <2>2, <2>4, <4>2
        <5> QED BY <2>6, <3>2, <3>3, <4>2, <5>1
      <4> QED BY <4>1, <4>2
    <3> QED BY <3>2, <3>3, <3>4
  <2>8. \A i \in DOMAIN early : i # at => early[i][1] # r
    BY <2>1
  <2>9. ASSUME NEW i \in DOMAIN e
        PROVE  e[i][1] # r /\ \E k \in DOMAIN early : e[i] = early[k]
    <3>1. \E k \in DOMAIN early : k # at /\ e[i] = early[k]
      BY <2>2, <2>4, <2>7
    <3> QED BY <2>8, <3>1
  <2>10. ASSUME NEW k \in DOMAIN early, early[k][1] # r
         PROVE  \E i \in DOMAIN e : e[i] = early[k]
    <3>1. k # at
      BY <2>1, <2>10
    <3>2. CASE k < at
      BY <2>2, <2>4, <2>7, <3>2
    <3>3. CASE k > at
      <4>1. k - 1 \in 1 .. (size - 1) /\ ~(k - 1 < at) /\ (k - 1) + 1 = k
        BY <2>2, <2>4, <3>3
      <4> QED BY <2>7, <4>1
    <3> QED BY <2>2, <2>4, <3>1, <3>2, <3>3
  <2>11. ASSUME NEW i \in DOMAIN e, NEW j \in DOMAIN e, e[i][1] = e[j][1]
         PROVE  i = j
    <3> DEFINE back(n) == IF n < at THEN n ELSE n + 1
    <3>1. \A n \in 1 .. (size - 1) : back(n) \in DOMAIN early /\ e[n] = early[back(n)]
      BY <2>2, <2>4, <2>7
    <3>2. back(i) \in DOMAIN early /\ back(j) \in DOMAIN early
          /\ early[back(i)][1] = early[back(j)][1]
      BY <2>7, <2>11, <3>1
    <3>3. back(i) = back(j)
      BY <3>2
    <3>4. i \in 1 .. (size - 1) /\ j \in 1 .. (size - 1)
      BY <2>7
    <3> QED BY <2>2, <2>4, <3>3, <3>4
  <2> QED BY <2>9, <2>10, <2>11 DEF e
<1> QED BY <1>1, <1>2

\* At first nothing was asked, answered or buffered.
LEMMA InitKeeping == Init => Keeping
<1> SUFFICES ASSUME Init PROVE Keeping
  OBVIOUS
<1> USE RequestsAssumption DEF Init, Tasks, Sockets, NoSocket, Waiting
<1>1. OneReader
  BY DEF OneReader
<1>2. Asked /\ OkKept
  BY DEF Asked, OkKept
<1>3. OnTheWay
  BY DEF OnTheWay
<1>4. AnswerFirst
  BY DEF AnswerFirst, Unanswered
<1>5. Buffered
  BY DEF Buffered
<1>6. Registered
  BY DEF Registered
<1> QED BY <1>1, <1>2, <1>3, <1>4, <1>5, <1>6 DEF Keeping

\* A call that is sent has nothing on its way and nothing behind it.
LEMMA DispatchKeeps ==
  ASSUME TypeOK, CallsRegistered, LockHeld', Keeping, NEW r \in Requests,
         pc[r] \notin Waiting \cup {"done"}, Dispatch(r, ws), ws \in Sockets, ws <= opened,
         UNCHANGED <<ws, opened>>, connectLock' = None, readers' \subseteq {ws},
         \A q \in Requests \ {r} : sentOn[q] \in readers' => sentOn[q] \in readers
  PROVE  Keeping'
<1> USE RequestsAssumption DEF Keeping
<1>1. /\ \A t \in Tasks : pc'[t] = IF t = r THEN "sending" ELSE pc[t]
      /\ \A t \in Tasks : sentOn'[t] = IF t = r THEN ws ELSE sentOn[t]
  BY DEF TypeOK, Dispatch, Goto, Tasks
<1>2. \A q \in Requests : q # r => gateway'[q] = gateway[q]
  BY DEF TypeOK, Dispatch
<1>3. gateway'[r] \subseteq {"request"}
  BY DEF TypeOK, Dispatch
<1>4. UNCHANGED <<runs, early, ack, status, outcome, seen, net, chan>>
  BY DEF Dispatch
<1>5. Requests \subseteq Tasks
  BY DEF Tasks
<1>6. gateway[r] = {} /\ seen[r] = "none" /\ outcome[r] = "none"
  BY DEF Asked
<1>7. r \notin runs /\ ack[r] = "wait" /\ status[r] = "none"
  BY DEF CallsRegistered
<1>8. OneReader'
  <2>1. \A q \in Requests : pc'[q] # "handshake"
    BY DEF LockHeld, Connecting
  <2>2. ws # NoSocket
    BY DEF Sockets, NoSocket
  <2> QED BY <1>1, <1>5, <2>1, <2>2 DEF OneReader
<1>9. Asked'
  BY <1>1, <1>2, <1>4, <1>5, <1>6 DEF Asked, Waiting
<1>10. OnTheWay'
  <2>1. \A s \in Sockets : \A i \in DOMAIN chan[s] : chan[s][i].req # r
    BY DEF OnTheWay
  <2>2. \A q \in Requests : q # r => Unanswered(q)' = Unanswered(q)
    BY <1>1, <1>4, <1>5 DEF Unanswered
  <2> HIDE DEF Unanswered
  <2> QED BY <1>1, <1>2, <1>4, <1>5, <2>1, <2>2 DEF OnTheWay, IsEvent
<1>11. AnswerFirst'
  BY <1>1, <1>2, <1>3, <1>4, <1>5, <1>6 DEF AnswerFirst, Unanswered
<1>12. Buffered'
  <2>1. \A i \in DOMAIN early : early[i][1] # r
    BY <1>6 DEF Buffered
  <2> QED BY <1>1, <1>2, <1>4, <1>5, <1>6, <2>1 DEF Buffered
<1>13. Registered'
  BY <1>1, <1>4, <1>5, <1>7 DEF Registered, Waiting
<1>14. OkKept'
  BY <1>4 DEF OkKept
<1> QED BY <1>8, <1>9, <1>10, <1>11, <1>12, <1>13, <1>14

\* A call that is still connecting, or gives up on it, has nothing on its way.
LEMMA MoveKeeps ==
  ASSUME TypeOK, CallsRegistered, SocketsCounted, Keeping, NEW r \in Requests,
         pc[r] \notin Waiting \cup {"done"}, pc'[r] \notin Waiting,
         outcome'[r] = outcome[r] \/ pc'[r] = "done",
         \A q \in Requests \ {r} :
           /\ pc'[q] = pc[q] /\ sentOn'[q] = sentOn[q] /\ outcome'[q] = outcome[q]
           /\ sentOn[q] \in readers' => sentOn[q] \in readers
           /\ sentOn[q] \in Sockets /\ sentOn[q] <= opened /\ net'[sentOn[q]] = "open" =>
                net[sentOn[q]] = "open",
         UNCHANGED <<futures, chan, gateway, seen>>
  PROVE  Asked' /\ OnTheWay' /\ AnswerFirst' /\ Buffered' /\ Registered' /\ OkKept'
<1> USE DEF Keeping, futures
<1>1. gateway[r] = {} /\ seen[r] = "none" /\ outcome[r] = "none"
  BY DEF Asked
<1>2. r \notin runs
  BY DEF CallsRegistered
<1>3. Asked'
  BY <1>1 DEF Asked
<1>4. OnTheWay'
  <2>1. \A s \in Sockets : \A i \in DOMAIN chan[s] : chan[s][i].req # r
    BY DEF OnTheWay
  <2>2. \A q \in Requests : q # r => Unanswered(q)' = Unanswered(q)
    BY DEF Unanswered
  <2> HIDE DEF Unanswered
  <2> QED BY <2>1, <2>2 DEF OnTheWay, IsEvent
<1>5. AnswerFirst'
  <2>1. ASSUME NEW q \in Requests, Unanswered(q)'
        PROVE  /\ Unanswered(q) /\ seen'[q] = seen[q] /\ gateway'[q] = gateway[q]
               /\ sentOn'[q] = sentOn[q] /\ chan' = chan
               /\ net'[sentOn[q]] = "open" => net[sentOn[q]] = "open"
    <3>1. q # r /\ Unanswered(q)
      BY <2>1 DEF Unanswered, Waiting
    <3>2. sentOn[q] \in Sockets /\ sentOn[q] <= opened
      BY <3>1 DEF OneReader, SocketsCounted, Unanswered, Waiting, TypeOK, Tasks
    <3> QED BY <3>1, <3>2
  <2> HIDE DEF Unanswered
  <2> QED BY <2>1 DEF AnswerFirst
<1>6. Buffered'
  <2>1. \A i \in DOMAIN early : early[i][1] # r
    BY <1>1 DEF Buffered
  <2> QED BY <2>1 DEF Buffered, Waiting
<1>7. Registered'
  BY <1>2 DEF Registered, Waiting
<1>8. OkKept'
  BY <1>1 DEF OkKept
<1> QED BY <1>3, <1>4, <1>5, <1>6, <1>7, <1>8

LEMMA SendConnectedKeeps ==
  ASSUME IInv, IInv', Keeping, NEW r \in Requests, SendConnected(r)
  PROVE  Keeping'
<1>1. Dispatch(r, ws) /\ pc[r] = "idle" /\ IsConnected /\ UNCHANGED <<client, connectLock>>
  BY DEF SendConnected
<1>2. connectLock' = None /\ UNCHANGED <<ws, opened, readers>>
  BY <1>1 DEF IInv, LockHeld, IsConnected, client
<1>3. ws \in Sockets /\ ws <= opened
  BY <1>1 DEF IInv, TypeOK, SocketsCounted, IsConnected, Sockets, NoSocket
<1>4. TypeOK /\ CallsRegistered /\ LockHeld'
  BY DEF IInv
<1>5. pc[r] \notin Waiting \cup {"done"}
  BY <1>1 DEF Waiting
<1>6. readers' \subseteq {ws} /\ \A q \in Requests \ {r} : sentOn[q] \in readers' => sentOn[q] \in readers
  BY <1>1, <1>2 DEF IInv, LockHeld, Connecting, IsConnected, Keeping, OneReader
<1> QED BY <1>1, <1>2, <1>3, <1>4, <1>5, <1>6, DispatchKeeps

LEMMA AlreadyConnectedKeeps ==
  ASSUME IInv, IInv', Keeping, NEW r \in Requests, AlreadyConnected(r)
  PROVE  Keeping'
<1>1. Dispatch(r, ws) /\ pc[r] = "wantConnect" /\ IsConnected /\ connectLock = None
      /\ UNCHANGED <<client, connectLock>>
  BY DEF AlreadyConnected
<1>2. connectLock' = None /\ UNCHANGED <<ws, opened, readers>>
  BY <1>1 DEF client
<1>3. ws \in Sockets /\ ws <= opened
  BY <1>1 DEF IInv, TypeOK, SocketsCounted, IsConnected, Sockets, NoSocket
<1>4. TypeOK /\ CallsRegistered /\ LockHeld'
  BY DEF IInv
<1>5. pc[r] \notin Waiting \cup {"done"}
  BY <1>1 DEF Waiting
<1>6. readers' \subseteq {ws} /\ \A q \in Requests \ {r} : sentOn[q] \in readers' => sentOn[q] \in readers
  BY <1>1, <1>2 DEF IInv, LockHeld, Connecting, IsConnected, Keeping, OneReader
<1> QED BY <1>1, <1>2, <1>3, <1>4, <1>5, <1>6, DispatchKeeps

\* The new socket's receive loop reads nothing of calls on older sockets.
LEMMA HandshakeDoneKeeps ==
  ASSUME IInv, IInv', Keeping, NEW r \in Requests, HandshakeDone(r)
  PROVE  Keeping'
<1>1. Dispatch(r, ws) /\ pc[r] = "handshake" /\ ws # NoSocket /\ connectLock' = None
      /\ readers' = readers \cup {ws} /\ UNCHANGED <<ws, opened>>
  BY DEF HandshakeDone
<1>3. ws \in Sockets /\ ws <= opened
  BY <1>1 DEF IInv, TypeOK, SocketsCounted, Sockets, NoSocket
<1>4. TypeOK /\ CallsRegistered /\ LockHeld'
  BY DEF IInv
<1>5. pc[r] \notin Waiting \cup {"done"}
  BY <1>1 DEF Waiting
<1>6. readers' \subseteq {ws} /\ \A q \in Requests \ {r} : sentOn[q] \in readers' => sentOn[q] \in readers
  <2>1. \A q \in Requests : pc[q] # "tearing"
    BY <1>1 DEF IInv, LockHeld, Connecting
  <2>2. \A q \in Requests : sentOn[q] # ws
    BY <1>1 DEF IInv, SocketsCounted
  <2> QED BY <1>1, <2>1, <2>2 DEF Keeping, OneReader
<1> QED BY <1>1, <1>3, <1>4, <1>5, <1>6, DispatchKeeps

LEMMA SendDisconnectedKeeps ==
  ASSUME IInv, Keeping, NEW r \in Requests, SendDisconnected(r)
  PROVE  Keeping'
<1>1. /\ \A t \in Tasks : pc'[t] = IF t = r THEN "wantConnect" ELSE pc[t]
      /\ pc[r] = "idle" /\ UNCHANGED <<client, futures, world, sentOn, outcome, seen>>
  BY DEF IInv, TypeOK, SendDisconnected, Goto, Tasks
<1>2. TypeOK /\ CallsRegistered /\ SocketsCounted /\ r \in Tasks /\ Requests \subseteq Tasks
  BY DEF IInv, Tasks
<1>3. OneReader'
  BY <1>1, <1>2 DEF Keeping, OneReader, client, Waiting
<1>4. Asked' /\ OnTheWay' /\ AnswerFirst' /\ Buffered' /\ Registered' /\ OkKept'
  BY <1>1, <1>2, MoveKeeps DEF Waiting, client, world
<1> QED BY <1>3, <1>4 DEF Keeping

LEMMA BeginConnectKeeps ==
  ASSUME IInv, Keeping, NEW r \in Requests, BeginConnect(r)
  PROVE  Keeping'
<1>1. /\ \A t \in Tasks : pc'[t] = IF t = r THEN "tearing" ELSE pc[t]
      /\ \A t \in Tasks : sentOn'[t] = IF t = r THEN ws ELSE sentOn[t]
      /\ pc[r] = "wantConnect" /\ ws' = NoSocket
      /\ UNCHANGED <<readers, opened, futures, world, outcome, seen>>
  BY DEF IInv, TypeOK, BeginConnect, Detach, Goto, Tasks
<1>2. TypeOK /\ CallsRegistered /\ SocketsCounted /\ r \in Tasks /\ Requests \subseteq Tasks
  BY DEF IInv, Tasks
<1>3. OneReader'
  BY <1>1, <1>2 DEF Keeping, OneReader, Waiting
<1>4. Asked' /\ OnTheWay' /\ AnswerFirst' /\ Buffered' /\ Registered' /\ OkKept'
  BY <1>1, <1>2, MoveKeeps DEF Waiting, world
<1> QED BY <1>3, <1>4 DEF Keeping

\* A socket that is new to the client is new to every call.
LEMMA SocketOpenedKeeps ==
  ASSUME IInv, Keeping, NEW r \in Requests, SocketOpened(r)
  PROVE  Keeping'
<1>1. /\ \A t \in Tasks : pc'[t] = IF t = r THEN "handshake" ELSE pc[t]
      /\ pc[r] = "opening" /\ ws' = opened' /\ opened' = opened + 1
      /\ net' = [net EXCEPT ![opened'] = "open"]
      /\ UNCHANGED <<readers, futures, chan, gateway, sentOn, outcome, seen>>
  BY DEF IInv, TypeOK, SocketOpened, Goto, Tasks
<1>2. TypeOK /\ CallsRegistered /\ SocketsCounted /\ r \in Tasks /\ Requests \subseteq Tasks
      /\ opened \in Nat /\ sentOn \in [Tasks -> Nat]
  BY DEF IInv, Tasks, TypeOK, Sockets, NoSocket
<1>3. readers = {}
  <2>1. \A q \in Requests : pc[q] # "tearing"
    BY <1>1 DEF IInv, LockHeld, Connecting
  <2> QED BY <1>1, <2>1 DEF IInv, LockHeld, Keeping, OneReader, TypeOK, Sockets, NoSocket
<1>4. OneReader'
  BY <1>1, <1>2, <1>3 DEF Keeping, OneReader, Waiting
<1>5. \A q \in Requests \ {r} :
        sentOn[q] \in Sockets /\ sentOn[q] <= opened => net'[sentOn[q]] = net[sentOn[q]]
  <2>1. \A s \in Sockets : s <= opened => net'[s] = net[s]
    <3>1. ASSUME NEW s \in Sockets, s <= opened PROVE s # opened'
      BY <1>1, <1>2, <3>1 DEF Sockets
    <3>2. net \in [Sockets -> {"unused", "open", "lost", "closed"}]
      BY <1>2 DEF TypeOK
    <3> QED BY <1>1, <3>1, <3>2
  <2> QED BY <2>1
<1>6. Asked' /\ OnTheWay' /\ AnswerFirst' /\ Buffered' /\ Registered' /\ OkKept'
  BY <1>1, <1>2, <1>5, MoveKeeps DEF Waiting
<1> QED BY <1>4, <1>6 DEF Keeping

LEMMA OpenFailsKeeps ==
  ASSUME IInv, Keeping, NEW r \in Requests, OpenFails(r)
  PROVE  Keeping'
<1>1. /\ \A t \in Tasks : pc'[t] = IF t = r THEN "done" ELSE pc[t]
      /\ \A q \in Requests : outcome'[q] = IF q = r THEN "lost" ELSE outcome[q]
      /\ pc[r] = "opening" /\ UNCHANGED <<client, futures, world, sentOn, seen>>
  BY DEF IInv, TypeOK, OpenFails, End, Goto, Tasks
<1>2. TypeOK /\ CallsRegistered /\ SocketsCounted /\ r \in Tasks /\ Requests \subseteq Tasks
  BY DEF IInv, Tasks
<1>3. OneReader'
  BY <1>1, <1>2 DEF Keeping, OneReader, client, Waiting
<1>4. Asked' /\ OnTheWay' /\ AnswerFirst' /\ Buffered' /\ Registered' /\ OkKept'
  BY <1>1, <1>2, MoveKeeps DEF Waiting, client, world
<1> QED BY <1>3, <1>4 DEF Keeping

LEMMA HandshakeFailsKeeps ==
  ASSUME IInv, Keeping, NEW r \in Requests, HandshakeFails(r)
  PROVE  Keeping'
<1>1. /\ \A t \in Tasks : pc'[t] = IF t = r THEN "done" ELSE pc[t]
      /\ \A q \in Requests : outcome'[q] = IF q = r THEN "lost" ELSE outcome[q]
      /\ pc[r] = "handshake" /\ ws' = NoSocket
      /\ UNCHANGED <<readers, opened, futures, chan, gateway, sentOn, seen>>
  BY DEF IInv, TypeOK, HandshakeFails, End, Goto, Tasks
<1>2. TypeOK /\ CallsRegistered /\ SocketsCounted /\ r \in Tasks /\ Requests \subseteq Tasks
  BY DEF IInv, Tasks
<1>3. readers = {}
  <2>1. \A q \in Requests : pc[q] # "tearing"
    BY <1>1 DEF IInv, LockHeld, Connecting
  <2> QED BY <1>1, <2>1 DEF IInv, LockHeld, Keeping, OneReader
<1>4. OneReader'
  BY <1>1, <1>2, <1>3 DEF Keeping, OneReader, Waiting
<1>5. \A s \in Sockets : net'[s] = "open" => net[s] = "open"
  BY <1>2 DEF TypeOK, HandshakeFails
<1>6. Asked' /\ OnTheWay' /\ AnswerFirst' /\ Buffered' /\ Registered' /\ OkKept'
  BY <1>1, <1>2, <1>5, MoveKeeps DEF Waiting
<1> QED BY <1>4, <1>6 DEF Keeping

\* When the connection fails nobody reads it any more, so what its calls were
\* told is final.
LEMMA FailingKeeps ==
  ASSUME TypeOK, CallsRegistered, Keeping, FailInflight(FALSE), readers' = {},
         \A q \in Requests : pc'[q] = pc[q] \/ (pc[q] = "tearing" /\ pc'[q] = "opening"),
         \A s \in Sockets : chan'[s] = chan[s] \/ chan'[s] = <<>>,
         UNCHANGED <<gateway, sentOn, outcome, seen, ws, opened>>
  PROVE  Keeping'
<1> USE DEF Keeping
<1>1. /\ \A q \in Requests : ack'[q] = IF q \in pending /\ ack[q] = "wait" THEN "lost" ELSE ack[q]
      /\ \A q \in Requests : status'[q] = IF q \in runs /\ status[q] = "none" THEN "error" ELSE status[q]
      /\ runs' = {} /\ early' = early
  BY DEF FailInflight
<1>2. \A q \in Requests : ~Unanswered(q)'
  <2>1. ASSUME NEW q \in Requests, Unanswered(q)' PROVE FALSE
    <3>1. pc[q] \in {"sending", "awaitAck"} /\ ack'[q] = "wait"
      BY <2>1 DEF Unanswered
    <3>2. q \notin pending /\ ack[q] = "wait"
      BY <1>1, <3>1
    <3> QED BY <3>1, <3>2 DEF CallsRegistered
  <2> QED BY <2>1
<1>3. OneReader'
  BY DEF OneReader, Waiting
<1>4. Asked' /\ OkKept'
  BY DEF Asked, OkKept, Waiting
<1>5. OnTheWay'
  <2>1. ASSUME NEW s \in Sockets, NEW i \in DOMAIN chan'[s], NEW q \in Requests
        PROVE  chan'[s] = chan[s] /\ (pc[q] \in Waiting \cup {"done"} => pc'[q] \in Waiting \cup {"done"})
    <3>1. chan'[s] # <<>>
      OBVIOUS
    <3> QED BY <3>1 DEF Waiting
  <2> HIDE DEF Unanswered
  <2> QED BY <1>1, <1>2, <2>1 DEF OnTheWay, IsEvent
<1>6. AnswerFirst'
  BY <1>2 DEF AnswerFirst
<1>7. Buffered'
  BY <1>1 DEF Buffered
<1>8. Registered'
  <2>1. ASSUME NEW q \in Requests, pc'[q] \in Waiting, ack'[q] = "lost" PROVE seen[q] = "none"
    <3>1. pc[q] = pc'[q]
      BY <2>1 DEF Waiting
    <3>2. CASE ack[q] = "lost"
      BY <2>1, <3>1, <3>2 DEF Registered
    <3>3. CASE ack[q] = "wait"
      <4>1. pc[q] \in {"sending", "awaitAck"}
        BY <2>1, <3>1, <3>3 DEF Registered, Waiting
      <4> QED BY <3>3, <4>1 DEF AnswerFirst, Unanswered
    <3> QED BY <1>1, <2>1, <3>2, <3>3
  <2>2. ASSUME NEW q \in Requests, pc'[q] \in {"awaitRun", "grace"}
        PROVE  /\ ack'[q] \notin {"wait", "lost"}
               /\ seen[q] # "none" => status'[q] = seen[q]
    <3>1. pc[q] = pc'[q]
      BY <2>2
    <3> QED BY <1>1, <2>2, <3>1 DEF Registered
  <2>3. ASSUME NEW q \in Requests, pc'[q] \in {"sending", "awaitAck"}
        PROVE  status'[q] = "none"
    <3>1. pc[q] = pc'[q]
      BY <2>3
    <3> QED BY <1>1, <2>3, <3>1 DEF Registered
  <2> QED BY <1>1, <2>1, <2>2, <2>3 DEF Registered
<1> QED BY <1>3, <1>4, <1>5, <1>6, <1>7, <1>8

LEMMA OldConnectionGoneKeeps ==
  ASSUME IInv, Keeping, NEW r \in Requests, OldConnectionGone(r)
  PROVE  Keeping'
<1>0. /\ pc[r] = "tearing" /\ pc' = [pc EXCEPT ![r] = "opening"]
      /\ UNCHANGED <<client, gateway, sentOn, outcome, seen>>
  BY DEF OldConnectionGone, CloseDetached, Goto
<1>1. \A q \in Requests : pc'[q] = pc[q] \/ (pc[q] = "tearing" /\ pc'[q] = "opening")
  <2>1. \A q \in Requests : pc'[q] = IF q = r THEN "opening" ELSE pc[q]
    BY <1>0 DEF IInv, TypeOK, Tasks
  <2> QED BY <1>0, <2>1
<1>2. readers = {}
  <2>1. \A q \in Requests : pc[q] = "tearing" => q = r
    BY <1>0 DEF IInv, LockHeld, Connecting
  <2>2. ws \notin readers /\ sentOn[r] \notin readers
    BY <1>0 DEF IInv, LockHeld, TypeOK, Sockets, NoSocket, OldConnectionGone, CloseDetached
  <2> QED BY <2>1, <2>2 DEF Keeping, OneReader
<1>3. \A s \in Sockets : chan'[s] = chan[s] \/ chan'[s] = <<>>
  <2>1. chan' = chan \/ chan' = [chan EXCEPT ![sentOn[r]] = <<>>]
    BY DEF OldConnectionGone, CloseDetached
  <2>2. chan \in [Sockets -> Seq(Messages)]
    BY DEF IInv, TypeOK
  <2> HIDE DEF Sockets
  <2> QED BY <2>1, <2>2
<1>4. TypeOK /\ CallsRegistered
  BY DEF IInv
<1>5. UNCHANGED <<gateway, sentOn, outcome, seen, ws, opened>> /\ readers' = {}
  BY <1>0, <1>2 DEF client
<1>6. FailInflight(FALSE)
  BY DEF OldConnectionGone, CloseDetached
<1> QED BY <1>1, <1>3, <1>4, <1>5, <1>6, FailingKeeps

\* Steps that only move a call on, or the network, the flag or a loop down.
LEMMA StandsStill ==
  ASSUME TypeOK, Keeping,
         \A q \in Requests :
           \/ pc'[q] = pc[q]
           \/ pc[q] = "sending" /\ pc'[q] = "awaitAck"
           \/ pc[q] = "awaitRun" /\ pc'[q] = "grace",
         \A s \in Sockets : net'[s] = "open" => net[s] = "open",
         readers' \subseteq readers,
         UNCHANGED <<ws, opened, futures, chan, gateway, sentOn, outcome, seen>>
  PROVE  Keeping'
<1> USE DEF Keeping, futures
<1>1. \A q \in Requests : Unanswered(q)' = Unanswered(q)
  BY DEF Unanswered
<1>2. \A q \in Requests : pc'[q] \in Waiting \cup {"done"} <=> pc[q] \in Waiting \cup {"done"}
  BY DEF Waiting
<1>3. OneReader' /\ Asked' /\ OkKept'
  BY DEF OneReader, Asked, OkKept, Waiting
<1>4. OnTheWay'
  <2> HIDE DEF Unanswered
  <2> QED BY <1>1, <1>2 DEF OnTheWay, IsEvent
<1>5. AnswerFirst'
  <2>1. \A q \in Requests : Unanswered(q) => sentOn[q] \in Sockets
    BY DEF OneReader, Unanswered, Waiting, TypeOK, Tasks
  <2> HIDE DEF Unanswered
  <2> QED BY <1>1, <2>1 DEF AnswerFirst
<1>6. Buffered' /\ Registered'
  BY DEF Buffered, Registered, Waiting
<1> QED BY <1>3, <1>4, <1>5, <1>6

\* The end of the loop of the socket in use fails its calls; that of a socket
\* which is torn down changes nothing for them.
LEMMA ReaderEndsKeeps ==
  ASSUME IInv, Keeping, NEW s \in Sockets, ReaderEnds(s)
  PROVE  Keeping'
<1>1. readers' = readers \ {s}
      /\ UNCHANGED <<pc, ws, opened, net, chan, gateway, sentOn, outcome, seen>>
  BY DEF ReaderEnds, world
<1>2. TypeOK /\ CallsRegistered
  BY DEF IInv
<1>3. CASE ws = s
  <2>1. \A q \in Requests : pc[q] # "tearing"
    BY <1>3 DEF IInv, LockHeld, Sockets, NoSocket
  <2>2. readers' = {}
    BY <1>1, <1>3, <2>1 DEF Keeping, OneReader
  <2>3. /\ \A q \in Requests : pc'[q] = pc[q] \/ (pc[q] = "tearing" /\ pc'[q] = "opening")
        /\ \A t \in Sockets : chan'[t] = chan[t] \/ chan'[t] = <<>>
    BY <1>1
  <2>4. FailInflight(FALSE)
    BY <1>3 DEF ReaderEnds
  <2> QED BY <1>1, <1>2, <2>2, <2>3, <2>4, FailingKeeps
<1>4. CASE ws # s
  <2>1. UNCHANGED futures
    BY <1>4 DEF ReaderEnds
  <2>2. \A q \in Requests : pc'[q] = pc[q]
    BY <1>1
  <2>3. (\A t \in Sockets : net'[t] = "open" => net[t] = "open") /\ readers' \subseteq readers
    BY <1>1
  <2> QED BY <1>1, <1>2, <2>1, <2>2, <2>3, StandsStill
<1> QED BY <1>3, <1>4

\* So does the cancellation of the loop that a teardown waits for.
LEMMA LoopCancelledKeeps ==
  ASSUME IInv, Keeping, NEW r \in Requests, LoopCancelled(r)
  PROVE  Keeping'
<1>1. /\ readers' \subseteq readers
      /\ UNCHANGED <<pc, ws, opened, futures, net, chan, gateway, sentOn, outcome, seen>>
  BY DEF LoopCancelled, world
<1>2. \A q \in Requests : pc'[q] = pc[q]
  BY <1>1
<1>3. \A t \in Sockets : net'[t] = "open" => net[t] = "open"
  BY <1>1
<1>4. TypeOK
  BY DEF IInv
<1> QED BY <1>1, <1>2, <1>3, <1>4, StandsStill

LEMMA SentKeeps ==
  ASSUME IInv, Keeping, NEW r \in Requests, Sent(r)
  PROVE  Keeping'
<1>1. /\ \A q \in Requests : pc'[q] = IF q = r THEN "awaitAck" ELSE pc[q]
      /\ pc[r] = "sending"
  BY DEF IInv, TypeOK, Sent, Goto, Tasks
<1>2. UNCHANGED <<ws, readers, opened, futures, net, chan, gateway, sentOn, outcome, seen>>
  BY DEF Sent, client, world
<1> QED BY <1>1, <1>2, StandsStill DEF IInv

LEMMA EnterGraceKeeps ==
  ASSUME IInv, Keeping, NEW r \in Requests, EnterGrace(r)
  PROVE  Keeping'
<1>1. /\ \A q \in Requests : pc'[q] = IF q = r THEN "grace" ELSE pc[q]
      /\ pc[r] = "awaitRun"
  BY DEF IInv, TypeOK, EnterGrace, Goto, Tasks
<1>2. UNCHANGED <<ws, readers, opened, futures, net, chan, gateway, sentOn, outcome, seen>>
  BY DEF EnterGrace, client, world
<1> QED BY <1>1, <1>2, StandsStill DEF IInv

\* A call that ends takes its run along, and nothing of the others.
LEMMA FinishKeeps ==
  ASSUME IInv, IInv', Keeping, NEW r \in Requests, NEW how, pc[r] \in Waiting, Finish(r, how),
         how \in {"lost", "timeout"} => seen[r] # "ok"
  PROVE  Keeping'
<1> USE DEF Keeping
<1>1. /\ \A q \in Requests : pc'[q] = IF q = r THEN "done" ELSE pc[q]
      /\ \A t \in Tasks : pc'[t] = IF t = r THEN "done" ELSE pc[t]
      /\ \A q \in Requests : outcome'[q] = IF q = r THEN how ELSE outcome[q]
      /\ \A q \in Requests : ack'[q] = IF q = r THEN "wait" ELSE ack[q]
      /\ \A q \in Requests : status'[q] = IF q = r THEN "none" ELSE status[q]
  BY DEF IInv, TypeOK, Finish, Forget, End, Goto, Tasks
<1>2. /\ runs' = runs \ {r}
      /\ UNCHANGED <<ws, readers, opened, net, chan, gateway, sentOn, seen>>
  BY DEF Finish, Forget, client, world
<1>3. Requests \subseteq Tasks
  BY DEF Tasks
<1>4. /\ \A i \in DOMAIN early' : \E k \in DOMAIN early : early'[i] = early[k]
      /\ \A k \in DOMAIN early : early[k][1] # r => \E i \in DOMAIN early' : early'[i] = early[k]
      /\ \A i, j \in DOMAIN early' : early'[i][1] = early'[j][1] => i = j
  <2>1. \A i, j \in DOMAIN early : early[i][1] = early[j][1] => i = j
    BY DEF Buffered
  <2>2. early \in Seq(Requests \X {"ok", "error"})
    BY DEF IInv, TypeOK
  <2>3. CASE early' = early
    BY <2>1, <2>3
  <2>4. CASE early' = EarlyWithout(r)
    BY <2>1, <2>2, <2>4, EarlyWithoutKeeps
  <2> QED BY <2>3, <2>4 DEF Finish, Forget
<1>5. OneReader'
  BY <1>1, <1>2 DEF OneReader, Waiting
<1>6. Asked' /\ OkKept'
  BY <1>1, <1>2 DEF Asked, OkKept, Waiting
<1>7. \A q \in Requests : Unanswered(q)' => Unanswered(q) /\ q # r
  BY <1>1 DEF Unanswered
<1>8. OnTheWay'
  <2>1. \A q \in Requests : (\A n \in DOMAIN early : early[n][1] # q) => \A n \in DOMAIN early' : early'[n][1] # q
    BY <1>4
  <2>2. \A q \in Requests : pc[q] \in Waiting \cup {"done"} => pc'[q] \in Waiting \cup {"done"}
    BY <1>1
  <2> HIDE DEF Unanswered
  <2> QED BY <1>2, <1>7, <2>1, <2>2 DEF OnTheWay, IsEvent
<1>9. AnswerFirst'
  <2> HIDE DEF Unanswered
  <2> QED BY <1>2, <1>7 DEF AnswerFirst
<1>10. Buffered'
  <2>1. ASSUME NEW i \in DOMAIN early', NEW q \in Requests, early'[i][1] = q
        PROVE  /\ "event" \in gateway'[q] /\ pc'[q] \in {"sending", "awaitAck", "done"}
               /\ pc'[q] # "done" => seen'[q] = early'[i][2]
    <3>1. PICK k \in DOMAIN early : early'[i] = early[k]
      BY <1>4
    <3> QED BY <1>1, <1>2, <2>1, <3>1 DEF Buffered
  <2>2. ASSUME NEW q \in Requests, pc'[q] \in {"sending", "awaitAck"}, seen'[q] # "none"
        PROVE  \E i \in DOMAIN early' : early'[i][1] = q
    <3>1. q # r /\ \E k \in DOMAIN early : early[k][1] = q
      BY <1>1, <1>2, <2>2 DEF Buffered
    <3> QED BY <1>4, <3>1
  <2> QED BY <1>4, <2>1, <2>2 DEF Buffered
<1>11. Registered'
  BY <1>1, <1>2 DEF Registered, Waiting
<1> QED BY <1>5, <1>6, <1>8, <1>9, <1>10, <1>11

\* What is replayed for a run is the completion that was handled.
LEMMA ReplayedIsSeen ==
  ASSUME Buffered, NEW r \in Requests, pc[r] \in {"sending", "awaitAck"}, seen[r] # "none"
  PROVE  Replayed(r) = seen[r]
<1>1. \E i \in DOMAIN early : early[i][1] = r
  BY DEF Buffered
<1> DEFINE at == CHOOSE i \in DOMAIN early : early[i][1] = r
<1>2. at \in DOMAIN early /\ early[at][1] = r
  BY <1>1
<1>3. Replayed(r) = early[at][2]
  BY <1>1 DEF Replayed
<1> HIDE DEF at
<1> QED BY <1>2, <1>3 DEF Buffered

\* The calls that end with an error have had no completion with ok.
LEMMA EndingKeeps ==
  ASSUME IInv, IInv', Keeping, NEW r \in Requests,
         SendFails(r) \/ AckTimeout(r) \/ AckRefused(r) \/ RegisterLost(r) \/ RunTimeout(r)
           \/ Return(r) \/ Cancel(r)
  PROVE  Keeping'
<1> USE DEF Waiting
<1>1. CASE SendFails(r)
  BY <1>1, FinishKeeps DEF SendFails
<1>2. CASE AckTimeout(r)
  <2>1. seen[r] = "none"
    BY <1>2 DEF AckTimeout, Keeping, AnswerFirst, Unanswered
  <2> QED BY <1>2, <2>1, FinishKeeps DEF AckTimeout
<1>3. CASE AckRefused(r)
  <2> DEFINE how == IF ack[r] = "lost" THEN "lost" ELSE "failed"
  <2>1. pc[r] = "awaitAck" /\ Finish(r, how)
    BY <1>3 DEF AckRefused
  <2>2. how \in {"lost", "timeout"} => seen[r] # "ok"
    BY <2>1 DEF Keeping, Registered
  <2> HIDE DEF how
  <2> QED BY <2>1, <2>2, FinishKeeps
<1>4. CASE RegisterLost(r)
  <2>1. pc[r] = "awaitAck" /\ Replayed(r) = "none" /\ Finish(r, "lost")
    BY <1>4 DEF RegisterLost
  <2>2. seen[r] # "ok"
    BY <2>1, ReplayedIsSeen DEF Keeping
  <2> QED BY <2>1, <2>2, FinishKeeps
<1>5. CASE RunTimeout(r)
  <2>1. pc[r] = "awaitRun" /\ status[r] = "none" /\ Finish(r, "timeout")
    BY <1>5 DEF RunTimeout
  <2>2. seen[r] # "ok"
    BY <2>1 DEF Keeping, Registered
  <2> QED BY <2>1, <2>2, FinishKeeps
<1>6. CASE Return(r)
  <2>1. pc[r] \in {"awaitRun", "grace"} /\ Finish(r, Result(r))
    BY <1>6 DEF Return
  <2>2. Result(r) \in {"lost", "timeout"} => status[r] # "ok"
    <3>1. final[r] \in {"wait", "reply", "failed", "lost"}
      BY DEF IInv, TypeOK
    <3> QED BY <3>1 DEF Result
  <2>3. Result(r) \in {"lost", "timeout"} => seen[r] # "ok"
    BY <2>1, <2>2 DEF Keeping, Registered
  <2> QED BY <2>1, <2>3, FinishKeeps
<1>7. CASE Cancel(r)
  BY <1>7, FinishKeeps DEF Cancel
<1> QED BY <1>1, <1>2, <1>3, <1>4, <1>5, <1>6, <1>7

\* A run that is registered takes what was buffered for it.
LEMMA RegisterRunKeeps ==
  ASSUME IInv, IInv', Keeping, NEW r \in Requests, RegisterRun(r)
  PROVE  Keeping'
<1> USE DEF Keeping
<1>1. /\ \A q \in Requests : pc'[q] = IF q = r THEN "awaitRun" ELSE pc[q]
      /\ \A q \in Requests : status'[q] = IF q = r THEN Replayed(r) ELSE status[q]
      /\ pc[r] = "awaitAck" /\ ack[r] \in {"accepted", "started", "replied"}
      /\ runs' = runs \cup {r} /\ early' = EarlyWithout(r)
  BY DEF IInv, TypeOK, RegisterRun, Goto, Tasks
<1>2. UNCHANGED <<ws, readers, opened, net, chan, gateway, ack, sentOn, outcome, seen>>
  BY DEF RegisterRun, client, world
<1>3. seen[r] # "none" => Replayed(r) = seen[r]
  BY <1>1, ReplayedIsSeen
<1>4. /\ \A i \in DOMAIN early' : early'[i][1] # r /\ \E k \in DOMAIN early : early'[i] = early[k]
      /\ \A k \in DOMAIN early : early[k][1] # r => \E i \in DOMAIN early' : early'[i] = early[k]
      /\ \A i, j \in DOMAIN early' : early'[i][1] = early'[j][1] => i = j
  <2>1. \A i, j \in DOMAIN early : early[i][1] = early[j][1] => i = j
    BY DEF Buffered
  <2>2. early \in Seq(Requests \X {"ok", "error"})
    BY DEF IInv, TypeOK
  <2> QED BY <1>1, <2>1, <2>2, EarlyWithoutKeeps
<1>5. OneReader'
  BY <1>1, <1>2 DEF OneReader, Waiting
<1>6. Asked' /\ OkKept'
  BY <1>1, <1>2 DEF Asked, OkKept, Waiting
<1>7. \A q \in Requests : Unanswered(q)' => Unanswered(q) /\ q # r
  BY <1>1, <1>2 DEF Unanswered
<1>8. OnTheWay'
  <2>1. \A q \in Requests : (\A n \in DOMAIN early : early[n][1] # q) => \A n \in DOMAIN early' : early'[n][1] # q
    BY <1>4
  <2>2. \A q \in Requests : pc[q] \in Waiting \cup {"done"} => pc'[q] \in Waiting \cup {"done"}
    BY <1>1 DEF Waiting
  <2> HIDE DEF Unanswered
  <2> QED BY <1>2, <1>7, <2>1, <2>2 DEF OnTheWay, IsEvent
<1>9. AnswerFirst'
  <2> HIDE DEF Unanswered
  <2> QED BY <1>2, <1>7 DEF AnswerFirst
<1>10. Buffered'
  <2>1. ASSUME NEW i \in DOMAIN early', NEW q \in Requests, early'[i][1] = q
        PROVE  /\ "event" \in gateway'[q] /\ pc'[q] \in {"sending", "awaitAck", "done"}
               /\ pc'[q] # "done" => seen'[q] = early'[i][2]
    <3>1. PICK k \in DOMAIN early : early'[i] = early[k]
      BY <1>4
    <3>2. q # r
      BY <1>4, <2>1
    <3> QED BY <1>1, <1>2, <2>1, <3>1, <3>2 DEF Buffered
  <2>2. ASSUME NEW q \in Requests, pc'[q] \in {"sending", "awaitAck"}, seen'[q] # "none"
        PROVE  \E i \in DOMAIN early' : early'[i][1] = q
    <3>1. q # r /\ \E k \in DOMAIN early : early[k][1] = q
      BY <1>1, <1>2, <2>2 DEF Buffered
    <3> QED BY <1>4, <3>1
  <2> QED BY <1>4, <2>1, <2>2 DEF Buffered
<1>11. Registered'
  BY <1>1, <1>2, <1>3 DEF Registered, Waiting
<1> QED BY <1>5, <1>6, <1>8, <1>9, <1>10, <1>11

\* The rest of a sequence is the sequence, one place on.
LEMMA TailShape ==
  ASSUME NEW S, NEW seq \in Seq(S), seq # <<>>
  PROVE  /\ Len(seq) \in Nat \ {0} /\ DOMAIN seq = 1 .. Len(seq) /\ Head(seq) = seq[1]
         /\ DOMAIN Tail(seq) = 1 .. (Len(seq) - 1)
         /\ \A i \in 1 .. (Len(seq) - 1) : Tail(seq)[i] = seq[i + 1]
<1>1. Len(seq) \in Nat /\ DOMAIN seq = 1 .. Len(seq) /\ Len(seq) # 0
  BY EmptySeq, LenProperties
<1>2. /\ Head(seq) = seq[1] /\ Len(Tail(seq)) = Len(seq) - 1 /\ Tail(seq) \in Seq(S)
      /\ \A i \in 1 .. Len(Tail(seq)) : Tail(seq)[i] = seq[i + 1]
  BY HeadTailProperties
<1> QED BY <1>1, <1>2, LenProperties

\* After a message is read, what is on the way is still so: the first answer of
\* a call that has had none is not the message, and no second completion of the
\* run that was read follows.
LEMMA ReadingKeeps ==
  ASSUME TypeOK, Keeping, NEW s \in Sockets, chan[s] # <<>>,
         chan' = [chan EXCEPT ![s] = Tail(@)], UNCHANGED <<pc, net, gateway, sentOn>>,
         \A q \in Requests : Unanswered(q)' => Unanswered(q) /\ ~IsResponse(chan[s][1], q),
         \A q \in Requests : ~IsEvent(chan[s][1], q) =>
           /\ seen'[q] = seen[q]
           /\ (\A n \in DOMAIN early : early[n][1] # q) => \A n \in DOMAIN early' : early'[n][1] # q
  PROVE  OnTheWay' /\ AnswerFirst'
<1> DEFINE off(t) == IF t = s THEN 1 ELSE 0
<1>1. chan \in [Sockets -> Seq(Messages)]
  BY DEF TypeOK
<1>2. /\ Len(chan[s]) \in Nat \ {0} /\ DOMAIN chan[s] = 1 .. Len(chan[s])
      /\ DOMAIN Tail(chan[s]) = 1 .. (Len(chan[s]) - 1)
      /\ \A i \in 1 .. (Len(chan[s]) - 1) : Tail(chan[s])[i] = chan[s][i + 1]
  <2>1. chan[s] \in Seq(Messages)
    BY <1>1
  <2> HIDE DEF Messages
  <2> QED BY <2>1, TailShape
<1>3. chan'[s] = Tail(chan[s]) /\ \A t \in Sockets : t # s => chan'[t] = chan[t]
  BY <1>1
<1>4. \A t \in Sockets : Len(chan[t]) \in Nat /\ DOMAIN chan[t] = 1 .. Len(chan[t])
  BY <1>1, LenProperties
<1>5. ASSUME NEW t \in Sockets, NEW i \in DOMAIN chan'[t]
      PROVE  /\ i + off(t) \in DOMAIN chan[t] /\ chan'[t][i] = chan[t][i + off(t)]
             /\ i \in Nat \ {0}
  <2>1. CASE t = s
    <3>1. i \in 1 .. (Len(chan[s]) - 1) /\ chan'[t] = Tail(chan[s])
      BY <1>2, <1>3, <2>1
    <3>2. i + 1 \in 1 .. Len(chan[s]) /\ i \in Nat \ {0}
      BY <1>2, <3>1
    <3>3. Tail(chan[s])[i] = chan[s][i + 1]
      BY <1>2, <3>1
    <3> QED BY <1>2, <2>1, <3>1, <3>2, <3>3
  <2>2. CASE t # s
    <3>1. i \in 1 .. Len(chan[t]) /\ chan'[t] = chan[t]
      BY <1>3, <1>4, <2>2
    <3> QED BY <1>4, <2>2, <3>1
  <2> QED BY <2>1, <2>2
<1>6. ASSUME NEW t \in Sockets, NEW k \in DOMAIN chan[t], ~(t = s /\ k = 1)
      PROVE  /\ k - off(t) \in DOMAIN chan'[t] /\ chan'[t][k - off(t)] = chan[t][k]
             /\ k \in Nat
  <2>1. CASE t = s
    <3>1. k - 1 \in 1 .. (Len(chan[s]) - 1) /\ (k - 1) + 1 = k /\ k \in Nat
      BY <1>2, <1>6, <2>1
    <3>2. Tail(chan[s])[k - 1] = chan[s][k]
      BY <1>2, <3>1
    <3>3. chan'[t] = Tail(chan[s]) /\ k - off(t) = k - 1
      BY <1>3, <2>1
    <3> QED BY <1>2, <2>1, <3>1, <3>2, <3>3
  <2>2. CASE t # s
    <3>1. k - off(t) = k
      BY <1>4, <2>2
    <3> QED BY <1>3, <1>4, <2>2, <3>1
  <2> QED BY <2>1, <2>2
<1>7. \A t \in Sockets : off(t) \in {0, 1} /\ (off(t) = 1 => t = s)
  OBVIOUS
<1> HIDE DEF off
<1>8. ASSUME NEW t \in Sockets, NEW i \in DOMAIN chan'[t], NEW q \in Requests
      PROVE  /\ chan'[t][i].req = q => sentOn'[q] = t /\ pc'[q] \in Waiting \cup {"done"}
             /\ IsEvent(chan'[t][i], q) =>
                  /\ "event" \in gateway'[q] /\ seen'[q] = "none"
                  /\ \A n \in DOMAIN early' : early'[n][1] # q
                  /\ \A j \in DOMAIN chan'[t] : IsEvent(chan'[t][j], q) => i = j
                  /\ Unanswered(q)' => \E j \in 1 .. (i - 1) : IsResponse(chan'[t][j], q)
  <2> DEFINE k == i + off(t)
  <2>1. k \in DOMAIN chan[t] /\ chan'[t][i] = chan[t][k] /\ i \in Nat \ {0}
    BY <1>5
  <2>2. chan[t][k].req = q => sentOn[q] = t /\ pc[q] \in Waiting \cup {"done"}
    BY <2>1 DEF Keeping, OnTheWay
  <2>3. ASSUME IsEvent(chan[t][k], q)
        PROVE  /\ "event" \in gateway[q] /\ seen[q] = "none"
               /\ \A n \in DOMAIN early : early[n][1] # q
               /\ \A j \in DOMAIN chan[t] : IsEvent(chan[t][j], q) => k = j
               /\ Unanswered(q) => \E j \in 1 .. (k - 1) : IsResponse(chan[t][j], q)
    BY <2>1, <2>3 DEF Keeping, OnTheWay
  <2>4. ASSUME IsEvent(chan[t][k], q)
        PROVE  ~IsEvent(chan[s][1], q)
    <3>1. SUFFICES ASSUME IsEvent(chan[s][1], q) PROVE FALSE
      OBVIOUS
    <3>2. 1 \in DOMAIN chan[s]
      BY <1>2
    <3>3. sentOn[q] = s /\ sentOn[q] = t
      BY <2>1, <2>4, <3>1, <3>2 DEF Keeping, OnTheWay, IsEvent
    <3>4. k = 1
      BY <2>3, <2>4, <3>1, <3>2, <3>3
    <3>5. off(t) = 1
      BY <3>3 DEF off
    <3> QED BY <2>1, <3>4, <3>5
  <2>5. ASSUME IsEvent(chan[t][k], q), NEW j \in DOMAIN chan'[t], IsEvent(chan'[t][j], q)
        PROVE  i = j
    <3>1. j + off(t) \in DOMAIN chan[t] /\ chan'[t][j] = chan[t][j + off(t)] /\ j \in Nat
      BY <1>5
    <3>2. k = j + off(t)
      BY <2>3, <2>5, <3>1
    <3> QED BY <1>7, <2>1, <3>1, <3>2
  <2>6. ASSUME IsEvent(chan[t][k], q), Unanswered(q)'
        PROVE  \E j \in 1 .. (i - 1) : IsResponse(chan'[t][j], q)
    <3>1. PICK j \in 1 .. (k - 1) : IsResponse(chan[t][j], q)
      BY <2>3, <2>6
    <3>2. j \in DOMAIN chan[t]
      BY <1>4, <1>7, <2>1, <3>1
    <3>3. ~(t = s /\ j = 1)
      BY <2>6, <3>1
    <3>4. j - off(t) \in DOMAIN chan'[t] /\ chan'[t][j - off(t)] = chan[t][j] /\ j \in Nat
      BY <1>6, <3>2, <3>3
    <3>5. j - off(t) \in 1 .. (i - 1)
      <4>1. j - off(t) \in Nat \ {0}
        BY <1>5, <3>4
      <4> QED BY <1>7, <2>1, <3>1, <3>4, <4>1
    <3> QED BY <3>1, <3>4, <3>5
  <2> HIDE DEF k
  <2>7. IsEvent(chan'[t][i], q) => seen'[q] = seen[q]
    BY <2>1, <2>4
  <2> QED BY <2>1, <2>2, <2>3, <2>4, <2>5, <2>6, <2>7
<1>9. OnTheWay'
  BY <1>8 DEF OnTheWay, IsEvent, IsResponse
<1>10. ASSUME NEW q \in Requests, Unanswered(q)'
       PROVE  /\ seen'[q] = "none"
              /\ "answer" \in gateway'[q] /\ net'[sentOn'[q]] = "open" =>
                   \E i \in DOMAIN chan'[sentOn'[q]] : IsResponse(chan'[sentOn'[q]][i], q)
  <2>1. Unanswered(q) /\ ~IsResponse(chan[s][1], q)
    BY <1>10
  <2>2. seen[q] = "none" /\ sentOn[q] \in Sockets
    BY <2>1 DEF Keeping, AnswerFirst, OneReader, Unanswered, Waiting, TypeOK, Tasks
  <2>3. ~IsEvent(chan[s][1], q)
    <3>1. SUFFICES ASSUME IsEvent(chan[s][1], q) PROVE FALSE
      OBVIOUS
    <3>2. 1 \in DOMAIN chan[s]
      BY <1>2
    <3>3. \E j \in 1 .. (1 - 1) : IsResponse(chan[s][j], q)
      BY <2>1, <3>1, <3>2 DEF Keeping, OnTheWay
    <3> QED BY <3>3
  <2>4. ASSUME "answer" \in gateway[q], net[sentOn[q]] = "open"
        PROVE  \E i \in DOMAIN chan'[sentOn[q]] : IsResponse(chan'[sentOn[q]][i], q)
    <3>1. PICK k \in DOMAIN chan[sentOn[q]] : IsResponse(chan[sentOn[q]][k], q)
      BY <2>1, <2>4 DEF Keeping, AnswerFirst
    <3>2. ~(sentOn[q] = s /\ k = 1)
      BY <2>1, <3>1
    <3> DEFINE t == sentOn[q]
               j == k - off(t)
    <3>3. t \in Sockets /\ k \in DOMAIN chan[t] /\ ~(t = s /\ k = 1)
      BY <2>2, <3>1, <3>2
    <3>4. IsResponse(chan[t][k], q)
      BY <3>1
    <3> HIDE DEF t, off
    <3>5. j \in DOMAIN chan'[t] /\ chan'[t][j] = chan[t][k]
      BY <1>6, <3>3
    <3>6. IsResponse(chan'[t][j], q)
      BY <3>4, <3>5
    <3> HIDE DEF j
    <3> QED BY <3>5, <3>6 DEF t
  <2> QED BY <2>2, <2>3, <2>4
<1>11. AnswerFirst'
  BY <1>10 DEF AnswerFirst, IsResponse
<1> QED BY <1>9, <1>11

\* A response is the first answer of its call, or changes nothing that the
\* completion depends on.
LEMMA ResponseKeeps ==
  ASSUME IInv, Keeping, NEW s \in Sockets, NEW r \in Requests,
         NEW kind \in {"accepted", "started", "replied", "refused", "reply", "failed"},
         TakeResponse(r, kind), chan[s] # <<>>, IsResponse(chan[s][1], r),
         chan' = [chan EXCEPT ![s] = Tail(@)],
         UNCHANGED <<pc, connectLock, client, net, gateway, sentOn, outcome>>
  PROVE  Keeping'
<1> USE DEF Keeping
<1>1. /\ \A q \in Requests : ack'[q] = IF q = r /\ r \in pending THEN kind ELSE ack[q]
      /\ UNCHANGED <<runs, early, status, seen, ws, readers, opened>>
  BY DEF IInv, TypeOK, TakeResponse, client
<1>2. \A q \in Requests : Unanswered(q)' => Unanswered(q) /\ q # r
  BY <1>1 DEF Unanswered, IInv, CallsRegistered
<1>3. \A q \in Requests : IsResponse(chan[s][1], q) => q = r
  BY DEF IsResponse
<1>4. OnTheWay' /\ AnswerFirst'
  <2>1. TypeOK
    BY DEF IInv
  <2> HIDE DEF Unanswered
  <2> QED BY <1>1, <1>2, <1>3, <2>1, ReadingKeeps
<1>5. OneReader' /\ Asked' /\ Buffered' /\ OkKept'
  BY <1>1 DEF OneReader, Asked, Buffered, OkKept
<1>6. Registered'
  BY <1>1 DEF Registered
<1> QED BY <1>4, <1>5, <1>6

\* There is room for an event whose run is not in the buffer.
LEMMA BufferKeeps ==
  ASSUME NEW S, NEW buffer \in Seq(S), NEW event \in S
  PROVE  /\ DOMAIN Append(buffer, event) = 1 .. (Len(buffer) + 1)
         /\ Len(Append(buffer, event)) = Len(buffer) + 1
         /\ Append(buffer, event)[Len(buffer) + 1] = event
         /\ \A i \in 1 .. Len(buffer) : Append(buffer, event)[i] = buffer[i]
<1>1. /\ Append(buffer, event) \in Seq(S) /\ Len(buffer) \in Nat
      /\ Len(Append(buffer, event)) = Len(buffer) + 1
      /\ \A i \in 1 .. Len(buffer) : Append(buffer, event)[i] = buffer[i]
      /\ Append(buffer, event)[Len(buffer) + 1] = event
  BY AppendProperties
<1> QED BY <1>1, LenProperties

\* A completion is known to its run, or in the buffer, once it is handled.
LEMMA CompletionKeeps ==
  ASSUME IInv, Keeping, Room, NEW s \in readers, NEW r \in Requests, NEW how \in {"ok", "error"},
         TakeCompletion(r, how), s \in Sockets, chan[s] # <<>>, IsEvent(chan[s][1], r),
         chan' = [chan EXCEPT ![s] = Tail(@)],
         UNCHANGED <<pc, connectLock, client, net, gateway, sentOn, outcome>>
  PROVE  Keeping'
<1> USE DEF Keeping
<1>1. /\ \A q \in Requests : seen'[q] = IF q = r /\ pc[r] # "done" THEN how ELSE seen[q]
      /\ \A q \in Requests : status'[q] = IF q = r /\ r \in runs THEN how ELSE status[q]
      /\ UNCHANGED <<runs, ack, ws, readers, opened>>
  BY DEF IInv, TypeOK, TakeCompletion, client
<1>2. 1 \in DOMAIN chan[s]
  <2>1. chan[s] \in Seq(Messages)
    BY DEF IInv, TypeOK
  <2> HIDE DEF Messages
  <2>2. Len(chan[s]) \in Nat \ {0} /\ DOMAIN chan[s] = 1 .. Len(chan[s])
    BY <2>1, TailShape
  <2> QED BY <2>2
<1>3. /\ sentOn[r] = s /\ pc[r] \in Waiting \cup {"done"}
      /\ "event" \in gateway[r] /\ seen[r] = "none"
      /\ \A n \in DOMAIN early : early[n][1] # r
  BY <1>2 DEF OnTheWay, IsEvent
<1>4. ~Unanswered(r)
  <2>1. Unanswered(r) => \E j \in 1 .. (1 - 1) : IsResponse(chan[s][j], r)
    BY <1>2 DEF OnTheWay, IsEvent
  <2> QED BY <2>1
<1>5. r \notin runs => pc[r] \in {"sending", "awaitAck", "done"}
  BY <1>3 DEF Registered, Waiting
<1>6. Len(early) \in Nat /\ DOMAIN early = 1 .. Len(early) /\ Len(early) < MaxEarlyRuns
      /\ MaxEarlyRuns \in Nat
  BY <1>3, RequestsAssumption DEF Room, IInv, TypeOK
<1>7. \/ r \in runs /\ early' = early
      \/ /\ r \notin runs /\ DOMAIN early' = 1 .. (Len(early) + 1)
         /\ early'[Len(early) + 1] = <<r, how>>
         /\ \A i \in 1 .. Len(early) : early'[i] = early[i]
  <2>1. CASE r \in runs
    BY <2>1 DEF TakeCompletion
  <2>2. CASE r \notin runs
    <3> DEFINE Events == Requests \X {"ok", "error"}
    <3>1. early \in Seq(Events) /\ <<r, how>> \in Events
      BY DEF IInv, TypeOK
    <3> HIDE DEF Events
    <3> DEFINE all == Append(early, <<r, how>>)
    <3>2. /\ DOMAIN all = 1 .. (Len(early) + 1) /\ Len(all) = Len(early) + 1
          /\ all[Len(early) + 1] = <<r, how>>
          /\ \A i \in 1 .. Len(early) : all[i] = early[i]
      BY <3>1, BufferKeeps
    <3>3. early' = IF Len(all) > MaxEarlyRuns THEN Tail(all) ELSE all
      BY <2>2 DEF TakeCompletion
    <3> HIDE DEF all
    <3>4. early' = all
      BY <1>6, <3>2, <3>3
    <3> QED BY <2>2, <3>2, <3>4
  <2> QED BY <2>1, <2>2
<1>8. \A q \in Requests : Unanswered(q)' => Unanswered(q) /\ q # r
  BY <1>1, <1>4 DEF Unanswered
<1>9. \A q \in Requests : ~IsEvent(chan[s][1], q) =>
        /\ seen'[q] = seen[q]
        /\ (\A n \in DOMAIN early : early[n][1] # q) => \A n \in DOMAIN early' : early'[n][1] # q
  <2>1. ASSUME NEW q \in Requests, q # r, \A n \in DOMAIN early : early[n][1] # q,
               NEW n \in DOMAIN early'
        PROVE  early'[n][1] # q
    <3>1. CASE early' = early
      BY <2>1, <3>1
    <3>2. CASE n \in 1 .. Len(early) /\ early'[n] = early[n]
      BY <1>6, <2>1, <3>2
    <3>3. CASE early'[n] = <<r, how>>
      BY <2>1, <3>3
    <3>4. n \in 1 .. (Len(early) + 1) => n \in 1 .. Len(early) \/ n = Len(early) + 1
      BY <1>6
    <3> QED BY <1>7, <3>1, <3>2, <3>3, <3>4
  <2>2. \A q \in Requests : ~IsEvent(chan[s][1], q) => q # r
    OBVIOUS
  <2> QED BY <1>1, <2>1, <2>2
<1>10. OnTheWay' /\ AnswerFirst'
  <2>1. TypeOK
    BY DEF IInv
  <2>2. \A q \in Requests : Unanswered(q)' => Unanswered(q) /\ ~IsResponse(chan[s][1], q)
    BY <1>8 DEF IsEvent, IsResponse
  <2> HIDE DEF Unanswered
  <2> QED BY <1>9, <2>1, <2>2, ReadingKeeps
<1>11. OneReader'
  BY <1>1 DEF OneReader
<1>12. Asked'
  BY <1>1, <1>3 DEF Asked
<1>13. OkKept'
  BY <1>1, <1>3 DEF OkKept, Asked
<1>14. Registered'
  BY <1>1, <1>3, <1>5 DEF Registered, Waiting
<1>15. Buffered'
  <2>1. CASE r \in runs
    <3>1. early' = early /\ pc[r] \in {"awaitRun", "grace"}
      BY <1>7, <2>1 DEF Registered
    <3> QED BY <1>1, <1>3, <3>1 DEF Buffered
  <2>2. CASE r \notin runs
    <3> DEFINE size == Len(early)
    <3>1. /\ size \in Nat /\ DOMAIN early = 1 .. size /\ DOMAIN early' = 1 .. (size + 1)
          /\ early'[size + 1] = <<r, how>> /\ \A i \in 1 .. size : early'[i] = early[i]
      BY <1>6, <1>7, <2>2
    <3> HIDE DEF size
    <3>2. ASSUME NEW i \in DOMAIN early'
          PROVE  \/ i \in DOMAIN early /\ early'[i] = early[i] /\ early'[i][1] # r
                 \/ i = size + 1 /\ early'[i] = <<r, how>> /\ early'[i][1] = r
      <4>1. i \in 1 .. size \/ i = size + 1
        BY <3>1
      <4> QED BY <1>3, <3>1, <4>1
    <3>3. ASSUME NEW i \in DOMAIN early', NEW q \in Requests, early'[i][1] = q
          PROVE  /\ "event" \in gateway'[q] /\ pc'[q] \in {"sending", "awaitAck", "done"}
                 /\ pc'[q] # "done" => seen'[q] = early'[i][2]
      <4>1. CASE q = r
        BY <1>1, <1>3, <1>5, <2>2, <3>2, <3>3, <4>1
      <4>2. CASE q # r
        BY <1>1, <3>2, <3>3, <4>2 DEF Buffered
      <4> QED BY <4>1, <4>2
    <3>4. ASSUME NEW i \in DOMAIN early', NEW j \in DOMAIN early', early'[i][1] = early'[j][1]
          PROVE  i = j
      BY <3>2, <3>4 DEF Buffered
    <3>5. ASSUME NEW q \in Requests, pc'[q] \in {"sending", "awaitAck"}, seen'[q] # "none"
          PROVE  \E i \in DOMAIN early' : early'[i][1] = q
      <4>1. CASE q = r
        <5>1. size + 1 \in DOMAIN early'
          BY <3>1
        <5> QED BY <3>1, <4>1, <5>1
      <4>2. CASE q # r
        <5>1. PICK i \in DOMAIN early : early[i][1] = q
          BY <1>1, <3>5, <4>2 DEF Buffered
        <5>2. i \in DOMAIN early' /\ early'[i] = early[i]
          BY <3>1, <5>1
        <5> QED BY <5>1, <5>2
      <4> QED BY <4>1, <4>2
    <3> QED BY <3>3, <3>4, <3>5 DEF Buffered
  <2> QED BY <2>1, <2>2
<1> QED BY <1>10, <1>11, <1>12, <1>13, <1>14, <1>15

LEMMA ReceiveKeeps ==
  ASSUME IInv, Keeping, Room, NEW s \in Sockets, Receive(s)
  PROVE  Keeping'
<1> DEFINE m == Head(chan[s])
<1>1. m \in Messages
  BY HeadTailProperties DEF IInv, TypeOK, Receive
<1>2. \/ m.type = "res" /\ TakeResponse(m.req, m.kind)
      \/ m.type = "event" /\ TakeCompletion(m.req, m.kind)
  BY DEF Receive
<1>3. /\ s \in readers /\ chan[s] # <<>> /\ chan' = [chan EXCEPT ![s] = Tail(@)]
      /\ UNCHANGED <<pc, connectLock, client, net, gateway, sentOn, outcome>>
  BY DEF Receive
<1>4. m = chan[s][1]
  OBVIOUS
<1> HIDE DEF m
<1>5. CASE m.type = "res" /\ TakeResponse(m.req, m.kind)
  <2>1. /\ m.req \in Requests
        /\ m.kind \in {"accepted", "started", "replied", "refused", "reply", "failed"}
    BY <1>1, <1>5 DEF Messages
  <2>2. IsResponse(chan[s][1], m.req)
    BY <1>4, <1>5 DEF IsResponse
  <2> QED
    BY <1>3, <1>5, <2>1, <2>2, ResponseKeeps
<1>6. CASE m.type = "event" /\ TakeCompletion(m.req, m.kind)
  <2>1. m.req \in Requests /\ m.kind \in {"ok", "error"}
    BY <1>1, <1>6 DEF Messages
  <2>2. IsEvent(chan[s][1], m.req)
    BY <1>4, <1>6 DEF IsEvent
  <2> QED
    BY <1>3, <1>6, <2>1, <2>2, CompletionKeeps
<1> QED
  BY <1>2, <1>5, <1>6

\* What the gateway sends is behind what it has sent, and the completion of a
\* run comes once and behind the first answer.
LEMMA DeliverKeeps ==
  ASSUME IInv, Keeping, NEW r \in Requests, NEW m \in Messages, Deliver(r, m), m.req = r,
         NEW sent, gateway' = [gateway EXCEPT ![r] = sent], gateway[r] \subseteq sent, gateway[r] # {},
         \/ m.type = "res"
         \/ m.type = "event" /\ "answer" \in gateway[r] /\ "event" \notin gateway[r] /\ "event" \in sent
  PROVE  Keeping'
<1> USE DEF Keeping
<1>1. /\ net[sentOn[r]] = "open"
      /\ UNCHANGED <<pc, ws, readers, opened, runs, early, ack, status, net, sentOn, outcome, seen>>
  BY DEF Deliver, client, futures
<1>2. \A q \in Requests : gateway'[q] = IF q = r THEN sent ELSE gateway[q]
  BY DEF IInv, TypeOK
<1>3. \A q \in Requests : gateway[q] \subseteq gateway'[q]
  BY <1>2
<1>4. chan \in [Sockets -> Seq(Messages)]
  BY DEF IInv, TypeOK
<1>5. \A t \in Sockets : Len(chan[t]) \in Nat /\ DOMAIN chan[t] = 1 .. Len(chan[t])
  BY <1>4, LenProperties
<1>6. \/ sentOn[r] \notin Sockets /\ chan' = chan
      \/ /\ sentOn[r] \in Sockets
         /\ chan'[sentOn[r]] = Append(chan[sentOn[r]], m)
         /\ \A t \in Sockets : t # sentOn[r] => chan'[t] = chan[t]
  <2>1. chan' = [chan EXCEPT ![sentOn[r]] = Append(@, m)]
    BY DEF Deliver
  <2> HIDE DEF Sockets, Messages
  <2> QED BY <1>4, <2>1
<1>7. sentOn[r] \in Sockets =>
        /\ DOMAIN chan'[sentOn[r]] = 1 .. (Len(chan[sentOn[r]]) + 1)
        /\ chan'[sentOn[r]][Len(chan[sentOn[r]]) + 1] = m
        /\ \A i \in 1 .. Len(chan[sentOn[r]]) : chan'[sentOn[r]][i] = chan[sentOn[r]][i]
  <2> HIDE DEF Messages
  <2>1. sentOn[r] \in Sockets => chan[sentOn[r]] \in Seq(Messages)
    BY <1>4
  <2> QED BY <1>6, <2>1, BufferKeeps
<1>8. ASSUME NEW t \in Sockets, NEW i \in DOMAIN chan[t]
      PROVE  i \in DOMAIN chan'[t] /\ chan'[t][i] = chan[t][i]
  <2>1. CASE t = sentOn[r]
    <3>1. i \in 1 .. Len(chan[t]) /\ i \in 1 .. (Len(chan[t]) + 1)
      BY <1>5
    <3> QED BY <1>7, <2>1, <3>1
  <2>2. CASE t # sentOn[r]
    BY <1>6, <2>2
  <2> QED BY <2>1, <2>2
<1>9. ASSUME NEW t \in Sockets, NEW i \in DOMAIN chan'[t]
      PROVE  \/ i \in DOMAIN chan[t] /\ chan'[t][i] = chan[t][i]
             \/ t = sentOn[r] /\ i = Len(chan[t]) + 1 /\ chan'[t][i] = m
  <2>1. CASE t = sentOn[r]
    <3>1. i \in 1 .. Len(chan[t]) \/ i = Len(chan[t]) + 1
      BY <1>5, <1>7, <2>1
    <3> QED BY <1>5, <1>7, <2>1, <3>1
  <2>2. CASE t # sentOn[r]
    BY <1>6, <2>2
  <2> QED BY <2>1, <2>2
<1>10. \A q \in Requests : Unanswered(q)' = Unanswered(q)
  BY <1>1 DEF Unanswered
<1>11. m.type = "event" =>
         /\ seen[r] = "none" /\ \A n \in DOMAIN early : early[n][1] # r
         /\ \A t \in Sockets : \A j \in DOMAIN chan[t] : ~IsEvent(chan[t][j], r)
  BY DEF Asked, Buffered, OnTheWay
<1>12. ASSUME NEW t \in Sockets, NEW i \in DOMAIN chan'[t], NEW q \in Requests
       PROVE  /\ chan'[t][i].req = q => sentOn'[q] = t /\ pc'[q] \in Waiting \cup {"done"}
              /\ IsEvent(chan'[t][i], q) =>
                   /\ "event" \in gateway'[q] /\ seen'[q] = "none"
                   /\ \A n \in DOMAIN early' : early'[n][1] # q
                   /\ \A j \in DOMAIN chan'[t] : IsEvent(chan'[t][j], q) => i = j
                   /\ Unanswered(q)' => \E j \in 1 .. (i - 1) : IsResponse(chan'[t][j], q)
  <2>1. CASE i \in DOMAIN chan[t] /\ chan'[t][i] = chan[t][i]
    <3>1. chan[t][i].req = q => sentOn[q] = t /\ pc[q] \in Waiting \cup {"done"}
      BY <2>1 DEF OnTheWay
    <3>2. ASSUME IsEvent(chan[t][i], q)
          PROVE  /\ "event" \in gateway[q] /\ seen[q] = "none"
                 /\ \A n \in DOMAIN early : early[n][1] # q
                 /\ \A j \in DOMAIN chan[t] : IsEvent(chan[t][j], q) => i = j
                 /\ Unanswered(q) => \E j \in 1 .. (i - 1) : IsResponse(chan[t][j], q)
      BY <2>1, <3>2 DEF OnTheWay
    <3>3. ASSUME IsEvent(chan[t][i], q), NEW j \in DOMAIN chan'[t], IsEvent(chan'[t][j], q)
          PROVE  i = j
      <4>1. CASE j \in DOMAIN chan[t] /\ chan'[t][j] = chan[t][j]
        BY <3>2, <3>3, <4>1
      <4>2. CASE chan'[t][j] = m
        <5>1. q = r /\ m.type = "event"
          BY <3>3, <4>2 DEF IsEvent
        <5> QED BY <1>11, <2>1, <3>3, <5>1
      <4> QED BY <1>9, <4>1, <4>2
    <3>4. ASSUME IsEvent(chan[t][i], q), Unanswered(q)
          PROVE  \E j \in 1 .. (i - 1) : IsResponse(chan'[t][j], q)
      <4>1. PICK j \in 1 .. (i - 1) : IsResponse(chan[t][j], q)
        BY <3>2, <3>4
      <4>2. j \in DOMAIN chan[t]
        BY <1>5, <2>1, <4>1
      <4> QED BY <1>8, <4>1, <4>2
    <3> HIDE DEF Unanswered
    <3> QED BY <1>1, <1>3, <1>10, <2>1, <3>1, <3>2, <3>3, <3>4
  <2>2. CASE t = sentOn[r] /\ i = Len(chan[t]) + 1 /\ chan'[t][i] = m
    <3>1. chan'[t][i].req = q => q = r /\ sentOn[q] = t /\ pc[q] \in Waiting \cup {"done"}
      BY <2>2 DEF Asked
    <3>2. ASSUME IsEvent(m, q)
          PROVE  /\ q = r /\ m.type = "event" /\ "event" \in gateway'[q] /\ seen[q] = "none"
                 /\ "answer" \in gateway[q]
                 /\ \A n \in DOMAIN early : early[n][1] # q
      BY <1>2, <1>11, <3>2 DEF IsEvent
    <3>3. ASSUME IsEvent(m, q), NEW j \in DOMAIN chan'[t], IsEvent(chan'[t][j], q)
          PROVE  i = j
      <4>1. CASE j \in DOMAIN chan[t] /\ chan'[t][j] = chan[t][j]
        BY <1>11, <3>2, <3>3, <4>1
      <4>2. CASE j = Len(chan[t]) + 1
        BY <2>2, <4>2
      <4> QED BY <1>9, <4>1, <4>2
    <3>4. ASSUME IsEvent(m, q), Unanswered(q)
          PROVE  \E j \in 1 .. (i - 1) : IsResponse(chan'[t][j], q)
      <4>1. q = r /\ "answer" \in gateway[r]
        BY <3>2, <3>4
      <4>2. PICK j \in DOMAIN chan[t] : IsResponse(chan[t][j], r)
        BY <1>1, <2>2, <3>4, <4>1 DEF AnswerFirst
      <4>3. j \in 1 .. (i - 1)
        BY <1>5, <2>2, <4>2
      <4> QED BY <1>8, <4>1, <4>2, <4>3
    <3> HIDE DEF Unanswered
    <3> QED BY <1>1, <1>10, <2>2, <3>1, <3>2, <3>3, <3>4
  <2> QED BY <1>9, <2>1, <2>2
<1>13. OnTheWay'
  BY <1>12 DEF OnTheWay, IsEvent, IsResponse
<1>14. ASSUME NEW q \in Requests, Unanswered(q)'
       PROVE  /\ seen'[q] = "none"
              /\ "answer" \in gateway'[q] /\ net'[sentOn'[q]] = "open" =>
                   \E i \in DOMAIN chan'[sentOn'[q]] : IsResponse(chan'[sentOn'[q]][i], q)
  <2>1. Unanswered(q) /\ seen[q] = "none"
    BY <1>10, <1>14 DEF AnswerFirst
  <2>2. sentOn[q] \in Sockets
    BY <2>1 DEF OneReader, Unanswered, Waiting, IInv, TypeOK, Tasks
  <2>3. CASE "answer" \in gateway[q]
    <3>1. net[sentOn[q]] = "open" =>
            \E i \in DOMAIN chan[sentOn[q]] : IsResponse(chan[sentOn[q]][i], q)
      BY <2>1, <2>3 DEF AnswerFirst
    <3> QED BY <1>1, <1>8, <2>1, <2>2, <3>1
  <2>4. CASE "answer" \notin gateway[q] /\ "answer" \in gateway'[q]
    <3>1. q = r /\ m.type = "res"
      BY <1>2, <2>4
    <3>2. IsResponse(m, q)
      BY <3>1 DEF IsResponse
    <3>3. Len(chan[sentOn[r]]) + 1 \in DOMAIN chan'[sentOn[r]]
      BY <1>5, <1>7, <2>2, <3>1
    <3> QED BY <1>1, <1>7, <2>1, <2>2, <3>1, <3>2, <3>3
  <2> QED BY <1>1, <2>1, <2>3, <2>4
<1>15. AnswerFirst'
  BY <1>14 DEF AnswerFirst, IsResponse
<1>16. OneReader' /\ Registered' /\ OkKept'
  BY <1>1 DEF OneReader, Registered, OkKept
<1>17. Asked'
  BY <1>1, <1>2, <1>3 DEF Asked
<1>18. Buffered'
  BY <1>1, <1>3 DEF Buffered
<1> QED BY <1>13, <1>15, <1>16, <1>17, <1>18

LEMMA GatewayKeeps ==
  ASSUME IInv, Keeping, NEW r \in Requests, Gateway(r)
  PROVE  Keeping'
<1>1. CASE GatewayAnswers(r)
  <2>1. PICK kind \in Answers :
          /\ gateway' = [gateway EXCEPT ![r] = @ \cup
               CASE kind \in {"accepted", "started"} -> {"answer"}
                 [] kind = "replied" -> {"answer", "final"}
                 [] kind = "refused" -> {"answer", "final", "event"}]
          /\ Deliver(r, [type |-> "res", req |-> r, kind |-> kind])
    BY <1>1 DEF GatewayAnswers
  <2> DEFINE more == CASE kind \in {"accepted", "started"} -> {"answer"}
                       [] kind = "replied" -> {"answer", "final"}
                       [] kind = "refused" -> {"answer", "final", "event"}
             m == [type |-> "res", req |-> r, kind |-> kind]
  <2>2. gateway' = [gateway EXCEPT ![r] = gateway[r] \cup more] /\ Deliver(r, m)
    BY <2>1
  <2>3. m \in Messages /\ m.type = "res" /\ m.req = r
    BY RequestsAssumption DEF Messages
  <2>4. gateway[r] # {}
    BY <1>1 DEF GatewayAnswers
  <2> HIDE DEF more, m
  <2>5. gateway[r] \subseteq gateway[r] \cup more
    OBVIOUS
  <2> QED BY <2>2, <2>3, <2>4, <2>5, DeliverKeeps
<1>2. CASE GatewayCompletes(r)
  <2>1. PICK how \in {"ok", "error"} : Deliver(r, [type |-> "event", req |-> r, kind |-> how])
    BY <1>2 DEF GatewayCompletes
  <2> DEFINE m == [type |-> "event", req |-> r, kind |-> how]
             sent == gateway[r] \cup {"event"}
  <2>2. /\ gateway' = [gateway EXCEPT ![r] = sent] /\ Deliver(r, m)
        /\ "answer" \in gateway[r] /\ "event" \notin gateway[r]
    BY <1>2, <2>1 DEF GatewayCompletes
  <2>3. m \in Messages /\ m.type = "event" /\ m.req = r
    BY DEF Messages
  <2>4. gateway[r] # {} /\ gateway[r] \subseteq sent /\ "event" \in sent
    BY <2>2
  <2> HIDE DEF m, sent
  <2>5. m.type = "event" /\ "answer" \in gateway[r] /\ "event" \notin gateway[r] /\ "event" \in sent
    BY <2>2, <2>3, <2>4
  <2> QED BY <2>2, <2>3, <2>4, <2>5, DeliverKeeps
<1>3. CASE GatewayFinal(r)
  <2>1. PICK kind \in {"reply", "failed"} : Deliver(r, [type |-> "res", req |-> r, kind |-> kind])
    BY <1>3 DEF GatewayFinal
  <2> DEFINE m == [type |-> "res", req |-> r, kind |-> kind]
  <2>2. /\ gateway' = [gateway EXCEPT ![r] = gateway[r] \cup {"final"}] /\ Deliver(r, m)
        /\ "answer" \in gateway[r]
    BY <1>3, <2>1 DEF GatewayFinal
  <2>3. m \in Messages /\ m.type = "res" /\ m.req = r
    BY DEF Messages
  <2> HIDE DEF m
  <2>4. gateway[r] # {} /\ gateway[r] \subseteq gateway[r] \cup {"final"}
    BY <2>2
  <2> QED BY <2>2, <2>3, <2>4, DeliverKeeps
<1> QED BY <1>1, <1>2, <1>3 DEF Gateway

LEMMA KeepaliveFailsKeeps ==
  ASSUME IInv, Keeping, KeepaliveFails
  PROVE  Keeping'
<1> DEFINE Same == UNCHANGED <<pc, ws, readers, opened, futures, net, chan, gateway, sentOn, outcome, seen>>
<1>1. Same
  BY DEF KeepaliveFails, world
<1> QED BY <1>1 DEF Keeping, OneReader, Asked, OnTheWay, AnswerFirst, Buffered, Registered, OkKept,
                    Unanswered, IsEvent, IsResponse, futures

LEMMA LoseKeeps ==
  ASSUME IInv, Keeping, NEW s \in Sockets, Lose(s)
  PROVE  Keeping'
<1>1. UNCHANGED <<pc, ws, readers, opened, futures, chan, gateway, sentOn, outcome, seen>>
  BY DEF Lose, client
<1>2. \A t \in Sockets : net'[t] = "open" => net[t] = "open"
  BY DEF IInv, TypeOK, Lose
<1>3. OneReader' /\ Asked' /\ Buffered' /\ Registered' /\ OkKept'
  BY <1>1 DEF Keeping, OneReader, Asked, Buffered, Registered, OkKept, futures
<1>4. OnTheWay'
  BY <1>1 DEF Keeping, OnTheWay, Unanswered, IsEvent, IsResponse, futures
<1>5. \A q \in Requests : Unanswered(q)' = Unanswered(q)
  BY <1>1 DEF Unanswered, futures
<1>6. \A q \in Requests : Unanswered(q) => sentOn[q] \in Sockets
  BY DEF Keeping, OneReader, Unanswered, Waiting, IInv, TypeOK, Tasks
<1> HIDE DEF Unanswered
<1>7. AnswerFirst'
  BY <1>1, <1>2, <1>5, <1>6 DEF Keeping, AnswerFirst
<1> QED BY <1>3, <1>4, <1>7 DEF Keeping

\* Until the profile is unloaded every step keeps what was answered, as long as
\* the buffer has room when a completion is read.
LEMMA StepKept == IInv /\ IInv' /\ Kept /\ (Keeping => Room) /\ [Next]_vars => Kept'
<1> SUFFICES ASSUME IInv, IInv', Kept, Keeping => Room, [Next]_vars, ~Unloading' PROVE Keeping'
  BY DEF Kept
<1>1. \A u \in Unloads : u \notin Requests /\ u \in Tasks
  BY RequestsAssumption DEF Tasks
<1>2. ASSUME Keeping, NEW r \in Requests, SendMessage(r) PROVE Keeping'
  <2>1. CASE \/ SendFails(r) \/ AckTimeout(r) \/ AckRefused(r) \/ RegisterLost(r)
             \/ RunTimeout(r) \/ Return(r) \/ Cancel(r)
    BY <1>2, <2>1, EndingKeeps
  <2>2. CASE \/ SendConnected(r) \/ SendDisconnected(r) \/ AlreadyConnected(r) \/ BeginConnect(r)
             \/ LoopCancelled(r) \/ OldConnectionGone(r) \/ SocketOpened(r) \/ OpenFails(r)
             \/ HandshakeDone(r) \/ HandshakeFails(r) \/ Sent(r) \/ RegisterRun(r) \/ EnterGrace(r)
    BY <1>2, <2>2, SendConnectedKeeps, SendDisconnectedKeeps, AlreadyConnectedKeeps,
       BeginConnectKeeps, LoopCancelledKeeps, OldConnectionGoneKeeps, SocketOpenedKeeps, OpenFailsKeeps,
       HandshakeDoneKeeps, HandshakeFailsKeeps, SentKeeps, RegisterRunKeeps, EnterGraceKeeps
  <2> QED BY <1>2, <2>1, <2>2 DEF SendMessage, Proceed
<1>3. ASSUME Keeping, UNCHANGED vars PROVE Keeping'
  BY <1>3 DEF Keeping, OneReader, Asked, OnTheWay, AnswerFirst, Buffered, Registered, OkKept,
              Unanswered, IsEvent, IsResponse, vars, client, futures, world
<1>4. \A u \in Unloads : ~Disconnect(u) /\ ~LoopCancelled(u) /\ ~Disconnected(u)
  <2>1. ASSUME NEW u \in Unloads, Disconnect(u) \/ Disconnected(u) PROVE pc'[u] # "idle"
    <3>1. DOMAIN pc = Tasks
      BY DEF IInv, TypeOK
    <3>2. Goto(u, "tearing") \/ Goto(u, "done")
      BY <2>1 DEF Disconnect, Disconnected
    <3>3. pc'[u] = "tearing" \/ pc'[u] = "done"
      BY <1>1, <3>1, <3>2 DEF Goto
    <3> QED BY <3>3
  <2>2. ASSUME NEW u \in Unloads, LoopCancelled(u) PROVE pc'[u] # "idle"
    BY <2>2 DEF LoopCancelled
  <2> QED BY <2>1, <2>2 DEF Unloading
<1>5. Keeping
  <2>1. SUFFICES ASSUME NEW u \in Unloads PROVE pc[u] = pc'[u]
    BY <2>1 DEF Kept, Unloading
  <2>2. ASSUME NEW r \in Requests, NEW label, Goto(r, label) PROVE pc[u] = pc'[u]
    BY <1>1, <2>2 DEF Goto, IInv, TypeOK
  <2>3. ASSUME NEW r \in Requests, SendMessage(r) PROVE pc[u] = pc'[u]
    <3>1. pc' = pc \/ \E label : Goto(r, label)
      BY <2>3 DEF LoopCancelled, SendMessage, Proceed, SendConnected, SendDisconnected, AlreadyConnected,
         BeginConnect, OldConnectionGone, SocketOpened, OpenFails, HandshakeDone, HandshakeFails,
         Sent, SendFails, AckTimeout, AckRefused, RegisterRun, RegisterLost, RunTimeout, EnterGrace,
         Return, Cancel, Dispatch, Finish, End
    <3> QED BY <2>2, <3>1
  <2>4. ASSUME NEW r \in Requests, Gateway(r) PROVE pc' = pc
    BY <2>4 DEF Gateway, GatewayAnswers, GatewayCompletes, GatewayFinal, Deliver
  <2>5. ASSUME NEW s \in Sockets, Receive(s) \/ ReaderEnds(s) \/ Lose(s) PROVE pc' = pc
    BY <2>5 DEF Receive, ReaderEnds, Lose
  <2>6. KeepaliveFails \/ UNCHANGED vars => pc' = pc
    BY DEF KeepaliveFails, vars
  <2> QED BY <1>4, <2>3, <2>4, <2>5, <2>6 DEF Next
<1> QED BY <1>2, <1>3, <1>4, <1>5, GatewayKeeps, ReceiveKeeps, ReaderEndsKeeps, LoseKeeps,
           KeepaliveFailsKeeps DEF Next

\* The inductive invariant says what AnswersKept says.
LEMMA KeptAnswers == IInv /\ Kept => AnswersKept
<1> SUFFICES ASSUME IInv, Kept PROVE AnswersKept
  OBVIOUS
<1>1. ASSUME Keeping, NEW r \in Requests, seen[r] # "none"
      PROVE  /\ pc[r] \in {"sending", "awaitAck"} => Replayed(r) = seen[r]
             /\ pc[r] \in {"awaitRun", "grace"} => status[r] = seen[r]
  BY <1>1, ReplayedIsSeen DEF Keeping, Registered
<1>2. CompletionKept
  BY <1>1 DEF CompletionKept, Kept
<1>3. OkSurvivesLoss
  BY DEF OkSurvivesLoss, Kept, Keeping, OkKept
<1> QED BY <1>2, <1>3, WaitersAreWatched DEF AnswersKept

\* A buffer for as many runs as there are calls always has room: no run is in
\* it twice.
LEMMA EnoughRoom ==
  ASSUME IInv, Keeping, IsFiniteSet(Requests), Cardinality(Requests) <= MaxEarlyRuns
  PROVE  Room
<1> SUFFICES ASSUME NEW r \in Requests, \A i \in DOMAIN early : early[i][1] # r
             PROVE  Len(early) < MaxEarlyRuns
  BY DEF Room
<1> DEFINE others == Requests \ {r}
           places == 1 .. Len(early)
           run == [i \in places |-> early[i][1]]
<1>1. /\ Len(early) \in Nat /\ DOMAIN early = places
      /\ \A i \in places : early[i][1] \in others
  BY DEF IInv, TypeOK
<1>2. run \in Injection(places, others)
  <2>1. run \in [places -> others]
    BY <1>1
  <2>2. \A i, j \in places : run[i] = run[j] => i = j
    BY <1>1 DEF Keeping, Buffered
  <2> HIDE DEF run, places, others
  <2> QED BY <2>1, <2>2 DEF Injection, IsInjective
<1>3. IsFiniteSet(others) /\ Cardinality(others) = Cardinality(Requests) - 1
      /\ Cardinality(Requests) \in Nat
  BY FS_RemoveElement, FS_CardinalityType
<1>4. Cardinality(places) = Len(early)
  <2>1. Len(early) >= 1 => Cardinality(places) = Len(early) - 1 + 1
    BY <1>1, FS_Interval
  <2>2. Len(early) = 0 => Cardinality(places) = 0
    BY <1>1, FS_Interval, FS_EmptySet
  <2> QED BY <1>1, <2>1, <2>2
<1>5. Cardinality(places) <= Cardinality(others)
  <2> HIDE DEF run, places, others
  <2> QED BY <1>2, <1>3, FS_Injection
<1> QED BY <1>1, <1>3, <1>4, <1>5, RequestsAssumption

\* While the buffer of early events has room, the completion that the receive
\* loop has handled reaches its caller, whatever the order in which answers,
\* losses and reconnects come and however many calls there are.
THEOREM BufferSuffices == Spec /\ []Room => []AnswersKept
<1>1. Init => Kept
  BY InitKeeping DEF Kept
<1>2. IInv /\ IInv' /\ Kept /\ Room /\ [Next]_vars => Kept'
  BY StepKept
<1> QED
  BY <1>1, <1>2, Invariance, KeptAnswers, PTL DEF Spec

\* So it does when there are no more calls than runs that are buffered.
THEOREM AnswersAreKept ==
  ASSUME IsFiniteSet(Requests), Cardinality(Requests) <= MaxEarlyRuns
  PROVE  Spec => []AnswersKept
<1>1. Init => Kept
  BY InitKeeping DEF Kept
<1>2. IInv /\ IInv' /\ Kept /\ [Next]_vars => Kept'
  BY StepKept, EnoughRoom
<1> QED
  BY <1>1, <1>2, Invariance, KeptAnswers, PTL DEF Spec
=============================================================================
