--------------------------- MODULE ToolLoop_proof ---------------------------
(***************************************************************************)
(* ToolLoop, for every budget and every size of the batches of tool calls: *)
(* the inductive invariant and the safety properties that follow from it.  *)
(***************************************************************************)
EXTENDS ToolLoop, ModelRequests, ProfileTools, FiniteSetTheorems, SequenceTheorems, TLAPS

-----------------------------------------------------------------------------
(* The calls that the budget covers *)

\* The calls of a batch are numbered from 1.
LEMMA CallsNumbered ==
  ASSUME TypeOK
  PROVE  \E n \in Nat : batch \in [1 .. n -> Kinds] /\ Calls = 1 .. n
<1>1. CASE batch = <<>>
  <2>1. batch \in [1 .. 0 -> Kinds] /\ DOMAIN batch = 1 .. 0
    BY <1>1
  <2> QED
    BY <2>1 DEF Calls
<1>2. CASE batch \in Batches
  <2>1. PICK n \in 1 .. MaxBatch : batch \in [1 .. n -> Kinds]
    BY <1>2, BoundsAssumption DEF Batches
  <2> QED
    BY <2>1, BoundsAssumption DEF Calls
<1> QED
  BY <1>1, <1>2 DEF TypeOK

\* A batch never executes more budgeted calls than the budget has left: the
\* rank of a call among the budgeted ones tells them apart.
LEMMA ExecutableFits ==
  ASSUME TypeOK
  PROVE  LET n == Cardinality(Executable \cap Budgeted)
         IN  /\ IsFiniteSet(Executable \cap Budgeted)
             /\ n \in 0 .. Budget - used
             /\ n = 0 <=> Executable \cap Budgeted = {}
<1> DEFINE Covered == Executable \cap Budgeted
           Upto(i) == {j \in Budgeted : j <= i}
           Left == 1 .. Budget - used
           RankOf == [i \in Covered |-> Cardinality(Upto(i))]
<1>1. PICK n \in Nat : Calls = 1 .. n
  BY CallsNumbered
<1>2. IsFiniteSet(Calls)
  BY <1>1, FS_Interval
<1>3. IsFiniteSet(Covered) /\ \A i \in Calls : IsFiniteSet(Upto(i))
  <2>1. Covered \subseteq Calls /\ \A i \in Calls : Upto(i) \subseteq Calls
    BY DEF Budgeted
  <2> QED
    BY <2>1, <1>2, FS_Subset
<1>4. Budget \in Nat /\ used \in Nat /\ used <= Budget
  BY BoundsAssumption DEF TypeOK, Budget
<1>5. RankOf \in Injection(Covered, Left)
  <2>1. ASSUME NEW i \in Covered
        PROVE  Cardinality(Upto(i)) \in Left
    <3>1. i \in Upto(i) /\ i \in Calls
      BY <1>1 DEF Budgeted
    <3>2. Cardinality(Upto(i)) \in Nat /\ Cardinality(Upto(i)) # 0
      BY <3>1, <1>3, FS_CardinalityType, FS_EmptySet
    <3>3. Cardinality(Upto(i)) <= Budget - used
      BY DEF Executable, Budgeted
    <3> QED
      BY <3>2, <3>3, <1>4
  <2>2. ASSUME NEW i \in Covered, NEW j \in Covered, i < j
        PROVE  Cardinality(Upto(i)) # Cardinality(Upto(j))
    <3>1. i \in Budgeted /\ j \in Budgeted /\ j \in Calls /\ Budgeted \subseteq Int
      BY <1>1 DEF Budgeted
    <3>2. ASSUME NEW k \in Upto(i)
          PROVE  k \in Upto(j)
      <4>1. k \in Budgeted /\ k \in Int /\ i \in Int /\ j \in Int /\ k <= i
        BY <3>1
      <4>2. k <= j
        BY <2>2, <4>1
      <4> QED
        BY <4>1, <4>2
    <3>3. j \in Upto(j) /\ j \notin Upto(i)
      BY <2>2, <3>1
    <3> HIDE DEF Upto
    <3>4. CASE Cardinality(Upto(i)) = Cardinality(Upto(j))
      BY <3>1, <3>2, <3>3, <3>4, <1>3, FS_Subset
    <3> QED
      BY <3>4
  <2>3. ASSUME NEW i \in Covered, NEW j \in Covered, i # j
        PROVE  RankOf[i] # RankOf[j]
    <3>1. i \in Int /\ j \in Int
      BY <1>1 DEF Budgeted
    <3> QED
      BY <2>2, <2>3, <3>1
  <2> QED
    BY <2>1, <2>3 DEF Injection, IsInjective
<1>6. IsFiniteSet(Left) /\ Cardinality(Left) = Budget - used
  BY <1>4, FS_Interval
<1>7. Cardinality(Covered) <= Budget - used
  BY <1>5, <1>6, FS_Injection
<1>8. Cardinality(Covered) \in Nat /\ (Cardinality(Covered) = 0 <=> Covered = {})
  BY <1>3, FS_CardinalityType, FS_EmptySet
<1> QED
  BY <1>3, <1>4, <1>7, <1>8

-----------------------------------------------------------------------------
(* The inductive invariant *)

\* No tool has run and no turn is taken at the start.
LEMMA InitIInv == Init => IInv
<1> SUFFICES ASSUME Init PROVE IInv
  OBVIOUS
<1> USE BoundsAssumption DEF Init
<1>1. TypeOK
  <2>1. turn \in 0 .. TurnLimit /\ used \in 0 .. Budget
    BY DEF TurnLimit, Budget
  <2>2. running \subseteq Calls /\ finished \subseteq Calls /\ answered \subseteq Calls
    OBVIOUS
  <2>3. retried \in [toolless : BOOLEAN, invalid : BOOLEAN]
    BY DEF NoRetry
  <2>4. batch \in Batches \cup {<<>>}
    OBVIOUS
  <2>5. /\ settings \in [budget : 1 .. MaxBudget, adaptive : BOOLEAN,
                       streams : BOOLEAN, stateful : BOOLEAN]
        /\ transport \in {"stream", "http"}
        /\ pc \in Waiting \cup {"ask", "tools", "calls", "done"}
        /\ outcome \in {"none", "reply", "fallback", "error", "stopped"}
    OBVIOUS
  <2>6. /\ empties \in 0 .. 1 /\ attempt \in 0 .. 2
        /\ executed \in Nat /\ detours \in Nat
    OBVIOUS
  <2>7. /\ bad \in BOOLEAN /\ hasResults \in BOOLEAN
        /\ ran \in BOOLEAN /\ unsure \in BOOLEAN /\ resent \in BOOLEAN
    OBVIOUS
  <2> HIDE DEF Init
  <2> QED
    BY <2>1, <2>2, <2>3, <2>4, <2>5, <2>6, <2>7 DEF TypeOK
<1>2. Spent
  BY DEF Spent
<1>3. Traces
  BY DEF Traces
<1>4. Channels
  BY DEF Channels
<1>5. Sessions
  BY DEF Sessions
<1>6. InHand
  BY DEF InHand
<1>7. Turns
  BY DEF Turns, Looping, TurnLimit, Budget
<1>8. AllAnswered
  BY DEF AllAnswered, Calls
<1>9. RanMeansAnswered
  BY DEF RanMeansAnswered
<1> QED
  BY <1>1, <1>2, <1>3, <1>4, <1>5, <1>6, <1>7, <1>8, <1>9 DEF IInv

\* A request may end while it waits for the provider or between two turns.
LEMMA EndStep ==
  ASSUME IInv, pc \in Waiting \cup {"ask"},
         NEW how \in {"reply", "fallback", "error", "stopped"}, End(how),
         UNCHANGED settings, retried' \in [toolless : BOOLEAN, invalid : BOOLEAN],
         unsure' \in BOOLEAN, unsure => unsure',
         how = "error" /\ ran /\ transport = "stream" =>
           settings.stateful /\ unsure'
  PROVE  IInv'
<1> USE BoundsAssumption DEF IInv, End, conversation, Waiting
<1>1. TypeOK'
  BY DEF TypeOK, TurnLimit, Budget, Calls, Waiting, Turns, Looping
<1>2. Spent'
  BY DEF Spent, Traces
<1>3. Traces'
  BY DEF Traces, TypeOK, TurnLimit, Budget
<1>4. Channels'
  BY DEF Channels, TypeOK
<1>5. Sessions'
  BY DEF Sessions, TypeOK
<1>6. InHand'
  BY DEF InHand
<1>7. Turns'
  BY DEF Turns, Looping, TypeOK, TurnLimit, Budget
<1>8. AllAnswered'
  BY DEF AllAnswered, Waiting, Calls
<1>9. RanMeansAnswered'
  BY DEF RanMeansAnswered
<1> QED
  BY <1>1, <1>2, <1>3, <1>4, <1>5, <1>6, <1>7, <1>8, <1>9

\* The request for a final answer is sent from a complete conversation.
LEMMA AskFinalStep ==
  ASSUME IInv, pc \in {"ask", "streaming", "posting"}, AskFinal,
         UNCHANGED settings, retried' \in [toolless : BOOLEAN, invalid : BOOLEAN],
         unsure' \in BOOLEAN, settings.stateful => unsure' = unsure
  PROVE  IInv'
<1> USE BoundsAssumption DEF IInv, AskFinal, Send, conversation, Waiting
<1>1. TypeOK'
  BY DEF TypeOK, TurnLimit, Budget, Calls, Waiting, Turns, Looping
<1>2. Spent'
  BY DEF Spent, Traces
<1>3. Traces'
  BY DEF Traces, TypeOK, TurnLimit, Budget
<1>4. Channels'
  BY DEF Channels, TypeOK
<1>5. Sessions'
  BY DEF Sessions, TypeOK
<1>6. InHand'
  BY DEF InHand
<1>7. Turns'
  BY DEF Turns, Looping, TypeOK, TurnLimit, Budget
<1>8. AllAnswered'
  BY DEF AllAnswered, Waiting, Calls
<1>9. RanMeansAnswered'
  BY DEF RanMeansAnswered
<1> QED
  BY <1>1, <1>2, <1>3, <1>4, <1>5, <1>6, <1>7, <1>8, <1>9

\* A turn that is repeated counts as a detour.
LEMMA NextTurnStep ==
  ASSUME IInv, pc \in {"streaming", "posting"}, NextTurn,
         UNCHANGED settings, retried' \in [toolless : BOOLEAN, invalid : BOOLEAN],
         empties' \in 0 .. 1, unsure' \in BOOLEAN,
         settings.stateful => empties' = 0 /\ unsure' = unsure
  PROVE  IInv'
<1> USE BoundsAssumption DEF IInv, NextTurn, conversation, Waiting
<1>1. TypeOK'
  BY DEF TypeOK, TurnLimit, Budget, Calls, Waiting, Turns, Looping
<1>2. Spent'
  BY DEF Spent, Traces
<1>3. Traces'
  BY DEF Traces, TypeOK
<1>4. Channels'
  BY DEF Channels, TypeOK
<1>5. Sessions'
  BY DEF Sessions, TypeOK
<1>6. InHand'
  BY DEF InHand
<1>7. Turns'
  BY DEF Turns, Looping, TypeOK, TurnLimit, Budget
<1>8. AllAnswered'
  BY DEF AllAnswered, Waiting, Calls
<1>9. RanMeansAnswered'
  BY DEF RanMeansAnswered
<1> QED
  BY <1>1, <1>2, <1>3, <1>4, <1>5, <1>6, <1>7, <1>8, <1>9

\* A request that has run no tool may start over.
LEMMA FallBackStep ==
  ASSUME IInv, pc = "streaming", ~ran, FallBack,
         UNCHANGED settings, retried' \in [toolless : BOOLEAN, invalid : BOOLEAN],
         unsure' \in BOOLEAN, settings.stateful => unsure' = unsure
  PROVE  IInv'
<1> USE BoundsAssumption DEF IInv, FallBack, Waiting
<1>1. TypeOK'
  <2>1. turn' \in 0 .. TurnLimit' /\ used' \in 0 .. Budget'
    BY DEF TypeOK, TurnLimit, Budget
  <2>2. running' \subseteq Calls' /\ finished' \subseteq Calls' /\ answered' \subseteq Calls'
    OBVIOUS
  <2>3. batch' \in Batches \cup {<<>>}
    OBVIOUS
  <2>4. /\ settings' \in [budget : 1 .. MaxBudget, adaptive : BOOLEAN,
                        streams : BOOLEAN, stateful : BOOLEAN]
        /\ transport' \in {"stream", "http"}
        /\ pc' \in Waiting \cup {"ask", "tools", "calls", "done"}
        /\ outcome' \in {"none", "reply", "fallback", "error", "stopped"}
    BY DEF TypeOK
  <2>5. /\ empties' \in 0 .. 1 /\ attempt' \in 0 .. 2
        /\ executed' \in Nat /\ detours' \in Nat
    BY DEF TypeOK
  <2>6. /\ bad' \in BOOLEAN /\ hasResults' \in BOOLEAN
        /\ ran' \in BOOLEAN /\ resent' \in BOOLEAN
    BY DEF TypeOK
  <2> HIDE DEF FallBack
  <2> QED
    BY <2>1, <2>2, <2>3, <2>4, <2>5, <2>6 DEF TypeOK
<1>2. Spent'
  BY DEF Spent, Traces
<1>3. Traces'
  BY DEF Traces, TypeOK, TurnLimit, Budget
<1>4. Channels'
  BY DEF Channels, TypeOK
<1>5. Sessions'
  BY DEF Sessions, TypeOK
<1>6. InHand'
  BY DEF InHand
<1>7. Turns'
  BY DEF Turns, Looping, TypeOK, TurnLimit, Budget
<1>8. AllAnswered'
  BY DEF AllAnswered, Waiting, Calls
<1>9. RanMeansAnswered'
  BY DEF RanMeansAnswered
<1> QED
  BY <1>1, <1>2, <1>3, <1>4, <1>5, <1>6, <1>7, <1>8, <1>9

\* A session that has lost a turn has ended, so that no turn of it is sent.
LEMMA AskStep ==
  ASSUME IInv, Ask
  PROVE  IInv'
<1> USE BoundsAssumption DEF IInv, Ask, Send, conversation, Waiting
<1>1. TypeOK'
  BY DEF TypeOK, TurnLimit, Budget, Calls, Waiting, Turns, Looping
<1>2. Spent'
  BY DEF Spent, Traces
<1>3. Traces'
  BY DEF Traces, TypeOK, TurnLimit, Budget
<1>4. Channels'
  BY DEF Channels, TypeOK
<1>5. Sessions'
  BY DEF Sessions, TypeOK
<1>6. InHand'
  BY DEF InHand
<1>7. Turns'
  BY DEF Turns, Looping, TypeOK, TurnLimit, Budget
<1>8. AllAnswered'
  BY DEF AllAnswered, Waiting, Calls
<1>9. RanMeansAnswered'
  BY DEF RanMeansAnswered
<1> QED
  BY <1>1, <1>2, <1>3, <1>4, <1>5, <1>6, <1>7, <1>8, <1>9

\* A stream fails.
LEMMA StreamBreaksStep ==
  ASSUME IInv, NEW preconnect \in BOOLEAN, StreamBreaks(preconnect)
  PROVE  IInv'
<1> USE BoundsAssumption DEF IInv, TypeOK, Waiting, StreamBreaks, NoRetry
<1>1. CASE settings.stateful /\ ~preconnect
  BY <1>1, EndStep
<1>2. CASE ~(settings.stateful /\ ~preconnect) /\ turn = 0
  <2>1. FallBack /\ retried' = NoRetry /\ ~ran
    BY <1>2 DEF Traces
  <2> QED
    BY <2>1, <1>2, FallBackStep
<1>3. CASE ~(settings.stateful /\ ~preconnect) /\ turn # 0
  <2>1. PICK partial \in {FALSE, ~preconnect} : LeaveLoop(partial) /\ UNCHANGED retried
    BY <1>3
  <2>2. CASE End("reply") \/ End("fallback")
    BY <2>1, <2>2, EndStep
  <2>3. CASE ~partial /\ AskFinal
    BY <2>1, <2>3, <1>3, AskFinalStep
  <2> QED
    BY <2>1, <2>2, <2>3 DEF LeaveLoop
<1> QED
  BY <1>1, <1>2, <1>3

\* A rejected stream is started over only if nothing has run.
LEMMA StreamRejectedStep ==
  ASSUME IInv, StreamRejected
  PROVE  IInv'
<1> USE BoundsAssumption DEF IInv, TypeOK, Waiting, NoRetry
<1>1. CASE turn = 0
  <2>1. FallBack /\ retried' = NoRetry /\ ~ran
    BY <1>1 DEF Traces, StreamRejected
  <2> QED
    BY <2>1, FallBackStep DEF StreamRejected
<1>2. CASE turn # 0
  <2>1. LeaveLoop(FALSE) /\ UNCHANGED retried
    BY <1>2 DEF StreamRejected
  <2>2. CASE End("fallback")
    BY <2>1, <2>2, EndStep DEF StreamRejected
  <2>3. CASE AskFinal
    BY <2>1, <2>3, AskFinalStep DEF StreamRejected
  <2> QED
    BY <2>1, <2>2, <2>3 DEF LeaveLoop
<1> QED
  BY <1>1, <1>2

\* The guard on model turns ends the request.
LEMMA GuardStopsStep ==
  ASSUME IInv, GuardStops
  PROVE  IInv'
<1> USE BoundsAssumption DEF IInv, TypeOK, Waiting, NoRetry
<1>1. CASE End("fallback")
  BY <1>1, EndStep DEF GuardStops
<1>2. CASE AskFinal
  BY <1>2, AskFinalStep DEF GuardStops
<1> QED
  BY <1>1, <1>2 DEF GuardStops, LeaveLoop

\* An empty stream is started over only if nothing has run.
LEMMA StreamEmptyStep ==
  ASSUME IInv, StreamEmpty
  PROVE  IInv'
<1> USE BoundsAssumption DEF IInv, TypeOK, Waiting, NoRetry
<1>1. CASE empties = 0 /\ settings.stateful
  BY <1>1, EndStep DEF StreamEmpty
<1>2. CASE empties = 0 /\ ~settings.stateful
  BY <1>2, NextTurnStep DEF StreamEmpty
<1>3. CASE empties = 1 /\ hasResults
  <2>1. AskFinal /\ UNCHANGED retried
    BY <1>3 DEF StreamEmpty
  <2>2. ~settings.stateful
    BY <1>3 DEF Sessions
  <2> QED
    BY <2>1, <2>2, AskFinalStep DEF StreamEmpty
<1>4. CASE empties = 1 /\ ~hasResults
  <2>1. FallBack /\ retried' = NoRetry
    BY <1>4 DEF StreamEmpty
  <2>2. ~ran
    BY <1>4 DEF Traces, StreamEmpty
  <2>3. ~settings.stateful
    BY <1>4 DEF Sessions
  <2> QED
    BY <2>1, <2>2, <2>3, FallBackStep DEF StreamEmpty
<1> QED
  BY <1>1, <1>2, <1>3, <1>4

\* A corrective retry is a detour.
LEMMA RetryInvalidStep ==
  ASSUME IInv, pc \in {"streaming", "posting"}, NEW n \in 0 .. 1,
         settings.stateful => n = 0, RetryInvalid(n)
  PROVE  IInv'
<1> USE BoundsAssumption DEF IInv, TypeOK, Waiting, NoRetry
<1>1. CASE retried.invalid
  BY <1>1, EndStep DEF RetryInvalid
<1>2. CASE ~retried.invalid
  <2>1. retried' \in [toolless : BOOLEAN, invalid : BOOLEAN]
    BY <1>2 DEF RetryInvalid
  <2> QED
    BY <1>2, <2>1, NextTurnStep DEF RetryInvalid
<1> QED
  BY <1>1, <1>2

\* A timed-out HTTP request is repeated, but not to a session.
LEMMA PostTimesOutStep ==
  ASSUME IInv, PostTimesOut
  PROVE  IInv'
<1>1. CASE attempt < Attempts
  <2> USE <1>1, BoundsAssumption DEF IInv, PostTimesOut, Attempts, Send, conversation, Waiting
  <2>1. TypeOK'
    BY <1>1 DEF TypeOK, TurnLimit, Budget, Calls, Waiting, Turns, Looping
  <2>2. Spent'
    BY <1>1 DEF Spent
  <2>3. Traces'
    BY DEF Traces, TypeOK, TurnLimit, Budget
  <2>4. Channels'
    BY DEF Channels, TypeOK
  <2>5. Sessions'
    BY <1>1 DEF Sessions, TypeOK
  <2>6. InHand'
    BY DEF InHand
  <2>7. Turns'
    BY DEF Turns, Looping, TypeOK, TurnLimit, Budget
  <2>8. AllAnswered'
    BY DEF AllAnswered, Waiting, Calls
  <2>9. RanMeansAnswered'
    BY DEF RanMeansAnswered
  <2> QED
    BY <2>1, <2>2, <2>3, <2>4, <2>5, <2>6, <2>7, <2>8, <2>9
<1>2. CASE ~(attempt < Attempts)
  BY <1>2, EndStep DEF IInv, PostTimesOut, TypeOK, Waiting, Channels
<1> QED
  BY <1>1, <1>2

\* The calls of a response are about to be run.
LEMMA ToolCallsStep ==
  ASSUME IInv, NEW calls \in Batches, NEW malformed \in BOOLEAN, ToolCalls(calls, malformed)
  PROVE  IInv'
<1> USE BoundsAssumption DEF IInv, ToolCalls, past, Waiting
<1>1. TypeOK'
  BY DEF TypeOK, TurnLimit, Budget, Calls, Waiting, Turns, Looping
<1>2. Spent'
  BY DEF Spent, Traces
<1>3. Traces'
  BY DEF Traces, TypeOK, TurnLimit, Budget
<1>4. Channels'
  BY DEF Channels, TypeOK
<1>5. Sessions'
  BY DEF Sessions, TypeOK
<1>6. InHand'
  BY DEF InHand
<1>7. Turns'
  BY DEF Turns, Looping, TypeOK, TurnLimit, Budget
<1>8. AllAnswered'
  BY DEF AllAnswered, Waiting, Calls
<1>9. RanMeansAnswered'
  BY DEF RanMeansAnswered
<1> QED
  BY <1>1, <1>2, <1>3, <1>4, <1>5, <1>6, <1>7, <1>8, <1>9

\* Whatever the provider's response leads to.
LEMMA RespondStep ==
  ASSUME IInv, Respond
  PROVE  IInv'
<1> USE BoundsAssumption DEF IInv, TypeOK, Waiting, NoRetry
<1>1. ASSUME NEW preconnect \in BOOLEAN, StreamBreaks(preconnect)
      PROVE  IInv'
  BY <1>1, StreamBreaksStep
<1>2. CASE StreamRejected
  BY <1>2, StreamRejectedStep
<1>3. CASE StreamEmpty
  BY <1>3, StreamEmptyStep
<1>4. CASE PostRejected
  BY <1>4, EndStep DEF PostRejected, Channels
<1>5. CASE PostTimesOut
  BY <1>5, PostTimesOutStep
<1>6. CASE PostBreaks
  BY <1>6, EndStep DEF PostBreaks, Channels
<1>7. CASE ProviderStops
  BY <1>7, EndStep DEF ProviderStops
<1>8. CASE ArgumentsRejected
  <2>1. CASE hasResults
    BY <1>8, <2>1, AskFinalStep DEF ArgumentsRejected
  <2>2. CASE ~hasResults
    BY <1>8, <2>2, RetryInvalidStep DEF ArgumentsRejected, Sessions
  <2> QED
    BY <2>1, <2>2
<1>9. CASE OnlyInvalidCalls
  BY <1>9, RetryInvalidStep DEF OnlyInvalidCalls
<1>10. ASSUME NEW preamble \in BOOLEAN, Text(preamble)
       PROVE  IInv'
  <2>1. CASE preamble /\ ~retried.toolless /\ used = 0
    <3>1. retried' \in [toolless : BOOLEAN, invalid : BOOLEAN]
      BY <1>10, <2>1 DEF Text
    <3> QED
      BY <1>10, <2>1, <3>1, NextTurnStep DEF Text
  <2>2. CASE ~(preamble /\ ~retried.toolless /\ used = 0)
    BY <1>10, <2>2, EndStep DEF Text
  <2> QED
    BY <2>1, <2>2
<1>11. ASSUME NEW calls \in Batches, NEW malformed \in BOOLEAN, ToolCalls(calls, malformed)
       PROVE  IInv'
  BY <1>11, ToolCallsStep
<1> QED
  BY <1>1, <1>2, <1>3, <1>4, <1>5, <1>6, <1>7, <1>8, <1>9, <1>10, <1>11 DEF Respond

\* A meta tool costs no budget.
LEMMA RunMetaStep ==
  ASSUME IInv, NEW i \in 1 .. MaxBatch, RunMeta(i)
  PROVE  IInv'
<1> USE BoundsAssumption DEF IInv, RunMeta, loop, Waiting
<1>1. TypeOK'
  BY DEF TypeOK, TurnLimit, Budget, Calls, Waiting, Turns, Looping
<1>2. Spent'
  BY DEF Spent, Traces
<1>3. Traces'
  BY DEF Traces, TypeOK
<1>4. Channels'
  BY DEF Channels, TypeOK
<1>5. Sessions'
  BY DEF Sessions, TypeOK
<1>6. InHand'
  BY DEF InHand
<1>7. Turns'
  BY DEF Turns, Looping, TypeOK, TurnLimit, Budget
<1>8. AllAnswered'
  BY DEF AllAnswered, Waiting, Calls
<1>9. RanMeansAnswered'
  BY DEF RanMeansAnswered
<1> QED
  BY <1>1, <1>2, <1>3, <1>4, <1>5, <1>6, <1>7, <1>8, <1>9

\* The budgeted calls are executed once their number is known to fit.
LEMMA StartCallsStep ==
  ASSUME IInv, StartCalls
  PROVE  IInv'
<1> USE BoundsAssumption DEF IInv, StartCalls, loop, Waiting
<1>1. TypeOK'
  <2>1. executed' \in Nat
    BY ExecutableFits DEF TypeOK
  <2>2. running' \subseteq Calls'
    BY DEF Budgeted, Calls
  <2> QED
    BY <2>1, <2>2 DEF TypeOK, TurnLimit, Budget, Calls, Turns, Looping
<1>2. Spent'
  <2>1. Executable' = Executable /\ Budgeted' = Budgeted
    BY DEF Executable, Budgeted, Calls, Budget
  <2>2. Cardinality(Executable \cap Budgeted) \in Nat /\ used \in Nat
    BY ExecutableFits DEF TypeOK
  <2>3. executed = used
    BY <2>2 DEF Spent
  <2> QED
    BY <2>1, <2>2, <2>3 DEF Spent
<1>3. Traces'
  BY DEF Traces, TypeOK, TurnLimit, Budget
<1>4. Channels'
  BY DEF Channels, TypeOK
<1>5. Sessions'
  BY DEF Sessions, TypeOK
<1>6. InHand'
  <2>1. Executable' = Executable /\ Budgeted' = Budgeted
    BY DEF Executable, Budgeted, Calls, Budget
  <2>2. Executable \subseteq running' \cup finished'
    BY DEF Executable, Budgeted
  <2> QED
    BY <2>1, <2>2 DEF InHand
<1>7. Turns'
  BY DEF Turns, Looping, TypeOK, TurnLimit, Budget
<1>8. AllAnswered'
  BY DEF AllAnswered, Waiting, Calls
<1>9. RanMeansAnswered'
  BY DEF RanMeansAnswered
<1> QED
  BY <1>1, <1>2, <1>3, <1>4, <1>5, <1>6, <1>7, <1>8, <1>9

\* Each call that ends is accounted for.
LEMMA FinishCallStep ==
  ASSUME IInv, NEW i \in 1 .. MaxBatch, FinishCall(i)
  PROVE  IInv'
<1> USE BoundsAssumption DEF IInv, FinishCall, loop, past, Waiting
<1>1. TypeOK'
  BY DEF TypeOK, TurnLimit, Budget, Calls, Waiting, Turns, Looping
<1>2. Spent'
  BY DEF Spent, Executable, Budgeted, Calls, Budget
<1>3. Traces'
  BY DEF Traces, TypeOK, TurnLimit, Budget
<1>4. Channels'
  BY DEF Channels, TypeOK
<1>5. Sessions'
  BY DEF Sessions, TypeOK
<1>6. InHand'
  <2>1. Executable' = Executable
    BY DEF Executable, Budgeted, Calls, Budget
  <2> QED
    BY <2>1 DEF InHand
<1>7. Turns'
  BY DEF Turns, Looping, TypeOK, TurnLimit, Budget
<1>8. AllAnswered'
  BY DEF AllAnswered, Waiting, Calls
<1>9. RanMeansAnswered'
  BY DEF RanMeansAnswered
<1> QED
  BY <1>1, <1>2, <1>3, <1>4, <1>5, <1>6, <1>7, <1>8, <1>9

\* The results of a batch are complete and charged to the budget.
LEMMA ReportStep ==
  ASSUME IInv, Report
  PROVE  IInv'
<1> DEFINE n == Cardinality(Executable \cap Budgeted)
<1> USE BoundsAssumption DEF IInv, Report, Waiting
<1>1. n \in 0 .. Budget - used /\ (n = 0 <=> Executable \cap Budgeted = {})
  BY ExecutableFits
<1>2. Calls \subseteq Executable \cup Skipped /\ Executable \subseteq Calls
  BY DEF Executable, Skipped
<1>3. Executable \subseteq finished
  <2>1. CASE pc = "calls"
    BY <2>1 DEF AllFinished, InHand
  <2>2. CASE pc # "calls"
    BY <2>2 DEF AllFinished, Executable, Budgeted
  <2> QED
    BY <2>1, <2>2
<1>4. answered' = Calls /\ Calls' = Calls
  BY <1>2, <1>3 DEF Merge, Skipped, TypeOK, Calls
<1>5. used' = used + n /\ used' \in 0 .. Budget /\ Budget' = Budget /\ TurnLimit' = TurnLimit
  BY <1>1 DEF TypeOK, Budget, TurnLimit
<1>6. executed' = used' /\ executed' \in Nat
  <2>1. CASE pc = "calls"
    BY <2>1, <1>5 DEF Spent, TypeOK
  <2>2. CASE pc # "calls"
    BY <2>2, <1>1, <1>5 DEF Spent, AllFinished, TypeOK
  <2> QED
    BY <2>1, <2>2
<1>7. pc \in {"tools", "calls"} /\ pc' \in {"ask", "final"}
  BY DEF AllFinished
<1>8. /\ pc' = "ask" => turn' = turn + 1 /\ used' < Budget /\ resent' = resent
      /\ pc' = "final" => turn' = turn /\ attempt' = 1 /\ resent' = (resent \/ unsure)
      /\ pc' = "ask" => attempt' = attempt
  BY <1>5 DEF Send, TypeOK, Budget
<1>9. retried' \in [toolless : BOOLEAN, invalid : BOOLEAN]
  BY DEF TypeOK
<1>10. detours' \in Nat /\ turn + 1 <= used' + detours' /\ detours <= detours'
  <2>1. detours' = detours + IF n = 0 THEN 1 ELSE 0
    BY <1>1
  <2>2. /\ detours \in Nat /\ used \in Nat /\ turn \in Nat /\ n \in Nat
        /\ n # 0 => n >= 1
        /\ turn <= used + detours
    BY <1>1 DEF Turns, TypeOK, TurnLimit, Budget
  <2> HIDE DEF n, Report
  <2> QED
    BY <2>1, <2>2, <1>5
<1>11. TypeOK'
  <2>1. turn' \in 0 .. TurnLimit
    BY <1>7, <1>8 DEF Turns, Looping, TypeOK, TurnLimit, Budget
  <2>2. attempt' \in 0 .. 2
    BY <1>7, <1>8 DEF TypeOK
  <2>3. resent' \in BOOLEAN
    BY <1>7, <1>8 DEF TypeOK
  <2> QED
    BY <2>1, <2>2, <2>3, <1>4, <1>5, <1>6, <1>7, <1>9, <1>10 DEF TypeOK
<1>12. Spent'
  BY <1>6, <1>7 DEF Spent
<1>13. Traces'
  BY <1>6, <1>7, <1>8 DEF Traces, TypeOK
<1>14. Channels' /\ InHand'
  BY <1>7 DEF Channels, InHand
<1>15. Sessions'
  BY <1>7, <1>8 DEF Sessions, TypeOK
<1>16. Turns'
  BY <1>7, <1>8, <1>10, <1>5 DEF Turns, Looping, TypeOK
<1>17. AllAnswered' /\ RanMeansAnswered'
  BY <1>4, <1>7 DEF AllAnswered, RanMeansAnswered
<1> QED
  BY <1>11, <1>12, <1>13, <1>14, <1>15, <1>16, <1>17

\* A final request that times out is repeated, but not to a session.
LEMMA FinalTimesOutStep ==
  ASSUME IInv, FinalTimesOut
  PROVE  IInv'
<1> USE BoundsAssumption DEF IInv, FinalTimesOut, Attempts, Send, conversation, Waiting
<1>1. TypeOK'
  BY DEF TypeOK, TurnLimit, Budget, Calls, Waiting, Turns, Looping
<1>2. Spent'
  BY DEF Spent, Traces
<1>3. Traces'
  BY DEF Traces, TypeOK, TurnLimit, Budget
<1>4. Channels'
  BY DEF Channels, TypeOK
<1>5. Sessions'
  BY DEF Sessions, TypeOK
<1>6. InHand'
  BY DEF InHand
<1>7. Turns'
  BY DEF Turns, Looping, TypeOK, TurnLimit, Budget
<1>8. AllAnswered'
  BY DEF AllAnswered, Waiting, Calls
<1>9. RanMeansAnswered'
  BY DEF RanMeansAnswered
<1> QED
  BY <1>1, <1>2, <1>3, <1>4, <1>5, <1>6, <1>7, <1>8, <1>9

\* Every step of a request keeps the invariant.
LEMMA Inductive == IInv /\ [Next]_vars => IInv'
<1> SUFFICES ASSUME IInv, [Next]_vars PROVE IInv'
  OBVIOUS
<1>1. CASE Ask
  BY <1>1, AskStep
<1>2. CASE GuardStops
  BY <1>2, GuardStopsStep
<1>3. CASE Respond
  BY <1>3, RespondStep
<1>4. CASE RunTools
  BY <1>4, RunMetaStep, FinishCallStep, StartCallsStep, ReportStep DEF RunTools
<1>5. CASE Final
  <2>1. CASE FinalAnswer
    BY <2>1, EndStep DEF FinalAnswer, IInv, TypeOK, Waiting
  <2>2. CASE FinalTimesOut
    BY <2>2, FinalTimesOutStep
  <2>3. ASSUME NEW lost \in BOOLEAN, FinalFails(lost)
        PROVE  IInv'
    BY <2>3, EndStep DEF FinalFails, IInv, TypeOK, Waiting
  <2> QED
    BY <1>5, <2>1, <2>2, <2>3 DEF Final
<1>6. CASE UNCHANGED vars
  <2> USE <1>6 DEF IInv, vars, loop, conversation, past
  <2>1. TypeOK'
    BY DEF TypeOK, TurnLimit, Budget, Calls, Waiting
  <2>2. Spent'
    BY DEF Spent, Executable, Budgeted, Calls, Budget
  <2>3. Traces' /\ Channels' /\ Sessions'
    BY DEF Traces, Channels, Sessions
  <2>4. InHand'
    BY DEF InHand, Executable, Budgeted, Calls, Budget
  <2>5. Turns'
    BY DEF Turns, Looping, TurnLimit, Budget
  <2>6. AllAnswered' /\ RanMeansAnswered'
    BY DEF AllAnswered, RanMeansAnswered, Calls, Waiting
  <2> QED
    BY <2>1, <2>2, <2>3, <2>4, <2>5, <2>6
<1> QED
  BY <1>1, <1>2, <1>3, <1>4, <1>5, <1>6 DEF Next

-----------------------------------------------------------------------------
(* What it means for a request *)

\* The inductive invariant holds in every reachable state.
THEOREM Invariant == Spec => []IInv
<1>1. Init => IInv
  BY InitIInv
<1>2. IInv /\ [Next]_vars => IInv'
  BY Inductive
<1> QED
  BY <1>1, <1>2, PTL DEF Spec

\* Every variable of agent.py's request loop keeps its type.
THEOREM TypeCorrect == Spec => []TypeOK
<1>1. IInv => TypeOK
  BY DEF IInv
<1> QED
  BY <1>1, Invariant, PTL

\* _prepare_tool_calls_for_budget: a request never executes more tools than
\* its budget, whatever batches the model asks for and on both transports
\* together.
THEOREM BudgetKept == Spec => []WithinBudget
<1>1. IInv => WithinBudget
  <2> SUFFICES ASSUME IInv PROVE WithinBudget
    OBVIOUS
  <2>1. TypeOK /\ Spent
    BY DEF IInv
  <2>2. Budget \in Nat /\ used \in 0 .. Budget
    BY <2>1, BoundsAssumption DEF TypeOK, Budget
  <2>3. Cardinality(Executable \cap Budgeted) \in 0 .. Budget - used
    BY <2>1, ExecutableFits
  <2> QED
    BY <2>1, <2>2, <2>3 DEF Spent, WithinBudget
<1> QED
  BY <1>1, Invariant, PTL

\* _merge_tool_results_in_call_order: no request leaves with an unanswered
\* tool call.
THEOREM ConversationComplete == Spec => []AllAnswered
<1>1. IInv => AllAnswered
  BY DEF IInv
<1> QED
  BY <1>1, Invariant, PTL

\* model_turn_limit never stops a request for having used its tools.
THEOREM GuardSpared == Spec => []GuardSpares
<1>1. IInv => GuardSpares
  BY BoundsAssumption DEF IInv, GuardSpares, Turns, Looping, TypeOK, TurnLimit, Budget
<1> QED
  BY <1>1, Invariant, PTL

\* The limits of a request as the run checks them: types, budget and guard.
THEOREM RequestIsSound == Spec => []LimitsSound
<1>1. LimitsSound <=> TypeOK /\ WithinBudget /\ GuardSpares
  BY DEF LimitsSound
<1> QED
  BY <1>1, TypeCorrect, BudgetKept, GuardSpared, PTL

\* A session never gets another request after a turn that may be lost.
THEOREM SessionSafe == Spec => []StatefulNotResent
<1>1. IInv => StatefulNotResent
  BY DEF IInv, Sessions, StatefulNotResent
<1> QED
  BY <1>1, Invariant, PTL

\* A streamed request that has run a tool ends with an answer.
THEOREM WorkReported == Spec => []RanMeansAnswered
<1>1. IInv => RanMeansAnswered
  BY DEF IInv
<1> QED
  BY <1>1, Invariant, PTL

\* _call_llm: the HTTP transport never starts over a request that has run a
\* tool.
THEOREM RunOnce == Spec => NeverReplayed
<1>1. IInv /\ [Next]_vars => [transport' # transport => ~ran]_vars
  <2> SUFFICES ASSUME IInv, Next, transport' # transport
               PROVE  ~ran
    BY DEF vars
  <2> USE DEF IInv, TypeOK
  <2>1. CASE Respond
    <3>1. ASSUME NEW preconnect \in BOOLEAN, StreamBreaks(preconnect)
          PROVE  ~ran
      BY <3>1 DEF StreamBreaks, LeaveLoop, End, AskFinal, Traces
    <3>2. CASE StreamRejected
      BY <3>2 DEF StreamRejected, LeaveLoop, End, AskFinal, Traces
    <3>3. CASE StreamEmpty
      BY <3>3 DEF StreamEmpty, NextTurn, End, AskFinal, Traces
    <3>4. CASE PostRejected \/ PostTimesOut \/ PostBreaks \/ ProviderStops
      BY <3>4 DEF PostRejected, PostTimesOut, PostBreaks, ProviderStops, End
    <3>5. CASE ArgumentsRejected \/ OnlyInvalidCalls
      BY <3>5 DEF ArgumentsRejected, OnlyInvalidCalls, RetryInvalid, NextTurn, End, AskFinal
    <3>6. ASSUME NEW preamble \in BOOLEAN, Text(preamble)
          PROVE  ~ran
      BY <3>6 DEF Text, NextTurn, End
    <3>7. ASSUME NEW calls \in Batches, NEW malformed \in BOOLEAN, ToolCalls(calls, malformed)
          PROVE  ~ran
      BY <3>7 DEF ToolCalls
    <3> QED
      BY <2>1, <3>1, <3>2, <3>3, <3>4, <3>5, <3>6, <3>7 DEF Respond
  <2>2. CASE Ask \/ GuardStops
    BY <2>2 DEF Ask, GuardStops, LeaveLoop, End, AskFinal
  <2>3. CASE RunTools
    BY <2>3 DEF RunTools, RunMeta, FinishCall, StartCalls, Report
  <2>4. CASE Final
    BY <2>4 DEF Final, FinalAnswer, FinalTimesOut, FinalFails, End
  <2> QED
    BY <2>1, <2>2, <2>3, <2>4 DEF Next
<1> QED
  BY <1>1, Invariant, PTL DEF Spec, NeverReplayed


-----------------------------------------------------------------------------
(* The models that the agent has chosen for a request (ModelRequests) *)

\* A request of the agent that has its selection retained, and comes while the
\* profile exists, runs under it; any other runs nothing.  Either way the
\* selection is gone.
LEMMA OwnServed ==
  ASSUME RequestsAssumption, CallsTypeOK, NEW c \in CallTokens
  PROVE  LET after == Serve(Open, server, RequestOf(c)).server
             left == server.retained \ {CallOf(c)}
         IN  IF CallOf(c) \in server.retained /\ Resolved(c) = EntryOf[c]
             THEN after = [retained |-> left,
                           ran |-> Append(server.ran, [id |-> c, selection |-> EntryOf[c]])]
             ELSE after = [retained |-> left, ran |-> server.ran]
<1> DEFINE m == RequestOf(c)
           left == server.retained \ {CallOf(c)}
<1>1. m.surface = "http" /\ m.body = "object" /\ m.version /\ m.method = "tools/call"
      /\ m.token = c /\ m.id = c /\ m.params /\ m.tool = "image" /\ m.entry = Resolved(c)
      /\ m.from = Loopback
  BY DEF RequestOf
<1>2. m.method # NoValue /\ m.token # NoValue /\ m.id # NoValue
  BY <1>1 DEF RequestsAssumption
<1> HIDE DEF m
<1>3. Refusal(Open, m) = NoAnswer
  <2>1. IpAllowed(Open, m.from)
    BY <1>1 DEF IpAllowed, AllowedEntries, Open
  <2>2. Authenticated(Open, m)
    BY DEF Authenticated, Open
  <2> QED BY <2>1, <2>2 DEF Refusal
<1>4. Retained(server, c) = server.retained \cap {CallOf(c)}
  <2>1. \A d \in CallTokens : CallOf(d).token = d
    BY DEF CallOf
  <2> QED BY <2>1 DEF Retained, CallsTypeOK
<1>5. Discard(server, c) = [retained |-> left, ran |-> server.ran]
  <2>1. server = [retained |-> server.retained, ran |-> server.ran]
    BY DEF CallsTypeOK
  <2>2. server.retained \ Retained(server, c) = left
    BY <1>4
  <2> QED BY <2>1, <2>2 DEF Discard
<1>6. Fits(server, m) <=> CallOf(c) \in server.retained /\ Resolved(c) = EntryOf[c]
  BY <1>1, <1>4 DEF Fits, CallOf
<1>7. Serve(Open, server, m) = HttpAnswer(server, m)
  BY <1>1, <1>3 DEF Serve
<1>8. CASE ~Fits(server, m)
  <2>1. HttpAnswer(server, m).server = Discard(server, c)
    BY <1>1, <1>2, <1>8 DEF HttpAnswer
  <2> QED BY <1>5, <1>6, <1>7, <1>8, <2>1 DEF m
<1>9. CASE Fits(server, m)
  <2> DEFINE taken == Discard(server, c)
  <2>1. HttpAnswer(server, m).server = Processed(taken, m, m.entry)
    BY <1>1, <1>2, <1>9 DEF HttpAnswer
  <2>2. Dispatched(m)
    BY <1>1 DEF Dispatched, Names, Runs
  <2>3. Processed(taken, m, m.entry) = [taken EXCEPT !.ran = Append(@, [id |-> c, selection |-> m.entry])]
    BY <1>1, <1>2, <2>2 DEF Processed
  <2>4. taken = [retained |-> left, ran |-> server.ran]
    BY <1>5
  <2> HIDE DEF taken
  <2>5. Processed(taken, m, m.entry)
        = [retained |-> left, ran |-> Append(server.ran, [id |-> c, selection |-> m.entry])]
    BY <2>3, <2>4
  <2> QED BY <1>1, <1>6, <1>7, <1>9, <2>1, <2>5 DEF m
<1> QED BY <1>8, <1>9

\* A message of others changes nothing that is retained, and what it runs has no
\* selection.
LEMMA OtherServed ==
  ASSUME RequestsAssumption, CallsTypeOK, NEW m \in Others
  PROVE  LET after == Serve(Open, server, m).server
         IN  \/ after = server
             \/ after = [retained |-> server.retained,
                         ran |-> Append(server.ran, [id |-> m.id, selection |-> NoValue])]
<1> DEFINE run == [id |-> m.id, selection |-> NoValue]
           more == [retained |-> server.retained, ran |-> Append(server.ran, run)]
<1>1. m.token \notin CallTokens /\ m.body \in {"object", "broken", "list"}
  BY DEF RequestsAssumption
<1>2. Retained(server, m.token) = {}
  <2>1. \A d \in CallTokens : CallOf(d).token = d
    BY DEF CallOf
  <2> QED BY <1>1, <2>1 DEF Retained, CallsTypeOK
<1>3. ~Fits(server, m)
  BY <1>2 DEF Fits
<1>4. Discard(server, m.token) = server
  <2>1. server = [retained |-> server.retained, ran |-> server.ran]
    BY DEF CallsTypeOK
  <2> QED BY <1>2, <2>1 DEF Discard
<1>5. Processed(server, m, NoValue) \in {server, more}
  <2>0. server = [retained |-> server.retained, ran |-> server.ran]
    BY DEF CallsTypeOK
  <2>1. [server EXCEPT !.ran = Append(@, run)] = more
    <3> DEFINE kept == server.retained
               done == server.ran
    <3>1. server = [retained |-> kept, ran |-> done]
      BY <2>0
    <3>2. [server EXCEPT !.ran = Append(@, run)] = [server EXCEPT !.ran = Append(done, run)]
      OBVIOUS
    <3> HIDE DEF kept, done, run
    <3>3. [server EXCEPT !.ran = Append(done, run)] = [retained |-> kept, ran |-> Append(done, run)]
      BY <3>1
    <3> QED BY <3>2, <3>3 DEF kept, done
  <2>2. [server EXCEPT !.ran = @] = server
    BY <2>0
  <2> QED BY <2>1, <2>2 DEF Processed
<1>6. HttpAnswer(server, m).server \in {server, more}
  <2>1. CASE m.body \in {"broken", "list"}
    BY <2>1 DEF HttpAnswer
  <2>2. CASE m.body = "object" /\ (~m.version \/ m.method = NoValue)
    BY <2>2 DEF HttpAnswer
  <2>3. CASE m.body = "object" /\ m.version /\ m.method # NoValue /\ m.token # NoValue
    BY <1>3, <1>4, <2>3 DEF HttpAnswer
  <2>4. CASE m.body = "object" /\ m.version /\ m.method # NoValue /\ m.token = NoValue
    BY <1>5, <2>4 DEF HttpAnswer
  <2> QED BY <1>1, <2>1, <2>2, <2>3, <2>4
<1>7. SocketAnswer(server, m).server \in {server, more}
  <2>1. CASE m.body \in {"broken", "list"}
    BY <2>1 DEF SocketAnswer
  <2>2. CASE m.body = "object"
    <3>1. SocketAnswer(server, m).server = Processed(server, m, NoValue)
      BY <2>2 DEF SocketAnswer
    <3> QED BY <1>5, <3>1
  <2> QED BY <1>1, <2>1, <2>2
<1>8. Serve(Open, server, m).server \in {server, more}
  <2>1. CASE Refusal(Open, m) # NoAnswer
    BY <2>1 DEF Serve
  <2>2. CASE Refusal(Open, m) = NoAnswer
    BY <1>6, <1>7, <2>2 DEF Serve
  <2> QED BY <2>1, <2>2
<1> QED BY <1>8

\* Nothing is retained and nothing has arrived at first.
LEMMA CallsInitSound == RequestsAssumption /\ CallsInit => CallsIInv
<1> SUFFICES ASSUME RequestsAssumption, CallsInit PROVE CallsIInv
  OBVIOUS
<1>1. server.retained = {} /\ server.ran = <<>>
  BY DEF CallsInit, Idle
<1>2. CallsTypeOK
  BY DEF CallsInit, Idle, CallsTypeOK
<1>3. SelectionIsTheCalls
  BY <1>1 DEF CallsInit, SelectionIsTheCalls, RunsOf
<1>4. RetainedBounded
  BY <1>1, FS_EmptySet DEF RetainedBounded, RequestsAssumption
<1>5. RetainedWhileWaiting /\ SentOnce
  BY <1>1 DEF CallsInit, RetainedWhileWaiting, SentOnce
<1> QED BY <1>1, <1>2, <1>3, <1>4, <1>5, FS_EmptySet DEF CallsIInv

\* Calls are told apart by their tokens.
LEMMA CallsDiffer == ASSUME NEW c \in CallTokens, NEW d \in CallTokens, CallOf(c) = CallOf(d) PROVE c = d
BY DEF CallOf

\* One more selection is at most one more.
LEMMA OneMoreRetained ==
  ASSUME NEW S, NEW x, IsFiniteSet(S)
  PROVE  /\ IsFiniteSet(S \cup {x})
         /\ Cardinality(S \cup {x}) <= Cardinality(S) + 1 /\ Cardinality(S) \in Nat
BY FS_AddElement, FS_CardinalityType

\* Steps that run nothing.
LEMMA QuietCallStep ==
  ASSUME RequestsAssumption, CallsIInv,
         \/ \E c \in CallTokens : Register(c) \/ NoRoom(c) \/ Lose(c) \/ EndCall(c)
         \/ \E e \in Entries : RemoveProfile(e)
         \/ Stop \/ UNCHANGED callVars
  PROVE  CallsIInv'
<1> USE DEF CallsIInv
<1>0. server = [retained |-> server.retained, ran |-> server.ran]
  BY DEF CallsTypeOK
<1> DEFINE RanSame == server'.ran = server.ran /\ arrived' = arrived
<1>1. RanSame => (\A i \in DOMAIN server'.ran : server'.ran[i].selection # NoValue =>
                    \E c \in CallTokens : server'.ran[i] = [id |-> c, selection |-> EntryOf[c]])
                 /\ \A c \in CallTokens : RunsOf(c)' = RunsOf(c)
                                     /\ (RunsOf(c)' # {} <=> arrived'[c] = "timely")
                                     /\ \A i, j \in RunsOf(c)' : i = j
  BY DEF SelectionIsTheCalls, RunsOf
<1> DEFINE Rest == CallsTypeOK' /\ IsFiniteSet(server'.retained) /\ RetainedBounded'
                   /\ RetainedWhileWaiting' /\ SentOnce'
<1>2. RanSame /\ Rest => CallsIInv'
  BY <1>1 DEF SelectionIsTheCalls, RetainedWhileWaiting
<1>3. ASSUME NEW c \in CallTokens, Register(c) PROVE RanSame /\ Rest
  <2>1. server' = [retained |-> server.retained \cup {CallOf(c)}, ran |-> server.ran]
    BY <1>0, <1>3 DEF Register
  <2>2. CallsTypeOK'
    BY <1>3, <2>1 DEF Register, CallsTypeOK
  <2>3. /\ IsFiniteSet(server'.retained)
        /\ Cardinality(server'.retained) <= Cardinality(server.retained) + 1
        /\ Cardinality(server.retained) \in Nat
    <3>1. server'.retained = server.retained \cup {CallOf(c)}
      BY <2>1
    <3>2. IsFiniteSet(server.retained)
      OBVIOUS
    <3> DEFINE R == server.retained
               k == CallOf(c)
    <3> HIDE DEF R, k
    <3>3. /\ IsFiniteSet(R \cup {k}) /\ Cardinality(R \cup {k}) <= Cardinality(R) + 1
          /\ Cardinality(R) \in Nat
      BY <3>2, OneMoreRetained DEF R
    <3> QED BY <3>1, <3>3 DEF R, k
  <2>4. RetainedBounded'
    BY <1>3, <2>3, FS_CardinalityType DEF Register, Room, RetainedBounded, RequestsAssumption
  <2>5. RetainedWhileWaiting'
    BY <1>3, <2>1, CallsDiffer DEF Register, RetainedWhileWaiting, SentOnce, CallsTypeOK
  <2>6. SentOnce'
    BY <1>3 DEF Register, SentOnce, CallsTypeOK
  <2> QED BY <1>3, <2>1, <2>2, <2>3, <2>4, <2>5, <2>6 DEF Register
<1>4. ASSUME NEW c \in CallTokens, NoRoom(c) PROVE RanSame /\ Rest
  BY <1>4 DEF NoRoom, CallsTypeOK, RetainedBounded, RetainedWhileWaiting, SentOnce
<1>5. ASSUME NEW c \in CallTokens, Lose(c) PROVE RanSame /\ Rest
  BY <1>5 DEF Lose, CallsTypeOK, RetainedBounded, RetainedWhileWaiting, SentOnce
<1>6. ASSUME NEW c \in CallTokens, EndCall(c) PROVE RanSame /\ Rest
  <2>1. server' = [retained |-> server.retained \ {CallOf(c)}, ran |-> server.ran]
    <3>1. Retained(server, c) = server.retained \cap {CallOf(c)}
      <4>1. \A d \in CallTokens : CallOf(d).token = d
        BY DEF CallOf
      <4> QED BY <4>1 DEF Retained, CallsTypeOK
    <3>2. server.retained \ Retained(server, c) = server.retained \ {CallOf(c)}
      BY <3>1
    <3> QED BY <1>0, <1>6, <3>2 DEF EndCall, Discard
  <2>2. CallsTypeOK'
    BY <1>6, <2>1 DEF EndCall, CallsTypeOK
  <2>3. IsFiniteSet(server'.retained) /\ Cardinality(server'.retained) <= Cardinality(server.retained)
    BY <2>1, FS_Subset
  <2>4. RetainedBounded'
    BY <2>3, FS_CardinalityType DEF RetainedBounded, RequestsAssumption
  <2>5. RetainedWhileWaiting'
    BY <1>6, <2>1, CallsDiffer DEF EndCall, RetainedWhileWaiting, CallsTypeOK
  <2>6. SentOnce'
    BY <1>6 DEF EndCall, SentOnce, CallsTypeOK
  <2> QED BY <1>6, <2>1, <2>2, <2>3, <2>4, <2>5, <2>6 DEF EndCall
<1>7. ASSUME NEW e \in Entries, RemoveProfile(e) PROVE RanSame /\ Rest
  BY <1>7 DEF RemoveProfile, CallsTypeOK, RetainedBounded, RetainedWhileWaiting, SentOnce
<1>8. ASSUME Stop PROVE RanSame /\ Rest
  <2>1. server' = [retained |-> {}, ran |-> server.ran]
    BY <1>0, <1>8 DEF Stop
  <2>2. CallsTypeOK'
    BY <1>8, <2>1 DEF Stop, CallsTypeOK
  <2>3. IsFiniteSet(server'.retained) /\ RetainedBounded'
    BY <2>1, FS_EmptySet DEF RetainedBounded, RequestsAssumption
  <2>4. RetainedWhileWaiting'
    BY <1>8, <2>1 DEF Stop, RetainedWhileWaiting
  <2>5. SentOnce'
    BY <1>8 DEF Stop, SentOnce, RetainedWhileWaiting
  <2> QED BY <1>8, <2>1, <2>2, <2>3, <2>4, <2>5 DEF Stop
<1>9. ASSUME UNCHANGED callVars PROVE RanSame /\ Rest
  BY <1>9 DEF callVars, CallsTypeOK, RetainedBounded, RetainedWhileWaiting, SentOnce, CallOf
<1> QED BY <1>2, <1>3, <1>4, <1>5, <1>6, <1>7, <1>8, <1>9

\* The request of an agent takes its selection, and runs if it is in time.
LEMMA ArriveStep == ASSUME RequestsAssumption, CallsIInv, NEW c \in CallTokens, Arrive(c) PROVE CallsIInv'
<1> USE DEF CallsIInv
<1> DEFINE run == [id |-> c, selection |-> EntryOf[c]]
           timely == CallOf(c) \in server.retained /\ Resolved(c) = EntryOf[c]
<1>1. /\ server'.retained = server.retained \ {CallOf(c)}
      /\ server'.ran = IF timely THEN Append(server.ran, run) ELSE server.ran
      /\ server' = [retained |-> server'.retained, ran |-> server'.ran]
  <2>1. server' = Serve(Open, server, RequestOf(c)).server
    BY DEF Arrive
  <2>2. CASE timely
    <3>1. server' = [retained |-> server.retained \ {CallOf(c)}, ran |-> Append(server.ran, run)]
      BY <2>1, <2>2, OwnServed
    <3> QED BY <2>2, <3>1
  <2>3. CASE ~timely
    <3>1. server' = [retained |-> server.retained \ {CallOf(c)}, ran |-> server.ran]
      BY <2>1, <2>3, OwnServed
    <3> QED BY <2>3, <3>1
  <2> QED BY <2>2, <2>3
<1>2. arrived[c] = "none" /\ stage[c] # "idle"
  BY DEF Arrive, SentOnce
<1>3. arrived' = [arrived EXCEPT ![c] = IF timely THEN "timely" ELSE "late"]
  BY <1>2 DEF Arrive, RetainedWhileWaiting
<1>4. run \in [id : CallTokens \cup {m.id : m \in Others}, selection : Entries \cup {NoValue}]
      /\ run.selection # NoValue
  BY DEF RequestsAssumption
<1> HIDE DEF run
<1> DEFINE S == [id : CallTokens \cup {m.id : m \in Others}, selection : Entries \cup {NoValue}]
<1>5. server'.ran \in Seq(S)
  <2>1. server.ran \in Seq(S) /\ run \in S
    BY <1>4 DEF CallsTypeOK
  <2> HIDE DEF S
  <2> QED BY <1>1, <2>1, AppendProperties
<1>6. CallsTypeOK'
  BY <1>1, <1>3, <1>5 DEF Arrive, CallsTypeOK
<1>7. IsFiniteSet(server'.retained) /\ Cardinality(server'.retained) <= Cardinality(server.retained)
  BY <1>1, FS_Subset
<1>8. RetainedBounded'
  BY <1>7, FS_CardinalityType DEF RetainedBounded, RequestsAssumption
<1>9. RetainedWhileWaiting'
  BY <1>1, <1>3, CallsDiffer DEF Arrive, RetainedWhileWaiting, CallsTypeOK
<1>10. SentOnce'
  BY <1>2, <1>3 DEF Arrive, SentOnce, CallsTypeOK
<1>11. SelectionIsTheCalls'
  <2>1. CASE ~timely
    <3>1. \A d \in CallTokens : RunsOf(d)' = RunsOf(d)
      BY <1>1, <2>1 DEF RunsOf
    <3>2. \A d \in CallTokens : arrived'[d] = "timely" <=> arrived[d] = "timely"
      BY <1>2, <1>3, <2>1 DEF CallsTypeOK
    <3>3. server'.ran = server.ran
      BY <1>1, <2>1
    <3>4. \A d \in CallTokens : CallOf(d) \in server'.retained => stage'[d] = "waiting" /\ arrived'[d] = "none"
      BY <1>9 DEF RetainedWhileWaiting, CallOf
    <3>5. \A d \in CallTokens : (RunsOf(d)' # {} <=> arrived'[d] = "timely") /\ \A i, j \in RunsOf(d)' : i = j
      BY <3>1, <3>2 DEF SelectionIsTheCalls
    <3>6. \A i \in DOMAIN server'.ran : server'.ran[i].selection # NoValue =>
            \E d \in CallTokens : server'.ran[i] = [id |-> d, selection |-> EntryOf[d]]
      BY <3>3 DEF SelectionIsTheCalls
    <3> QED BY <3>4, <3>5, <3>6 DEF SelectionIsTheCalls, CallOf
  <2>2. CASE timely
    <3>1. /\ DOMAIN server'.ran = DOMAIN server.ran \cup {Len(server.ran) + 1}
          /\ Len(server.ran) + 1 \notin DOMAIN server.ran
          /\ \A i \in DOMAIN server.ran : server'.ran[i] = server.ran[i]
          /\ server'.ran[Len(server.ran) + 1] = run
      BY <1>1, <1>4, <2>2, AppendProperties, LenProperties DEF CallsTypeOK
    <3>2. \A d \in CallTokens \ {c} : RunsOf(d)' = RunsOf(d)
      BY <3>1 DEF RunsOf, run
    <3>3. RunsOf(c) = {}
      BY <1>2 DEF SelectionIsTheCalls
    <3>4. RunsOf(c)' = {Len(server.ran) + 1}
      BY <1>4, <3>1, <3>3 DEF RunsOf, run
    <3>5. arrived'[c] = "timely" /\ \A d \in CallTokens \ {c} : arrived'[d] = arrived[d]
      BY <1>3, <2>2 DEF CallsTypeOK
    <3>6. \A i \in DOMAIN server'.ran : server'.ran[i].selection # NoValue =>
            \E d \in CallTokens : server'.ran[i] = [id |-> d, selection |-> EntryOf[d]]
      BY <3>1 DEF SelectionIsTheCalls, run
    <3>7. \A d \in CallTokens : (RunsOf(d)' # {} <=> arrived'[d] = "timely") /\ \A i, j \in RunsOf(d)' : i = j
      <4>1. \A d \in CallTokens \ {c} : (RunsOf(d)' # {} <=> arrived'[d] = "timely") /\ \A i, j \in RunsOf(d)' : i = j
        BY <3>2, <3>5 DEF SelectionIsTheCalls
      <4>2. (RunsOf(c)' # {} <=> arrived'[c] = "timely") /\ \A i, j \in RunsOf(c)' : i = j
        BY <3>4, <3>5
      <4> QED BY <4>1, <4>2
    <3>8. \A d \in CallTokens : CallOf(d) \in server'.retained => stage'[d] = "waiting" /\ arrived'[d] = "none"
      BY <1>9 DEF RetainedWhileWaiting, CallOf
    <3> QED BY <3>6, <3>7, <3>8 DEF SelectionIsTheCalls, CallOf
  <2> QED BY <2>1, <2>2
<1> QED BY <1>6, <1>7, <1>8, <1>9, <1>10, <1>11

\* Whatever others send takes no selection and gets none.
LEMMA OtherStep == ASSUME RequestsAssumption, CallsIInv, NEW m \in Others, Other(m) PROVE CallsIInv'
<1> USE DEF CallsIInv
<1> DEFINE run == [id |-> m.id, selection |-> NoValue]
<1>1. CASE server' = server
  <2>1. UNCHANGED callVars
    BY <1>1 DEF Other, callVars
  <2> QED BY <2>1, QuietCallStep
<1>2. CASE server' = [retained |-> server.retained, ran |-> Append(server.ran, run)]
  <2>1. run \in [id : CallTokens \cup {k.id : k \in Others}, selection : Entries \cup {NoValue}]
    OBVIOUS
  <2>2. run.selection = NoValue
    OBVIOUS
  <2> HIDE DEF run
  <2>3. server'.retained = server.retained /\ server'.ran = Append(server.ran, run)
    BY <1>2
  <2>4. /\ server'.ran \in Seq([id : CallTokens \cup {k.id : k \in Others}, selection : Entries \cup {NoValue}])
        /\ DOMAIN server'.ran = DOMAIN server.ran \cup {Len(server.ran) + 1}
        /\ \A i \in DOMAIN server.ran : server'.ran[i] = server.ran[i]
        /\ server'.ran[Len(server.ran) + 1] = run
    BY <2>1, <2>3, AppendProperties, LenProperties DEF CallsTypeOK
  <2>5. CallsTypeOK'
    BY <1>2, <2>3, <2>4 DEF Other, CallsTypeOK
  <2>6. \A c \in CallTokens : RunsOf(c)' = RunsOf(c)
    BY <2>2, <2>4 DEF RunsOf
  <2>7. RetainedWhileWaiting' /\ SentOnce' /\ RetainedBounded'
    BY <2>3 DEF Other, RetainedWhileWaiting, SentOnce, RetainedBounded
  <2>8. SelectionIsTheCalls'
    <3>1. ASSUME NEW i \in DOMAIN server'.ran, server'.ran[i].selection # NoValue
          PROVE  \E c \in CallTokens : server'.ran[i] = [id |-> c, selection |-> EntryOf[c]]
      <4>1. i \in DOMAIN server.ran /\ server'.ran[i] = server.ran[i]
        BY <2>2, <2>4, <3>1
      <4> QED BY <3>1, <4>1 DEF SelectionIsTheCalls
    <3>2. \A c \in CallTokens : (RunsOf(c)' # {} <=> arrived'[c] = "timely") /\ \A i, j \in RunsOf(c)' : i = j
      BY <2>6 DEF Other, SelectionIsTheCalls
    <3>3. \A c \in CallTokens : CallOf(c) \in server'.retained => stage'[c] = "waiting" /\ arrived'[c] = "none"
      BY <2>7 DEF RetainedWhileWaiting, CallOf
    <3> QED BY <3>1, <3>2, <3>3 DEF SelectionIsTheCalls, CallOf
  <2> QED BY <2>3, <2>5, <2>7, <2>8
<1> QED BY <1>1, <1>2, OtherServed DEF Other

\* Whatever the number of calls, of profiles and of the messages of others: a
\* selection serves the one call that it was registered for, and none outlives it.
THEOREM SelectionsAreSound == ASSUME RequestsAssumption PROVE CallsSpec => []SelectionsSound
<1>1. CallsInit => CallsIInv
  BY CallsInitSound
<1>2. CallsIInv /\ [CallsNext]_callVars => CallsIInv'
  BY QuietCallStep, ArriveStep, OtherStep DEF CallsNext
<1>3. CallsIInv => SelectionsSound
  BY DEF CallsIInv, SelectionsSound
<1> QED BY <1>1, <1>2, <1>3, PTL DEF CallsSpec

-----------------------------------------------------------------------------
(* The tools that a profile sees and calls *)

\* What the settings allow at the time.
WantedList(s, v) == Filtered(s, v, ListNow(s, v))

ToolKeys == {Key(s, v) : s \in AllSettings, v \in Versions}
ToolLists == [tools : SUBSET ToolNames, reading : SUBSET ToolNames]
ToolWaits ==
  [at : {"rest"}]
  \cup [at : {"fetch"}, key : ToolKeys, right : BOOLEAN]
  \cup [at : {"answer"}, key : ToolKeys, right : BOOLEAN, list : ToolLists]
  \cup [at : {"call"}, tool : ToolNames, right : BOOLEAN]

ToolsTyped ==
  /\ inForce \in AllSettings /\ serving \in Versions
  /\ awaited \in [Askers -> ToolWaits]

\* A list that was kept rightly is right for whatever settings and tools have its key.
KeptIsRight ==
  toolCache # Absent =>
    /\ toolCache \in [list : SUBSET ToolNames, key : ToolKeys, old : BOOLEAN, right : BOOLEAN]
    /\ toolCache.right =>
         \A s \in AllSettings, v \in Versions : Key(s, v) = toolCache.key => toolCache.list = WantedList(s, v)

\* A request that nothing has disturbed works by what still holds.
WaitsRightly(w) ==
  /\ w.at \in {"fetch", "answer"} /\ w.right => w.key = Key(inForce, serving)
  /\ w.at = "answer" /\ w.right => w.list = ListNow(inForce, serving)
  /\ w.at = "call" /\ w.right /\ w.tool \in ListedIn[serving] => MayUse(inForce, serving, w.tool)

ToolsIInv ==
  /\ ToolsTyped
  /\ KeptIsRight
  /\ \A a \in Askers : WaitsRightly(awaited[a])
  /\ ToolsAllowed

\* The key of a list says everything that the list depends on.
LEMMA KeyDetermines ==
  ASSUME ProfileToolsAssumption,
         NEW s \in AllSettings, NEW v \in Versions, NEW r \in AllSettings, NEW w \in Versions,
         Key(s, v) = Key(r, w)
  PROVE  WantedList(s, v) = WantedList(r, w)
<1>1. v = w /\ s.mode = r.mode /\ s.control = r.control /\ s.shared \cap s.own = r.shared \cap r.own
  BY DEF Key
<1>2. \A t \in ListedIn[v] : KindNow(v, t) = KindOf[t]
  BY DEF KindNow
<1>3. ASSUME NEW t
      PROVE  /\ t \in WantedList(s, v) =>
                  /\ t \in ListedIn[v] /\ KindOf[t] \in {"core"} \cup (s.shared \cap s.own)
                  /\ s.control \/ t \in ReadingIn[v]
                  /\ s.mode = "light" => t \in Base
             /\ t \in WantedList(r, w) =>
                  /\ t \in ListedIn[v] /\ KindOf[t] \in {"core"} \cup (r.shared \cap r.own)
                  /\ r.control \/ t \in ReadingIn[v]
                  /\ r.mode = "light" => t \in Base
  BY <1>1, <1>2 DEF WantedList, Filtered, ListNow, Configured, Served
<1>4. ASSUME NEW t \in ListedIn[v], KindOf[t] \in {"core"} \cup (s.shared \cap s.own),
             s.control \/ t \in ReadingIn[v], s.mode = "light" => t \in Base
      PROVE  t \in WantedList(s, v) /\ t \in WantedList(r, w)
  BY <1>1, <1>2, <1>4 DEF WantedList, Filtered, ListNow, Configured, Served
<1> QED BY <1>1, <1>3, <1>4

LEMMA ToolsInitSound == ProfileToolsAssumption /\ ProfileToolsInit => ToolsIInv
  BY DEF ProfileToolsAssumption, ProfileToolsInit, ToolsIInv, ToolsTyped, ToolWaits, Resting,
         KeptIsRight, WaitsRightly, ToolsAllowed, SeesWhatIsAllowed, RunsWhatIsAllowed

LEMMA RestsRightly == Resting \in ToolWaits /\ Resting.at = "rest" /\ WaitsRightly(Resting)
  BY DEF Resting, ToolWaits, WaitsRightly

\* A change disturbs everybody who waits.
LEMMA ChangeStep ==
  ASSUME ProfileToolsAssumption, ToolsIInv, ChooseSettings \/ ReloadTools
  PROVE  ToolsIInv'
<1>1. inForce' \in AllSettings /\ serving' \in Versions /\ Changed
  BY DEF ChooseSettings, ReloadTools, ToolsIInv, ToolsTyped
<1>2. \A a \in Askers : /\ awaited'[a] \in ToolWaits
                        /\ awaited'[a].at # "rest" => awaited'[a].right = FALSE
  <2> TAKE a \in Askers
  <2>1. awaited'[a] = IF awaited[a].at = "rest" THEN Resting ELSE [awaited[a] EXCEPT !.right = FALSE]
    BY <1>1 DEF Changed
  <2>2. awaited[a] \in ToolWaits
    BY DEF ToolsIInv, ToolsTyped
  <2>3. CASE awaited[a].at = "rest"
    BY <2>1, <2>3, RestsRightly
  <2>4. CASE awaited[a] \in [at : {"fetch"}, key : ToolKeys, right : BOOLEAN]
    <3>1. awaited'[a] \in [at : {"fetch"}, key : ToolKeys, right : BOOLEAN] /\ awaited'[a].right = FALSE
      BY <2>1, <2>4
    <3> QED BY <3>1 DEF ToolWaits
  <2>5. CASE awaited[a] \in [at : {"answer"}, key : ToolKeys, right : BOOLEAN, list : ToolLists]
    <3>1. awaited'[a] \in [at : {"answer"}, key : ToolKeys, right : BOOLEAN, list : ToolLists] /\ awaited'[a].right = FALSE
      BY <2>1, <2>5
    <3> QED BY <3>1 DEF ToolWaits
  <2>6. CASE awaited[a] \in [at : {"call"}, tool : ToolNames, right : BOOLEAN]
    <3>1. awaited'[a] \in [at : {"call"}, tool : ToolNames, right : BOOLEAN] /\ awaited'[a].right = FALSE
      BY <2>1, <2>6
    <3> QED BY <3>1 DEF ToolWaits
  <2> QED BY <2>2, <2>3, <2>4, <2>5, <2>6 DEF ToolWaits
<1>3. awaited' \in [Askers -> ToolWaits]
  BY <1>1, <1>2 DEF Changed
<1>4. KeptIsRight'
  BY <1>1 DEF ToolsIInv, Changed, KeptIsRight, WantedList, Filtered, ListNow, Configured, Served, Key, KindNow
<1>5. \A a \in Askers : WaitsRightly(awaited[a])'
  BY <1>2 DEF WaitsRightly
<1>6. ToolsAllowed'
  BY <1>1 DEF Changed, Quiet, ToolsAllowed, SeesWhatIsAllowed, RunsWhatIsAllowed
<1> QED BY <1>1, <1>3, <1>4, <1>5, <1>6 DEF ToolsIInv, ToolsTyped

\* The others stay as they are while nothing changes.
LEMMA OneWaits ==
  ASSUME ToolsIInv, NEW a \in Askers, NEW w \in ToolWaits, WaitsRightly(w),
         awaited' = [awaited EXCEPT ![a] = w], UNCHANGED <<inForce, serving>>
  PROVE  ToolsTyped' /\ \A b \in Askers : WaitsRightly(awaited[b])'
<1>1. ToolsTyped' /\ \A b \in Askers : awaited'[b] = IF b = a THEN w ELSE awaited[b]
  BY DEF ToolsIInv, ToolsTyped
<1>2. \A b \in Askers : WaitsRightly(awaited'[b])
  BY <1>1 DEF ToolsIInv
<1>3. \A b \in Askers : WaitsRightly(awaited[b])'
  BY <1>2, Zenon DEF WaitsRightly, Key, ListNow, MayUse, Served
<1> QED BY <1>1, <1>3

LEMMA KeptStays == ASSUME ToolsIInv, UNCHANGED toolCache PROVE KeptIsRight'
  BY DEF ToolsIInv, KeptIsRight, WantedList, Filtered, ListNow, Configured, Served, Key, KindNow

LEMMA QuietIsSound == Quiet => ToolsAllowed'
  BY DEF Quiet, ToolsAllowed, SeesWhatIsAllowed, RunsWhatIsAllowed

\* What is told is sound if it is right or says that it may not be.
LEMMA ToldIsSound ==
  ASSUME NEW list, NEW right \in BOOLEAN, Tell(list, right),
         right => list = WantedList(inForce, serving)
  PROVE  ToolsAllowed'
  BY DEF Tell, WantedList, ToolsAllowed, SeesWhatIsAllowed, RunsWhatIsAllowed

LEMMA NobodyMoves ==
  ASSUME ToolsIInv, UNCHANGED <<inForce, serving, awaited>>
  PROVE  ToolsTyped' /\ \A a \in Askers : WaitsRightly(awaited[a])'
  BY DEF ToolsIInv, ToolsTyped, WaitsRightly, Key, ListNow, Served, MayUse

LEMMA AskForToolsStep ==
  ASSUME ProfileToolsAssumption, ToolsIInv, NEW a \in Askers, AskForTools(a)
  PROVE  ToolsIInv'
<1> DEFINE key == Key(inForce, serving)
           w == [at |-> "fetch", key |-> key, right |-> TRUE]
<1>0. inForce \in AllSettings /\ serving \in Versions
  BY DEF ToolsIInv, ToolsTyped
<1>1. CASE KeptFor(key) /\ ~toolCache.old
  <2>1. Tell(toolCache.list, toolCache.right) /\ UNCHANGED <<inForce, serving, toolCache, awaited>>
    BY <1>1 DEF AskForTools
  <2>2. toolCache.right => toolCache.list = WantedList(inForce, serving)
    BY <1>0, <1>1 DEF ToolsIInv, KeptIsRight, KeptFor
  <2>3. ToolsAllowed'
    BY <2>1, <2>2 DEF Tell, WantedList, ToolsAllowed, SeesWhatIsAllowed, RunsWhatIsAllowed
  <2> QED BY <2>1, <2>3, NobodyMoves, KeptStays DEF ToolsIInv
<1>2. CASE ~(KeptFor(key) /\ ~toolCache.old)
  <2>1. Quiet /\ awaited' = [awaited EXCEPT ![a] = w] /\ UNCHANGED <<inForce, serving, toolCache>>
    BY <1>2 DEF AskForTools
  <2>2. w \in ToolWaits /\ WaitsRightly(w)
    BY <1>0 DEF ToolWaits, ToolKeys, WaitsRightly
  <2> HIDE DEF w
  <2> QED BY <2>1, <2>2, OneWaits, KeptStays, QuietIsSound DEF ToolsIInv
<1> QED BY <1>1, <1>2

LEMMA ServerListsStep ==
  ASSUME ProfileToolsAssumption, ToolsIInv, NEW a \in Askers, ServerLists(a)
  PROVE  ToolsIInv'
<1> DEFINE w == [at |-> "answer", key |-> awaited[a].key, right |-> awaited[a].right,
                 list |-> ListNow(inForce, serving)]
<1>1. awaited[a].at = "fetch" /\ awaited[a] \in ToolWaits /\ WaitsRightly(awaited[a])
      /\ inForce \in AllSettings /\ serving \in Versions
  BY DEF ServerLists, ToolsIInv, ToolsTyped
<1>2. ListNow(inForce, serving) \in ToolLists
  BY <1>1 DEF ListNow, Served, ToolLists, ProfileToolsAssumption
<1>3. w \in ToolWaits /\ WaitsRightly(w)
  BY <1>1, <1>2 DEF ToolWaits, WaitsRightly
<1>4. Quiet /\ awaited' = [awaited EXCEPT ![a] = w] /\ UNCHANGED <<inForce, serving, toolCache>>
  BY DEF ServerLists, ToolsIInv, ToolsTyped
<1> HIDE DEF w
<1> QED BY <1>3, <1>4, OneWaits, KeptStays, QuietIsSound DEF ToolsIInv

\* What is taken was listed and filtered by what the key says.
LEMMA TakeListStep ==
  ASSUME ProfileToolsAssumption, ToolsIInv, NEW a \in Askers, TakeList(a)
  PROVE  ToolsIInv'
<1> DEFINE list == Filtered(inForce, serving, awaited[a].list)
           key == awaited[a].key
           right == awaited[a].right
<1>1. /\ awaited[a].at = "answer" /\ awaited[a] \in ToolWaits /\ WaitsRightly(awaited[a])
      /\ inForce \in AllSettings /\ serving \in Versions
  BY DEF TakeList, ToolsIInv, ToolsTyped
<1>2. /\ toolCache' = [list |-> list, key |-> key, old |-> FALSE, right |-> right]
      /\ Tell(list, right)
      /\ awaited' = [awaited EXCEPT ![a] = Resting] /\ UNCHANGED <<inForce, serving>>
  BY DEF TakeList
<1>3. right \in BOOLEAN /\ (right => key = Key(inForce, serving) /\ list = WantedList(inForce, serving))
  BY <1>1 DEF ToolWaits, WaitsRightly, WantedList
<1>7. list \in SUBSET ToolNames /\ key \in ToolKeys /\ right \in BOOLEAN
  BY <1>1 DEF ToolWaits, ToolLists, Filtered
<1>4. ToolsAllowed'
  <2> HIDE DEF list, right
  <2> QED BY <1>2, <1>3, ToldIsSound
<1>5. KeptIsRight'
  <2> HIDE DEF list, key, right
  <2>1. ASSUME right, NEW s \in AllSettings, NEW v \in Versions, Key(s, v) = key
        PROVE  list = WantedList(s, v)
    BY <1>1, <1>3, <2>1, KeyDetermines
  <2>2. toolCache'.right = right /\ toolCache'.key = key /\ toolCache'.list = list
    BY <1>2
  <2>4. toolCache' \in [list : SUBSET ToolNames, key : ToolKeys, old : BOOLEAN, right : BOOLEAN]
    BY <1>2, <1>7
  <2>3. \A s, v : Key(s, v)' = Key(s, v) /\ WantedList(s, v)' = WantedList(s, v)
    BY DEF Key, WantedList, Filtered, ListNow, Configured, Served, KindNow
  <2>5. ToolKeys' = ToolKeys
    BY DEF ToolKeys, Key
  <2> QED BY <2>1, <2>2, <2>3, <2>4, <2>5 DEF KeptIsRight
<1> QED BY <1>2, <1>4, <1>5, OneWaits, RestsRightly DEF ToolsIInv

LEMMA FetchFailsStep ==
  ASSUME ProfileToolsAssumption, ToolsIInv, NEW a \in Askers, FetchFails(a)
  PROVE  ToolsIInv'
<1>1. /\ awaited[a].at \in {"fetch", "answer"} /\ WaitsRightly(awaited[a])
      /\ inForce \in AllSettings /\ serving \in Versions
      /\ awaited' = [awaited EXCEPT ![a] = Resting] /\ UNCHANGED <<inForce, serving, toolCache>>
  BY DEF FetchFails, ToolsIInv, ToolsTyped
<1>2. CASE KeptFor(awaited[a].key)
  <2>1. Tell(toolCache.list, toolCache.right /\ awaited[a].right)
    BY <1>2 DEF FetchFails
  <2>2. toolCache.right /\ awaited[a].right => toolCache.list = WantedList(inForce, serving)
    BY <1>1, <1>2 DEF WaitsRightly, KeptFor, ToolsIInv, KeptIsRight
  <2> QED BY <1>1, <2>1, <2>2, ToldIsSound, OneWaits, RestsRightly, KeptStays DEF ToolsIInv
<1>3. CASE ~KeptFor(awaited[a].key)
  <2>1. Tell(Absent, FALSE)
    BY <1>3 DEF FetchFails
  <2> QED BY <1>1, <2>1, ToldIsSound, OneWaits, RestsRightly, KeptStays DEF ToolsIInv
<1> QED BY <1>2, <1>3

LEMMA CallToolStep ==
  ASSUME ProfileToolsAssumption, ToolsIInv, NEW a \in Askers, CallTool(a)
  PROVE  ToolsIInv'
<1>1. PICK t \in ToolNames, remembered \in BOOLEAN :
        /\ Configured(inForce, serving, t)
        /\ inForce.control \/ (IF t \in ListedIn[serving] THEN t \in ReadingIn[serving] ELSE remembered)
        /\ awaited' = [awaited EXCEPT ![a] = [at |-> "call", tool |-> t, right |-> TRUE]]
  BY DEF CallTool
<1> DEFINE w == [at |-> "call", tool |-> t, right |-> TRUE]
<1>2. w \in ToolWaits /\ WaitsRightly(w)
  BY <1>1 DEF ToolWaits, WaitsRightly, MayUse, Configured, KindNow
<1>3. Quiet /\ awaited' = [awaited EXCEPT ![a] = w] /\ UNCHANGED <<inForce, serving, toolCache>>
  BY <1>1 DEF CallTool
<1> HIDE DEF w
<1> QED BY <1>2, <1>3, OneWaits, KeptStays, QuietIsSound DEF ToolsIInv

LEMMA CallEndsStep ==
  ASSUME ProfileToolsAssumption, ToolsIInv, NEW a \in Askers, CallEnds(a)
  PROVE  ToolsIInv'
<1>1. /\ awaited[a].at = "call" /\ WaitsRightly(awaited[a])
      /\ awaited' = [awaited EXCEPT ![a] = Resting] /\ UNCHANGED <<inForce, serving, toolCache>>
  BY DEF CallEnds, ToolsIInv, ToolsTyped
<1>2. ToolsAllowed'
  <2>1. CASE Quiet
    BY <2>1, QuietIsSound
  <2>2. CASE /\ awaited[a].tool \in Served(inForce, serving)
             /\ lastRun' = [tool |-> awaited[a].tool, right |-> awaited[a].right,
                            allowed |-> MayUse(inForce, serving, awaited[a].tool)]
             /\ lastList' = Absent
    BY <1>1, <2>2 DEF WaitsRightly, Served, ToolsAllowed, SeesWhatIsAllowed, RunsWhatIsAllowed
  <2> QED BY <2>1, <2>2 DEF CallEnds
<1> QED BY <1>1, <1>2, OneWaits, RestsRightly, KeptStays DEF ToolsIInv

LEMMA ListAgesStep ==
  ASSUME ToolsIInv, ListAges
  PROVE  ToolsIInv'
<1>1. /\ toolCache # Absent /\ toolCache' = [toolCache EXCEPT !.old = TRUE]
      /\ Quiet /\ UNCHANGED <<inForce, serving, awaited>>
  BY DEF ListAges
<1>2. /\ toolCache'.key = toolCache.key /\ toolCache'.list = toolCache.list
      /\ toolCache'.right = toolCache.right
      /\ toolCache' \in [list : SUBSET ToolNames, key : ToolKeys, old : BOOLEAN, right : BOOLEAN]
  <2>1. toolCache \in [list : SUBSET ToolNames, key : ToolKeys, old : BOOLEAN, right : BOOLEAN]
    BY <1>1 DEF ToolsIInv, KeptIsRight
  <2> QED BY <1>1, <2>1
<1>3. \A s, v : Key(s, v)' = Key(s, v) /\ WantedList(s, v)' = WantedList(s, v)
  BY DEF Key, WantedList, Filtered, ListNow, Configured, Served, KindNow
<1>5. ToolKeys' = ToolKeys
  BY DEF ToolKeys, Key
<1>4. KeptIsRight'
  BY <1>1, <1>2, <1>3, <1>5 DEF ToolsIInv, KeptIsRight
<1> QED BY <1>1, <1>4, NobodyMoves, QuietIsSound DEF ToolsIInv

\* Whatever tools, settings and versions there are, and however many requests and
\* changes: what a profile sees and what runs is what its settings allow.
THEOREM ToolsAreAllowed == ASSUME ProfileToolsAssumption PROVE ProfileToolsSpec => []ToolsAllowed
<1>1. ProfileToolsInit => ToolsIInv
  BY ToolsInitSound
<1>2. ToolsIInv /\ [ProfileToolsNext]_profileToolVars => ToolsIInv'
  <2>1. ToolsAllowed /\ UNCHANGED profileToolVars => ToolsAllowed'
    BY DEF profileToolVars, ToolsAllowed, SeesWhatIsAllowed, RunsWhatIsAllowed
  <2>2. ToolsIInv /\ UNCHANGED profileToolVars => ToolsIInv'
    BY <2>1, KeptStays, NobodyMoves DEF profileToolVars, ToolsIInv
  <2> QED BY <2>2, ChangeStep, ListAgesStep, AskForToolsStep, ServerListsStep, TakeListStep,
             FetchFailsStep, CallToolStep, CallEndsStep DEF ProfileToolsNext
<1>3. ToolsIInv => ToolsAllowed
  BY DEF ToolsIInv
<1> QED BY <1>1, <1>2, <1>3, PTL DEF ProfileToolsSpec
=============================================================================
