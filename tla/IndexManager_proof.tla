------------------------- MODULE IndexManager_proof -------------------------
(***************************************************************************)
(* IndexManager, for any number of readers, prompts and registry changes:  *)
(* the inductive invariant and the safety properties that follow from it.  *)
(* At the end, what Operations does for any home and any message to the    *)
(* server, whatever else happens.                                          *)
(***************************************************************************)
EXTENDS IndexManager, Operations, FiniteSetTheorems, SequenceTheorems, TLAPS

\* Nothing is built, running or remembered at the start.
LEMMA InitIInv == Init => IInv
<1> SUFFICES ASSUME Init PROVE IInv
  OBVIOUS
<1> USE IndexAssumption DEF Init, IInv, Builders, NoIndex
<1>1. TypeOK
  <2>1. inference \in Attempts /\ billed \in Attempts
    BY DEF Attempts, NoAttempt
  <2>2. pc \in [Builders -> Building \cup {"idle", "wantLock", "sleep"}]
    BY DEF Building
  <2>3. snapshot \in [Builders -> 0 .. MaxChanges]
    OBVIOUS
  <2>4. prompt \in [Builders -> Prompts \cup {NoPrompt}]
    OBVIOUS
  <2>5. firstGenerated \in BOOLEAN /\ gapFillScheduled \in BOOLEAN /\ refreshPending \in BOOLEAN
    OBVIOUS
  <2> QED
    BY <2>1, <2>2, <2>3, <2>4, <2>5 DEF TypeOK
<1>2. OneBuilder
  BY DEF OneBuilder, Building
<1>3. IndexFirst /\ Newer
  BY DEF IndexFirst, Newer
<1>4. Remembered
  BY DEF Remembered
<1> QED
  BY <1>1, <1>2, <1>3, <1>4

\* A reader that finds no index builds it or waits for the lock.
LEMMA GetIndexStep ==
  ASSUME IInv, NEW r \in Readers, GetIndex(r)
  PROVE  IInv'
<1> USE IndexAssumption DEF IInv, GetIndex, StartBuild, LockFree, vars, world, build, flags, Builders, NoIndex
<1>1. TypeOK'
  BY DEF TypeOK, Attempts, Building, NoAttempt
<1>2. OneBuilder'
  BY DEF TypeOK, OneBuilder, Building
<1>3. IndexFirst'
  BY DEF TypeOK, IndexFirst, OneBuilder, Building
<1>4. Newer'
  BY DEF TypeOK, Newer, IndexFirst, OneBuilder, Building
<1>5. Remembered'
  BY DEF TypeOK, Remembered, Attempts, OneBuilder, Building
<1> QED
  BY <1>1, <1>2, <1>3, <1>4, <1>5

\* A reader that is granted the lock builds, or returns and schedules the follow-up.
LEMMA ReaderLockedStep ==
  ASSUME IInv, NEW r \in Readers, ReaderLocked(r)
  PROVE  IInv'
<1> USE IndexAssumption DEF IInv, ReaderLocked, StartBuild, LockFree, EndGetIndex, WantsFollowUp, ScheduleRefresh, vars, world, build, flags, Builders, NoIndex
<1>1. TypeOK'
  <2>1. pc' \in [Builders -> Building \cup {"idle", "wantLock", "sleep"}]
    BY DEF TypeOK, Building
  <2>2. /\ registry' \in 0 .. MaxChanges /\ noticed' \in 0 .. MaxChanges
        /\ patterns' \in Prompts \cup {NoPrompt}
        /\ generateLock' \in Builders \cup {Nobody}
    BY DEF TypeOK
  <2>3. /\ index' \in 0 .. MaxChanges \cup {NoIndex}
        /\ snapshot' \in [Builders -> 0 .. MaxChanges]
        /\ prompt' \in [Builders -> Prompts \cup {NoPrompt}]
        /\ stop' \in {"no", "cancelling", "cancelled", "stopped"}
    BY DEF TypeOK
  <2>4. inference' \in Attempts /\ billed' \in Attempts
    BY DEF TypeOK, Attempts
  <2>5. /\ autoRefresh' \in BOOLEAN /\ gapFilling' \in BOOLEAN
        /\ firstGenerated' \in BOOLEAN /\ gapFillScheduled' \in BOOLEAN
    BY DEF TypeOK
  <2>6. refreshPending' \in BOOLEAN
    BY DEF TypeOK
  <2> QED
    BY <2>1, <2>2, <2>3, <2>4, <2>5, <2>6 DEF TypeOK
<1>2. OneBuilder'
  BY DEF TypeOK, OneBuilder, Building
<1>3. IndexFirst'
  BY DEF TypeOK, IndexFirst, OneBuilder, Building
<1>4. Newer'
  BY DEF TypeOK, Newer, IndexFirst, OneBuilder, Building
<1>5. Remembered'
  BY DEF TypeOK, Remembered, Attempts, OneBuilder, Building
<1> QED
  BY <1>1, <1>2, <1>3, <1>4, <1>5

\* The end of the debounce window starts a build, a wait or another window.
LEMMA WindowEndsStep ==
  ASSUME IInv, WindowEnds
  PROVE  IInv'
<1> USE IndexAssumption DEF IInv, WindowEnds, LoopRuns, StartBuild, LockFree, vars, world, build, flags, Builders, NoIndex
<1>1. TypeOK'
  <2>1. pc' \in [Builders -> Building \cup {"idle", "wantLock", "sleep"}]
    BY DEF TypeOK, Building
  <2>2. /\ registry' \in 0 .. MaxChanges /\ noticed' \in 0 .. MaxChanges
        /\ patterns' \in Prompts \cup {NoPrompt}
        /\ generateLock' \in Builders \cup {Nobody}
    BY DEF TypeOK
  <2>3. /\ index' \in 0 .. MaxChanges \cup {NoIndex}
        /\ snapshot' \in [Builders -> 0 .. MaxChanges]
        /\ prompt' \in [Builders -> Prompts \cup {NoPrompt}]
        /\ stop' \in {"no", "cancelling", "cancelled", "stopped"}
    BY DEF TypeOK
  <2>4. inference' \in Attempts /\ billed' \in Attempts
    BY DEF TypeOK, Attempts
  <2>5. /\ autoRefresh' \in BOOLEAN /\ gapFilling' \in BOOLEAN
        /\ firstGenerated' \in BOOLEAN /\ gapFillScheduled' \in BOOLEAN
    BY DEF TypeOK
  <2>6. refreshPending' \in BOOLEAN
    BY DEF TypeOK
  <2> QED
    BY <2>1, <2>2, <2>3, <2>4, <2>5, <2>6 DEF TypeOK
<1>2. OneBuilder'
  BY DEF TypeOK, OneBuilder, Building
<1>3. IndexFirst'
  BY DEF TypeOK, IndexFirst, OneBuilder, Building
<1>4. Newer'
  BY DEF TypeOK, Newer, IndexFirst, OneBuilder, Building
<1>5. Remembered'
  BY DEF TypeOK, Remembered, Attempts, OneBuilder, Building
<1> QED
  BY <1>1, <1>2, <1>3, <1>4, <1>5

\* The loop that is granted the lock starts its build.
LEMMA LoopLockedStep ==
  ASSUME IInv, LoopLocked
  PROVE  IInv'
<1> USE IndexAssumption DEF IInv, LoopLocked, LoopRuns, StartBuild, LockFree, vars, world, build, flags, Builders, NoIndex
<1>1. TypeOK'
  BY DEF TypeOK, Attempts, Building, NoAttempt
<1>2. OneBuilder'
  BY DEF TypeOK, OneBuilder, Building
<1>3. IndexFirst'
  BY DEF TypeOK, IndexFirst, OneBuilder, Building
<1>4. Newer'
  BY DEF TypeOK, Newer, IndexFirst, OneBuilder, Building
<1>5. Remembered'
  BY DEF TypeOK, Remembered, Attempts, OneBuilder, Building
<1> QED
  BY <1>1, <1>2, <1>3, <1>4, <1>5

\* What a build reads is as new as the index, which is no newer than the registries.
LEMMA GatheredStep ==
  ASSUME IInv, NEW t \in Builders, Gathered(t)
  PROVE  IInv'
<1> USE IndexAssumption DEF IInv, Gathered, vars, world, build, flags, Builders, NoIndex
<1>1. TypeOK'
  BY DEF TypeOK, Attempts, Building, NoAttempt
<1>2. OneBuilder'
  BY DEF TypeOK, OneBuilder, Building
<1>3. IndexFirst'
  BY DEF TypeOK, IndexFirst, OneBuilder, Building
<1>4. Newer'
  BY DEF TypeOK, Newer, IndexFirst, OneBuilder, Building
<1>5. Remembered'
  BY DEF TypeOK, Remembered, Attempts, OneBuilder, Building
<1> QED
  BY <1>1, <1>2, <1>3, <1>4, <1>5

\* An inference starts after the first index, and is the call that is billed last.
LEMMA AskLLMStep ==
  ASSUME IInv, NEW t \in Builders, AskLLM(t)
  PROVE  IInv'
<1> USE IndexAssumption DEF IInv, AskLLM, NeedsLLM, vars, world, build, flags, Builders, NoIndex
<1>1. TypeOK'
  BY DEF TypeOK, Attempts, Building, NoAttempt
<1>2. OneBuilder'
  BY DEF TypeOK, OneBuilder, Building
<1>3. IndexFirst'
  BY DEF TypeOK, IndexFirst, OneBuilder, Building
<1>4. Newer'
  BY DEF TypeOK, Newer, IndexFirst, OneBuilder, Building
<1>5. Remembered'
  BY DEF TypeOK, Remembered, Attempts, OneBuilder, Building
<1> QED
  BY <1>1, <1>2, <1>3, <1>4, <1>5

\* Storing an index gives the lock back; the index is the build's snapshot.
LEMMA StoreWithoutLLMStep ==
  ASSUME IInv, NEW t \in Builders, StoreWithoutLLM(t)
  PROVE  IInv'
<1> USE IndexAssumption DEF IInv, StoreWithoutLLM, Store, EndGetIndex, LoopHead, WantsFollowUp, ScheduleRefresh, vars, world, build, flags, Builders, NoIndex
<1>1. TypeOK'
  <2>1. pc' \in [Builders -> Building \cup {"idle", "wantLock", "sleep"}]
    BY DEF TypeOK, Building
  <2>2. /\ registry' \in 0 .. MaxChanges /\ noticed' \in 0 .. MaxChanges
        /\ patterns' \in Prompts \cup {NoPrompt}
        /\ generateLock' \in Builders \cup {Nobody}
    BY DEF TypeOK
  <2>3. /\ index' \in 0 .. MaxChanges \cup {NoIndex}
        /\ snapshot' \in [Builders -> 0 .. MaxChanges]
        /\ prompt' \in [Builders -> Prompts \cup {NoPrompt}]
        /\ stop' \in {"no", "cancelling", "cancelled", "stopped"}
    BY DEF TypeOK
  <2>4. inference' \in Attempts /\ billed' \in Attempts
    BY DEF TypeOK, Attempts
  <2>5. /\ autoRefresh' \in BOOLEAN /\ gapFilling' \in BOOLEAN
        /\ firstGenerated' \in BOOLEAN /\ gapFillScheduled' \in BOOLEAN
    BY DEF TypeOK
  <2>6. refreshPending' \in BOOLEAN
    BY DEF TypeOK
  <2> QED
    BY <2>1, <2>2, <2>3, <2>4, <2>5, <2>6 DEF TypeOK
<1>2. OneBuilder'
  BY DEF TypeOK, OneBuilder, Building
<1>3. IndexFirst'
  BY DEF TypeOK, IndexFirst, OneBuilder, Building
<1>4. Newer'
  <2>1. \A u \in Builders : pc'[u] \notin Building
    BY <1>2 DEF OneBuilder
  <2>2. index' <= registry'
    BY DEF Newer, TypeOK
  <2> QED
    BY <2>1, <2>2 DEF Newer, Building
<1>5. Remembered'
  BY DEF TypeOK, Remembered, Attempts, OneBuilder, Building
<1> QED
  BY <1>1, <1>2, <1>3, <1>4, <1>5

\* Storing after an inference, whose result is the one that is billed and cached.
LEMMA LLMAnswersStep ==
  ASSUME IInv, NEW t \in Builders, NEW ok \in BOOLEAN, LLMAnswers(t, ok)
  PROVE  IInv'
<1> USE IndexAssumption DEF IInv, LLMAnswers, Store, EndGetIndex, LoopHead, WantsFollowUp, ScheduleRefresh, vars, world, build, flags, Builders, NoIndex
<1>1. TypeOK'
  <2>1. pc' \in [Builders -> Building \cup {"idle", "wantLock", "sleep"}]
    BY DEF TypeOK, Building
  <2>2. /\ registry' \in 0 .. MaxChanges /\ noticed' \in 0 .. MaxChanges
        /\ patterns' \in Prompts \cup {NoPrompt}
        /\ generateLock' \in Builders \cup {Nobody}
    BY DEF TypeOK
  <2>3. /\ index' \in 0 .. MaxChanges \cup {NoIndex}
        /\ snapshot' \in [Builders -> 0 .. MaxChanges]
        /\ prompt' \in [Builders -> Prompts \cup {NoPrompt}]
        /\ stop' \in {"no", "cancelling", "cancelled", "stopped"}
    BY DEF TypeOK
  <2>4. inference' \in Attempts /\ billed' \in Attempts
    BY DEF TypeOK, Attempts
  <2>5. /\ autoRefresh' \in BOOLEAN /\ gapFilling' \in BOOLEAN
        /\ firstGenerated' \in BOOLEAN /\ gapFillScheduled' \in BOOLEAN
    BY DEF TypeOK
  <2>6. refreshPending' \in BOOLEAN
    BY DEF TypeOK
  <2> QED
    BY <2>1, <2>2, <2>3, <2>4, <2>5, <2>6 DEF TypeOK
<1>2. OneBuilder'
  BY DEF TypeOK, OneBuilder, Building
<1>3. IndexFirst'
  BY DEF TypeOK, IndexFirst, OneBuilder, Building
<1>4. Newer'
  <2>1. \A u \in Builders : pc'[u] \notin Building
    BY <1>2 DEF OneBuilder
  <2>2. index' <= registry'
    BY DEF Newer, TypeOK
  <2> QED
    BY <2>1, <2>2 DEF Newer, Building
<1>5. Remembered'
  <2>1. \A u \in Builders : pc'[u] # "llm"
    BY <1>2 DEF OneBuilder, Building
  <2>2. stop = "no" => billed.prompt = prompt[t] /\ billed.recent
    BY DEF Remembered
  <2>3. stop = "no" => billed.recent = TRUE
    BY <2>2 DEF TypeOK, Attempts
  <2>4. /\ billed' = [prompt |-> billed.prompt, ok |-> ok, recent |-> billed.recent]
        /\ inference' = [prompt |-> prompt[t], ok |-> ok, recent |-> TRUE]
    BY DEF TypeOK, Attempts
  <2>5. stop = "no" => billed' = inference'
    BY <2>2, <2>3, <2>4
  <2> QED
    BY <2>1, <2>5 DEF Remembered
<1> QED
  BY <1>1, <1>2, <1>3, <1>4, <1>5

\* A change makes the registries newer and may start the loop.
LEMMA RegistryChangesStep ==
  ASSUME IInv, RegistryChanges
  PROVE  IInv'
<1> USE IndexAssumption DEF IInv, RegistryChanges, ScheduleRefresh, vars, world, build, flags, Builders, NoIndex
<1>1. TypeOK'
  <2>1. pc' \in [Builders -> Building \cup {"idle", "wantLock", "sleep"}]
    BY DEF TypeOK, Building
  <2>2. /\ registry' \in 0 .. MaxChanges /\ noticed' \in 0 .. MaxChanges
        /\ patterns' \in Prompts \cup {NoPrompt}
        /\ generateLock' \in Builders \cup {Nobody}
    BY DEF TypeOK
  <2>3. /\ index' \in 0 .. MaxChanges \cup {NoIndex}
        /\ snapshot' \in [Builders -> 0 .. MaxChanges]
        /\ prompt' \in [Builders -> Prompts \cup {NoPrompt}]
        /\ stop' \in {"no", "cancelling", "cancelled", "stopped"}
    BY DEF TypeOK
  <2>4. inference' \in Attempts /\ billed' \in Attempts
    BY DEF TypeOK, Attempts
  <2>5. /\ autoRefresh' \in BOOLEAN /\ gapFilling' \in BOOLEAN
        /\ firstGenerated' \in BOOLEAN /\ gapFillScheduled' \in BOOLEAN
    BY DEF TypeOK
  <2>6. refreshPending' \in BOOLEAN
    BY DEF TypeOK
  <2> QED
    BY <2>1, <2>2, <2>3, <2>4, <2>5, <2>6 DEF TypeOK
<1>2. OneBuilder'
  BY DEF TypeOK, OneBuilder, Building
<1>3. IndexFirst'
  BY DEF TypeOK, IndexFirst, OneBuilder, Building
<1>4. Newer'
  BY DEF TypeOK, Newer, IndexFirst, OneBuilder, Building
<1>5. Remembered'
  BY DEF TypeOK, Remembered, Attempts, OneBuilder, Building
<1> QED
  BY <1>1, <1>2, <1>3, <1>4, <1>5

\* Settings are no part of the invariant.
LEMMA SaveSettingsStep ==
  ASSUME IInv, SaveSettings
  PROVE  IInv'
<1> USE IndexAssumption DEF IInv, SaveSettings, vars, world, build, flags, Builders, NoIndex
<1>1. TypeOK'
  BY DEF TypeOK, Attempts, Building, NoAttempt
<1>2. OneBuilder'
  BY DEF TypeOK, OneBuilder, Building
<1>3. IndexFirst'
  BY DEF TypeOK, IndexFirst, OneBuilder, Building
<1>4. Newer'
  BY DEF TypeOK, Newer, IndexFirst, OneBuilder, Building
<1>5. Remembered'
  BY DEF TypeOK, Remembered, Attempts, OneBuilder, Building
<1> QED
  BY <1>1, <1>2, <1>3, <1>4, <1>5

\* The cooldown of the cache and of the last call end together.
LEMMA CooldownEndsStep ==
  ASSUME IInv, CooldownEnds
  PROVE  IInv'
<1> USE IndexAssumption DEF IInv, CooldownEnds, vars, world, build, flags, Builders, NoIndex
<1>1. TypeOK'
  <2>1. pc' \in [Builders -> Building \cup {"idle", "wantLock", "sleep"}]
    BY DEF TypeOK, Building
  <2>2. /\ registry' \in 0 .. MaxChanges /\ noticed' \in 0 .. MaxChanges
        /\ patterns' \in Prompts \cup {NoPrompt}
        /\ generateLock' \in Builders \cup {Nobody}
    BY DEF TypeOK
  <2>3. /\ index' \in 0 .. MaxChanges \cup {NoIndex}
        /\ snapshot' \in [Builders -> 0 .. MaxChanges]
        /\ prompt' \in [Builders -> Prompts \cup {NoPrompt}]
        /\ stop' \in {"no", "cancelling", "cancelled", "stopped"}
    BY DEF TypeOK
  <2>4. inference' \in Attempts /\ billed' \in Attempts
    BY DEF TypeOK, Attempts
  <2>5. /\ autoRefresh' \in BOOLEAN /\ gapFilling' \in BOOLEAN
        /\ firstGenerated' \in BOOLEAN /\ gapFillScheduled' \in BOOLEAN
    BY DEF TypeOK
  <2>6. refreshPending' \in BOOLEAN
    BY DEF TypeOK
  <2> QED
    BY <2>1, <2>2, <2>3, <2>4, <2>5, <2>6 DEF TypeOK
<1>2. OneBuilder'
  BY DEF TypeOK, OneBuilder, Building
<1>3. IndexFirst'
  BY DEF TypeOK, IndexFirst, OneBuilder, Building
<1>4. Newer'
  BY DEF TypeOK, Newer, IndexFirst, OneBuilder, Building
<1>5. Remembered'
  BY DEF TypeOK, Remembered, Attempts, OneBuilder, Building
<1> QED
  BY <1>1, <1>2, <1>3, <1>4, <1>5

\* Stopping only cancels the loop.
LEMMA StopStep ==
  ASSUME IInv, AsyncStop
  PROVE  IInv'
<1> USE IndexAssumption DEF IInv, AsyncStop, vars, world, build, flags, Builders, NoIndex
<1>1. TypeOK'
  BY DEF TypeOK, Attempts, Building, NoAttempt
<1>2. OneBuilder'
  BY DEF TypeOK, OneBuilder, Building
<1>3. IndexFirst'
  BY DEF TypeOK, IndexFirst, OneBuilder, Building
<1>4. Newer'
  BY DEF TypeOK, Newer, IndexFirst, OneBuilder, Building
<1>5. Remembered'
  BY DEF TypeOK, Remembered, Attempts, OneBuilder, Building
<1> QED
  BY <1>1, <1>2, <1>3, <1>4, <1>5

\* The cancelled loop gives up the lock it holds.
LEMMA LoopCancelledStep ==
  ASSUME IInv, LoopCancelled
  PROVE  IInv'
<1> USE IndexAssumption DEF IInv, LoopCancelled, vars, world, build, flags, Builders, NoIndex
<1>1. TypeOK'
  BY DEF TypeOK, Attempts, Building, NoAttempt
<1>2. OneBuilder'
  BY DEF TypeOK, OneBuilder, Building
<1>3. IndexFirst'
  BY DEF TypeOK, IndexFirst, OneBuilder, Building
<1>4. Newer'
  BY DEF TypeOK, Newer, IndexFirst, OneBuilder, Building
<1>5. Remembered'
  BY DEF TypeOK, Remembered, Attempts, OneBuilder, Building
<1> QED
  BY <1>1, <1>2, <1>3, <1>4, <1>5

\* The end of async_stop changes nothing else.
LEMMA StoppedStep ==
  ASSUME IInv, Stopped
  PROVE  IInv'
<1> USE IndexAssumption DEF IInv, Stopped, vars, world, build, flags, Builders, NoIndex
<1>1. TypeOK'
  BY DEF TypeOK, Attempts, Building, NoAttempt
<1>2. OneBuilder'
  BY DEF TypeOK, OneBuilder, Building
<1>3. IndexFirst'
  BY DEF TypeOK, IndexFirst, OneBuilder, Building
<1>4. Newer'
  BY DEF TypeOK, Newer, IndexFirst, OneBuilder, Building
<1>5. Remembered'
  BY DEF TypeOK, Remembered, Attempts, OneBuilder, Building
<1> QED
  BY <1>1, <1>2, <1>3, <1>4, <1>5

\* Every step keeps the invariant.
LEMMA StepIInv == IInv /\ [Next]_vars => IInv'
<1> SUFFICES ASSUME IInv, [Next]_vars PROVE IInv'
  OBVIOUS
<1>1. ASSUME NEW r \in Readers, GetIndex(r) PROVE IInv'
  BY <1>1, GetIndexStep
<1>2. ASSUME NEW r \in Readers, ReaderLocked(r) PROVE IInv'
  BY <1>2, ReaderLockedStep
<1>3. CASE WindowEnds
  BY <1>3, WindowEndsStep
<1>4. CASE LoopLocked
  BY <1>4, LoopLockedStep
<1>5. ASSUME NEW t \in Builders, Gathered(t) PROVE IInv'
  BY <1>5, GatheredStep
<1>6. ASSUME NEW t \in Builders, AskLLM(t) PROVE IInv'
  BY <1>6, AskLLMStep
<1>7. ASSUME NEW t \in Builders, StoreWithoutLLM(t) PROVE IInv'
  BY <1>7, StoreWithoutLLMStep
<1>8. ASSUME NEW t \in Builders, NEW ok \in BOOLEAN, LLMAnswers(t, ok) PROVE IInv'
  BY <1>8, LLMAnswersStep
<1>9. CASE RegistryChanges
  BY <1>9, RegistryChangesStep
<1>10. CASE SaveSettings
  BY <1>10, SaveSettingsStep
<1>11. CASE CooldownEnds
  BY <1>11, CooldownEndsStep
<1>12. CASE AsyncStop
  BY <1>12, StopStep
<1>13. CASE LoopCancelled
  BY <1>13, LoopCancelledStep
<1>14. CASE Stopped
  BY <1>14, StoppedStep
<1>15. CASE UNCHANGED vars
  BY <1>15 DEF IInv, vars, world, build, flags, TypeOK, OneBuilder, IndexFirst, Newer, Remembered
<1> QED
  BY <1>1, <1>2, <1>3, <1>4, <1>5, <1>6, <1>7, <1>8, <1>9, <1>10, <1>11, <1>12, <1>13, <1>14,
     <1>15 DEF Next, Build, Refresh, Shutdown

\* In every reachable state: the types, one builder at a time, an index
\* before any inference, builds newer than the index, a truthful cache.
THEOREM Invariance == Spec => []IInv
<1> QED
  BY InitIInv, StepIInv, PTL DEF Spec

\* Every variable of the index manager keeps its type.
THEOREM TypeCorrect == Spec => []TypeOK
<1>1. IInv => TypeOK
  BY DEF IInv
<1> QED
  BY <1>1, Invariance, PTL

\* The agent asked to infer types always finds an index for its own prompt,
\* so get_index never waits for the lock of the build that asks.
THEOREM ReentrantRead == Spec => []ReentrantReadReturns
<1>1. IInv => ReentrantReadReturns
  BY DEF IInv, IndexFirst, ReentrantReadReturns
<1> QED
  BY <1>1, Invariance, PTL

\* What the runs check of every state of the index manager: its types, and
\* that the re-entrant read of the inference returns.
THEOREM IndexIsSound == Spec => []IndexSound
<1>1. IInv => IndexSound
  BY DEF IInv, IndexFirst, ReentrantReadReturns, IndexSound
<1> QED
  BY <1>1, Invariance, PTL

\* The index never goes back to an older state of the registries.
THEOREM NeverOlder == Spec => IndexNeverOlder
<1>1. IInv /\ [Next]_vars => [index' >= index]_index
  <2> SUFFICES ASSUME IInv, Next, index' # index PROVE index' >= index
    BY DEF vars
  <2>1. ASSUME NEW t \in Builders, Store(t), pc[t] \in {"gathered", "llm"}
        PROVE  index' >= index
    BY <2>1 DEF IInv, TypeOK, Newer, Store, NoIndex
  <2>2. ASSUME NEW t \in Builders, Build(t) PROVE index' >= index
    BY <2>1, <2>2 DEF Build, Gathered, AskLLM, StoreWithoutLLM, LLMAnswers
  <2> QED
    BY <2>2 DEF Next, GetIndex, ReaderLocked, Refresh, WindowEnds, LoopLocked,
                RegistryChanges, SaveSettings, CooldownEnds, Shutdown, AsyncStop,
                LoopCancelled, Stopped
<1> QED
  BY <1>1, Invariance, PTL DEF Spec, IndexNeverOlder

\* Unchanged entity patterns never cost another LLM call, except after a
\* failure whose cooldown has passed.
THEOREM BilledOnce == Spec => NeverRebilled
<1> DEFINE Rightly == \A t \in Builders :
       AskLLM(t) /\ billed.prompt = prompt[t] /\ stop = "no" =>
         ~billed.ok /\ ~billed.recent
<1>1. IInv => Rightly
  BY DEF IInv, Remembered, AskLLM, NeedsLLM, Cached
<1>2. IInv /\ [Next]_vars => [Rightly]_vars
  BY <1>1
<1> QED
  BY <1>2, Invariance, PTL DEF Spec, NeverRebilled

-----------------------------------------------------------------------------
(* Operations *)

\* Each operation is told apart by its name.
LEMMA OperationsNamed ==
  ASSUME Operate
  PROVE  /\ request'.op = "serve" => ServeRequest
         /\ request'.op \in {"act", "respond", "run"} => CallService \/ CallForResponse \/ RunScript
<1>2. PrepareTools => request'.op = "prepare"
  BY DEF PrepareTools, Answer
<1>3. LoadTools => request'.op = "load"
  BY DEF LoadTools, Answer
<1>4. TalkToHermes => request'.op = "hermes"
  BY DEF TalkToHermes, Answer
<1>5. ReadCalls => request'.op = "calls"
  BY DEF ReadCalls, Answer
<1>6. ReadText => request'.op = "text"
  BY DEF ReadText, Answer
<1>7. AskAgain => request'.op = "ask"
  BY DEF AskAgain, Answer
<1>8. ChooseModel => request'.op = "model"
  BY DEF ChooseModel, Answer
<1>9. AnalyzeHistory => request'.op = "history"
  BY DEF AnalyzeHistory, Answer
<1>10. AnalyzeNumbers => request'.op = "history"
  BY DEF AnalyzeNumbers, Answer
<1>11. LastOf => request'.op = "last"
  <2>1. LastOf => \E h, args : request' = [op |-> "last", home |-> h, args |-> args]
    BY Zenon DEF LastOf, Answer
  <2> QED BY <2>1
<1>12. AskStatistics => request'.op = "statistics"
  BY DEF AskStatistics, Answer
<1>13. Observe => request'.op = "observe"
  BY DEF Observe, Answer
<1>14. AskForecast => request'.op = "forecast"
  BY DEF AskForecast, Answer
<1>15. AskCalendar => request'.op = "calendar"
  BY DEF AskCalendar, Answer
<1>16. Discover => request'.op = "discover"
  BY DEF Discover, Answer
<1>17. DiscoverDevices => request'.op = "devices"
  BY DEF DiscoverDevices, Answer
<1>18. CallService => request'.op = "act"
  BY DEF CallService, Answer
<1>19. CallForResponse => request'.op = "respond"
  BY DEF CallForResponse, Answer
<1>20. RunScript => request'.op = "run"
  BY DEF RunScript, Answer
<1>21. Done => request'.op = "none"
  BY DEF Done, Nothing
<1>22. ServeRequest => request'.op = "serve"
  BY DEF ServeRequest, Answer
<1> QED
  BY <1>2, <1>3, <1>4, <1>5, <1>6, <1>7, <1>8, <1>9, <1>10, <1>11, <1>12, <1>13, <1>14, <1>15, <1>16, <1>17, <1>18, <1>19, <1>20, <1>21, <1>22
     DEF Operate, AgentNext, TrafficNext, RecordNext

-----------------------------------------------------------------------------
(* Operations: messages to the server *)

\* Processing a message that has an id runs at most its own tool, and then the
\* reply is the tool's result or its failure; one without an id runs nothing.
LEMMA ProcessedOnce ==
  ASSUME NEW before, before.ran = <<>>,
         NEW after, after.ran = before.ran, after = [retained |-> after.retained, ran |-> after.ran],
         NEW r, NEW selection
  PROVE  LET ran == Processed(after, r, selection).ran
         IN  /\ Reply(r) \in {Result, -32601, -32602, -32603}
             /\ r.id = NoValue => ran = <<>>
             /\ ran # <<>> => Reply(r) \in {Result, -32603} /\ Len(ran) = 1
<1> DEFINE run == [id |-> r.id, selection |-> selection]
<1>1. Reply(r) \in {Result, -32601, -32602, -32603}
  BY DEF Reply
<1>2. Dispatched(r) => Reply(r) \in {Result, -32603}
  BY DEF Dispatched, Runs, Names, Reply
<1>3. Processed(after, r, selection).ran \in {<<>>, <<run>>}
  <2>1. [after EXCEPT !.ran = Append(@, run)].ran = Append(after.ran, run)
    OBVIOUS
  <2>2. [after EXCEPT !.ran = @].ran = after.ran
    OBVIOUS
  <2>3. Append(<<>>, run) = <<run>>
    OBVIOUS
  <2> HIDE DEF run
  <2> QED BY <2>1, <2>2, <2>3 DEF Processed, run
<1>4. Processed(after, r, selection).ran # <<>> => Dispatched(r) /\ r.id # NoValue
  BY DEF Processed
<1>5. Len(<<run>>) = 1
  OBVIOUS
<1> HIDE DEF run
<1> QED BY <1>1, <1>2, <1>3, <1>4, <1>5

\* Whatever the message, the settings and the selections that are retained, the
\* message is answered once, as AnsweredOnce says.
THEOREM MessagesAnswered ==
  ASSUME NEW settings, NEW before, NEW r,
         before = [retained |-> before.retained, ran |-> <<>>],
         r.surface \in {"http", "socket"}, r.body \in {"object", "broken", "list"}
  PROVE  LET served == Serve(settings, before, r)
         IN  AnsweredOnce(settings, r, served.answer, served.server.ran)
<1> DEFINE served == Serve(settings, before, r)
           a == served.answer
           ran == served.server.ran
           letIn == Refusal(settings, r) = NoAnswer
           taken == Discard(before, r.token)
<1> SUFFICES AnsweredOnce(settings, r, a, ran)
  OBVIOUS
<1>0. NoValue \notin Int
  BY AbsentAssumption
<1>1. \A s, c, i : /\ Answered(s, c, i).status = s /\ Answered(s, c, i).code = c
                   /\ Answered(s, c, i).id = i
  BY DEF Answered
<1>2. NoAnswer.status = NoValue /\ NoAnswer.code = NoValue /\ NoAnswer.id = NoValue
  BY <1>1 DEF NoAnswer
<1>3. before.ran = <<>> /\ taken.ran = <<>>
      /\ taken = [retained |-> taken.retained, ran |-> taken.ran]
      /\ before = [retained |-> before.retained, ran |-> before.ran]
  <2> DEFINE kept == before.retained
             gone == Retained(before, r.token)
  <2>1. taken = [before EXCEPT !.retained = @ \ gone]
    BY DEF Discard
  <2>2. before = [retained |-> kept, ran |-> <<>>]
    OBVIOUS
  <2> HIDE DEF kept, gone, taken
  <2>3. taken = [retained |-> kept \ gone, ran |-> <<>>]
    BY <2>1, <2>2
  <2> QED BY <2>2, <2>3
<1>4. CASE ~letIn
  <2>1. served = [server |-> before, answer |-> Refusal(settings, r)]
    BY <1>4 DEF Serve
  <2>2. Refusal(settings, r).status \in {401, 403} /\ Refusal(settings, r).id = NoValue
        /\ Refusal(settings, r).code \in {NoValue, -32000, -32001}
    BY <1>1, <1>4 DEF Refusal
  <2>3. a.status \in {401, 403} /\ a.id = NoValue /\ ran = <<>>
        /\ a.code \notin {-32600, -32601, -32602, -32700}
    BY <1>0, <1>3, <2>1, <2>2
  <2> HIDE DEF a, ran
  <2> QED BY <1>4, <2>3 DEF AnsweredOnce
<1>5. ASSUME letIn, r.body # "object", ran = <<>>, r.id = NoValue \/ r.id # NoValue
      PROVE  AnsweredOnce(settings, r, a, ran)
  BY <1>5 DEF AnsweredOnce
<1>6. CASE letIn /\ r.surface = "http"
  <2>1. served = HttpAnswer(before, r)
    BY <1>6 DEF Serve
  <2>2. CASE r.body # "object"
    <3>1. ran = <<>>
      BY <1>3, <2>1, <2>2 DEF HttpAnswer
    <3> QED BY <1>5, <1>6, <2>2, <3>1
  <2>3. CASE r.body = "object" /\ (~r.version \/ r.method = NoValue)
    <3>1. ran = <<>> /\ a = Answered(400, -32600, r.id)
      BY <1>3, <2>1, <2>3 DEF HttpAnswer
    <3>2. a.id = r.id /\ a.code = -32600 /\ -32600 # NoValue
      BY <1>0, <1>1, <3>1
    <3> HIDE DEF a, ran
    <3> QED BY <1>6, <2>3, <3>1, <3>2 DEF AnsweredOnce
  <2>4. CASE r.body = "object" /\ r.version /\ r.method # NoValue
             /\ r.token # NoValue /\ ~Fits(before, r)
    <3>1. ran = <<>> /\ a = Answered(400, -32600, r.id)
      BY <1>3, <2>1, <2>4 DEF HttpAnswer
    <3>2. a.id = r.id /\ a.code = -32600 /\ -32600 # NoValue
      BY <1>0, <1>1, <3>1
    <3> HIDE DEF a, ran
    <3> QED BY <1>6, <2>4, <3>1, <3>2 DEF AnsweredOnce
  <2>5. CASE r.body = "object" /\ r.version /\ r.method # NoValue
             /\ (r.token = NoValue \/ Fits(before, r))
    <3> DEFINE left == IF r.token = NoValue THEN before ELSE taken
               selection == IF r.token = NoValue THEN NoValue ELSE r.entry
               ran1 == Processed(left, r, selection).ran
    <3>1. /\ ran = ran1
          /\ a = IF r.id = NoValue THEN Answered(204, NoValue, NoValue)
                 ELSE Answered(200, Reply(r), r.id)
      BY <2>1, <2>5 DEF HttpAnswer
    <3>2. left.ran = before.ran /\ left = [retained |-> left.retained, ran |-> left.ran]
      BY <1>3
    <3>3. /\ Reply(r) \in {Result, -32601, -32602, -32603}
          /\ r.id = NoValue => ran1 = <<>>
          /\ ran1 # <<>> => Reply(r) \in {Result, -32603} /\ Len(ran1) = 1
      <4> HIDE DEF left, selection
      <4> QED BY <1>3, <3>2, ProcessedOnce
    <3>4. Result \in Int
      BY DEF Result
    <3>5. /\ a.id = r.id
          /\ r.id = NoValue => a.code = NoValue
          /\ r.id # NoValue => a.code = Reply(r)
      BY <1>1, <3>1
    <3> HIDE DEF a, ran, ran1
    <3>6. ran # <<>> => r.id # NoValue /\ Reply(r) \in {0, -32603} /\ Len(ran) = 1
      BY <3>1, <3>3 DEF Result
    <3>7. r.id # NoValue => a.code \in Int /\ a.code # NoValue
      BY <1>0, <3>3, <3>4, <3>5
    <3> QED BY <1>0, <1>6, <3>3, <3>5, <3>6, <3>7, <3>1 DEF AnsweredOnce, Result
  <2> QED BY <2>2, <2>3, <2>4, <2>5
<1>7. CASE letIn /\ r.surface = "socket"
  <2>1. served = SocketAnswer(before, r)
    BY <1>7 DEF Serve
  <2>2. CASE r.body # "object"
    <3>1. ran = <<>>
      BY <1>3, <2>1, <2>2 DEF SocketAnswer
    <3> QED BY <1>5, <1>7, <2>2, <3>1
  <2>3. CASE r.body = "object"
    <3> DEFINE ran1 == Processed(before, r, NoValue).ran
    <3>1. ran = ran1 /\ a = IF r.id = NoValue THEN NoAnswer ELSE Answered(NoValue, Reply(r), r.id)
      BY <2>1, <2>3 DEF SocketAnswer
    <3>2. /\ Reply(r) \in {Result, -32601, -32602, -32603}
          /\ r.id = NoValue => ran1 = <<>>
          /\ ran1 # <<>> => Reply(r) \in {Result, -32603} /\ Len(ran1) = 1
      BY <1>3, ProcessedOnce
    <3>3. Result \in Int
      BY DEF Result
    <3>4. a.id = r.id /\ (r.id = NoValue => a.code = NoValue) /\ (r.id # NoValue => a.code = Reply(r))
      BY <1>1, <1>2, <3>1
    <3> HIDE DEF a, ran, ran1
    <3>5. ran # <<>> => r.id # NoValue /\ Reply(r) \in {0, -32603} /\ Len(ran) = 1
      BY <3>1, <3>2 DEF Result
    <3>6. r.id # NoValue => a.code \in Int /\ a.code # NoValue
      BY <1>0, <3>2, <3>3, <3>4
    <3> QED BY <1>0, <1>7, <3>2, <3>4, <3>5, <3>6, <3>1 DEF AnsweredOnce, Result
  <2> QED BY <2>2, <2>3
<1> QED BY <1>4, <1>6, <1>7

\* Every message is answered by the protocol, whatever else happens.
THEOREM ProtocolIsSound == OperationsSpec => []ProtocolSound
<1>1. OperationsInit => ProtocolSound
  BY DEF OperationsInit, Begin, Nothing, ProtocolSound
<1>2. ProtocolSound /\ [OperationsNext]_operationVars => ProtocolSound'
  <2> SUFFICES ASSUME ProtocolSound, [OperationsNext]_operationVars PROVE ProtocolSound'
    OBVIOUS
  <2>1. CASE UNCHANGED frame
    BY <2>1 DEF frame, ProtocolSound
  <2>2. CASE Operate
    <3> SUFFICES ASSUME request'.op = "serve" PROVE ProtocolSound'
      BY DEF ProtocolSound
    <3>1. PICK settings \in Secured, r \in Requests \cup Unreadable, s \in Retaining :
            LET served == Serve(settings, s, r)
            IN  Answer([op |-> "serve", settings |-> settings, sent |-> r],
                       [answer |-> served.answer, ran |-> served.server.ran])
      BY <2>2, OperationsNamed DEF ServeRequest
    <3>2. r.surface \in {"http", "socket"} /\ r.body \in {"object", "broken", "list"}
      BY DEF Requests, Unreadable
    <3>3. s = [retained |-> s.retained, ran |-> <<>>]
      BY DEF Retaining, Idle
    <3>4. AnsweredOnce(settings, r, Serve(settings, s, r).answer, Serve(settings, s, r).server.ran)
      BY <3>2, <3>3, MessagesAnswered
    <3>5. /\ request'.settings = settings /\ request'.sent = r
          /\ result'.answer = Serve(settings, s, r).answer
          /\ result'.ran = Serve(settings, s, r).server.ran
      BY <3>1 DEF Answer
    <3> QED BY <3>4, <3>5 DEF ProtocolSound, AnsweredOnce
  <2> QED BY <2>1, <2>2 DEF OperationsNext, operationVars
<1> QED BY <1>1, <1>2, PTL DEF OperationsSpec

-----------------------------------------------------------------------------
(* Operations: actions on the home *)

\* A target that is resolved stands for entities that the assistant may see.
LEMMA ResolvedVisible ==
  ASSUME NEW h, NEW target, ~Act!ResolveTarget(h, target).error
  PROVE  Act!ResolveTarget(h, target).entities \subseteq Act!Visible(h)
<1> DEFINE named == Act!Ids(target.ids, "entity_id")
           active == {key \in Act!SelectorKeys : Act!Ids(target.ids, key) # {}}
           matches == [key \in active |-> Act!Selected(h, key, target.ids[key])]
           combined == {e \in Act!Visible(h) : \A key \in active : e \in matches[key]}
           meant == named \cup (IF active = {} THEN {} ELSE combined)
           resolved == Act!ApplyExclusions(h, meant, target)
           wrong == \/ ~(named \subseteq Act!Visible(h))
                    \/ \E key \in active : matches[key] = {}
                    \/ active # {} /\ combined = {}
                    \/ resolved = {}
<1>1. Act!ResolveTarget(h, target) = IF wrong THEN Act!Error ELSE Act!Targets(resolved)
  BY DEF Act!ResolveTarget
<1>2. ~wrong
  <2>1. Act!Error.error
    BY DEF Act!Error
  <2> HIDE DEF wrong
  <2> QED BY <1>1, <2>1
<1>3. combined \subseteq Act!Visible(h)
  OBVIOUS
<1>4. meant \subseteq Act!Visible(h)
  BY <1>2, <1>3
<1>5. resolved \subseteq Act!Visible(h)
  <2> HIDE DEF meant
  <2> QED BY <1>4 DEF Act!ApplyExclusions
<1>6. Act!ResolveTarget(h, target).entities = resolved
  <2> HIDE DEF wrong, resolved
  <2> QED BY <1>1, <1>2 DEF Act!Targets
<1> HIDE DEF resolved
<1> QED BY <1>5, <1>6

\* What a service keeps of a target is of the domains that it takes.
LEMMA KeptFit ==
  ASSUME NEW h, NEW resolved, NEW domains, ~Act!KeepDomains(h, resolved, domains).error
  PROVE  /\ ~resolved.error
         /\ Act!KeepDomains(h, resolved, domains).entities \subseteq resolved.entities
         /\ domains # {} =>
              \A e \in Act!KeepDomains(h, resolved, domains).entities : Act!DomainOf(h, e) \in domains
<1>1. Act!Error.error /\ \A s : Act!Targets(s).entities = s
  BY DEF Act!Error, Act!Targets
<1>2. ~resolved.error
  BY <1>1 DEF Act!KeepDomains
<1>3. CASE domains = {}
  <2>1. Act!KeepDomains(h, resolved, domains) \in {Act!Error, resolved}
    BY <1>2, <1>3 DEF Act!KeepDomains
  <2> QED BY <1>1, <1>2, <1>3, <2>1
<1>4. CASE domains # {}
  <2> DEFINE kept == {e \in resolved.entities : Act!DomainOf(h, e) \in domains}
  <2>1. Act!KeepDomains(h, resolved, domains) = IF kept = {} THEN Act!Error ELSE Act!Targets(kept)
    BY <1>2, <1>4 DEF Act!KeepDomains
  <2>2. Act!KeepDomains(h, resolved, domains).entities = kept
    <3> HIDE DEF kept
    <3> QED BY <1>1, <2>1
  <2> QED BY <1>2, <2>2
<1> QED BY <1>3, <1>4

\* No parameter is left that would select something.
LEMMA SplitClean ==
  ASSUME NEW target, NEW given
  PROVE  DOMAIN Act!Split(target, given).data \cap Act!TargetKeys = {}
<1> DEFINE selectors == DOMAIN given \cap (Act!TargetKeys \cup {"exclude"})
<1>1. Act!Split(target, given).data = [key \in DOMAIN given \ selectors |-> given[key]]
  BY DEF Act!Split
<1>2. DOMAIN Act!Split(target, given).data = DOMAIN given \ selectors
  BY <1>1
<1> QED BY <1>2

\* A colour is converted into parameters that select nothing either.
LEMMA MigratedClean ==
  ASSUME NEW given, DOMAIN given \cap Act!TargetKeys = {}
  PROVE  LET migrated == Act!MigrateColor(given)
         IN  migrated # None => DOMAIN migrated \cap Act!TargetKeys = {}
<1> DEFINE rest == [key \in DOMAIN given \ {"color_temp"} |-> given[key]]
           kelvin(k) == Act!With("color_temp_kelvin", k, rest)
           migrated == Act!MigrateColor(given)
<1>1. DOMAIN rest \cap Act!TargetKeys = {}
  OBVIOUS
<1>2. \A k : DOMAIN kelvin(k) = {"color_temp_kelvin"} \cup DOMAIN rest
  BY DEF Act!With
<1>3. migrated \in {None, rest} \/ \E k : migrated = kelvin(k)
  <2> DEFINE value == given.color_temp
             kept == "color_temp_kelvin" \in DOMAIN given
             converted == 1000000 \div value
  <2>1. migrated = CASE kept -> rest
                     [] ~kept /\ value \in 100..1000 -> kelvin(converted)
                     [] ~kept /\ value > 1000 -> kelvin(value)
                     [] OTHER -> None
    BY SMT DEF Act!MigrateColor
  <2> HIDE DEF migrated, rest, kelvin, value, kept, converted
  <2> QED BY SMT, <2>1
<1>4. "color_temp_kelvin" \notin Act!TargetKeys
  BY DEF Act!TargetKeys, Act!SelectorKeys
<1> HIDE DEF kelvin, rest, migrated
<1>5. migrated # None => DOMAIN migrated \cap Act!TargetKeys = {}
  BY <1>1, <1>2, <1>3, <1>4
<1> QED BY <1>5 DEF migrated

\* A call without selecting parameters is made for the entities it was made up for.
LEMMA CallClean ==
  ASSUME NEW domain, NEW service, NEW entities, NEW given, DOMAIN given \cap Act!TargetKeys = {}
  PROVE  LET call == Act!Call(domain, service, entities, given)
         IN  call.entities = entities /\ call.selectors = {}
BY DEF Act!Call, Act!TargetKeys

\* perform_action, in any home, with any target and parameters: the entities of
\* the call, though not those that its parameters name besides, may be seen.
THEOREM PerformsOnExposed ==
  ASSUME NEW h, NEW args, Act!PerformAction(h, args).made
  PROVE  LET call == Act!PerformAction(h, args)
         IN  /\ call.entities \subseteq Act!Visible(h) /\ call.selectors = {}
             /\ \A e \in call.entities : Act!DomainOf(h, e) = args.domain
<1> DEFINE asked == IF args.entity = None THEN args.target ELSE Act!OnEntities({args.entity})
           split == Act!Split(asked, args.data)
           service == Act!ServiceOf(h, args.domain, args.action)
           target == Act!ResolveTarget(h, split.target)
           resolved == Act!KeepDomains(h, target, {args.domain})
           given == IF args.domain = "light" /\ "color_temp" \in DOMAIN split.data
                   THEN Act!MigrateColor(split.data) ELSE split.data
           call == Act!PerformAction(h, args)
<1>1. ~Act!NoCall.made
  BY DEF Act!NoCall
<1>2. ~resolved.error /\ given # None /\ call = Act!Call(args.domain, service, resolved.entities, given)
  <2> HIDE DEF asked, split, service, target, resolved, given
  <2> QED BY <1>1 DEF Act!PerformAction, asked, split, service, target, resolved, given
<1>3. DOMAIN split.data \cap Act!TargetKeys = {}
  BY SplitClean
<1>4. DOMAIN given \cap Act!TargetKeys = {}
  <2> HIDE DEF split
  <2> QED BY <1>2, <1>3, MigratedClean
<1>5. call.entities = resolved.entities /\ call.selectors = {}
  <2> HIDE DEF given, resolved, service, call
  <2> QED BY <1>2, <1>4, CallClean
<1>6. /\ ~target.error /\ resolved.entities \subseteq target.entities
      /\ \A e \in resolved.entities : Act!DomainOf(h, e) \in {args.domain}
  <2> HIDE DEF target
  <2> QED BY <1>2, KeptFit
<1>7. target.entities \subseteq Act!Visible(h)
  BY <1>6, ResolvedVisible
<1> HIDE DEF resolved, target, call
<1>8. /\ call.entities \subseteq Act!Visible(h) /\ call.selectors = {}
      /\ \A e \in call.entities : Act!DomainOf(h, e) = args.domain
  BY <1>5, <1>6, <1>7
<1> QED BY <1>8 DEF call

\* call_service_with_response, in any home, with any target and parameters, in
\* the same sense.
THEOREM RespondsOnExposed ==
  ASSUME NEW h, NEW args, Act!CallWithResponse(h, args).made
  PROVE  LET call == Act!CallWithResponse(h, args)
         IN  call.entities \subseteq Act!Visible(h) /\ call.selectors = {}
<1> DEFINE split == Act!Split(args.target, args.data)
           info == h.responds[<<args.domain, args.action>>]
           target == Act!ResolveTarget(h, split.target)
           resolved == IF split.target = Act!NoTarget THEN Act!Targets({})
                       ELSE Act!KeepDomains(h, target, info.domains)
           call == Act!CallWithResponse(h, args)
<1>1. ~Act!NoCall.made
  BY DEF Act!NoCall
<1>2. ~resolved.error /\ call = Act!Call(args.domain, args.action, resolved.entities, split.data)
  <2> HIDE DEF split, info, target, resolved
  <2> QED BY <1>1 DEF Act!CallWithResponse, split, info, target, resolved
<1>3. DOMAIN split.data \cap Act!TargetKeys = {}
  BY SplitClean
<1>4. call.entities = resolved.entities /\ call.selectors = {}
  <2> HIDE DEF split, resolved, call
  <2> QED BY <1>2, <1>3, CallClean
<1>5. resolved.entities \subseteq Act!Visible(h)
  <2>1. CASE split.target = Act!NoTarget
    BY <2>1 DEF Act!Targets
  <2>2. CASE split.target # Act!NoTarget
    <3>1. ~target.error /\ resolved.entities \subseteq target.entities
      <4> HIDE DEF target, info
      <4> QED BY <1>2, <2>2, KeptFit
    <3>2. target.entities \subseteq Act!Visible(h)
      BY <3>1, ResolvedVisible
    <3> HIDE DEF target, resolved
    <3> QED BY <3>1, <3>2
  <2> QED BY <2>1, <2>2
<1> HIDE DEF resolved, call
<1>6. call.entities \subseteq Act!Visible(h) /\ call.selectors = {}
  BY <1>4, <1>5
<1> QED BY <1>6 DEF call

\* Whatever the target and the selectors among the parameters, the target of a
\* call that Home Assistant gets is exposed.
THEOREM ActionsStayExposed == OperationsSpec => []ActsOnExposed
<1>1. OperationsInit => ActsOnExposed
  BY DEF OperationsInit, Begin, Nothing, ActsOnExposed
<1>2. ActsOnExposed /\ [OperationsNext]_operationVars => ActsOnExposed'
  <2> SUFFICES ASSUME ActsOnExposed, [OperationsNext]_operationVars PROVE ActsOnExposed'
    OBVIOUS
  <2>0. \A h : /\ \A e \in Act!Visible(h) : h.entity[e].exposed
               /\ \A e : MC!DomainOf(h, e) = Act!DomainOf(h, e)
    BY DEF Act!Visible, MC!DomainOf, Act!DomainOf
  <2>1. CASE UNCHANGED frame
    BY <2>1 DEF frame, ActsOnExposed
  <2>2. CASE CallService
    <3>1. PICK h, args :
            Answer([op |-> "act", home |-> h, domain |-> args.domain], Act!PerformAction(h, args))
      <4>1. PICK h \in MC!ActingHomes, a \in MC!ActionsAsked, target \in MC!TargetsAsked,
                 entity \in {None, 1, 3} :
              Answer([op |-> "act", home |-> h, domain |-> a.domain],
                     Act!PerformAction(h, [domain |-> a.domain, action |-> a.action, data |-> a.data,
                                           target |-> target, entity |-> entity]))
        BY <2>2 DEF CallService
      <4> DEFINE args == [domain |-> a.domain, action |-> a.action, data |-> a.data,
                          target |-> target, entity |-> entity]
      <4>2. args.domain = a.domain
        OBVIOUS
      <4>3. Answer([op |-> "act", home |-> h, domain |-> args.domain], Act!PerformAction(h, args))
        BY <4>1
      <4> HIDE DEF args
      <4> QED BY <4>3
    <3>2. /\ request'.op = "act" /\ request'.home = h /\ request'.domain = args.domain
          /\ result' = Act!PerformAction(h, args)
      BY <3>1 DEF Answer
    <3> QED BY <2>0, <3>2, PerformsOnExposed DEF ActsOnExposed
  <2>3. CASE CallForResponse
    <3>1. PICK h, args, domain :
            Answer([op |-> "respond", home |-> h, domain |-> domain], Act!CallWithResponse(h, args))
      BY <2>3 DEF CallForResponse
    <3>2. /\ request'.op = "respond" /\ request'.home = h
          /\ result' = Act!CallWithResponse(h, args)
      BY <3>1 DEF Answer
    <3> QED BY <2>0, <3>2, RespondsOnExposed DEF ActsOnExposed
  <2>4. CASE RunScript
    <3>1. PICK h, e : Answer([op |-> "run", home |-> h, domain |-> "script"], Act!RunEntity(h, e))
      BY <2>4 DEF RunScript
    <3>2. /\ request'.op = "run" /\ request'.home = h
          /\ result' = Act!RunEntity(h, e)
      BY <3>1 DEF Answer
    <3>3. result'.made => h.entity[e].exposed /\ result'.entities = {e} /\ result'.selectors = {}
      BY <3>2 DEF Act!RunEntity, Act!NoCall
    <3> QED BY <3>2, <3>3 DEF ActsOnExposed
  <2>5. CASE Operate /\ request'.op \notin {"act", "respond", "run"}
    BY <2>5 DEF ActsOnExposed
  <2> QED BY <2>1, <2>2, <2>3, <2>4, <2>5, OperationsNamed DEF OperationsNext, operationVars
<1> QED BY <1>1, <1>2, PTL DEF OperationsSpec
=============================================================================
