---------------------------- MODULE IndexManager ----------------------------
(***************************************************************************)
(* index_manager.py: the structure index of the home, built lazily by the  *)
(* first readers and rebuilt by one debounced loop after registry changes. *)
(* A build may ask a (paid) LLM to infer entity types, and that LLM's own  *)
(* prompt reads the index.  Each action is the code between two awaits.    *)
(***************************************************************************)
EXTENDS Integers

CONSTANTS Readers,     \* tasks that call get_index()
          Prompts,     \* inference prompts, one per set of entity patterns
          NoPrompt,    \* no entity needs inference
          MaxChanges,  \* bound on the registry changes
          Loop,        \* the task of _debounced_refresh_loop
          Nobody

ASSUME IndexAssumption ==
  /\ Loop \notin Readers
  /\ Nobody \notin Readers \cup {Loop}
  /\ NoPrompt \notin Prompts
  /\ MaxChanges \in Nat

Builders == Readers \cup {Loop}
NoIndex == -1

VARIABLES
  registry,      \* number of changes made to Home Assistant's registries
  patterns,      \* the prompt the current entities would give
  autoRefresh,   \* shared setting: refresh on registry changes
  gapFilling,    \* shared setting: infer entity types
  pc,            \* where each task is suspended
  generateLock,  \* the task holding _generate_lock
  index,         \* the registry state _index was built from
  snapshot,      \* per task: the registry state its build has read
  prompt,        \* per task: the inference prompt of its build
  firstGenerated,    \* _first_index_generated
  gapFillScheduled,  \* _initial_gap_fill_scheduled
  refreshPending,    \* _refresh_pending
  inference,     \* _last_inference_prompt, _succeeded, and age
  stop,          \* progress of async_stop
  noticed,       \* last change whose event scheduled a refresh (history)
  billed         \* the last LLM call: prompt, result, cooldown (history)

build == <<snapshot, prompt>>
world == <<registry, patterns, autoRefresh, gapFilling>>
flags == <<firstGenerated, gapFillScheduled>>
vars == <<world, pc, generateLock, index, build, flags, refreshPending,
          inference, stop, noticed, billed>>

\* An attempt at inference: still cooling down if it is recent.
NoAttempt == [prompt |-> NoPrompt, ok |-> FALSE, recent |-> FALSE]

Init ==
  /\ registry = 0
  /\ patterns \in Prompts \cup {NoPrompt}
  /\ autoRefresh \in BOOLEAN
  /\ gapFilling \in BOOLEAN
  /\ pc = [t \in Builders |-> "idle"]
  /\ generateLock = Nobody
  /\ index = NoIndex
  /\ snapshot = [t \in Builders |-> 0]
  /\ prompt = [t \in Builders |-> NoPrompt]
  /\ firstGenerated = FALSE
  /\ gapFillScheduled = FALSE
  /\ refreshPending = FALSE
  /\ inference = NoAttempt
  /\ stop = "no"
  /\ noticed = 0
  /\ billed = NoAttempt

-----------------------------------------------------------------------------
\* Mutant: builds are not serialized.
LockIgnored == TRUE

LockFree == generateLock = Nobody

\* The refresh task exists, is not done and is not being cancelled.
LoopRuns == pc[Loop] # "idle" /\ stop # "cancelling"

\* Mutant: the loop runs once, whatever came in meanwhile.
LoopRunsOnce(pending) == "idle"

\* _debounced_refresh_loop at the head of its while: it clears the flag and
\* sleeps again if a refresh is pending, and is done otherwise.
LoopHead(pending) == IF pending THEN "sleep" ELSE "idle"

\* _schedule_refresh by another task: set the flag, start the loop if there
\* is none.  (A new loop clears the flag first thing.)
ScheduleRefresh(else) ==
  IF pc[Loop] = "idle"
  THEN pc' = [else EXCEPT ![Loop] = "sleep"] /\ refreshPending' = FALSE
  ELSE pc' = else /\ refreshPending' = TRUE

\* _maybe_schedule_initial_gap_fill wants its one deferred refresh.
WantsFollowUp == ~gapFillScheduled /\ gapFilling

-----------------------------------------------------------------------------
(* get_index, refresh_index and generate_index *)

StartBuild(t) ==
  /\ generateLock' = t
  /\ pc' = [pc EXCEPT ![t] = "gather"]

\* No index yet: build it, or wait for whoever is building.  (With an index,
\* get_index returns it and changes nothing.)
GetIndex(r) ==
  /\ pc[r] = "idle"
  /\ index = NoIndex
  /\ stop = "no"
  /\ IF LockFree
     THEN StartBuild(r)
     ELSE pc' = [pc EXCEPT ![r] = "wantLock"] /\ UNCHANGED generateLock
  /\ UNCHANGED <<world, index, build, flags, refreshPending, inference, stop,
                 noticed, billed>>

\* The end of get_index: the follow-up refresh, if it is still to schedule.
EndGetIndex(r) ==
  /\ gapFillScheduled' = (gapFillScheduled \/ WantsFollowUp)
  /\ IF WantsFollowUp
     THEN ScheduleRefresh([pc EXCEPT ![r] = "idle"])
     ELSE pc' = [pc EXCEPT ![r] = "idle"] /\ UNCHANGED refreshPending

\* The lock is granted: somebody else may have built the index meanwhile.
ReaderLocked(r) ==
  /\ pc[r] = "wantLock"
  /\ LockFree
  /\ IF index = NoIndex
     THEN StartBuild(r) /\ UNCHANGED <<gapFillScheduled, refreshPending>>
     ELSE EndGetIndex(r) /\ UNCHANGED generateLock
  /\ UNCHANGED <<world, index, build, firstGenerated, inference, stop,
                 noticed, billed>>

\* The debounce window is over: start it again if there were more changes.
WindowEnds ==
  /\ pc[Loop] = "sleep" /\ LoopRuns
  /\ IF refreshPending
     THEN refreshPending' = FALSE /\ UNCHANGED <<pc, generateLock>>
     ELSE /\ UNCHANGED refreshPending
          /\ IF LockFree
             THEN StartBuild(Loop)
             ELSE pc' = [pc EXCEPT ![Loop] = "wantLock"] /\ UNCHANGED generateLock
  /\ UNCHANGED <<world, index, build, flags, inference, stop, noticed, billed>>

LoopLocked ==
  /\ pc[Loop] = "wantLock" /\ LoopRuns
  /\ LockFree
  /\ StartBuild(Loop)
  /\ UNCHANGED <<world, index, build, flags, refreshPending, inference, stop,
                 noticed, billed>>

Alive(t) == t = Loop => LoopRuns

\* The gathered coroutines read all registries in one go.
Gathered(t) ==
  /\ pc[t] = "gather" /\ Alive(t)
  /\ snapshot' = [snapshot EXCEPT ![t] = registry]
  /\ prompt' = [prompt EXCEPT ![t] = patterns]
  /\ pc' = [pc EXCEPT ![t] = "gathered"]
  /\ UNCHANGED <<world, generateLock, index, flags, refreshPending, inference,
                 stop, noticed, billed>>

\* Mutant: failed attempts are not remembered.
CachedSuccess(p) == inference.prompt = p /\ inference.ok

\* _get_cached_inference: a success is reused until the patterns change, a
\* failure until GAP_FILL_FAILURE_RETRY_SECONDS have passed.
Cached(p) == inference.prompt = p /\ (inference.ok \/ inference.recent)

\* Mutant: the very first build infers as well.
NeedsLLMAtOnce(t) ==
  /\ prompt[t] # NoPrompt
  /\ \A u \in Builders : pc[u] # "llm"
  /\ gapFilling
  /\ ~Cached(prompt[t])

\* Inference is skipped for the very first index, and by a build that runs
\* while another one infers.
NeedsLLM(t) ==
  /\ prompt[t] # NoPrompt
  /\ firstGenerated
  /\ \A u \in Builders : pc[u] # "llm"
  /\ gapFilling
  /\ ~Cached(prompt[t])

AskLLM(t) ==
  /\ pc[t] = "gathered" /\ Alive(t)
  /\ NeedsLLM(t)
  /\ pc' = [pc EXCEPT ![t] = "llm"]
  /\ billed' = [prompt |-> prompt[t], ok |-> TRUE, recent |-> TRUE]
  /\ UNCHANGED <<world, generateLock, index, build, flags, refreshPending,
                 inference, stop, noticed>>

\* The index is stored and the lock released; the reader returns, the loop
\* goes on with what is pending, each after the follow-up is scheduled.
Store(t) ==
  /\ index' = snapshot[t]
  /\ firstGenerated' = TRUE
  /\ generateLock' = Nobody
  /\ IF t = Loop
     THEN /\ pc' = [pc EXCEPT ![Loop] = LoopHead(refreshPending \/ WantsFollowUp)]
          /\ refreshPending' = FALSE
          /\ gapFillScheduled' = (gapFillScheduled \/ WantsFollowUp)
     ELSE EndGetIndex(t)
  /\ UNCHANGED <<world, build, stop, noticed>>

StoreWithoutLLM(t) ==
  /\ pc[t] = "gathered" /\ Alive(t)
  /\ ~NeedsLLM(t)
  /\ Store(t)
  /\ UNCHANGED <<inference, billed>>

\* Every profile's agent has been tried, or one has answered.
LLMAnswers(t, ok) ==
  /\ pc[t] = "llm" /\ Alive(t)
  /\ inference' = [prompt |-> prompt[t], ok |-> ok, recent |-> TRUE]
  /\ billed' = [billed EXCEPT !.ok = ok]
  /\ Store(t)

-----------------------------------------------------------------------------
(* The environment: registries, settings, time, and the release of the
   shared server, which removes the manager from hass.data and stops it *)

RegistryChanges ==
  /\ registry < MaxChanges
  /\ registry' = registry + 1
  /\ patterns' \in Prompts \cup {NoPrompt}
  /\ IF stop = "no" /\ autoRefresh
     THEN ScheduleRefresh(pc) /\ noticed' = registry'
     ELSE UNCHANGED <<pc, refreshPending, noticed>>
  /\ UNCHANGED <<autoRefresh, gapFilling, generateLock, index, build, flags,
                 inference, stop, billed>>

SaveSettings ==
  /\ autoRefresh' \in BOOLEAN
  /\ gapFilling' \in BOOLEAN
  /\ UNCHANGED <<registry, patterns, pc, generateLock, index, build, flags,
                 refreshPending, inference, stop, noticed, billed>>

CooldownEnds ==
  /\ inference.recent
  /\ inference' = [inference EXCEPT !.recent = FALSE]
  /\ billed' = IF \E t \in Builders : pc[t] = "llm" THEN billed
               ELSE [billed EXCEPT !.recent = FALSE]
  /\ UNCHANGED <<world, pc, generateLock, index, build, flags, refreshPending,
                 stop, noticed>>

\* async_stop: no more events; cancel the refresh task and wait for its end.
AsyncStop ==
  /\ stop = "no"
  /\ stop' = IF pc[Loop] = "idle" THEN "stopped" ELSE "cancelling"
  /\ UNCHANGED <<world, pc, generateLock, index, build, flags, refreshPending,
                 inference, noticed, billed>>

\* The cancelled loop unwinds; a lock it holds is released on the way.
LoopCancelled ==
  /\ stop = "cancelling"
  /\ stop' = "cancelled"
  /\ pc' = [pc EXCEPT ![Loop] = "idle"]
  /\ generateLock' = IF generateLock = Loop THEN Nobody ELSE generateLock
  /\ UNCHANGED <<world, index, build, flags, refreshPending, inference,
                 noticed, billed>>

Stopped ==
  /\ stop = "cancelled"
  /\ stop' = "stopped"
  /\ UNCHANGED <<world, pc, generateLock, index, build, flags, refreshPending,
                 inference, noticed, billed>>

-----------------------------------------------------------------------------
Build(t) ==
  \/ Gathered(t) \/ AskLLM(t) \/ StoreWithoutLLM(t)
  \/ \E ok \in BOOLEAN : LLMAnswers(t, ok)

Refresh == WindowEnds \/ LoopLocked

Shutdown == AsyncStop \/ LoopCancelled \/ Stopped

Next ==
  \/ \E r \in Readers : GetIndex(r) \/ ReaderLocked(r)
  \/ \E t \in Builders : Build(t)
  \/ Refresh \/ RegistryChanges \/ SaveSettings \/ CooldownEnds \/ Shutdown

Spec == Init /\ [][Next]_vars

\* Suspended tasks are resumed, sleeps and LLM calls (which have timeouts)
\* end, and the lock is granted in order of arrival.
FairSpec ==
  /\ Spec
  /\ \A t \in Builders : WF_vars(Build(t))
  /\ \A r \in Readers : SF_vars(ReaderLocked(r))
  /\ WF_vars(WindowEnds) /\ SF_vars(LoopLocked)
  /\ WF_vars(LoopCancelled \/ Stopped)

-----------------------------------------------------------------------------
Building == {"gather", "gathered", "llm"}
Attempts == [prompt : Prompts \cup {NoPrompt}, ok : BOOLEAN, recent : BOOLEAN]

TypeOK ==
  /\ registry \in 0 .. MaxChanges
  /\ patterns \in Prompts \cup {NoPrompt}
  /\ autoRefresh \in BOOLEAN /\ gapFilling \in BOOLEAN
  /\ pc \in [Builders -> Building \cup {"idle", "wantLock", "sleep"}]
  /\ generateLock \in Builders \cup {Nobody}
  /\ index \in 0 .. MaxChanges \cup {NoIndex}
  /\ snapshot \in [Builders -> 0 .. MaxChanges]
  /\ prompt \in [Builders -> Prompts \cup {NoPrompt}]
  /\ firstGenerated \in BOOLEAN /\ gapFillScheduled \in BOOLEAN
  /\ refreshPending \in BOOLEAN
  /\ inference \in Attempts
  /\ stop \in {"no", "cancelling", "cancelled", "stopped"}
  /\ noticed \in 0 .. MaxChanges
  /\ billed \in Attempts

\* The agent that is asked to infer types reads the index for its own prompt
\* while the build that asks it holds _generate_lock: it must find one, or it
\* would wait for the lock of its own caller.
ReentrantReadReturns ==
  \A t \in Builders : pc[t] = "llm" => index # NoIndex

\* An inference has an index to read.
IndexSound == TypeOK /\ ReentrantReadReturns

\* A build that started earlier never overwrites a later one.
IndexNeverOlder == [][index' >= index]_index

\* Registry churn that does not change the entity patterns never bills the
\* LLM again: not after a success, and after a failure only once the cooldown
\* has passed.  (async_stop may cancel a call before its result is remembered.)
NeverRebilled ==
  [][\A t \in Builders :
       AskLLM(t) /\ billed.prompt = prompt[t] /\ stop = "no" =>
         ~billed.ok /\ ~billed.recent]_vars

\* A change that was noticed reaches the index, however it interleaves with
\* readers, builds under way and the debounce window.
CatchesUp ==
  \A v \in 1 .. MaxChanges : noticed = v ~> index >= v \/ stop # "no"

\* The first index has no inferred types, but even with no further change a
\* follow-up asks for them, if there is something to infer and gap filling is
\* enabled all along.
InitialGapFill ==
  [](gapFilling /\ patterns # NoPrompt) =>
    (index # NoIndex ~> billed.prompt # NoPrompt \/ stop # "no")

\* What is to be in the index gets there.
ChangesArrive == CatchesUp /\ InitialGapFill

\* Once async_stop has returned there is no refresh work left.
StopIsFinal == stop = "stopped" => pc[Loop] = "idle"

\* Exactly the task that builds holds the lock.
OneBuilder == \A t \in Builders : pc[t] \in Building <=> generateLock = t

\* The first build has stored an index before any inference starts.
IndexFirst ==
  /\ firstGenerated <=> index # NoIndex
  /\ \A t \in Builders : pc[t] = "llm" => firstGenerated

\* The build under way has read registries at least as new as the index.
Newer ==
  /\ index <= registry
  /\ \A t \in Builders : pc[t] \in {"gathered", "llm"} =>
       index <= snapshot[t] /\ snapshot[t] <= registry

\* The cache remembers the last LLM call, once it has answered.
Remembered ==
  stop = "no" =>
    /\ (\A t \in Builders : pc[t] # "llm") => billed = inference
    /\ \A t \in Builders : pc[t] = "llm" => billed.prompt = prompt[t] /\ billed.recent

\* The inductive invariant.
IInv == TypeOK /\ OneBuilder /\ IndexFirst /\ Newer /\ Remembered

=============================================================================
