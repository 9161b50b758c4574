------------------------------ MODULE ToolLoop ------------------------------
(***************************************************************************)
(* agent.py: how one user request is answered.  The agent asks the model,  *)
(* runs the tools it wants, reports their results and asks again, within a *)
(* tool budget and a guard on model turns.  It streams if the provider     *)
(* can, and starts over with the HTTP transport when streaming fails in a  *)
(* way that is safe to repeat: home actions must not be done twice, and a  *)
(* provider that keeps the session must not see a turn twice.              *)
(***************************************************************************)
EXTENDS Integers, FiniteSets

CONSTANTS MaxBudget,  \* bound on the configured tool-call budget
          MaxBatch    \* bound on the tool calls in one model response

ASSUME BoundsAssumption ==
  /\ MaxBudget \in Nat \ {0}
  /\ MaxBatch \in Nat \ {0}

VARIABLES
  settings,   \* budget, context mode and provider of this request
  transport,  \* stream or http
  pc,         \* what the request is waiting for
  turn,       \* iteration: model turns taken on this transport
  used,       \* tool_calls_used
  retried,    \* toolless_retry_used and invalid_tool_retry_used
  empties,    \* empty_stream_responses
  attempt,    \* attempts of the HTTP request under way
  batch,      \* the tool calls of the last assistant message with tool calls
  bad,        \* it came with malformed calls
  running,    \* calls of the batch that are being executed concurrently
  finished,   \* calls of the batch that have been executed
  answered,   \* calls of the batch that have a tool message
  hasResults, \* _has_tool_results(conversation_messages)
  outcome,    \* how the request ended
  executed,   \* budgeted tool calls executed in this request (history)
  ran,        \* has any tool been executed (history)
  unsure,     \* the provider may have a turn whose answer is lost (history)
  resent,     \* it was sent a request after that (history)
  detours     \* turns of this transport that executed no budgeted call (history)

conversation == <<batch, bad, running, finished, answered, hasResults>>
loop == <<turn, used, retried, empties, attempt>>
past == <<executed, ran, unsure, resent, detours>>
vars == <<settings, transport, pc, loop, conversation, outcome, past>>

Kinds == {"home", "meta"}   \* ADAPTIVE_META_TOOL_NAMES are not budgeted
Batches == UNION {[1 .. n -> Kinds] : n \in 1 .. MaxBatch}
NoRetry == [toolless |-> FALSE, invalid |-> FALSE]

Budget == settings.budget

\* model_turn_limit
TurnLimit == Budget + (IF settings.adaptive THEN 4 ELSE 1)

Init ==
  /\ settings \in [budget : 1 .. MaxBudget, adaptive : BOOLEAN,
                   streams : BOOLEAN, stateful : BOOLEAN]
  /\ transport = IF settings.streams THEN "stream" ELSE "http"
  /\ pc = "ask"
  /\ turn = 0 /\ used = 0 /\ retried = NoRetry /\ empties = 0
  /\ attempt = 0
  /\ batch = <<>> /\ bad = FALSE
  /\ running = {} /\ finished = {} /\ answered = {} /\ hasResults = FALSE
  /\ outcome = "none"
  /\ executed = 0 /\ ran = FALSE /\ unsure = FALSE /\ resent = FALSE
  /\ detours = 0

-----------------------------------------------------------------------------
(* Where a turn can lead *)

Send == resent' = (resent \/ unsure)

End(how) ==
  /\ pc' = "done"
  /\ outcome' = how
  /\ UNCHANGED <<transport, turn, used, empties, attempt, conversation,
                 executed, ran, resent, detours>>

\* _call_llm_final_response_without_tools
AskFinal ==
  /\ pc' = "final"
  /\ Send
  /\ attempt' = 1
  /\ UNCHANGED <<transport, turn, used, empties, conversation, outcome,
                 executed, ran, detours>>

\* `continue`: the next iteration, this one having executed no tool.
NextTurn ==
  /\ pc' = "ask"
  /\ turn' = turn + 1
  /\ detours' = detours + 1
  /\ UNCHANGED <<transport, used, attempt, conversation, outcome, executed,
                 ran, resent>>

\* _call_llm catches the failure of streaming and starts over with HTTP,
\* from the messages of the request.
FallBack ==
  /\ transport' = "http"
  /\ pc' = "ask"
  /\ turn' = 0 /\ used' = 0 /\ empties' = 0 /\ attempt' = 0
  /\ batch' = <<>> /\ bad' = FALSE /\ running' = {} /\ finished' = {}
  /\ answered' = {} /\ hasResults' = FALSE
  /\ detours' = 0
  /\ UNCHANGED <<outcome, executed, ran, resent>>

\* The loop is over without an answer.
LeaveLoop(partial) ==
  CASE partial -> End("reply")
    [] ~partial /\ hasResults -> AskFinal
    [] OTHER -> End("fallback")

-----------------------------------------------------------------------------
(* _call_llm_streaming and _call_llm_http up to the model's response *)

Ask ==
  /\ pc = "ask" /\ turn < TurnLimit
  /\ pc' = IF transport = "stream" THEN "streaming" ELSE "posting"
  /\ attempt' = 1
  /\ Send
  /\ UNCHANGED <<settings, transport, turn, used, retried, empties,
                 conversation, outcome, executed, ran, unsure, detours>>

\* The model-turn guard stops the loop.
GuardStops ==
  /\ pc = "ask" /\ turn = TurnLimit
  /\ LeaveLoop(FALSE)
  /\ UNCHANGED <<settings, retried, unsure>>

\* Mutant: the provider's session is forgotten.
StreamBreaksForgetful(preconnect) ==
  /\ pc = "streaming"
  /\ IF turn = 0
     THEN FallBack /\ retried' = NoRetry
     ELSE \E partial \in {FALSE, ~preconnect} :
            LeaveLoop(partial) /\ UNCHANGED retried
  /\ unsure' = (unsure \/ ~preconnect)
  /\ UNCHANGED settings

\* The stream fails: before there was a connection, or after the provider may
\* have recorded the turn.  A later iteration returns what it has.
StreamBreaks(preconnect) ==
  /\ pc = "streaming"
  /\ CASE settings.stateful /\ ~preconnect ->
            End("error") /\ UNCHANGED retried
       [] turn = 0 /\ (preconnect \/ ~settings.stateful) ->
            FallBack /\ retried' = NoRetry
       [] OTHER ->
            \E partial \in {FALSE, ~preconnect} :
              LeaveLoop(partial) /\ UNCHANGED retried
  /\ unsure' = (unsure \/ ~preconnect)
  /\ UNCHANGED settings

\* Mutant: a rejection always ends the request.
StreamRejectedRaises ==
  /\ pc = "streaming"
  /\ IF turn = 0
     THEN FallBack /\ retried' = NoRetry
     ELSE End("error") /\ UNCHANGED retried
  /\ UNCHANGED <<settings, unsure>>

\* An explicit rejection that does not concern tool arguments.
StreamRejected ==
  /\ pc = "streaming"
  /\ IF turn = 0
     THEN FallBack /\ retried' = NoRetry
     ELSE LeaveLoop(FALSE) /\ UNCHANGED retried
  /\ UNCHANGED <<settings, unsure>>

PostRejected ==
  /\ pc = "posting"
  /\ End("error")
  /\ UNCHANGED <<settings, retried, unsure>>

\* ProviderStreamError: the provider forbids a repetition.
ProviderStops ==
  /\ pc \in {"streaming", "posting", "final"}
  /\ End("stopped")
  /\ UNCHANGED <<settings, retried, unsure>>

\* A response, or a rejection, without a single well-formed tool call gets one
\* corrective retry.
RetryInvalid(emptiesLeft) ==
  /\ IF retried.invalid
     THEN End("fallback") /\ UNCHANGED retried
     ELSE /\ NextTurn
          /\ retried' = [retried EXCEPT !.invalid = TRUE]
          /\ empties' = emptiesLeft
  /\ UNCHANGED <<settings, unsure>>

\* The provider rejects the tool arguments that the model wrote.
ArgumentsRejected ==
  /\ pc \in {"streaming", "posting"}
  /\ IF hasResults
     THEN AskFinal /\ UNCHANGED <<settings, retried, unsure>>
     ELSE RetryInvalid(empties)

OnlyInvalidCalls ==
  /\ pc \in {"streaming", "posting"}
  /\ RetryInvalid(0)

\* Text: the answer, or a promise to check that gets one retry if tools are
\* offered and none has been used.
Text(preamble) ==
  /\ pc \in {"streaming", "posting"}
  /\ IF preamble /\ ~retried.toolless /\ used = 0
     THEN /\ NextTurn
          /\ retried' = [retried EXCEPT !.toolless = TRUE]
          /\ empties' = 0
     ELSE End("reply") /\ UNCHANGED retried
  /\ UNCHANGED <<settings, unsure>>

\* Mutant: two empty streams start over with HTTP, tool results or not.
StreamEmptyAgain ==
  /\ pc = "streaming"
  /\ CASE empties = 0 /\ settings.stateful -> End("error") /\ UNCHANGED retried
       [] empties = 0 /\ ~settings.stateful ->
            NextTurn /\ empties' = 1 /\ UNCHANGED retried
       [] OTHER -> FallBack /\ retried' = NoRetry
  /\ unsure' = TRUE
  /\ UNCHANGED settings

\* A stream without text and without calls is repeated once.
StreamEmpty ==
  /\ pc = "streaming"
  /\ CASE empties = 0 /\ settings.stateful -> End("error") /\ UNCHANGED retried
       [] empties = 0 /\ ~settings.stateful ->
            NextTurn /\ empties' = 1 /\ UNCHANGED retried
       [] empties = 1 /\ hasResults -> AskFinal /\ UNCHANGED retried
       [] OTHER -> FallBack /\ retried' = NoRetry
  /\ unsure' = TRUE
  /\ UNCHANGED settings

\* PROVIDER_HTTP_TIMEOUT_ATTEMPTS, or a single one for a stateful session.
Attempts == IF settings.stateful THEN 1 ELSE 2

\* Mutant: the second attempt goes through the loop, which does not count it.
PostTimesOutForEver ==
  /\ pc = "posting"
  /\ unsure' = TRUE
  /\ IF ~settings.stateful
     THEN /\ pc' = "ask"
          /\ UNCHANGED <<transport, turn, used, empties, attempt, conversation,
                         outcome, executed, ran, resent, detours>>
     ELSE End("error")
  /\ UNCHANGED <<settings, retried>>

PostTimesOut ==
  /\ pc = "posting"
  /\ unsure' = TRUE
  /\ IF attempt < Attempts
     THEN /\ attempt' = attempt + 1
          /\ Send
          /\ UNCHANGED <<transport, pc, turn, used, empties, conversation,
                         outcome, executed, ran, detours>>
     ELSE End("error")
  /\ UNCHANGED <<settings, retried>>

PostBreaks ==
  /\ pc = "posting"
  /\ unsure' = TRUE
  /\ End("error")
  /\ UNCHANGED <<settings, retried>>

-----------------------------------------------------------------------------
(* Tool calls *)

Calls == DOMAIN batch
Budgeted == {i \in Calls : batch[i] = "home"}

\* Mutant: every call is measured against the whole budget left.
ExecutableOneByOne ==
  {i \in Calls : batch[i] = "home" => used < Budget}

\* _prepare_tool_calls_for_budget: the calls that the budget still covers.
Executable ==
  {i \in Calls : batch[i] = "home" =>
     Cardinality({j \in Budgeted : j <= i}) <= Budget - used}

Skipped == Calls \ Executable

\* The well-formed calls become an assistant message and are then executed.
ToolCalls(calls, malformed) ==
  /\ pc \in {"streaming", "posting"}
  /\ batch' = calls /\ bad' = malformed
  /\ running' = {} /\ finished' = {} /\ answered' = {}
  /\ empties' = 0
  /\ pc' = "tools"
  /\ UNCHANGED <<settings, transport, turn, used, retried, attempt,
                 hasResults, outcome, past>>

\* _execute_tool_calls: the meta tools one after the other ...
RunMeta(i) ==
  /\ pc = "tools"
  /\ i \in Calls \ (Budgeted \cup finished)
  /\ \A j \in Calls \ (Budgeted \cup finished) : i <= j
  /\ finished' = finished \cup {i}
  /\ ran' = TRUE
  /\ UNCHANGED <<settings, transport, pc, loop, batch, bad, running, answered,
                 hasResults, outcome, executed, unsure, resent, detours>>

\* ... then all others at once.
StartCalls ==
  /\ pc = "tools"
  /\ Calls \ Budgeted \subseteq finished
  /\ Executable \cap Budgeted # {}
  /\ running' = Executable \cap Budgeted
  /\ executed' = executed + Cardinality(running')
  /\ ran' = TRUE
  /\ pc' = "calls"
  /\ UNCHANGED <<settings, transport, loop, batch, bad, finished, answered,
                 hasResults, outcome, unsure, resent, detours>>

FinishCall(i) ==
  /\ pc = "calls"
  /\ i \in running
  /\ running' = running \ {i}
  /\ finished' = finished \cup {i}
  /\ UNCHANGED <<settings, transport, pc, loop, batch, bad, answered,
                 hasResults, outcome, past>>

AllFinished ==
  \/ pc = "calls" /\ running = {}
  \/ /\ pc = "tools"
     /\ Calls \ Budgeted \subseteq finished
     /\ Executable \cap Budgeted = {}

\* Mutant: calls over the budget get no result.
MergeExecuted == finished

\* _merge_tool_results_in_call_order: each call has a result, if only that it
\* was skipped.
Merge == finished \cup Skipped

\* The results are reported.  The budget being used up, the model has to
\* answer without tools.
Report ==
  /\ AllFinished
  /\ answered' = Merge
  /\ hasResults' = TRUE
  /\ used' = used + Cardinality(Executable \cap Budgeted)
  /\ retried' = [retried EXCEPT !.invalid = @ \/ bad]
  /\ detours' = detours + (IF Executable \cap Budgeted = {} THEN 1 ELSE 0)
  /\ IF Skipped # {} \/ used' >= Budget
     THEN pc' = "final" /\ Send /\ attempt' = 1 /\ UNCHANGED turn
     ELSE pc' = "ask" /\ turn' = turn + 1 /\ UNCHANGED <<resent, attempt>>
  /\ UNCHANGED <<settings, transport, empties, batch, bad, running, finished,
                 outcome, executed, ran, unsure>>

-----------------------------------------------------------------------------
(* _call_llm_without_tools, with a fallback for every failure *)

FinalAnswer ==
  /\ pc = "final"
  /\ End("reply")
  /\ UNCHANGED <<settings, retried, unsure>>

FinalFails(lost) ==
  /\ pc = "final"
  /\ End("fallback")
  /\ unsure' = (unsure \/ lost)
  /\ UNCHANGED <<settings, retried>>

FinalTimesOut ==
  /\ pc = "final"
  /\ attempt < Attempts
  /\ attempt' = attempt + 1
  /\ Send
  /\ unsure' = TRUE
  /\ UNCHANGED <<settings, transport, pc, turn, used, retried, empties,
                 conversation, outcome, executed, ran, detours>>

-----------------------------------------------------------------------------
Respond ==
  \/ \E preconnect \in BOOLEAN : StreamBreaks(preconnect)
  \/ StreamRejected \/ StreamEmpty
  \/ PostRejected \/ PostTimesOut \/ PostBreaks
  \/ ProviderStops \/ ArgumentsRejected \/ OnlyInvalidCalls
  \/ \E preamble \in BOOLEAN : Text(preamble)
  \/ \E calls \in Batches, malformed \in BOOLEAN : ToolCalls(calls, malformed)

RunTools ==
  \/ \E i \in 1 .. MaxBatch : RunMeta(i) \/ FinishCall(i)
  \/ StartCalls \/ Report

Final ==
  \/ FinalAnswer \/ FinalTimesOut
  \/ \E lost \in BOOLEAN : FinalFails(lost)

Next == Ask \/ GuardStops \/ Respond \/ RunTools \/ Final

Spec == Init /\ [][Next]_vars

\* Every provider request and every tool call has a timeout.
FairSpec == Spec /\ WF_vars(Next)

-----------------------------------------------------------------------------
Waiting == {"streaming", "posting", "final"}

TypeOK ==
  /\ settings \in [budget : 1 .. MaxBudget, adaptive : BOOLEAN,
                   streams : BOOLEAN, stateful : BOOLEAN]
  /\ transport \in {"stream", "http"}
  /\ pc \in Waiting \cup {"ask", "tools", "calls", "done"}
  /\ turn \in 0 .. TurnLimit
  /\ used \in 0 .. Budget
  /\ retried \in [toolless : BOOLEAN, invalid : BOOLEAN]
  /\ empties \in 0 .. 1
  /\ attempt \in 0 .. 2
  /\ batch \in Batches \cup {<<>>}
  /\ bad \in BOOLEAN
  /\ running \subseteq Calls
  /\ finished \subseteq Calls
  /\ answered \subseteq Calls
  /\ hasResults \in BOOLEAN
  /\ outcome \in {"none", "reply", "fallback", "error", "stopped"}
  /\ executed \in Nat /\ detours \in Nat
  /\ ran \in BOOLEAN /\ unsure \in BOOLEAN /\ resent \in BOOLEAN

\* The tool budget holds for the request as a whole, although each transport
\* counts its own calls, however the model splits them into batches.
WithinBudget == executed <= Budget

\* Once a tool has run, the request is never started over on the other
\* transport, which would run it again.
NeverReplayed == [][transport' # transport => ~ran]_vars

\* A provider that keeps the session never gets another request once it may
\* have recorded a turn whose answer is lost.
StatefulNotResent == settings.stateful => ~resent

\* Whenever the provider is asked, each call of the last assistant message has
\* its tool message, skipped calls and failed batches included.
AllAnswered == pc \in Waiting \cup {"ask"} => answered = Calls

\* The guard on model turns only stops a request that has spent more turns on
\* retries and meta tools than the guard allows for beside the budget.
GuardSpares ==
  pc = "ask" /\ turn = TurnLimit =>
    detours > IF settings.adaptive THEN 4 ELSE 1

\* The two limits of a request: on tools, and on the turns of the model.
LimitsSound == TypeOK /\ WithinBudget /\ GuardSpares

\* A streamed request that has run a tool ends with an answer, unless the
\* provider forbids it or may have recorded a lost turn of its session.
RanMeansAnswered ==
  pc = "done" /\ ran /\ transport = "stream" /\ outcome = "error" =>
    settings.stateful /\ unsure

\* Every request ends.
RequestEnds == <>(pc = "done")

-----------------------------------------------------------------------------
(* The inductive invariant *)

Looping == {"ask", "streaming", "posting", "tools", "calls"}

\* A call is charged to the budget when its results are reported.
Spent ==
  executed = used + IF pc = "calls" THEN Cardinality(Executable \cap Budgeted)
                    ELSE 0

\* What has been done leaves its mark in the conversation.
Traces ==
  /\ ran \/ executed = 0
  /\ turn = 0 /\ pc \in {"ask", "streaming", "posting"} => ~ran
  /\ ran /\ pc \notin {"tools", "calls"} => hasResults

Channels ==
  /\ pc = "streaming" => transport = "stream"
  /\ pc = "posting" => transport = "http"

\* A lost turn ends the request of a session, which has a single attempt.
Sessions ==
  /\ settings.stateful => ~resent /\ empties = 0 /\ (unsure => pc = "done")
  /\ pc \in {"posting", "final"} => attempt >= 1

InHand == pc = "calls" => Executable \subseteq running \cup finished

Turns ==
  /\ turn <= used + detours
  /\ pc \in Looping => used < Budget
  /\ pc \in Looping \ {"ask"} => turn < TurnLimit

IInv ==
  /\ TypeOK /\ Spent /\ Traces /\ Channels /\ Sessions /\ InHand /\ Turns
  /\ AllAnswered /\ RanMeansAnswered

=============================================================================
