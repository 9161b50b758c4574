# A formal model of MCP Assist

MCP Assist is a Home Assistant integration that lets a language model talk
about and control a home. This directory holds TLA+ modules translated from its
Python source, TLC configurations that model-check them, and theorems about
them with proofs for TLAPS. Paths are relative to
`custom_components/mcp_assist/` unless they start with `docs/` or `tests/`.

## 1. Inventory

All of the integration runs on Home Assistant's one asyncio loop. Code between
two `await`s is therefore atomic, and every `await` is a place where other
tasks run. That is the granularity of the models of concurrent parts: an action
is the code between two awaits of a task. Parts that nothing interleaves with
are operators, run one operation at a time over bounded inputs.

| Component | State | Operations | Hard behaviour | What makes it correct |
|---|---|---|---|---|
| Profile lifecycle, shared MCP server (`__init__.py`, `mcp_server.py` start/stop) | `hass.data`: server, reference count, port, index and chat log managers; `server_init_lock`; listening ports | set up, fail, unload, release, change the port | setup and release across awaits; the options flow runs without the lock; failures between two servers | the count is the number of holders, the lock excludes and is given back, a holder always has a server, nothing is left at zero |
| Shared settings, self-healing (`__init__.py`, `config_flow.py`) | data of the system entry, the settings the server works by | save, apply, take back, heal, remove | a save is applied across awaits and taken back as a whole dictionary, beside other flows, setups and removals | the running server works by what is saved; nobody but a user replaces saved settings |
| Config and options flow (`config_flow.py`) | pending data, stored options | steps of the forms, save | options are replaced by forms that show only some fields | a save loses nothing that it did not show |
| OpenClaw client (`openclaw_client.py`) | socket, connected flag, pending futures, runs, early events, connect lock | connect, send_message, receive loop, disconnect | answers before registration, stale receive loops, loss at any point, unload during a call | no call waits where nobody looks; a completion that was received is used; one connection |
| Index (`index_manager.py`) | index, build lock, refresh loop, inference cache | get_index, schedule, loop, stop | re-entrant read during inference; overlapping builds; a change between loop end and task end | no deadlock, never older, every change caught up with, no repeated bill |
| Agent tool loop (`agent.py`) | messages of the request, budget, retries | stream, POST, execute calls, final answer | retries and fallback after tools have run, sessions, mixed batches | budget kept, no repetition, complete conversations, always ends |
| Tools of a profile (`agent.py`, `tool_schema.py`) | cached tool list, loaded schemas | filter, cache, check, preload, search, load | settings and packages that change during a fetch or a call, requests that share the cached list | a profile sees and runs what it may use; what was loaded is offered |
| Conversation turns (`conversation_history.py`, `agent.py`) | turns per conversation, follow-up indication of the entity | read, add, sweep, indicate, decide | concurrent requests of one entity, expiry between requests | bounded, forgets only for a reason, requests stay apart |
| Chat log store (`chat_log_manager.py`) | entries, lock, debounced save, file | make, record, list, clear, flush, drop | a manager made across an await; saves that were scheduled before a clear | a clear is durable, what is in memory gets to disk |
| Memories (`memory_manager.py`) | memories and their copy on disk | remember, recall, forget, purge, prune | writes that fail after memory has changed; limits that shrink | what was stored or forgotten stays so, but for a restart after a write that failed |
| Tool packages and list (`tools/`, `mcp_server.py`) | loaded packages, registry, kept list, event stream clients | load, reload, list, notify | overlapping reloads, clients that go during a broadcast | what is listed has a living package; clients know the tools |
| MCP protocol (`mcp_server.py`) | model-request tokens | admit, check, dispatch, answer | malformed messages, calls that come after their caller has given up | one answer for each that asks; a selection serves its own call |
| Hermes client (`hermes_client.py`) | session per conversation | one turn, retry, fallback | servers that forget, rotate, refuse or break off | each turn once, with its own conversation before it |
| LLM providers (`llm_providers/`, `agent.py`) | accumulators of streamed calls | build payloads, parse streams, choose a model | fragments in any order, cut off anywhere | calls are what was sent; requests are ones the API takes |
| Discovery, targeting, actions (`discovery.py`, `mcp_server.py`) | none | search, page, details, resolve, act, observe | three derivations of what belongs to a place; exposure | what is found is what is acted on; the target of an action is exposed |
| Weather and calendars | none | forecast of a day, events | days, windows, limits, several sources | complete, in order, what was asked for |
| Recorder (`tools/packages/recorder/`) | none | timeline, durations, streaks, statistics | edges of windows, missing and repeated rows, resets | agrees with the state hour by hour |
| Calculator, web, music, maintenance and bridge tools, schemas, redaction, other providers | none | queries | data, arithmetic, I/O | functional; not modelled (section 7) |

How they interact: the lifecycle creates the server, the index manager and the
chat log manager and connects the client of an OpenClaw profile. The agent
calls the server's tools over HTTP on localhost, with a token when a call needs
the profile's model; it reads the index for its prompt, keeps the history, and
writes the chat log. The index manager calls the agent for inference, whose
prompt reads the index again. The options flow replaces the server, or has it
read its settings and reload its tools, under the running profiles.

In `PROJECT.json`, "components" says for each part what is modelled, and
"hazards" lists the behaviours that are hard to test, each with its line and
the properties that would notice it going wrong.

## 2. Plan

Done, in order of importance: the lifecycle with its abstract runtime, the
OpenClaw client, the index, the tool loop, the conversation history; then the
shared settings with the flows, the chat log store, tool reloads with the event
stream; then the sequential parts: home, recorder, model traffic, protocol,
tools of a profile, Hermes; the model selections, the memories and the forms.

What is left:

1. Compositions: the chat log manager with the setups that look it up before
   they wait for the lock; a memory call beside a reload that replaces the
   manager; a tool call that its caller gives up beside the agent's next turn.
2. Cancellation of setups and of requests.

## 3. Modules and code

Each module's head says what it models, and the comment over a definition what
it is in the code; "map" in `PROJECT.json` names the lines. Definitions called
"Mutant" are single changes of the definition after them and are used by no
specification: with one of them in place, the property it is listed with fails.

### Concurrent parts

**SharedServer.** A task is a profile (its setup, unload and release) or an
options flow. `pc` names the await at which it is suspended; `lock` is the
holder of `server_init_lock`; `refcount`, `shared`, `mcpPort`, `index`,
`chatLog` and `entryData` are the keys of `hass.data`; `up`, `portOf` and
`entryOf` belong to server objects; `mine`, `old` and `prev` are local variables
of tasks. Setup is `QueueSetup`, `StartShared`, `BindShared`/`StartFails`/
`CleanedUp`, `SharedStarted` or `JoinShared`, then `SetupDone` or `SetupFails`;
unload is `Unload`, `Disconnect`, and the release `ReleaseOne` or `ReleaseLast`,
`SharedStopped`, `ChatLogFlushed`. A port change is `SaveAndRestart`,
`BindNew`/`NewFails`, `StopOld`/`StopOldRaises`, `Undone` or `PublishNew`. The
port itself (`Listening`) is external: a port is bound by one site at a time,
and `stop()` releases it at its cleanup.

**SharedRuntime.** What profiles rely on: closed, opening, open, closing.
`SharedServer` maps its state to it (`Abstract`): the users are the profiles
with a reference, the phase is read off the holder of the lock (`Phase`).

**ConfigFlow.** Config flows (`StepUser` ... `StepMcpServer`, `CreateEntry`),
options flows (`StepInit`, `SaveShared`, `Apply`, `ApplyFails`), self-healing
setups (`FindNoSystemEntry`, `Heal`), a server that starts with the settings it
has read (`BeginStart`, `MakeServer`, `EndStart`), and removals. Shared settings
are a port, which moves the server, and a token, which it reads again; how a
server starts and stops is in `SharedServer`. `unheard` records that settings
were saved which nobody tells a server of.

**OpenClawClient.** Tasks are `send_message` calls and an unload. A call passes
`sending`, `awaitAck`, `awaitRun` and `grace`, or reconnects through
`wantConnect`, `tearing`, `opening` and `handshake`. Each socket has a receive
loop and a queue of delivered messages. `Detach` takes the socket from the
client and leaves its loop running while the keepalive task is awaited;
`LoopCancelled` is the cancellation of the loop after that. Until then the loop
of a detached socket reads on, and when an unload tears down beside a reconnect
it may end, by a loss, while a new socket is in use: that is the case for which
`ReaderEnds` asks whether its socket is still the client's
(`openclaw_client.py:588`), and `LossIsOwn` what follows from that. The gateway is
external and may answer in any order of acknowledgment, completion event and
final response, or not at all.

**IndexManager.** The index is the number of registry changes it has seen. A
build is `gather`, `gathered`, `llm`; readers and the refresh loop build under
`generateLock`. The cache of inference is the last prompt, its success, and
whether its cooldown is running.

**ToolLoop.** One request with the transport it is on, its turn, used budget,
one-time retries and the batch of tool calls it executes; `executed`, `ran`,
`unsure` and `resent` are history variables that say what was really done.
Tool calls are `home` (counted against the budget) or `meta` (those of
`ADAPTIVE_META_TOOL_NAMES`, which are not) in every mix; `bad` says whether
malformed ones came beside them.

**ConversationTurns.** `clock` is the time; a turn is the moment it was
recorded. `ReadHistory`/`ReadExpired` are `get_history`, `Answer` is the part of
`_build_response_result` that has no await: `add_turn` with its sweep, and the
follow-up decision, which consumes `_expecting_response` in the default mode.
The code filters by age and then takes the last turns; since turns are in the
order of time the model takes suffixes. It evicts by sorting on the last turn;
the model evicts what has enough more recent conversations behind it, the same
set because timestamps differ (an answer moves the clock).

**ChatLogStore.** `FindManager`, `MakeManager` and `Loaded` are
`_async_get_chat_log_manager`, which awaits the file between looking and
publishing, so that two callers may each make a manager. Records, lists, clears
and the flush of an unload wait for a manager's first-come-first-served lock.
`pending` and `writing` are Home Assistant's `Store`: a delayed save reads the
data when its delay is over, writes of one store exclude each other, an
immediate save cancels the delayed one. `astray` records that a manager other
than the published one was changed. A clear is a list comprehension;
`Filtering` has it in closed form.

**ToolServer.** A reload (`Reload`, `SaveSettings`) passes `Select`/`LoadEnds`
for the built-in and then for the external packages and tells the clients
(`Send`, `SendEnds`); nothing keeps two of them apart. A package object has the
number of its load, so that an object that nobody refers to any more can still
be alive. `ListTools` is the request that keeps the list with its signature.
Clients connect, leave and break while a broadcast is under way. `SendEnds` takes
the dead ones from the live list one after the other, and raises at one that has
already left.

**ModelRequests.** An agent that has chosen models leaves its selection with the
server under a token (`Register`, or `NoRoom` when 128 are retained) and sends
the token with its tool call. The request arrives or is lost (`Arrive`, `Lose`),
the call ends by an answer, an error or its timeout (`EndCall`), others send
messages (`Other`), profiles are removed and the server is stopped, in any
order. `Arrive` and `Other` are `Serve` of `McpProtocol`.

**MemoryStore.** `memories` is the list of the manager and `stored` its copy on
disk. Each call (`Remember`, `Recall`, `ListCategories`, `Forget`,
`ForgetMatching`) purges what has expired, does its work and writes, where the
code does. A write may fail: Home Assistant's `Store.async_save`
(`memory_manager.py:302`) catches the error and logs it, so the call goes on and
reports success. `behind` says that the last write failed, and `undone` which
memories came or went by a restart after that. Texts and categories that are too
long are refused (`LongestText`, `LongestCategory`). A call holds the manager's
lock from start to end and is one step. `Restart` is a new manager that loads the file, `NextDay` the
clock, `ChangeLimits` a save of the shared settings, from which
`_memory_max_items` and its like are read at each call. Memories are numbered in
the order of `created_at`, and "sorted, then cut" is `Top`: what has fewer than
n others above it. `noted` and `forgotten` remember what calls stored and
deleted; `reply` is what the last call found.

**ProfileTools.** Requests of a profile ask its agent for the list of tools, side
by side: from `_cached_profile_mcp_tools` (`toolCache`), or from the server in
`AskForTools`, `ServerLists` and `TakeList` or `FetchFails`; and they call tools
(`CallTool` is the check of `_call_mcp_tool`, `CallEnds` the dispatcher of the
server). Settings are saved (`ChooseSettings`) and packages reloaded
(`ReloadTools`) at any time. The key of a list is made before the server is
asked, the list is what the server has when it answers, and the filter applies
what is set when the answer comes. Kinds of tools stand for packages, families
and external packages; a version is what a reload has loaded. `right` remembers
that nothing changed while a request waited. The rest of the module, adaptive
loading, is sequential.

### Sequential parts

`OperationFrame` runs them: a request with any input of a bounded set, the
result the operators compute, then the next. `Operations` is their composition
and has the request sets of the home; the others are in the modules named
last in each line below. Many requests are whole sequences of calls. Beside
them `Operations` runs `ModelRequests`, `MemoryStore`, `ConfigForms` and
`ProfileTools`, which have no variable in common with them or each other, so
that each moves while the others rest; `MCOperations` is its instance.

- **Forms**: `ConfigForms`. Which fields a form shows, with what values, what it
  submits, and how that is merged and normalised. One field stands for each
  group that the code treats alike. `profile` is an entry with its data and
  options, `sharedData` the data of the system entry; a form is opened, changed
  and saved in one step, as often as one likes, and `saved` remembers what the
  last save was given and what was before. The options flow shows both forms of
  a profile in turn and saves them together; here each is saved on its own.
- **Home**: `HomeRegistry` (entities, devices, areas, floors, labels),
  `Discovery` (filters, scores, pages, details), `HomeActions` (targets,
  services, parameters, the wait for an effect), `HomeAnswers` (forecasts and
  calendars), with `MCHomes` for small homes and requests.
- **Past**: `RecorderHistory` (rows of one entity), `RecorderStatistics`
  (buckets, resets, coverage, comparison), run by `RecordOperations` over
  `MCRecords`.
- **Model traffic**: `ModelTraffic` (assembly of streamed calls, payloads of the
  chat, Responses, Anthropic and Ollama APIs, the choice of models), run by
  `TrafficOperations` over `MCTraffic`. Arguments are sequences of pieces, and
  the JSON parses when exactly the pieces of one call are there.
- **Protocol**: `McpProtocol` (admission, checks, answers over HTTP and
  WebSocket, and what a tool runs under), run by `TrafficOperations`.
- **Agent**: the adaptive loading of `ProfileTools`, and
  `HermesTurns` (turns of two conversations with a server that may forget,
  rotate, refuse or break off; the session is stored at the head of a response,
  and the next turn may be sent before it, after it or after the body), run by
  `AgentOperations`.

## 4. Runs

| Run | Bounds | What it shows |
|---|---|---|
| `shared_profiles` | 3 profiles, 1 port, 2 server objects | any interleaving of setups, failures and unloads: `ReleasedSound` (port free at start, nothing left at zero, the server bound to a live profile), refinement of `SharedRuntime`, every setup and unload ends |
| `shared_port` | 2 profiles, 1 options flow, 2 ports, 4 server objects | `SharedSound` (the lock excludes, the count is exact, a release never waits) and that a holder is served, also during port changes |
| `settings` | 2 profiles, 1 config flow, 2 options flows, 2 ports, 2 tokens, 3 saves | the server works by what is saved, a failed save is taken back, options come after the settings, no setup overwrites a save |
| `openclaw_safety` | 2 calls, 2 sockets, 2 early runs | `AnswersKept`: loss and reconnect at every point, answers in every order |
| `openclaw_live` | 2 calls, an unload, 2 sockets, a gateway that refuses or is silent | `ConnectionSound`: one connection, whose reader ends those who wait on it, and no call fails for the loss of another connection; `WaitsEnd`: calls on a dead socket end, the connect lock is given back |
| `index_builds` | 2 readers, the loop, 1 prompt, 2 changes | no deadlock, never older, never billed twice, catches up, fills the first index |
| `tool_loop` | budget 2, batches of up to 3 calls | all of `ToolLoop`, and that a request ends |
| `conversation_history` | 2 requests, 3 conversations of which 2 are kept, 2 turns each, age 4 of 5 moments | bounded, forgets for a reason, own context |
| `conversation_expired` (violation) | the same | reading an expired history raises |
| `chat_logs` | 2 profiles, 3 logs of which 2 are kept, 2 managers, clears of one profile's logs | memory is in the file or on its way, what was cleared stays cleared, every call ends |
| `tool_server` | a built-in and an external package, 2 reloads at a time and 2 in all beside the start, 4 loads, 2 clients | the kept list, living packages behind what is listed, clients that know the tools |
| `operations` | see below | the ten properties of the sequential parts, of the tool calls with a model selection, of the memories, of the forms and of the tools of a profile |

Bounds of `operations`: forms saved any number of times, each save with at most
one field changed, of a profile or of the shared settings; homes of a few entities, devices and areas that differ in what is
exposed, hidden or placed; pasts of up to a few rows over a day, and meters with
missing, doubled and reset buckets; two memories stored on two days under two
settings, beside any number of other memory calls, failing writes and restarts;
streams of one or two calls of up to two pieces;
any single message; three overlapping tool calls of two profiles beside three
messages of others; two requests that share a list of tools, any number of
lists and calls, and two changes of settings or reloads; a few turns of two
conversations. Limits of the code that
are smaller in the model: `MonthDays` 2, `LeastItems` 1 for 10 memories,
`MostRequests` 2 for 128 model requests, `MostSessions` 1 for 128 Hermes
sessions, `MostNamed` 2 for 8 tools loaded by name. Each is reached and
exceeded.

Several properties are conjunctions, so that one run asks them together; the
comment over each part says what it is. `IndexSound`, `LimitsSound`,
`HistorySound`, `ConnectionSound`, `FileSound`, `ListSound`, `ProfilesSound` and
`SharedSound` contain the type invariant of their module.

Why the bounds are enough for what they are for: three profiles give a holder,
a waiter and a newcomer. Two server objects suffice without flows since one
that nobody refers to is reused, and with flows there are as many as tasks can
refer to. Two options flows are one that applies and one that saves meanwhile;
three saves let one be taken back under another. Two sockets are the stale one
and the new one. In `openclaw_live` a call gets no further than its
acknowledgment, since the gateway accepts nothing: waiting for a run and the
grace after it are reached in `openclaw_safety`, without an unload, and
`ConnectionIsSound` covers every answer beside every unload. Two registry changes are one that a build has seen and one it
has not. A budget of 2 with batches of 3 has calls within, at and beyond the
budget. Three conversations with room for two force an eviction, and five
moments with an age of four let turns both expire and be dropped by the other
two limits. Two managers are one that was dropped and the one after it; three
logs of which two are kept overflow it. Two reloads overlap. Symmetry is used
in safety runs only, over interchangeable requests, profiles, flows, clients and
conversations; `View` of `MCSharedServer` identifies states that differ only in
what unreferenced server objects last held.

`CHECK_DEADLOCK FALSE` is in the runs of systems that may stop: a profile whose
unload was refused, calls that are finished, an index manager that is stopped, a
request that is answered, flows, logs and reloads that have reached their
bounds. `ConversationTurns` and `Operations` are checked for deadlock.

**Fairness.** Suspended tasks are resumed (asyncio), and `asyncio.Lock` is first
come, first served: strong fairness for a waiter, except in `ChatLogStore`,
where the queue is part of the state and weak fairness is enough. Connection
attempts, provider requests (aiohttp total timeouts), tool calls (10 s), tool
lists (5 s) and file operations end. In `OpenClawClient` the steps that need no
word from the gateway are fair and its answers are not; neither are the timeouts
of a call, so that `FailFast` does not rest on them. Nobody has to set up,
unload, save, record or change anything.

**Assumptions about others.** The recorder gives a row at the start of a window
(the state in force there) before the rows inside it. A Hermes session that the
server has told begins with the messages that it was sent. Home Assistant's
delayed save reads the data when it writes. Its `Store.async_save` logs a write
that fails and does not raise.

## 5. Known disagreements

`conversation_expired` is run as a violation: `get_history` deletes the key of a
conversation whose turns have all expired and then reads it, so the first
request after a day of quiet ends in a `KeyError`.

The following invariants state what a comment, docstring, document or test says
and are violated by what the code does. They stand in their modules without a
run; add one as an `INVARIANT` to the named cfg to see the behaviour.

| Invariant | Where | What is said | What happens |
|---|---|---|---|
| `StoppedAtZero` | `SharedServer_port.cfg` | `__init__.py:890` "stopping shared runtime at zero" | a port change that overlaps the last release publishes its new server (line 344) after the release has ended |
| `DisconnectIsFinal` | `OpenClawClient_live.cfg` | `openclaw_client.py:400` "Disconnect from the OpenClaw Gateway" | a call under way reconnects, and nobody closes that connection |
| `StopIsFinal` | `IndexManager_builds.cfg` | `index_manager.py:153` "Stop index manager listeners and pending refresh work" | a reader's build schedules the first gap fill after the stop |
| `FollowUpOwn` | `ConversationTurns_history.cfg` | `docs/configuration.md:279` "Continue when the assistant expects a follow-up" | the indication is kept on the entity (`agent.py:2485`): the request that answers next takes it |
| `ClearDurable` | `ChatLogStore_reload.cfg` | `chat_log_manager.py:243` "Deletion must be durable before we return" | a manager that was replaced writes its logs back |
| `NothingLeftBehind` | `ToolServer_reloads.cfg` | `tools/__init__.py:165` "Shut down any loaded tool packages cleanly" | of two overlapping loads one leaves packages that no shutdown finds |
| `EveryClientTold` | `ToolServer_reloads.cfg` | `mcp_server.py:2166` "Send notification to all SSE clients" | a client that leaves during a broadcast makes it skip another or raise, and one that lists the tools while the server still starts is not told of those that load after |
| `UncheckedInherits` | `Operations_calls.cfg` | `tests/test_config_flow.py:547` "Unchecked profile tool toggles should fall back to shared settings" | a profile created with the tool disabled keeps that in its data when the box is unchecked later |
| `FormShowsProfile` | `Operations_calls.cfg` | `config_flow.py:2368` "Get current values from options, then data, then defaults" | the response mode is looked up in the options alone (line 2378), so the form of a new profile shows the default, and saving it unchanged replaces the mode |
| `AdvertisedLimitHonoured` | `Operations_calls.cfg` | `mcp_server.py:2370` "max: N", of the profile's setting | the call is cut to the constant (line 3724) |
| `ForecastIsOfThatDay` | `Operations_calls.cfg` | `forecast.py:198` "entries that map to the requested local date" | without a dated match the entry is taken by its position |
| `ConfirmedMeansDone` | `Operations_calls.cfg` | `tests/test_mcp_server.py:2548` "should confirm completion once the expected state is reached" | only the first ten entities are looked at (`mcp_server.py:4864`) |
| `StreakIsRightNow` | `Operations_calls.cfg` | `recorder.py:148` "how long the entity has continuously been in the matching state right now" | it is measured to the end of the window that was asked for |
| `CutCallsDoNotRun` | `Operations_calls.cfg` | `agent.py:4898` "a stream cut off mid-arguments would otherwise run the tool with no arguments" | a call cut off before its first argument has an empty buffer and is run |
| `StaleSessionRetried` | `Operations_calls.cfg` | `hermes_client.py:185` "retrying only a server-rejected stale session" | a session that is rejected over the plain HTTP fallback is neither retried nor dropped |

## 6. Proofs

Every theorem holds for all values of the constants under the assumptions named
`...Assumption` in the modules, which TLC evaluates in the runs. Where a run's
property is a conjunction, the theorem is of the whole conjunction. TLC was
asked first whether each inductive invariant holds in the run's instance.

**SharedServer_proof**: `SharedIsSound` with its parts `TypeCorrect`,
`LockExclusion`, `CountIsExact` and `ReleaseAtOnce`, and `ProfilesServed`. None
of the properties is inductive alone. That a holder is served needs that the
published server listens or is about to be replaced by one that does
(`SharedServes`), which needs that nobody else starts or stops it (`Apart`) and
that a task has got as far as its `pc` says (`Progress`). `IInv` joins them; the
count is related to the set of holders by the cardinality of finite sets.
`ReleasesAreSound` and `RuntimeRefined` are theorems of systems without options
flows (`Flows = {}`, as in `shared_profiles`): beside a flow `StoppedAtZero` is
false, as section 5 shows. They need `QuietInv` beside `IInv`: what
listens is published or about to be, a server is published exactly while there
are users, what the holder of the lock has already taken down, and whose record
the server reads. `RuntimeRefined` is the initial state and the step relation of
`SharedRuntime`; its fairness stays with TLC.

**ConfigFlow_proof**: `ProfilesAreSound`, `ServerAgrees`, `OptionsAreLast`,
`SavedSettingsStay`. `SettingsAgree` speaks of states without a change on its
way, so the steps that end a change must know what it leaves behind: at most one
change is on its way that a server will hear of, it is to what is saved, and the
server still works by what the flow would go back to (`OneChange`). A failing
change needs that its flow knows the way back (`Changing`), a starting server
that it has read what is saved (`StartsCurrent`), and flows that they know their
profile (`FlowsNamed`). The action properties follow from `IInv` and the step.
The module also has `FormsAreSound`, for any submissions whatever and any number
of saves. What a save stores is worked out one dictionary at a time: the boxes
and the prompts change no other field (`DisablesApplied`, `PromptsNormalized`),
so a hidden field is stored exactly if it was, with its value (`OptionsStored`,
`FieldsKept`); shared settings likewise, but for the engine that search needs
and the range of the lifetimes (`SharedNormalized`, `SharedKept`). The invariant
adds that stored boxes are on or off and lifetimes are numbers (`FormsIInv`),
which `FormsAssumption` says of what is filled in, as the forms' schemas do.

**OpenClawClient_proof**: `ConnectionIsSound`, `AnswersAreKept` and
`BufferSuffices`. For `ConnectionSound`, a
connected client has a reader because reconnects exclude each other and only
the holder of the lock opens sockets (`LockHeld`, `SocketsCounted`). A loop
whose socket was detached ends without effect since what is torn down is never
in use again (`SocketsCounted`), which gives `LossIsOwn`. That whoever waits is
watched needs where its futures are: an unresolved
acknowledgment in `pending`, a run that is not over in `runs`, an unresolved
answer in `finals`, and the socket it was sent on under a reader or a teardown
that is about to fail everything (`CallsRegistered`). One lemma per action;
`EarlyWithoutType` says that the buffer of early events stays one.
`AnswersKept` needs where the first answer and the completion of a call can be:
on the way on its own socket, the answer before the completion (`OnTheWay`,
`AnswerFirst`); in the buffer, once (`Buffered`); or in a registered run that
knows of it (`Registered`). `Keeping` joins these; an unload may cut in, so the
invariant is `Kept`, `Keeping` until then. It is inductive only as long as the
buffer has room when a completion is read (`Room`), because the code drops the
oldest run when there are more than eight (`openclaw_client.py:653`).
`BufferSuffices` therefore assumes `[]Room`, with any number of calls;
`AnswersAreKept` assumes instead that there are no more calls than runs that are
buffered, and gets `Room` from an injection of the places of the buffer into the
other calls.

**IndexManager_proof**: `IndexIsSound` with `TypeCorrect` and `ReentrantRead`,
`NeverOlder`, `BilledOnce`. `IInv` adds that exactly the builder has the lock
(`OneBuilder`), that an index is stored before any inference (`IndexFirst`),
that a build has read registries at least as new as the index (`Newer`), and
that the cache describes the last call (`Remembered`). The two action properties
follow from `IInv` and the step.

The same module has two theorems of `Operations`, about what the server does
with one message, kept apart from the theorems of components with more of their
own because `Operations` makes every proof beside it slow. `ProtocolIsSound`: a message
that asks for an answer gets one, whichever way it is malformed, and no other does
(`MessagesAnswered`), and a call is processed once (`ProcessedOnce`). `ActionsStayExposed`: whatever the target of
a call is, and whatever selectors are among its parameters, however old keys are
migrated (`MigratedClean`) or entities given in the parameters are split off
(`SplitClean`), the target that Home Assistant gets is of entities that are
exposed, named one by one and of the domain (`ResolvedVisible`, `KeptFit`). It is
a theorem about the target only: see section 7 for what other parameters name.
Both hold for any home, target and parameters that the calls come with;
`OperationsNamed` says which requests there are.

**ToolLoop_proof**: `RequestIsSound` with `TypeCorrect`, `BudgetKept` and
`GuardSpared`; `ConversationComplete`, `SessionSafe`, `WorkReported`, `RunOnce`.
`IInv` says where a call is charged (`Spent`), how turns relate to retries and
reports (`Turns`), and what the history variables mean at each point (`Traces`,
`Channels`, `Sessions`, `InHand`). That a batch fits into what is left of the
budget is proved by an injection: the rank of a budgeted call among the
budgeted ones. `SelectionsAreSound` is of `ModelRequests`, the server's side of
the loop's tool calls: a selection is retained exactly while its request may
still come in time (`RetainedWhileWaiting`), a request is on its way at most once
(`SentOnce`), and serving one message uses up the selection of that call and no
other (`OwnServed`, `OtherServed`).
`ToolsAreAllowed` is of `ProfileTools`, for any tools, kinds, settings, versions
and number of requests. Its core is that the key of a list says everything that
the list depends on (`KeyDetermines`), so a list that was kept rightly is right
whenever its key comes back, however many changes later (`KeptIsRight`); and
that a request nothing has disturbed waits with the key, the list and the
permission of now (`WaitsRightly`).

**ConversationTurns_proof**: `HistoryIsSound` from `TypeCorrect`,
`HistoryBounded` and `ContextIsOwn`; `ForgetsOnlyForAReason`. That the eviction leaves no more conversations
than allowed is again an injection: the number of more recent conversations
tells the survivors apart, because no two have a turn of the same moment
(`Distinct`, which needs `Past`). `NoGaps` (the history holds suffixes of what
was recorded, a context is a piece of it) makes `OwnContext` inductive. A reason
to forget stays one as time passes and turns are recorded (`ReasonStays`), so only the turns that a step itself drops have to be looked at: those
of a read and of the sweep have expired, those that an answer pushes out have
`MaxTurns` newer ones, and the conversations ahead of an evicted one are among
its `Rivals`.

**ChatLogStore_proof**: `FileIsSound` and `NothingIsLost` from
`InvariantHolds`. `IInv` says that every waiting call is in one place of one
queue (`LocksSound`), so that who has the lock may write; that records are
numbered in the order in which they wait (`Ordered`, `Numbered`), so that a list
stays in order and the log it drops is its oldest; and, while `astray` is false,
what of memory, delayed save, write under the lock and file follows what
(`Follows`). What filtering a list leaves, its order and its length, is
`WithoutKeeps`; the largest and smallest of a finite set of numbers are
well-founded choices. The module also has `MemoryIsSound`, about the memories:
`MemoriesAreKept` becomes inductive with the limit stated for the disk as well
(`MemoryIInv`), since a restart brings that back. It promises nothing for a
restart after a write that failed: what differs then is in `undone`, and as long
as the last write did not fail the disk has what memory has (`OnDisk`). No two memories have the same
number of others above them (`PlacesDiffer`), which makes the first n of a
ranking n memories that go before the rest (`TopIsBest`), and a memory that is
pruned has as many newer ones as are kept (`NewerAreFew`). Scores and settings
only have to be numbers within bounds (`ScoreIsNumber`, `LimitsWithin`), so
texts, queries and limits are arbitrary.

**ToolServer_proof**: `ListIsSound`, `ToolsAreServed`, `ClientsDoKnow` from
`InvariantHolds`. `IInv` speaks of reloads half-way: the registry is stale only
while somebody loads (`RegistryFollows`), what is loaded lives unless it is being
shut down (`LoadedLives`), without an overlap nothing else lives (`NoneLeft`),
and a client that does not know the tools is ahead of a broadcast or of a reload
that will broadcast (`WillBeTold`). The last needs the positions of clients in
the list that is walked while clients come and go: `WithoutKeeps` and
`WithoutTwice` say what a removal does to them, and `disturbed` when the walk
is excused.

Only model-checked:

- every liveness property, and of the refinement of `SharedRuntime` its fairness
  (liveness under fairness and `ENABLED` are beyond the prover);
- of `operations`, `HomeSound`, `PastSound`, `TrafficSound` and `AgentSound`.
  They are about what recursive or folded definitions compute, and proofs about
  those need induction over data, which the library states with operator
  parameters that no installed prover instantiates.

## 7. Abstractions and limits

- A setup that is cancelled is not modelled: Home Assistant cancels setups when
  it stops. `except Exception` (`__init__.py:836`) does not see the
  cancellation, so one after the increment leaks its reference. The same holds
  for requests that are cancelled inside the tool loop.
- The exception of an OpenClaw disconnect during an unload (`__init__.py:877`),
  which would skip the release, is not modelled.
- `SharedStopped` joins `async_stop` of the index manager with the removal of
  the keys after it; the lock is held and nobody reads them in between.
- A port saved while the first setup is starting is not applied, since there is
  no published server yet: the code returns early and so does the model
  (`SharedServer`; `unheard` in `ConfigFlow`).
- A port change that overlaps a release may publish a server bound to the
  removed profile until the flow has ended; `BoundToLiveProfile` is stated for
  states without a flow under way.
- A setup that waits for the last release goes on with the chat log manager it
  looked up before, which the release removes: profiles then have no manager
  until a service call creates one. `SharedServer` has the steps; what managers
  that were replaced do to the file is in `ChatLogStore` (`astray`).
- More than eight runs that the client has not registered evict the oldest
  early events (`openclaw_client.py:653`). The run has as many calls as there is
  room.
- Failures while the index is generated are not modelled.
- `ToolLoop`: text to speech and the text of results are left out; that a tool
  succeeded is data; `_get_mcp_tools` returns a list, perhaps an empty one, and
  does not raise. A tool call that its caller gives up after 10 s may still run:
  `McpProtocol` has what becomes of its model selection, not what it does to the
  home.
- `ProfileTools`: a list or a call that a change overlaps is left open. A tool
  that a reload drops between the server's list and the filter is shown, since
  it is no longer recognised as an external one. A call does not outlive its
  request, and the effects that the agent remembers of tools that are gone
  (`_tool_effects_by_name`) are any.
- `ConversationTurns`: a request that goes to OpenClaw records a turn without
  reading the history, which adds no interleaving that the model lacks.
  `clear_conversation` and `clear_all` have no caller in the integration.
- A memory call on a manager that a tool reload replaces meanwhile is not
  modelled; within one manager the lock is held from start to end of a call.
- The parameters of an action that are not selectors go into the service call
  unchecked (`mcp_server.py:4668`), among them those that name entities:
  `group_members` of `media_player.join`, `media_player` of `camera.play_stream`,
  `media_player_entity_id` of `tts.speak` (`domain_registry.py:232`, 340, 707).
  The model passes them on too (`besides`), and `ActsOnExposed` is about the
  target only, as is `docs/security-and-privacy.md:39`.
- Listing, details and resolution read one `EntityContext` in the model, where
  the code derives what belongs to a place three times: that the three drift
  apart in the data they read is not expressible, that their filters do is.
- `settings` has one config flow, so that two of them at once are covered by
  `ProfilesAreSound` alone.
- A memory write that fails is only logged: the tool reports success, and a
  restart before the next write undoes the change (`MemoryStore`).
- `ChatLogStore`: writes succeed, and the file is of the current version, whose
  records are redacted already, so that loading it writes nothing
  (`chat_log_manager.py:266`).
- Texts are sequences of words: matching is on runs of words, case is not
  distinguished. How a text matches a tool or a response pattern is an input.

Not modelled, with the reasons in "components": addresses and headers of the
other providers; tool schemas and the shortening of results (rewriting of JSON
without control); the calculator and units (arithmetic on reals); web, maps and
wiki tools, music, maintenance and the bridge to other APIs (I/O and formatting,
each call alone); redaction, localisation and diagnostics. Prompts and the
services of Home Assistant are data or external.
