---------------------------- MODULE SharedServer ----------------------------
(***************************************************************************)
(* The life of the one MCP server that all profiles (config entries) of    *)
(* the integration share: __init__.py with MCPServer.start and .stop.      *)
(*                                                                         *)
(* The first profile to be set up starts the server, later ones join it,   *)
(* and the last one to go stops it.  hass.data holds the reference count,  *)
(* and server_init_lock covers setup and release, but not the options flow *)
(* that moves the running server to another port.  Each action is the code *)
(* between two awaits of one task.                                         *)
(***************************************************************************)
EXTENDS Integers, FiniteSets

CONSTANTS Profiles,   \* config entries that are profiles
          Flows,      \* options flows that save the shared settings
          Ports,      \* ports the shared server may be given
          Servers,    \* MCPServer objects; unreferenced ones are reused
          NoOne, NoServer, NoPort   \* absent values

ASSUME TasksAssumption ==
  /\ IsFiniteSet(Profiles)
  /\ Profiles \cap Flows = {}
  /\ NoOne \notin Profiles
  /\ NoServer \notin Servers
  /\ NoPort \notin Ports

Tasks == Profiles \cup Flows

\* The value of refcount while hass.data has no "mcp_refcount".
Absent == -1

VARIABLES
  pc,         \* where each task is suspended
  lock,       \* the profile task holding server_init_lock
  refcount,   \* hass.data: mcp_refcount
  shared,     \* hass.data: shared_mcp_server
  mcpPort,    \* hass.data: mcp_port
  index,      \* hass.data: is there an index_manager
  chatLog,    \* hass.data: is there a chat_log_manager
  entryData,  \* profiles with their own record in hass.data
  setting,    \* the port saved in the system entry
  up,         \* per server object: is it listening
  portOf,     \* per server object: its port
  entryOf,    \* per server object: the profile it reads its settings from
  mine,       \* the server a task is starting or stopping
  old,        \* the server an options flow replaces
  prev        \* the port an options flow restores if it fails

srv == <<up, portOf, entryOf>>
data == <<refcount, shared, mcpPort, index, chatLog, entryData>>
vars == <<pc, lock, data, setting, srv, mine, old, prev>>

-----------------------------------------------------------------------------
Init ==
  /\ pc = [t \in Tasks |-> "idle"]
  /\ lock = NoOne
  /\ refcount = Absent
  /\ shared = NoServer
  /\ mcpPort = NoPort
  /\ index = FALSE
  /\ chatLog = FALSE
  /\ entryData = {}
  /\ setting \in Ports
  /\ up = [s \in Servers |-> FALSE]
  /\ portOf = [s \in Servers |-> setting]
  /\ \E p \in Profiles : entryOf = [s \in Servers |-> p]
  /\ mine = [t \in Tasks |-> NoServer]
  /\ old = [f \in Flows |-> NoServer]
  /\ prev = [f \in Flows |-> setting]

Goto(t, label) == pc' = [pc EXCEPT ![t] = label]

\* A server object nobody refers to any more, or one never used.
Fresh(s) ==
  /\ ~up[s]
  /\ s # shared
  /\ \A t \in Tasks : mine[t] # s
  /\ \A f \in Flows : old[f] # s

Listening(port) == \E s \in Servers : up[s] /\ portOf[s] = port

\* MCPServer(hass, port, entry), made by task t.
NewServer(t, s, port, entry) ==
  /\ Fresh(s)
  /\ s = CHOOSE unused \in Servers : Fresh(unused)
  /\ portOf' = [portOf EXCEPT ![s] = port]
  /\ entryOf' = [entryOf EXCEPT ![s] = entry]
  /\ UNCHANGED up
  /\ mine' = [mine EXCEPT ![t] = s]

\* site.start() binds the port unless a running server has it.
Bind(t) ==
  /\ ~Listening(portOf[mine[t]])
  /\ up' = [up EXCEPT ![mine[t]] = TRUE]
  /\ UNCHANGED <<portOf, entryOf>>

\* Mutant: the socket is left to be closed by the last request.
CloseDeferred(s) == s \in Servers /\ UNCHANGED srv

\* site.stop() closes the listening socket before the first suspension of
\* MCPServer.stop().  The library raises for a site already stopped.
Close(s) ==
  /\ up' = [up EXCEPT ![s] = FALSE]
  /\ UNCHANGED <<portOf, entryOf>>

-----------------------------------------------------------------------------
(* async_setup_entry *)

\* No chat log manager yet: create one and load its file.
InitChatLog(p) ==
  /\ pc[p] = "idle"
  /\ ~chatLog
  /\ Goto(p, "initChat")
  /\ UNCHANGED <<lock, data, setting, srv, mine, old, prev>>

\* The chat log manager is there (or has just been loaded).
ChatLogReady(p) == pc[p] = "initChat" \/ (pc[p] = "idle" /\ chatLog)

QueueSetup(p) ==
  /\ ChatLogReady(p)
  /\ lock # NoOne
  /\ Goto(p, "wantLock")
  /\ chatLog' = TRUE
  /\ UNCHANGED <<lock, refcount, shared, mcpPort, index, entryData,
                 setting, srv, mine, old, prev>>

EnterSetup(p) ==
  /\ ChatLogReady(p) \/ pc[p] = "wantLock"
  /\ lock = NoOne
  /\ chatLog' = (chatLog \/ pc[p] # "wantLock")

\* First profile: start the index manager, then the server.
StartShared(p) ==
  /\ EnterSetup(p)
  /\ shared = NoServer
  /\ \E s \in Servers : NewServer(p, s, setting, p)
  /\ lock' = p
  /\ index' = TRUE
  /\ Goto(p, "starting")
  /\ UNCHANGED <<refcount, shared, mcpPort, entryData, setting, old, prev>>

BindShared(p) ==
  /\ pc[p] = "starting"
  /\ Bind(p)
  /\ Goto(p, "initTools")
  /\ UNCHANGED <<lock, data, setting, mine, old, prev>>

\* The port is taken, by this program or another one.
StartFails(p) ==
  /\ pc[p] = "starting"
  /\ index' = FALSE
  /\ Goto(p, "cleanup")
  /\ UNCHANGED <<lock, refcount, shared, mcpPort, chatLog, entryData,
                 setting, srv, mine, old, prev>>

\* Mutant: a failed start keeps the lock.
CleanedUpLocked(p) ==
  /\ pc[p] = "cleanup"
  /\ mine' = [mine EXCEPT ![p] = NoServer]
  /\ Goto(p, "idle")
  /\ UNCHANGED <<lock, data, setting, srv, old, prev>>

CleanedUp(p) ==
  /\ pc[p] = "cleanup"
  /\ lock' = NoOne
  /\ mine' = [mine EXCEPT ![p] = NoServer]
  /\ Goto(p, "idle")
  /\ UNCHANGED <<data, setting, srv, old, prev>>

SharedStarted(p) ==
  /\ pc[p] = "initTools"
  /\ shared' = mine[p]
  /\ mcpPort' = portOf[mine[p]]
  /\ refcount' = 1
  /\ entryData' = entryData \cup {p}
  /\ lock' = NoOne
  /\ mine' = [mine EXCEPT ![p] = NoServer]
  /\ Goto(p, "connecting")
  /\ UNCHANGED <<index, chatLog, setting, srv, old, prev>>

JoinShared(p) ==
  /\ EnterSetup(p)
  /\ shared # NoServer
  /\ mcpPort # NoPort /\ refcount # Absent
  /\ refcount' = refcount + 1
  /\ entryData' = entryData \cup {p}
  /\ Goto(p, "connecting")
  /\ UNCHANGED <<lock, shared, mcpPort, index, setting, srv, mine, old, prev>>

\* A running server without its port or its count: KeyError, setup fails.
JoinRaises(p) ==
  /\ EnterSetup(p)
  /\ shared # NoServer
  /\ mcpPort = NoPort \/ refcount = Absent
  /\ Goto(p, "idle")
  /\ UNCHANGED <<lock, refcount, shared, mcpPort, index, entryData,
                 setting, srv, mine, old, prev>>

SetupDone(p) ==
  /\ pc[p] = "connecting"
  /\ Goto(p, "loaded")
  /\ UNCHANGED <<lock, data, setting, srv, mine, old, prev>>

\* Mutant: a setup that fails keeps its reference.
SetupFailsCounted(p) ==
  /\ pc[p] = "connecting"
  /\ entryData' = entryData \ {p}
  /\ Goto(p, "idle")
  /\ UNCHANGED <<lock, refcount, shared, mcpPort, index, chatLog,
                 setting, srv, mine, old, prev>>

\* The gateway or the platform fails: drop the record, disconnect the client.
SetupFails(p) ==
  /\ pc[p] = "connecting"
  /\ entryData' = entryData \ {p}
  /\ Goto(p, "aborting")
  /\ UNCHANGED <<lock, refcount, shared, mcpPort, index, chatLog,
                 setting, srv, mine, old, prev>>

-----------------------------------------------------------------------------
(* async_unload_entry and _async_release_mcp_server *)

Unload(p) ==
  /\ pc[p] = "loaded"
  /\ Goto(p, "unloading")
  /\ UNCHANGED <<lock, data, setting, srv, mine, old, prev>>

\* async_unload_platforms returns False: the profile keeps its reference.
UnloadRefused(p) ==
  /\ pc[p] = "unloading"
  /\ Goto(p, "refused")
  /\ UNCHANGED <<lock, data, setting, srv, mine, old, prev>>

Disconnect(p) ==
  /\ pc[p] = "unloading"
  /\ Goto(p, "disconnecting")
  /\ UNCHANGED <<lock, data, setting, srv, mine, old, prev>>

\* The client is disconnected and the profile's record dropped; then the
\* reference is, under the lock.  Nobody holds the lock while there are
\* references (ReleaseNeverWaits), so these steps follow without a suspension.
EnterRelease(p) ==
  /\ pc[p] \in {"aborting", "disconnecting"}
  /\ lock = NoOne
  /\ refcount # Absent
  /\ entryData' = entryData \ {p}
  /\ refcount' = refcount - 1

\* Others still use the server: if it was bound to a profile that is gone,
\* bind it to one that is set up (_rebind_shared_server_entry).
ReleaseOne(p) ==
  /\ EnterRelease(p)
  /\ refcount > 1
  /\ \/ /\ entryOf[shared] \notin entryData'
        /\ \E q \in entryData' : entryOf' = [entryOf EXCEPT ![shared] = q]
     \/ /\ entryOf[shared] \in entryData' \/ entryData' = {}
        /\ UNCHANGED entryOf
  /\ Goto(p, "idle")
  /\ UNCHANGED <<up, portOf, lock, shared, mcpPort, index, chatLog, setting,
                 mine, old, prev>>

\* Mutant: the last but one reference stops the server as well.
ReleaseLastEarly(p) ==
  /\ EnterRelease(p)
  /\ refcount <= 2
  /\ up[shared]
  /\ lock' = p
  /\ shared' = NoServer
  /\ Close(shared)
  /\ Goto(p, "stopping")
  /\ UNCHANGED <<mcpPort, index, chatLog, setting, mine, old, prev>>

\* The last reference: take the server out of hass.data and stop it.
ReleaseLast(p) ==
  /\ EnterRelease(p)
  /\ refcount <= 1
  /\ up[shared]
  /\ lock' = p
  /\ shared' = NoServer
  /\ Close(shared)
  /\ Goto(p, "stopping")
  /\ UNCHANGED <<mcpPort, index, chatLog, setting, mine, old, prev>>

\* The server is already being stopped by an options flow: stop() raises and
\* the rest of the teardown is skipped.  A failed unload is final.
ReleaseRaises(p) ==
  /\ EnterRelease(p)
  /\ refcount <= 1
  /\ ~up[shared]
  /\ shared' = NoServer
  /\ Goto(p, IF pc[p] = "aborting" THEN "idle" ELSE "unloadFailed")
  /\ UNCHANGED <<lock, mcpPort, index, chatLog, setting, srv, mine, old, prev>>

\* stop() has returned; index manager, port and count go, and the chat log
\* manager is told to flush.
SharedStopped(p) ==
  /\ pc[p] = "stopping"
  /\ index' = FALSE
  /\ mcpPort' = NoPort
  /\ refcount' = Absent
  /\ Goto(p, "flushing")
  /\ UNCHANGED <<lock, shared, chatLog, entryData, setting, srv, mine, old, prev>>

ChatLogFlushed(p) ==
  /\ pc[p] = "flushing"
  /\ chatLog' = FALSE
  /\ lock' = NoOne
  /\ Goto(p, "idle")
  /\ UNCHANGED <<refcount, shared, mcpPort, index, entryData,
                 setting, srv, mine, old, prev>>

-----------------------------------------------------------------------------
(* The options flow: save the settings, then _async_apply_shared_mcp_settings *)

CurrentPort == IF mcpPort = NoPort THEN portOf[shared] ELSE mcpPort

SaveWithoutRestart(f, port) ==
  /\ pc[f] = "idle"
  /\ shared # NoServer => CurrentPort = port
  /\ setting' = port
  /\ UNCHANGED <<pc, lock, data, srv, mine, old, prev>>

SaveAndRestart(f, port) ==
  /\ pc[f] = "idle"
  /\ shared # NoServer
  /\ CurrentPort # port
  /\ setting' = port
  /\ prev' = [prev EXCEPT ![f] = setting]
  /\ old' = [old EXCEPT ![f] = shared]
  /\ \E s \in Servers : NewServer(f, s, port, entryOf[shared])
  /\ Goto(f, "starting")
  /\ UNCHANGED <<lock, data>>

BindNew(f) ==
  /\ pc[f] = "starting"
  /\ Bind(f)
  /\ Goto(f, "initTools")
  /\ UNCHANGED <<lock, data, setting, mine, old, prev>>

\* The flow is over: the saved settings are restored if it failed.
EndFlow(f) ==
  /\ mine' = [mine EXCEPT ![f] = NoServer]
  /\ old' = [old EXCEPT ![f] = NoServer]
  /\ Goto(f, "idle")

NewFails(f) ==
  /\ pc[f] = "starting"
  /\ setting' = prev[f]
  /\ EndFlow(f)
  /\ UNCHANGED <<lock, data, srv, prev>>

StopOld(f) ==
  /\ pc[f] = "initTools"
  /\ up[old[f]]
  /\ Close(old[f])
  /\ Goto(f, "stopping")
  /\ UNCHANGED <<lock, data, setting, mine, old, prev>>

\* Somebody else stopped the old server: stop the new one as well.
StopOldRaises(f) ==
  /\ pc[f] = "initTools"
  /\ ~up[old[f]]
  /\ Close(mine[f])
  /\ Goto(f, "undoing")
  /\ UNCHANGED <<lock, data, setting, mine, old, prev>>

Undone(f) ==
  /\ pc[f] = "undoing"
  /\ setting' = prev[f]
  /\ EndFlow(f)
  /\ UNCHANGED <<lock, data, srv, prev>>

\* Mutant: only the port is published, not the server.
PublishPortOnly(f) ==
  /\ pc[f] = "stopping"
  /\ mcpPort' = portOf[mine[f]]
  /\ EndFlow(f)
  /\ UNCHANGED <<lock, refcount, shared, index, chatLog, entryData, setting, srv, prev>>

PublishNew(f) ==
  /\ pc[f] = "stopping"
  /\ shared' = mine[f]
  /\ mcpPort' = portOf[mine[f]]
  /\ EndFlow(f)
  /\ UNCHANGED <<lock, refcount, index, chatLog, entryData, setting, srv, prev>>

-----------------------------------------------------------------------------
Lifecycle(p) ==
  \/ InitChatLog(p) \/ QueueSetup(p)
  \/ StartShared(p) \/ BindShared(p) \/ StartFails(p) \/ CleanedUp(p)
  \/ SharedStarted(p) \/ JoinShared(p) \/ JoinRaises(p)
  \/ SetupDone(p) \/ SetupFails(p)
  \/ Unload(p) \/ UnloadRefused(p) \/ Disconnect(p)
  \/ ReleaseOne(p) \/ ReleaseLast(p) \/ ReleaseRaises(p)
  \/ SharedStopped(p) \/ ChatLogFlushed(p)

ApplySettings(f) ==
  \/ \E port \in Ports : SaveWithoutRestart(f, port) \/ SaveAndRestart(f, port)
  \/ BindNew(f) \/ NewFails(f) \/ StopOld(f) \/ StopOldRaises(f)
  \/ Undone(f) \/ PublishNew(f)

Next ==
  \/ \E p \in Profiles : Lifecycle(p)
  \/ \E f \in Flows : ApplySettings(f)

Spec == Init /\ [][Next]_vars

\* Every suspended task is resumed, a connection attempt and an unload of the
\* platforms end, and server_init_lock is granted in order of arrival, so no
\* waiter is passed over for ever.  Nobody has to set up, unload or save.
Resume(p) ==
  \/ BindShared(p) \/ StartFails(p) \/ CleanedUp(p) \/ SharedStarted(p)
  \/ SetupDone(p) \/ SetupFails(p) \/ UnloadRefused(p) \/ Disconnect(p)
  \/ SharedStopped(p) \/ ChatLogFlushed(p)

TakeLock(p) ==
  \/ pc[p] # "idle" /\ (StartShared(p) \/ JoinShared(p) \/ JoinRaises(p))
  \/ ReleaseOne(p) \/ ReleaseLast(p) \/ ReleaseRaises(p)

ResumeFlow(f) ==
  \/ BindNew(f) \/ NewFails(f) \/ StopOld(f) \/ StopOldRaises(f)
  \/ Undone(f) \/ PublishNew(f)

Fairness ==
  /\ \A p \in Profiles : WF_vars(Resume(p)) /\ SF_vars(TakeLock(p))
  /\ \A f \in Flows : WF_vars(ResumeFlow(f))

FairSpec == Spec /\ Fairness

-----------------------------------------------------------------------------
ProfileLabels ==
  {"idle", "initChat", "wantLock", "starting", "initTools", "cleanup",
   "connecting", "loaded", "unloading", "refused", "disconnecting",
   "aborting", "stopping", "flushing", "unloadFailed"}

FlowLabels == {"idle", "starting", "initTools", "stopping", "undoing"}

TypeOK ==
  /\ pc \in [Tasks -> ProfileLabels \cup FlowLabels]
  /\ \A p \in Profiles : pc[p] \in ProfileLabels
  /\ \A f \in Flows : pc[f] \in FlowLabels
  /\ lock \in Profiles \cup {NoOne}
  /\ refcount \in Nat \cup {Absent}
  /\ shared \in Servers \cup {NoServer}
  /\ mcpPort \in Ports \cup {NoPort}
  /\ index \in BOOLEAN
  /\ chatLog \in BOOLEAN
  /\ entryData \in SUBSET Profiles
  /\ setting \in Ports
  /\ up \in [Servers -> BOOLEAN]
  /\ portOf \in [Servers -> Ports]
  /\ entryOf \in [Servers -> Profiles]
  /\ mine \in [Tasks -> Servers \cup {NoServer}]
  /\ old \in [Flows -> Servers \cup {NoServer}]
  /\ prev \in [Flows -> Ports]

\* The profiles that own a reference to the shared server.
HolderLabels ==
  {"connecting", "loaded", "unloading", "refused", "disconnecting", "aborting"}
Holders == {p \in Profiles : pc[p] \in HolderLabels}

\* Profiles suspended inside `async with server_init_lock`.
LockedLabels == {"starting", "initTools", "cleanup", "stopping", "flushing"}

\* server_init_lock: whoever is suspended inside the locked region holds it,
\* so starting and stopping the shared server never overlap.
OneInside ==
  \A p \in Profiles : pc[p] \in LockedLabels <=> lock = p

\* mcp_refcount is the number of profiles that will release a reference,
\* whatever interleaving of setups, failed setups and unloads led here.
RefcountExact ==
  /\ refcount = Absent => Holders = {}
  /\ refcount # Absent => refcount = Cardinality(Holders)

\* A task that drops its reference never waits for server_init_lock: while
\* anybody has a reference, setup and release leave the lock at once.
ReleaseNeverWaits == Holders # {} => lock = NoOne

\* A profile that holds a reference always has the shared server listening,
\* or being replaced by one that already listens (the options flow starts the
\* new server before it stops the old one).
HoldersServed ==
  Holders # {} =>
    /\ shared # NoServer
    /\ mcpPort # NoPort
    /\ \/ up[shared]
       \/ \E f \in Flows : /\ pc[f] = "stopping"
                           /\ old[f] = shared
                           /\ up[mine[f]]

\* A setup never finds its port still bound by the server that is going away
\* (_async_release_mcp_server holds the lock until stop() has returned).
PortFreeAtSetup ==
  \A p \in Profiles : pc[p] = "starting" => ~Listening(portOf[mine[p]])

\* Once no profile holds a reference and nothing is under way, no server
\* listens and nothing of the shared runtime is left in hass.data
\* ("Drop one MCP server reference, stopping shared runtime at zero").
StoppedAtZero ==
  /\ lock = NoOne
  /\ Holders = {}
  /\ \A f \in Flows : pc[f] = "idle"
  => /\ \A s \in Servers : ~up[s]
     /\ shared = NoServer /\ refcount = Absent /\ mcpPort = NoPort /\ ~index

\* The server reads its settings from a profile that is set up, as soon as no
\* removed profile still has its reference to release
\* (_rebind_shared_server_entry).
BoundToLiveProfile ==
  /\ shared # NoServer
  /\ \A p \in Profiles : pc[p] # "aborting"
  /\ \A f \in Flows : pc[f] = "idle"
  /\ Holders # {}
  => entryOf[shared] \in entryData

\* A setup ends, and so does an unload: no failure leaves server_init_lock
\* taken, and no task waits for it for ever.
SetupEnds ==
  \A p \in Profiles :
    pc[p] \in {"wantLock", "starting", "initTools", "cleanup", "connecting",
               "aborting"}
      ~> pc[p] \in {"idle", "loaded"}
UnloadEnds ==
  \A p \in Profiles :
    pc[p] = "unloading" ~> pc[p] \in {"idle", "refused", "unloadFailed"}

\* The lock, the reference count and hass.data, whatever port changes overlap.
SharedSound == TypeOK /\ OneInside /\ RefcountExact /\ ReleaseNeverWaits

\* What a release leaves to the profiles that are still there, or that come
\* after: the port, hass.data and a server that reads a live profile.
ReleasedSound == PortFreeAtSetup /\ StoppedAtZero /\ BoundToLiveProfile

\* Whatever the other profiles do, every setup and every unload gets to its end.
TasksEnd == SetupEnds /\ UnloadEnds

-----------------------------------------------------------------------------
\* The server a task starts or stops is its own until it is published.
Apart ==
  \A t \in Tasks : mine[t] # NoServer =>
    /\ mine[t] # shared
    /\ \A u \in Tasks \ {t} : mine[u] # mine[t]
    /\ \A f \in Flows : old[f] # mine[t]

\* What a task has reached by the point where it is suspended.
Progress ==
  /\ \A t \in Tasks : pc[t] \in {"starting", "initTools"} => mine[t] # NoServer
  /\ \A t \in Tasks : pc[t] = "initTools" => up[mine[t]]
  /\ \A f \in Flows :
       /\ pc[f] # "idle" => old[f] # NoServer /\ mine[f] # NoServer
       /\ pc[f] = "stopping" => up[mine[f]]

\* The published server listens, or a listening one is about to replace it.
SharedServes ==
  shared # NoServer =>
    \/ up[shared]
    \/ \E f \in Flows : /\ pc[f] = "stopping"
                        /\ old[f] = shared
                        /\ up[mine[f]]

\* The inductive invariant: the properties of the shared server and what
\* keeps them, from one step to the next, true.
IInv ==
  /\ TypeOK
  /\ OneInside /\ RefcountExact /\ ReleaseNeverWaits
  /\ Apart /\ Progress /\ SharedServes /\ HoldersServed

-----------------------------------------------------------------------------
(* Without options flows: the runtime that profiles open, join and close *)

\* What listens is the published server, or one that is about to be.
UpInUse ==
  \A s \in Servers : up[s] =>
    s = shared \/ \E p \in Profiles : pc[p] = "initTools" /\ mine[p] = s

\* A server is published while it has users, and never while the lock is held.
PublishedForUsers ==
  /\ shared # NoServer => lock = NoOne
  /\ shared # NoServer <=> Holders # {}

\* What of the shared runtime is in hass.data while no server is published.
LeftBehind ==
  /\ lock = NoOne /\ shared = NoServer =>
       refcount = Absent /\ mcpPort = NoPort /\ ~index
  /\ \A p \in Profiles :
       /\ pc[p] \in {"starting", "initTools", "cleanup", "flushing"} =>
            refcount = Absent /\ mcpPort = NoPort
       /\ pc[p] \in {"cleanup", "flushing"} => ~index

\* Profiles have their record while they hold a reference, except those whose
\* setup has failed.
RecordLabels == HolderLabels \ {"aborting"}
RecordsOfHolders == entryData = {p \in Profiles : pc[p] \in RecordLabels}

\* The server reads a profile that has its record, or one whose failed setup
\* has a reference to release yet; a new one reads the profile that starts it.
EntryAlive ==
  /\ shared # NoServer =>
       \/ entryOf[shared] \in entryData
       \/ \E p \in Profiles : pc[p] = "aborting"
  /\ \A p \in Profiles :
       pc[p] \in {"starting", "initTools"} => entryOf[mine[p]] = p

\* With IInv, inductive as long as no options flow changes the port.
QuietInv ==
  UpInUse /\ PublishedForUsers /\ LeftBehind /\ RecordsOfHolders /\ EntryAlive

\* The phase of the abstract runtime, read off the lock holder's progress.
Phase ==
  IF lock = NoOne
  THEN IF shared = NoServer THEN "closed" ELSE "open"
  ELSE IF pc[lock] \in {"starting", "initTools", "cleanup"} THEN "opening"
  ELSE "closing"

Abstract == INSTANCE SharedRuntime WITH users <- Holders, phase <- Phase

\* Without options flows the code implements the reference-counted runtime.
ImplementsRuntime == Abstract!Spec

=============================================================================
