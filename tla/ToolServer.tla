----------------------------- MODULE ToolServer -----------------------------
(***************************************************************************)
(* The tools of the shared server.  Tool packages are loaded when the      *)
(* server starts and loaded anew by the reload service and by every save   *)
(* of the shared settings; nothing keeps two reloads apart.  The server    *)
(* lists the tools of its registry, keeps the list with a signature of     *)
(* what it was made from, and tells the clients of its event stream when a *)
(* reload has changed the tools.                                           *)
(*                                                                         *)
(* A reload is suspended while packages shut down, while they load, and    *)
(* when an event stream is slow; requests and other reloads run meanwhile. *)
(***************************************************************************)
EXTENDS Naturals, Sequences, FiniteSets, SequencesExt, Filtering

CONSTANTS
  Packages,   \* tool packages, each with a tool
  External,   \* those of the user's directory
  Reloads,    \* calls of the reload service and saves of the shared settings
  Clients,    \* clients of the event stream
  MaxReloads, \* bound: reloads that begin
  MaxLoads,   \* bound: loads whose objects are around at a time
  Start,      \* the start of the server
  None

ASSUME ToolAssumption ==
  /\ External \subseteq Packages
  /\ Start \notin Reloads
  /\ MaxLoads \in Nat /\ MaxReloads \in Nat

Kinds == {"builtin", "external"}
Of(kind) == IF kind = "external" THEN External ELSE Packages \ External
Tasks == Reloads \cup {Start}

\* A package object, of one load.
Instances == Packages \X (1..MaxLoads)

\* The packages of a set of objects.
PackagesOf(objects) == {i[1] : i \in objects}

VARIABLES
  enabled,    \* the packages that the shared settings enable
  loaded,     \* builtin_packages and external_tools
  alive,      \* package objects that were initialized and not shut down
  registry,   \* _tool_registry
  ready,      \* _tool_registry_ready
  cached,     \* _cached_tools_list with its signature
  task,       \* what a reload is doing
  sse,        \* sse_clients
  broken,     \* clients whose connection was found to be broken
  told,       \* clients that were told and have not listed the tools since
  seen,       \* what a client listed last
  begun,      \* reloads begun
  overlapped, \* a reload began during another one
  disturbed   \* the stream's clients changed during a broadcast, or one of
              \* them listed the tools before the start was over

tools == <<enabled, loaded, alive, registry, ready, cached>>
streams == <<sse, broken, told, seen>>
vars == <<tools, streams, task, begun, overlapped, disturbed>>

\* Where a reload is, with what kind of packages, and which of them it picked.
Doing(pc, kind, picked) == [pc |-> pc, kind |-> kind, picked |-> picked, at |-> 1, dead |-> {}]
Idle == Doing("idle", "builtin", {})
Quiet == \A t \in Tasks : task[t].pc = "idle"

TypeOK ==
  /\ enabled \subseteq Packages
  /\ loaded \in [Kinds -> SUBSET Instances]
  /\ alive \subseteq Instances /\ registry \subseteq Instances
  /\ ready \in BOOLEAN
  /\ cached = None \/ DOMAIN cached = {"key", "list"}
  /\ \A t \in Tasks :
       /\ task[t].pc \in {"idle", "shut", "load", "send"}
       /\ task[t].kind \in Kinds /\ task[t].picked \subseteq Of(task[t].kind)
       /\ task[t].dead \subseteq Clients
  /\ begun \in 0..MaxReloads
  /\ sse \in Seq(Clients) /\ \A i, j \in 1..Len(sse) : sse[i] = sse[j] => i = j
  /\ broken \subseteq Clients /\ told \subseteq Clients
  /\ \A kind \in Kinds : \A i, j \in loaded[kind] : i[1] = j[1] => i = j

Init ==
  /\ enabled = Packages
  /\ loaded = [kind \in Kinds |-> {}]
  /\ alive = {} /\ registry = {} /\ ready = FALSE /\ cached = None
  /\ task = [t \in Tasks |-> IF t = Start THEN Doing("shut", "builtin", {}) ELSE Idle]
  /\ sse = <<>> /\ broken = {} /\ told = {}
  /\ seen = [c \in Clients |-> None]
  /\ begun = 0 /\ overlapped = FALSE /\ disturbed = FALSE

-----------------------------------------------------------------------------
(* The list of tools *)

\* The tools of built-in packages are listed while their switch is on.
ListOf(objects) == {p \in PackagesOf(objects) : p \in External \/ p \in enabled}

AllLoaded == loaded.builtin \cup loaded.external

\* A list that is asked for in the middle of a reload builds the registry
\* from what is loaded just then.
RegistryNow == IF ready THEN registry ELSE AllLoaded

\* Mutant: the signature forgets the packages.
SettingsSignature == <<enabled>>

\* _get_tools_list_signature
Signature == <<enabled, PackagesOf(RegistryNow)>>

ToolsList ==
  IF cached # None /\ cached.key = Signature THEN cached.list ELSE ListOf(RegistryNow)

ListTools(c) ==
  /\ c \in ToSet(sse) \ broken
  /\ seen' = [seen EXCEPT ![c] = ToolsList]
  /\ told' = told \ {c}
  /\ registry' = RegistryNow
  /\ ready' = TRUE
  /\ cached' = [key |-> Signature, list |-> ToolsList]
  /\ disturbed' = (disturbed \/ task[Start].pc # "idle")
  /\ UNCHANGED <<enabled, loaded, alive, task, sse, broken, begun, overlapped>>

-----------------------------------------------------------------------------
(* Loading packages: first the built-in ones, then the user's *)

\* The packages that were loaded are shut down, and the reload waits for them.
ShutDown(t, kind, now, living) ==
  /\ alive' = living \ now[kind]
  /\ task' = [task EXCEPT ![t] = Doing("shut", kind, {})]

\* The service, or a save of the settings, while `Start` is over.
Begin(t) ==
  /\ t \in Reloads /\ task[t] = Idle /\ task[Start].pc = "idle"
  /\ begun < MaxReloads /\ begun' = begun + 1
  /\ ShutDown(t, "builtin", loaded, alive)
  /\ overlapped' = (overlapped \/ \E other \in Reloads : task[other].pc \in {"shut", "load"})

Reload(t) == Begin(t) /\ UNCHANGED <<enabled, loaded, registry, ready, cached, streams, disturbed>>

SaveSettings(t) ==
  /\ enabled' \in SUBSET Packages
  /\ Begin(t)
  /\ UNCHANGED <<loaded, registry, ready, cached, streams, disturbed>>

\* All packages are loaded: the registry is built, the list is forgotten, and
\* the clients are told; a start tells nobody.
Refresh(t, now) ==
  /\ registry' = now.builtin \cup now.external
  /\ ready' = TRUE
  /\ cached' = IF t = Start THEN cached ELSE None
  /\ task' = [task EXCEPT ![t] = IF t = Start THEN Idle ELSE Doing("send", "builtin", {})]

\* What follows when the list of one kind is `now` and `living` objects live.
Onward(t, kind, now, living) ==
  IF kind = "builtin"
  THEN ShutDown(t, "external", now, living) /\ UNCHANGED <<registry, cached>> /\ ready' = FALSE
  ELSE Refresh(t, now) /\ alive' = living

\* Mutant: the old packages are only dropped when the new ones are there.
SelectKeeps(t) ==
  LET kind == task[t].kind
      picked == enabled \cap Of(kind)
  IN  /\ task[t].pc = "shut"
      /\ UNCHANGED loaded
      /\ IF picked = {}
         THEN Onward(t, kind, loaded, alive)
         ELSE /\ task' = [task EXCEPT ![t] = Doing("load", kind, picked)]
              /\ ready' = FALSE
              /\ UNCHANGED <<alive, registry, cached>>
      /\ UNCHANGED <<enabled, streams, begun, overlapped, disturbed>>

\* The old packages are gone; the enabled ones are picked and load in threads.
Select(t) ==
  LET kind == task[t].kind
      picked == enabled \cap Of(kind)
      now == [loaded EXCEPT ![kind] = {}]
  IN  /\ task[t].pc = "shut"
      /\ loaded' = now
      /\ IF picked = {}
         THEN Onward(t, kind, now, alive)
         ELSE /\ task' = [task EXCEPT ![t] = Doing("load", kind, picked)]
              /\ ready' = FALSE
              /\ UNCHANGED <<alive, registry, cached>>
      /\ UNCHANGED <<enabled, streams, begun, overlapped, disturbed>>

\* Numbers that no object has.
Unused == {n \in 1..MaxLoads : \A i \in alive \cup AllLoaded \cup registry : i[2] # n}
Least(numbers) == CHOOSE n \in numbers : \A m \in numbers : n <= m

\* The list of a load takes the place of what is there.
NewList(old, objects) == objects

\* A package of the user that fails to load is left out.
LoadEnds(t) ==
  LET kind == task[t].kind
  IN  /\ task[t].pc = "load"
      /\ Unused # {}
      /\ \E good \in {task[t].picked} \cup (IF kind = "external" THEN {{}} ELSE {}) :
           LET objects == good \X {Least(Unused)}
               now == [loaded EXCEPT ![kind] = NewList(@, objects)]
           IN  /\ loaded' = now
               /\ Onward(t, kind, now, alive \cup objects)
      /\ UNCHANGED <<enabled, streams, begun, overlapped, disturbed>>

-----------------------------------------------------------------------------
(* The event stream *)

\* The stream begins with a notification.
Connect(c) ==
  /\ c \notin ToSet(sse) \cup broken
  /\ sse' = Append(sse, c)
  /\ told' = told \cup {c}
  /\ UNCHANGED <<tools, broken, seen, task, begun, overlapped, disturbed>>

Sending == \E t \in Tasks : task[t].pc = "send"

\* Its handler finds that the connection is gone.
Leave(c) ==
  /\ c \in ToSet(sse)
  /\ sse' = Without(sse, {c})
  /\ broken' = broken \ {c}
  /\ told' = told \ {c}
  /\ seen' = [seen EXCEPT ![c] = None]
  /\ disturbed' = (disturbed \/ Sending)
  /\ UNCHANGED <<tools, task, begun, overlapped>>

\* Mutant: the clients of a reload are told before the list is dropped.
SendNothing(t) ==
  /\ task[t].pc = "send" /\ task[t].at <= Len(sse)
  /\ task' = [task EXCEPT ![t].at = Len(sse) + 1]
  /\ UNCHANGED <<tools, sse, broken, told, seen, begun, overlapped, disturbed>>

\* The next client of a broadcast is due, and those to take out are `dead`.
Sent(t, dead) == [pc |-> "send", kind |-> "builtin", picked |-> {}, at |-> task[t].at + 1, dead |-> dead]

\* The broadcast walks the live list; a client that cannot be written to is
\* taken out afterwards.
Send(t) ==
  LET c == sse[task[t].at]
  IN  /\ task[t].pc = "send" /\ task[t].at <= Len(sse)
      /\ \/ /\ c \notin broken
            /\ told' = told \cup {c}
            /\ task' = [task EXCEPT ![t] = Sent(t, task[t].dead)]
            /\ UNCHANGED broken
         \/ /\ broken' = broken \cup {c}
            /\ task' = [task EXCEPT ![t] = Sent(t, task[t].dead \cup {c})]
            /\ UNCHANGED told
      /\ UNCHANGED <<tools, sse, seen, begun, overlapped, disturbed>>

\* The dead clients are taken out one by one.  For one that has left meanwhile this
\* raises, which ends the reload with an error and leaves the dead after it in.
SendEnds(t) ==
  /\ task[t].pc = "send" /\ task[t].at > Len(sse)
  /\ \E out \in SUBSET task[t].dead :
       /\ out \subseteq ToSet(sse) /\ (task[t].dead \subseteq ToSet(sse) => out = task[t].dead)
       /\ sse' = Without(sse, out)
  /\ task' = [task EXCEPT ![t] = Idle]
  /\ disturbed' = (disturbed \/ /\ task[t].dead # {}
                                /\ \E other \in Tasks \ {t} : task[other].pc = "send")
  /\ UNCHANGED <<tools, broken, told, seen, begun, overlapped>>

-----------------------------------------------------------------------------
Next ==
  \/ \E t \in Tasks : Reload(t) \/ SaveSettings(t) \/ Select(t) \/ LoadEnds(t) \/ Send(t) \/ SendEnds(t)
  \/ \E c \in Clients : Connect(c) \/ Leave(c) \/ ListTools(c)

Spec == Init /\ [][Next]_vars

-----------------------------------------------------------------------------
(* Properties *)

\* A list that is served from the cache is the list that would be made now,
\* whatever settings, reloads and requests came since it was kept.
CacheSound == cached # None /\ cached.key = Signature => cached.list = ListOf(RegistryNow)

\* The packages, the tasks and the list that is kept.
ListSound == TypeOK /\ CacheSound

\* When no reload runs, every listed tool has one package object behind it and
\* that object lives; and unless two reloads overlapped, the objects that live
\* are those that are loaded, so none is left behind.
ToolsServed ==
  Quiet =>
    /\ \A p \in ToolsList : \E i \in registry : i[1] = p /\ i \in alive
    /\ registry = AllLoaded
    /\ ~overlapped => alive = AllLoaded

\* When no reload runs, a client that has followed every notification knows
\* the tools, unless the stream's clients changed under a broadcast.
ClientsKnow ==
  Quiet /\ ~disturbed =>
    \A c \in ToSet(sse) \ (broken \cup told) : seen[c] = None \/ seen[c] = ToolsList

\* "Shut down any loaded tool packages cleanly": what lives is what a shutdown
\* would find.
NothingLeftBehind == Quiet => alive = AllLoaded

\* "Send notification to all SSE clients".
EveryClientTold ==
  Quiet => \A c \in ToSet(sse) \ (broken \cup told) : seen[c] = None \/ seen[c] = ToolsList

-----------------------------------------------------------------------------
(* The inductive invariant *)

\* The tasks that are shutting packages down or loading them.
Loading == {t \in Tasks : task[t].pc \in {"shut", "load"}}

Calls == [pc : {"idle", "shut", "load", "send"}, kind : Kinds, picked : SUBSET Packages,
          at : Nat \ {0}, dead : SUBSET Clients]

\* What a task may be, and that a start tells nobody and has the server to itself.
TasksSound ==
  /\ task \in [Tasks -> Calls]
  /\ \A t \in Tasks : task[t].pc = "idle" => task[t] = Idle
  /\ task[Start].pc # "send"
  /\ task[Start].pc # "idle" => \A t \in Reloads : task[t].pc = "idle"

\* The objects of a kind are of that kind.
KindsApart == \A kind \in Kinds : loaded[kind] \subseteq Of(kind) \X (1..MaxLoads)

\* The list that is kept is the one its signature describes.
CacheTrue ==
  cached # None => cached.list = {p \in cached.key[2] : p \in External \/ p \in cached.key[1]}

\* The registry is stale only while a reload is at its work.
RegistryFollows ==
  /\ ready => registry = AllLoaded
  /\ ~ready => Loading # {}

\* What is loaded lives, unless it is being shut down.
LoadedLives ==
  \A kind \in Kinds :
    loaded[kind] \subseteq alive \/ \E t \in Tasks : task[t].pc = "shut" /\ task[t].kind = kind

\* Reloads that keep apart leave no object behind at any step.
NoneLeft ==
  ~overlapped =>
    /\ \A t, u \in Loading : t = u
    /\ Loading = {} => alive = AllLoaded
    /\ \A t \in Loading :
         IF task[t].pc = "shut"
         THEN alive = AllLoaded \ loaded[task[t].kind]
         ELSE loaded[task[t].kind] = {} /\ alive = AllLoaded

\* Client `c` is still ahead of a broadcast.
Due(c) == \E t \in Tasks : task[t].pc = "send" /\ \E i \in task[t].at..Len(sse) : sse[i] = c

\* Who does not know the tools will be told: by the reload that is at work, or
\* by the broadcast under way.
WillBeTold ==
  ~disturbed =>
    /\ task[Start].pc # "idle" => \A c \in Clients : seen[c] = None
    /\ \A c \in ToSet(sse) \ (broken \cup told) :
         seen[c] \in {None, ListOf(RegistryNow)} \/ Loading # {} \/ Due(c)

IInv ==
  /\ TypeOK /\ DOMAIN seen = Clients
  /\ TasksSound /\ KindsApart /\ CacheTrue
  /\ RegistryFollows /\ LoadedLives /\ NoneLeft
  /\ WillBeTold
=============================================================================
