----------------------------- MODULE ConfigFlow -----------------------------
(***************************************************************************)
(* The flows that create profiles and change settings (config_flow.py),    *)
(* and how the shared settings they save reach the running MCP server      *)
(* (_async_apply_shared_mcp_settings and ensure_system_entry of            *)
(* __init__.py).  Shared settings live in the data of one system entry;    *)
(* here they are a port, which moves the server, and a token, which the    *)
(* server reads again when told to.  What a form does to the stored        *)
(* dictionaries is in module ConfigForms, how the server starts and stops  *)
(* in module SharedServer.  Each action is the code between two awaits.    *)
(***************************************************************************)
EXTENDS Integers, FiniteSets

CONSTANTS Names,     \* unique ids of profiles
          Flows,     \* config flows, each of which adds one profile at a time
          Editors,   \* options flows
          Ports, Tokens,
          MaxSaves,  \* bound: saves of the shared settings
          None

System == "system"   \* the options flow of the system entry itself
Settings == [port : Ports, token : Tokens]
Changes == [how : {"move", "refresh"}, to : Settings]

ASSUME FlowAssumption ==
  /\ MaxSaves \in Nat
  /\ Flows \cap Editors = {}
  /\ None \notin Names \cup {System} \cup Settings \cup Changes

VARIABLES
  profiles,  \* profile entries
  loaded,    \* profile entries that are set up
  options,   \* per profile: how often its options were saved
  system,    \* the data of the system entry, None without one
  healing,   \* profiles whose setup found no system entry
  starting,  \* the setup that starts the server, with the port it read
  server,    \* the running shared server, with the settings it works by
  pc,        \* step of each flow
  name,      \* the profile a flow adds or edits
  before,    \* per options flow: the settings to go back to
  applying,  \* per options flow: what it asks of the server
  saves,     \* counts saves of the shared settings
  unheard    \* history: settings were saved that no server was told of

flowVars == <<pc, name>>
entryVars == <<profiles, options, system>>
serverVars == <<loaded, healing, starting, server>>
editVars == <<before, applying>>
vars == <<entryVars, serverVars, flowVars, editVars, saves, unheard>>

Init ==
  /\ profiles \in SUBSET Names   \* an older version left no system entry
  /\ loaded = {}
  /\ options = [n \in Names |-> 0]
  /\ system = None
  /\ healing = {}
  /\ starting = None
  /\ server = None
  /\ pc = [f \in Flows \cup Editors |-> "idle"]
  /\ name = [f \in Flows \cup Editors |-> None]
  /\ before = [e \in Editors |-> None]
  /\ applying = [e \in Editors |-> None]
  /\ saves = 0
  /\ unheard = FALSE

Goto(f, step) == pc' = [pc EXCEPT ![f] = step]

-----------------------------------------------------------------------------
(* MCPAssistConfigFlow *)

\* async_set_unique_id aborts a flow for which another one is in progress.
InProgress(n) == \E f \in Flows : name[f] = n

\* Mutant: any name is taken on.
AnyName(f, n) ==
  /\ pc[f] = "idle"
  /\ name' = [name EXCEPT ![f] = n]
  /\ Goto(f, "server")
  /\ UNCHANGED <<entryVars, serverVars, editVars, saves, unheard>>

\* Step 1 refuses the name of a profile that exists.
StepUser(f, n) ==
  /\ pc[f] = "idle"
  /\ n \notin profiles
  /\ ~InProgress(n)
  /\ name' = [name EXCEPT ![f] = n]
  /\ Goto(f, "server")
  /\ UNCHANGED <<entryVars, serverVars, editVars, saves, unheard>>

\* Step 2, for a server with a choice of models or for an OpenClaw gateway.
StepServer(f) ==
  /\ pc[f] = "server"
  /\ \E next \in {"model", "openclaw_pairing"} : Goto(f, next)
  /\ UNCHANGED <<entryVars, serverVars, name, editVars, saves, unheard>>

\* A paired device skips the model step; any error shows the form again.
StepOpenclawPairing(f) ==
  /\ pc[f] = "openclaw_pairing"
  /\ Goto(f, "advanced")
  /\ UNCHANGED <<entryVars, serverVars, name, editVars, saves, unheard>>

StepModel(f) ==
  /\ pc[f] = "model"
  /\ Goto(f, "advanced")
  /\ UNCHANGED <<entryVars, serverVars, name, editVars, saves, unheard>>

\* The flow ends with a new profile entry, which Core sets up.
CreateEntry(f) ==
  /\ name[f] \notin profiles
  /\ profiles' = profiles \cup {name[f]}
  /\ name' = [name EXCEPT ![f] = None]
  /\ Goto(f, "idle")

\* Step 4: without a running server this is taken to be the first profile.
StepAdvanced(f) ==
  /\ pc[f] = "advanced"
  /\ IF server = None
     THEN Goto(f, "mcp_server") /\ UNCHANGED <<profiles, name>>
     ELSE CreateEntry(f)
  /\ UNCHANGED <<options, system, serverVars, editVars, saves, unheard>>

\* Step 5 writes the shared settings, but tells no running server of them.
\* A new system entry is added, and awaited, before the profile is.
StepMcpServer(f, s) ==
  /\ pc[f] = "mcp_server"
  /\ saves < MaxSaves
  /\ name[f] \notin profiles
  /\ system' = s
  /\ IF system = None
     THEN Goto(f, "adding") /\ UNCHANGED <<profiles, name>>
     ELSE CreateEntry(f)
  /\ saves' = saves + 1
  /\ unheard' = (unheard \/ server # None \/ starting # None
                         \/ \E e \in Editors : applying[e] # None)
  /\ UNCHANGED <<options, serverVars, editVars>>

SystemEntryAdded(f) ==
  /\ pc[f] = "adding"
  /\ CreateEntry(f)
  /\ UNCHANGED <<options, system, serverVars, editVars, saves, unheard>>

-----------------------------------------------------------------------------
(* Setup, unload and removal of profiles, as far as settings go *)

\* Mutant: the settings copied from a profile replace those saved meanwhile.
HealAlways(n, s) ==
  /\ n \in healing
  /\ system' = s
  /\ healing' = healing \ {n}
  /\ UNCHANGED <<profiles, options, loaded, starting, server,
                 flowVars, editVars, saves, unheard>>

\* A profile that is not set up, nor in the middle of it.
Waiting(n) ==
  /\ n \in profiles \ (loaded \cup healing)
  /\ starting # None => starting.by # n

\* ensure_system_entry finds no system entry and loads the tool catalogue.
FindNoSystemEntry(n) ==
  /\ Waiting(n)
  /\ system = None
  /\ healing' = healing \cup {n}
  /\ UNCHANGED <<entryVars, loaded, starting, server, flowVars, editVars,
                 saves, unheard>>

\* It adds one made from the first profile, unless there is one by now: the
\* flow that adds it aborts when the unique id is taken.
Heal(n, s) ==
  /\ n \in healing
  /\ system' = IF system = None THEN s ELSE system
  /\ unheard' = (unheard \/ server # None)
  /\ healing' = healing \ {n}
  /\ UNCHANGED <<profiles, options, loaded, starting, server,
                 flowVars, editVars, saves>>

\* async_setup_entry holds the lock, reads the port and starts the index.
BeginStart(n) ==
  /\ n \in profiles \ (loaded \cup healing)
  /\ system # None
  /\ server = None
  /\ starting = None
  /\ starting' = [by |-> n, port |-> system.port, token |-> None]
  /\ unheard' = (unheard \/ \E e \in Editors : applying[e] # None)
  /\ UNCHANGED <<entryVars, loaded, healing, server, flowVars, editVars, saves>>

\* MCPServer() reads the token and is started.
MakeServer(n) ==
  /\ starting # None
  /\ starting.by = n
  /\ starting.token = None
  /\ system # None
  /\ starting' = [starting EXCEPT !.token = system.token]
  /\ UNCHANGED <<entryVars, loaded, healing, server, flowVars, editVars,
                 saves, unheard>>

\* It becomes the shared server, or the setup fails and is tried again by
\* Core; a server that starts anew knows what was saved before.
EndStart(n) ==
  /\ starting # None
  /\ starting.by = n
  /\ starting.token # None
  /\ starting' = None
  /\ \/ /\ server' = [port |-> starting.port, token |-> starting.token]
        /\ loaded' = loaded \cup {n}
        /\ UNCHANGED unheard
     \/ /\ unheard' = (unheard /\ (server # None \/ \E e \in Editors : applying[e] # None))
        /\ UNCHANGED <<server, loaded>>
  /\ UNCHANGED <<entryVars, healing, flowVars, editVars, saves>>

Join(n) ==
  /\ n \in profiles \ (loaded \cup healing)
  /\ system # None
  /\ server # None
  /\ starting = None
  /\ loaded' = loaded \cup {n}
  /\ UNCHANGED <<entryVars, healing, starting, server, flowVars, editVars,
                 saves, unheard>>

\* The last profile that leaves stops the server.
Leave(n) ==
  /\ n \in loaded
  /\ starting = None
  /\ loaded' = loaded \ {n}
  /\ server' = IF loaded = {n} THEN None ELSE server
  /\ unheard' = (unheard /\ (loaded # {n} \/ \E e \in Editors : applying[e] # None))
  /\ UNCHANGED <<entryVars, healing, starting, flowVars, editVars, saves>>

\* async_remove_entry: the last profile takes the system entry with it.
\* Options flows of a removed entry are closed by Core.
Remove(n) ==
  /\ Waiting(n)
  /\ \A e \in Editors : name[e] = None
  /\ profiles' = profiles \ {n}
  /\ system' = IF profiles = {n} THEN None ELSE system
  /\ options' = [options EXCEPT ![n] = 0]
  /\ UNCHANGED <<serverVars, flowVars, editVars, saves, unheard>>

-----------------------------------------------------------------------------
(* MCPAssistOptionsFlow *)

\* The profile's form, or for the system entry directly the shared one.
StepInit(e, n) ==
  /\ pc[e] = "idle"
  /\ \/ n \in profiles
     \/ n = System /\ system # None
  /\ name' = [name EXCEPT ![e] = n]
  /\ Goto(e, "mcp_server")
  /\ UNCHANGED <<entryVars, serverVars, editVars, saves, unheard>>

\* The profile's options are saved last, and only then.
Commit(e) ==
  /\ options' = IF name[e] = System THEN options
                ELSE [options EXCEPT ![name[e]] = 1 - @]
  /\ name' = [name EXCEPT ![e] = None]
  /\ Goto(e, "idle")

\* Mutant: the profile's options are saved before the change is made.
CommitFirst(e, s) ==
  /\ pc[e] = "mcp_server"
  /\ saves < MaxSaves
  /\ system # None
  /\ system' = s
  /\ saves' = saves + 1
  /\ Commit(e)
  /\ UNCHANGED <<profiles, serverVars, editVars, unheard>>

\* Without a system entry the form reports mcp_apply_failed; with one the
\* settings are saved, and the server, if one runs, is told of them.  The
\* port it runs on decides whether it is replaced or reads them again.
SaveShared(e, s) ==
  /\ pc[e] = "mcp_server"
  /\ saves < MaxSaves
  /\ system # None
  /\ system' = s
  /\ saves' = saves + 1
  /\ unheard' = (unheard \/ starting # None
                         \/ \E other \in Editors \ {e} : applying[other] # None)
  /\ IF server = None
     THEN Commit(e) /\ UNCHANGED editVars
     ELSE /\ before' = [before EXCEPT ![e] = system]
          /\ applying' = [applying EXCEPT ![e] =
                            [how |-> IF server.port # s.port THEN "move" ELSE "refresh",
                             to |-> s]]
          /\ Goto(e, "applying")
          /\ UNCHANGED <<options, name>>
  /\ UNCHANGED <<profiles, serverVars>>

\* A moved server is a new one, made with the settings saved by then; a
\* refresh reads them when the tools have been loaded again.  The settings
\* it was told of are lost if the server stopped meanwhile.
Apply(e) ==
  /\ pc[e] = "applying"
  /\ server' = CASE applying[e].how = "move" -> applying[e].to
                 [] applying[e].how = "refresh" /\ server # None /\ system # None ->
                      [server EXCEPT !.token = system.token]
                 [] OTHER -> server
  /\ applying' = [applying EXCEPT ![e] = None]
  /\ before' = [before EXCEPT ![e] = None]
  /\ Commit(e)
  /\ UNCHANGED <<profiles, system, loaded, healing, starting, saves, unheard>>

\* Mutant: a failed save stays saved.
FailKeepsSettings(e) ==
  /\ pc[e] = "applying"
  /\ applying' = [applying EXCEPT ![e] = None]
  /\ before' = [before EXCEPT ![e] = None]
  /\ Goto(e, "mcp_server")
  /\ UNCHANGED <<entryVars, serverVars, name, saves, unheard>>

\* The server keeps what it had, and the settings go back to what they were
\* when this flow saved its own; the form is shown again.
ApplyFails(e) ==
  /\ pc[e] = "applying"
  /\ system' = before[e]
  /\ applying' = [applying EXCEPT ![e] = None]
  /\ before' = [before EXCEPT ![e] = None]
  /\ Goto(e, "mcp_server")
  /\ UNCHANGED <<profiles, options, serverVars, name, saves, unheard>>

CloseForm(f) ==
  /\ pc[f] \notin {"idle", "adding", "applying"}
  /\ name' = [name EXCEPT ![f] = None]
  /\ Goto(f, "idle")
  /\ UNCHANGED <<entryVars, serverVars, editVars, saves, unheard>>

Next ==
  \/ \E f \in Flows :
       \/ \E n \in Names : StepUser(f, n)
       \/ StepServer(f)
       \/ StepOpenclawPairing(f)
       \/ StepModel(f)
       \/ StepAdvanced(f)
       \/ \E s \in Settings : StepMcpServer(f, s)
       \/ SystemEntryAdded(f)
  \/ \E n \in Names :
       \/ FindNoSystemEntry(n)
       \/ \E s \in Settings : Heal(n, s)
       \/ BeginStart(n)
       \/ MakeServer(n)
       \/ EndStart(n)
       \/ Join(n)
       \/ Leave(n)
       \/ Remove(n)
  \/ \E e \in Editors :
       \/ \E n \in Names \cup {System} : StepInit(e, n)
       \/ \E s \in Settings : SaveShared(e, s)
       \/ Apply(e)
       \/ ApplyFails(e)
  \/ \E f \in Flows \cup Editors : CloseForm(f)

Spec == Init /\ [][Next]_vars

-----------------------------------------------------------------------------
(* Properties *)

\* Every variable keeps to its set, whatever the flows and profiles do.
TypeOK ==
  /\ profiles \subseteq Names
  /\ loaded \subseteq profiles
  /\ options \in [Names -> {0, 1}]
  /\ system \in Settings \cup {None}
  /\ healing \subseteq profiles
  /\ starting \in {None} \cup
       [by : profiles \ loaded, port : Ports, token : Tokens \cup {None}]
  /\ server \in Settings \cup {None}
  /\ pc \in [Flows \cup Editors ->
              {"idle", "server", "model", "openclaw_pairing", "advanced",
               "mcp_server", "adding", "applying"}]
  /\ name \in [Flows \cup Editors -> Names \cup {System, None}]
  /\ before \in [Editors -> Settings \cup {None}]
  /\ applying \in [Editors -> Changes \cup {None}]
  /\ saves \in 0..MaxSaves
  /\ unheard \in BOOLEAN

\* The server runs with the saved settings whenever no change is on its way:
\* after a move, a refresh, a failed change taken back, a restart.  The
\* exceptions are the saves nobody tells it of, which `unheard` records: by
\* a config flow that began before the server ran, and by a flow that
\* overlaps another one's change or a server start.
SettingsAgree ==
  (/\ server # None
   /\ system # None
   /\ ~unheard
   /\ \A e \in Editors : applying[e] = None) => server = system

\* A profile's options are saved only after the shared settings of the same
\* form have taken effect; a failed change leaves both as they were.
OptionsSavedLast ==
  [][(options' # options /\ profiles' = profiles /\ ~unheard')
       => server' \in {None, system'}]_vars

\* Settings once saved are replaced by another save, or taken back when they
\* cannot be applied; self-healing setups that began earlier leave them.
SavedByUsers ==
  [][(system # None /\ system' \notin {None, system})
       => \/ saves' > saves
          \/ \E e \in Editors : pc[e] = "applying" /\ system' = before[e]]_vars

\* No two flows add the same profile, and none adds one that exists, so the
\* check before the shared settings are written never comes too late.
NamesDiffer ==
  \A f \in Flows :
    /\ name[f] # None => name[f] \notin profiles
    /\ \A g \in Flows \ {f} : name[f] = None \/ name[f] # name[g]

\* The profiles, the settings and the flows that are about to change them.
ProfilesSound == TypeOK /\ NamesDiffer

-----------------------------------------------------------------------------
(* The inductive invariant *)

\* A flow past its first step knows its profile, an options flow its entry.
FlowsNamed ==
  /\ \A f \in Flows : pc[f] # "idle" => name[f] \in Names
  /\ \A e \in Editors : pc[e] # "idle" => name[e] \in Names \cup {System}

\* A change is on its way exactly while its flow waits, which knows the way
\* back; without a system entry nothing changes or starts.
Changing ==
  /\ \A e \in Editors : /\ pc[e] = "applying" <=> applying[e] # None
                        /\ pc[e] = "applying" <=> before[e] # None
                        /\ applying[e] # None => system # None
  /\ starting # None => system # None

\* A server that starts has read the settings that are saved.
StartsCurrent ==
  starting # None /\ ~unheard =>
    /\ starting.port = system.port
    /\ starting.token \in {None, system.token}
    /\ \A e \in Editors : applying[e] = None

\* At most one change is on its way that the server will hear of: it is to
\* what is saved, from what the server works by.
OneChange ==
  ~unheard =>
    \A e \in Editors : applying[e] # None =>
      /\ \A g \in Editors \ {e} : applying[g] = None
      /\ applying[e].to = system
      /\ server # None => server = before[e]
      /\ server # None /\ applying[e].how = "refresh" => server.port = system.port

IInv ==
  /\ TypeOK
  /\ NamesDiffer
  /\ FlowsNamed
  /\ Changing
  /\ StartsCurrent
  /\ OneChange
  /\ SettingsAgree
=============================================================================
