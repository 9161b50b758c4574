------------------------- MODULE ConfigFlow_proof -------------------------
(***************************************************************************)
(* ConfigFlow, for any profiles, flows, ports and tokens: the inductive    *)
(* invariant, that the running server agrees with the saved settings, and  *)
(* what a save may do to them.                                             *)
(***************************************************************************)
EXTENDS ConfigFlow, ConfigForms, TLAPS

\* No flow is open and no server runs at the start.
LEMMA InitIInv == Init => IInv
<1> SUFFICES ASSUME Init PROVE IInv
  OBVIOUS
<1> USE FlowAssumption DEF Init
<1>1. TypeOK
  <2>1. /\ profiles \subseteq Names /\ loaded \subseteq profiles /\ healing \subseteq profiles
        /\ options \in [Names -> {0, 1}]
    OBVIOUS
  <2>2. /\ pc \in [Flows \cup Editors ->
                   {"idle", "server", "model", "openclaw_pairing", "advanced",
                    "mcp_server", "adding", "applying"}]
        /\ name \in [Flows \cup Editors -> Names \cup {System, None}]
    OBVIOUS
  <2>3. /\ before \in [Editors -> Settings \cup {None}]
        /\ applying \in [Editors -> Changes \cup {None}]
    OBVIOUS
  <2>4. saves \in 0..MaxSaves
    OBVIOUS
  <2>5. unheard \in BOOLEAN
    OBVIOUS
  <2> QED
    BY <2>1, <2>2, <2>3, <2>4, <2>5 DEF TypeOK
<1>2. NamesDiffer /\ FlowsNamed
  BY DEF NamesDiffer, FlowsNamed
<1>3. Changing /\ StartsCurrent /\ OneChange /\ SettingsAgree
  BY DEF Changing, StartsCurrent, OneChange, SettingsAgree
<1> QED
  BY <1>1, <1>2, <1>3 DEF IInv

\* A name is taken that no profile and no other flow has.
LEMMA StepUserStep ==
  ASSUME IInv, NEW f \in Flows, NEW n \in Names, StepUser(f, n)
  PROVE  IInv'
<1> USE FlowAssumption DEF IInv, StepUser, InProgress, Goto, entryVars, serverVars, flowVars, editVars
<1>1. TypeOK'
  BY DEF TypeOK, FlowsNamed, Changing, Settings, Changes
<1>2. NamesDiffer'
  BY DEF TypeOK, NamesDiffer, FlowsNamed, Settings, Changes
<1>3. FlowsNamed'
  BY DEF TypeOK, FlowsNamed, Settings, Changes
<1>4. Changing'
  BY DEF TypeOK, Changing, FlowsNamed, Settings, Changes
<1>5. StartsCurrent'
  BY DEF TypeOK, Changing, StartsCurrent, OneChange, Settings, Changes
<1>6. OneChange'
  BY DEF TypeOK, Changing, StartsCurrent, OneChange, SettingsAgree, FlowsNamed, Settings, Changes
<1>7. SettingsAgree'
  BY DEF TypeOK, Changing, StartsCurrent, OneChange, SettingsAgree, Settings, Changes
<1> QED
  BY <1>1, <1>2, <1>3, <1>4, <1>5, <1>6, <1>7

\* A flow goes on to another of its forms.
LEMMA StepFormsStep ==
  ASSUME IInv, NEW f \in Flows, StepServer(f) \/ StepOpenclawPairing(f) \/ StepModel(f)
  PROVE  IInv'
<1> USE FlowAssumption DEF IInv, StepServer, StepOpenclawPairing, StepModel, Goto, entryVars, serverVars, flowVars, editVars
<1>1. TypeOK'
  BY DEF TypeOK, FlowsNamed, Changing, Settings, Changes
<1>2. NamesDiffer'
  BY DEF TypeOK, NamesDiffer, FlowsNamed, Settings, Changes
<1>3. FlowsNamed'
  BY DEF TypeOK, FlowsNamed, Settings, Changes
<1>4. Changing'
  BY DEF TypeOK, Changing, FlowsNamed, Settings, Changes
<1>5. StartsCurrent'
  BY DEF TypeOK, Changing, StartsCurrent, OneChange, Settings, Changes
<1>6. OneChange'
  BY DEF TypeOK, Changing, StartsCurrent, OneChange, SettingsAgree, FlowsNamed, Settings, Changes
<1>7. SettingsAgree'
  BY DEF TypeOK, Changing, StartsCurrent, OneChange, SettingsAgree, Settings, Changes
<1> QED
  BY <1>1, <1>2, <1>3, <1>4, <1>5, <1>6, <1>7

\* Where a server runs the profile is created at once.
LEMMA StepAdvancedStep ==
  ASSUME IInv, NEW f \in Flows, StepAdvanced(f)
  PROVE  IInv'
<1> USE FlowAssumption DEF IInv, StepAdvanced, CreateEntry, Goto, entryVars, serverVars, flowVars, editVars
<1>1. TypeOK'
  BY DEF TypeOK, FlowsNamed, Changing, Settings, Changes
<1>2. NamesDiffer'
  BY DEF TypeOK, NamesDiffer, FlowsNamed, Settings, Changes
<1>3. FlowsNamed'
  BY DEF TypeOK, FlowsNamed, Settings, Changes
<1>4. Changing'
  BY DEF TypeOK, Changing, FlowsNamed, Settings, Changes
<1>5. StartsCurrent'
  BY DEF TypeOK, Changing, StartsCurrent, OneChange, Settings, Changes
<1>6. OneChange'
  BY DEF TypeOK, Changing, StartsCurrent, OneChange, SettingsAgree, FlowsNamed, Settings, Changes
<1>7. SettingsAgree'
  BY DEF TypeOK, Changing, StartsCurrent, OneChange, SettingsAgree, Settings, Changes
<1> QED
  BY <1>1, <1>2, <1>3, <1>4, <1>5, <1>6, <1>7

\* The settings of a first profile are saved without telling a server.
LEMMA StepMcpServerStep ==
  ASSUME IInv, NEW f \in Flows, NEW s \in Settings, StepMcpServer(f, s)
  PROVE  IInv'
<1> USE FlowAssumption DEF IInv, StepMcpServer, CreateEntry, Goto, entryVars, serverVars, flowVars, editVars
<1>1. TypeOK'
  BY DEF TypeOK, FlowsNamed, Changing, Settings, Changes
<1>2. NamesDiffer'
  BY DEF TypeOK, NamesDiffer, FlowsNamed, Settings, Changes
<1>3. FlowsNamed'
  BY DEF TypeOK, FlowsNamed, Settings, Changes
<1>4. Changing'
  BY DEF TypeOK, Changing, FlowsNamed, Settings, Changes
<1>5. StartsCurrent'
  BY DEF TypeOK, Changing, StartsCurrent, OneChange, Settings, Changes
<1>6. OneChange'
  BY DEF TypeOK, Changing, StartsCurrent, OneChange, SettingsAgree, FlowsNamed, Settings, Changes
<1>7. SettingsAgree'
  BY DEF TypeOK, Changing, StartsCurrent, OneChange, SettingsAgree, Settings, Changes
<1> QED
  BY <1>1, <1>2, <1>3, <1>4, <1>5, <1>6, <1>7

\* The profile follows the system entry.
LEMMA SystemEntryAddedStep ==
  ASSUME IInv, NEW f \in Flows, SystemEntryAdded(f)
  PROVE  IInv'
<1> USE FlowAssumption DEF IInv, SystemEntryAdded, CreateEntry, Goto, entryVars, serverVars, flowVars, editVars
<1>1. TypeOK'
  BY DEF TypeOK, FlowsNamed, Changing, Settings, Changes
<1>2. NamesDiffer'
  BY DEF TypeOK, NamesDiffer, FlowsNamed, Settings, Changes
<1>3. FlowsNamed'
  BY DEF TypeOK, FlowsNamed, Settings, Changes
<1>4. Changing'
  BY DEF TypeOK, Changing, FlowsNamed, Settings, Changes
<1>5. StartsCurrent'
  BY DEF TypeOK, Changing, StartsCurrent, OneChange, Settings, Changes
<1>6. OneChange'
  BY DEF TypeOK, Changing, StartsCurrent, OneChange, SettingsAgree, FlowsNamed, Settings, Changes
<1>7. SettingsAgree'
  BY DEF TypeOK, Changing, StartsCurrent, OneChange, SettingsAgree, Settings, Changes
<1> QED
  BY <1>1, <1>2, <1>3, <1>4, <1>5, <1>6, <1>7

\* A setup that found no system entry has changed nothing yet.
LEMMA FindNoSystemEntryStep ==
  ASSUME IInv, NEW n \in Names, FindNoSystemEntry(n)
  PROVE  IInv'
<1> USE FlowAssumption DEF IInv, FindNoSystemEntry, Waiting, entryVars, serverVars, flowVars, editVars
<1>1. TypeOK'
  BY DEF TypeOK, FlowsNamed, Changing, Settings, Changes
<1>2. NamesDiffer'
  BY DEF TypeOK, NamesDiffer, FlowsNamed, Settings, Changes
<1>3. FlowsNamed'
  BY DEF TypeOK, FlowsNamed, Settings, Changes
<1>4. Changing'
  BY DEF TypeOK, Changing, FlowsNamed, Settings, Changes
<1>5. StartsCurrent'
  BY DEF TypeOK, Changing, StartsCurrent, OneChange, Settings, Changes
<1>6. OneChange'
  BY DEF TypeOK, Changing, StartsCurrent, OneChange, SettingsAgree, FlowsNamed, Settings, Changes
<1>7. SettingsAgree'
  BY DEF TypeOK, Changing, StartsCurrent, OneChange, SettingsAgree, Settings, Changes
<1> QED
  BY <1>1, <1>2, <1>3, <1>4, <1>5, <1>6, <1>7

\* A system entry is added only where there is none.
LEMMA HealStep ==
  ASSUME IInv, NEW n \in Names, NEW s \in Settings, Heal(n, s)
  PROVE  IInv'
<1> USE FlowAssumption DEF IInv, Heal, entryVars, serverVars, flowVars, editVars
<1>1. TypeOK'
  BY DEF TypeOK, FlowsNamed, Changing, Settings, Changes
<1>2. NamesDiffer'
  BY DEF TypeOK, NamesDiffer, FlowsNamed, Settings, Changes
<1>3. FlowsNamed'
  BY DEF TypeOK, FlowsNamed, Settings, Changes
<1>4. Changing'
  BY DEF TypeOK, Changing, FlowsNamed, Settings, Changes
<1>5. StartsCurrent'
  BY DEF TypeOK, Changing, StartsCurrent, OneChange, Settings, Changes
<1>6. OneChange'
  BY DEF TypeOK, Changing, StartsCurrent, OneChange, SettingsAgree, FlowsNamed, Settings, Changes
<1>7. SettingsAgree'
  BY DEF TypeOK, Changing, StartsCurrent, OneChange, SettingsAgree, Settings, Changes
<1> QED
  BY <1>1, <1>2, <1>3, <1>4, <1>5, <1>6, <1>7

\* A start begins with the port that is saved.
LEMMA BeginStartStep ==
  ASSUME IInv, NEW n \in Names, BeginStart(n)
  PROVE  IInv'
<1> USE FlowAssumption DEF IInv, BeginStart, entryVars, serverVars, flowVars, editVars
<1>1. TypeOK'
  BY DEF TypeOK, FlowsNamed, Changing, Settings, Changes
<1>2. NamesDiffer'
  BY DEF TypeOK, NamesDiffer, FlowsNamed, Settings, Changes
<1>3. FlowsNamed'
  BY DEF TypeOK, FlowsNamed, Settings, Changes
<1>4. Changing'
  BY DEF TypeOK, Changing, FlowsNamed, Settings, Changes
<1>5. StartsCurrent'
  BY DEF TypeOK, Changing, StartsCurrent, OneChange, Settings, Changes
<1>6. OneChange'
  BY DEF TypeOK, Changing, StartsCurrent, OneChange, SettingsAgree, FlowsNamed, Settings, Changes
<1>7. SettingsAgree'
  BY DEF TypeOK, Changing, StartsCurrent, OneChange, SettingsAgree, Settings, Changes
<1> QED
  BY <1>1, <1>2, <1>3, <1>4, <1>5, <1>6, <1>7

\* The server is made with the token that is saved.
LEMMA MakeServerStep ==
  ASSUME IInv, NEW n \in Names, MakeServer(n)
  PROVE  IInv'
<1> USE FlowAssumption DEF IInv, MakeServer, entryVars, serverVars, flowVars, editVars
<1>1. TypeOK'
  BY DEF TypeOK, FlowsNamed, Changing, Settings, Changes
<1>2. NamesDiffer'
  BY DEF TypeOK, NamesDiffer, FlowsNamed, Settings, Changes
<1>3. FlowsNamed'
  BY DEF TypeOK, FlowsNamed, Settings, Changes
<1>4. Changing'
  BY DEF TypeOK, Changing, FlowsNamed, Settings, Changes
<1>5. StartsCurrent'
  BY DEF TypeOK, Changing, StartsCurrent, OneChange, Settings, Changes
<1>6. OneChange'
  BY DEF TypeOK, Changing, StartsCurrent, OneChange, SettingsAgree, FlowsNamed, Settings, Changes
<1>7. SettingsAgree'
  BY DEF TypeOK, Changing, StartsCurrent, OneChange, SettingsAgree, Settings, Changes
<1> QED
  BY <1>1, <1>2, <1>3, <1>4, <1>5, <1>6, <1>7

\* A start ends with a server that works by what is saved, or with none.
LEMMA EndStartStep ==
  ASSUME IInv, NEW n \in Names, EndStart(n)
  PROVE  IInv'
<1> USE FlowAssumption DEF IInv, EndStart, entryVars, serverVars, flowVars, editVars
<1>1. TypeOK'
  <2>1. /\ starting \in [by : profiles \ loaded, port : Ports, token : Tokens \cup {None}]
        /\ starting.by = n /\ starting.token \in Tokens
    BY DEF TypeOK
  <2>2. server' \in Settings \cup {None}
    <3>1. [port |-> starting.port, token |-> starting.token] \in Settings
      <4> HIDE DEF EndStart, IInv
      <4> QED
        BY <2>1 DEF Settings
    <3>2. \/ server' = [port |-> starting.port, token |-> starting.token]
          \/ server' = server
      OBVIOUS
    <3> QED
      BY <3>1, <3>2 DEF TypeOK
  <2>3. loaded' \subseteq profiles' /\ unheard' \in BOOLEAN
    <3>1. loaded \cup {n} \subseteq profiles /\ loaded \subseteq profiles
      BY <2>1 DEF TypeOK
    <3>2. unheard' \in BOOLEAN
      BY DEF TypeOK
    <3> QED
      BY <3>1, <3>2
  <2>4. starting' = None /\ UNCHANGED <<entryVars, healing, flowVars, editVars, saves>>
    OBVIOUS
  <2> HIDE DEF EndStart
  <2> QED
    BY <2>2, <2>3, <2>4 DEF TypeOK
<1>2. NamesDiffer'
  BY DEF TypeOK, NamesDiffer, FlowsNamed, Settings, Changes
<1>3. FlowsNamed'
  BY DEF TypeOK, FlowsNamed, Settings, Changes
<1>4. Changing'
  BY DEF TypeOK, Changing, FlowsNamed, Settings, Changes
<1>5. StartsCurrent'
  BY DEF TypeOK, Changing, StartsCurrent, OneChange, Settings, Changes
<1>6. OneChange'
  BY DEF TypeOK, Changing, StartsCurrent, OneChange, SettingsAgree, FlowsNamed, Settings, Changes
<1>7. SettingsAgree'
  BY DEF TypeOK, Changing, StartsCurrent, OneChange, SettingsAgree, Settings, Changes
<1> QED
  BY <1>1, <1>2, <1>3, <1>4, <1>5, <1>6, <1>7

\* A further profile uses the server that runs.
LEMMA JoinStep ==
  ASSUME IInv, NEW n \in Names, Join(n)
  PROVE  IInv'
<1> USE FlowAssumption DEF IInv, Join, entryVars, serverVars, flowVars, editVars
<1>1. TypeOK'
  BY DEF TypeOK, FlowsNamed, Changing, Settings, Changes
<1>2. NamesDiffer'
  BY DEF TypeOK, NamesDiffer, FlowsNamed, Settings, Changes
<1>3. FlowsNamed'
  BY DEF TypeOK, FlowsNamed, Settings, Changes
<1>4. Changing'
  BY DEF TypeOK, Changing, FlowsNamed, Settings, Changes
<1>5. StartsCurrent'
  BY DEF TypeOK, Changing, StartsCurrent, OneChange, Settings, Changes
<1>6. OneChange'
  BY DEF TypeOK, Changing, StartsCurrent, OneChange, SettingsAgree, FlowsNamed, Settings, Changes
<1>7. SettingsAgree'
  BY DEF TypeOK, Changing, StartsCurrent, OneChange, SettingsAgree, Settings, Changes
<1> QED
  BY <1>1, <1>2, <1>3, <1>4, <1>5, <1>6, <1>7

\* The last profile stops the server.
LEMMA LeaveStep ==
  ASSUME IInv, NEW n \in Names, Leave(n)
  PROVE  IInv'
<1> USE FlowAssumption DEF IInv, Leave, entryVars, serverVars, flowVars, editVars
<1>1. TypeOK'
  BY DEF TypeOK, FlowsNamed, Changing, Settings, Changes
<1>2. NamesDiffer'
  BY DEF TypeOK, NamesDiffer, FlowsNamed, Settings, Changes
<1>3. FlowsNamed'
  BY DEF TypeOK, FlowsNamed, Settings, Changes
<1>4. Changing'
  BY DEF TypeOK, Changing, FlowsNamed, Settings, Changes
<1>5. StartsCurrent'
  BY DEF TypeOK, Changing, StartsCurrent, OneChange, Settings, Changes
<1>6. OneChange'
  BY DEF TypeOK, Changing, StartsCurrent, OneChange, SettingsAgree, FlowsNamed, Settings, Changes
<1>7. SettingsAgree'
  BY DEF TypeOK, Changing, StartsCurrent, OneChange, SettingsAgree, Settings, Changes
<1> QED
  BY <1>1, <1>2, <1>3, <1>4, <1>5, <1>6, <1>7

\* The last profile that is removed takes the system entry with it.
LEMMA RemoveStep ==
  ASSUME IInv, NEW n \in Names, Remove(n)
  PROVE  IInv'
<1> USE FlowAssumption DEF IInv, Remove, Waiting, entryVars, serverVars, flowVars, editVars
<1>1. TypeOK'
  BY DEF TypeOK, FlowsNamed, Changing, Settings, Changes
<1>2. NamesDiffer'
  BY DEF TypeOK, NamesDiffer, FlowsNamed, Settings, Changes
<1>3. FlowsNamed'
  BY DEF TypeOK, FlowsNamed, Settings, Changes
<1>4. Changing'
  BY DEF TypeOK, Changing, FlowsNamed, Settings, Changes
<1>5. StartsCurrent'
  BY DEF TypeOK, Changing, StartsCurrent, OneChange, Settings, Changes
<1>6. OneChange'
  BY DEF TypeOK, Changing, StartsCurrent, OneChange, SettingsAgree, FlowsNamed, Settings, Changes
<1>7. SettingsAgree'
  BY DEF TypeOK, Changing, StartsCurrent, OneChange, SettingsAgree, Settings, Changes
<1> QED
  BY <1>1, <1>2, <1>3, <1>4, <1>5, <1>6, <1>7

\* An options flow opens on a profile or on the system entry.
LEMMA StepInitStep ==
  ASSUME IInv, NEW e \in Editors, NEW n \in Names \cup {System}, StepInit(e, n)
  PROVE  IInv'
<1> USE FlowAssumption DEF IInv, StepInit, Goto, entryVars, serverVars, flowVars, editVars
<1>1. TypeOK'
  BY DEF TypeOK, FlowsNamed, Changing, Settings, Changes
<1>2. NamesDiffer'
  BY DEF TypeOK, NamesDiffer, FlowsNamed, Settings, Changes
<1>3. FlowsNamed'
  BY DEF TypeOK, FlowsNamed, Settings, Changes
<1>4. Changing'
  BY DEF TypeOK, Changing, FlowsNamed, Settings, Changes
<1>5. StartsCurrent'
  BY DEF TypeOK, Changing, StartsCurrent, OneChange, Settings, Changes
<1>6. OneChange'
  BY DEF TypeOK, Changing, StartsCurrent, OneChange, SettingsAgree, FlowsNamed, Settings, Changes
<1>7. SettingsAgree'
  BY DEF TypeOK, Changing, StartsCurrent, OneChange, SettingsAgree, Settings, Changes
<1> QED
  BY <1>1, <1>2, <1>3, <1>4, <1>5, <1>6, <1>7

\* The settings are saved and the server that runs is told.
LEMMA SaveSharedStep ==
  ASSUME IInv, NEW e \in Editors, NEW s \in Settings, SaveShared(e, s)
  PROVE  IInv'
<1> USE FlowAssumption DEF IInv, SaveShared, Commit, Goto, entryVars, serverVars, flowVars, editVars
<1>1. TypeOK'
  <2>1. system' \in Settings \cup {None} /\ unheard' \in BOOLEAN
    BY DEF TypeOK
  <2>2. saves' \in 0..MaxSaves
    BY DEF TypeOK
  <2>3. CASE server = None
    <3>1. name[e] \in Names \cup {System}
      BY DEF FlowsNamed
    <3>2. options' \in [Names -> {0, 1}]
      BY <2>3, <3>1 DEF TypeOK
    <3>3. /\ name' \in [Flows \cup Editors -> Names \cup {System, None}]
          /\ pc' \in [Flows \cup Editors ->
                    {"idle", "server", "model", "openclaw_pairing", "advanced",
                     "mcp_server", "adding", "applying"}]
      BY <2>3 DEF TypeOK
    <3> QED
      BY <2>1, <2>2, <2>3, <3>2, <3>3 DEF TypeOK
  <2>4. CASE server # None
    <3>1. before' \in [Editors -> Settings \cup {None}]
      BY <2>4 DEF TypeOK
    <3>2. applying' \in [Editors -> Changes \cup {None}]
      BY <2>4 DEF TypeOK, Changes
    <3>3. pc' \in [Flows \cup Editors ->
                 {"idle", "server", "model", "openclaw_pairing", "advanced",
                  "mcp_server", "adding", "applying"}]
      BY <2>4 DEF TypeOK
    <3> QED
      BY <2>1, <2>2, <2>4, <3>1, <3>2, <3>3 DEF TypeOK
  <2> QED
    BY <2>3, <2>4
<1>2. NamesDiffer'
  BY DEF TypeOK, NamesDiffer, FlowsNamed, Settings, Changes
<1>3. FlowsNamed'
  BY DEF TypeOK, FlowsNamed, Settings, Changes
<1>4. Changing'
  BY DEF TypeOK, Changing, FlowsNamed, Settings, Changes
<1>5. StartsCurrent'
  BY DEF TypeOK, Changing, StartsCurrent, OneChange, Settings, Changes
<1>6. OneChange'
  <2> SUFFICES ASSUME ~unheard', NEW g \in Editors, applying'[g] # None
               PROVE  /\ \A other \in Editors \ {g} : applying'[other] = None
                      /\ applying'[g].to = system'
                      /\ server' # None => server' = before'[g]
                      /\ server' # None /\ applying'[g].how = "refresh" =>
                           server'.port = system'.port
    BY DEF OneChange
  <2>1. ~unheard /\ \A other \in Editors : applying[other] = None
    BY DEF TypeOK, Changing
  <2>2. g = e /\ server # None
    BY <2>1 DEF TypeOK
  <2>3. server = system
    BY <2>1, <2>2 DEF SettingsAgree
  <2> QED
    BY <2>1, <2>2, <2>3 DEF TypeOK, Settings, Changes
<1>7. SettingsAgree'
  BY DEF TypeOK, Changing, StartsCurrent, OneChange, SettingsAgree, Settings, Changes
<1> QED
  BY <1>1, <1>2, <1>3, <1>4, <1>5, <1>6, <1>7

\* The server works by the settings it was told of.
LEMMA ApplyStep ==
  ASSUME IInv, NEW e \in Editors, Apply(e)
  PROVE  IInv'
<1> USE FlowAssumption DEF IInv, Apply, Commit, Goto, entryVars, serverVars, flowVars, editVars
<1>1. TypeOK'
  <2>1. server' \in Settings \cup {None}
    BY DEF TypeOK, Changing, Settings, Changes
  <2>2. /\ applying' \in [Editors -> Changes \cup {None}]
        /\ before' \in [Editors -> Settings \cup {None}]
    BY DEF TypeOK
  <2>3. /\ name' \in [Flows \cup Editors -> Names \cup {System, None}]
        /\ pc' \in [Flows \cup Editors ->
                  {"idle", "server", "model", "openclaw_pairing", "advanced",
                   "mcp_server", "adding", "applying"}]
    BY DEF TypeOK
  <2>4. options' \in [Names -> {0, 1}]
    <3>1. name[e] \in Names \cup {System}
      BY DEF FlowsNamed
    <3> QED
      BY <3>1 DEF TypeOK
  <2>5. UNCHANGED <<profiles, system, loaded, healing, starting, saves, unheard>>
    OBVIOUS
  <2> HIDE DEF Apply
  <2> QED
    BY <2>1, <2>2, <2>3, <2>4, <2>5 DEF TypeOK
<1>2. NamesDiffer'
  BY DEF TypeOK, NamesDiffer, FlowsNamed, Settings, Changes
<1>3. FlowsNamed'
  BY DEF TypeOK, FlowsNamed, Settings, Changes
<1>4. Changing'
  BY DEF TypeOK, Changing, FlowsNamed, Settings, Changes
<1>5. StartsCurrent'
  BY DEF TypeOK, Changing, StartsCurrent, OneChange, Settings, Changes
<1>6. OneChange'
  BY DEF TypeOK, Changing, StartsCurrent, OneChange, SettingsAgree, FlowsNamed, Settings, Changes
<1>7. SettingsAgree'
  BY DEF TypeOK, Changing, StartsCurrent, OneChange, SettingsAgree, Settings, Changes
<1> QED
  BY <1>1, <1>2, <1>3, <1>4, <1>5, <1>6, <1>7

\* The settings go back to what the server works by.
LEMMA ApplyFailsStep ==
  ASSUME IInv, NEW e \in Editors, ApplyFails(e)
  PROVE  IInv'
<1> USE FlowAssumption DEF IInv, ApplyFails, Goto, entryVars, serverVars, flowVars, editVars
<1>1. TypeOK'
  BY DEF TypeOK, FlowsNamed, Changing, Settings, Changes
<1>2. NamesDiffer'
  BY DEF TypeOK, NamesDiffer, FlowsNamed, Settings, Changes
<1>3. FlowsNamed'
  BY DEF TypeOK, FlowsNamed, Settings, Changes
<1>4. Changing'
  BY DEF TypeOK, Changing, FlowsNamed, Settings, Changes
<1>5. StartsCurrent'
  BY DEF TypeOK, Changing, StartsCurrent, OneChange, Settings, Changes
<1>6. OneChange'
  BY DEF TypeOK, Changing, StartsCurrent, OneChange, SettingsAgree, FlowsNamed, Settings, Changes
<1>7. SettingsAgree'
  BY DEF TypeOK, Changing, StartsCurrent, OneChange, SettingsAgree, Settings, Changes
<1> QED
  BY <1>1, <1>2, <1>3, <1>4, <1>5, <1>6, <1>7

\* A form that is closed leaves no trace.
LEMMA CloseFormStep ==
  ASSUME IInv, NEW f \in Flows \cup Editors, CloseForm(f)
  PROVE  IInv'
<1> USE FlowAssumption DEF IInv, CloseForm, Goto, entryVars, serverVars, flowVars, editVars
<1>1. TypeOK'
  BY DEF TypeOK, FlowsNamed, Changing, Settings, Changes
<1>2. NamesDiffer'
  BY DEF TypeOK, NamesDiffer, FlowsNamed, Settings, Changes
<1>3. FlowsNamed'
  BY DEF TypeOK, FlowsNamed, Settings, Changes
<1>4. Changing'
  BY DEF TypeOK, Changing, FlowsNamed, Settings, Changes
<1>5. StartsCurrent'
  BY DEF TypeOK, Changing, StartsCurrent, OneChange, Settings, Changes
<1>6. OneChange'
  BY DEF TypeOK, Changing, StartsCurrent, OneChange, SettingsAgree, FlowsNamed, Settings, Changes
<1>7. SettingsAgree'
  BY DEF TypeOK, Changing, StartsCurrent, OneChange, SettingsAgree, Settings, Changes
<1> QED
  BY <1>1, <1>2, <1>3, <1>4, <1>5, <1>6, <1>7

\* Every step of every flow and every setup keeps the invariant.
LEMMA StepIInv == IInv /\ [Next]_vars => IInv'
<1> SUFFICES ASSUME IInv, [Next]_vars PROVE IInv'
  OBVIOUS
<1>1. ASSUME NEW f \in Flows,
             \/ \E n \in Names : StepUser(f, n)
             \/ StepServer(f) \/ StepOpenclawPairing(f) \/ StepModel(f)
             \/ StepAdvanced(f)
             \/ \E s \in Settings : StepMcpServer(f, s)
             \/ SystemEntryAdded(f)
      PROVE  IInv'
  BY <1>1, StepUserStep, StepFormsStep, StepAdvancedStep, StepMcpServerStep, SystemEntryAddedStep
<1>2. ASSUME NEW n \in Names,
             \/ FindNoSystemEntry(n)
             \/ \E s \in Settings : Heal(n, s)
             \/ BeginStart(n) \/ MakeServer(n) \/ EndStart(n)
             \/ Join(n) \/ Leave(n) \/ Remove(n)
      PROVE  IInv'
  BY <1>2, FindNoSystemEntryStep, HealStep, BeginStartStep, MakeServerStep, EndStartStep,
     JoinStep, LeaveStep, RemoveStep
<1>3. ASSUME NEW e \in Editors,
             \/ \E n \in Names \cup {System} : StepInit(e, n)
             \/ \E s \in Settings : SaveShared(e, s)
             \/ Apply(e) \/ ApplyFails(e)
      PROVE  IInv'
  BY <1>3, StepInitStep, SaveSharedStep, ApplyStep, ApplyFailsStep
<1>4. CASE UNCHANGED vars
  BY <1>4 DEF IInv, TypeOK, NamesDiffer, FlowsNamed, Changing, StartsCurrent, OneChange,
              SettingsAgree, vars, entryVars, serverVars, flowVars, editVars
<1> QED
  BY <1>1, <1>2, <1>3, <1>4, CloseFormStep DEF Next

\* In every reachable state: types and names, a way back for every change, and
\* a server that works by what is saved or is about to.
THEOREM Invariance == Spec => []IInv
<1> QED
  BY InitIInv, StepIInv, PTL DEF Spec

\* Types, and no two flows that add the same profile or one that exists:
\* the check of the name comes before the shared settings are written.
THEOREM ProfilesAreSound == Spec => []ProfilesSound
<1>1. IInv => ProfilesSound
  BY DEF IInv, ProfilesSound
<1> QED
  BY <1>1, Invariance, PTL

\* After any moves, refreshes, failures and restarts the server runs with the
\* settings that are saved, unless a save was one that nobody tells it of.
THEOREM ServerAgrees == Spec => []SettingsAgree
<1>1. IInv => SettingsAgree
  BY DEF IInv
<1> QED
  BY <1>1, Invariance, PTL

\* Options are saved once the shared settings of the form have taken effect:
\* when they change, the server works by what is then saved.
THEOREM OptionsAreLast == Spec => OptionsSavedLast
<1> DEFINE AppliedFirst == options' # options /\ profiles' = profiles /\ ~unheard'
                      => server' \in {None, system'}
<1>1. ASSUME IInv, Next, options' # options, profiles' = profiles, ~unheard'
      PROVE  server' \in {None, system'}
  <2> USE FlowAssumption DEF IInv, entryVars, serverVars, flowVars, editVars
  <2>1. PICK e \in Editors : Apply(e) \/ \E s \in Settings : SaveShared(e, s)
    BY <1>1 DEF Next, StepUser, StepServer, StepOpenclawPairing, StepModel, StepAdvanced,
       StepMcpServer, SystemEntryAdded, CreateEntry, FindNoSystemEntry, Heal, BeginStart,
       MakeServer, EndStart, Join, Leave, Remove, Waiting, StepInit, ApplyFails, CloseForm, TypeOK
  <2>2. CASE \E s \in Settings : SaveShared(e, s)
    BY <1>1, <2>2 DEF SaveShared
  <2>3. CASE Apply(e)
    <3>1. /\ applying[e] # None /\ system # None /\ applying[e].to = system
          /\ server # None /\ applying[e].how = "refresh" => server.port = system.port
      BY <1>1, <2>3 DEF Apply, Changing, OneChange
    <3>2. server' \in {None, system}
      BY <1>1, <3>1, <2>3 DEF Apply, TypeOK, Settings, Changes
    <3> QED
      BY <3>2, <2>3 DEF Apply
  <2> QED
    BY <2>1, <2>2, <2>3
<1>2. IInv /\ [Next]_vars => [AppliedFirst]_vars
  BY <1>1
<1> QED
  BY <1>2, Invariance, PTL DEF Spec, OptionsSavedLast

\* AppliedFirst settings are replaced by another save or taken back, never by a
\* setup that found none when it began.
THEOREM SavedSettingsStay == Spec => SavedByUsers
<1> DEFINE Replaced == system # None /\ system' \notin {None, system}
                         => \/ saves' > saves
                            \/ \E e \in Editors : pc[e] = "applying" /\ system' = before[e]
<1>1. ASSUME IInv, Next, system # None, system' \notin {None, system}
      PROVE  \/ saves' > saves
             \/ \E e \in Editors : pc[e] = "applying" /\ system' = before[e]
  <2> USE DEF entryVars, serverVars, flowVars, editVars
  <2>1. \/ \E f \in Flows, s \in Settings : StepMcpServer(f, s)
        \/ \E e \in Editors, s \in Settings : SaveShared(e, s)
        \/ \E e \in Editors : ApplyFails(e)
    BY <1>1 DEF Next, StepUser, StepServer, StepOpenclawPairing, StepModel, StepAdvanced,
       SystemEntryAdded, CreateEntry, FindNoSystemEntry, Heal, BeginStart,
       MakeServer, EndStart, Join, Leave, Remove, Waiting, StepInit, Apply, CloseForm
  <2>2. saves \in Nat
    BY <1>1, FlowAssumption DEF IInv, TypeOK
  <2> QED
    BY <2>1, <2>2 DEF StepMcpServer, SaveShared, ApplyFails
<1>2. IInv /\ [Next]_vars => [Replaced]_vars
  BY <1>1
<1> QED
  BY <1>2, Invariance, PTL DEF Spec, SavedByUsers

-----------------------------------------------------------------------------
(* The form of a profile *)

\* The tool boxes touch no other field.
LEMMA DisablesApplied ==
  ASSUME NEW values, NEW key, key \notin {"disable", "profile_enable"}
  PROVE  /\ key \in DOMAIN ApplyDisables(values) <=> key \in DOMAIN values
         /\ key \in DOMAIN values => ApplyDisables(values)[key] = values[key]
<1>1. /\ key \in DOMAIN Without(values, {"disable", "profile_enable"}) <=> key \in DOMAIN values
      /\ key \in DOMAIN values => Without(values, {"disable", "profile_enable"})[key] = values[key]
  BY DEF Without
<1>2. ASSUME NEW rest
      PROVE  LET d == Merge(rest, [profile_enable |-> "False"])
             IN  /\ key \in DOMAIN d <=> key \in DOMAIN rest
                 /\ key \in DOMAIN rest => d[key] = rest[key]
  BY DEF Merge
<1> QED BY <1>1, <1>2 DEF ApplyDisables

\* The prompt and its mode are all that the prompts' normalisation changes.
LEMMA PromptsNormalized ==
  ASSUME NEW values, NEW kind
  PROVE  LET o == NormalizePrompts(values, kind)
             prompt == Get(values, "prompt", Blank)
             custom == kind = "model" /\ prompt \notin {Blank, Default.prompt}
         IN  /\ \A key : key \notin {"prompt", "prompt_mode"} =>
                  /\ key \in DOMAIN o <=> key \in DOMAIN values
                  /\ key \in DOMAIN values => o[key] = values[key]
             /\ "prompt_mode" \in DOMAIN o
             /\ o["prompt_mode"] = IF custom THEN "custom" ELSE "default"
             /\ custom => "prompt" \in DOMAIN o /\ o["prompt"] = prompt
<1> DEFINE o == NormalizePrompts(values, kind)
           prompt == Get(values, "prompt", Blank)
           custom == kind = "model" /\ prompt \notin {Blank, Default.prompt}
<1>1. custom => "prompt" \in DOMAIN values /\ values["prompt"] = prompt
  BY DEF Get
<1>2. CASE custom
  <2>1. o = Merge(values, [prompt_mode |-> "custom"])
    BY <1>2 DEF NormalizePrompts
  <2>2. /\ DOMAIN o = DOMAIN values \cup {"prompt_mode"}
        /\ o["prompt_mode"] = "custom"
        /\ \A key \in DOMAIN values \ {"prompt_mode"} : o[key] = values[key]
    BY <2>1 DEF Merge
  <2> HIDE DEF custom, o, prompt
  <2>3. QED BY <1>1, <1>2, <2>2 DEF o, prompt, custom
<1>3. CASE ~custom
  <2>1. o = Merge(Without(values, {"prompt"}), [prompt_mode |-> "default"])
    BY <1>3 DEF NormalizePrompts
  <2>2. /\ DOMAIN o = (DOMAIN values \ {"prompt"}) \cup {"prompt_mode"}
        /\ o["prompt_mode"] = "default"
        /\ \A key \in DOMAIN values \ {"prompt", "prompt_mode"} : o[key] = values[key]
    BY <2>1 DEF Merge, Without
  <2> HIDE DEF custom, o, prompt
  <2>3. QED BY <1>3, <2>2 DEF o, prompt, custom
<1> QED BY <1>2, <1>3

\* A save keeps the phrases and the session key that the form hid, and takes
\* every other field of the form as submitted.
LEMMA OptionsStored ==
  ASSUME NEW kind \in Kinds, NEW given, NEW entry
  PROVE  LET o == OptionsAfter(kind, given, entry)
             previous == Merge(entry.data, entry.options)
         IN  \A f \in FieldsOf(kind) \ {"disable", "prompt"} :
               IF Shown(f, given)
               THEN f \in DOMAIN o /\ o[f] = given[f]
               ELSE /\ f \in DOMAIN o <=> f \in DOMAIN previous
                    /\ f \in DOMAIN previous => o[f] = previous[f]
<1> DEFINE s == Submitted(kind, given)
           a == ApplyDisables(s)
           previous == Merge(entry.data, entry.options)
           merged == Merge(previous, a)
           inactive ==
             {key \in {"phrases"} : Get(merged, "mode", Default.mode) = "none"} \cup
             {key \in FieldsOf(kind) \cap {"session_key"} :
                Get(merged, "session_mode", "absent") # "fixed"}
           old == [key \in inactive \cap DOMAIN previous |-> previous[key]]
           p == PreserveInactive(a, previous, kind)
           o == OptionsAfter(kind, given, entry)
           fields == FieldsOf(kind) \ {"disable", "prompt"}
<1>1. /\ DOMAIN s = {f \in FieldsOf(kind) : Shown(f, given)}
      /\ \A f \in DOMAIN s : s[f] = given[f]
  BY DEF Submitted
<1>2. \A f \in fields : (f \in DOMAIN a <=> f \in DOMAIN s) /\ (f \in DOMAIN s => a[f] = s[f])
  BY DisablesApplied DEF FieldsOf
<1>3. p = Merge(old, a)
  BY DEF PreserveInactive
<1>4. DOMAIN old = inactive \cap DOMAIN previous /\ \A f \in DOMAIN old : old[f] = previous[f]
  OBVIOUS
<1>5. o = NormalizePrompts(p, kind)
  BY DEF OptionsAfter
<1>6. "mode" \in DOMAIN a /\ a["mode"] = given["mode"]
  BY <1>1, <1>2 DEF FieldsOf, Shown
<1>7. kind = "agent" => "session_mode" \in DOMAIN a /\ a["session_mode"] = given["session_mode"]
  BY <1>1, <1>2 DEF FieldsOf, Shown
<1>8. /\ Get(merged, "mode", Default.mode) = given["mode"]
      /\ kind = "agent" => Get(merged, "session_mode", "absent") = given["session_mode"]
  <2> HIDE DEF a, previous
  <2> QED BY <1>6, <1>7 DEF Get, Merge
<1>9. \A f \in fields : f \in inactive <=> ~Shown(f, given)
  <2> HIDE DEF merged
  <2> QED BY <1>8 DEF FieldsOf, Kinds, Shown
<1>10. \A f \in fields : (f \in DOMAIN o <=> f \in DOMAIN p) /\ (f \in DOMAIN p => o[f] = p[f])
  BY <1>5, PromptsNormalized DEF FieldsOf
<1> HIDE DEF s, a, previous, inactive, old, p, o, merged
<1>11. /\ DOMAIN p = DOMAIN old \cup DOMAIN a
       /\ \A f \in DOMAIN a : p[f] = a[f]
       /\ \A f \in DOMAIN old \ DOMAIN a : p[f] = old[f]
  BY <1>3 DEF Merge
<1>12. ASSUME NEW f \in fields
       PROVE  IF Shown(f, given)
               THEN f \in DOMAIN o /\ o[f] = given[f]
               ELSE /\ f \in DOMAIN o <=> f \in DOMAIN previous
                    /\ f \in DOMAIN previous => o[f] = previous[f]
  <2> HIDE DEF fields
  <2>1. f \in DOMAIN a <=> Shown(f, given)
    BY <1>1, <1>2 DEF fields
  <2>2. Shown(f, given) => a[f] = given[f]
    BY <1>1, <1>2 DEF fields
  <2>3. f \in DOMAIN old <=> f \in DOMAIN previous /\ ~Shown(f, given)
    BY <1>4, <1>9
  <2> QED BY <1>4, <1>10, <1>11, <2>1, <2>2, <2>3
<1> QED BY <1>12 DEF o, previous

\* The stored prompt is the submitted one if it is neither blank nor built in.
LEMMA PromptStored ==
  ASSUME NEW given, NEW entry
  PROVE  PromptOf(Saved("model", given, entry)) =
           IF given["prompt"] = Blank THEN Default["prompt"] ELSE given["prompt"]
<1> DEFINE s == Submitted("model", given)
           a == ApplyDisables(s)
           previous == Merge(entry.data, entry.options)
           p == PreserveInactive(a, previous, "model")
           o == OptionsAfter("model", given, entry)
           after == Saved("model", given, entry)
<1>1. "prompt" \in DOMAIN s /\ s["prompt"] = given["prompt"]
  BY DEF Submitted, FieldsOf, Shown
<1>2. "prompt" \in DOMAIN a /\ a["prompt"] = given["prompt"]
  BY <1>1, DisablesApplied
<1>3. \E old : p = Merge(old, a)
  BY DEF PreserveInactive
<1>4. o = NormalizePrompts(p, "model")
  BY DEF OptionsAfter
<1> HIDE DEF s, a, previous, p
<1>5. Get(p, "prompt", Blank) = given["prompt"]
  BY <1>2, <1>3 DEF Get, Merge
<1> HIDE DEF o
<1>6. /\ "prompt_mode" \in DOMAIN o
      /\ o["prompt_mode"] = IF given["prompt"] \notin {Blank, Default.prompt} THEN "custom" ELSE "default"
      /\ given["prompt"] \notin {Blank, Default.prompt} => "prompt" \in DOMAIN o /\ o["prompt"] = given["prompt"]
  BY <1>4, <1>5, PromptsNormalized
<1>7. after.options = o
  BY DEF Saved, o
<1> HIDE DEF after
<1> QED BY <1>6, <1>7 DEF PromptOf, Stored, Get, Default, after

\* What the profile works by after a save: a field that was hidden as before,
\* one that was shown as submitted.
LEMMA FieldsKept ==
  ASSUME NEW kind \in Kinds, NEW given, NEW entry, NEW f \in FieldsOf(kind) \ {"disable"}
  PROVE  Effective(kind, Saved(kind, given, entry))[f] =
           IF ~Shown(f, given) THEN Effective(kind, entry)[f]
           ELSE IF f = "prompt" /\ given[f] = Blank THEN Default[f]
           ELSE given[f]
<1> DEFINE o == OptionsAfter(kind, given, entry)
           previous == Merge(entry.data, entry.options)
           after == Saved(kind, given, entry)
<1>1. CASE f = "prompt"
  <2>1. kind = "model" /\ Shown(f, given)
    BY <1>1 DEF FieldsOf, Kinds, Shown
  <2>2. Effective(kind, after)[f] = PromptOf(after)
    BY <1>1 DEF Effective
  <2> QED BY <1>1, <2>1, <2>2, PromptStored
<1>2. CASE f # "prompt"
  <2>1. /\ Effective(kind, after)[f] = Stored(after, f, Default[f])
        /\ Effective(kind, entry)[f] = Stored(entry, f, Default[f])
    BY <1>2 DEF Effective
  <2>2. after.options = o /\ after.data = entry.data
    BY DEF Saved
  <2>3. /\ f \in DOMAIN previous <=> f \in DOMAIN entry.data \/ f \in DOMAIN entry.options
        /\ f \in DOMAIN previous =>
             previous[f] = IF f \in DOMAIN entry.options THEN entry.options[f] ELSE entry.data[f]
    BY DEF Merge
  <2>4. IF Shown(f, given)
        THEN f \in DOMAIN o /\ o[f] = given[f]
        ELSE /\ f \in DOMAIN o <=> f \in DOMAIN previous
             /\ f \in DOMAIN previous => o[f] = previous[f]
    BY <1>2, OptionsStored
  <2> HIDE DEF o, previous, after
  <2>5. CASE Shown(f, given)
    <3>1. f \in DOMAIN o /\ o[f] = given[f]
      BY <2>4, <2>5
    <3>2. Stored(after, f, Default[f]) = given[f]
      BY <2>2, <3>1 DEF Stored, Get
    <3> QED BY <1>2, <2>1, <2>5, <3>2 DEF after
  <2>6. CASE ~Shown(f, given)
    <3>0. /\ f \in DOMAIN o <=> f \in DOMAIN previous
          /\ f \in DOMAIN previous => o[f] = previous[f]
      BY <2>4, <2>6
    <3>1. Stored(after, f, Default[f]) = Stored(entry, f, Default[f])
      BY <2>2, <2>3, <3>0 DEF Stored, Get
    <3> QED BY <2>1, <2>6, <3>1 DEF after
  <2> QED BY <2>5, <2>6
<1> QED BY <1>1, <1>2

\* A save of a profile leaves what the form hid.
LEMMA ProfileKept ==
  ASSUME NEW edit, profile # NoProfile, profile.kind \in Kinds, ChangeProfile(edit)
  PROVE  HiddenFieldsStay'
<1> DEFINE kind == profile.kind
           given == Merge(OptionsForm(kind, profile.entry), edit)
<1>1. /\ profile' = [kind |-> kind, entry |-> Saved(kind, given, profile.entry)]
      /\ saved'.given = given /\ saved'.before = Effective(kind, profile.entry)
  BY DEF ChangeProfile
<1> HIDE DEF given
<1>2. profile'.kind = kind /\ profile'.entry = Saved(kind, given, profile.entry)
  BY <1>1
<1> QED BY <1>1, <1>2, FieldsKept DEF HiddenFieldsStay

-----------------------------------------------------------------------------
(* The form of the shared settings *)

\* All fields of the form are there, of the kind that they take.
Filled(given) == SharedValid(given) /\ DOMAIN given = DOMAIN SharedDefault

\* A form that some fields were changed in is still filled in.
LEMMA FormFilled ==
  ASSUME NEW shown, Filled(shown), NEW edit, SharedValid(edit)
  PROVE  Filled(Merge(shown, edit))
BY DEF Filled, SharedValid, Merge

\* The defaults fill in a form, and so do stored settings with the defaults.
LEMMA DefaultsFilled == Filled(SharedDefault)
BY DEF Filled, SharedValid, SharedDefault

LEMMA StoredFilled ==
  ASSUME NEW stored, SharedValid(stored)
  PROVE  Filled(SharedForm(stored))
<1>1. DOMAIN SharedForm(stored) = DOMAIN SharedDefault
  BY DEF SharedForm
<1>2. \A f \in DOMAIN SharedDefault :
        SharedForm(stored)[f] = IF f \in DOMAIN stored THEN stored[f] ELSE SharedDefault[f]
  BY DEF SharedForm, Get
<1> QED BY <1>1, <1>2, DefaultsFilled DEF Filled, SharedValid

\* What a submission is made into: the fields that were hidden are as they
\* were stored, if they were; the others as submitted, but for the engine that
\* search needs and for the range of the lifetimes.
LEMMA SharedNormalized ==
  ASSUME NEW given, Filled(given), NEW stored
  PROVE  LET n == NormalizeShared(SharedSubmitted(given), stored)
             engine == IF given["search"] = "on" THEN given["provider"]
                       ELSE Get(stored, "provider", "none")
         IN  /\ DOMAIN n \subseteq DOMAIN SharedDefault
             /\ {"search", "provider", "bridge", "allowlist", "max_ttl", "default_ttl"} \subseteq DOMAIN n
             /\ n["search"] = given["search"] /\ n["bridge"] = given["bridge"]
             /\ n["provider"] = IF given["search"] = "on" /\ engine = "none" THEN "duckduckgo" ELSE engine
             /\ n["allowlist"] = IF given["bridge"] = "on" THEN given["allowlist"]
                                 ELSE Get(stored, "allowlist", Blank)
             /\ n["max_ttl"] = Greatest(1, given["max_ttl"])
             /\ n["default_ttl"] = Greatest(1, Least(given["default_ttl"], n["max_ttl"]))
             /\ \A f \in {"brave_key", "searxng_url"} :
                  IF SharedShown(f, given)
                  THEN f \in DOMAIN n /\ n[f] = given[f]
                  ELSE (f \in DOMAIN n <=> f \in DOMAIN stored) /\ (f \in DOMAIN n => n[f] = stored[f])
<1> DEFINE values == SharedSubmitted(given)
           search == Get(values, "search", "off")
           provider == Get(values, "provider", Get(stored, "provider", "absent"))
           inactive ==
             {key \in {"provider"} : search = "off"} \cup
             {key \in {"brave_key"} : search = "off" \/ provider # "brave"} \cup
             {key \in {"searxng_url"} : search = "off" \/ provider # "searxng"} \cup
             {key \in {"allowlist"} : Get(values, "bridge", "off") = "off"}
           old == [key \in inactive \cap DOMAIN stored |-> stored[key]]
           kept == Merge(old, values)
           engine == Get(kept, "provider", "none")
           max == Greatest(1, kept.max_ttl)
           set == [provider |-> IF search = "on" /\ engine = "none" THEN "duckduckgo" ELSE engine,
                   allowlist |-> Get(kept, "allowlist", Blank),
                   max_ttl |-> max,
                   default_ttl |-> Greatest(1, Least(kept.default_ttl, max))]
           n == NormalizeShared(values, stored)
<1>1. n = Merge(kept, set)
  BY DEF NormalizeShared
<1>2. /\ DOMAIN given = {"search", "provider", "brave_key", "searxng_url",
                         "bridge", "allowlist", "max_ttl", "default_ttl"}
      /\ DOMAIN SharedDefault = DOMAIN given
      /\ given["search"] \in {"on", "off"} /\ given["bridge"] \in {"on", "off"}
  BY DEF Filled, SharedValid, SharedDefault
<1>3. /\ DOMAIN values = {f \in DOMAIN given : SharedShown(f, given)}
      /\ \A f \in DOMAIN values : values[f] = given[f]
  BY DEF SharedSubmitted
<1>4. \A f \in {"search", "bridge", "max_ttl", "default_ttl"} : f \in DOMAIN values
  BY <1>2, <1>3 DEF SharedShown
<1>5. "provider" \in DOMAIN values <=> given["search"] = "on"
  BY <1>2, <1>3 DEF SharedShown
<1>6. "allowlist" \in DOMAIN values <=> given["bridge"] = "on"
  BY <1>2, <1>3 DEF SharedShown
<1>7. \A f \in {"brave_key", "searxng_url"} : f \in DOMAIN values <=> SharedShown(f, given)
  BY <1>2, <1>3
<1> HIDE DEF values
<1>8. search = given["search"] /\ Get(values, "bridge", "off") = given["bridge"]
  BY <1>3, <1>4 DEF Get
<1>9. given["search"] = "on" => provider = given["provider"]
  BY <1>3, <1>5 DEF Get
<1> HIDE DEF search, provider
<1>10. \A f \in {"provider", "brave_key", "searxng_url", "allowlist"} :
         f \in inactive <=> f \notin DOMAIN values
  <2>1. \A f \in {"brave_key", "searxng_url"} : f \in inactive <=> ~SharedShown(f, given)
    BY <1>2, <1>8, <1>9 DEF SharedShown
  <2>2. "provider" \in inactive <=> given["search"] # "on"
    BY <1>2, <1>8
  <2>3. "allowlist" \in inactive <=> given["bridge"] # "on"
    BY <1>2, <1>8
  <2> QED BY <1>5, <1>6, <1>7, <2>1, <2>2, <2>3
<1>11. inactive \subseteq {"provider", "brave_key", "searxng_url", "allowlist"}
  OBVIOUS
<1>12. DOMAIN old = inactive \cap DOMAIN stored /\ \A f \in DOMAIN old : old[f] = stored[f]
  OBVIOUS
<1> HIDE DEF inactive, old
<1>13. /\ DOMAIN kept = DOMAIN old \cup DOMAIN values
       /\ \A f \in DOMAIN values : kept[f] = values[f]
       /\ \A f \in DOMAIN old \ DOMAIN values : kept[f] = old[f]
  BY DEF Merge
<1> HIDE DEF kept
<1>14. engine = IF given["search"] = "on" THEN given["provider"] ELSE Get(stored, "provider", "none")
  BY <1>3, <1>5, <1>10, <1>12, <1>13 DEF Get
<1>15. Get(kept, "allowlist", Blank) =
         IF given["bridge"] = "on" THEN given["allowlist"] ELSE Get(stored, "allowlist", Blank)
  BY <1>3, <1>6, <1>10, <1>12, <1>13 DEF Get
<1>16. kept.max_ttl = given["max_ttl"] /\ kept.default_ttl = given["default_ttl"]
  BY <1>3, <1>4, <1>13
<1>17. /\ DOMAIN set = {"provider", "allowlist", "max_ttl", "default_ttl"}
       /\ set["provider"] = IF search = "on" /\ engine = "none" THEN "duckduckgo" ELSE engine
       /\ set["allowlist"] = Get(kept, "allowlist", Blank)
       /\ set["max_ttl"] = max
       /\ set["default_ttl"] = Greatest(1, Least(kept.default_ttl, max))
  OBVIOUS
<1> HIDE DEF engine, set, n
<1>18. /\ DOMAIN n = DOMAIN kept \cup DOMAIN set
       /\ \A f \in DOMAIN set : n[f] = set[f]
       /\ \A f \in DOMAIN kept \ DOMAIN set : n[f] = kept[f]
  BY <1>1 DEF Merge
<1>19. DOMAIN n \subseteq DOMAIN SharedDefault
  BY <1>2, <1>3, <1>11, <1>12, <1>13, <1>17, <1>18
<1>20. {"search", "provider", "bridge", "allowlist", "max_ttl", "default_ttl"} \subseteq DOMAIN n
  BY <1>4, <1>13, <1>17, <1>18
<1>21. n["search"] = given["search"] /\ n["bridge"] = given["bridge"]
  BY <1>3, <1>4, <1>13, <1>17, <1>18
<1>22. /\ n["provider"] = set["provider"] /\ n["allowlist"] = set["allowlist"]
       /\ n["max_ttl"] = set["max_ttl"] /\ n["default_ttl"] = set["default_ttl"]
  BY <1>17, <1>18
<1>23. ASSUME NEW f \in {"brave_key", "searxng_url"}
       PROVE  IF SharedShown(f, given)
              THEN f \in DOMAIN n /\ n[f] = given[f]
              ELSE (f \in DOMAIN n <=> f \in DOMAIN stored) /\ (f \in DOMAIN n => n[f] = stored[f])
  <2>1. f \notin DOMAIN set
    BY <1>17
  <2> QED BY <1>3, <1>7, <1>10, <1>12, <1>13, <1>18, <2>1
<1>24. n["provider"] = LET e == IF given["search"] = "on" THEN given["provider"]
                                ELSE Get(stored, "provider", "none")
                       IN  IF given["search"] = "on" /\ e = "none" THEN "duckduckgo" ELSE e
  BY <1>8, <1>14, <1>17, <1>22
<1>25. n["max_ttl"] = Greatest(1, given["max_ttl"])
       /\ n["default_ttl"] = Greatest(1, Least(given["default_ttl"], n["max_ttl"]))
  BY <1>16, <1>17, <1>22
<1>26. n["allowlist"] = IF given["bridge"] = "on" THEN given["allowlist"]
                        ELSE Get(stored, "allowlist", Blank)
  BY <1>15, <1>17, <1>22
<1> QED BY <1>19, <1>20, <1>21, <1>23, <1>24, <1>25, <1>26 DEF n, values

\* What was submitted is stored as it can be served, and what was hidden stays.
LEMMA SharedKept ==
  ASSUME NEW given, Filled(given), NEW stored, SharedValid(stored),
         SearchComplete(NormalizeShared(SharedSubmitted(given), stored))
  PROVE  LET after == SharedSaved(given, stored)
             form == SharedForm(after)
         IN  /\ SharedValid(after) /\ after # Empty
             /\ \A f \in DOMAIN SharedDefault :
                  ~SharedShown(f, given) => form[f] = SharedForm(stored)[f]
             /\ form["search"] = "on" => form["provider"] # "none"
             /\ form["default_ttl"] \in 1..form["max_ttl"]
             /\ SearchComplete(after)
<1> DEFINE n == NormalizeShared(SharedSubmitted(given), stored)
           after == SharedSaved(given, stored)
           form == SharedForm(after)
<1>1. /\ DOMAIN n \subseteq DOMAIN SharedDefault
      /\ {"search", "provider", "bridge", "allowlist", "max_ttl", "default_ttl"} \subseteq DOMAIN n
      /\ n["search"] = given["search"] /\ n["bridge"] = given["bridge"]
      /\ n["max_ttl"] = Greatest(1, given["max_ttl"])
      /\ n["default_ttl"] = Greatest(1, Least(given["default_ttl"], n["max_ttl"]))
  BY SharedNormalized
<1>2. /\ given["search"] = "on" => n["provider"] = IF given["provider"] = "none" THEN "duckduckgo" ELSE given["provider"]
      /\ given["search"] # "on" => n["provider"] = Get(stored, "provider", "none")
      /\ given["bridge"] # "on" => n["allowlist"] = Get(stored, "allowlist", Blank)
  BY SharedNormalized
<1>3. \A f \in {"brave_key", "searxng_url"} :
        IF SharedShown(f, given)
        THEN f \in DOMAIN n /\ n[f] = given[f]
        ELSE (f \in DOMAIN n <=> f \in DOMAIN stored) /\ (f \in DOMAIN n => n[f] = stored[f])
  BY SharedNormalized
<1>4. /\ DOMAIN SharedDefault = {"search", "provider", "brave_key", "searxng_url",
                                 "bridge", "allowlist", "max_ttl", "default_ttl"}
      /\ SharedDefault["provider"] = "none" /\ SharedDefault["allowlist"] = Blank
  BY DEF SharedDefault
<1>5. /\ given["search"] \in {"on", "off"} /\ given["bridge"] \in {"on", "off"}
      /\ given["max_ttl"] \in Int /\ given["default_ttl"] \in Int
  BY <1>4 DEF Filled, SharedValid
<1>6. n["max_ttl"] \in Int /\ n["default_ttl"] \in 1..n["max_ttl"]
  BY <1>1, <1>5 DEF Greatest, Least
<1>7. after = Merge(stored, n)
  BY DEF SharedSaved
<1> HIDE DEF n, after
<1>8. /\ DOMAIN after = DOMAIN stored \cup DOMAIN n
      /\ \A f \in DOMAIN n : after[f] = n[f]
      /\ \A f \in DOMAIN stored \ DOMAIN n : after[f] = stored[f]
  BY <1>7 DEF Merge
<1>9. after # Empty
  BY <1>1, <1>8 DEF Empty
<1>10. SharedValid(after)
  BY <1>1, <1>4, <1>5, <1>6, <1>8 DEF SharedValid
<1>11. \A f \in DOMAIN SharedDefault :
         /\ form[f] = IF f \in DOMAIN after THEN after[f] ELSE SharedDefault[f]
         /\ SharedForm(stored)[f] = IF f \in DOMAIN stored THEN stored[f] ELSE SharedDefault[f]
  BY DEF SharedForm, Get
<1> HIDE DEF form
<1>12. ASSUME NEW f \in DOMAIN SharedDefault, ~SharedShown(f, given)
       PROVE  form[f] = SharedForm(stored)[f]
  <2>1. f \in {"provider", "brave_key", "searxng_url", "allowlist"}
    BY <1>4, <1>12 DEF SharedShown
  <2>2. CASE f = "provider"
    BY <1>1, <1>2, <1>4, <1>8, <1>11, <1>12, <2>2 DEF SharedShown, Get
  <2>3. CASE f = "allowlist"
    BY <1>1, <1>2, <1>4, <1>8, <1>11, <1>12, <2>3 DEF SharedShown, Get
  <2>4. CASE f \in {"brave_key", "searxng_url"}
    <3>1. (f \in DOMAIN n <=> f \in DOMAIN stored) /\ (f \in DOMAIN n => n[f] = stored[f])
      BY <1>3, <1>12, <2>4
    <3> QED BY <1>8, <1>11, <3>1
  <2> QED BY <2>1, <2>2, <2>3, <2>4
<1>13. form["search"] = "on" => form["provider"] # "none"
  BY <1>1, <1>2, <1>4, <1>8, <1>11
<1>14. form["default_ttl"] \in 1..form["max_ttl"]
  BY <1>1, <1>4, <1>6, <1>8, <1>11
<1>15. SearchComplete(after)
  <2>1. SearchComplete(n)
    BY DEF n
  <2>2. SUFFICES ASSUME given["search"] = "on", n["provider"] = "searxng"
                 PROVE  Get(after, "searxng_url", Blank) # Blank
    BY <1>1, <1>8 DEF SearchComplete, Get
  <2>3. given["provider"] = "searxng"
    BY <1>2, <2>2
  <2>4. "searxng_url" \in DOMAIN n
    BY <1>3, <2>2, <2>3 DEF SharedShown
  <2>5. Get(n, "searxng_url", Blank) # Blank
    BY <1>1, <2>1, <2>2 DEF SearchComplete, Get
  <2> QED BY <1>8, <2>4, <2>5 DEF Get
<1> QED BY <1>9, <1>10, <1>12, <1>13, <1>14, <1>15 DEF after, form

\* A refused form changes nothing.
LEMMA SharedRefused ==
  ASSUME NEW given, NEW stored,
         ~SearchComplete(NormalizeShared(SharedSubmitted(given), stored))
  PROVE  SharedSaved(given, stored) = stored
BY DEF SharedSaved

\* The inductive invariant: what is stored is of the kind that the forms take.
FormsIInv ==
  /\ FormsSound
  /\ profile # NoProfile => profile.kind \in Kinds
  /\ SharedValid(sharedData)

\* A save of the shared settings keeps the invariant.
LEMMA SharedStep ==
  ASSUME FormsIInv, NEW given, Filled(given), SubmitShared(given)
  PROVE  FormsIInv'
<1>1. /\ sharedData' = SharedSaved(given, sharedData)
      /\ saved'.of = "shared" /\ saved'.given = given /\ saved'.before = SharedForm(sharedData)
      /\ profile' = profile
  BY DEF SubmitShared
<1>2. SharedUsable /\ SharedValid(sharedData)
  BY DEF FormsIInv, FormsSound
<1>3. SharedUsable' /\ SharedValid(sharedData')
  <2>1. CASE SearchComplete(NormalizeShared(SharedSubmitted(given), sharedData))
    BY <1>1, <1>2, <2>1, SharedKept DEF SharedUsable
  <2>2. CASE ~SearchComplete(NormalizeShared(SharedSubmitted(given), sharedData))
    <3>1. sharedData' = sharedData
      BY <1>1, <2>2, SharedRefused
    <3> QED BY <1>1, <1>2, <3>1 DEF SharedUsable
  <2> QED BY <2>1, <2>2
<1>4. HiddenFieldsStay'
  BY <1>1 DEF HiddenFieldsStay
<1> QED BY <1>1, <1>3, <1>4 DEF FormsIInv, FormsSound

\* A step that leaves the shared settings alone and saves no form of theirs.
LEMMA SharedRests ==
  ASSUME SharedUsable, sharedData' = sharedData, saved'.of # "shared"
  PROVE  SharedUsable'
BY DEF SharedUsable

\* A field that a form hides stays as it was over any sequence of saves, and
\* what is saved can be served, whatever the forms are filled in with.
THEOREM FormsAreSound == FormsSpec => []FormsSound
<1>1. FormsInit => FormsIInv
  <2> SUFFICES ASSUME FormsInit PROVE FormsIInv
    OBVIOUS
  <2>1. profile = NoProfile /\ sharedData = Empty /\ saved.of = "none"
    BY DEF FormsInit, NothingSaved
  <2>2. DOMAIN Empty = {}
    BY DEF Empty
  <2>3. SharedForm(sharedData) = SharedDefault
    BY <2>1, <2>2 DEF SharedForm, Get, SharedDefault
  <2>4. SharedUsable /\ SharedValid(sharedData)
    BY <2>1, <2>2, <2>3 DEF SharedUsable, SharedValid, SharedDefault
  <2> QED BY <2>1, <2>4 DEF FormsIInv, FormsSound, HiddenFieldsStay
<1>2. FormsIInv /\ [FormsNext]_formsVars => FormsIInv'
  <2> SUFFICES ASSUME FormsIInv, [FormsNext]_formsVars PROVE FormsIInv'
    OBVIOUS
  <2> USE FormsAssumption
  <2>1. ASSUME NEW made \in NewProfiles, CreateProfile(made.kind, made.fields) PROVE FormsIInv'
    <3>1. /\ profile'.kind = made.kind /\ saved'.of = "none" /\ sharedData' = sharedData
          /\ made.kind \in Kinds
      BY <2>1 DEF CreateProfile, NothingSaved
    <3> QED BY <3>1, SharedRests DEF FormsIInv, FormsSound, HiddenFieldsStay
  <2>2. ASSUME NEW edit \in ProfileEdits, profile # NoProfile, ChangeProfile(edit) PROVE FormsIInv'
    <3>1. profile'.kind = profile.kind /\ saved'.of = "profile" /\ sharedData' = sharedData
      BY <2>2 DEF ChangeProfile
    <3>2. profile.kind \in Kinds
      BY <2>2 DEF FormsIInv
    <3>3. HiddenFieldsStay'
      BY <2>2, <3>2, ProfileKept
    <3> QED BY <3>1, <3>2, <3>3, SharedRests DEF FormsIInv, FormsSound
  <2>3. ASSUME NEW edit \in NewShared, CreateShared(edit) PROVE FormsIInv'
    <3>1. Filled(Merge(NewSharedForm, edit))
      BY DefaultsFilled, FormFilled DEF NewSharedForm
    <3> QED BY <2>3, <3>1, SharedStep DEF CreateShared
  <2>4. ASSUME NEW edit \in SharedEdits, ChangeShared(edit) PROVE FormsIInv'
    <3>1. Filled(Merge(SharedForm(sharedData), edit))
      BY StoredFilled, FormFilled DEF FormsIInv
    <3> QED BY <2>4, <3>1, SharedStep DEF ChangeShared
  <2>5. CASE UNCHANGED formsVars
    BY <2>5 DEF formsVars, FormsIInv, FormsSound, HiddenFieldsStay, SharedUsable
  <2> QED BY <2>1, <2>2, <2>3, <2>4, <2>5 DEF FormsNext, ProfileNext, SharedNext
<1>3. FormsIInv => FormsSound
  BY DEF FormsIInv
<1> QED BY <1>1, <1>2, <1>3, PTL DEF FormsSpec
=============================================================================
