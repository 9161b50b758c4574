------------------------ MODULE SharedServer_proof -------------------------
(***************************************************************************)
(* Proofs about SharedServer, for any number of profiles, options flows,   *)
(* ports and server objects.                                               *)
(*                                                                         *)
(* The inductive invariant is IInv.  Each of its parts has a lemma that    *)
(* says a step keeps it, with one case per action; the theorems at the end *)
(* put them together.                                                      *)
(***************************************************************************)
EXTENDS SharedServer, FiniteSetTheorems, TLAPS

\* The initial state is well typed.
LEMMA TypeInit == Init => TypeOK
  <1> SUFFICES ASSUME Init PROVE TypeOK
    OBVIOUS
  <1>1. pc \in [Tasks -> ProfileLabels \cup FlowLabels]
        /\ (\A p \in Profiles : pc[p] \in ProfileLabels)
        /\ (\A f \in Flows : pc[f] \in FlowLabels)
    BY DEF Init, Tasks, ProfileLabels, FlowLabels
  <1> QED
    BY <1>1 DEF Init, TypeOK, Tasks, Absent

\* A step of any task keeps every variable in its type.
LEMMA TypeStep == TypeOK /\ Progress /\ [Next]_vars => TypeOK'
  <1> SUFFICES ASSUME TypeOK, Progress, [Next]_vars PROVE TypeOK'
    OBVIOUS
  <1> USE DEF TypeOK, srv, Tasks, ProfileLabels, FlowLabels, Goto, data
  <1>1. ASSUME NEW p \in Profiles, Lifecycle(p) PROVE TypeOK'
    <2>1. CASE InitChatLog(p)
      BY <2>1, TasksAssumption DEF InitChatLog
    <2>2. CASE QueueSetup(p)
      BY <2>2, TasksAssumption DEF QueueSetup, ChatLogReady
    <2>3. CASE StartShared(p)
      BY <2>3, TasksAssumption DEF StartShared, EnterSetup, ChatLogReady, NewServer
    <2>4. CASE BindShared(p)
      BY <2>4, TasksAssumption DEF BindShared, Bind
    <2>5. CASE StartFails(p)
      BY <2>5, TasksAssumption DEF StartFails
    <2>6. CASE CleanedUp(p)
      BY <2>6, TasksAssumption DEF CleanedUp
    <2>7. CASE SharedStarted(p)
      BY <2>7, TasksAssumption DEF SharedStarted, Progress
    <2>8. CASE JoinShared(p)
      BY <2>8, TasksAssumption DEF JoinShared, EnterSetup, ChatLogReady, Absent
    <2>9. CASE JoinRaises(p)
      BY <2>9, TasksAssumption DEF JoinRaises, EnterSetup, ChatLogReady
    <2>10. CASE SetupDone(p)
      BY <2>10, TasksAssumption DEF SetupDone
    <2>11. CASE SetupFails(p)
      BY <2>11, TasksAssumption DEF SetupFails
    <2>12. CASE Unload(p)
      BY <2>12, TasksAssumption DEF Unload
    <2>13. CASE UnloadRefused(p)
      BY <2>13, TasksAssumption DEF UnloadRefused
    <2>14. CASE Disconnect(p)
      BY <2>14, TasksAssumption DEF Disconnect
    <2>15. CASE ReleaseOne(p)
      BY <2>15, TasksAssumption DEF ReleaseOne, EnterRelease, Absent
    <2>16. CASE ReleaseLast(p)
      <3>1. refcount' \in Nat \cup {Absent}
        BY <2>16 DEF ReleaseLast, EnterRelease, Absent
      <3>2. up' \in [Servers -> BOOLEAN] /\ portOf' = portOf /\ entryOf' = entryOf
        BY <2>16 DEF ReleaseLast, Close
      <3> QED
        BY <3>1, <3>2, <2>16 DEF ReleaseLast, EnterRelease
    <2>17. CASE ReleaseRaises(p)
      BY <2>17, TasksAssumption DEF ReleaseRaises, EnterRelease, Absent
    <2>18. CASE SharedStopped(p)
      <3>1. refcount' \in Nat \cup {Absent} /\ mcpPort' \in Ports \cup {NoPort}
        BY <2>18 DEF SharedStopped, Absent
      <3>2. pc' \in [Tasks -> ProfileLabels \cup FlowLabels]
        BY <2>18 DEF SharedStopped
      <3>3. \A q \in Profiles : pc'[q] \in ProfileLabels
        BY <2>18 DEF SharedStopped
      <3>4. \A f \in Flows : pc'[f] \in FlowLabels
        BY <2>18, TasksAssumption DEF SharedStopped
      <3> QED
        BY <3>1, <3>2, <3>3, <3>4, <2>18 DEF SharedStopped
    <2>19. CASE ChatLogFlushed(p)
      BY <2>19, TasksAssumption DEF ChatLogFlushed
    <2> QED
      BY <1>1, <2>1, <2>2, <2>3, <2>4, <2>5, <2>6, <2>7, <2>8, <2>9, <2>10, <2>11, <2>12, <2>13, <2>14, <2>15, <2>16, <2>17, <2>18, <2>19 DEF Lifecycle
  <1>2. ASSUME NEW f \in Flows, ApplySettings(f) PROVE TypeOK'
    <2>1. ASSUME NEW port \in Ports, SaveWithoutRestart(f, port) PROVE TypeOK'
      BY <2>1, TasksAssumption DEF SaveWithoutRestart
    <2>2. ASSUME NEW port \in Ports, SaveAndRestart(f, port) PROVE TypeOK'
      BY <2>2, TasksAssumption DEF SaveAndRestart, NewServer
    <2>3. CASE BindNew(f)
      BY <2>3, TasksAssumption DEF BindNew, Bind
    <2>4. CASE NewFails(f)
      BY <2>4, TasksAssumption DEF NewFails, EndFlow
    <2>5. CASE StopOld(f)
      BY <2>5, TasksAssumption DEF StopOld, Close
    <2>6. CASE StopOldRaises(f)
      BY <2>6, TasksAssumption DEF StopOldRaises, Close
    <2>7. CASE Undone(f)
      BY <2>7, TasksAssumption DEF Undone, EndFlow
    <2>8. CASE PublishNew(f)
      BY <2>8, TasksAssumption DEF PublishNew, EndFlow, Progress
    <2> QED
      BY <1>2, <2>1, <2>2, <2>3, <2>4, <2>5, <2>6, <2>7, <2>8 DEF ApplySettings
  <1>3. CASE UNCHANGED vars
    BY <1>3 DEF vars, data
  <1> QED
    BY <1>1, <1>2, <1>3 DEF Next

\* A step keeps server_init_lock with the profile inside the locked region.
LEMMA LockStep == TypeOK /\ OneInside /\ [Next]_vars => OneInside'
  <1> SUFFICES ASSUME TypeOK, OneInside, [Next]_vars PROVE OneInside'
    OBVIOUS
  <1> USE DEF TypeOK, OneInside, LockedLabels, Tasks, Goto
  <1>1. ASSUME NEW p \in Profiles, Lifecycle(p) PROVE OneInside'
    <2>1. CASE InitChatLog(p)
      BY <2>1, TasksAssumption DEF InitChatLog
    <2>2. CASE QueueSetup(p)
      BY <2>2, TasksAssumption DEF QueueSetup, ChatLogReady
    <2>3. CASE StartShared(p)
      BY <2>3, TasksAssumption DEF StartShared, EnterSetup, ChatLogReady, NewServer
    <2>4. CASE BindShared(p)
      BY <2>4, TasksAssumption DEF BindShared, Bind
    <2>5. CASE StartFails(p)
      BY <2>5, TasksAssumption DEF StartFails
    <2>6. CASE CleanedUp(p)
      BY <2>6, TasksAssumption DEF CleanedUp
    <2>7. CASE SharedStarted(p)
      BY <2>7, TasksAssumption DEF SharedStarted
    <2>8. CASE JoinShared(p)
      BY <2>8, TasksAssumption DEF JoinShared, EnterSetup, ChatLogReady
    <2>9. CASE JoinRaises(p)
      BY <2>9, TasksAssumption DEF JoinRaises, EnterSetup, ChatLogReady
    <2>10. CASE SetupDone(p)
      BY <2>10, TasksAssumption DEF SetupDone
    <2>11. CASE SetupFails(p)
      BY <2>11, TasksAssumption DEF SetupFails
    <2>12. CASE Unload(p)
      BY <2>12, TasksAssumption DEF Unload
    <2>13. CASE UnloadRefused(p)
      BY <2>13, TasksAssumption DEF UnloadRefused
    <2>14. CASE Disconnect(p)
      BY <2>14, TasksAssumption DEF Disconnect
    <2>15. CASE ReleaseOne(p)
      BY <2>15, TasksAssumption DEF ReleaseOne, EnterRelease
    <2>16. CASE ReleaseLast(p)
      BY <2>16, TasksAssumption DEF ReleaseLast, EnterRelease, Close
    <2>17. CASE ReleaseRaises(p)
      BY <2>17, TasksAssumption DEF ReleaseRaises, EnterRelease
    <2>18. CASE SharedStopped(p)
      BY <2>18, TasksAssumption DEF SharedStopped
    <2>19. CASE ChatLogFlushed(p)
      BY <2>19, TasksAssumption DEF ChatLogFlushed
    <2> QED
      BY <1>1, <2>1, <2>2, <2>3, <2>4, <2>5, <2>6, <2>7, <2>8, <2>9, <2>10, <2>11, <2>12, <2>13, <2>14, <2>15, <2>16, <2>17, <2>18, <2>19 DEF Lifecycle
  <1>2. ASSUME NEW f \in Flows, ApplySettings(f) PROVE OneInside'
    <2>1. ASSUME NEW port \in Ports, SaveWithoutRestart(f, port) PROVE OneInside'
      BY <2>1, TasksAssumption DEF SaveWithoutRestart
    <2>2. ASSUME NEW port \in Ports, SaveAndRestart(f, port) PROVE OneInside'
      BY <2>2, TasksAssumption DEF SaveAndRestart, NewServer
    <2>3. CASE BindNew(f)
      BY <2>3, TasksAssumption DEF BindNew, Bind
    <2>4. CASE NewFails(f)
      BY <2>4, TasksAssumption DEF NewFails, EndFlow
    <2>5. CASE StopOld(f)
      BY <2>5, TasksAssumption DEF StopOld, Close
    <2>6. CASE StopOldRaises(f)
      BY <2>6, TasksAssumption DEF StopOldRaises, Close
    <2>7. CASE Undone(f)
      BY <2>7, TasksAssumption DEF Undone, EndFlow
    <2>8. CASE PublishNew(f)
      BY <2>8, TasksAssumption DEF PublishNew, EndFlow
    <2> QED
      BY <1>2, <2>1, <2>2, <2>3, <2>4, <2>5, <2>6, <2>7, <2>8 DEF ApplySettings
  <1>3. CASE UNCHANGED vars
    BY <1>3 DEF vars, data
  <1> QED
    BY <1>1, <1>2, <1>3 DEF Next

\* How one task's step changes the set of reference holders.
LEMMA HoldersKept ==
  ASSUME TypeOK, NEW t \in Tasks, NEW label, Goto(t, label),
         t \in Profiles => (label \in HolderLabels <=> pc[t] \in HolderLabels)
  PROVE  Holders' = Holders
  BY DEF TypeOK, Tasks, Goto, Holders

\* A profile that moves to a holding label joins the holders.
LEMMA HolderJoins ==
  ASSUME TypeOK, NEW p \in Profiles, NEW label, Goto(p, label),
         label \in HolderLabels, pc[p] \notin HolderLabels
  PROVE  p \notin Holders /\ Holders' = Holders \cup {p}
  BY DEF TypeOK, Tasks, Goto, Holders

\* A profile that leaves the holding labels leaves the holders.
LEMMA HolderLeaves ==
  ASSUME TypeOK, NEW p \in Profiles, NEW label, Goto(p, label),
         label \notin HolderLabels, pc[p] \in HolderLabels
  PROVE  p \in Holders /\ Holders' = Holders \ {p}
  BY DEF TypeOK, Tasks, Goto, Holders

\* The number of holders, and how it follows the set.
LEMMA HoldersFinite ==
  /\ IsFiniteSet(Holders)
  /\ Cardinality(Holders) \in Nat
  /\ Cardinality(Holders) = 0 <=> Holders = {}
  /\ \A p \in Profiles \ Holders :
       Cardinality(Holders \cup {p}) = Cardinality(Holders) + 1
  /\ \A p \in Holders :
       /\ Cardinality(Holders \ {p}) = Cardinality(Holders) - 1
       /\ Holders \ {p} = {} <=> Cardinality(Holders) = 1
  <1>1. IsFiniteSet(Holders)
    BY TasksAssumption, FS_Subset DEF Holders
  <1>2. ASSUME NEW p \in Holders
        PROVE  Holders \ {p} = {} <=> Cardinality(Holders) = 1
    BY <1>1, FS_Singleton
  <1> QED
    BY <1>1, <1>2, FS_CardinalityType, FS_EmptySet, FS_AddElement, FS_RemoveElement

\* A step keeps the count exact, and the lock free while it is not zero.
LEMMA RefcountStep == TypeOK /\ OneInside /\ HoldersServed /\ RefcountExact /\ ReleaseNeverWaits /\ [Next]_vars => (RefcountExact /\ ReleaseNeverWaits)'
  <1> SUFFICES ASSUME TypeOK, OneInside, HoldersServed, RefcountExact, ReleaseNeverWaits, [Next]_vars PROVE (RefcountExact /\ ReleaseNeverWaits)'
    OBVIOUS
  <1> USE DEF TypeOK, RefcountExact, ReleaseNeverWaits, Absent, data
  <1>1. ASSUME NEW p \in Profiles, Lifecycle(p) PROVE (RefcountExact /\ ReleaseNeverWaits)'
    <2>1. CASE InitChatLog(p)
      <3>1. Holders' = Holders
        BY <2>1, HoldersKept DEF InitChatLog, HolderLabels, Tasks
      <3> QED
        BY <3>1, <2>1 DEF InitChatLog
    <2>2. CASE QueueSetup(p)
      <3>1. Holders' = Holders
        BY <2>2, HoldersKept DEF QueueSetup, ChatLogReady, HolderLabels, Tasks
      <3> QED
        BY <3>1, <2>2 DEF QueueSetup, ChatLogReady
    <2>3. CASE StartShared(p)
      <3>1. Holders' = Holders
        BY <2>3, HoldersKept DEF StartShared, EnterSetup, ChatLogReady, HolderLabels, Tasks
      <3> QED
        BY <3>1, <2>3 DEF StartShared, EnterSetup, ChatLogReady, HoldersServed
    <2>4. CASE BindShared(p)
      <3>1. Holders' = Holders
        BY <2>4, HoldersKept DEF BindShared, HolderLabels, Tasks
      <3> QED
        BY <3>1, <2>4 DEF BindShared
    <2>5. CASE StartFails(p)
      <3>1. Holders' = Holders
        BY <2>5, HoldersKept DEF StartFails, HolderLabels, Tasks
      <3> QED
        BY <3>1, <2>5 DEF StartFails
    <2>6. CASE CleanedUp(p)
      <3>1. Holders' = Holders
        BY <2>6, HoldersKept DEF CleanedUp, HolderLabels, Tasks
      <3> QED
        BY <3>1, <2>6, TasksAssumption DEF CleanedUp, OneInside, LockedLabels
    <2>7. CASE SharedStarted(p)
      <3>1. Holders = {}
        BY <2>7, TasksAssumption DEF SharedStarted, OneInside, LockedLabels
      <3>2. Holders' = Holders \cup {p} /\ p \notin Holders
        BY <2>7, HolderJoins DEF SharedStarted, HolderLabels
      <3> QED
        BY <3>1, <3>2, HoldersFinite, <2>7 DEF SharedStarted
    <2>8. CASE JoinShared(p)
      <3>1. Holders' = Holders \cup {p} /\ p \notin Holders
        BY <2>8, HolderJoins DEF JoinShared, EnterSetup, ChatLogReady, HolderLabels
      <3>2. Cardinality(Holders') = Cardinality(Holders) + 1
        BY <3>1, HoldersFinite
      <3> QED
        BY <3>1, <3>2, HoldersFinite, <2>8 DEF JoinShared, EnterSetup
    <2>9. CASE JoinRaises(p)
      <3>1. Holders' = Holders
        BY <2>9, HoldersKept DEF JoinRaises, EnterSetup, ChatLogReady, HolderLabels, Tasks
      <3> QED
        BY <3>1, <2>9 DEF JoinRaises, EnterSetup, ChatLogReady
    <2>10. CASE SetupDone(p)
      <3>1. Holders' = Holders
        BY <2>10, HoldersKept DEF SetupDone, HolderLabels, Tasks
      <3> QED
        BY <3>1, <2>10 DEF SetupDone
    <2>11. CASE SetupFails(p)
      <3>1. Holders' = Holders
        BY <2>11, HoldersKept DEF SetupFails, HolderLabels, Tasks
      <3> QED
        BY <3>1, <2>11 DEF SetupFails
    <2>12. CASE Unload(p)
      <3>1. Holders' = Holders
        BY <2>12, HoldersKept DEF Unload, HolderLabels, Tasks
      <3> QED
        BY <3>1, <2>12 DEF Unload
    <2>13. CASE UnloadRefused(p)
      <3>1. Holders' = Holders
        BY <2>13, HoldersKept DEF UnloadRefused, HolderLabels, Tasks
      <3> QED
        BY <3>1, <2>13 DEF UnloadRefused
    <2>14. CASE Disconnect(p)
      <3>1. Holders' = Holders
        BY <2>14, HoldersKept DEF Disconnect, HolderLabels, Tasks
      <3> QED
        BY <3>1, <2>14 DEF Disconnect
    <2>15. CASE ReleaseOne(p)
      <3>1. Holders' = Holders \ {p} /\ p \in Holders
        BY <2>15, HolderLeaves DEF ReleaseOne, EnterRelease, HolderLabels
      <3>2. Cardinality(Holders') = Cardinality(Holders) - 1
        BY <3>1, HoldersFinite
      <3>3. refcount = Cardinality(Holders) /\ refcount' = refcount - 1
        BY <2>15 DEF ReleaseOne, EnterRelease
      <3>4. Holders' = {} <=> refcount = 1
        BY <3>1, <3>3, HoldersFinite
      <3> QED
        BY <3>1, <3>2, <3>3, <3>4, HoldersFinite, <2>15 DEF ReleaseOne, EnterRelease
    <2>16. CASE ReleaseLast(p)
      <3>1. Holders' = Holders \ {p} /\ p \in Holders
        BY <2>16, HolderLeaves DEF ReleaseLast, EnterRelease, HolderLabels
      <3>2. Cardinality(Holders') = Cardinality(Holders) - 1
        BY <3>1, HoldersFinite
      <3>3. refcount = Cardinality(Holders) /\ refcount' = refcount - 1
        BY <2>16 DEF ReleaseLast, EnterRelease
      <3>4. Holders' = {} <=> refcount = 1
        BY <3>1, <3>3, HoldersFinite
      <3> QED
        BY <3>1, <3>2, <3>3, <3>4, HoldersFinite, <2>16 DEF ReleaseLast, EnterRelease
    <2>17. CASE ReleaseRaises(p)
      <3>1. Holders' = Holders \ {p} /\ p \in Holders
        BY <2>17, HolderLeaves DEF ReleaseRaises, EnterRelease, HolderLabels
      <3>2. Cardinality(Holders') = Cardinality(Holders) - 1
        BY <3>1, HoldersFinite
      <3>3. refcount = Cardinality(Holders) /\ refcount' = refcount - 1
        BY <2>17 DEF ReleaseRaises, EnterRelease
      <3>4. Holders' = {} <=> refcount = 1
        BY <3>1, <3>3, HoldersFinite
      <3> QED
        BY <3>1, <3>2, <3>3, <3>4, HoldersFinite, <2>17 DEF ReleaseRaises, EnterRelease
    <2>18. CASE SharedStopped(p)
      <3>1. Holders' = Holders
        BY <2>18, HoldersKept DEF SharedStopped, HolderLabels, Tasks
      <3> QED
        BY <3>1, <2>18, TasksAssumption DEF SharedStopped, OneInside, LockedLabels
    <2>19. CASE ChatLogFlushed(p)
      <3>1. Holders' = Holders
        BY <2>19, HoldersKept DEF ChatLogFlushed, HolderLabels, Tasks
      <3> QED
        BY <3>1, <2>19, TasksAssumption DEF ChatLogFlushed, OneInside, LockedLabels
    <2> QED
      BY <1>1, <2>1, <2>2, <2>3, <2>4, <2>5, <2>6, <2>7, <2>8, <2>9, <2>10, <2>11, <2>12, <2>13, <2>14, <2>15, <2>16, <2>17, <2>18, <2>19 DEF Lifecycle
  <1>2. ASSUME NEW f \in Flows, ApplySettings(f) PROVE (RefcountExact /\ ReleaseNeverWaits)'
    <2>1. ASSUME NEW port \in Ports, SaveWithoutRestart(f, port) PROVE (RefcountExact /\ ReleaseNeverWaits)'
      BY <2>1 DEF SaveWithoutRestart, Holders, data
    <2>2. ASSUME NEW port \in Ports, SaveAndRestart(f, port) PROVE (RefcountExact /\ ReleaseNeverWaits)'
      <3>1. Holders' = Holders
        BY <2>2, TasksAssumption, HoldersKept DEF SaveAndRestart, HolderLabels, Tasks
      <3> QED
        BY <3>1, <2>2 DEF SaveAndRestart
    <2>3. CASE BindNew(f)
      <3>1. Holders' = Holders
        BY <2>3, TasksAssumption, HoldersKept DEF BindNew, HolderLabels, Tasks
      <3> QED
        BY <3>1, <2>3 DEF BindNew
    <2>4. CASE NewFails(f)
      <3>1. Holders' = Holders
        BY <2>4, TasksAssumption, HoldersKept DEF NewFails, EndFlow, HolderLabels, Tasks
      <3> QED
        BY <3>1, <2>4 DEF NewFails, EndFlow
    <2>5. CASE StopOld(f)
      <3>1. Holders' = Holders
        BY <2>5, TasksAssumption, HoldersKept DEF StopOld, HolderLabels, Tasks
      <3> QED
        BY <3>1, <2>5 DEF StopOld
    <2>6. CASE StopOldRaises(f)
      <3>1. Holders' = Holders
        BY <2>6, TasksAssumption, HoldersKept DEF StopOldRaises, HolderLabels, Tasks
      <3> QED
        BY <3>1, <2>6 DEF StopOldRaises
    <2>7. CASE Undone(f)
      <3>1. Holders' = Holders
        BY <2>7, TasksAssumption, HoldersKept DEF Undone, EndFlow, HolderLabels, Tasks
      <3> QED
        BY <3>1, <2>7 DEF Undone, EndFlow
    <2>8. CASE PublishNew(f)
      <3>1. Holders' = Holders
        BY <2>8, TasksAssumption, HoldersKept DEF PublishNew, EndFlow, HolderLabels, Tasks
      <3> QED
        BY <3>1, <2>8 DEF PublishNew, EndFlow
    <2> QED
      BY <1>2, <2>1, <2>2, <2>3, <2>4, <2>5, <2>6, <2>7, <2>8 DEF ApplySettings
  <1>3. CASE UNCHANGED vars
    BY <1>3 DEF vars, Holders
  <1> QED
    BY <1>1, <1>2, <1>3 DEF Next

\* A step never gives two tasks the same server, nor the published one.
LEMMA ApartStep == TypeOK /\ Progress /\ Apart /\ [Next]_vars => Apart'
  <1> SUFFICES ASSUME TypeOK, Progress, Apart, [Next]_vars PROVE Apart'
    OBVIOUS
  <1> USE DEF TypeOK, Apart, Tasks, data, srv
  <1>1. ASSUME NEW p \in Profiles, Lifecycle(p) PROVE Apart'
    <2>1. CASE InitChatLog(p)
      BY <2>1, TasksAssumption DEF InitChatLog
    <2>2. CASE QueueSetup(p)
      BY <2>2, TasksAssumption DEF QueueSetup, ChatLogReady
    <2>3. CASE StartShared(p)
      BY <2>3, TasksAssumption DEF StartShared, EnterSetup, ChatLogReady, NewServer, Fresh
    <2>4. CASE BindShared(p)
      BY <2>4, TasksAssumption DEF BindShared, Bind
    <2>5. CASE StartFails(p)
      BY <2>5, TasksAssumption DEF StartFails
    <2>6. CASE CleanedUp(p)
      BY <2>6, TasksAssumption DEF CleanedUp
    <2>7. CASE SharedStarted(p)
      BY <2>7, TasksAssumption DEF SharedStarted, Progress
    <2>8. CASE JoinShared(p)
      BY <2>8, TasksAssumption DEF JoinShared, EnterSetup, ChatLogReady
    <2>9. CASE JoinRaises(p)
      BY <2>9, TasksAssumption DEF JoinRaises, EnterSetup, ChatLogReady
    <2>10. CASE SetupDone(p)
      BY <2>10, TasksAssumption DEF SetupDone
    <2>11. CASE SetupFails(p)
      BY <2>11, TasksAssumption DEF SetupFails
    <2>12. CASE Unload(p)
      BY <2>12, TasksAssumption DEF Unload
    <2>13. CASE UnloadRefused(p)
      BY <2>13, TasksAssumption DEF UnloadRefused
    <2>14. CASE Disconnect(p)
      BY <2>14, TasksAssumption DEF Disconnect
    <2>15. CASE ReleaseOne(p)
      BY <2>15, TasksAssumption DEF ReleaseOne, EnterRelease
    <2>16. CASE ReleaseLast(p)
      BY <2>16, TasksAssumption DEF ReleaseLast, EnterRelease, Close
    <2>17. CASE ReleaseRaises(p)
      BY <2>17, TasksAssumption DEF ReleaseRaises, EnterRelease
    <2>18. CASE SharedStopped(p)
      BY <2>18, TasksAssumption DEF SharedStopped
    <2>19. CASE ChatLogFlushed(p)
      BY <2>19, TasksAssumption DEF ChatLogFlushed
    <2> QED
      BY <1>1, <2>1, <2>2, <2>3, <2>4, <2>5, <2>6, <2>7, <2>8, <2>9, <2>10, <2>11, <2>12, <2>13, <2>14, <2>15, <2>16, <2>17, <2>18, <2>19 DEF Lifecycle
  <1>2. ASSUME NEW f \in Flows, ApplySettings(f) PROVE Apart'
    <2>1. ASSUME NEW port \in Ports, SaveWithoutRestart(f, port) PROVE Apart'
      BY <2>1, TasksAssumption DEF SaveWithoutRestart
    <2>2. ASSUME NEW port \in Ports, SaveAndRestart(f, port) PROVE Apart'
      BY <2>2, TasksAssumption DEF SaveAndRestart, NewServer, Fresh
    <2>3. CASE BindNew(f)
      BY <2>3, TasksAssumption DEF BindNew, Bind
    <2>4. CASE NewFails(f)
      BY <2>4, TasksAssumption DEF NewFails, EndFlow
    <2>5. CASE StopOld(f)
      BY <2>5, TasksAssumption DEF StopOld, Close
    <2>6. CASE StopOldRaises(f)
      BY <2>6, TasksAssumption DEF StopOldRaises, Close
    <2>7. CASE Undone(f)
      BY <2>7, TasksAssumption DEF Undone, EndFlow
    <2>8. CASE PublishNew(f)
      BY <2>8, TasksAssumption DEF PublishNew, EndFlow, Progress
    <2> QED
      BY <1>2, <2>1, <2>2, <2>3, <2>4, <2>5, <2>6, <2>7, <2>8 DEF ApplySettings
  <1>3. CASE UNCHANGED vars
    BY <1>3 DEF vars, data
  <1> QED
    BY <1>1, <1>2, <1>3 DEF Next

\* A step keeps what the point a task has reached says of its servers.
LEMMA ProgressStep == TypeOK /\ OneInside /\ Apart /\ Progress /\ [Next]_vars => Progress'
  <1> SUFFICES ASSUME TypeOK, OneInside, Apart, Progress, [Next]_vars PROVE Progress'
    OBVIOUS
  <1> USE DEF TypeOK, Progress, Tasks, Goto, data, srv
  <1>1. ASSUME NEW p \in Profiles, Lifecycle(p) PROVE Progress'
    <2>1. CASE InitChatLog(p)
      BY <2>1, TasksAssumption DEF InitChatLog
    <2>2. CASE QueueSetup(p)
      BY <2>2, TasksAssumption DEF QueueSetup, ChatLogReady
    <2>3. CASE StartShared(p)
      BY <2>3, TasksAssumption DEF StartShared, EnterSetup, ChatLogReady, NewServer, Apart
    <2>4. CASE BindShared(p)
      BY <2>4, TasksAssumption DEF BindShared, Bind
    <2>5. CASE StartFails(p)
      BY <2>5, TasksAssumption DEF StartFails
    <2>6. CASE CleanedUp(p)
      BY <2>6, TasksAssumption DEF CleanedUp
    <2>7. CASE SharedStarted(p)
      BY <2>7, TasksAssumption DEF SharedStarted
    <2>8. CASE JoinShared(p)
      BY <2>8, TasksAssumption DEF JoinShared, EnterSetup, ChatLogReady
    <2>9. CASE JoinRaises(p)
      BY <2>9, TasksAssumption DEF JoinRaises, EnterSetup, ChatLogReady
    <2>10. CASE SetupDone(p)
      BY <2>10, TasksAssumption DEF SetupDone
    <2>11. CASE SetupFails(p)
      BY <2>11, TasksAssumption DEF SetupFails
    <2>12. CASE Unload(p)
      BY <2>12, TasksAssumption DEF Unload
    <2>13. CASE UnloadRefused(p)
      BY <2>13, TasksAssumption DEF UnloadRefused
    <2>14. CASE Disconnect(p)
      BY <2>14, TasksAssumption DEF Disconnect
    <2>15. CASE ReleaseOne(p)
      BY <2>15, TasksAssumption DEF ReleaseOne, EnterRelease
    <2>16. CASE ReleaseLast(p)
      BY <2>16, TasksAssumption DEF ReleaseLast, EnterRelease, Close, Apart
    <2>17. CASE ReleaseRaises(p)
      BY <2>17, TasksAssumption DEF ReleaseRaises, EnterRelease
    <2>18. CASE SharedStopped(p)
      BY <2>18, TasksAssumption DEF SharedStopped
    <2>19. CASE ChatLogFlushed(p)
      BY <2>19, TasksAssumption DEF ChatLogFlushed
    <2> QED
      BY <1>1, <2>1, <2>2, <2>3, <2>4, <2>5, <2>6, <2>7, <2>8, <2>9, <2>10, <2>11, <2>12, <2>13, <2>14, <2>15, <2>16, <2>17, <2>18, <2>19 DEF Lifecycle
  <1>2. ASSUME NEW f \in Flows, ApplySettings(f) PROVE Progress'
    <2>1. ASSUME NEW port \in Ports, SaveWithoutRestart(f, port) PROVE Progress'
      BY <2>1, TasksAssumption DEF SaveWithoutRestart
    <2>2. ASSUME NEW port \in Ports, SaveAndRestart(f, port) PROVE Progress'
      BY <2>2, TasksAssumption DEF SaveAndRestart, NewServer, Apart
    <2>3. CASE BindNew(f)
      BY <2>3, TasksAssumption DEF BindNew, Bind
    <2>4. CASE NewFails(f)
      BY <2>4, TasksAssumption DEF NewFails, EndFlow
    <2>5. CASE StopOld(f)
      BY <2>5, TasksAssumption DEF StopOld, Close, Apart
    <2>6. CASE StopOldRaises(f)
      BY <2>6, TasksAssumption DEF StopOldRaises, Close, Apart
    <2>7. CASE Undone(f)
      BY <2>7, TasksAssumption DEF Undone, EndFlow
    <2>8. CASE PublishNew(f)
      BY <2>8, TasksAssumption DEF PublishNew, EndFlow
    <2> QED
      BY <1>2, <2>1, <2>2, <2>3, <2>4, <2>5, <2>6, <2>7, <2>8 DEF ApplySettings
  <1>3. CASE UNCHANGED vars
    BY <1>3 DEF vars, data
  <1> QED
    BY <1>1, <1>2, <1>3 DEF Next

\* A step keeps the published server listening or its successor ready.
LEMMA ServesStep == TypeOK /\ Apart /\ Progress /\ SharedServes /\ [Next]_vars => SharedServes'
  <1> SUFFICES ASSUME TypeOK, Apart, Progress, SharedServes, [Next]_vars PROVE SharedServes'
    OBVIOUS
  <1> USE DEF TypeOK, SharedServes, Tasks, Goto, data, srv
  <1>1. ASSUME NEW p \in Profiles, Lifecycle(p) PROVE SharedServes'
    <2>1. CASE InitChatLog(p)
      BY <2>1, TasksAssumption DEF InitChatLog
    <2>2. CASE QueueSetup(p)
      BY <2>2, TasksAssumption DEF QueueSetup, ChatLogReady
    <2>3. CASE StartShared(p)
      BY <2>3, TasksAssumption DEF StartShared, EnterSetup, ChatLogReady, NewServer, Apart, Progress
    <2>4. CASE BindShared(p)
      BY <2>4, TasksAssumption DEF BindShared, Bind
    <2>5. CASE StartFails(p)
      BY <2>5, TasksAssumption DEF StartFails
    <2>6. CASE CleanedUp(p)
      BY <2>6, TasksAssumption DEF CleanedUp
    <2>7. CASE SharedStarted(p)
      BY <2>7, TasksAssumption DEF SharedStarted, Apart, Progress
    <2>8. CASE JoinShared(p)
      BY <2>8, TasksAssumption DEF JoinShared, EnterSetup, ChatLogReady
    <2>9. CASE JoinRaises(p)
      BY <2>9, TasksAssumption DEF JoinRaises, EnterSetup, ChatLogReady
    <2>10. CASE SetupDone(p)
      BY <2>10, TasksAssumption DEF SetupDone
    <2>11. CASE SetupFails(p)
      BY <2>11, TasksAssumption DEF SetupFails
    <2>12. CASE Unload(p)
      BY <2>12, TasksAssumption DEF Unload
    <2>13. CASE UnloadRefused(p)
      BY <2>13, TasksAssumption DEF UnloadRefused
    <2>14. CASE Disconnect(p)
      BY <2>14, TasksAssumption DEF Disconnect
    <2>15. CASE ReleaseOne(p)
      BY <2>15, TasksAssumption DEF ReleaseOne, EnterRelease
    <2>16. CASE ReleaseLast(p)
      BY <2>16, TasksAssumption DEF ReleaseLast, EnterRelease, Close, Apart, Progress
    <2>17. CASE ReleaseRaises(p)
      BY <2>17, TasksAssumption DEF ReleaseRaises, EnterRelease
    <2>18. CASE SharedStopped(p)
      BY <2>18, TasksAssumption DEF SharedStopped
    <2>19. CASE ChatLogFlushed(p)
      BY <2>19, TasksAssumption DEF ChatLogFlushed
    <2> QED
      BY <1>1, <2>1, <2>2, <2>3, <2>4, <2>5, <2>6, <2>7, <2>8, <2>9, <2>10, <2>11, <2>12, <2>13, <2>14, <2>15, <2>16, <2>17, <2>18, <2>19 DEF Lifecycle
  <1>2. ASSUME NEW f \in Flows, ApplySettings(f) PROVE SharedServes'
    <2>1. ASSUME NEW port \in Ports, SaveWithoutRestart(f, port) PROVE SharedServes'
      BY <2>1, TasksAssumption DEF SaveWithoutRestart
    <2>2. ASSUME NEW port \in Ports, SaveAndRestart(f, port) PROVE SharedServes'
      BY <2>2, TasksAssumption DEF SaveAndRestart, NewServer, Apart, Progress
    <2>3. CASE BindNew(f)
      BY <2>3, TasksAssumption DEF BindNew, Bind
    <2>4. CASE NewFails(f)
      BY <2>4, TasksAssumption DEF NewFails, EndFlow, Apart, Progress
    <2>5. CASE StopOld(f)
      BY <2>5, TasksAssumption DEF StopOld, Close, Apart, Progress
    <2>6. CASE StopOldRaises(f)
      BY <2>6, TasksAssumption DEF StopOldRaises, Close, Apart, Progress
    <2>7. CASE Undone(f)
      BY <2>7, TasksAssumption DEF Undone, EndFlow, Apart, Progress
    <2>8. CASE PublishNew(f)
      BY <2>8, TasksAssumption DEF PublishNew, EndFlow, Apart, Progress
    <2> QED
      BY <1>2, <2>1, <2>2, <2>3, <2>4, <2>5, <2>6, <2>7, <2>8 DEF ApplySettings
  <1>3. CASE UNCHANGED vars
    BY <1>3 DEF vars, data
  <1> QED
    BY <1>1, <1>2, <1>3 DEF Next

\* While anybody holds a reference there is a published server and a port.
Published == Holders # {} => shared # NoServer /\ mcpPort # NoPort

\* A step keeps a server published while it has users.
LEMMA PublishedStep == TypeOK /\ OneInside /\ RefcountExact /\ ReleaseNeverWaits /\ Progress /\ Published /\ [Next]_vars => Published'
  <1> SUFFICES ASSUME TypeOK, OneInside, RefcountExact, ReleaseNeverWaits, Progress, Published, [Next]_vars PROVE Published'
    OBVIOUS
  <1> USE DEF TypeOK, Published, Tasks, data
  <1>1. ASSUME NEW p \in Profiles, Lifecycle(p) PROVE Published'
    <2>1. CASE InitChatLog(p)
      <3>1. Holders' = Holders
        BY <2>1, HoldersKept DEF InitChatLog, HolderLabels, Tasks
      <3> QED
        BY <3>1, <2>1 DEF InitChatLog
    <2>2. CASE QueueSetup(p)
      <3>1. Holders' = Holders
        BY <2>2, HoldersKept DEF QueueSetup, ChatLogReady, HolderLabels, Tasks
      <3> QED
        BY <3>1, <2>2 DEF QueueSetup, ChatLogReady
    <2>3. CASE StartShared(p)
      <3>1. Holders' = Holders
        BY <2>3, HoldersKept DEF StartShared, EnterSetup, ChatLogReady, HolderLabels, Tasks
      <3> QED
        BY <3>1, <2>3 DEF StartShared, EnterSetup, ChatLogReady
    <2>4. CASE BindShared(p)
      <3>1. Holders' = Holders
        BY <2>4, HoldersKept DEF BindShared, HolderLabels, Tasks
      <3> QED
        BY <3>1, <2>4 DEF BindShared
    <2>5. CASE StartFails(p)
      <3>1. Holders' = Holders
        BY <2>5, HoldersKept DEF StartFails, HolderLabels, Tasks
      <3> QED
        BY <3>1, <2>5 DEF StartFails
    <2>6. CASE CleanedUp(p)
      <3>1. Holders' = Holders
        BY <2>6, HoldersKept DEF CleanedUp, HolderLabels, Tasks
      <3> QED
        BY <3>1, <2>6 DEF CleanedUp
    <2>7. CASE SharedStarted(p)
      BY <2>7, TasksAssumption DEF SharedStarted, Progress
    <2>8. CASE JoinShared(p)
      BY <2>8 DEF JoinShared
    <2>9. CASE JoinRaises(p)
      <3>1. Holders' = Holders
        BY <2>9, HoldersKept DEF JoinRaises, EnterSetup, ChatLogReady, HolderLabels, Tasks
      <3> QED
        BY <3>1, <2>9 DEF JoinRaises, EnterSetup, ChatLogReady
    <2>10. CASE SetupDone(p)
      <3>1. Holders' = Holders
        BY <2>10, HoldersKept DEF SetupDone, HolderLabels, Tasks
      <3> QED
        BY <3>1, <2>10 DEF SetupDone
    <2>11. CASE SetupFails(p)
      <3>1. Holders' = Holders
        BY <2>11, HoldersKept DEF SetupFails, HolderLabels, Tasks
      <3> QED
        BY <3>1, <2>11 DEF SetupFails
    <2>12. CASE Unload(p)
      <3>1. Holders' = Holders
        BY <2>12, HoldersKept DEF Unload, HolderLabels, Tasks
      <3> QED
        BY <3>1, <2>12 DEF Unload
    <2>13. CASE UnloadRefused(p)
      <3>1. Holders' = Holders
        BY <2>13, HoldersKept DEF UnloadRefused, HolderLabels, Tasks
      <3> QED
        BY <3>1, <2>13 DEF UnloadRefused
    <2>14. CASE Disconnect(p)
      <3>1. Holders' = Holders
        BY <2>14, HoldersKept DEF Disconnect, HolderLabels, Tasks
      <3> QED
        BY <3>1, <2>14 DEF Disconnect
    <2>15. CASE ReleaseOne(p)
      <3>1. Holders' = Holders \ {p}
        BY <2>15, HolderLeaves DEF ReleaseOne, EnterRelease, HolderLabels
      <3> QED
        BY <3>1, <2>15 DEF ReleaseOne
    <2>16. CASE ReleaseLast(p)
      <3>1. Holders' = Holders \ {p} /\ p \in Holders
        BY <2>16, HolderLeaves DEF ReleaseLast, EnterRelease, HolderLabels
      <3>2. refcount = Cardinality(Holders) /\ refcount' = refcount - 1
        BY <2>16 DEF ReleaseLast, EnterRelease, RefcountExact, Absent
      <3>3. refcount = 1
        BY <3>1, <3>2, HoldersFinite, <2>16 DEF ReleaseLast
      <3>4. Holders' = {}
        BY <3>1, <3>2, <3>3, HoldersFinite
      <3> QED
        BY <3>4
    <2>17. CASE ReleaseRaises(p)
      <3>1. Holders' = Holders \ {p} /\ p \in Holders
        BY <2>17, HolderLeaves DEF ReleaseRaises, EnterRelease, HolderLabels
      <3>2. refcount = Cardinality(Holders) /\ refcount' = refcount - 1
        BY <2>17 DEF ReleaseRaises, EnterRelease, RefcountExact, Absent
      <3>3. refcount = 1
        BY <3>1, <3>2, HoldersFinite, <2>17 DEF ReleaseRaises
      <3>4. Holders' = {}
        BY <3>1, <3>2, <3>3, HoldersFinite
      <3> QED
        BY <3>4
    <2>18. CASE SharedStopped(p)
      <3>1. Holders' = Holders
        BY <2>18, HoldersKept DEF SharedStopped, HolderLabels, Tasks
      <3> QED
        BY <3>1, <2>18, TasksAssumption DEF SharedStopped, OneInside, LockedLabels, ReleaseNeverWaits
    <2>19. CASE ChatLogFlushed(p)
      <3>1. Holders' = Holders
        BY <2>19, HoldersKept DEF ChatLogFlushed, HolderLabels, Tasks
      <3> QED
        BY <3>1, <2>19 DEF ChatLogFlushed
    <2> QED
      BY <1>1, <2>1, <2>2, <2>3, <2>4, <2>5, <2>6, <2>7, <2>8, <2>9, <2>10, <2>11, <2>12, <2>13, <2>14, <2>15, <2>16, <2>17, <2>18, <2>19 DEF Lifecycle
  <1>2. ASSUME NEW f \in Flows, ApplySettings(f) PROVE Published'
    <2>1. ASSUME NEW port \in Ports, SaveWithoutRestart(f, port) PROVE Published'
      BY <2>1 DEF SaveWithoutRestart, Holders, data
    <2>2. ASSUME NEW port \in Ports, SaveAndRestart(f, port) PROVE Published'
      <3>1. Holders' = Holders
        BY <2>2, TasksAssumption, HoldersKept DEF SaveAndRestart, HolderLabels, Tasks
      <3> QED
        BY <3>1, <2>2 DEF SaveAndRestart
    <2>3. CASE BindNew(f)
      <3>1. Holders' = Holders
        BY <2>3, TasksAssumption, HoldersKept DEF BindNew, HolderLabels, Tasks
      <3> QED
        BY <3>1, <2>3 DEF BindNew
    <2>4. CASE NewFails(f)
      <3>1. Holders' = Holders
        BY <2>4, TasksAssumption, HoldersKept DEF NewFails, EndFlow, HolderLabels, Tasks
      <3> QED
        BY <3>1, <2>4 DEF NewFails, EndFlow
    <2>5. CASE StopOld(f)
      <3>1. Holders' = Holders
        BY <2>5, TasksAssumption, HoldersKept DEF StopOld, HolderLabels, Tasks
      <3> QED
        BY <3>1, <2>5 DEF StopOld
    <2>6. CASE StopOldRaises(f)
      <3>1. Holders' = Holders
        BY <2>6, TasksAssumption, HoldersKept DEF StopOldRaises, HolderLabels, Tasks
      <3> QED
        BY <3>1, <2>6 DEF StopOldRaises
    <2>7. CASE Undone(f)
      <3>1. Holders' = Holders
        BY <2>7, TasksAssumption, HoldersKept DEF Undone, EndFlow, HolderLabels, Tasks
      <3> QED
        BY <3>1, <2>7 DEF Undone, EndFlow
    <2>8. CASE PublishNew(f)
      <3>1. Holders' = Holders
        BY <2>8, TasksAssumption, HoldersKept DEF PublishNew, EndFlow, HolderLabels, Tasks
      <3> QED
        BY <3>1, <2>8, TasksAssumption DEF PublishNew, EndFlow, Progress
    <2> QED
      BY <1>2, <2>1, <2>2, <2>3, <2>4, <2>5, <2>6, <2>7, <2>8 DEF ApplySettings
  <1>3. CASE UNCHANGED vars
    BY <1>3 DEF vars, Holders
  <1> QED
    BY <1>1, <1>2, <1>3 DEF Next

\* The invariant holds before any profile is set up.
LEMMA InvInit == Init => IInv
  <1> SUFFICES ASSUME Init PROVE IInv
    OBVIOUS
  <1>1. TypeOK
    BY TypeInit
  <1>2. \A p \in Profiles : pc[p] = "idle"
    BY DEF Init, Tasks
  <1>3. Holders = {}
    BY <1>2 DEF Holders, HolderLabels
  <1>4. OneInside
    BY <1>2, TasksAssumption DEF Init, OneInside, LockedLabels
  <1>5. RefcountExact /\ ReleaseNeverWaits /\ HoldersServed
    BY <1>3 DEF Init, RefcountExact, ReleaseNeverWaits, HoldersServed
  <1>6. Apart /\ Progress /\ SharedServes
    BY DEF Init, Apart, Progress, SharedServes, Tasks
  <1> QED
    BY <1>1, <1>4, <1>5, <1>6 DEF IInv

\* Every step keeps the invariant.
LEMMA InvStep == IInv /\ [Next]_vars => IInv'
  <1> SUFFICES ASSUME IInv, [Next]_vars PROVE IInv'
    OBVIOUS
  <1> USE DEF IInv
  <1>1. TypeOK' /\ OneInside'
    BY TypeStep, LockStep
  <1>2. RefcountExact' /\ ReleaseNeverWaits'
    BY RefcountStep
  <1>3. Apart' /\ Progress' /\ SharedServes'
    BY ApartStep, ProgressStep, ServesStep
  <1>4. Published'
    <2>1. Published
      BY DEF HoldersServed, Published
    <2> QED
      BY <2>1, PublishedStep
  <1>5. HoldersServed'
    BY <1>3, <1>4 DEF SharedServes, Published, HoldersServed
  <1> QED
    BY <1>1, <1>2, <1>3, <1>5

\* The state of the shared server and of every task stays within its type,
\* and IInv holds in every reachable state.
THEOREM Invariance == Spec => []IInv
  BY InvInit, InvStep, PTL DEF Spec

\* Every variable keeps its type (hass.data, the tasks and the servers).
THEOREM TypeCorrect == Spec => []TypeOK
  <1>1. IInv => TypeOK
    BY DEF IInv
  <1> QED
    BY <1>1, Invariance, PTL

\* server_init_lock: at most one profile is ever inside the region that
\* starts and stops the shared server.
THEOREM LockExclusion == Spec => []OneInside
  <1>1. IInv => OneInside
    BY DEF IInv
  <1> QED
    BY <1>1, Invariance, PTL

\* mcp_refcount always equals the number of profiles still to release a
\* reference, whatever setups fail and whatever the options flows do.
THEOREM CountIsExact == Spec => []RefcountExact
  <1>1. IInv => RefcountExact
    BY DEF IInv
  <1> QED
    BY <1>1, Invariance, PTL

\* A release never has to wait for server_init_lock.
THEOREM ReleaseAtOnce == Spec => []ReleaseNeverWaits
  <1>1. IInv => ReleaseNeverWaits
    BY DEF IInv
  <1> QED
    BY <1>1, Invariance, PTL

\* The discipline of the shared server as the runs check it: types, exclusion,
\* the exact count, and a lock that no release waits for.
THEOREM SharedIsSound == Spec => []SharedSound
  <1>1. IInv => SharedSound
    BY DEF IInv, SharedSound
  <1> QED
    BY <1>1, Invariance, PTL

\* A profile with a reference has a listening server, also while options
\* flows move it to another port.
THEOREM ProfilesServed == Spec => []HoldersServed
  <1>1. IInv => HoldersServed
    BY DEF IInv
  <1> QED
    BY <1>1, Invariance, PTL

-----------------------------------------------------------------------------
(* Without options flows: what a release leaves, and the abstract runtime *)

\* While somebody has a reference the published server listens: no release
\* finds it stopped already.
LEMMA NeverRaises ==
  ASSUME Flows = {}, IInv, NEW p \in Profiles
  PROVE  ~ReleaseRaises(p)
  <1>1. SUFFICES ASSUME ReleaseRaises(p) PROVE FALSE
    OBVIOUS
  <1>2. p \in Holders
    BY <1>1 DEF ReleaseRaises, EnterRelease, Holders, HolderLabels
  <1>3. up[shared]
    BY <1>2 DEF IInv, HoldersServed
  <1> QED
    BY <1>1, <1>3 DEF ReleaseRaises

\* The last reference is the only one left.
LEMMA LastIsOnly ==
  ASSUME IInv, NEW p \in Profiles, ReleaseLast(p)
  PROVE  p \in Holders /\ Holders = {p} /\ Holders' = {}
  <1>1. p \in Holders /\ Holders' = Holders \ {p}
    BY HolderLeaves DEF IInv, ReleaseLast, EnterRelease, HolderLabels
  <1>2. Cardinality(Holders) = 1
    BY <1>1, HoldersFinite
      DEF IInv, RefcountExact, Absent, ReleaseLast, EnterRelease
  <1> QED
    BY <1>1, <1>2, HoldersFinite

\* A reference that is not the last leaves others.
LEMMA OthersStay ==
  ASSUME IInv, NEW p \in Profiles, ReleaseOne(p)
  PROVE  p \in Holders /\ Holders' = Holders \ {p} /\ Holders' # {}
  <1>1. p \in Holders /\ Holders' = Holders \ {p}
    BY HolderLeaves DEF IInv, ReleaseOne, EnterRelease, HolderLabels
  <1>2. Cardinality(Holders) # 1
    BY <1>1, HoldersFinite
      DEF IInv, RefcountExact, Absent, ReleaseOne, EnterRelease
  <1> QED
    BY <1>1, <1>2, HoldersFinite

\* A step leaves no server listening that nobody uses or starts.
LEMMA UpInUseStep ==
  ASSUME Flows = {}, IInv, QuietInv, [Next]_vars
  PROVE  UpInUse'
  <1> USE TasksAssumption DEF IInv, QuietInv, TypeOK, UpInUse, Tasks, Goto, data, srv
  <1>1. ASSUME NEW p \in Profiles, Lifecycle(p) PROVE UpInUse'
    <2>1. CASE InitChatLog(p)
      BY <2>1 DEF InitChatLog
    <2>2. CASE QueueSetup(p)
      BY <2>2 DEF QueueSetup, ChatLogReady
    <2>3. CASE StartShared(p)
      BY <2>3 DEF StartShared, EnterSetup, ChatLogReady, NewServer, Apart
    <2>4. CASE BindShared(p)
      BY <2>4 DEF BindShared, Bind, OneInside, LockedLabels
    <2>5. CASE StartFails(p)
      BY <2>5 DEF StartFails, PublishedForUsers
    <2>6. CASE CleanedUp(p)
      BY <2>6 DEF CleanedUp
    <2>7. CASE SharedStarted(p)
      BY <2>7 DEF SharedStarted, OneInside, LockedLabels, PublishedForUsers
    <2>8. CASE JoinShared(p)
      BY <2>8 DEF JoinShared, EnterSetup, ChatLogReady
    <2>9. CASE JoinRaises(p)
      BY <2>9 DEF JoinRaises, EnterSetup, ChatLogReady
    <2>10. CASE SetupDone(p)
      BY <2>10 DEF SetupDone
    <2>11. CASE SetupFails(p)
      BY <2>11 DEF SetupFails
    <2>12. CASE Unload(p)
      BY <2>12 DEF Unload
    <2>13. CASE UnloadRefused(p)
      BY <2>13 DEF UnloadRefused
    <2>14. CASE Disconnect(p)
      BY <2>14 DEF Disconnect
    <2>15. CASE ReleaseOne(p)
      BY <2>15 DEF ReleaseOne, EnterRelease
    <2>16. CASE ReleaseLast(p)
      BY <2>16 DEF ReleaseLast, EnterRelease, Close, OneInside, LockedLabels
    <2>17. CASE SharedStopped(p)
      BY <2>17 DEF SharedStopped
    <2>18. CASE ChatLogFlushed(p)
      BY <2>18 DEF ChatLogFlushed
    <2> QED
      BY <1>1, NeverRaises, <2>1, <2>2, <2>3, <2>4, <2>5, <2>6, <2>7, <2>8, <2>9, <2>10, <2>11, <2>12, <2>13, <2>14, <2>15, <2>16, <2>17, <2>18 DEF Lifecycle
  <1>2. CASE UNCHANGED vars
    BY <1>2 DEF vars, data, srv
  <1> QED
    BY <1>1, <1>2 DEF Next

\* A step keeps a server published exactly while it has users.
LEMMA PublishedForUsersStep ==
  ASSUME Flows = {}, IInv, QuietInv, [Next]_vars
  PROVE  PublishedForUsers'
  <1> USE TasksAssumption DEF IInv, QuietInv, TypeOK, PublishedForUsers, Tasks, data, srv
  <1>1. ASSUME NEW p \in Profiles, Lifecycle(p) PROVE PublishedForUsers'
    <2>1. CASE InitChatLog(p)
      <3>1. Holders' = Holders
        BY <2>1, HoldersKept DEF InitChatLog, HolderLabels, Tasks
      <3> QED
        BY <3>1, <2>1 DEF InitChatLog, OneInside, LockedLabels
    <2>2. CASE QueueSetup(p)
      <3>1. Holders' = Holders
        BY <2>2, HoldersKept DEF QueueSetup, ChatLogReady, HolderLabels, Tasks
      <3> QED
        BY <3>1, <2>2 DEF QueueSetup, ChatLogReady, OneInside, LockedLabels
    <2>3. CASE StartShared(p)
      <3>1. Holders' = Holders
        BY <2>3, HoldersKept DEF StartShared, EnterSetup, ChatLogReady, NewServer, HolderLabels, Tasks
      <3> QED
        BY <3>1, <2>3 DEF StartShared, EnterSetup, ChatLogReady, NewServer, OneInside, LockedLabels
    <2>4. CASE BindShared(p)
      <3>1. Holders' = Holders
        BY <2>4, HoldersKept DEF BindShared, Bind, HolderLabels, Tasks
      <3> QED
        BY <3>1, <2>4 DEF BindShared, Bind, OneInside, LockedLabels
    <2>5. CASE StartFails(p)
      <3>1. Holders' = Holders
        BY <2>5, HoldersKept DEF StartFails, HolderLabels, Tasks
      <3> QED
        BY <3>1, <2>5 DEF StartFails, OneInside, LockedLabels
    <2>6. CASE CleanedUp(p)
      <3>1. Holders' = Holders
        BY <2>6, HoldersKept DEF CleanedUp, HolderLabels, Tasks
      <3> QED
        BY <3>1, <2>6 DEF CleanedUp, OneInside, LockedLabels
    <2>7. CASE SharedStarted(p)
      <3>1. Holders' = Holders \cup {p}
        BY <2>7, HolderJoins DEF SharedStarted, HolderLabels
      <3> QED
        BY <3>1, <2>7 DEF SharedStarted, Progress
    <2>8. CASE JoinShared(p)
      <3>1. Holders' = Holders \cup {p}
        BY <2>8, HolderJoins DEF JoinShared, EnterSetup, ChatLogReady, HolderLabels
      <3> QED
        BY <3>1, <2>8 DEF JoinShared, EnterSetup
    <2>9. CASE JoinRaises(p)
      <3>1. Holders' = Holders
        BY <2>9, HoldersKept DEF JoinRaises, EnterSetup, ChatLogReady, HolderLabels, Tasks
      <3> QED
        BY <3>1, <2>9 DEF JoinRaises, EnterSetup, ChatLogReady, OneInside, LockedLabels
    <2>10. CASE SetupDone(p)
      <3>1. Holders' = Holders
        BY <2>10, HoldersKept DEF SetupDone, HolderLabels, Tasks
      <3> QED
        BY <3>1, <2>10 DEF SetupDone, OneInside, LockedLabels
    <2>11. CASE SetupFails(p)
      <3>1. Holders' = Holders
        BY <2>11, HoldersKept DEF SetupFails, HolderLabels, Tasks
      <3> QED
        BY <3>1, <2>11 DEF SetupFails, OneInside, LockedLabels
    <2>12. CASE Unload(p)
      <3>1. Holders' = Holders
        BY <2>12, HoldersKept DEF Unload, HolderLabels, Tasks
      <3> QED
        BY <3>1, <2>12 DEF Unload, OneInside, LockedLabels
    <2>13. CASE UnloadRefused(p)
      <3>1. Holders' = Holders
        BY <2>13, HoldersKept DEF UnloadRefused, HolderLabels, Tasks
      <3> QED
        BY <3>1, <2>13 DEF UnloadRefused, OneInside, LockedLabels
    <2>14. CASE Disconnect(p)
      <3>1. Holders' = Holders
        BY <2>14, HoldersKept DEF Disconnect, HolderLabels, Tasks
      <3> QED
        BY <3>1, <2>14 DEF Disconnect, OneInside, LockedLabels
    <2>15. CASE ReleaseOne(p)
      BY <2>15, OthersStay DEF ReleaseOne
    <2>16. CASE ReleaseLast(p)
      BY <2>16, LastIsOnly DEF ReleaseLast
    <2>17. CASE SharedStopped(p)
      <3>1. Holders' = Holders
        BY <2>17, HoldersKept DEF SharedStopped, HolderLabels, Tasks
      <3> QED
        BY <3>1, <2>17 DEF SharedStopped, OneInside, LockedLabels
    <2>18. CASE ChatLogFlushed(p)
      <3>1. Holders' = Holders
        BY <2>18, HoldersKept DEF ChatLogFlushed, HolderLabels, Tasks
      <3> QED
        BY <3>1, <2>18 DEF ChatLogFlushed, OneInside, LockedLabels
    <2> QED
      BY <1>1, NeverRaises, <2>1, <2>2, <2>3, <2>4, <2>5, <2>6, <2>7, <2>8, <2>9, <2>10, <2>11, <2>12, <2>13, <2>14, <2>15, <2>16, <2>17, <2>18 DEF Lifecycle
  <1>2. CASE UNCHANGED vars
    BY <1>2 DEF vars, data, srv, Holders
  <1> QED
    BY <1>1, <1>2 DEF Next

\* A step leaves nothing of the runtime in hass.data once no server is published.
LEMMA LeftBehindStep ==
  ASSUME Flows = {}, IInv, QuietInv, [Next]_vars
  PROVE  LeftBehind'
  <1> USE TasksAssumption DEF IInv, QuietInv, TypeOK, LeftBehind, OneInside, LockedLabels, PublishedForUsers, Tasks, Goto, data, srv
  <1>1. ASSUME NEW p \in Profiles, Lifecycle(p) PROVE LeftBehind'
    <2>1. CASE InitChatLog(p)
      BY <2>1 DEF InitChatLog
    <2>2. CASE QueueSetup(p)
      BY <2>2 DEF QueueSetup, ChatLogReady
    <2>3. CASE StartShared(p)
      BY <2>3 DEF StartShared, EnterSetup, ChatLogReady, NewServer
    <2>4. CASE BindShared(p)
      BY <2>4 DEF BindShared, Bind
    <2>5. CASE StartFails(p)
      BY <2>5 DEF StartFails
    <2>6. CASE CleanedUp(p)
      BY <2>6 DEF CleanedUp
    <2>7. CASE SharedStarted(p)
      BY <2>7 DEF SharedStarted, Progress
    <2>8. CASE JoinShared(p)
      BY <2>8 DEF JoinShared, EnterSetup, ChatLogReady
    <2>9. CASE JoinRaises(p)
      BY <2>9 DEF JoinRaises, EnterSetup, ChatLogReady
    <2>10. CASE SetupDone(p)
      BY <2>10 DEF SetupDone
    <2>11. CASE SetupFails(p)
      BY <2>11 DEF SetupFails
    <2>12. CASE Unload(p)
      BY <2>12 DEF Unload
    <2>13. CASE UnloadRefused(p)
      BY <2>13 DEF UnloadRefused
    <2>14. CASE Disconnect(p)
      BY <2>14 DEF Disconnect
    <2>15. CASE ReleaseOne(p)
      BY <2>15 DEF ReleaseOne, EnterRelease
    <2>16. CASE ReleaseLast(p)
      BY <2>16 DEF ReleaseLast, EnterRelease, Close
    <2>17. CASE SharedStopped(p)
      BY <2>17 DEF SharedStopped
    <2>18. CASE ChatLogFlushed(p)
      BY <2>18 DEF ChatLogFlushed
    <2> QED
      BY <1>1, NeverRaises, <2>1, <2>2, <2>3, <2>4, <2>5, <2>6, <2>7, <2>8, <2>9, <2>10, <2>11, <2>12, <2>13, <2>14, <2>15, <2>16, <2>17, <2>18 DEF Lifecycle
  <1>2. CASE UNCHANGED vars
    BY <1>2 DEF vars, data, srv
  <1> QED
    BY <1>1, <1>2 DEF Next

\* A step keeps the records those of the holders.
LEMMA RecordsStep ==
  ASSUME Flows = {}, IInv, QuietInv, [Next]_vars
  PROVE  RecordsOfHolders'
  <1> USE TasksAssumption DEF IInv, QuietInv, TypeOK, RecordsOfHolders, RecordLabels, HolderLabels, Tasks, Goto, data, srv
  <1>1. ASSUME NEW p \in Profiles, Lifecycle(p) PROVE RecordsOfHolders'
    <2>1. CASE InitChatLog(p)
      BY <2>1 DEF InitChatLog
    <2>2. CASE QueueSetup(p)
      BY <2>2 DEF QueueSetup, ChatLogReady
    <2>3. CASE StartShared(p)
      BY <2>3 DEF StartShared, EnterSetup, ChatLogReady, NewServer
    <2>4. CASE BindShared(p)
      BY <2>4 DEF BindShared, Bind
    <2>5. CASE StartFails(p)
      BY <2>5 DEF StartFails
    <2>6. CASE CleanedUp(p)
      BY <2>6 DEF CleanedUp
    <2>7. CASE SharedStarted(p)
      BY <2>7 DEF SharedStarted
    <2>8. CASE JoinShared(p)
      BY <2>8 DEF JoinShared, EnterSetup, ChatLogReady
    <2>9. CASE JoinRaises(p)
      BY <2>9 DEF JoinRaises, EnterSetup, ChatLogReady
    <2>10. CASE SetupDone(p)
      BY <2>10 DEF SetupDone
    <2>11. CASE SetupFails(p)
      BY <2>11 DEF SetupFails
    <2>12. CASE Unload(p)
      BY <2>12 DEF Unload
    <2>13. CASE UnloadRefused(p)
      BY <2>13 DEF UnloadRefused
    <2>14. CASE Disconnect(p)
      BY <2>14 DEF Disconnect
    <2>15. CASE ReleaseOne(p)
      BY <2>15 DEF ReleaseOne, EnterRelease
    <2>16. CASE ReleaseLast(p)
      BY <2>16 DEF ReleaseLast, EnterRelease, Close
    <2>17. CASE SharedStopped(p)
      BY <2>17 DEF SharedStopped
    <2>18. CASE ChatLogFlushed(p)
      BY <2>18 DEF ChatLogFlushed
    <2> QED
      BY <1>1, NeverRaises, <2>1, <2>2, <2>3, <2>4, <2>5, <2>6, <2>7, <2>8, <2>9, <2>10, <2>11, <2>12, <2>13, <2>14, <2>15, <2>16, <2>17, <2>18 DEF Lifecycle
  <1>2. CASE UNCHANGED vars
    BY <1>2 DEF vars, data, srv
  <1> QED
    BY <1>1, <1>2 DEF Next

\* A step keeps the server bound to a profile that is there, or that a release will replace.
LEMMA EntryAliveStep ==
  ASSUME Flows = {}, IInv, QuietInv, [Next]_vars
  PROVE  EntryAlive'
  <1> USE TasksAssumption DEF IInv, QuietInv, TypeOK, EntryAlive, Tasks, Goto, data, srv
  <1>1. ASSUME NEW p \in Profiles, Lifecycle(p) PROVE EntryAlive'
    <2>1. CASE InitChatLog(p)
      BY <2>1 DEF InitChatLog
    <2>2. CASE QueueSetup(p)
      BY <2>2 DEF QueueSetup, ChatLogReady
    <2>3. CASE StartShared(p)
      BY <2>3 DEF StartShared, EnterSetup, ChatLogReady, NewServer, Apart, OneInside, LockedLabels
    <2>4. CASE BindShared(p)
      BY <2>4 DEF BindShared, Bind
    <2>5. CASE StartFails(p)
      BY <2>5 DEF StartFails
    <2>6. CASE CleanedUp(p)
      BY <2>6 DEF CleanedUp
    <2>7. CASE SharedStarted(p)
      BY <2>7 DEF SharedStarted, OneInside, LockedLabels, PublishedForUsers
    <2>8. CASE JoinShared(p)
      BY <2>8 DEF JoinShared, EnterSetup, ChatLogReady
    <2>9. CASE JoinRaises(p)
      BY <2>9 DEF JoinRaises, EnterSetup, ChatLogReady
    <2>10. CASE SetupDone(p)
      BY <2>10 DEF SetupDone
    <2>11. CASE SetupFails(p)
      BY <2>11 DEF SetupFails
    <2>12. CASE Unload(p)
      BY <2>12 DEF Unload
    <2>13. CASE UnloadRefused(p)
      BY <2>13 DEF UnloadRefused
    <2>14. CASE Disconnect(p)
      BY <2>14 DEF Disconnect
    <2>15. CASE ReleaseOne(p)
      <3>1. PICK q \in Holders' : TRUE
        BY <2>15, OthersStay
      <3>2. q \in Profiles /\ (pc'[q] = "aborting" \/ q \in entryData')
        <4>1. q \in Profiles /\ pc'[q] \in HolderLabels
          BY <3>1 DEF Holders
        <4>2. q # p /\ pc'[q] = pc[q]
          BY <4>1, <2>15 DEF ReleaseOne, HolderLabels
        <4> QED
          BY <4>1, <4>2, <2>15 DEF ReleaseOne, EnterRelease, RecordsOfHolders, RecordLabels
      <3>3. entryOf'[shared] \in entryData' \/ entryData' = {}
        BY <3>1, <2>15, OthersStay DEF ReleaseOne, HoldersServed
      <3>4. shared' # NoServer =>
              \/ entryOf'[shared'] \in entryData'
              \/ \E r \in Profiles : pc'[r] = "aborting"
        BY <3>2, <3>3, <2>15 DEF ReleaseOne
      <3>5. \A r \in Profiles : pc'[r] \notin {"starting", "initTools"}
        BY <2>15 DEF ReleaseOne, EnterRelease, OneInside, LockedLabels
      <3> QED
        BY <3>4, <3>5
    <2>16. CASE ReleaseLast(p)
      BY <2>16 DEF ReleaseLast, EnterRelease, Close, OneInside, LockedLabels
    <2>17. CASE SharedStopped(p)
      BY <2>17 DEF SharedStopped
    <2>18. CASE ChatLogFlushed(p)
      BY <2>18 DEF ChatLogFlushed
    <2> QED
      BY <1>1, NeverRaises, <2>1, <2>2, <2>3, <2>4, <2>5, <2>6, <2>7, <2>8, <2>9, <2>10, <2>11, <2>12, <2>13, <2>14, <2>15, <2>16, <2>17, <2>18 DEF Lifecycle
  <1>2. CASE UNCHANGED vars
    BY <1>2 DEF vars, data, srv
  <1> QED
    BY <1>1, <1>2 DEF Next

\* What QuietInv says holds before any profile is set up.
LEMMA QuietInit == Flows = {} /\ Init => QuietInv
  <1> SUFFICES ASSUME Flows = {}, Init PROVE QuietInv
    OBVIOUS
  <1>1. \A p \in Profiles : pc[p] = "idle"
    BY DEF Init, Tasks
  <1>2. Holders = {}
    BY <1>1 DEF Holders, HolderLabels
  <1>3. UpInUse /\ PublishedForUsers
    BY <1>2 DEF Init, UpInUse, PublishedForUsers
  <1>4. LeftBehind /\ EntryAlive
    BY <1>1 DEF Init, LeftBehind, EntryAlive
  <1>5. RecordsOfHolders
    BY <1>1 DEF Init, RecordsOfHolders, RecordLabels, HolderLabels
  <1> QED
    BY <1>3, <1>4, <1>5 DEF QuietInv

LEMMA QuietStep == Flows = {} /\ IInv /\ QuietInv /\ [Next]_vars => QuietInv'
  <1> SUFFICES ASSUME Flows = {}, IInv, QuietInv, [Next]_vars PROVE QuietInv'
    OBVIOUS
  <1> QED
    BY UpInUseStep, PublishedForUsersStep, LeftBehindStep, RecordsStep, EntryAliveStep
      DEF QuietInv

\* Without options flows QuietInv holds in every reachable state.
LEMMA QuietInvariance == Flows = {} => (Spec => []QuietInv)
  <1> SUFFICES ASSUME Flows = {} PROVE Spec => []QuietInv
    OBVIOUS
  <1>1. Init => QuietInv
    BY QuietInit
  <1>2. IInv /\ QuietInv /\ [Next]_vars => QuietInv'
    BY QuietStep
  <1> QED
    BY <1>1, <1>2, Invariance, PTL DEF Spec

\* What a release leaves to the profiles that are there or come after, as long
\* as nobody changes the port meanwhile: a setup finds its port free, at zero
\* references no server listens and hass.data has nothing of the runtime, and
\* the server reads a profile that is set up.
THEOREM ReleasesAreSound == Flows = {} => (Spec => []ReleasedSound)
  <1> SUFFICES ASSUME Flows = {} PROVE Spec => []ReleasedSound
    OBVIOUS
  <1>1. IInv /\ QuietInv => ReleasedSound
    <2> SUFFICES ASSUME IInv, QuietInv PROVE ReleasedSound
      OBVIOUS
    <2> USE TasksAssumption DEF IInv, QuietInv, TypeOK
    <2>1. PortFreeAtSetup
      BY DEF PortFreeAtSetup, Listening, UpInUse, PublishedForUsers, OneInside, LockedLabels
    <2>2. StoppedAtZero
      BY DEF StoppedAtZero, UpInUse, PublishedForUsers, LeftBehind, OneInside, LockedLabels
    <2>3. BoundToLiveProfile
      BY DEF BoundToLiveProfile, EntryAlive
    <2> QED
      BY <2>1, <2>2, <2>3 DEF ReleasedSound
  <1> QED
    BY <1>1, Invariance, QuietInvariance, PTL

\* The initial state is one of the abstract runtime.
LEMMA RuntimeInit == Flows = {} /\ Init => Abstract!Init
  <1> SUFFICES ASSUME Flows = {}, Init PROVE Abstract!Init
    OBVIOUS
  <1>1. Holders = {}
    BY DEF Init, Holders, HolderLabels, Tasks
  <1> QED
    BY <1>1 DEF Init, Abstract!Init, Phase

\* Every step is one of the abstract runtime or leaves it as it is.
LEMMA RuntimeStep ==
  ASSUME Flows = {}, IInv, QuietInv, [Next]_vars
  PROVE  [Abstract!Next]_(Abstract!vars)
  <1> USE TasksAssumption DEF IInv, QuietInv, TypeOK, OneInside, LockedLabels, PublishedForUsers, data, srv, Tasks
  <1>1. ASSUME NEW p \in Profiles, Lifecycle(p) PROVE [Abstract!Next]_(Abstract!vars)
    <2>1. CASE InitChatLog(p)
      <3>1. Holders' = Holders
        BY <2>1, HoldersKept DEF InitChatLog, HolderLabels, Tasks
      <3>2. Phase' = Phase
        BY <2>1 DEF InitChatLog, Phase, Goto
      <3> QED
        BY <3>1, <3>2 DEF Abstract!vars
    <2>2. CASE QueueSetup(p)
      <3>1. Holders' = Holders
        BY <2>2, HoldersKept DEF QueueSetup, ChatLogReady, HolderLabels, Tasks
      <3>2. Phase' = Phase
        BY <2>2 DEF QueueSetup, ChatLogReady, Phase, Goto
      <3> QED
        BY <3>1, <3>2 DEF Abstract!vars
    <2>3. CASE StartShared(p)
      <3>1. Holders' = Holders
        BY <2>3, HoldersKept DEF StartShared, EnterSetup, ChatLogReady, NewServer, HolderLabels, Tasks
      <3>2. Abstract!Open
        BY <3>1, <2>3 DEF StartShared, EnterSetup, ChatLogReady, NewServer, Phase, Goto, Abstract!Open
      <3> QED
        BY <3>2 DEF Abstract!Next
    <2>4. CASE BindShared(p)
      <3>1. Holders' = Holders
        BY <2>4, HoldersKept DEF BindShared, Bind, HolderLabels, Tasks
      <3>2. Phase' = Phase
        BY <2>4 DEF BindShared, Bind, Phase, Goto
      <3> QED
        BY <3>1, <3>2 DEF Abstract!vars
    <2>5. CASE StartFails(p)
      <3>1. Holders' = Holders
        BY <2>5, HoldersKept DEF StartFails, HolderLabels, Tasks
      <3>2. Phase' = Phase
        BY <2>5 DEF StartFails, Phase, Goto
      <3> QED
        BY <3>1, <3>2 DEF Abstract!vars
    <2>6. CASE CleanedUp(p)
      <3>1. Holders' = Holders
        BY <2>6, HoldersKept DEF CleanedUp, HolderLabels, Tasks
      <3>2. Abstract!OpenFails
        BY <3>1, <2>6 DEF CleanedUp, Phase, Goto, Abstract!OpenFails
      <3> QED
        BY <3>2 DEF Abstract!Next
    <2>7. CASE SharedStarted(p)
      <3>1. Holders = {} /\ Holders' = {p}
        BY <2>7, HolderJoins DEF SharedStarted, HolderLabels, ReleaseNeverWaits
      <3>2. lock = p /\ lock' = NoOne /\ shared' # NoServer
        BY <2>7 DEF SharedStarted, Progress
      <3>3. Abstract!Opened(p)
        BY <3>1, <3>2, <2>7 DEF SharedStarted, Phase, Abstract!Opened
      <3> QED
        BY <3>3 DEF Abstract!Next
    <2>8. CASE JoinShared(p)
      <3>1. p \notin Holders /\ Holders' = Holders \cup {p}
        BY <2>8, HolderJoins DEF JoinShared, EnterSetup, ChatLogReady, HolderLabels
      <3>2. Abstract!Join(p)
        BY <3>1, <2>8 DEF JoinShared, EnterSetup, Phase, Abstract!Join
      <3> QED
        BY <3>2 DEF Abstract!Next
    <2>9. CASE JoinRaises(p)
      <3>1. Holders' = Holders
        BY <2>9, HoldersKept DEF JoinRaises, EnterSetup, ChatLogReady, HolderLabels, Tasks
      <3>2. Phase' = Phase
        BY <2>9 DEF JoinRaises, EnterSetup, ChatLogReady, Phase, Goto
      <3> QED
        BY <3>1, <3>2 DEF Abstract!vars
    <2>10. CASE SetupDone(p)
      <3>1. Holders' = Holders
        BY <2>10, HoldersKept DEF SetupDone, HolderLabels, Tasks
      <3>2. Phase' = Phase
        BY <2>10 DEF SetupDone, Phase, Goto
      <3> QED
        BY <3>1, <3>2 DEF Abstract!vars
    <2>11. CASE SetupFails(p)
      <3>1. Holders' = Holders
        BY <2>11, HoldersKept DEF SetupFails, HolderLabels, Tasks
      <3>2. Phase' = Phase
        BY <2>11 DEF SetupFails, Phase, Goto
      <3> QED
        BY <3>1, <3>2 DEF Abstract!vars
    <2>12. CASE Unload(p)
      <3>1. Holders' = Holders
        BY <2>12, HoldersKept DEF Unload, HolderLabels, Tasks
      <3>2. Phase' = Phase
        BY <2>12 DEF Unload, Phase, Goto
      <3> QED
        BY <3>1, <3>2 DEF Abstract!vars
    <2>13. CASE UnloadRefused(p)
      <3>1. Holders' = Holders
        BY <2>13, HoldersKept DEF UnloadRefused, HolderLabels, Tasks
      <3>2. Phase' = Phase
        BY <2>13 DEF UnloadRefused, Phase, Goto
      <3> QED
        BY <3>1, <3>2 DEF Abstract!vars
    <2>14. CASE Disconnect(p)
      <3>1. Holders' = Holders
        BY <2>14, HoldersKept DEF Disconnect, HolderLabels, Tasks
      <3>2. Phase' = Phase
        BY <2>14 DEF Disconnect, Phase, Goto
      <3> QED
        BY <3>1, <3>2 DEF Abstract!vars
    <2>15. CASE ReleaseOne(p)
      <3>1. p \in Holders /\ Holders' = Holders \ {p} /\ Holders # {p}
        BY <2>15, OthersStay
      <3>2. shared # NoServer /\ lock = NoOne /\ shared' = shared /\ lock' = lock
        BY <3>1, <2>15 DEF ReleaseOne, EnterRelease, HoldersServed
      <3>3. Abstract!Leave(p)
        BY <3>1, <3>2 DEF Phase, Abstract!Leave
      <3> QED
        BY <3>3 DEF Abstract!Next
    <2>16. CASE ReleaseLast(p)
      <3>1. p \in Holders /\ Holders = {p} /\ Holders' = {}
        BY <2>16, LastIsOnly
      <3>2. shared # NoServer /\ lock = NoOne
        BY <3>1, <2>16 DEF ReleaseLast, EnterRelease, HoldersServed
      <3>3. lock' = p /\ pc'[p] = "stopping"
        BY <2>16 DEF ReleaseLast, Goto
      <3>4. Abstract!Leave(p)
        BY <3>1, <3>2, <3>3 DEF Phase, Abstract!Leave
      <3> QED
        BY <3>4 DEF Abstract!Next
    <2>17. CASE SharedStopped(p)
      <3>1. Holders' = Holders
        BY <2>17, HoldersKept DEF SharedStopped, HolderLabels, Tasks
      <3>2. Phase' = Phase
        BY <2>17 DEF SharedStopped, Phase, Goto
      <3> QED
        BY <3>1, <3>2 DEF Abstract!vars
    <2>18. CASE ChatLogFlushed(p)
      <3>1. Holders' = Holders
        BY <2>18, HoldersKept DEF ChatLogFlushed, HolderLabels, Tasks
      <3>2. Abstract!Closed
        BY <3>1, <2>18 DEF ChatLogFlushed, Phase, Goto, Abstract!Closed
      <3> QED
        BY <3>2 DEF Abstract!Next
    <2> QED
      BY <1>1, NeverRaises, <2>1, <2>2, <2>3, <2>4, <2>5, <2>6, <2>7, <2>8, <2>9, <2>10, <2>11, <2>12, <2>13, <2>14, <2>15, <2>16, <2>17, <2>18 DEF Lifecycle
  <1>2. CASE UNCHANGED vars
    BY <1>2 DEF vars, data, srv, Holders, Phase, Abstract!vars
  <1> QED
    BY <1>1, <1>2 DEF Next

\* The shared server implements the reference-counted runtime, apart from its
\* liveness: it is opened by its first user, joined and left while it is open
\* only, and closed by the last one, whatever setups fail and unloads overlap.
THEOREM RuntimeRefined ==
  Flows = {} => (Spec => Abstract!Init /\ [][Abstract!Next]_(Abstract!vars))
  <1> SUFFICES ASSUME Flows = {}
               PROVE  Spec => Abstract!Init /\ [][Abstract!Next]_(Abstract!vars)
    OBVIOUS
  <1>1. Init => Abstract!Init
    BY RuntimeInit
  <1>2. IInv /\ QuietInv /\ [Next]_vars => [Abstract!Next]_(Abstract!vars)
    BY RuntimeStep
  <1> QED
    BY <1>1, <1>2, Invariance, QuietInvariance, PTL DEF Spec
=============================================================================
