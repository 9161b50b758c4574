---------------------------- MODULE ChatLogStore ----------------------------
(***************************************************************************)
(* The chat logs of all profiles: one manager at a time, made by the first *)
(* caller that finds none, keeps the logs in memory and writes all of them *)
(* to one file, 15 seconds after a record and at once for a clear.  The    *)
(* last profile to unload writes them and drops the manager.               *)
(*                                                                         *)
(* A call is suspended while it waits for a manager's lock, while the file *)
(* is read and while it is written; calls interleave there.                *)
(***************************************************************************)
EXTENDS Naturals, Sequences, SequencesExt, Filtering

CONSTANTS
  Calls,        \* tasks, one of each profile, that set up, record, clear or
                \* unload, each again and again
  MaxLogs,      \* bound: conversation turns that are recorded
  MaxManagers,  \* bound: managers that are made
  Kept,         \* DEFAULT_CHAT_LOG_MAX_ENTRIES
  Filters,      \* whose logs a clear may be asked for, None for all
  None

\* A log has its number and its profile.
Logs == (1..MaxLogs) \X Calls
LogsOf(profile) == {log \in Logs : log[2] = profile}

ASSUME LogAssumption ==
  /\ MaxLogs \in Nat /\ MaxManagers \in Nat /\ Kept \in Nat \ {0}
  /\ None \notin Calls \cup Logs /\ Filters \subseteq Calls \cup {None}

Managers == 1..MaxManagers

VARIABLES
  disk,      \* the logs in the file
  current,   \* hass.data[DOMAIN]["chat_log_manager"]
  made,      \* managers made so far
  entries,   \* [Managers -> logs in memory]
  holder,    \* [Managers -> the call that has the lock]
  queue,     \* [Managers -> the calls that wait for it, in order]
  pending,   \* [Managers -> a delayed save is scheduled]
  writing,   \* [Managers -> what a delayed save is writing]
  call,      \* [Calls -> what a call is doing, for which manager]
  recorded,  \* logs made so far
  cleared,   \* logs that a clear which has returned removed
  astray     \* a manager that is not the current one was changed

vars == <<disk, current, made, entries, holder, queue, pending, writing, call,
          recorded, cleared, astray>>

Quiet == <<None>>
Idle == [pc |-> "idle", mgr |-> 0, op |-> "none", arg |-> None, data |-> <<>>]

TypeOK ==
  /\ disk \in Seq(Logs)
  /\ current \in Managers \cup {0}
  /\ made \in 0..MaxManagers
  /\ entries \in [Managers -> Seq(Logs)]
  /\ holder \in [Managers -> Calls \cup {None}]
  /\ queue \in [Managers -> Seq(Calls)]
  /\ pending \in [Managers -> BOOLEAN]
  /\ writing \in [Managers -> Seq(Logs) \cup {Quiet}]
  /\ \A c \in Calls : call[c].pc \in {"idle", "load", "wait", "have", "save"}
  /\ recorded \in 0..MaxLogs
  /\ cleared \subseteq Logs
  /\ astray \in BOOLEAN
  /\ \A m \in Managers : Len(entries[m]) <= Kept
  /\ \A m \in Managers : holder[m] = None => queue[m] = <<>>

Init ==
  /\ disk = <<>> /\ current = 0 /\ made = 0
  /\ entries = [m \in Managers |-> <<>>]
  /\ holder = [m \in Managers |-> None]
  /\ queue = [m \in Managers |-> <<>>]
  /\ pending = [m \in Managers |-> FALSE]
  /\ writing = [m \in Managers |-> Quiet]
  /\ call = [c \in Calls |-> Idle]
  /\ recorded = 0 /\ cleared = {} /\ astray = FALSE

-----------------------------------------------------------------------------
(* What the manager does under its lock *)

\* The newest `Kept` logs.
Newest(logs) == IF Len(logs) > Kept THEN SubSeq(logs, Len(logs) - Kept + 1, Len(logs)) ELSE logs

\* Mutant: the timer of an earlier record is taken for this record's.
DelaySaveOnce(m) ==
  pending' = [pending EXCEPT ![m] = writing[m] = Quiet]

\* Home Assistant's Store reads the logs when the delay is over; a newer save
\* takes the place of one that is scheduled.
DelaySave(m) == pending' = [pending EXCEPT ![m] = TRUE]

\* Mutant: the lock is kept after a write.
UnlockNothing(m) == UNCHANGED <<holder, queue>>

\* What waits first gets the lock next.
Unlock(m) ==
  IF queue[m] = <<>>
  THEN holder' = [holder EXCEPT ![m] = None] /\ UNCHANGED queue
  ELSE /\ holder' = [holder EXCEPT ![m] = Head(queue[m])]
       /\ queue' = [queue EXCEPT ![m] = Tail(@)]

\* Take the lock of manager m for `op`, or stand in its queue.
Lock(c, m, op, arg) ==
  LET waiting == [Idle EXCEPT !.pc = IF holder[m] = None THEN "have" ELSE "wait",
                              !.mgr = m, !.op = op, !.arg = arg]
  IN  /\ call' = [call EXCEPT ![c] = waiting]
      /\ IF holder[m] = None
         THEN holder' = [holder EXCEPT ![m] = c] /\ UNCHANGED queue
         ELSE queue' = [queue EXCEPT ![m] = Append(@, c)] /\ UNCHANGED holder

Strays(m) == astray' = (astray \/ m # current)

Holds(c, op) ==
  /\ call[c].op = op
  /\ call[c].pc \in {"have", "wait"}
  /\ holder[call[c].mgr] = c

-----------------------------------------------------------------------------
(* Finding or making the manager *)

\* _async_get_chat_log_manager finds one; a setup is done with that.
FindManager(c, op, arg) ==
  /\ call[c] = Idle /\ current # 0
  /\ IF op = "setup" THEN UNCHANGED <<holder, queue, call>> ELSE Lock(c, current, op, arg)
  /\ UNCHANGED <<disk, current, made, entries, pending, writing, recorded, cleared, astray>>

\* It finds none and makes one, which loads the file before it is published.
MakeManager(c, op, arg) ==
  /\ call[c] = Idle /\ current = 0 /\ made < MaxManagers
  /\ made' = made + 1
  /\ holder' = [holder EXCEPT ![made'] = c]
  /\ call' = [call EXCEPT ![c] = [Idle EXCEPT !.pc = "load", !.mgr = made', !.op = op, !.arg = arg]]
  /\ UNCHANGED <<disk, current, entries, queue, pending, writing, recorded, cleared, astray>>

\* The file is read, the manager takes the place of one that was made
\* meanwhile, and the call goes on with the manager it made.
Loaded(c) ==
  LET m == call[c].mgr
  IN  /\ call[c].pc = "load"
      /\ entries' = [entries EXCEPT ![m] = disk]
      /\ current' = m
      /\ astray' = (astray \/ current # 0)
      /\ IF call[c].op = "setup"
         THEN call' = [call EXCEPT ![c] = Idle] /\ holder' = [holder EXCEPT ![m] = None]
         ELSE call' = [call EXCEPT ![c].pc = "have"] /\ UNCHANGED holder
      /\ UNCHANGED <<disk, made, queue, pending, writing, recorded, cleared>>

-----------------------------------------------------------------------------
(* Recording a turn: the manager is looked up and not made *)

NextLog(c) == <<recorded + 1, c>>

\* The lock is free: the log is added without suspending.
RecordAtOnce(c) ==
  /\ call[c] = Idle /\ recorded < MaxLogs
  /\ current # 0 /\ holder[current] = None
  /\ recorded' = recorded + 1
  /\ entries' = [entries EXCEPT ![current] = Newest(Append(@, NextLog(c)))]
  /\ DelaySave(current)
  /\ UNCHANGED <<disk, current, made, holder, queue, writing, call, cleared, astray>>

RecordWaits(c) ==
  /\ call[c] = Idle /\ recorded < MaxLogs
  /\ current # 0 /\ holder[current] # None
  /\ recorded' = recorded + 1
  /\ Lock(c, current, "record", NextLog(c))
  /\ UNCHANGED <<disk, current, made, entries, pending, writing, cleared, astray>>

\* The manager may have been dropped while the record waited for its lock.
RecordGetsLock(c) ==
  LET m == call[c].mgr
  IN  /\ Holds(c, "record")
      /\ entries' = [entries EXCEPT ![m] = Newest(Append(@, call[c].arg))]
      /\ DelaySave(m)
      /\ Strays(m)
      /\ Unlock(m)
      /\ call' = [call EXCEPT ![c] = Idle]
      /\ UNCHANGED <<disk, current, made, writing, recorded, cleared>>

-----------------------------------------------------------------------------
(* Listing the logs; clearing those of a profile, or all of them *)

List(c) ==
  /\ Holds(c, "list")
  /\ Unlock(call[c].mgr)
  /\ call' = [call EXCEPT ![c] = Idle]
  /\ UNCHANGED <<disk, current, made, entries, pending, writing, recorded, cleared, astray>>

Matching(filter) == IF filter = None THEN Logs ELSE LogsOf(filter)

\* Nothing matches: nothing is written.
ClearNothing(c) ==
  LET m == call[c].mgr
      gone == Matching(call[c].arg)
  IN  /\ Holds(c, "clear")
      /\ ToSet(entries[m]) \cap gone = {}
      /\ Unlock(m)
      /\ call' = [call EXCEPT ![c] = Idle]
      /\ UNCHANGED <<disk, current, made, entries, pending, writing, recorded, cleared, astray>>

\* Mutant: the deletion is left to the delayed save.
ClearLater(c) ==
  LET m == call[c].mgr
      gone == Matching(call[c].arg)
  IN  /\ Holds(c, "clear")
      /\ ToSet(entries[m]) \cap gone # {}
      /\ entries' = [entries EXCEPT ![m] = Without(@, gone)]
      /\ DelaySave(m)
      /\ cleared' = cleared \cup (ToSet(entries[m]) \cap gone)
      /\ Strays(m)
      /\ Unlock(m)
      /\ call' = [call EXCEPT ![c] = Idle]
      /\ UNCHANGED <<disk, current, made, writing, recorded>>

\* A call that writes logs: what it cleared, if it did, and what is left.
Saves(c, arg, data) ==
  [pc |-> "save", mgr |-> call[c].mgr, op |-> call[c].op, arg |-> arg, data |-> data]

\* The store cancels a scheduled save and takes the data of this one.
ClearSome(c) ==
  LET m == call[c].mgr
      gone == Matching(call[c].arg)
      left == Without(entries[m], gone)
  IN  /\ Holds(c, "clear")
      /\ ToSet(entries[m]) \cap gone # {}
      /\ entries' = [entries EXCEPT ![m] = left]
      /\ pending' = [pending EXCEPT ![m] = FALSE]
      /\ call' = [call EXCEPT ![c] = Saves(c, ToSet(entries[m]) \cap gone, left)]
      /\ Strays(m)
      /\ UNCHANGED <<disk, current, made, holder, queue, writing, recorded, cleared>>

-----------------------------------------------------------------------------
(* The last profile unloads: async_shutdown under the release's lock *)

StopManager(c) ==
  /\ call[c] = Idle /\ current # 0
  /\ \A other \in Calls : call[other].op # "stop"
  /\ Lock(c, current, "stop", None)
  /\ UNCHANGED <<disk, current, made, entries, pending, writing, recorded, cleared, astray>>

SaveForStop(c) ==
  LET m == call[c].mgr
  IN  /\ Holds(c, "stop")
      /\ pending' = [pending EXCEPT ![m] = FALSE]
      /\ call' = [call EXCEPT ![c] = Saves(c, None, entries[m])]
      /\ UNCHANGED <<disk, current, made, entries, holder, queue, writing, recorded, cleared, astray>>

\* The file is written, the lock given back, and the call returns: a clear has
\* removed the logs, a release drops whatever manager is there now.
Saved(c) ==
  LET m == call[c].mgr
  IN  /\ call[c].pc = "save" /\ writing[m] = Quiet
      /\ disk' = call[c].data
      /\ cleared' = IF call[c].op = "clear" THEN cleared \cup call[c].arg ELSE cleared
      /\ current' = IF call[c].op = "stop" THEN 0 ELSE current
      /\ Unlock(m)
      /\ call' = [call EXCEPT ![c] = Idle]
      /\ UNCHANGED <<made, entries, pending, writing, recorded, astray>>

-----------------------------------------------------------------------------
(* The store's delayed save: one write at a time for each manager *)

DelayOver(m) ==
  /\ pending[m] /\ writing[m] = Quiet
  /\ pending' = [pending EXCEPT ![m] = FALSE]
  /\ writing' = [writing EXCEPT ![m] = entries[m]]
  /\ UNCHANGED <<disk, current, made, entries, holder, queue, call, recorded, cleared, astray>>

Written(m) ==
  /\ writing[m] # Quiet
  /\ disk' = writing[m]
  /\ writing' = [writing EXCEPT ![m] = Quiet]
  /\ UNCHANGED <<current, made, entries, holder, queue, pending, call, recorded, cleared, astray>>

-----------------------------------------------------------------------------
GoesOn(c) ==
  \/ Loaded(c) \/ RecordGetsLock(c) \/ List(c) \/ ClearNothing(c) \/ ClearSome(c)
  \/ SaveForStop(c) \/ Saved(c)

Starts(c) ==
  \/ \E op \in {"setup", "list"} : FindManager(c, op, None) \/ MakeManager(c, op, None)
  \/ \E filter \in Filters :
       FindManager(c, "clear", filter) \/ MakeManager(c, "clear", filter)
  \/ RecordAtOnce(c) \/ RecordWaits(c)
  \/ StopManager(c)

Next ==
  \/ \E c \in Calls : GoesOn(c) \/ Starts(c)
  \/ \E m \in Managers : DelayOver(m) \/ Written(m)

Spec == Init /\ [][Next]_vars

\* The event loop runs what can run, a timer fires, a write ends.
Fairness ==
  /\ \A c \in Calls : WF_vars(GoesOn(c))
  /\ \A m \in Managers : WF_vars(Written(m)) /\ WF_vars(DelayOver(m))

FairSpec == Spec /\ Fairness

-----------------------------------------------------------------------------
(* Properties *)

\* The logs the file will have when all that manager m has begun to save is
\* written: a scheduled save reads them later, the others have their copy.
FileSoon(m) ==
  LET saves == {c \in Calls : call[c].pc = "save" /\ call[c].mgr = m}
  IN  IF pending[m] THEN entries[m]
      ELSE IF saves # {} THEN call[CHOOSE c \in saves : TRUE].data
      ELSE IF writing[m] # Quiet THEN writing[m]
      ELSE disk

\* As long as only the current manager was ever changed: what it has in
\* memory is in the file or on its way there, however records, clears and
\* delayed saves overlap, and a full log has dropped its oldest logs only.
SavedOrOnTheWay ==
  ~astray /\ current # 0 =>
    /\ FileSoon(current) = entries[current]
    /\ \A log \in ToSet(entries[current]) : \A later \in Logs :
         later[1] \in (log[1] + 1)..recorded =>
           \/ \E other \in ToSet(entries[current]) : other[1] = later[1]
           \/ \E other \in cleared : other[1] = later[1]
           \/ \E c \in Calls : \/ call[c].op = "record" /\ call[c].arg[1] = later[1]
                              \/ /\ call[c].op = "clear" /\ call[c].pc = "save"
                                 /\ \E other \in call[c].arg : other[1] = later[1]

\* "Deletion must be durable before we return": a log that a clear removed is
\* in the file no more.
ClearDurable == ToSet(disk) \cap cleared = {}

\* It holds, for the file and for the manager that the next turns use, through
\* unloads and new managers, while only the current manager was changed.
ClearedStaysCleared ==
  ~astray => /\ ClearDurable
             /\ current # 0 => ToSet(entries[current]) \cap cleared = {}

\* The managers, the file and what it may hold.
FileSound == TypeOK /\ ClearedStaysCleared

\* Every call ends: the lock of a manager is given on.
CallsEnd == \A c \in Calls : call[c] # Idle ~> call[c] = Idle

-----------------------------------------------------------------------------
(* The inductive invariant *)

\* What a call has in hand at the point it has reached.
CallSound(c) ==
  /\ call[c] = [pc |-> call[c].pc, mgr |-> call[c].mgr, op |-> call[c].op,
                arg |-> call[c].arg, data |-> call[c].data]
  /\ call[c].data \in Seq(Logs)
  /\ call[c].pc = "idle" => call[c] = Idle
  /\ call[c].pc # "idle" => call[c].mgr \in 1..made
  /\ call[c].pc = "load" => call[c].op \in {"setup", "list", "clear"}
  /\ call[c].pc = "save" => call[c].op \in {"clear", "stop"}
  /\ call[c].pc = "save" /\ call[c].op = "clear" => call[c].arg \subseteq Logs
  /\ call[c].op = "record" =>
       /\ call[c].pc = "wait"
       /\ call[c].arg \in Logs /\ call[c].arg[2] = c /\ call[c].arg[1] <= recorded

CallsSound ==
  /\ call = [c \in Calls |-> call[c]]
  /\ \A c \in Calls : CallSound(c)
  /\ \A c, d \in Calls : call[c].op = "stop" /\ call[d].op = "stop" => c = d

\* Nobody but its maker knows a manager that is still loading.
Untouched(m) == queue[m] = <<>> /\ ~pending[m] /\ writing[m] = Quiet

ManagersSound ==
  /\ current <= made
  /\ \A m \in Managers : m > made => holder[m] = None /\ Untouched(m)
  /\ \A c \in Calls : call[c].pc = "load" =>
       /\ call[c].mgr # current /\ Untouched(call[c].mgr)
       /\ \A d \in Calls \ {c} : call[d].mgr # call[c].mgr

\* The lock of a manager and its queue: every call that waits is in one place.
LocksSound ==
  /\ \A c \in Calls : call[c].pc \in {"load", "save"} => holder[call[c].mgr] = c
  /\ \A c \in Calls : call[c].pc \in {"wait", "have"} =>
       \/ holder[call[c].mgr] = c
       \/ c \in ToSet(queue[call[c].mgr])
  /\ \A m \in Managers : holder[m] # None => call[holder[m]].mgr = m
  /\ \A m \in Managers : \A i \in 1..Len(queue[m]) :
       /\ call[queue[m][i]].pc = "wait" /\ call[queue[m][i]].mgr = m
       /\ queue[m][i] # holder[m]
       /\ \A j \in 1..Len(queue[m]) : queue[m][i] = queue[m][j] => i = j

Records(c) == call[c].op = "record"

\* A log that the file, a manager, a write or a clear has had.
Known(log) ==
  \/ log \in ToSet(disk) \cup cleared
  \/ \E m \in Managers : \/ log \in ToSet(entries[m])
                         \/ writing[m] # Quiet /\ log \in ToSet(writing[m])
  \/ \E c \in Calls : call[c].pc = "save" /\ call[c].op = "clear" /\ log \in call[c].arg

\* The order of the records that wait for a lock.
Ordered ==
  /\ \A c, d \in Calls :
       /\ c # d /\ Records(c) /\ Records(d) /\ call[c].mgr = call[d].mgr
       /\ holder[call[c].mgr] = c
       => call[c].arg[1] < call[d].arg[1]
  /\ \A m \in Managers : \A i, j \in 1..Len(queue[m]) :
       i < j /\ Records(queue[m][i]) /\ Records(queue[m][j]) =>
         call[queue[m][i]].arg[1] < call[queue[m][j]].arg[1]

\* Logs are numbered in the order in which they are recorded: a record that
\* waits is later than what its manager has.
Numbered ==
  /\ \A log \in Logs : Known(log) =>
       log[1] <= recorded /\ \A c \in Calls : Records(c) => call[c].arg # log
  /\ \A c \in Calls : Records(c) =>
       \A log \in ToSet(entries[call[c].mgr]) : log[1] < call[c].arg[1]

Ascending(logs) == \A i, j \in 1..Len(logs) : i < j => logs[i][1] < logs[j][1]
Fits(logs) == Len(logs) <= Kept /\ Ascending(logs)

\* The lists of logs, and what a call writes under the lock.
ListsSound ==
  /\ Fits(disk)
  /\ \A m \in Managers : Fits(entries[m]) /\ (writing[m] # Quiet => Fits(writing[m]))
  /\ \A c \in Calls : call[c].pc = "save" =>
       call[c].data = entries[call[c].mgr] /\ ~pending[call[c].mgr]

Saving(m) == \E c \in Calls : call[c].pc = "save" /\ call[c].mgr = m

\* Only the current manager writes, and the file follows what it has.
FileFollows ==
  /\ \A m \in Managers \ {current} : ~pending[m] /\ writing[m] = Quiet /\ ~Saving(m)
  /\ \A c \in Calls : call[c].op = "stop" => call[c].mgr = current
  /\ current # 0 /\ ~pending[current] /\ ~Saving(current) =>
       entries[current] = IF writing[current] = Quiet THEN disk ELSE writing[current]

\* Nobody has a log that a clear removed.
ClearedNowhere ==
  /\ ToSet(disk) \cap cleared = {}
  /\ current # 0 => ToSet(entries[current]) \cap cleared = {}
  /\ \A m \in Managers : writing[m] # Quiet => ToSet(writing[m]) \cap cleared = {}
  /\ \A c \in Calls : call[c].pc = "save" /\ call[c].op = "clear" =>
       ToSet(entries[call[c].mgr]) \cap call[c].arg = {}

Number(n, logs) == \E log \in logs : log[1] = n

\* What the current manager has, or will load, and the records that wait for it.
Had == ToSet(IF current = 0 THEN disk ELSE entries[current])
Coming == {call[c].arg : c \in {d \in Calls : Records(d) /\ call[d].mgr = current}}

Held(n) ==
  \E c \in Calls :
    \/ Records(c) /\ call[c].arg[1] = n
    \/ call[c].op = "clear" /\ call[c].pc = "save" /\ Number(n, call[c].arg)

\* No log after one of those is missing, but for those that a clear removed or
\* a call still has in hand.
NoneMissing ==
  \A log \in Had \cup Coming : \A n \in (log[1] + 1)..recorded :
    Number(n, Had) \/ Number(n, cleared) \/ Held(n)

Follows == FileFollows /\ ClearedNowhere /\ NoneMissing

IInv ==
  /\ TypeOK /\ CallsSound /\ ManagersSound /\ LocksSound /\ Ordered /\ Numbered /\ ListsSound
  /\ ~astray => Follows
=============================================================================
