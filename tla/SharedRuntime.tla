---------------------------- MODULE SharedRuntime ----------------------------
(***************************************************************************)
(* What the shared server promises its profiles, apart from locks, ports   *)
(* and failures: it is opened by its first user, joined and left by the    *)
(* others only while it is open, and closed when the last user is gone.    *)
(***************************************************************************)
CONSTANT Profiles

VARIABLES users,  \* the profiles using the server
          phase   \* closed, opening, open or closing

vars == <<users, phase>>

Init == users = {} /\ phase = "closed"

Open == phase = "closed" /\ phase' = "opening" /\ UNCHANGED users

OpenFails == phase = "opening" /\ phase' = "closed" /\ UNCHANGED users

Opened(p) == phase = "opening" /\ phase' = "open" /\ users' = {p}

Join(p) ==
  /\ phase = "open"
  /\ p \notin users
  /\ users' = users \cup {p}
  /\ UNCHANGED phase

Leave(p) ==
  /\ phase = "open"
  /\ p \in users
  /\ users' = users \ {p}
  /\ phase' = IF users = {p} THEN "closing" ELSE "open"

Closed == phase = "closing" /\ phase' = "closed" /\ UNCHANGED users

Next ==
  \/ Open \/ OpenFails \/ Closed
  \/ \E p \in Profiles : Opened(p) \/ Join(p) \/ Leave(p)

\* Opening and closing end.
Spec == Init /\ [][Next]_vars /\ WF_vars(Closed) /\ WF_vars(phase = "opening" /\ Next)

=============================================================================
