--------------------------- MODULE MCSharedServer ---------------------------
(***************************************************************************)
(* Instances of SharedServer for TLC.                                      *)
(***************************************************************************)
EXTENDS SharedServer, TLC

\* Interchangeable values (safety runs only).
Symmetry == Permutations(Profiles) \cup Permutations(Flows)

\* Unused server objects and finished flows are alike whatever they last held.
View ==
  <<pc, lock, data, setting, mine, old,
    [s \in Servers |-> IF Fresh(s) THEN {} ELSE {<<up[s], portOf[s], entryOf[s]>>}],
    [f \in Flows |-> IF pc[f] = "idle" THEN NoPort ELSE prev[f]]>>

=============================================================================
