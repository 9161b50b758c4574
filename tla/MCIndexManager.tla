--------------------------- MODULE MCIndexManager ---------------------------
(***************************************************************************)
(* Instances of IndexManager for TLC.                                      *)
(***************************************************************************)
EXTENDS IndexManager, TLC

\* Interchangeable values (safety runs only).
Symmetry == Permutations(Readers) \cup Permutations(Prompts)

=============================================================================
