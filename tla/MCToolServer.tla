---------------------------- MODULE MCToolServer ----------------------------
(* Reloads are alike, and so are clients: no property tells them apart, and *)
(* only invariants are checked.                                             *)
EXTENDS ToolServer, TLC

Symmetry == Permutations(Reloads) \cup Permutations(Clients)
=============================================================================
