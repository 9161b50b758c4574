-------------------------- MODULE MCOpenClawClient --------------------------
(***************************************************************************)
(* Instances of OpenClawClient for TLC.                                    *)
(***************************************************************************)
EXTENDS OpenClawClient, TLC

Symmetry == Permutations(Requests)

=============================================================================
