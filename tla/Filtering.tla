----------------------------- MODULE Filtering -----------------------------
(***************************************************************************)
(* A list without some of its elements: the list comprehensions            *)
(* [x for x in list if x not in gone], in closed form, so that it can be   *)
(* reasoned about.                                                         *)
(***************************************************************************)
EXTENDS Naturals, FiniteSets, Sequences

\* The positions that stay, and the n-th of them.
Staying(list, gone) == {i \in 1..Len(list) : list[i] \notin gone}
Place(kept, n) == CHOOSE i \in kept : Cardinality({j \in kept : j <= i}) = n

Without(list, gone) ==
  LET kept == Staying(list, gone)
  IN  [n \in 1..Cardinality(kept) |-> list[Place(kept, n)]]
=============================================================================
