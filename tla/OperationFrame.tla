--------------------------- MODULE OperationFrame ---------------------------
(***************************************************************************)
(* How the sequential parts of the integration are run: a request comes    *)
(* with any input of a bounded set, the result is what the operator that   *)
(* models the code computes from it, and the next request begins afresh.   *)
(***************************************************************************)
CONSTANT None

VARIABLES request, result
frame == <<request, result>>

Nothing == [op |-> "none"]

Begin == request = Nothing /\ result = Nothing

\* An operation runs to its end before the next one.
Ready == request = Nothing

Answer(req, res) == request' = req /\ result' = res

Done == ~Ready /\ request' = Nothing /\ result' = Nothing
=============================================================================
