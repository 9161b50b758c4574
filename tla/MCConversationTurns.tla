------------------------ MODULE MCConversationTurns ------------------------
(***************************************************************************)
(* ConversationTurns for TLC.  Requests and conversations are              *)
(* interchangeable.                                                        *)
(***************************************************************************)
EXTENDS ConversationTurns, TLC

Symmetry == Permutations(Requests) \cup Permutations(Conversations)
=============================================================================
