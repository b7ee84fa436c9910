--------------------------- MODULE MCSharedState ---------------------------
(* Instances of SharedState: the processes of two domains. *)
EXTENDS SharedState
CONSTANTS A, B
TwoProcs == {A, B}
=============================================================================
