------------------------- MODULE MCSharedConnection -------------------------
(***************************************************************************)
(* Small instances of SharedConnection.  Calls of one kind are alike, so   *)
(* the safety runs use symmetry; the liveness run does not.                *)
(***************************************************************************)
EXTENDS SharedConnection, TLC

Symmetric == Permutations(Writers) \cup Permutations(Batches)

=============================================================================
