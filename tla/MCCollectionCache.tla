--------------------------- MODULE MCCollectionCache ---------------------------
(***************************************************************************)
(* Small instances of CollectionCache.                                     *)
(***************************************************************************)
EXTENDS CollectionCache, TLC

Symmetric == Permutations(Servers) \cup Permutations(Reads) \cup Permutations(Updates)

=============================================================================
