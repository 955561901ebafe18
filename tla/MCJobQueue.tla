----------------------------- MODULE MCJobQueue -----------------------------
(***************************************************************************)
(* A small instance of JobQueue: two servers, two jobs under one unique    *)
(* key.                                                                    *)
(***************************************************************************)
EXTENDS JobQueue

CONSTANTS p1, p2, j1, j2, k1

OneKey == [j \in Jobs |-> k1]

=============================================================================
