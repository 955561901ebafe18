----------------------------- MODULE MCBackground -----------------------------
(***************************************************************************)
(* A small instance of Background.  Processes are alike.                   *)
(***************************************************************************)
EXTENDS Background, TLC

CONSTANTS p1, p2, d1, j1, f1, a, b

Symmetric == Permutations(Procs)

=============================================================================
