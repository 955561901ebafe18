------------------------------ MODULE MCRestore ------------------------------
(***************************************************************************)
(* Small instances of Restore.                                             *)
(***************************************************************************)
EXTENDS Restore, TLC

CONSTANTS a, b, r1, r2

=============================================================================
