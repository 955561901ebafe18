------------------------------ MODULE MCRealtime ------------------------------
(***************************************************************************)
(* Small instances of Realtime: connections of two addresses, one user's   *)
(* token, and events that are public, hidden from anonymous lists, or for  *)
(* the user alone.                                                         *)
(***************************************************************************)
EXTENDS Realtime

CONSTANTS w1, w2, s1, here, there, t1

Where == [c \in Conns |-> IF c = s1 THEN there ELSE here]

Public == [view |-> Auths, list |-> Auths]
ByIdOnly == [view |-> Auths, list |-> {t1}]

EventRules == {Public, ByIdOnly}

=============================================================================
