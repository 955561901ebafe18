--------------------------------- MODULE Auth ---------------------------------
(***************************************************************************)
(* The account endpoints (src/src/api/auth.ts): signing in, taking an      *)
(* account back, and the life of the tokens that follow from a sign-in.    *)
(*                                                                         *)
(* The two parts meet in the account's reset stamp alone, which SignIn     *)
(* counts and of which Sessions only asks whether it has moved.  So a      *)
(* behaviour takes one of them: requests sign in to an account with mail   *)
(* out, and refresh the tokens of one that has none.                       *)
(***************************************************************************)
EXTENDS SignIn, Sessions

vars == <<signin, session>>

Init == InitSignIn /\ InitSessions

MailOut == tokens # <<>>

Next == \/ MailOut /\ SignInStep /\ UNCHANGED session
        \/ ~MailOut /\ SessionStep /\ UNCHANGED signin

Spec == Init /\ [][Next]_vars

=============================================================================
