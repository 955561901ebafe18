-------------------------------- MODULE MCAuth --------------------------------
(***************************************************************************)
(* A small instance of Auth: one call that may take the account back and   *)
(* two that get in or ask for codes, on a verified account, one with a     *)
(* second factor and one nobody has verified, with links already mailed;   *)
(* and an account with nothing mailed, whose tokens are refreshed.         *)
(***************************************************************************)
EXTENDS Auth, TLC

CONSTANTS c1, c2, c3, c4

Sent(purpose) == Token(purpose, Proof("code", 0, TRUE), 0, FALSE)

Initially(verified, totp, linked, purposes) ==
    [user |-> [pw |-> 0, verified |-> verified, totp |-> totp, stamp |-> 0],
     link |-> IF linked THEN [by |-> "nobody", proof |-> Proof("provider", 0, TRUE)] ELSE NoLink,
     tokens |-> [i \in DOMAIN purposes |-> Sent(purposes[i])]]

MCAccounts == {Initially(TRUE, FALSE, FALSE, <<"password_reset", "oauth2_merge", "email_change", "otp">>),
               Initially(TRUE, TRUE, TRUE, <<"password_reset", "otp", "oauth2_merge">>),
               Initially(FALSE, FALSE, TRUE, <<"otp", "invite">>),
               Initially(TRUE, FALSE, FALSE, <<>>)}

MCDoes == [c \in Calls |->
    CASE c = c1 -> {"confirm_reset", "confirm_email", "accept_invite", "otp_link"}
      [] c = c2 -> {"login", "merge_confirm", "otp", "email_change", "otp_code"}
      [] c = c3 -> {"mfa", "otp_code", "otp", "email_change", "confirm_reset", "password_reset"}
      [] c = c4 -> {"provider"}]

\* Requests of one kind are alike.
Symmetric == Permutations(Refreshes) \cup Permutations(Logouts)

=============================================================================
