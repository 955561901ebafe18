-------------------------------- MODULE SignIn --------------------------------
(***************************************************************************)
(* Getting into one account, and taking it back (src/src/api/auth.ts, with *)
(* the attempt budgets of core/security.ts): password, mailed code or      *)
(* link, provider, second factor; password reset, email change, invitation *)
(* and the claim of an unverified account.                                 *)
(*                                                                         *)
(* A call is one request; what it reads or writes in the database is a     *)
(* step, so calls interleave and a server may die between any two steps    *)
(* (the call then never goes on).  Two reads or writes share a step only   *)
(* where no other call touches both.                                       *)
(*                                                                         *)
(* Every credential carries a mark, the proof: the value password_reset_at *)
(* had when the password was set, the code issued or the provider linked.  *)
(* The stamp counts up: no two resets are stamped alike.  Left out: expiry *)
(* (a token does not expire, an attempt does not age out of its window),   *)
(* the lockout by IP address, and the registration of new accounts.        *)
(***************************************************************************)
EXTENDS Integers, Sequences, FiniteSets

CONSTANTS Calls,               \* the requests of a behaviour
          Does,                \* which of Flows each of them may be
          Accounts,            \* the accounts a behaviour may start from
          Factors,             \* second-factor codes: TOTP steps, recovery codes
          MaxTokenAttempts,    \* MAX_OTP_ATTEMPTS
          MaxCodeFailures      \* MAX_ACCOUNT_CODE_FAILURES and the lockout's

Flows == {"login", "mfa", "otp_link", "otp_code", "provider", "merge_confirm",
          "otp", "password_reset", "email_change",
          "confirm_reset", "confirm_email", "accept_invite"}

\* A password nobody knows.
Unusable == -1

\* What a session rests on: a credential, the stamp it dates from, and
\* whether its maker had looked for a reset since.
Proof(kind, stamp, sure) == [kind |-> kind, stamp |-> stamp, sure |-> sure]
NoProof == Proof("none", 0, TRUE)

\* A row of vaultbase_auth_tokens; its id is its place in tokens.
Token(purpose, proof, seen, linking) ==
    [purpose |-> purpose, used |-> FALSE, attempts |-> 0,
     proof |-> proof, seen |-> seen, linking |-> linking]

NoLink == [by |-> "nobody", proof |-> NoProof]

\* The rows: an account, a provider link, and what a session rests on.
Kinds == {"password", "provider", "code"}
Proofs == [kind : Kinds \cup {"none"}, stamp : Int, sure : BOOLEAN]
UserRows == [pw : Int, verified : BOOLEAN, totp : BOOLEAN, stamp : Nat]
LinkRows == [by : Calls \cup {"nobody"}, proof : Proofs]
Purposes == {"otp", "password_reset", "email_change", "invite", "oauth2_merge", "mfa_ticket", "deleted"}
TokenRows == [purpose : Purposes, used : BOOLEAN, attempts : Nat, proof : Proofs, seen : Nat, linking : BOOLEAN]

\* An account a behaviour starts from: rows the code wrote before, one live
\* code at most (whoever issued one lived to void the rest).
Accounted(a) ==
    /\ a.user \in UserRows /\ (a.user.pw # Unusable => a.user.pw >= 0)
    /\ a.link \in LinkRows /\ a.link.by = "nobody" /\ a.link.proof.stamp >= 0
    /\ a.link # NoLink => a.link.proof.kind = "provider"
    /\ a.tokens \in Seq(TokenRows)
    /\ \A t \in DOMAIN a.tokens :
         LET token == a.tokens[t] IN
         /\ token.proof.stamp >= 0
         /\ token.purpose = "otp" => token.proof.kind = "code"
         /\ token.purpose = "mfa_ticket" =>
              /\ token.proof.kind \in Kinds /\ token.seen <= a.user.stamp
              /\ token.linking => token.proof.kind = "password"
         /\ ~token.used /\ token.purpose \in {"otp", "email_change"} =>
              \A s \in DOMAIN a.tokens :
                 s # t /\ a.tokens[s].purpose = token.purpose => a.tokens[s].used

ASSUME SignInAssumption == /\ IsFiniteSet(Calls) /\ "nobody" \notin Calls
                           /\ MaxTokenAttempts \in Nat
                           /\ MaxCodeFailures \in Nat
                           /\ \A f \in Factors : f \notin Nat
                           /\ \A a \in Accounts : Accounted(a)

VARIABLES user,      \* the account: pw (the stamp it was set with), verified, totp, stamp
          link,      \* its row in vaultbase_oauth_links, or NoLink
          tokens,    \* its rows in vaultbase_auth_tokens, in order of issue
          charges,   \* vaultbase_login_failures, by budget: the calls charged
          factors,   \* the second-factor codes spent
          sessions,  \* the tokens signed: the stamp they carry (rs), their proof
          at, my,    \* where each call is, and what it holds
          cut,       \* history: per kind of credential, the stamp of the last
                     \* finished operation that took the account back
          acted,     \* history: who was let through by which token or code
          compared,  \* history: who compared a code with which token's
          missed     \* history: by budget, the calls that guessed wrong

db == <<user, link, tokens, charges, factors>>
history == <<cut, acted, compared, missed>>
signin == <<db, sessions, at, my, history>>

Blank == [flow |-> "none", tok |-> 0, user |-> [pw |-> 0, verified |-> FALSE, totp |-> FALSE, stamp |-> 0],
          link |-> NoLink, proof |-> NoProof, linking |-> FALSE]

InitSignIn ==
    /\ \E a \in Accounts : user = a.user /\ link = a.link /\ tokens = a.tokens
    /\ charges = [b \in {"password", "otp", "mfa"} |-> {}]
    /\ factors = {}
    /\ sessions = {}
    /\ at = [c \in Calls |-> "start"]
    /\ my = [c \in Calls |-> Blank]
    /\ cut = [k \in {"password", "provider", "code"} |-> 0]
    /\ acted = {}
    /\ compared = {}
    /\ missed = [b \in {"password", "otp", "mfa"} |-> {}]

-----------------------------------------------------------------------------
(* The parts the handlers share. *)

Goto(c, stage) == at' = [at EXCEPT ![c] = stage]
Holds(c, mine) == my' = [my EXCEPT ![c] = mine]
End(c) == Goto(c, "ended") /\ Holds(c, Blank)

Starts(c, flow) == at[c] = "start" /\ flow \in Does[c]

\* The unspent rows of a purpose, as findOneTimeToken's callers accept them.
Open(purpose) == {t \in DOMAIN tokens : tokens[t].purpose = purpose /\ ~tokens[t].used}

Spends(ids) == tokens' = [t \in DOMAIN tokens |->
                            IF t \in ids THEN [tokens[t] EXCEPT !.used = TRUE] ELSE tokens[t]]

\* reserveAttempt inserts the charge, then counts.
Charge(b, c) == charges' = [charges EXCEPT ![b] = @ \cup {c}]
Release(b, c) == charges' = [charges EXCEPT ![b] = @ \ {c}]

\* Mutant: one more than the budget.
OverLate(b) == Cardinality(charges[b]) > MaxCodeFailures + 1

Over(b) == Cardinality(charges[b]) > MaxCodeFailures

Misses(b, c) == missed' = [missed EXCEPT ![b] = @ \cup {c}]

\* spendTokenAttempt, and the comparison it allows.
Spendable(t) == ~tokens[t].used /\ tokens[t].attempts < MaxTokenAttempts

Attempt(t) == tokens' = [tokens EXCEPT ![t].attempts = @ + 1]

\* What a call goes on with once its token is spent.
LetIn(c) ==
    /\ Spends({my[c].tok})
    /\ acted' = acted \cup {<<c, my[c].tok>>}
    /\ UNCHANGED my
    /\ Goto(c, CASE my[c].flow \in {"confirm_reset", "confirm_email", "accept_invite"} -> "stamp"
                 [] my[c].flow \in {"otp_link", "otp_code"} ->
                      IF my[c].user.verified THEN "finish" ELSE "stamp"
                 [] my[c].flow = "merge_confirm" -> IF my[c].user.totp THEN "finish" ELSE "apply"
                 [] my[c].flow = "mfa" -> IF my[c].linking THEN "apply" ELSE "since")

\* Mutant: the row is marked used whether or not somebody was first.
ConsumeAny(c) == /\ at[c] = "consume"
                 /\ LetIn(c)
                 /\ UNCHANGED <<user, link, charges, factors, sessions, cut, compared, missed>>

\* consumeToken: a conditional UPDATE.
Consume(c) ==
    /\ at[c] = "consume"
    /\ IF tokens[my[c].tok].used THEN End(c) /\ UNCHANGED <<tokens, acted>> ELSE LetIn(c)
    /\ UNCHANGED <<user, link, charges, factors, sessions, cut, compared, missed>>

Mint(c, proof) == sessions' = sessions \cup {[rs |-> my[c].user.stamp, proof |-> proof]}

\* The answer of a sign-in: an MFA ticket where the account has TOTP on, a
\* session otherwise.  A claim has just turned TOTP off.
Finish(c) ==
    /\ at[c] = "finish"
    /\ IF my[c].user.totp
       THEN /\ tokens' = Append(tokens, Token("mfa_ticket", my[c].proof, my[c].user.stamp,
                                              my[c].flow = "merge_confirm"))
            /\ UNCHANGED sessions
       ELSE Mint(c, my[c].proof) /\ UNCHANGED tokens
    /\ End(c)
    /\ UNCHANGED <<user, link, charges, factors, history>>

-----------------------------------------------------------------------------
(* Password: /login, /oauth2/merge-confirm and /confirm-email-change *)

\* The token (of the last two) and the account are read and the attempt is
\* charged (reserveLoginAttempt).
Presents(c, flow, tok, proof) ==
    /\ Starts(c, flow)
    /\ Charge("password", c)
    /\ Goto(c, "password")
    /\ Holds(c, [Blank EXCEPT !.flow = flow, !.tok = tok, !.user = user, !.proof = proof])
    /\ UNCHANGED <<user, link, tokens, factors, sessions, history>>

Login(c) == Presents(c, "login", 0, Proof("password", user.pw, TRUE))

MergeConfirm(c) == \E t \in Open("oauth2_merge") :
                      Presents(c, "merge_confirm", t, Proof("password", user.pw, TRUE))

ConfirmEmailChange(c) == \E t \in Open("email_change") :
                            Presents(c, "confirm_email", t, NoProof)

\* The count, and Bun.password.verify with the hash that was read.
Password(c) ==
    /\ at[c] = "password"
    /\ \/ /\ Over("password")
          /\ Release("password", c)
          /\ End(c)
          /\ UNCHANGED missed
       \/ /\ ~Over("password")
          /\ Misses("password", c)
          /\ End(c)
          /\ UNCHANGED charges
       \/ /\ ~Over("password")
          /\ my[c].user.pw # Unusable
          /\ Goto(c, "succeeded")
          /\ UNCHANGED <<my, charges, missed>>
    /\ UNCHANGED <<user, link, tokens, factors, sessions, cut, acted, compared>>

\* loginSucceeded: the account's failures are forgotten.
Succeeded(c) ==
    /\ at[c] = "succeeded"
    /\ charges' = [charges EXCEPT !["password"] = {}]
    /\ Goto(c, IF my[c].flow = "login" THEN "finish" ELSE "consume")
    /\ UNCHANGED <<user, link, tokens, factors, sessions, my, history>>

-----------------------------------------------------------------------------
(* Mailed links and codes: /otp/auth, /login/mfa, /confirm-password-reset,
   /accept-invite *)

Opens(c, flow, tok, stage) ==
    /\ Starts(c, flow)
    /\ Goto(c, stage)
    /\ Holds(c, [Blank EXCEPT !.flow = flow, !.tok = tok])
    /\ UNCHANGED <<db, sessions, history>>

OtpLink(c) == \E t \in Open("otp") : Opens(c, "otp_link", t, "exhausted")
ConfirmReset(c) == \E t \in Open("password_reset") : Opens(c, "confirm_reset", t, "consume")
AcceptInvite(c) == \E t \in Open("invite") : Opens(c, "accept_invite", t, "consume")

OtpCode(c) == /\ Starts(c, "otp_code")
              /\ Charge("otp", c)
              /\ Goto(c, "pick")
              /\ Holds(c, [Blank EXCEPT !.flow = "otp_code"])
              /\ UNCHANGED <<user, link, tokens, factors, sessions, history>>

Newest(t, ids) == t \in ids /\ \A s \in ids : s <= t

\* The count, and the account's newest live code.
Pick(c) ==
    /\ at[c] = "pick"
    /\ IF Over("otp") THEN Release("otp", c) /\ End(c)
       ELSE /\ UNCHANGED charges
            /\ \/ Open("otp") = {} /\ End(c)
               \/ \E t \in Open("otp") : /\ Newest(t, Open("otp"))
                                        /\ Goto(c, "guess") /\ Holds(c, [my[c] EXCEPT !.tok = t])
    /\ UNCHANGED <<user, link, tokens, factors, sessions, history>>

\* spendTokenAttempt, then the comparison; releaseAttempt after a right code.
Guess(c) ==
    /\ at[c] = "guess"
    /\ IF ~Spendable(my[c].tok) THEN End(c) /\ UNCHANGED <<tokens, charges, compared, missed>>
       ELSE /\ Attempt(my[c].tok)
            /\ compared' = compared \cup {<<c, my[c].tok>>}
            /\ \/ Misses("otp", c) /\ End(c) /\ UNCHANGED charges
               \/ Release("otp", c) /\ Goto(c, "account") /\ UNCHANGED <<my, missed>>
    /\ UNCHANGED <<user, link, factors, sessions, cut, acted>>

\* The row of a link is checked as it was read: guesses may have spent it.
Exhausted(c) ==
    /\ at[c] = "exhausted"
    /\ IF tokens[my[c].tok].attempts >= MaxTokenAttempts THEN Spends({my[c].tok}) /\ End(c)
       ELSE Goto(c, "account") /\ UNCHANGED <<tokens, my>>
    /\ UNCHANGED <<user, link, charges, factors, sessions, history>>

\* The account is read before the link is spent.
Account(c) ==
    /\ at[c] = "account"
    /\ Goto(c, "consume")
    /\ Holds(c, [my[c] EXCEPT !.user = user, !.proof = tokens[my[c].tok].proof])
    /\ UNCHANGED <<db, sessions, history>>

\* /login/mfa: the ticket and the account are read, the attempt charged.
Mfa(c) ==
    /\ Starts(c, "mfa")
    /\ user.totp
    /\ \E t \in Open("mfa_ticket") :
         Holds(c, [Blank EXCEPT !.flow = "mfa", !.tok = t, !.user.stamp = tokens[t].seen,
                                !.proof = tokens[t].proof, !.linking = tokens[t].linking])
    /\ Charge("mfa", c)
    /\ Goto(c, "attempt")
    /\ UNCHANGED <<user, link, tokens, factors, sessions, history>>

Attempted(c) ==
    /\ at[c] = "attempt"
    /\ IF Over("mfa") \/ ~Spendable(my[c].tok)
       THEN Release("mfa", c) /\ End(c) /\ UNCHANGED <<tokens, compared>>
       ELSE /\ Attempt(my[c].tok)
            /\ compared' = compared \cup {<<c, my[c].tok>>}
            /\ Goto(c, "factor")
            /\ UNCHANGED <<charges, my>>
    /\ UNCHANGED <<user, link, factors, sessions, cut, acted, missed>>

\* verifyTotpOnce, or the conditional UPDATE that spends a recovery code; a
\* TOTP code sent twice is not counted as a guess.
Factor(c) ==
    /\ at[c] = "factor"
    /\ \/ Misses("mfa", c) /\ End(c) /\ UNCHANGED <<charges, factors, acted>>
       \/ \E f \in Factors :
            IF f \in factors
            THEN Release("mfa", c) /\ End(c) /\ UNCHANGED <<factors, acted, missed>>
            ELSE /\ factors' = factors \cup {f}
                 /\ acted' = acted \cup {<<c, f>>}
                 /\ Release("mfa", c)
                 /\ Goto(c, "consume")
                 /\ UNCHANGED <<my, missed>>
    /\ UNCHANGED <<user, link, tokens, sessions, cut, compared>>

-----------------------------------------------------------------------------
(* Provider links: applyProviderLink, resetSince, removeProviderLink,
   providerSignIn *)

\* The link is made if it is not there, and the address is verified.
Apply(c) ==
    /\ at[c] = "apply"
    /\ link' = IF link = NoLink
               THEN [by |-> c, proof |-> [my[c].proof EXCEPT !.kind = "provider"]] ELSE link
    /\ user' = [user EXCEPT !.verified = TRUE]
    /\ Goto(c, "since")
    /\ UNCHANGED <<tokens, charges, factors, sessions, my, history>>

\* The stamp is read again.
Since(c) ==
    /\ at[c] = "since"
    /\ IF user.stamp = my[c].user.stamp
       THEN Mint(c, my[c].proof) /\ End(c)
       ELSE /\ IF my[c].flow = "merge_confirm" \/ my[c].linking
               THEN Goto(c, "unlink") /\ UNCHANGED my ELSE End(c)
            /\ UNCHANGED sessions
    /\ UNCHANGED <<db, history>>

Unlink(c) == /\ at[c] = "unlink"
             /\ link' = NoLink
             /\ End(c)
             /\ UNCHANGED <<user, tokens, charges, factors, sessions, history>>

\* Whoever made the link has looked for a reset since.
Settled == link.by \notin Calls \/ at[link.by] \notin {"since", "unlink"}

\* A profile whose address is the account's: the link, or a merge token.
Provider(c) ==
    /\ Starts(c, "provider")
    /\ IF link # NoLink
       THEN /\ Goto(c, "linked")
            /\ Holds(c, [Blank EXCEPT !.flow = "provider", !.link = link])
            /\ UNCHANGED tokens
       ELSE /\ tokens' = Append(tokens, Token("oauth2_merge", NoProof, 0, TRUE))
            /\ End(c)
    /\ UNCHANGED <<user, link, charges, factors, sessions, history>>

\* The account, then whether the link is still there.
Linked(c) == /\ at[c] = "linked"
             /\ Goto(c, "still")
             /\ Holds(c, [my[c] EXCEPT !.user = user])
             /\ UNCHANGED <<db, sessions, history>>

Still(c) ==
    /\ at[c] = "still"
    /\ IF link = my[c].link
       THEN /\ Goto(c, "finish")
            /\ Holds(c, [my[c] EXCEPT !.proof = [link.proof EXCEPT !.sure = @ /\ Settled]])
       ELSE End(c)
    /\ UNCHANGED <<db, sessions, history>>

-----------------------------------------------------------------------------
(* Taking the account back: /confirm-password-reset, /confirm-email-change,
   /accept-invite, and the claim of an unverified account in /otp/auth *)

Claims(c) == my[c].flow \in {"otp_link", "otp_code"}

\* The first stamp, written with what the operation changes.
Stamp(c) ==
    /\ at[c] = "stamp"
    /\ LET now == user.stamp + 1 IN
         /\ user' = [pw |-> CASE my[c].flow \in {"confirm_reset", "accept_invite"} -> now
                              [] Claims(c) -> Unusable
                              [] OTHER -> user.pw,
                     verified |-> user.verified \/ my[c].flow # "confirm_reset",
                     totp |-> user.totp /\ ~Claims(c),
                     stamp |-> now]
         /\ IF my[c].flow = "accept_invite"
            THEN End(c)
            ELSE Goto(c, "void") /\ Holds(c, [my[c] EXCEPT !.proof = Proof("code", now, TRUE)])
    /\ UNCHANGED <<link, tokens, charges, factors, sessions, history>>

\* voidAccountTokens.
Void(c) == /\ at[c] = "void"
           /\ Spends(DOMAIN tokens)
           /\ Goto(c, IF my[c].flow = "confirm_email" THEN "restamp" ELSE "links")
           /\ UNCHANGED <<user, link, charges, factors, sessions, my, history>>

Links(c) == /\ at[c] = "links"
            /\ link' = NoLink
            /\ Goto(c, "restamp")
            /\ UNCHANGED <<user, tokens, charges, factors, sessions, my, history>>

Later(a, b) == IF a < b THEN b ELSE a

\* How far an operation that is over takes the account back.
TakesBack(c) == cut' = [k \in DOMAIN cut |->
                          IF my[c].flow = "confirm_email" /\ k # "code" THEN cut[k]
                          ELSE Later(cut[k], my[c].proof.stamp)]

\* Mutant: the second stamp is left out.
NotAgain(c) == /\ at[c] = "restamp"
               /\ TakesBack(c)
               /\ End(c)
               /\ UNCHANGED <<db, sessions, acted, compared, missed>>

\* restampAfterReset; the operation is over.  A claim's session carries this
\* stamp and dates from it.
Restamp(c) ==
    /\ at[c] = "restamp"
    /\ user' = [user EXCEPT !.stamp = @ + 1]
    /\ TakesBack(c)
    /\ IF Claims(c)
       THEN Goto(c, "finish") /\ Holds(c, [my[c] EXCEPT !.user = [user' EXCEPT !.totp = FALSE],
                                                     !.proof = Proof("code", user.stamp + 1, TRUE)])
       ELSE End(c)
    /\ UNCHANGED <<link, tokens, charges, factors, sessions, acted, compared, missed>>

-----------------------------------------------------------------------------
(* Mailing a code or a link: issueOtpAndSend, issueAndSend,
   /request-email-change *)

\* The row is there before it is known whether it may be sent.
Issue(c) ==
    /\ \E purpose \in {"otp", "password_reset", "email_change"} :
         /\ Starts(c, purpose)
         /\ tokens' = Append(tokens, Token(purpose, Proof("code", user.stamp, TRUE), 0, FALSE))
         /\ Holds(c, [Blank EXCEPT !.flow = purpose, !.tok = Len(tokens) + 1])
    /\ Goto(c, "rank")
    /\ UNCHANGED <<user, link, charges, factors, sessions, history>>

\* emailAllowed: whether a row of the purpose was issued before it in the last
\* minute.  Any row before it may be that old or older.
Earlier(t) == \E s \in 1 .. t - 1 : tokens[s].purpose = tokens[t].purpose

Rank(c) ==
    /\ at[c] = "rank"
    /\ \/ /\ Earlier(my[c].tok)
          /\ tokens' = [tokens EXCEPT ![my[c].tok].purpose = "deleted"]
          /\ End(c)
       \/ my[c].flow = "password_reset" /\ End(c) /\ UNCHANGED tokens
       \/ my[c].flow # "password_reset" /\ Goto(c, "supersede") /\ UNCHANGED <<tokens, my>>
       \/ my[c].flow = "email_change" /\ Spends({my[c].tok}) /\ End(c)   \* the address is taken
    /\ UNCHANGED <<user, link, charges, factors, sessions, history>>

\* Mutant: whatever was asked for, codes are voided.
SupersedeCodes(c) == /\ at[c] = "supersede"
                     /\ Spends(Open("otp") \ {my[c].tok})
                     /\ End(c)
                     /\ UNCHANGED <<user, link, charges, factors, sessions, history>>

\* The new code voids the rest.
Supersede(c) == /\ at[c] = "supersede"
                /\ Spends(Open(my[c].flow) \ {my[c].tok})
                /\ End(c)
                /\ UNCHANGED <<user, link, charges, factors, sessions, history>>

-----------------------------------------------------------------------------
Step(c) ==
    \/ Login(c) \/ MergeConfirm(c) \/ ConfirmEmailChange(c) \/ Password(c) \/ Succeeded(c)
    \/ OtpLink(c) \/ ConfirmReset(c) \/ AcceptInvite(c) \/ OtpCode(c) \/ Pick(c) \/ Guess(c)
    \/ Exhausted(c) \/ Account(c) \/ Mfa(c) \/ Attempted(c) \/ Factor(c)
    \/ Apply(c) \/ Since(c) \/ Unlink(c) \/ Provider(c) \/ Linked(c) \/ Still(c)
    \/ Stamp(c) \/ Void(c) \/ Links(c) \/ Restamp(c)
    \/ Issue(c) \/ Rank(c) \/ Supersede(c) \/ Consume(c) \/ Finish(c)

SignInStep == \E c \in Calls : Step(c)

-----------------------------------------------------------------------------
(* Properties *)

\* Whatever is sent twice or raced, a mailed link or code, an MFA ticket, a
\* merge token, a TOTP step or a recovery code lets one call through.
\* (consumeToken and verifyTotpOnce, api/auth.ts)
SpentOnce == \A x, y \in acted : x[2] = y[2] => x = y

\* Parallel guesses count: no more than MaxCodeFailures codes of an account
\* are ever guessed wrong over all its codes and tickets, and no more than
\* MaxTokenAttempts compared with one of them.  (reserveAttempt in
\* core/security.ts, spendTokenAttempt in api/auth.ts)
GuessesBounded ==
    /\ \A b \in {"otp", "mfa"} : Cardinality(missed[b]) <= MaxCodeFailures
    /\ \A t \in DOMAIN tokens : Cardinality({c \in Calls : <<c, t>> \in compared}) <= MaxTokenAttempts

\* Two requests for a code at once leave one live, once both have voided the
\* rest; so do two for an email change.  (issueOtpAndSend, api/auth.ts:548)
OneLiveCode ==
    \A purpose \in {"otp", "email_change"} : \A s, t \in Open(purpose) :
       s # t => \E c \in Calls : at[c] \in {"rank", "supersede"} /\ my[c].tok \in {s, t}

\* A password reset or the claim of an unverified account takes the account
\* back: once it is over, no live session rests on a password, a code or a
\* provider link from before it, however the sign-in interleaved with it; an
\* email change does that for codes.  Not so for a session from a provider link whose maker had
\* not yet looked for a reset.  (restampAfterReset and resetSince, api/auth.ts)
TakenBack == \A s \in sessions :
                s.rs = user.stamp /\ s.proof.sure => s.proof.stamp >= cut[s.proof.kind]

=============================================================================
