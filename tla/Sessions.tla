------------------------------- MODULE Sessions -------------------------------
(***************************************************************************)
(* Refreshing and signing out (src/src/api/auth.ts, /auth/refresh and      *)
(* /auth/logout, with core/sec.ts): the tokens that descend from one       *)
(* sign-in of one account.                                                 *)
(*                                                                         *)
(* A refresh leaves a row saying how to mint the replacement, revokes the  *)
(* token it replaces and mints; whoever finds the token already revoked    *)
(* mints the same replacement from the row.  Every statement on the        *)
(* database is a step of its own: requests run on any server, and may die  *)
(* between two statements, after which the client asks again.              *)
(*                                                                         *)
(* All tokens of the sign-in carry the account's reset stamp as it was     *)
(* read then (rs), so a reset ends them all.  Their lifetime is left out:  *)
(* nothing expires but the row, and time is counted in periods of more     *)
(* than REFRESH_REPEAT_SECONDS.  The row is pruned a day after it expired, *)
(* when no request that knew it is left.                                   *)
(***************************************************************************)
EXTENDS Naturals, FiniteSets

CONSTANTS Refreshes,  \* the requests to /auth/refresh
          Logouts,    \* the requests to /auth/logout
          MaxClock,   \* bound: how many times REFRESH_REPEAT_SECONDS pass
          None

Requests == Refreshes \cup Logouts

\* A token's jti: the sign-in's, one a refresh put into its row, or one a
\* refresh that found no row minted by itself.
Jtis == [by : Refreshes \cup {None}, how : {"signin", "row", "own"}]

ASSUME SessionsAssumption == /\ Refreshes \cap Logouts = {}
                             /\ None \notin Requests \cup Jtis
                             /\ MaxClock \in Nat

First == [by |-> None, how |-> "signin"]
Noted(c) == [by |-> c, how |-> "row"]
Own(c) == [by |-> c, how |-> "own"]

NoRow == [jti |-> None, asof |-> 0]
Rows == [jti : Jtis, asof : 0..MaxClock] \cup {NoRow}

VARIABLES clock,
          moved,    \* the account's reset stamp is not the tokens' any more
          revoked,  \* vaultbase_token_revocations
          row,      \* refresh_rotation:<jti>, dated by its writer's check
          parent,   \* history: the token each minted token replaced
          handed,   \* the tokens a client holds
          where,    \* where each request is
          tok,      \* the token it carries
          since,    \* when it was checked (checkedAt)
          found,    \* the replacement it read from a row
          beside    \* history: sign-outs with a refresh of their token beside them

tables == <<moved, revoked, row, parent, handed>>
session == <<clock, tables, where, tok, since, found, beside>>

InitSessions ==
    /\ clock = 0
    /\ moved = FALSE
    /\ revoked = {}
    /\ row = [j \in Jtis |-> NoRow]
    /\ parent = [j \in Jtis |-> None]
    /\ handed = {First}
    /\ where = [c \in Requests |-> "start"]
    /\ tok = [c \in Requests |-> First]
    /\ since = [c \in Requests |-> 0]
    /\ found = [c \in Requests |-> None]
    /\ beside = {}

Moves(c, stage) == where' = [where EXCEPT ![c] = stage]

\* A step of c that only moves on.
Reads(c, stage) == Moves(c, stage) /\ UNCHANGED <<clock, tables, tok, since, found>>

\* c revokes the token j.
Revokes(c, j) == /\ revoked' = revoked \cup {j}
                 /\ UNCHANGED <<clock, moved, row, parent, handed, tok, since, found>>

\* c writes its token's row.
Writes(c, r) == /\ row' = [row EXCEPT ![tok[c]] = r]
                /\ UNCHANGED <<clock, moved, revoked, parent, handed, tok, since, found>>

\* c looks its token's row up.
Finds(c) == /\ found' = [found EXCEPT ![c] = row[tok[c]].jti]
            /\ UNCHANGED <<clock, tables, tok, since>>

\* c sends a client the token j.
Answer(c, j) == /\ handed' = handed \cup {j}
                /\ parent' = [parent EXCEPT ![j] = tok[c]]
                /\ Moves(c, "ok")
                /\ UNCHANGED <<clock, moved, revoked, row, tok, since, found>>

Done(c) == where[c] \in {"ok", "refused", "dead"}

\* A request arrives with a token a client holds; verifyAuthToken looks for a
\* revocation first.
Arrives(c, valid, revokedAlready) ==
    /\ where[c] = "start"
    /\ \E j \in handed :
         /\ tok' = [tok EXCEPT ![c] = j]
         /\ Moves(c, IF j \in revoked THEN revokedAlready ELSE valid)
    /\ since' = [since EXCEPT ![c] = clock]
    /\ UNCHANGED <<clock, tables, found>>

-----------------------------------------------------------------------------
(* /auth/refresh *)

Verify(c) == Arrives(c, "principal", "repeat")

\* Then it reads the account's stamp.
Principal(c) == where[c] = "principal" /\ Reads(c, IF moved THEN "repeat" ELSE "note")

\* The row, unless there is one already.
Note(c) == /\ where[c] = "note"
           /\ Writes(c, IF row[tok[c]] = NoRow THEN [jti |-> Noted(c), asof |-> since[c]]
                        ELSE row[tok[c]])
           /\ Moves(c, "revoke")

\* The token being replaced is revoked; whoever comes second repeats.
Revoke(c) == /\ where[c] = "revoke"
             /\ Revokes(c, tok[c])
             /\ Moves(c, IF tok[c] \in revoked THEN "repeat" ELSE "stamp")

\* A reset the check could not see: the row is dropped.
ReadStamp(c) == where[c] = "stamp" /\ Reads(c, IF moved THEN "drop" ELSE "mint")

Drop(c) == /\ where[c] = "drop"
           /\ Writes(c, NoRow)
           /\ Moves(c, "refused")

\* Mutant: the winner mints what it meant to, whatever the row says.
MintOwn(c) == where[c] = "mint" /\ Answer(c, Noted(c))

\* The winner mints what the row says, or a token of its own when the row is
\* gone or had expired when its own token was checked.
MintReplacement(c) == /\ where[c] = "mint"
                      /\ Answer(c, IF row[tok[c]] # NoRow /\ row[tok[c]].asof >= since[c]
                                   THEN row[tok[c]].jti ELSE Own(c))

\* REFRESH_REPEAT_SECONDS have not passed since the refresh of j.
Repeats(j) == row[j] # NoRow /\ row[j].asof = clock

\* repeatRefresh: the replacement the row says, if it still verifies.
Repeat(c) == /\ where[c] = "repeat"
             /\ Finds(c)
             /\ Moves(c, IF Repeats(tok[c]) THEN "again" ELSE "refused")

Again(c) == /\ where[c] = "again"
            /\ Reads(c, IF found[c] \in revoked THEN "refused" ELSE "same")

Same(c) == /\ where[c] = "same"
           /\ IF moved THEN Reads(c, "refused") ELSE Answer(c, found[c])

-----------------------------------------------------------------------------
(* /auth/logout *)

\* The token is revoked, if it verifies; the stamp is not asked.
SignOut(c) == Arrives(c, "out", "find")

Out(c) == /\ where[c] = "out"
          /\ Revokes(c, tok[c])
          /\ Moves(c, "find")

\* Mutant: only the token itself is signed out.
FindNothing(c) == where[c] = "find" /\ Reads(c, "ok")

\* endRefreshedReplacement: the token a refresh put in its place goes too.
Find(c) == /\ where[c] = "find"
           /\ Finds(c)
           /\ Moves(c, IF row[tok[c]] = NoRow THEN "ok" ELSE "end")

EndReplacement(c) == /\ where[c] = "end"
                     /\ Revokes(c, found[c])
                     /\ Moves(c, "forget")

Forget(c) == /\ where[c] = "forget"
             /\ Writes(c, NoRow)
             /\ Moves(c, "ok")

-----------------------------------------------------------------------------
(* Around them. *)

\* A password reset or a sign-out of all sessions stamps the account.
Reset == /\ ~moved
         /\ moved' = TRUE
         /\ UNCHANGED <<clock, revoked, row, parent, handed, where, tok, since, found>>

\* REFRESH_REPEAT_SECONDS pass.
Tick == /\ clock < MaxClock
        /\ clock' = clock + 1
        /\ UNCHANGED <<tables, where, tok, since, found>>

\* The server dies, or the request is cut off.
Dies(c) == ~Done(c) /\ where[c] # "start" /\ Reads(c, "dead")

\* A request is between two of its statements.
UnderWay(c) == ~Done(c) /\ where[c] # "start"

Beside(o) == UnderWay(o) /\ \E r \in Refreshes : UnderWay(r) /\ tok[r] = tok[o]

SessionStep ==
    /\ \/ \E c \in Refreshes : \/ Verify(c) \/ Principal(c) \/ Note(c) \/ Revoke(c)
                               \/ ReadStamp(c) \/ Drop(c) \/ MintReplacement(c)
                               \/ Repeat(c) \/ Again(c) \/ Same(c)
       \/ \E c \in Logouts : SignOut(c) \/ Out(c) \/ Find(c) \/ EndReplacement(c) \/ Forget(c)
       \/ \E c \in Requests : Dies(c)
       \/ Reset \/ Tick
    /\ beside' = beside \cup {o \in Logouts : Beside(o)'}

-----------------------------------------------------------------------------

\* A token that verifies.
Live(j) == ~moved /\ j \notin revoked

\* Some sign-out carried the token j.
SignedOut(j) == \E c \in Logouts : where[c] # "start" /\ tok[c] = j

\* However many tabs refresh one token, on however many servers, retrying and
\* dying on the way, one session follows it (auth.ts:2657-2663): the token is
\* ended before a replacement is handed out, and two live replacements are the
\* same.  Unless it was signed out meanwhile, which a refresh under way does not
\* look for again before it mints.
OneReplacement ==
    \A j, k \in handed :
        /\ parent[j] # None => ~Live(parent[j])
        /\ parent[j] # None /\ parent[j] = parent[k] /\ Live(j) /\ Live(k)
           /\ ~SignedOut(parent[j]) => j = k

\* A sign-out of a token no refresh of which runs beside a sign-out ends that
\* session for good: once it is answered, neither its token nor the replacement
\* every refresh of it shares is live (auth.ts:587-588, 1711-1713), whichever of
\* them died or asks again.
SignOutSticks ==
    \A c \in Logouts :
       where[c] = "ok" /\ (\A o \in Logouts : tok[o] = tok[c] => o \notin beside) =>
        \A j \in handed :
            j = tok[c] \/ (parent[j] = tok[c] /\ j.how = "row") => ~Live(j)

=============================================================================
