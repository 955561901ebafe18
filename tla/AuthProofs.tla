------------------------------ MODULE AuthProofs ------------------------------
(***************************************************************************)
(* Proofs about Auth, for any number of calls and requests, any accounts   *)
(* and any budgets.  First the tokens of one sign-in (Sessions), then the  *)
(* ways into the account (SignIn): a step of one leaves the other alone.   *)
(***************************************************************************)
EXTENDS Auth, FiniteSetTheorems, TLAPS

-----------------------------------------------------------------------------
(* Sessions: what the requests and the rows are. *)

RefreshStages == {"start", "principal", "note", "revoke", "stamp", "drop", "mint",
                  "repeat", "again", "same", "ok", "refused", "dead"}
LogoutStages == {"start", "out", "find", "end", "forget", "ok", "dead"}

SessionTypes ==
    /\ clock \in Nat /\ moved \in BOOLEAN
    /\ revoked \subseteq Jtis /\ handed \subseteq Jtis
    /\ row \in [Jtis -> [jti : Jtis \cup {None}, asof : Nat]]
    /\ parent \in [Jtis -> Jtis \cup {None}]
    /\ where \in [Requests -> RefreshStages \cup LogoutStages]
    /\ \A c \in Refreshes : where[c] \in RefreshStages
    /\ \A c \in Logouts : where[c] \in LogoutStages
    /\ tok \in [Requests -> Jtis] /\ since \in [Requests -> Nat]
    /\ found \in [Requests -> Jtis \cup {None}]
    /\ \A c \in Requests : since[c] <= clock
    /\ \A o \in Logouts : where[o] \in {"end", "forget"} => found[o] \in Jtis

Started(c) == where[c] # "start"

\* j is what a refresh of the token p put into its row.
FromRow(j, p) == \E x \in Refreshes : j = Noted(x) /\ tok[x] = p /\ Started(x)

\* The refresh c has found its token revoked, or has revoked it.
Repeating(c) == where[c] \in {"again", "same"}
Won(c) == where[c] \in {"stamp", "drop", "mint"} \/ Own(c) \in handed
Behind(c) == Won(c) \/ where[c] \in {"repeat", "again", "same"}

RowsFrom == \A p \in Jtis : row[p] # NoRow => FromRow(row[p].jti, p)
FoundFrom == \A c \in Refreshes : Repeating(c) => FromRow(found[c], tok[c])
HandedFrom == \A j \in handed : \/ j = First /\ parent[j] = None
                                \/ parent[j] \in Jtis /\ FromRow(j, parent[j])
                                \/ \E x \in Refreshes : j = Own(x) /\ tok[x] = parent[j] /\ Started(x)

\* What is replaced has ended, and one refresh of it did that.
Replaced == /\ \A c \in Refreshes : Behind(c) => tok[c] \in revoked \/ moved
            /\ \A c \in Refreshes : Won(c) => tok[c] \in revoked
            /\ \A j \in handed : parent[j] # None => parent[j] \in revoked \/ moved
            /\ \A c \in Refreshes : where[c] = "drop" => moved
OneWinner == \A c, d \in Refreshes : Won(c) /\ Won(d) /\ tok[c] = tok[d] => c = d

\* Nothing has been reset, and no refresh of p ran beside a sign-out of it.
Quiet(p) == ~moved /\ \A o \in Logouts : tok[o] = p => o \notin beside

BesideKept == /\ beside \subseteq Logouts
              /\ \A o \in beside : Started(o)
              /\ \A o \in Logouts \ beside : ~Beside(o)

FoundIsRow == \A c \in Refreshes : Repeating(c) /\ Quiet(tok[c]) =>
                 row[tok[c]] # NoRow /\ found[c] = row[tok[c]].jti
HandedIsRow == \A j \in handed : j.how = "row" /\ Quiet(parent[j]) =>
                 j \in revoked \/ (row[parent[j]] # NoRow /\ row[parent[j]].jti = j)
SignsOut == \A o \in Logouts :
    /\ where[o] \in {"find", "end", "forget", "ok"} => tok[o] \in revoked
    /\ where[o] = "forget" => found[o] \in revoked
    /\ where[o] \in {"end", "forget"} /\ Quiet(tok[o]) =>
         row[tok[o]] = NoRow \/ row[tok[o]].jti = found[o]
    /\ where[o] = "ok" /\ Quiet(tok[o]) =>
         /\ row[tok[o]] = NoRow
         /\ \A c \in Refreshes : tok[c] = tok[o] /\ UnderWay(c) => where[c] = "repeat"

\* Nothing has been reset, and nobody signed p out: its row stays.
Undisturbed(p) == ~moved /\ ~SignedOut(p)

RowStays == /\ \A c \in Refreshes : where[c] \in {"revoke", "stamp", "mint"} /\ Undisturbed(tok[c]) =>
                 row[tok[c]] # NoRow
            /\ \A j \in handed : j.how = "row" /\ Undisturbed(parent[j]) => row[parent[j]] # NoRow
            /\ \A c \in Refreshes : Own(c) \in handed /\ Undisturbed(tok[c]) =>
                 row[tok[c]] # NoRow /\ row[tok[c]].asof < since[c]
\* A replacement is repeated from the row only if the winner would mint it.
RowAgrees ==
    \A w \in Refreshes :
       /\ Won(w) /\ Undisturbed(tok[w])
       /\ \/ \E c \in Refreshes : Repeating(c) /\ tok[c] = tok[w]
          \/ \E j \in handed : j.how = "row" /\ parent[j] = tok[w]
       => since[w] <= row[tok[w]].asof

SessionInv == /\ SessionTypes
              /\ RowsFrom /\ FoundFrom /\ HandedFrom
              /\ Replaced /\ OneWinner
              /\ BesideKept /\ FoundIsRow /\ HandedIsRow /\ SignsOut
              /\ RowStays /\ RowAgrees

LEMMA JtisDiffer ==
    /\ First \in Jtis /\ None \notin Jtis /\ First.how = "signin"
    /\ \A x \in Refreshes : Noted(x) \in Jtis /\ Own(x) \in Jtis
    /\ \A x \in Refreshes : Noted(x).how = "row" /\ Own(x).how = "own"
    /\ \A x, y \in Refreshes : Noted(x) = Noted(y) => x = y
    /\ \A x, y \in Refreshes : Own(x) = Own(y) => x = y
    /\ \A x, y \in Refreshes : Noted(x) # Own(y) /\ Noted(x) # First /\ Own(x) # First
BY SessionsAssumption DEF Jtis, First, Noted, Own

\* A row that was written is not NoRow.
LEMMA RowsDiffer ==
    /\ NoRow \in [jti : Jtis \cup {None}, asof : Nat] /\ NoRow.jti = None
    /\ \A j \in Jtis, n \in Nat : /\ [jti |-> j, asof |-> n] \in [jti : Jtis \cup {None}, asof : Nat]
                                  /\ [jti |-> j, asof |-> n] # NoRow
                                  /\ [jti |-> j, asof |-> n].jti = j
                                  /\ [jti |-> j, asof |-> n].asof = n
BY JtisDiffer DEF NoRow

LEMMA InitSession == InitSessions => SessionInv
<1> SUFFICES ASSUME InitSessions PROVE SessionInv
  OBVIOUS
<1>1. SessionTypes
  <2>1. Refreshes \subseteq Requests /\ Logouts \subseteq Requests
    BY DEF Requests
  <2>2. /\ where \in [Requests -> RefreshStages \cup LogoutStages]
        /\ \A c \in Requests : where[c] = "start"
    BY DEF InitSessions, RefreshStages
  <2>3. row \in [Jtis -> [jti : Jtis \cup {None}, asof : Nat]]
    BY RowsDiffer DEF InitSessions
  <2>4. /\ \A c \in Refreshes : where[c] \in RefreshStages
        /\ \A c \in Logouts : where[c] \in LogoutStages /\ where[c] \notin {"end", "forget"}
    BY <2>1, <2>2 DEF RefreshStages, LogoutStages
  <2>5. /\ parent \in [Jtis -> Jtis \cup {None}] /\ tok \in [Requests -> Jtis]
        /\ since \in [Requests -> Nat] /\ found \in [Requests -> Jtis \cup {None}]
        /\ \A c \in Requests : since[c] <= clock
    BY JtisDiffer DEF InitSessions
  <2>6. clock \in Nat /\ moved \in BOOLEAN /\ revoked \subseteq Jtis /\ handed \subseteq Jtis
    BY JtisDiffer DEF InitSessions
  <2> QED BY <2>2, <2>3, <2>4, <2>5, <2>6 DEF SessionTypes
<1>2. RowsFrom /\ FoundFrom /\ HandedFrom
  BY JtisDiffer DEF InitSessions, RowsFrom, FoundFrom, HandedFrom, Repeating, Requests
<1>3. Replaced /\ OneWinner
  BY JtisDiffer DEF InitSessions, Replaced, OneWinner, Behind, Won, Requests
<1>4. BesideKept
  BY DEF InitSessions, BesideKept, Started, Beside, UnderWay, Requests
<1>5. FoundIsRow /\ HandedIsRow /\ SignsOut
  BY JtisDiffer DEF InitSessions, FoundIsRow, HandedIsRow, SignsOut, Repeating, Requests
<1>6. RowStays /\ RowAgrees
  BY JtisDiffer DEF InitSessions, RowStays, RowAgrees, Won, Requests
<1> QED BY <1>1, <1>2, <1>3, <1>4, <1>5, <1>6 DEF SessionInv


LEMMA SessionTypesKept ==
    ASSUME SessionInv, SessionStep
    PROVE  SessionTypes'
<1>1. ASSUME NEW c \in Refreshes, Verify(c) PROVE SessionTypes'
  <2>1. PICK j \in handed, stage \in {"principal", "repeat"} :
            tok' = [tok EXCEPT ![c] = j] /\ where' = [where EXCEPT ![c] = stage]
    BY <1>1 DEF Verify, Arrives, Moves
  <2>2. since' = [since EXCEPT ![c] = clock] /\ UNCHANGED <<clock, tables, found>>
    BY <1>1 DEF Verify, Arrives
  <2>3. SessionTypes /\ j \in Jtis
    BY DEF SessionInv, SessionTypes
  <2>4. /\ clock' \in Nat /\ moved' \in BOOLEAN /\ revoked' \subseteq Jtis /\ handed' \subseteq Jtis
        /\ row' \in [Jtis -> [jti : Jtis \cup {None}, asof : Nat]]
        /\ parent' \in [Jtis -> Jtis \cup {None}] /\ found' \in [Requests -> Jtis \cup {None}]
    BY <2>2, <2>3 DEF SessionTypes, tables
  <2>5. /\ where' \in [Requests -> RefreshStages \cup LogoutStages]
        /\ \A d \in Refreshes : where'[d] \in RefreshStages
        /\ \A d \in Logouts : where'[d] \in LogoutStages
    <3>1. stage \in RefreshStages
      BY DEF RefreshStages
    <3> QED BY <2>1, <2>3, <3>1, SessionsAssumption DEF SessionTypes, Requests
  <2>6. tok' \in [Requests -> Jtis] /\ since' \in [Requests -> Nat]
    BY <2>1, <2>2, <2>3 DEF SessionTypes, Requests
  <2>7. \A d \in Requests : since'[d] <= clock'
    BY <2>2, <2>3 DEF SessionTypes, Requests
  <2>8. \A o \in Logouts : where'[o] \in {"end", "forget"} => found'[o] \in Jtis
    BY <2>1, <2>2, <2>3 DEF SessionTypes, Requests
  <2> QED BY <2>4, <2>5, <2>6, <2>7, <2>8 DEF SessionTypes
<1>2. ASSUME NEW c \in Refreshes, Principal(c) PROVE SessionTypes'
    BY <1>2, JtisDiffer, RowsDiffer DEF SessionInv, SessionTypes, RefreshStages, LogoutStages, Requests, Rows, Principal, Reads, Moves, tables
<1>3. ASSUME NEW c \in Refreshes, Note(c) PROVE SessionTypes'
    BY <1>3, JtisDiffer, RowsDiffer DEF SessionInv, SessionTypes, RefreshStages, LogoutStages, Requests, Rows, Note, Writes, Moves
<1>4. ASSUME NEW c \in Refreshes, Revoke(c) PROVE SessionTypes'
    BY <1>4, JtisDiffer, RowsDiffer DEF SessionInv, SessionTypes, RefreshStages, LogoutStages, Requests, Rows, Revoke, Revokes, Moves
<1>5. ASSUME NEW c \in Refreshes, ReadStamp(c) PROVE SessionTypes'
    BY <1>5, JtisDiffer, RowsDiffer DEF SessionInv, SessionTypes, RefreshStages, LogoutStages, Requests, Rows, ReadStamp, Reads, Moves, tables
<1>6. ASSUME NEW c \in Refreshes, Drop(c) PROVE SessionTypes'
    BY <1>6, JtisDiffer, RowsDiffer DEF SessionInv, SessionTypes, RefreshStages, LogoutStages, Requests, Rows, Drop, Writes, Moves
<1>7. ASSUME NEW c \in Refreshes, MintReplacement(c) PROVE SessionTypes'
  <2>1. row[tok[c]] # NoRow => row[tok[c]].jti \in Jtis
    BY JtisDiffer DEF SessionInv, SessionTypes, RowsFrom, FromRow, Requests
  <2>2. PICK j \in Jtis : Answer(c, j)
    BY <1>7, <2>1, JtisDiffer DEF MintReplacement
  <2> QED BY <2>2, JtisDiffer DEF SessionInv, SessionTypes, RefreshStages, LogoutStages, Requests, Answer, Moves
<1>8. ASSUME NEW c \in Refreshes, Repeat(c) PROVE SessionTypes'
    BY <1>8, JtisDiffer, RowsDiffer DEF SessionInv, SessionTypes, RefreshStages, LogoutStages, Requests, Rows, Repeat, Repeats, Finds, Moves, tables
<1>9. ASSUME NEW c \in Refreshes, Again(c) PROVE SessionTypes'
    BY <1>9, JtisDiffer, RowsDiffer DEF SessionInv, SessionTypes, RefreshStages, LogoutStages, Requests, Rows, Again, Reads, Moves, tables
<1>10. ASSUME NEW c \in Refreshes, Same(c) PROVE SessionTypes'
  <2>1. found[c] \in Jtis
    BY <1>10, JtisDiffer DEF Same, SessionInv, FoundFrom, FromRow, Repeating
  <2>2. CASE moved
    BY <1>10, <2>2 DEF SessionInv, SessionTypes, RefreshStages, LogoutStages, Requests, Same, Reads, Moves, tables
  <2>3. CASE ~moved
    <3> Answer(c, found[c])
      BY <1>10, <2>3 DEF Same
    <3> QED BY <2>1, JtisDiffer DEF SessionInv, SessionTypes, RefreshStages, LogoutStages, Requests, Answer, Moves
  <2> QED BY <2>2, <2>3
<1>11. ASSUME NEW c \in Logouts, SignOut(c) PROVE SessionTypes'
  <2>1. PICK j \in handed, stage \in {"out", "find"} :
            tok' = [tok EXCEPT ![c] = j] /\ where' = [where EXCEPT ![c] = stage]
    BY <1>11 DEF SignOut, Arrives, Moves
  <2>2. since' = [since EXCEPT ![c] = clock] /\ UNCHANGED <<clock, tables, found>>
    BY <1>11 DEF SignOut, Arrives
  <2>3. SessionTypes /\ j \in Jtis
    BY DEF SessionInv, SessionTypes
  <2>4. /\ clock' \in Nat /\ moved' \in BOOLEAN /\ revoked' \subseteq Jtis /\ handed' \subseteq Jtis
        /\ row' \in [Jtis -> [jti : Jtis \cup {None}, asof : Nat]]
        /\ parent' \in [Jtis -> Jtis \cup {None}] /\ found' \in [Requests -> Jtis \cup {None}]
    BY <2>2, <2>3 DEF SessionTypes, tables
  <2>5. /\ where' \in [Requests -> RefreshStages \cup LogoutStages]
        /\ \A d \in Refreshes : where'[d] \in RefreshStages
        /\ \A d \in Logouts : where'[d] \in LogoutStages
    <3>1. stage \in LogoutStages
      BY DEF LogoutStages
    <3> QED BY <2>1, <2>3, <3>1, SessionsAssumption DEF SessionTypes, Requests
  <2>6. tok' \in [Requests -> Jtis] /\ since' \in [Requests -> Nat]
    BY <2>1, <2>2, <2>3 DEF SessionTypes, Requests
  <2>7. \A d \in Requests : since'[d] <= clock'
    BY <2>2, <2>3 DEF SessionTypes, Requests
  <2>8. \A o \in Logouts : where'[o] \in {"end", "forget"} => found'[o] \in Jtis
    BY <2>1, <2>2, <2>3 DEF SessionTypes, Requests
  <2> QED BY <2>4, <2>5, <2>6, <2>7, <2>8 DEF SessionTypes
<1>12. ASSUME NEW c \in Logouts, Out(c) PROVE SessionTypes'
    BY <1>12, JtisDiffer, RowsDiffer DEF SessionInv, SessionTypes, RefreshStages, LogoutStages, Requests, Rows, Out, Revokes, Moves
<1>13. ASSUME NEW c \in Logouts, Find(c) PROVE SessionTypes'
  <2>1. row[tok[c]] # NoRow => row[tok[c]].jti \in Jtis
    BY JtisDiffer DEF SessionInv, SessionTypes, RowsFrom, FromRow, Requests
  <2>2. row[tok[c]].jti \in Jtis \cup {None}
    BY DEF SessionInv, SessionTypes, Requests
  <2> QED BY <1>13, <2>1, <2>2 DEF SessionInv, SessionTypes, RefreshStages, LogoutStages, Requests, Find, Finds, Moves, tables
<1>14. ASSUME NEW c \in Logouts, EndReplacement(c) PROVE SessionTypes'
  <2>1. found[c] \in Jtis
    BY <1>14 DEF EndReplacement, SessionInv, SessionTypes
  <2> QED BY <1>14, <2>1 DEF SessionInv, SessionTypes, RefreshStages, LogoutStages, Requests, EndReplacement, Revokes, Moves
<1>15. ASSUME NEW c \in Logouts, Forget(c) PROVE SessionTypes'
    BY <1>15, JtisDiffer, RowsDiffer DEF SessionInv, SessionTypes, RefreshStages, LogoutStages, Requests, Rows, Forget, Writes, Moves
<1>16. ASSUME NEW c \in Requests, Dies(c) PROVE SessionTypes'
    BY <1>16, JtisDiffer, RowsDiffer DEF SessionInv, SessionTypes, RefreshStages, LogoutStages, Requests, Rows, Dies, Done, Reads, Moves, tables
<1>17. ASSUME Reset PROVE SessionTypes'
    BY <1>17, JtisDiffer, RowsDiffer DEF SessionInv, SessionTypes, RefreshStages, LogoutStages, Requests, Rows, Reset
<1>18. ASSUME Tick PROVE SessionTypes'
    BY <1>18, JtisDiffer, RowsDiffer DEF SessionInv, SessionTypes, RefreshStages, LogoutStages, Requests, Rows, Tick, tables
<1>q. QED BY <1>1, <1>2, <1>3, <1>4, <1>5, <1>6, <1>7, <1>8, <1>9, <1>10, <1>11, <1>12, <1>13, <1>14, <1>15, <1>16, <1>17, <1>18 DEF SessionStep

-----------------------------------------------------------------------------
(* What a step may do, told by the variable it changes. *)

\* A request keeps its token, and nothing that has ended comes back.
Onward == /\ moved => moved'
          /\ revoked \subseteq revoked' /\ handed \subseteq handed'
          /\ \A d \in Requests : Started(d) => Started(d)' /\ tok'[d] = tok[d] /\ since'[d] = since[d]

RefreshMoved(d) ==
    \/ where'[d] = where[d] /\ found'[d] = found[d]
    \/ where'[d] \in {"ok", "refused", "dead"}
    \/ where[d] = "start" /\ where'[d] = "principal" /\ tok'[d] \notin revoked
    \/ where[d] = "principal" /\ where'[d] = "note"
    \/ where'[d] = "repeat" /\ (tok'[d] \in revoked \/ moved)
    \/ where[d] = "note" /\ where'[d] = "revoke" /\ row'[tok[d]] # NoRow
    \/ /\ where[d] = "revoke" /\ where'[d] = "stamp" /\ tok[d] \notin revoked
       /\ where' = [where EXCEPT ![d] = "stamp"]
       /\ revoked' = revoked \cup {tok[d]} /\ UNCHANGED <<row, handed, parent>>
    \/ where[d] = "stamp" /\ where'[d] = "drop" /\ moved
    \/ where[d] = "stamp" /\ where'[d] = "mint"
    \/ /\ where[d] = "repeat" /\ where'[d] = "again" /\ Repeats(tok[d])
       /\ where' = [where EXCEPT ![d] = "again"]
       /\ found'[d] = row[tok[d]].jti /\ UNCHANGED <<row, handed, parent>>
    \/ where[d] = "again" /\ where'[d] = "same" /\ found'[d] = found[d]

LogoutMoved(o) ==
    \/ where'[o] = where[o] /\ found'[o] = found[o]
    \/ where'[o] \in {"out", "dead"}
    \/ where'[o] = "find" /\ tok'[o] \in revoked'
    \/ where[o] = "find" /\ where'[o] = "end" /\ found'[o] = row[tok[o]].jti /\ row' = row
    \/ /\ where[o] = "find" /\ where'[o] = "ok" /\ row[tok[o]] = NoRow /\ row' = row
       /\ \A d \in Refreshes : where'[d] = where[d] /\ tok'[d] = tok[d]
    \/ where[o] = "end" /\ where'[o] = "forget" /\ found'[o] = found[o] /\ found[o] \in revoked' /\ row' = row
    \/ /\ where[o] = "forget" /\ where'[o] = "ok" /\ row'[tok[o]] = NoRow
       /\ \A d \in Refreshes : where'[d] = where[d] /\ tok'[d] = tok[d]

RowMoved ==
    \/ row' = row
    \/ \E c \in Refreshes : /\ where[c] = "note" /\ where'[c] = "revoke" /\ row[tok[c]] = NoRow
                            /\ row' = [row EXCEPT ![tok[c]] = [jti |-> Noted(c), asof |-> since[c]]]
                            /\ UNCHANGED <<handed, parent, revoked>>
    \/ \E c \in Refreshes : where[c] = "drop" /\ row' = [row EXCEPT ![tok[c]] = NoRow]
    \/ \E o \in Logouts : /\ where[o] = "forget" /\ row' = [row EXCEPT ![tok[o]] = NoRow]
                          /\ UNCHANGED <<handed, parent, revoked>>

Gives(c, j) == /\ handed' = handed \cup {j} /\ parent' = [parent EXCEPT ![j] = tok[c]]
               /\ where' = [where EXCEPT ![c] = "ok"] /\ UNCHANGED <<row, revoked>>

HandedMoved ==
    \/ UNCHANGED <<handed, parent>>
    \/ \E c \in Refreshes : /\ where[c] = "mint" /\ row[tok[c]] # NoRow /\ row[tok[c]].asof >= since[c]
                            /\ Gives(c, row[tok[c]].jti)
    \/ \E c \in Refreshes : /\ where[c] = "mint" /\ ~(row[tok[c]] # NoRow /\ row[tok[c]].asof >= since[c])
                            /\ Gives(c, Own(c))
    \/ \E c \in Refreshes : where[c] = "same" /\ ~moved /\ Gives(c, found[c])

Moved == /\ Onward /\ RowMoved /\ HandedMoved
         /\ \A d \in Refreshes : RefreshMoved(d)
         /\ \A o \in Logouts : LogoutMoved(o)

LEMMA StepMoves ==
    ASSUME SessionInv, SessionStep
    PROVE  Moved
<1>1. ASSUME NEW c \in Refreshes, Verify(c) PROVE Moved
    BY <1>1, SessionsAssumption, RowsDiffer, JtisDiffer DEF Moved, Onward, RowMoved, HandedMoved, RefreshMoved, LogoutMoved, Gives, SessionInv, SessionTypes, Started, Requests, RefreshStages, LogoutStages, Verify, Arrives, Moves, tables
<1>2. ASSUME NEW c \in Refreshes, Principal(c) PROVE Moved
    BY <1>2, SessionsAssumption, RowsDiffer, JtisDiffer DEF Moved, Onward, RowMoved, HandedMoved, RefreshMoved, LogoutMoved, Gives, SessionInv, SessionTypes, Started, Requests, RefreshStages, LogoutStages, Principal, Reads, Moves, tables
<1>3. ASSUME NEW c \in Refreshes, Note(c) PROVE Moved
  <2>1. /\ c \in Requests /\ tok' = tok /\ since' = since /\ clock' = clock /\ moved' = moved
        /\ \A d \in Requests : d # c => where'[d] = where[d] /\ found'[d] = found[d]
    BY <1>3 DEF SessionInv, SessionTypes, Requests, Note, Writes, Moves
  <2>2. Onward
    BY <1>3, <2>1 DEF Onward, Started, SessionInv, SessionTypes, Requests, RefreshStages, LogoutStages, Note, Writes, Moves
  <2>3. RowMoved
    BY <1>3, <2>1 DEF RowMoved, SessionInv, SessionTypes, Requests, Note, Writes, Moves
  <2>4. HandedMoved
    BY <1>3, <2>1 DEF HandedMoved, Gives, SessionInv, SessionTypes, Requests, Note, Writes, Moves
  <2>5. RefreshMoved(c)
    BY <1>3, <2>1, RowsDiffer, JtisDiffer DEF RefreshMoved, SessionInv, SessionTypes, Requests, Note, Writes, Moves
  <2>6. \A d \in Refreshes : RefreshMoved(d)
    BY <2>1, <2>5 DEF RefreshMoved, Requests
  <2>7. \A o \in Logouts : LogoutMoved(o)
    BY <2>1, SessionsAssumption DEF LogoutMoved, Requests
  <2> QED BY <2>2, <2>3, <2>4, <2>6, <2>7 DEF Moved
<1>4. ASSUME NEW c \in Refreshes, Revoke(c) PROVE Moved
  <2>1. /\ c \in Requests /\ tok' = tok /\ since' = since /\ clock' = clock /\ moved' = moved
        /\ \A d \in Requests : d # c => where'[d] = where[d] /\ found'[d] = found[d]
    BY <1>4 DEF SessionInv, SessionTypes, Requests, Revoke, Revokes, Moves
  <2>2. Onward
    BY <1>4, <2>1 DEF Onward, Started, SessionInv, SessionTypes, Requests, RefreshStages, LogoutStages, Revoke, Revokes, Moves
  <2>3. RowMoved
    BY <1>4, <2>1 DEF RowMoved, SessionInv, SessionTypes, Requests, Revoke, Revokes, Moves
  <2>4. HandedMoved
    BY <1>4, <2>1 DEF HandedMoved, Gives, SessionInv, SessionTypes, Requests, Revoke, Revokes, Moves
  <2>5. RefreshMoved(c)
    BY <1>4, <2>1, RowsDiffer, JtisDiffer DEF RefreshMoved, SessionInv, SessionTypes, Requests, Revoke, Revokes, Moves
  <2>6. \A d \in Refreshes : RefreshMoved(d)
    BY <2>1, <2>5 DEF RefreshMoved, Requests
  <2>7. \A o \in Logouts : LogoutMoved(o)
    BY <2>1, SessionsAssumption DEF LogoutMoved, Requests
  <2> QED BY <2>2, <2>3, <2>4, <2>6, <2>7 DEF Moved
<1>5. ASSUME NEW c \in Refreshes, ReadStamp(c) PROVE Moved
    BY <1>5, SessionsAssumption, RowsDiffer, JtisDiffer DEF Moved, Onward, RowMoved, HandedMoved, RefreshMoved, LogoutMoved, Gives, SessionInv, SessionTypes, Started, Requests, RefreshStages, LogoutStages, ReadStamp, Reads, Moves, tables
<1>6. ASSUME NEW c \in Refreshes, Drop(c) PROVE Moved
    BY <1>6, SessionsAssumption, RowsDiffer, JtisDiffer DEF Moved, Onward, RowMoved, HandedMoved, RefreshMoved, LogoutMoved, Gives, SessionInv, SessionTypes, Started, Requests, RefreshStages, LogoutStages, Drop, Writes, Moves
<1>7. ASSUME NEW c \in Refreshes, MintReplacement(c) PROVE Moved
  <2>1. /\ c \in Requests /\ tok' = tok /\ since' = since /\ clock' = clock /\ moved' = moved
        /\ \A d \in Requests : d # c => where'[d] = where[d] /\ found'[d] = found[d]
    BY <1>7 DEF SessionInv, SessionTypes, Requests, MintReplacement, Answer, Moves
  <2>2. Onward
    BY <1>7, <2>1 DEF Onward, Started, SessionInv, SessionTypes, Requests, RefreshStages, LogoutStages, MintReplacement, Answer, Moves
  <2>3. RowMoved
    BY <1>7, <2>1 DEF RowMoved, SessionInv, SessionTypes, Requests, MintReplacement, Answer, Moves
  <2>4. HandedMoved
    BY <1>7, <2>1 DEF HandedMoved, Gives, SessionInv, SessionTypes, Requests, MintReplacement, Answer, Moves
  <2>5. RefreshMoved(c)
    BY <1>7, <2>1, RowsDiffer, JtisDiffer DEF RefreshMoved, SessionInv, SessionTypes, Requests, MintReplacement, Answer, Moves
  <2>6. \A d \in Refreshes : RefreshMoved(d)
    BY <2>1, <2>5 DEF RefreshMoved, Requests
  <2>7. \A o \in Logouts : LogoutMoved(o)
    BY <2>1, SessionsAssumption DEF LogoutMoved, Requests
  <2> QED BY <2>2, <2>3, <2>4, <2>6, <2>7 DEF Moved
<1>8. ASSUME NEW c \in Refreshes, Repeat(c) PROVE Moved
  <2>1. /\ c \in Requests /\ tok' = tok /\ since' = since /\ clock' = clock /\ moved' = moved
        /\ \A d \in Requests : d # c => where'[d] = where[d] /\ found'[d] = found[d]
    BY <1>8 DEF SessionInv, SessionTypes, Requests, Repeat, Repeats, Finds, Moves, tables
  <2>2. Onward
    BY <1>8, <2>1 DEF Onward, Started, SessionInv, SessionTypes, Requests, RefreshStages, LogoutStages, Repeat, Repeats, Finds, Moves, tables
  <2>3. RowMoved
    BY <1>8, <2>1 DEF RowMoved, SessionInv, SessionTypes, Requests, Repeat, Repeats, Finds, Moves, tables
  <2>4. HandedMoved
    BY <1>8, <2>1 DEF HandedMoved, Gives, SessionInv, SessionTypes, Requests, Repeat, Repeats, Finds, Moves, tables
  <2>5. RefreshMoved(c)
    BY <1>8, <2>1, RowsDiffer, JtisDiffer DEF RefreshMoved, SessionInv, SessionTypes, Requests, Repeat, Repeats, Finds, Moves, tables
  <2>6. \A d \in Refreshes : RefreshMoved(d)
    BY <2>1, <2>5 DEF RefreshMoved, Requests
  <2>7. \A o \in Logouts : LogoutMoved(o)
    BY <2>1, SessionsAssumption DEF LogoutMoved, Requests
  <2> QED BY <2>2, <2>3, <2>4, <2>6, <2>7 DEF Moved
<1>9. ASSUME NEW c \in Refreshes, Again(c) PROVE Moved
    BY <1>9, SessionsAssumption, RowsDiffer, JtisDiffer DEF Moved, Onward, RowMoved, HandedMoved, RefreshMoved, LogoutMoved, Gives, SessionInv, SessionTypes, Started, Requests, RefreshStages, LogoutStages, Again, Reads, Moves, tables
<1>10. ASSUME NEW c \in Refreshes, Same(c) PROVE Moved
  <2>1. /\ c \in Requests /\ tok' = tok /\ since' = since /\ clock' = clock /\ moved' = moved
        /\ \A d \in Requests : d # c => where'[d] = where[d] /\ found'[d] = found[d]
    BY <1>10 DEF SessionInv, SessionTypes, Requests, Same, Reads, Answer, Moves, tables
  <2>2. Onward
    BY <1>10, <2>1 DEF Onward, Started, SessionInv, SessionTypes, Requests, RefreshStages, LogoutStages, Same, Reads, Answer, Moves, tables
  <2>3. RowMoved
    BY <1>10, <2>1 DEF RowMoved, SessionInv, SessionTypes, Requests, Same, Reads, Answer, Moves, tables
  <2>4. HandedMoved
    BY <1>10, <2>1 DEF HandedMoved, Gives, SessionInv, SessionTypes, Requests, Same, Reads, Answer, Moves, tables
  <2>5. RefreshMoved(c)
    BY <1>10, <2>1, RowsDiffer, JtisDiffer DEF RefreshMoved, SessionInv, SessionTypes, Requests, Same, Reads, Answer, Moves, tables
  <2>6. \A d \in Refreshes : RefreshMoved(d)
    BY <2>1, <2>5 DEF RefreshMoved, Requests
  <2>7. \A o \in Logouts : LogoutMoved(o)
    BY <2>1, SessionsAssumption DEF LogoutMoved, Requests
  <2> QED BY <2>2, <2>3, <2>4, <2>6, <2>7 DEF Moved
<1>11. ASSUME NEW c \in Logouts, SignOut(c) PROVE Moved
    BY <1>11, SessionsAssumption, RowsDiffer, JtisDiffer DEF Moved, Onward, RowMoved, HandedMoved, RefreshMoved, LogoutMoved, Gives, SessionInv, SessionTypes, Started, Requests, RefreshStages, LogoutStages, SignOut, Arrives, Moves, tables
<1>12. ASSUME NEW c \in Logouts, Out(c) PROVE Moved
    BY <1>12, SessionsAssumption, RowsDiffer, JtisDiffer DEF Moved, Onward, RowMoved, HandedMoved, RefreshMoved, LogoutMoved, Gives, SessionInv, SessionTypes, Started, Requests, RefreshStages, LogoutStages, Out, Revokes, Moves
<1>13. ASSUME NEW c \in Logouts, Find(c) PROVE Moved
    BY <1>13, SessionsAssumption, RowsDiffer, JtisDiffer DEF Moved, Onward, RowMoved, HandedMoved, RefreshMoved, LogoutMoved, Gives, SessionInv, SessionTypes, Started, Requests, RefreshStages, LogoutStages, Find, Finds, Moves, tables
<1>14. ASSUME NEW c \in Logouts, EndReplacement(c) PROVE Moved
    BY <1>14, SessionsAssumption, RowsDiffer, JtisDiffer DEF Moved, Onward, RowMoved, HandedMoved, RefreshMoved, LogoutMoved, Gives, SessionInv, SessionTypes, Started, Requests, RefreshStages, LogoutStages, EndReplacement, Revokes, Moves
<1>15. ASSUME NEW c \in Logouts, Forget(c) PROVE Moved
    BY <1>15, SessionsAssumption, RowsDiffer, JtisDiffer DEF Moved, Onward, RowMoved, HandedMoved, RefreshMoved, LogoutMoved, Gives, SessionInv, SessionTypes, Started, Requests, RefreshStages, LogoutStages, Forget, Writes, Moves
<1>16. ASSUME NEW c \in Requests, Dies(c) PROVE Moved
    BY <1>16, SessionsAssumption, RowsDiffer, JtisDiffer DEF Moved, Onward, RowMoved, HandedMoved, RefreshMoved, LogoutMoved, Gives, SessionInv, SessionTypes, Started, Requests, RefreshStages, LogoutStages, Dies, Done, Reads, Moves, tables
<1>17. ASSUME Reset PROVE Moved
    BY <1>17, SessionsAssumption, RowsDiffer, JtisDiffer DEF Moved, Onward, RowMoved, HandedMoved, RefreshMoved, LogoutMoved, Gives, SessionInv, SessionTypes, Started, Requests, RefreshStages, LogoutStages, Reset
<1>18. ASSUME Tick PROVE Moved
    BY <1>18, SessionsAssumption, RowsDiffer, JtisDiffer DEF Moved, Onward, RowMoved, HandedMoved, RefreshMoved, LogoutMoved, Gives, SessionInv, SessionTypes, Started, Requests, RefreshStages, LogoutStages, Tick, tables
<1>q. QED BY <1>1, <1>2, <1>3, <1>4, <1>5, <1>6, <1>7, <1>8, <1>9, <1>10, <1>11, <1>12, <1>13, <1>14, <1>15, <1>16, <1>17, <1>18 DEF SessionStep

LEMMA SessionsGoOn ==
    ASSUME SessionInv, SessionStep
    PROVE  /\ Onward
           /\ \A j \in Jtis, p \in Jtis : FromRow(j, p) => FromRow(j, p)'
           /\ \A p \in Jtis : Quiet(p)' => Quiet(p)
           /\ \A p \in Jtis : Undisturbed(p)' => Undisturbed(p)
           /\ \A p \in Jtis : (Undisturbed(p) => Quiet(p)) /\ (Undisturbed(p)' => Quiet(p)')
           /\ BesideKept'
<1>1. Onward
  BY StepMoves DEF Moved
<1>2. Refreshes \subseteq Requests /\ Logouts \subseteq Requests
  BY DEF Requests
<1>3. beside' = beside \cup {o \in Logouts : Beside(o)'} /\ BesideKept
  BY DEF SessionStep, SessionInv
<1>4. ASSUME NEW j \in Jtis, NEW p \in Jtis, FromRow(j, p) PROVE FromRow(j, p)'
  BY <1>1, <1>2, <1>4 DEF FromRow, Onward
<1>5. ASSUME NEW p \in Jtis, Quiet(p)' PROVE Quiet(p)
  <2>1. ~moved
    BY <1>1, <1>5 DEF Quiet, Onward
  <2>2. ASSUME NEW o \in Logouts, tok[o] = p PROVE o \notin beside
    BY <1>1, <1>2, <1>3, <1>5, <2>2 DEF Quiet, Onward, BesideKept
  <2> QED BY <2>1, <2>2 DEF Quiet
<1>6. ASSUME NEW p \in Jtis, Undisturbed(p)' PROVE Undisturbed(p)
  BY <1>1, <1>2, <1>6 DEF Undisturbed, SignedOut, Onward, Started
<1>7. ASSUME NEW p \in Jtis, Undisturbed(p) PROVE Quiet(p)
  BY <1>3, <1>7 DEF Undisturbed, SignedOut, Quiet, BesideKept, Started
<1>8. BesideKept'
  <2>1. \A o \in Logouts : Beside(o)' => Started(o)'
    BY DEF Beside, UnderWay, Started
  <2> QED BY <1>1, <1>2, <1>3, <2>1 DEF BesideKept, Onward
<1>9. ASSUME NEW p \in Jtis, Undisturbed(p)' PROVE Quiet(p)'
  BY <1>8, <1>9 DEF Undisturbed, SignedOut, Quiet, BesideKept, Started
<1> QED BY <1>1, <1>4, <1>5, <1>6, <1>7, <1>8, <1>9

\* Where rows, repeated replacements and handed tokens come from.
LEMMA OriginsKept ==
    ASSUME SessionInv, SessionStep
    PROVE  RowsFrom' /\ FoundFrom' /\ HandedFrom'
<1>1. Moved /\ Onward /\ Refreshes \subseteq Requests
  BY StepMoves DEF Moved, Requests
<1>2. SessionTypes /\ RowsFrom /\ FoundFrom /\ HandedFrom
  BY DEF SessionInv
<1>3. \A j \in Jtis, p \in Jtis : FromRow(j, p) => FromRow(j, p)'
  BY SessionsGoOn
<1>4. ASSUME NEW p \in Jtis, row'[p] # NoRow PROVE FromRow(row[p].jti, p)' 
  <2>1. CASE row'[p] = row[p]
    <3>1. row[p] # NoRow /\ FromRow(row[p].jti, p)
      BY <1>2, <1>4, <2>1 DEF RowsFrom
    <3>2. row[p].jti \in Jtis
      BY <3>1, JtisDiffer DEF FromRow
    <3> QED BY <1>3, <2>1, <3>1, <3>2 DEF FromRow
  <2>2. CASE row'[p] # row[p]
    <3>1. PICK c \in Refreshes : /\ where[c] = "note" /\ p = tok[c]
                                 /\ row' = [row EXCEPT ![tok[c]] = [jti |-> Noted(c), asof |-> since[c]]]
      BY <1>1, <1>2, <1>4, <2>2 DEF Moved, RowMoved, SessionTypes
    <3>2. row'[p].jti = Noted(c) /\ tok'[c] = p /\ Started(c)'
      BY <1>1, <1>2, <3>1 DEF Onward, Started, SessionTypes
    <3> QED BY <3>2 DEF FromRow
  <2> QED BY <2>1, <2>2
<1>5. RowsFrom'
  BY <1>4 DEF RowsFrom
<1>6. ASSUME NEW c \in Refreshes, Repeating(c)' PROVE FromRow(found[c], tok[c])'
  <2>1. RefreshMoved(c) /\ tok[c] \in Jtis /\ where[c] \in RefreshStages
    BY <1>1, <1>2 DEF Moved, SessionTypes
  <2>2. CASE Repeating(c) /\ found'[c] = found[c]
    <3>1. FromRow(found[c], tok[c]) /\ tok'[c] = tok[c]
      BY <1>1, <1>2, <2>2 DEF FoundFrom, Repeating, Onward, Started
    <3>2. found[c] \in Jtis
      BY <3>1, JtisDiffer DEF FromRow
    <3> QED BY <1>3, <2>1, <2>2, <3>1, <3>2 DEF FromRow
  <2>3. CASE where[c] = "repeat" /\ Repeats(tok[c]) /\ found'[c] = row[tok[c]].jti
    <3>1. FromRow(row[tok[c]].jti, tok[c]) /\ tok'[c] = tok[c]
      BY <1>1, <1>2, <2>1, <2>3 DEF RowsFrom, Repeats, Onward, Started
    <3>2. row[tok[c]].jti \in Jtis
      BY <3>1, JtisDiffer DEF FromRow
    <3> QED BY <1>3, <2>1, <2>3, <3>1, <3>2 DEF FromRow
  <2> QED BY <1>6, <2>1, <2>2, <2>3 DEF RefreshMoved, Repeating
<1>7. FoundFrom'
  BY <1>6 DEF FoundFrom
<1>8. ASSUME NEW j \in handed'
      PROVE  \/ j = First /\ parent'[j] = None
             \/ parent'[j] \in Jtis /\ FromRow(j, parent[j])'
             \/ \E x \in Refreshes : j = Own(x) /\ tok'[x] = parent'[j] /\ Started(x)'
  <2>1. CASE j \in handed /\ parent'[j] = parent[j]
    <3>1. \/ j = First /\ parent[j] = None
          \/ parent[j] \in Jtis /\ FromRow(j, parent[j])
          \/ \E x \in Refreshes : j = Own(x) /\ tok[x] = parent[j] /\ Started(x)
      BY <1>2, <2>1 DEF HandedFrom
    <3>2. j \in Jtis
      BY <1>2, <2>1 DEF SessionTypes
    <3>3. CASE parent[j] \in Jtis /\ FromRow(j, parent[j])
      BY <1>3, <2>1, <3>2, <3>3 DEF FromRow
    <3>4. CASE \E x \in Refreshes : j = Own(x) /\ tok[x] = parent[j] /\ Started(x)
      BY <1>1, <2>1, <3>4 DEF Onward
    <3> QED BY <2>1, <3>1, <3>3, <3>4
  <2>2. ASSUME NEW c \in Refreshes, where[c] = "mint", row[tok[c]] # NoRow, Gives(c, row[tok[c]].jti),
               j = row[tok[c]].jti
        PROVE  parent'[j] \in Jtis /\ FromRow(j, parent[j])'
    <3>1. FromRow(j, tok[c]) /\ tok[c] \in Jtis
      BY <1>1, <1>2, <2>2 DEF RowsFrom, SessionTypes
    <3>2. j \in Jtis
      BY <3>1, JtisDiffer DEF FromRow
    <3>3. parent'[j] = tok[c]
      BY <1>2, <2>2, <3>2 DEF Gives, SessionTypes
    <3> QED BY <1>3, <3>1, <3>2, <3>3 DEF FromRow
  <2>3. ASSUME NEW c \in Refreshes, where[c] = "mint", Gives(c, Own(c)), j = Own(c)
        PROVE  \E x \in Refreshes : j = Own(x) /\ tok'[x] = parent'[j] /\ Started(x)'
    BY <1>1, <1>2, <2>3, JtisDiffer DEF Gives, SessionTypes, Onward, Started
  <2>4. ASSUME NEW c \in Refreshes, where[c] = "same", Gives(c, found[c]), j = found[c]
        PROVE  parent'[j] \in Jtis /\ FromRow(j, parent[j])'
    <3>1. FromRow(j, tok[c]) /\ tok[c] \in Jtis
      BY <1>1, <1>2, <2>4 DEF FoundFrom, SessionTypes, Repeating
    <3>2. j \in Jtis
      BY <3>1, JtisDiffer DEF FromRow
    <3>3. parent'[j] = tok[c]
      BY <1>2, <2>4, <3>2 DEF Gives, SessionTypes
    <3> QED BY <1>3, <3>1, <3>2, <3>3 DEF FromRow
  <2>5. CASE UNCHANGED <<handed, parent>>
    BY <2>1, <2>5
  <2>6. ASSUME NEW c \in Refreshes, NEW k, Gives(c, k), j # k PROVE j \in handed /\ parent'[j] = parent[j]
    BY <1>2, <2>6 DEF Gives, SessionTypes
  <2> QED BY <1>1, <2>1, <2>2, <2>3, <2>4, <2>5, <2>6 DEF Moved, HandedMoved
<1>9. HandedFrom'
  BY <1>8 DEF HandedFrom
<1> QED BY <1>5, <1>7, <1>9

\* Who has won has ended its token just now or had won before.
Wins(c) == /\ where[c] = "revoke" /\ where' = [where EXCEPT ![c] = "stamp"]
           /\ tok[c] \notin revoked /\ tok[c] \in revoked' /\ UNCHANGED <<row, handed, parent>>

LEMMA WinnersWere ==
    ASSUME SessionInv, SessionStep, NEW c \in Refreshes, Won(c)'
    PROVE  Started(c) /\ tok'[c] = tok[c] /\ since'[c] = since[c] /\ (Won(c) \/ Wins(c))
<1>1. Moved /\ Onward /\ Refreshes \subseteq Requests /\ RefreshMoved(c)
  BY StepMoves DEF Moved, Requests
<1>2. SessionTypes /\ RowsFrom /\ FoundFrom /\ HandedFrom
  BY DEF SessionInv
<1>3. Won(c) => Started(c)
  <2>1. ASSUME Own(c) \in handed PROVE Started(c)
    BY <1>2, <2>1, JtisDiffer DEF HandedFrom, FromRow
  <2> QED BY <2>1 DEF Won, Started
<1>4. CASE where'[c] \in {"stamp", "drop", "mint"}
  BY <1>1, <1>2, <1>4 DEF RefreshMoved, Won, Wins, Onward, Started
<1>5. CASE Own(c) \in handed'
  <2>1. CASE UNCHANGED <<handed, parent>>
    BY <1>1, <1>3, <1>5, <2>1 DEF Won, Onward
  <2>2. ASSUME NEW d \in Refreshes, row[tok[d]] # NoRow, Gives(d, row[tok[d]].jti)
        PROVE  Won(c)
    <3>1. FromRow(row[tok[d]].jti, tok[d])
      BY <1>1, <1>2, <2>2 DEF RowsFrom, SessionTypes
    <3> QED BY <1>5, <2>2, <3>1, JtisDiffer DEF Gives, FromRow, Won
  <2>3. ASSUME NEW d \in Refreshes, where[d] = "mint", Gives(d, Own(d))
        PROVE  Won(c)
    BY <1>5, <2>3, JtisDiffer DEF Gives, Won
  <2>4. ASSUME NEW d \in Refreshes, where[d] = "same", Gives(d, found[d])
        PROVE  Won(c)
    <3>1. FromRow(found[d], tok[d])
      BY <1>2, <2>4 DEF FoundFrom, Repeating
    <3> QED BY <1>5, <2>4, <3>1, JtisDiffer DEF Gives, FromRow, Won
  <2>5. Won(c)
    BY <1>1, <1>5, <2>1, <2>2, <2>3, <2>4 DEF Moved, HandedMoved, Won
  <2> QED BY <1>1, <1>3, <2>5 DEF Onward
<1> QED BY <1>4, <1>5 DEF Won

LEMMA ReplacedKept ==
    ASSUME SessionInv, SessionStep
    PROVE  Replaced' /\ OneWinner'
<1>1. Moved /\ Onward /\ Refreshes \subseteq Requests
  BY StepMoves DEF Moved, Requests
<1>2. SessionTypes /\ Replaced /\ OneWinner
  BY DEF SessionInv
<1>3. ASSUME NEW c \in Refreshes, Won(c)' PROVE tok'[c] \in revoked'
  <2>1. tok'[c] = tok[c] /\ (Won(c) \/ Wins(c))
    BY <1>3, WinnersWere
  <2>2. Won(c) => tok[c] \in revoked
    BY <1>2 DEF Replaced
  <2> QED BY <1>1, <2>1, <2>2 DEF Wins, Onward
<1>4. ASSUME NEW c \in Refreshes, where'[c] \in {"repeat", "again", "same"}
      PROVE  tok'[c] \in revoked' \/ moved'
  <2>1. RefreshMoved(c)
    BY <1>1 DEF Moved
  <2>2. CASE where[c] \in {"repeat", "again", "same"}
    <3>1. tok'[c] = tok[c] /\ (tok[c] \in revoked \/ moved)
      BY <1>1, <1>2, <2>2 DEF Replaced, Behind, Onward, Started
    <3> QED BY <1>1, <3>1 DEF Onward
  <2>3. CASE where'[c] = "repeat" /\ (tok'[c] \in revoked \/ moved)
    BY <1>1, <2>3 DEF Onward
  <2> QED BY <1>4, <2>1, <2>2, <2>3 DEF RefreshMoved
<1>5. ASSUME NEW c \in Refreshes, where'[c] = "drop" PROVE moved'
  <2>1. RefreshMoved(c)
    BY <1>1 DEF Moved
  <2>2. moved
    BY <1>2, <1>5, <2>1 DEF RefreshMoved, Replaced
  <2> QED BY <1>1, <2>2 DEF Onward
<1>6. ASSUME NEW j \in handed', parent'[j] # None PROVE parent'[j] \in revoked' \/ moved'
  <2>1. CASE j \in handed /\ parent'[j] = parent[j]
    BY <1>1, <1>2, <1>6, <2>1 DEF Replaced, Onward
  <2>2. ASSUME NEW c \in Refreshes, where[c] \in {"mint", "same"}, NEW k, Gives(c, k)
        PROVE  parent'[j] \in revoked' \/ moved'
    <3>1. CASE j # k
      BY <1>2, <2>1, <2>2, <3>1 DEF Gives, SessionTypes
    <3>2. CASE j = k
      <4>1. j \in Jtis
        BY SessionTypesKept DEF SessionTypes
      <4>2. parent'[j] = tok[c]
        BY <1>2, <2>2, <3>2, <4>1 DEF Gives, SessionTypes
      <4>3. tok[c] \in revoked \/ moved
        BY <1>2, <2>2 DEF Replaced, Behind, Won
      <4> QED BY <1>1, <4>2, <4>3 DEF Onward
    <3> QED BY <3>1, <3>2
  <2> QED BY <1>1, <2>1, <2>2 DEF Moved, HandedMoved
<1>7. Replaced'
  BY <1>3, <1>4, <1>5, <1>6 DEF Replaced, Behind
<1>8. ASSUME NEW c \in Refreshes, NEW d \in Refreshes, Won(c)', Won(d)', tok'[c] = tok'[d] PROVE c = d
  <2>1. tok[c] = tok[d] /\ (Won(c) \/ Wins(c)) /\ (Won(d) \/ Wins(d))
    BY <1>8, WinnersWere
  <2>2. CASE Won(c) /\ Won(d)
    BY <1>2, <2>1, <2>2 DEF OneWinner
  <2>3. CASE Wins(c) /\ Wins(d)
    BY <1>1, <1>2, <2>3 DEF Wins, SessionTypes
  <2>4. (Won(c) => tok[c] \in revoked) /\ (Won(d) => tok[d] \in revoked)
    BY <1>2 DEF Replaced
  <2> QED BY <2>1, <2>2, <2>3, <2>4 DEF Wins
<1>9. OneWinner'
  BY <1>8 DEF OneWinner
<1> QED BY <1>7, <1>9

-----------------------------------------------------------------------------
(* While nothing is reset and no refresh of p runs beside a sign-out of it, *)
(* its row is written once and forgotten when its replacement has ended.    *)

LEMMA QuietRows ==
    ASSUME SessionInv, SessionStep, NEW p \in Jtis, Quiet(p)'
    PROVE  \/ row'[p] = row[p]
           \/ row[p] = NoRow /\ \E c \in Refreshes : where[c] = "note" /\ tok[c] = p
           \/ row'[p] = NoRow /\ UNCHANGED <<handed, parent, revoked>>
              /\ \E o \in Logouts : where[o] = "forget" /\ tok[o] = p
<1>1. Moved /\ SessionTypes /\ Replaced /\ Quiet(p)
  BY StepMoves, SessionsGoOn DEF SessionInv
<1>2. \A c \in Refreshes : where[c] # "drop"
  BY <1>1 DEF Quiet, Replaced
<1> QED BY <1>1, <1>2 DEF Moved, RowMoved, SessionTypes, Requests

LEMMA QuietRequests ==
    ASSUME SessionInv, NEW o \in Logouts, NEW c \in Refreshes, tok[o] = tok[c], Quiet(tok[o])
    PROVE  ~(UnderWay(o) /\ UnderWay(c))
BY DEF SessionInv, BesideKept, Quiet, Beside

LEMMA FoundKept ==
    ASSUME SessionInv, SessionStep
    PROVE  FoundIsRow'
<1>1. Moved /\ Onward /\ Refreshes \subseteq Requests /\ SessionTypes /\ FoundIsRow
  BY StepMoves DEF Moved, Requests, SessionInv
<1> SUFFICES ASSUME NEW c \in Refreshes, Repeating(c)', Quiet(tok[c])'
             PROVE  row'[tok'[c]] # NoRow /\ found'[c] = row'[tok'[c]].jti
  BY DEF FoundIsRow
<1>2. Started(c) /\ RefreshMoved(c)
  BY <1>1 DEF Moved, RefreshMoved, Repeating, Started
<1>3. tok'[c] = tok[c] /\ tok[c] \in Jtis
  BY <1>1, <1>2 DEF Onward, SessionTypes
<1>4. Quiet(tok[c]) /\ Quiet(tok[c])'
  BY <1>3, SessionsGoOn DEF Quiet
<1>5. CASE Repeating(c) /\ found'[c] = found[c]
  <2>1. row[tok[c]] # NoRow /\ found[c] = row[tok[c]].jti
    BY <1>1, <1>4, <1>5 DEF FoundIsRow
  <2>2. ASSUME NEW o \in Logouts, where[o] = "forget", tok[o] = tok[c] PROVE FALSE
    BY <1>4, <1>5, <2>2, QuietRequests DEF UnderWay, Done, Repeating
  <2>3. row'[tok[c]] = row[tok[c]]
    <3>1. PICK p \in Jtis : p = tok[c]
      BY <1>3
    <3>2. Quiet(p)'
      BY <1>3, <3>1 DEF Quiet
    <3> QED BY <2>1, <2>2, <3>1, <3>2, QuietRows
  <2> QED BY <1>3, <1>5, <2>1, <2>3
<1>6. CASE where[c] = "repeat" /\ Repeats(tok[c]) /\ found'[c] = row[tok[c]].jti /\ row' = row
  BY <1>3, <1>6 DEF Repeats
<1> QED BY <1>2, <1>5, <1>6 DEF RefreshMoved, Repeating

LEMMA HandedKept ==
    ASSUME SessionInv, SessionStep
    PROVE  HandedIsRow'
<1>1. Moved /\ Onward /\ SessionTypes /\ HandedIsRow /\ SignsOut /\ HandedFrom
  BY StepMoves DEF Moved, SessionInv
<1> SUFFICES ASSUME NEW j \in handed', j.how = "row", Quiet(parent[j])'
             PROVE  j \in revoked' \/ (row'[parent'[j]] # NoRow /\ row'[parent'[j]].jti = j)
  BY DEF HandedIsRow
<1>2. CASE j \in handed /\ parent'[j] = parent[j]
  <2>1. parent[j] \in Jtis
    BY <1>1, <1>2, JtisDiffer DEF HandedFrom
  <2>2. PICK p \in Jtis : p = parent[j]
    BY <2>1
  <2>3. Quiet(p)'
    BY <1>2, <2>2 DEF Quiet
  <2>4. Quiet(p)
    BY <2>3, SessionsGoOn
  <2>5. j \in revoked \/ (row[p] # NoRow /\ row[p].jti = j)
    BY <1>1, <1>2, <2>2, <2>4 DEF HandedIsRow, Quiet
  <2>6. ASSUME NEW o \in Logouts, where[o] = "forget", tok[o] = p, row[p] # NoRow, row[p].jti = j
        PROVE  j \in revoked
    BY <1>1, <2>4, <2>6 DEF SignsOut
  <2> QED BY <1>1, <1>2, <2>2, <2>3, <2>5, <2>6, QuietRows DEF Onward
<1>3. ASSUME NEW c \in Refreshes, row[tok[c]] # NoRow, Gives(c, row[tok[c]].jti), j = row[tok[c]].jti
      PROVE  row'[parent'[j]] # NoRow /\ row'[parent'[j]].jti = j
  <2>1. j \in Jtis
    BY SessionTypesKept DEF SessionTypes
  <2> QED BY <1>1, <1>3, <2>1 DEF Gives, SessionTypes
<1>4. ASSUME NEW c \in Refreshes, where[c] = "same", Gives(c, found[c]), j = found[c]
      PROVE  row'[parent'[j]] # NoRow /\ row'[parent'[j]].jti = j
  <2>1. j \in Jtis
    BY SessionTypesKept DEF SessionTypes
  <2>2. parent'[j] = tok[c] /\ row' = row
    BY <1>1, <1>4, <2>1 DEF Gives, SessionTypes
  <2>3. tok[c] \in Jtis
    BY <1>1 DEF SessionTypes, Requests
  <2>4. PICK p \in Jtis : p = tok[c]
    BY <2>3
  <2>5. Quiet(p)'
    BY <2>2, <2>4 DEF Quiet
  <2>6. Quiet(tok[c])
    BY <2>4, <2>5, SessionsGoOn DEF Quiet
  <2> QED BY <1>4, <2>2, <2>6 DEF SessionInv, FoundIsRow, Repeating
<1>5. ASSUME NEW c \in Refreshes, Gives(c, Own(c)) PROVE j # Own(c)
  BY JtisDiffer
<1>6. ASSUME NEW c \in Refreshes, NEW k, Gives(c, k), j # k PROVE j \in handed /\ parent'[j] = parent[j]
  BY <1>1, <1>6 DEF Gives, SessionTypes
<1>7. CASE UNCHANGED <<handed, parent>>
  BY <1>2, <1>7
<1> QED BY <1>1, <1>2, <1>3, <1>4, <1>5, <1>6, <1>7 DEF Moved, HandedMoved

LEMMA SignsOutKept ==
    ASSUME SessionInv, SessionStep
    PROVE  SignsOut'
<1>1. /\ Moved /\ Onward /\ SessionTypes /\ SignsOut
      /\ Refreshes \subseteq Requests /\ Logouts \subseteq Requests
  BY StepMoves DEF Moved, SessionInv, Requests
<1> SUFFICES ASSUME NEW o \in Logouts
             PROVE  /\ where'[o] \in {"find", "end", "forget", "ok"} => tok'[o] \in revoked'
                    /\ where'[o] = "forget" => found'[o] \in revoked'
                    /\ where'[o] \in {"end", "forget"} /\ Quiet(tok[o])' =>
                         row'[tok'[o]] = NoRow \/ row'[tok'[o]].jti = found'[o]
                    /\ where'[o] = "ok" /\ Quiet(tok[o])' =>
                         /\ row'[tok'[o]] = NoRow
                         /\ \A c \in Refreshes : tok'[c] = tok'[o] /\ UnderWay(c)' => where'[c] = "repeat"
  BY DEF SignsOut
<1>2. LogoutMoved(o)
  BY <1>1 DEF Moved
<1>3. ASSUME where'[o] \in {"find", "end", "forget", "ok"} PROVE tok'[o] \in revoked'
  <2>1. CASE where[o] \in {"find", "end", "forget", "ok"}
    BY <1>1, <2>1 DEF SignsOut, Onward, Started
  <2> QED BY <1>2, <1>3, <2>1 DEF LogoutMoved
<1>4. ASSUME where'[o] = "forget" PROVE found'[o] \in revoked'
  BY <1>1, <1>2, <1>4 DEF LogoutMoved, SignsOut, Onward
<1>5. ASSUME where'[o] \in {"end", "forget", "ok"}, Quiet(tok[o])', where[o] # "start"
      PROVE  /\ tok'[o] = tok[o] /\ tok[o] \in Jtis /\ Quiet(tok[o])
             /\ \/ row'[tok[o]] = row[tok[o]]
                \/ \E c \in Refreshes : where[c] = "note" /\ tok[c] = tok[o]
                \/ row'[tok[o]] = NoRow
  <2>1. tok'[o] = tok[o] /\ tok[o] \in Jtis
    BY <1>1, <1>5 DEF Onward, Started, SessionTypes
  <2>2. PICK p \in Jtis : p = tok[o]
    BY <2>1
  <2>3. Quiet(p)'
    BY <1>5, <2>1, <2>2 DEF Quiet
  <2>4. Quiet(p)
    BY <2>3, SessionsGoOn
  <2> QED BY <2>1, <2>2, <2>3, <2>4, QuietRows DEF Quiet
<1>6. ASSUME where'[o] \in {"end", "forget"}, Quiet(tok[o])'
      PROVE  row'[tok'[o]] = NoRow \/ row'[tok'[o]].jti = found'[o]
  <2>1. where[o] # "start"
    BY <1>2, <1>6 DEF LogoutMoved
  <2>2. CASE where[o] \in {"end", "forget"} /\ found'[o] = found[o]
    <3>1. ASSUME NEW c \in Refreshes, where[c] = "note", tok[c] = tok[o] PROVE FALSE
      BY <1>5, <1>6, <2>1, <2>2, <3>1, QuietRequests DEF UnderWay, Done
    <3>2. row[tok[o]] = NoRow \/ row[tok[o]].jti = found[o]
      BY <1>1, <1>5, <1>6, <2>1, <2>2 DEF SignsOut
    <3> QED BY <1>5, <1>6, <2>1, <2>2, <3>1, <3>2
  <2>3. CASE where[o] = "find" /\ found'[o] = row[tok[o]].jti /\ row' = row
    BY <1>5, <1>6, <2>1, <2>3
  <2> QED BY <1>2, <1>6, <2>2, <2>3 DEF LogoutMoved
<1>7. ASSUME where'[o] = "ok", Quiet(tok[o])'
      PROVE  /\ row'[tok'[o]] = NoRow
             /\ \A c \in Refreshes : tok'[c] = tok'[o] /\ UnderWay(c)' => where'[c] = "repeat"
  <2>1. where[o] # "start"
    BY <1>2, <1>7 DEF LogoutMoved
  <2>2. tok'[o] = tok[o] /\ Quiet(tok[o])
    BY <1>5, <1>7, <2>1
  <2>3. CASE where[o] = "ok"
    <3>1. /\ row[tok[o]] = NoRow /\ tok[o] \in revoked
          /\ \A c \in Refreshes : tok[c] = tok[o] /\ UnderWay(c) => where[c] = "repeat"
      BY <1>1, <2>2, <2>3 DEF SignsOut
    <3>2. row'[tok[o]] = NoRow
      BY <1>5, <1>7, <2>1, <3>1 DEF UnderWay, Done
    <3>3. ASSUME NEW c \in Refreshes, tok'[c] = tok'[o], UnderWay(c)' PROVE where'[c] = "repeat"
      <4>1. RefreshMoved(c) /\ where[c] \in RefreshStages
        BY <1>1 DEF Moved, SessionTypes
      <4>2. CASE ~Started(c)
        BY <2>2, <3>1, <3>3, <4>1, <4>2 DEF RefreshMoved, Started, UnderWay, Done
      <4>3. CASE Started(c) /\ UnderWay(c)
        <5>1. where[c] = "repeat" /\ ~Repeats(tok[c])
          BY <1>1, <2>2, <3>1, <3>3, <4>3 DEF Onward, Repeats
        <5> QED BY <3>3, <4>1, <5>1 DEF RefreshMoved, UnderWay, Done
      <4>4. CASE Done(c)
        <5>1. where[c] \in {"ok", "refused", "dead"}
          BY <4>4 DEF Done
        <5> QED BY <1>1, <2>2, <3>1, <3>3, <4>1, <5>1 DEF RefreshMoved, UnderWay, Done, Onward, Started
      <4> QED BY <4>2, <4>3, <4>4 DEF UnderWay, Started
    <3> QED BY <2>2, <3>2, <3>3
  <2>4. CASE /\ where[o] \in {"find", "forget"} /\ row'[tok[o]] = NoRow
             /\ \A d \in Refreshes : where'[d] = where[d] /\ tok'[d] = tok[d]
    BY <2>2, <2>4, QuietRequests DEF UnderWay, Done
  <2> QED BY <1>2, <1>7, <2>2, <2>3, <2>4 DEF LogoutMoved
<1> QED BY <1>3, <1>4, <1>6, <1>7

-----------------------------------------------------------------------------
(* While nothing is reset and nobody signs p out, its row stays as it was  *)
(* written, and who repeats a replacement repeats the winner's.            *)

LEMMA UndisturbedRows ==
    ASSUME SessionInv, SessionStep, NEW p \in Jtis, Undisturbed(p)'
    PROVE  Undisturbed(p) /\ (row[p] # NoRow => row'[p] = row[p])
<1>1. Undisturbed(p) /\ Quiet(p)'
  BY SessionsGoOn
<1>2. ASSUME NEW o \in Logouts, where[o] = "forget", tok[o] = p PROVE FALSE
  BY <1>1, <1>2 DEF Undisturbed, SignedOut
<1> QED BY <1>1, <1>2, QuietRows

LEMMA RowStaysKept ==
    ASSUME SessionInv, SessionStep
    PROVE  RowStays'
<1>1. /\ Moved /\ Onward /\ SessionTypes /\ RowStays /\ FoundIsRow /\ HandedFrom /\ RowsFrom /\ FoundFrom
      /\ Refreshes \subseteq Requests
  BY StepMoves DEF Moved, SessionInv, Requests
<1>2. ASSUME NEW c \in Refreshes, where'[c] \in {"revoke", "stamp", "mint"}, Undisturbed(tok[c])'
      PROVE  row'[tok'[c]] # NoRow
  <2>1. RefreshMoved(c) /\ Started(c)
    BY <1>1, <1>2 DEF Moved, RefreshMoved, Started
  <2>2. tok'[c] = tok[c]
    BY <1>1, <2>1 DEF Onward
  <2>3. PICK p \in Jtis : p = tok[c]
    BY <1>1 DEF SessionTypes
  <2>4. Undisturbed(p)'
    BY <1>2, <2>2, <2>3 DEF Undisturbed, SignedOut
  <2>5. CASE where[c] \in {"revoke", "stamp", "mint"}
    <3>1. row[p] # NoRow
      BY <1>1, <2>3, <2>4, <2>5, UndisturbedRows DEF RowStays
    <3> QED BY <2>2, <2>3, <2>4, <3>1, UndisturbedRows
  <2> QED BY <1>2, <2>1, <2>2, <2>5 DEF RefreshMoved
<1>3. ASSUME NEW j \in handed', j.how = "row", Undisturbed(parent[j])' PROVE row'[parent'[j]] # NoRow
  <2>1. CASE j \in handed /\ parent'[j] = parent[j]
    <3>1. PICK p \in Jtis : p = parent[j]
      BY <1>1, <1>3, <2>1, JtisDiffer DEF HandedFrom
    <3>2. Undisturbed(p)'
      BY <1>3, <2>1, <3>1 DEF Undisturbed, SignedOut
    <3>3. row[p] # NoRow
      BY <1>1, <1>3, <2>1, <3>1, <3>2, UndisturbedRows DEF RowStays
    <3> QED BY <2>1, <3>1, <3>2, <3>3, UndisturbedRows
  <2>2. j \in Jtis
    BY SessionTypesKept DEF SessionTypes
  <2>3. ASSUME NEW c \in Refreshes, row[tok[c]] # NoRow, Gives(c, row[tok[c]].jti), j = row[tok[c]].jti
        PROVE  row'[parent'[j]] # NoRow
    BY <1>1, <2>2, <2>3 DEF Gives, SessionTypes
  <2>4. ASSUME NEW c \in Refreshes, where[c] = "same", Gives(c, found[c]), j = found[c]
        PROVE  row'[parent'[j]] # NoRow
    <3>1. parent'[j] = tok[c] /\ row' = row
      BY <1>1, <2>2, <2>4 DEF Gives, SessionTypes
    <3>2. PICK p \in Jtis : p = tok[c]
      BY <1>1 DEF SessionTypes
    <3>3. Undisturbed(p)'
      BY <1>3, <3>1, <3>2 DEF Undisturbed, SignedOut
    <3>4. Quiet(tok[c])
      BY <3>2, <3>3, SessionsGoOn DEF Quiet
    <3> QED BY <1>1, <2>4, <3>1, <3>4 DEF FoundIsRow, Repeating
  <2>5. \A c \in Refreshes : j # Own(c)
    BY <1>3, JtisDiffer
  <2>6. ASSUME NEW c \in Refreshes, NEW k, Gives(c, k), j # k PROVE j \in handed /\ parent'[j] = parent[j]
    BY <1>1, <2>6 DEF Gives, SessionTypes
  <2>7. CASE UNCHANGED <<handed, parent>>
    BY <2>1, <2>7
  <2> QED BY <1>1, <2>1, <2>3, <2>4, <2>5, <2>6, <2>7 DEF Moved, HandedMoved
<1>4. ASSUME NEW c \in Refreshes, Own(c) \in handed', Undisturbed(tok[c])'
      PROVE  row'[tok'[c]] # NoRow /\ row'[tok'[c]].asof < since'[c]
  <2>1. Started(c) /\ tok'[c] = tok[c] /\ since'[c] = since[c]
    <3>1. Won(c)'
      BY <1>4 DEF Won
    <3> QED BY <3>1, WinnersWere
  <2>2. PICK p \in Jtis : p = tok[c]
    BY <1>1 DEF SessionTypes
  <2>3. Undisturbed(p)'
    BY <1>4, <2>1, <2>2 DEF Undisturbed, SignedOut
  <2>4. Undisturbed(tok[c])
    BY <2>2, <2>3, UndisturbedRows DEF Undisturbed
  <2>5. CASE Own(c) \in handed
    <3>1. row[p] # NoRow /\ row[p].asof < since[c]
      BY <1>1, <2>2, <2>4, <2>5 DEF RowStays
    <3> QED BY <2>1, <2>2, <2>3, <3>1, UndisturbedRows
  <2>6. CASE /\ where[c] = "mint" /\ ~(row[tok[c]] # NoRow /\ row[tok[c]].asof >= since[c])
             /\ row' = row
    <3>1. row[p] # NoRow
      BY <1>1, <2>2, <2>4, <2>6 DEF RowStays
    <3>2. row[p].asof \in Nat /\ since[c] \in Nat
      BY <1>1 DEF SessionTypes
    <3> QED BY <2>1, <2>2, <2>6, <3>1, <3>2
  <2>7. ASSUME NEW d \in Refreshes, row[tok[d]] # NoRow, Gives(d, row[tok[d]].jti) PROVE Own(c) \in handed
    <3>1. FromRow(row[tok[d]].jti, tok[d])
      BY <1>1, <2>7 DEF RowsFrom, SessionTypes
    <3> QED BY <1>4, <2>7, <3>1, JtisDiffer DEF Gives, FromRow
  <2>8. ASSUME NEW d \in Refreshes, where[d] = "same", Gives(d, found[d]) PROVE Own(c) \in handed
    <3>1. FromRow(found[d], tok[d])
      BY <1>1, <2>8 DEF FoundFrom, Repeating
    <3> QED BY <1>4, <2>8, <3>1, JtisDiffer DEF Gives, FromRow
  <2>9. ASSUME NEW d \in Refreshes, d # c, Gives(d, Own(d)) PROVE Own(c) \in handed
    BY <1>4, <2>9, JtisDiffer DEF Gives
  <2> QED BY <1>1, <1>4, <2>5, <2>6, <2>7, <2>8, <2>9 DEF Moved, HandedMoved, Gives
<1> QED BY <1>2, <1>3, <1>4 DEF RowStays

\* c repeats the replacement of p, or it has been handed out.
Told(p) == \/ \E c \in Refreshes : Repeating(c) /\ tok[c] = p
           \/ \E j \in handed : j.how = "row" /\ parent[j] = p

LEMMA RowAgreesKept ==
    ASSUME SessionInv, SessionStep
    PROVE  RowAgrees'
<1>1. /\ Moved /\ Onward /\ SessionTypes /\ RowStays /\ FoundIsRow /\ RowAgrees /\ Replaced /\ OneWinner
      /\ Refreshes \subseteq Requests
  BY StepMoves DEF Moved, SessionInv, Requests
<1> SUFFICES ASSUME NEW w \in Refreshes, Won(w)', Undisturbed(tok[w])', Told(tok[w])'
             PROVE  since'[w] <= row'[tok'[w]].asof
  BY DEF RowAgrees, Told
<1>2. tok'[w] = tok[w] /\ since'[w] = since[w] /\ (Won(w) \/ Wins(w))
  BY WinnersWere
<1>3. PICK p \in Jtis : p = tok[w]
  BY <1>1 DEF SessionTypes
<1>4. Undisturbed(p)' /\ Told(p)'
  BY <1>2, <1>3 DEF Undisturbed, SignedOut, Told
<1>5. Undisturbed(p) /\ Quiet(p) /\ ~moved
  BY <1>4, UndisturbedRows, SessionsGoOn DEF Undisturbed
<1>6. ASSUME Told(p) PROVE row[p] # NoRow
  <2>1. ASSUME NEW c \in Refreshes, Repeating(c), tok[c] = p PROVE row[p] # NoRow
    BY <1>1, <1>5, <2>1 DEF FoundIsRow
  <2>2. ASSUME NEW j \in handed, j.how = "row", parent[j] = p PROVE row[p] # NoRow
    BY <1>1, <1>5, <2>2 DEF RowStays
  <2> QED BY <1>6, <2>1, <2>2 DEF Told
<1>7. CASE Told(p) /\ Won(w)
  <2>1. since[w] <= row[p].asof
    BY <1>1, <1>3, <1>5, <1>7 DEF RowAgrees, Told
  <2> QED BY <1>2, <1>3, <1>4, <1>6, <1>7, <2>1, UndisturbedRows
<1>8. CASE Told(p) /\ ~Won(w)
  <2>1. tok[w] \notin revoked
    BY <1>2, <1>8 DEF Wins
  <2>2. ASSUME NEW c \in Refreshes, Repeating(c), tok[c] = p PROVE FALSE
    BY <1>1, <1>3, <1>5, <2>1, <2>2 DEF Replaced, Behind, Repeating
  <2>3. ASSUME NEW j \in handed, j.how = "row", parent[j] = p PROVE FALSE
    BY <1>1, <1>3, <1>5, <2>1, <2>3, JtisDiffer DEF Replaced
  <2> QED BY <1>8, <2>2, <2>3 DEF Told
<1>9. CASE ~Told(p)
  <2>1. ASSUME NEW c \in Refreshes, Repeating(c)', tok'[c] = p
        PROVE  row' = row /\ Repeats(p) /\ ~Wins(w)
    <3>1. RefreshMoved(c) /\ Started(c)
      BY <1>1, <2>1 DEF Moved, RefreshMoved, Repeating, Started
    <3>2. tok[c] = p /\ ~Repeating(c)
      BY <1>1, <1>9, <2>1, <3>1 DEF Onward, Told
    <3>3. /\ where[c] = "repeat" /\ where' = [where EXCEPT ![c] = "again"]
          /\ Repeats(tok[c]) /\ row' = row
      BY <2>1, <3>1, <3>2 DEF RefreshMoved, Repeating
    <3> QED BY <1>1, <3>2, <3>3 DEF Wins, SessionTypes
  <2>2. ASSUME NEW j \in handed', j.how = "row", parent'[j] = p
        PROVE  row' = row /\ ~Wins(w) /\ since[w] <= row[p].asof
    <3>1. ~(j \in handed /\ parent'[j] = parent[j])
      BY <1>9, <2>2 DEF Told
    <3>2. j \in Jtis
      BY SessionTypesKept DEF SessionTypes
    <3>3. ASSUME NEW c \in Refreshes, NEW k, Gives(c, k) PROVE j = k /\ tok[c] = p /\ row' = row
      BY <1>1, <2>2, <3>1, <3>2, <3>3 DEF Gives, SessionTypes
    <3>4. ASSUME NEW c \in Refreshes, Gives(c, Own(c)) PROVE FALSE
      BY <2>2, <3>3, <3>4, JtisDiffer
    <3>5. ASSUME NEW c \in Refreshes, where[c] = "same", Gives(c, found[c]) PROVE FALSE
      BY <1>9, <3>3, <3>5 DEF Told, Repeating
    <3>6. PICK c \in Refreshes : /\ where[c] = "mint" /\ row[tok[c]].asof >= since[c]
                                 /\ Gives(c, row[tok[c]].jti)
      BY <1>1, <3>1, <2>2, <3>4, <3>5 DEF Moved, HandedMoved
    <3>7. tok[c] = p /\ row' = row /\ Won(c) /\ ~Wins(w)
      BY <1>1, <3>3, <3>6 DEF Won, Gives, Wins, SessionTypes
    <3>8. c = w
      BY <1>1, <1>2, <1>3, <3>7 DEF OneWinner
    <3> QED BY <3>6, <3>7, <3>8
  <2>3. since[w] \in Nat /\ since[w] <= clock
    BY <1>1 DEF SessionTypes
  <2> QED BY <1>2, <1>3, <1>4, <2>1, <2>2, <2>3 DEF Told, Repeats
<1> QED BY <1>2, <1>7, <1>8, <1>9

-----------------------------------------------------------------------------
(* The theorems about sessions. *)

LEMMA SessionKept == SessionInv /\ [SessionStep]_session => SessionInv'
<1>1. ASSUME SessionInv, SessionStep PROVE SessionInv'
  BY <1>1, SessionTypesKept, SessionsGoOn, OriginsKept, ReplacedKept, FoundKept, HandedKept,
     SignsOutKept, RowStaysKept, RowAgreesKept DEF SessionInv
<1>2. ASSUME SessionInv, UNCHANGED session PROVE SessionInv'
  <2>1. SessionTypes' /\ RowsFrom' /\ FoundFrom' /\ HandedFrom'
    BY <1>2 DEF SessionInv, session, tables, SessionTypes, RowsFrom, FoundFrom, HandedFrom, FromRow,
                Repeating, Started
  <2>2. Replaced' /\ OneWinner' /\ BesideKept'
    BY <1>2 DEF SessionInv, session, tables, Replaced, OneWinner, Behind, Won, BesideKept, Started,
                Beside, UnderWay, Done
  <2>3. FoundIsRow' /\ HandedIsRow' /\ SignsOut'
    BY <1>2 DEF SessionInv, session, tables, FoundIsRow, HandedIsRow, SignsOut, Quiet, Repeating,
                UnderWay, Done
  <2>4. RowStays' /\ RowAgrees'
    BY <1>2 DEF SessionInv, session, tables, RowStays, RowAgrees, Undisturbed, SignedOut, Won, Repeating
  <2> QED BY <2>1, <2>2, <2>3, <2>4 DEF SessionInv
<1> QED BY <1>1, <1>2

LEMMA SessionsAreKept == Spec => []SessionInv
<1>1. Init => SessionInv
  BY InitSession DEF Init
<1>2. SessionInv /\ [Next]_vars => SessionInv'
  BY SessionKept DEF Next, vars
<1> QED BY <1>1, <1>2, PTL DEF Spec

\* However many requests refresh one token, on however many servers, dying and
\* asking again, its replacements have ended it, and two that are live are the
\* same, unless it was signed out: the row is written before the token is
\* revoked and stays, so the winner and those who repeat it read the same.
\* (/auth/refresh and repeatRefresh, api/auth.ts)
THEOREM OneSessionFollows == Spec => []OneReplacement
<1>1. SessionInv => OneReplacement
  <2> SUFFICES ASSUME SessionInv, NEW j \in handed, NEW k \in handed
               PROVE  /\ parent[j] # None => ~Live(parent[j])
                      /\ parent[j] # None /\ parent[j] = parent[k] /\ Live(j) /\ Live(k)
                         /\ ~SignedOut(parent[j]) => j = k
    BY DEF OneReplacement
  <2>1. SessionTypes /\ HandedFrom /\ Replaced /\ OneWinner /\ BesideKept /\ HandedIsRow /\ RowStays /\ RowAgrees
    BY DEF SessionInv
  <2>2. parent[j] # None => ~Live(parent[j])
    BY <2>1 DEF Replaced, Live
  <2>3. ASSUME parent[j] # None, parent[j] = parent[k], Live(j), Live(k), ~SignedOut(parent[j])
        PROVE  j = k
    <3> DEFINE p == parent[j]
    <3>1. Undisturbed(p)
      BY <2>3 DEF Undisturbed, Live
    <3>2. Quiet(p)
      BY <2>1, <3>1 DEF Undisturbed, Quiet, BesideKept, SignedOut, Started
    <3>3. \/ j.how = "row"
          \/ \E x \in Refreshes : j = Own(x) /\ tok[x] = p
      BY <2>1, <2>3, JtisDiffer DEF HandedFrom, FromRow
    <3>4. \/ k.how = "row"
          \/ \E x \in Refreshes : k = Own(x) /\ tok[x] = p
      BY <2>1, <2>3, JtisDiffer DEF HandedFrom, FromRow
    <3>5. CASE j.how = "row" /\ k.how = "row"
      BY <2>1, <2>3, <3>2, <3>5 DEF HandedIsRow, Live
    <3>6. ASSUME NEW x \in Refreshes, NEW i \in handed, Own(x) \in handed, tok[x] = p, i.how = "row", parent[i] = p
          PROVE  FALSE
      <4>1. row[p].asof < since[x]
        BY <2>1, <3>1, <3>6 DEF RowStays
      <4>2. since[x] <= row[p].asof
        BY <2>1, <3>1, <3>6 DEF RowAgrees, Won
      <4>3. since[x] \in Nat /\ row[p].asof \in Nat
        BY <2>1, <2>3 DEF SessionTypes, Requests
      <4> QED BY <4>1, <4>2, <4>3
    <3>7. CASE \E x, y \in Refreshes : j = Own(x) /\ tok[x] = p /\ k = Own(y) /\ tok[y] = p
      BY <2>1, <3>7 DEF OneWinner, Won
    <3> QED BY <2>3, <3>3, <3>4, <3>5, <3>6, <3>7
  <2> QED BY <2>2, <2>3
<1> QED BY <1>1, SessionsAreKept, PTL

\* A sign-out of a token no refresh of which runs beside a sign-out ends it and
\* the replacement its refreshes share, for good: the row it reads names every
\* replacement that was or will be handed out, and without the row nobody
\* repeats.  (endRefreshedReplacement, api/auth.ts)
THEOREM SignedOutForGood == Spec => []SignOutSticks
<1>1. SessionInv => SignOutSticks
  <2> SUFFICES ASSUME SessionInv, NEW c \in Logouts, where[c] = "ok",
                      \A o \in Logouts : tok[o] = tok[c] => o \notin beside, ~moved, NEW j \in handed,
                      j = tok[c] \/ (parent[j] = tok[c] /\ j.how = "row")
               PROVE  j \in revoked
    BY DEF SignOutSticks, Live
  <2>1. SessionTypes /\ HandedIsRow /\ SignsOut
    BY DEF SessionInv
  <2>2. Quiet(tok[c])
    BY DEF Quiet
  <2>3. tok[c] \in revoked /\ row[tok[c]] = NoRow
    BY <2>1, <2>2 DEF SignsOut
  <2> QED BY <2>1, <2>2, <2>3 DEF HandedIsRow
<1> QED BY <1>1, SessionsAreKept, PTL

-----------------------------------------------------------------------------
(* Signing in: what the calls hold and what the rows are. *)

Budgets == {"password", "otp", "mfa"}
Stages == {"start", "password", "succeeded", "consume", "finish", "exhausted", "pick", "guess", "account",
           "attempt", "factor", "apply", "since", "unlink", "linked", "still",
           "stamp", "void", "links", "restamp", "rank", "supersede", "ended"}
Held == [flow : Flows \cup {"none"}, tok : Nat, user : UserRows, link : LinkRows, proof : Proofs, linking : BOOLEAN]

SignInTypes ==
    /\ user \in UserRows /\ link \in LinkRows /\ tokens \in Seq(TokenRows)
    /\ charges \in [Budgets -> SUBSET Calls] /\ missed \in [Budgets -> SUBSET Calls]
    /\ factors \subseteq Factors
    /\ sessions \subseteq [rs : Nat, proof : Proofs]
    /\ at \in [Calls -> Stages] /\ my \in [Calls -> Held]
    /\ cut \in [Kinds -> Nat]
    /\ acted \subseteq Calls \X (Nat \cup Factors)
    /\ compared \subseteq Calls \X Nat

\* The operations a call may be in at a stage, and the token it has by then.
HasToken(c) == my[c].tok \in DOMAIN tokens
Placed(c) ==
    /\ my[c].linking => my[c].flow = "mfa"
    /\ at[c] \in {"password", "succeeded"} =>
         \/ my[c].flow = "login"
         \/ my[c].flow \in {"merge_confirm", "confirm_email"} /\ HasToken(c)
    /\ at[c] = "consume" => /\ HasToken(c)
                            /\ my[c].flow \in {"merge_confirm", "confirm_email", "otp_link", "otp_code",
                                               "confirm_reset", "accept_invite", "mfa"}
    /\ at[c] = "pick" => my[c].flow = "otp_code"
    /\ at[c] \in {"guess", "exhausted", "account"} =>
         /\ my[c].flow \in {"otp_link", "otp_code"} /\ HasToken(c)
         /\ tokens[my[c].tok].purpose \in {"otp", "deleted"}
    /\ at[c] \in {"attempt", "factor"} => my[c].flow = "mfa" /\ HasToken(c)
    /\ at[c] \in {"rank", "supersede"} =>
         /\ my[c].flow \in {"otp", "password_reset", "email_change"} /\ HasToken(c)
         /\ tokens[my[c].tok].purpose \in {my[c].flow, "deleted"}
    /\ at[c] = "apply" => my[c].flow = "merge_confirm" \/ (my[c].flow = "mfa" /\ my[c].linking)
    /\ at[c] = "since" => my[c].flow \in {"merge_confirm", "mfa"}
    /\ at[c] \in {"linked", "still"} => /\ my[c].flow = "provider"
                                        /\ my[c].link # NoLink /\ my[c].link.proof.kind = "provider"
    /\ at[c] \in {"stamp", "void", "links", "restamp"} =>
         my[c].flow \in {"confirm_reset", "confirm_email", "accept_invite", "otp_link", "otp_code"}

\* What has let somebody through is spent.
Spent == \A x \in acted : x[2] \in factors \/ (x[2] \in DOMAIN tokens /\ tokens[x[2]].used)

\* The calls that may guess at a code of a budget, or have guessed wrong.
Passed(b) == missed[b] \cup {c \in Calls : at[c] = IF b = "otp" THEN "guess" ELSE "factor"}
Compared(t) == {c \in Calls : <<c, t>> \in compared}

Counted ==
    /\ \A b \in {"otp", "mfa"} : Passed(b) \subseteq charges[b] /\ Cardinality(Passed(b)) <= MaxCodeFailures
    /\ \A b \in {"otp", "mfa"} : \A c \in missed[b] : at[c] = "ended"
    /\ \A c \in Calls : /\ at[c] = "pick" => c \in charges["otp"]
                        /\ at[c] = "attempt" => c \in charges["mfa"]
    /\ \A x \in compared : x[2] \in DOMAIN tokens
    /\ \A t \in DOMAIN tokens : /\ Cardinality(Compared(t)) <= tokens[t].attempts
                                /\ Cardinality(Compared(t)) <= MaxTokenAttempts

\* c is taking the account back, from all it rests on or from codes alone.
TakingAll(c) == at[c] \in {"void", "links", "restamp"} /\ my[c].flow # "confirm_email"

\* A session on this proof, signed with this stamp, is one that a reset ends
\* or that no reset that is over should have ended.
Good(stamp, proof) ==
    /\ stamp <= user.stamp
    /\ stamp = user.stamp /\ proof.sure =>
         /\ proof.stamp >= cut[proof.kind]
         /\ proof.kind = "password" => \A c \in Calls : TakingAll(c) => proof.stamp >= my[c].proof.stamp

Cuts == /\ cut["provider"] = cut["password"]
        /\ \A k \in Kinds : cut[k] <= user.stamp
        /\ \A c \in Calls : at[c] \in {"void", "links", "restamp"} =>
             my[c].proof.stamp \in Nat /\ my[c].proof.stamp <= user.stamp
Passwords == user.pw # Unusable => /\ user.pw >= cut["password"]
                                   /\ \A c \in Calls : TakingAll(c) => user.pw >= my[c].proof.stamp
Codes == \A t \in DOMAIN tokens :
            /\ tokens[t].purpose = "otp" => tokens[t].proof.kind = "code"
            /\ tokens[t].purpose # "mfa_ticket" /\ tokens[t].proof.kind = "code" /\ ~tokens[t].used =>
                 /\ tokens[t].proof.stamp >= cut["code"]
                 /\ \A c \in Calls : at[c] \in {"links", "restamp"} => tokens[t].proof.stamp >= my[c].proof.stamp

\* The proof p of a call or ticket with the stamp s; one that may make a link
\* rests on a password.
Sound(s, p, linking) == p.kind \in Kinds /\ Good(s, p) /\ (linking => p.kind = "password")
Tickets == \A t \in DOMAIN tokens : tokens[t].purpose = "mfa_ticket" =>
              Sound(tokens[t].seen, tokens[t].proof, tokens[t].linking)
Signs(c) == Sound(my[c].user.stamp, my[c].proof, my[c].linking \/ my[c].flow \in {"login", "merge_confirm"})
Holder(c) ==
    /\ at[c] = "password" /\ my[c].flow # "confirm_email" => my[c].user.pw = Unusable \/ Signs(c)
    /\ at[c] = "succeeded" /\ my[c].flow # "confirm_email" => Signs(c)
    /\ at[c] = "consume" /\ my[c].flow \in {"merge_confirm", "mfa"} => Signs(c)
    /\ at[c] = "consume" /\ my[c].flow \in {"otp_link", "otp_code"} =>
         tokens[my[c].tok].used \/ Signs(c)
    /\ at[c] \in {"guess", "exhausted", "account"} => tokens[my[c].tok].proof.kind = "code"
    /\ at[c] \in {"attempt", "factor", "apply", "since", "finish"} => Signs(c)
    /\ at[c] = "still" => my[c].user.stamp <= user.stamp

LinkKept ==
    /\ link # NoLink => link.proof.kind = "provider"
    /\ link # NoLink /\ link.proof.sure /\ Settled =>
         /\ link.proof.stamp >= cut["provider"]
         /\ \A c \in Calls : at[c] = "restamp" /\ my[c].flow # "confirm_email" =>
              link.proof.stamp >= my[c].proof.stamp
    /\ link.by \in Calls =>
         /\ at[link.by] \in {"since", "unlink", "ended"}
         /\ at[link.by] = "since" => /\ my[link.by].flow = "merge_confirm" \/ my[link.by].linking
                                     /\ link.proof.stamp = my[link.by].proof.stamp
                                     /\ link.proof.sure = my[link.by].proof.sure

Backed == /\ Cuts /\ Passwords /\ Codes /\ Tickets /\ LinkKept
          /\ \A c \in Calls : Holder(c)
          /\ \A s \in sessions : s.proof.kind \in Kinds /\ Good(s.rs, s.proof)

CallsPlaced == \A c \in Calls : Placed(c)
SignInInv == SignInTypes /\ CallsPlaced /\ Spent /\ OneLiveCode /\ SpentOnce /\ Counted /\ Backed
-----------------------------------------------------------------------------
(* What a step does to the rows and to the calls other than its own. *)

\* Rows stay, and what they were issued with; spent is spent.
TokensMoved ==
    /\ tokens' \in Seq(TokenRows) /\ Len(tokens) <= Len(tokens')
    /\ \A t \in DOMAIN tokens :
         /\ t \in DOMAIN tokens'
         /\ tokens'[t].proof = tokens[t].proof /\ tokens'[t].seen = tokens[t].seen
         /\ tokens'[t].linking = tokens[t].linking
         /\ tokens[t].used => tokens'[t].used
         /\ tokens[t].attempts <= tokens'[t].attempts
         /\ tokens'[t].purpose \in {tokens[t].purpose, "deleted"}

LEMMA RowFields ==
    ASSUME NEW q \in TokenRows
    PROVE  /\ q.attempts \in Nat /\ q.used \in BOOLEAN /\ q.purpose \in Purposes
           /\ q.proof \in Proofs /\ q.seen \in Nat /\ q.linking \in BOOLEAN
BY DEF TokenRows

LEMMA RowChanges ==
    ASSUME NEW q \in TokenRows, NEW n \in Nat
    PROVE  /\ LET r == [q EXCEPT !.attempts = n] IN
                /\ r \in TokenRows /\ r.attempts = n
                /\ r.used = q.used /\ r.purpose = q.purpose /\ r.proof = q.proof
                /\ r.seen = q.seen /\ r.linking = q.linking
           /\ LET r == [q EXCEPT !.purpose = "deleted"] IN
                /\ r \in TokenRows /\ r.purpose = "deleted"
                /\ r.used = q.used /\ r.attempts = q.attempts /\ r.proof = q.proof
                /\ r.seen = q.seen /\ r.linking = q.linking
<1>1. LET r == [q EXCEPT !.attempts = n] IN
        /\ r.attempts = n
        /\ r.used = q.used /\ r.purpose = q.purpose /\ r.proof = q.proof
        /\ r.seen = q.seen /\ r.linking = q.linking /\ r \in TokenRows
  BY DEF TokenRows
<1>2. LET r == [q EXCEPT !.purpose = "deleted"] IN
        /\ r.purpose = "deleted"
        /\ r.used = q.used /\ r.attempts = q.attempts /\ r.proof = q.proof
        /\ r.seen = q.seen /\ r.linking = q.linking /\ r \in TokenRows
  BY DEF TokenRows, Purposes
<1> QED BY <1>1, <1>2

LEMMA TokensSame ==
    ASSUME tokens \in Seq(TokenRows), tokens' = tokens
    PROVE  TokensMoved /\ DOMAIN tokens' = DOMAIN tokens
<1>1. \A t \in DOMAIN tokens : tokens[t].attempts \in Nat
  BY RowFields
<1> QED BY <1>1 DEF TokensMoved

LEMMA TokensAppended ==
    ASSUME tokens \in Seq(TokenRows), NEW r, r \in TokenRows, tokens' = Append(tokens, r)
    PROVE  /\ TokensMoved /\ Len(tokens') = Len(tokens) + 1
           /\ DOMAIN tokens' = DOMAIN tokens \cup {Len(tokens) + 1}
           /\ Len(tokens) + 1 \notin DOMAIN tokens
           /\ tokens'[Len(tokens) + 1] = r
           /\ \A t \in DOMAIN tokens : tokens'[t] = tokens[t]
<1>1. \A t \in DOMAIN tokens : tokens[t].attempts \in Nat
  BY RowFields
<1> QED BY <1>1 DEF TokensMoved

LEMMA TokensSpent ==
    ASSUME tokens \in Seq(TokenRows), NEW ids, Spends(ids)
    PROVE  /\ TokensMoved /\ DOMAIN tokens' = DOMAIN tokens
           /\ \A t \in DOMAIN tokens : /\ t \in ids => tokens'[t].used
                                       /\ t \notin ids => tokens'[t] = tokens[t]
                                       /\ tokens'[t].purpose = tokens[t].purpose
                                       /\ tokens'[t].attempts = tokens[t].attempts
<1>1. PICK n \in Nat : tokens \in [1..n -> TokenRows] /\ Len(tokens) = n
  OBVIOUS
<1>2. ASSUME NEW t \in 1..n
      PROVE  /\ tokens'[t] \in TokenRows
             /\ tokens'[t].proof = tokens[t].proof /\ tokens'[t].seen = tokens[t].seen
             /\ tokens'[t].linking = tokens[t].linking
             /\ tokens'[t].purpose = tokens[t].purpose /\ tokens'[t].attempts = tokens[t].attempts
             /\ tokens[t].used => tokens'[t].used
             /\ t \in ids => tokens'[t].used
             /\ t \notin ids => tokens'[t] = tokens[t]
  BY <1>1, <1>2 DEF Spends, TokenRows
<1>3. tokens' \in [1..n -> TokenRows]
  BY <1>1, <1>2 DEF Spends
<1>4. tokens' \in Seq(TokenRows) /\ Len(tokens') = n
  BY <1>3
<1> QED BY <1>1, <1>2, <1>3, <1>4, RowFields DEF TokensMoved

LEMMA TokensAttempted ==
    ASSUME tokens \in Seq(TokenRows), NEW t \in DOMAIN tokens,
           Attempt(t)
    PROVE  /\ TokensMoved /\ DOMAIN tokens' = DOMAIN tokens
           /\ tokens'[t].attempts = tokens[t].attempts + 1 /\ tokens'[t].used = tokens[t].used
           /\ tokens'[t].purpose = tokens[t].purpose
           /\ \A s \in DOMAIN tokens : s # t => tokens'[s] = tokens[s]
<1>1. tokens[t] \in TokenRows /\ \A s \in DOMAIN tokens : tokens[s].attempts \in Nat
  BY RowFields
<1>2. PICK q \in TokenRows : q = tokens[t]
  BY <1>1
<1>3. PICK r \in TokenRows : r = [q EXCEPT !.attempts = q.attempts + 1]
  <2>1. q.attempts + 1 \in Nat
    BY RowFields
  <2> QED BY <2>1, RowChanges
<1>4. tokens' = [tokens EXCEPT ![t] = r]
  BY <1>2, <1>3 DEF Attempt
<1>5. /\ r.proof = q.proof /\ r.seen = q.seen /\ r.linking = q.linking /\ r.used = q.used
      /\ r.purpose = q.purpose /\ r.attempts = q.attempts + 1
  <2>1. q.attempts + 1 \in Nat
    BY RowFields
  <2> QED BY <1>3, <2>1, RowChanges
<1> QED BY <1>1, <1>2, <1>4, <1>5 DEF TokensMoved

LEMMA TokensDeleted ==
    ASSUME tokens \in Seq(TokenRows), NEW t \in DOMAIN tokens,
           tokens' = [tokens EXCEPT ![t].purpose = "deleted"]
    PROVE  /\ TokensMoved /\ DOMAIN tokens' = DOMAIN tokens
           /\ tokens'[t].purpose = "deleted" /\ tokens'[t].used = tokens[t].used
           /\ tokens'[t].attempts = tokens[t].attempts
           /\ \A s \in DOMAIN tokens : s # t => tokens'[s] = tokens[s]
<1>1. tokens[t] \in TokenRows /\ \A s \in DOMAIN tokens : tokens[s].attempts \in Nat
  BY RowFields
<1>2. PICK q \in TokenRows : q = tokens[t]
  BY <1>1
<1>3. PICK r \in TokenRows : r = [q EXCEPT !.purpose = "deleted"]
  BY <1>1, <1>2, RowChanges
<1>4. tokens' = [tokens EXCEPT ![t] = r]
  BY <1>2, <1>3
<1>5. /\ r.proof = q.proof /\ r.seen = q.seen /\ r.linking = q.linking /\ r.used = q.used
      /\ r.purpose = "deleted" /\ r.attempts = q.attempts
  BY <1>1, <1>2, <1>3, RowChanges
<1> QED BY <1>1, <1>2, <1>4, <1>5 DEF TokensMoved

-----------------------------------------------------------------------------
(* Every step keeps the types, and every call a stage of its operation. *)

LEMMA ProofFacts ==
    ASSUME NEW k \in Kinds \cup {"none"}, NEW n \in Int, NEW b \in BOOLEAN
    PROVE  /\ Proof(k, n, b) \in Proofs /\ Proof(k, n, b).kind = k
           /\ Proof(k, n, b).stamp = n /\ Proof(k, n, b).sure = b
BY DEF Proof, Proofs

LEMMA NothingFacts ==
    /\ NoProof \in Proofs /\ NoProof.kind = "none" /\ NoProof.sure = TRUE /\ NoProof.stamp = 0
    /\ NoLink \in LinkRows /\ NoLink.by = "nobody"
    /\ Blank \in Held /\ Blank.flow = "none" /\ Blank.linking = FALSE /\ Blank.tok = 0
<1>1. NoProof \in Proofs /\ NoProof.kind = "none" /\ NoProof.sure = TRUE /\ NoProof.stamp = 0
  BY DEF NoProof, Proof, Proofs
<1>2. NoLink \in LinkRows /\ NoLink.by = "nobody"
  BY <1>1 DEF NoLink, LinkRows
<1>3. /\ Blank \in Held /\ Blank.flow = "none" /\ Blank.linking = FALSE /\ Blank.tok = 0
  BY <1>1, <1>2 DEF Blank, Held, UserRows
<1> QED BY <1>1, <1>2, <1>3

\* The call c alone moves, to a stage where it holds m.
Goes(c, stage, m) ==
    /\ at' \in [Calls -> Stages] /\ my' \in [Calls -> Held]
    /\ at'[c] = stage /\ my'[c] = m
    /\ \A d \in Calls : d # c => at'[d] = at[d] /\ my'[d] = my[d]

LEMMA CallMoves ==
    ASSUME SignInTypes, NEW c \in Calls, NEW stage \in Stages, NEW m \in Held, Goto(c, stage), Holds(c, m)
    PROVE  Goes(c, stage, m)
BY DEF SignInTypes, Goes, Goto, Holds

LEMMA CallGoes ==
    ASSUME SignInTypes, NEW c \in Calls, NEW stage \in Stages, Goto(c, stage), my' = my
    PROVE  Goes(c, stage, my[c])
BY DEF SignInTypes, Goes, Goto

LEMMA CallEnds ==
    ASSUME SignInTypes, NEW c \in Calls, End(c)
    PROVE  Goes(c, "ended", Blank)
<1>1. Blank \in Held /\ "ended" \in Stages
  BY NothingFacts DEF Stages
<1>2. Goto(c, "ended") /\ Holds(c, Blank)
  BY DEF End
<1> QED BY <1>1, <1>2, CallMoves

LEMMA HeldUser ==
    ASSUME NEW m \in Held, NEW u \in UserRows
    PROVE  LET n == [m EXCEPT !.user = u] IN
             /\ n \in Held /\ n.user = u /\ n.proof = m.proof
             /\ n.flow = m.flow /\ n.tok = m.tok /\ n.link = m.link /\ n.linking = m.linking
BY DEF Held

LEMMA HeldProof ==
    ASSUME NEW m \in Held, NEW p \in Proofs
    PROVE  LET n == [m EXCEPT !.proof = p] IN
             /\ n \in Held /\ n.user = m.user /\ n.proof = p
             /\ n.flow = m.flow /\ n.tok = m.tok /\ n.link = m.link /\ n.linking = m.linking
BY DEF Held

LEMMA HeldToken ==
    ASSUME NEW m \in Held, NEW t \in Nat
    PROVE  LET n == [m EXCEPT !.tok = t] IN
             /\ n \in Held /\ n.user = m.user /\ n.proof = m.proof
             /\ n.flow = m.flow /\ n.tok = t /\ n.link = m.link /\ n.linking = m.linking
BY DEF Held

LEMMA UserChanges ==
    ASSUME NEW w \in UserRows, NEW s \in Nat
    PROVE  /\ [w EXCEPT !.stamp = s] \in UserRows /\ [w EXCEPT !.stamp = s].stamp = s
           /\ [w EXCEPT !.stamp = s].pw = w.pw
BY DEF UserRows

LEMMA OpensHeld ==
    ASSUME NEW f \in Flows, NEW t \in Nat
    PROVE  LET n == [Blank EXCEPT !.flow = f, !.tok = t] IN
             n \in Held /\ n.flow = f /\ n.tok = t /\ n.linking = FALSE
BY NothingFacts DEF Held

LEMMA FlowHeld ==
    ASSUME NEW f \in Flows
    PROVE  LET n == [Blank EXCEPT !.flow = f] IN
             n \in Held /\ n.flow = f /\ n.linking = FALSE
BY NothingFacts DEF Held

LEMMA LinkHeld ==
    ASSUME NEW f \in Flows, NEW l \in LinkRows
    PROVE  LET n == [Blank EXCEPT !.flow = f, !.link = l] IN
             n \in Held /\ n.flow = f /\ n.link = l /\ n.linking = FALSE
BY NothingFacts DEF Held

\* Where a call may go next, and what it holds there.
MovesOn(c) == my'[c] = my[c] /\ <<at[c], at'[c]>> \in
    {<<"exhausted", "account">>, <<"guess", "account">>, <<"attempt", "factor">>, <<"factor", "consume">>,
     <<"apply", "since">>, <<"since", "unlink">>, <<"links", "restamp">>}

Begins(c) ==
    /\ at[c] = "start" /\ my'[c].linking = FALSE
    /\ \/ /\ at'[c] = "password" /\ my'[c].user = user
          /\ \/ my'[c].flow = "login" /\ my'[c].proof = Proof("password", user.pw, TRUE)
             \/ /\ my'[c].flow = "merge_confirm" /\ my'[c].tok \in DOMAIN tokens
                /\ my'[c].proof = Proof("password", user.pw, TRUE)
             \/ my'[c].flow = "confirm_email" /\ my'[c].tok \in DOMAIN tokens
       \/ at'[c] = "exhausted" /\ my'[c].flow = "otp_link" /\ my'[c].tok \in Open("otp")
       \/ at'[c] = "consume" /\ my'[c].flow \in {"confirm_reset", "accept_invite"} /\ my'[c].tok \in DOMAIN tokens
       \/ at'[c] = "pick" /\ my'[c].flow = "otp_code"
       \/ /\ at'[c] = "linked" /\ my'[c].flow = "provider" /\ link # NoLink /\ my'[c].link = link

BeginsMfa(c) ==
    /\ at[c] = "start" /\ at'[c] = "attempt" /\ my'[c].flow = "mfa" /\ my'[c].tok \in Open("mfa_ticket")
    /\ my'[c].user.stamp = tokens[my'[c].tok].seen /\ my'[c].proof = tokens[my'[c].tok].proof
    /\ my'[c].linking = tokens[my'[c].tok].linking

Issues(c) ==
    /\ at[c] = "start" /\ at'[c] = "rank" /\ my'[c].flow \in {"otp", "password_reset", "email_change"}
    /\ my'[c].tok = Len(tokens) + 1 /\ my'[c].linking = FALSE
    /\ tokens' = Append(tokens, Token(my'[c].flow, Proof("code", user.stamp, TRUE), 0, FALSE))

GetsIn(c) ==
    /\ at[c] = "consume" /\ my'[c] = my[c] /\ ~tokens[my[c].tok].used
    /\ \/ /\ at'[c] = "stamp"
          /\ my[c].flow \in {"confirm_reset", "confirm_email", "accept_invite", "otp_link", "otp_code"}
       \/ at'[c] = "finish" /\ my[c].flow \in {"otp_link", "otp_code", "merge_confirm"}
       \/ at'[c] = "apply" /\ (my[c].flow = "merge_confirm" \/ (my[c].flow = "mfa" /\ my[c].linking))
       \/ at'[c] = "since" /\ my[c].flow = "mfa"

Refills(c) ==
    /\ my'[c].flow = my[c].flow /\ my'[c].tok = my[c].tok /\ my'[c].link = my[c].link
    /\ my'[c].linking = my[c].linking
    /\ \/ /\ at[c] = "account" /\ at'[c] = "consume" /\ my'[c].user = user
          /\ my'[c].proof = tokens[my[c].tok].proof
       \/ at[c] = "linked" /\ at'[c] = "still" /\ my'[c].user = user
       \/ /\ at[c] = "still" /\ at'[c] = "finish" /\ link = my[c].link /\ my'[c].user = my[c].user
          /\ my'[c].proof = [link.proof EXCEPT !.sure = @ /\ Settled]
       \/ /\ at[c] = "stamp" /\ at'[c] = "void" /\ my[c].flow # "accept_invite"
          /\ my'[c].proof = Proof("code", user.stamp + 1, TRUE) /\ user'.stamp = user.stamp + 1
       \/ /\ at[c] = "restamp" /\ at'[c] = "finish" /\ Claims(c) /\ user'.stamp = user.stamp + 1
          /\ my'[c].user.stamp = user'.stamp /\ my'[c].proof = Proof("code", user.stamp + 1, TRUE)

CallMoved(c) ==
    \/ at'[c] = "ended" /\ my'[c] = Blank
    \/ MovesOn(c) \/ Begins(c) \/ BeginsMfa(c) \/ Issues(c) \/ GetsIn(c) \/ Refills(c)
    \/ at[c] = "password" /\ at'[c] = "succeeded" /\ my'[c] = my[c] /\ my[c].user.pw # Unusable
    \/ at[c] = "succeeded" /\ my'[c] = my[c] /\ at'[c] = IF my[c].flow = "login" THEN "finish" ELSE "consume"
    \/ /\ at[c] = "pick" /\ at'[c] = "guess" /\ my'[c].flow = my[c].flow /\ my'[c].tok \in Open("otp")
       /\ my'[c].linking = my[c].linking
    \/ /\ at[c] = "void" /\ my'[c] = my[c]
       /\ at'[c] = IF my[c].flow = "confirm_email" THEN "restamp" ELSE "links"
    \/ at[c] = "rank" /\ at'[c] = "supersede" /\ my[c].flow # "password_reset" /\ my'[c] = my[c]

LEMMA ProofUnsure ==
    ASSUME NEW p \in Proofs, NEW b \in BOOLEAN
    PROVE  LET q == [p EXCEPT !.sure = @ /\ b] IN
             q \in Proofs /\ q.kind = p.kind /\ q.stamp = p.stamp /\ (q.sure <=> p.sure /\ b)
BY DEF Proofs

LEMMA UserTotpOff ==
    ASSUME NEW w \in UserRows
    PROVE  [w EXCEPT !.totp = FALSE] \in UserRows /\ [w EXCEPT !.totp = FALSE].stamp = w.stamp
BY DEF UserRows


LEMMA CallsMove ==
    ASSUME SignInTypes, CallsPlaced, NEW c \in Calls, Step(c)
    PROVE  /\ \E m \in Held : Goes(c, at'[c], m)
           /\ CallMoved(c)
<1> DEFINE Effect == (\E m \in Held : Goes(c, at'[c], m)) /\ CallMoved(c)
<1> USE DEF Stages
<1>t. /\ my[c] \in Held /\ user \in UserRows /\ link \in LinkRows /\ at[c] \in Stages /\ Placed(c)
      /\ \A t \in DOMAIN tokens : t \in Nat /\ tokens[t] \in TokenRows
  BY DEF SignInTypes, CallsPlaced
<1>e. ASSUME End(c) PROVE Effect
  BY <1>e, CallEnds, NothingFacts DEF Goes, CallMoved
<1>g. ASSUME NEW stage \in Stages, Goto(c, stage), my' = my
      PROVE  (\E m \in Held : Goes(c, at'[c], m)) /\ at'[c] = stage /\ my'[c] = my[c]
  BY <1>g, <1>t, CallGoes DEF Goes
<1>h. ASSUME NEW stage \in Stages, NEW m \in Held, Goto(c, stage), Holds(c, m)
      PROVE  (\E n \in Held : Goes(c, at'[c], n)) /\ at'[c] = stage /\ my'[c] = m
  BY <1>h, CallMoves DEF Goes
<1>p. ASSUME NEW f \in Flows, NEW t \in Nat, NEW p \in Proofs, Presents(c, f, t, p)
      PROVE  /\ \E n \in Held : Goes(c, at'[c], n)
             /\ at[c] = "start" /\ at'[c] = "password" /\ my'[c].flow = f /\ my'[c].tok = t
             /\ my'[c].user = user /\ my'[c].proof = p /\ my'[c].linking = FALSE
  <2>1. PICK m \in Held : /\ m = [Blank EXCEPT !.flow = f, !.tok = t, !.user = user, !.proof = p]
                          /\ m.flow = f /\ m.tok = t /\ m.user = user /\ m.proof = p /\ m.linking = FALSE
    <3>1. LET n == [Blank EXCEPT !.flow = f, !.tok = t, !.user = user, !.proof = p] IN
             /\ n \in Held /\ n.flow = f /\ n.tok = t /\ n.user = user
             /\ n.proof = p /\ n.linking = FALSE
      BY <1>t, NothingFacts DEF Held
    <3> QED BY <3>1
  <2>2. at[c] = "start" /\ Goto(c, "password") /\ Holds(c, m)
    BY <1>p, <2>1 DEF Presents, Starts
  <2> QED BY <1>h, <2>1, <2>2
<1>o. ASSUME NEW f \in Flows, NEW t \in Nat, NEW stage \in Stages, Opens(c, f, t, stage)
      PROVE  /\ \E n \in Held : Goes(c, at'[c], n)
             /\ at[c] = "start" /\ at'[c] = stage /\ my'[c].flow = f /\ my'[c].tok = t
             /\ my'[c].linking = FALSE
  <2>1. PICK m \in Held : /\ m = [Blank EXCEPT !.flow = f, !.tok = t]
                          /\ m.flow = f /\ m.tok = t /\ m.linking = FALSE
    <3>1. LET n == [Blank EXCEPT !.flow = f, !.tok = t] IN
             /\ n \in Held /\ n.flow = f /\ n.tok = t /\ n.linking = FALSE
      BY OpensHeld
    <3> QED BY <3>1
  <2>2. at[c] = "start" /\ Goto(c, stage) /\ Holds(c, m)
    BY <1>o, <2>1 DEF Opens, Starts
  <2> QED BY <1>h, <2>1, <2>2
<1>b. ASSUME Begins(c), \E m \in Held : Goes(c, at'[c], m) PROVE Effect
  BY <1>b DEF CallMoved
<1>1. ASSUME Login(c) PROVE Effect
  <2>1. PICK t \in Nat : t = 0 /\ Presents(c, "login", t, Proof("password", user.pw, TRUE))
    BY <1>1 DEF Login
  <2>2. "login" \in Flows
    BY DEF Flows
  <2>3. Proof("password", user.pw, TRUE) \in Proofs
    BY <1>t, ProofFacts DEF UserRows, Kinds
  <2>4. /\ \E m \in Held : Goes(c, at'[c], m)
        /\ at[c] = "start" /\ at'[c] = "password" /\ my'[c].flow = "login" /\ my'[c].tok = t
        /\ my'[c].user = user /\ my'[c].proof = Proof("password", user.pw, TRUE) /\ my'[c].linking = FALSE
    BY <1>p, <2>1, <2>2, <2>3
  <2>5. Begins(c)
    BY <2>1, <2>2, <2>4 DEF Begins
  <2> QED BY <1>b, <2>4, <2>5
<1>2. ASSUME MergeConfirm(c) PROVE Effect
  <2>1. PICK t \in Open("oauth2_merge") : Presents(c, "merge_confirm", t, Proof("password", user.pw, TRUE))
    BY <1>2 DEF MergeConfirm
  <2>2. t \in Nat /\ t \in DOMAIN tokens /\ "merge_confirm" \in Flows
    BY <1>t DEF Open, Flows
  <2>3. Proof("password", user.pw, TRUE) \in Proofs
    BY <1>t, ProofFacts DEF UserRows, Kinds
  <2>4. /\ \E m \in Held : Goes(c, at'[c], m)
        /\ at[c] = "start" /\ at'[c] = "password" /\ my'[c].flow = "merge_confirm" /\ my'[c].tok = t
        /\ my'[c].user = user /\ my'[c].proof = Proof("password", user.pw, TRUE) /\ my'[c].linking = FALSE
    BY <1>p, <2>1, <2>2, <2>3
  <2>5. Begins(c)
    BY <2>1, <2>2, <2>4 DEF Begins
  <2> QED BY <1>b, <2>4, <2>5
<1>3. ASSUME ConfirmEmailChange(c) PROVE Effect
  <2>1. PICK t \in Open("email_change") : Presents(c, "confirm_email", t, NoProof)
    BY <1>3 DEF ConfirmEmailChange
  <2>2. t \in Nat /\ t \in DOMAIN tokens /\ "confirm_email" \in Flows
    BY <1>t DEF Open, Flows
  <2>3. NoProof \in Proofs
    BY NothingFacts
  <2>4. /\ \E m \in Held : Goes(c, at'[c], m)
        /\ at[c] = "start" /\ at'[c] = "password" /\ my'[c].flow = "confirm_email" /\ my'[c].tok = t
        /\ my'[c].user = user /\ my'[c].proof = NoProof /\ my'[c].linking = FALSE
    BY <1>p, <2>1, <2>2, <2>3
  <2>5. Begins(c)
    BY <2>1, <2>2, <2>4 DEF Begins
  <2> QED BY <1>b, <2>4, <2>5
<1>4. ASSUME Password(c) PROVE Effect
  BY <1>4, <1>e, <1>g DEF Password, CallMoved
<1>5. ASSUME Succeeded(c) PROVE Effect
  BY <1>5, <1>g DEF Succeeded, CallMoved
<1>6. ASSUME OtpLink(c) PROVE Effect
  <2>1. PICK t \in Open("otp") : Opens(c, "otp_link", t, "exhausted")
    BY <1>6 DEF OtpLink
  <2>2. t \in Nat /\ t \in DOMAIN tokens /\ "otp_link" \in Flows /\ "exhausted" \in Stages
    BY <1>t DEF Open, Flows
  <2>3. /\ \E m \in Held : Goes(c, at'[c], m)
        /\ at[c] = "start" /\ at'[c] = "exhausted" /\ my'[c].flow = "otp_link" /\ my'[c].tok = t
        /\ my'[c].linking = FALSE
    BY <1>o, <2>1, <2>2
  <2>4. Begins(c)
    BY <2>1, <2>2, <2>3 DEF Begins
  <2> QED BY <1>b, <2>3, <2>4
<1>7. ASSUME ConfirmReset(c) PROVE Effect
  <2>1. PICK t \in Open("password_reset") : Opens(c, "confirm_reset", t, "consume")
    BY <1>7 DEF ConfirmReset
  <2>2. t \in Nat /\ t \in DOMAIN tokens /\ "confirm_reset" \in Flows /\ "consume" \in Stages
    BY <1>t DEF Open, Flows
  <2>3. /\ \E m \in Held : Goes(c, at'[c], m)
        /\ at[c] = "start" /\ at'[c] = "consume" /\ my'[c].flow = "confirm_reset" /\ my'[c].tok = t
        /\ my'[c].linking = FALSE
    BY <1>o, <2>1, <2>2
  <2>4. Begins(c)
    BY <2>1, <2>2, <2>3 DEF Begins
  <2> QED BY <1>b, <2>3, <2>4
<1>8. ASSUME AcceptInvite(c) PROVE Effect
  <2>1. PICK t \in Open("invite") : Opens(c, "accept_invite", t, "consume")
    BY <1>8 DEF AcceptInvite
  <2>2. t \in Nat /\ t \in DOMAIN tokens /\ "accept_invite" \in Flows /\ "consume" \in Stages
    BY <1>t DEF Open, Flows
  <2>3. /\ \E m \in Held : Goes(c, at'[c], m)
        /\ at[c] = "start" /\ at'[c] = "consume" /\ my'[c].flow = "accept_invite" /\ my'[c].tok = t
        /\ my'[c].linking = FALSE
    BY <1>o, <2>1, <2>2
  <2>4. Begins(c)
    BY <2>1, <2>2, <2>3 DEF Begins
  <2> QED BY <1>b, <2>3, <2>4
<1>9. ASSUME OtpCode(c) PROVE Effect
  <2>1. PICK m \in Held : m = [Blank EXCEPT !.flow = "otp_code"] /\ m.flow = "otp_code" /\ m.linking = FALSE
    BY FlowHeld DEF Flows
  <2>2. at[c] = "start" /\ Goto(c, "pick") /\ Holds(c, m)
    BY <1>9, <2>1 DEF OtpCode, Starts
  <2> QED BY <1>h, <2>1, <2>2 DEF CallMoved, Begins
<1>10. ASSUME Pick(c) PROVE Effect
  <2>1. CASE End(c)
    BY <2>1, <1>e
  <2>2. ASSUME NEW t \in Open("otp"), Goto(c, "guess"), Holds(c, [my[c] EXCEPT !.tok = t])
        PROVE  Effect
    <3>1. t \in Nat
      BY <1>t DEF Open
    <3>2. PICK m \in Held : m = [my[c] EXCEPT !.tok = t] /\ m.flow = my[c].flow /\ m.tok = t /\ m.linking = my[c].linking
      BY <3>1, <1>t, HeldToken
    <3>3. at[c] = "pick"
      BY <1>10 DEF Pick
    <3> QED BY <1>h, <2>2, <3>2, <3>3 DEF CallMoved
  <2> QED BY <1>10, <2>1, <2>2 DEF Pick
<1>11. ASSUME Guess(c) PROVE Effect
  BY <1>11, <1>e, <1>g DEF Guess, CallMoved, MovesOn
<1>12. ASSUME Exhausted(c) PROVE Effect
  BY <1>12, <1>e, <1>g DEF Exhausted, CallMoved, MovesOn
<1>13. ASSUME Account(c) PROVE Effect
  <2>1. tokens[my[c].tok].proof \in Proofs /\ at[c] = "account"
    BY <1>13, <1>t, RowFields DEF Account, Placed, HasToken
  <2>2. PICK m \in Held : /\ m = [my[c] EXCEPT !.user = user, !.proof = tokens[my[c].tok].proof]
                          /\ m.user = user /\ m.proof = tokens[my[c].tok].proof
                          /\ m.flow = my[c].flow /\ m.tok = my[c].tok /\ m.link = my[c].link
                          /\ m.linking = my[c].linking
    <3>1. LET n == [my[c] EXCEPT !.user = user, !.proof = tokens[my[c].tok].proof] IN
             /\ n \in Held /\ n.user = user /\ n.proof = tokens[my[c].tok].proof
             /\ n.flow = my[c].flow /\ n.tok = my[c].tok /\ n.link = my[c].link
             /\ n.linking = my[c].linking
      BY <1>t, <2>1 DEF Held
    <3> QED BY <3>1
  <2> QED BY <1>13, <1>h, <2>1, <2>2 DEF Account, CallMoved, Refills
<1>14. ASSUME Mfa(c) PROVE Effect
  <2>1. PICK t \in Open("mfa_ticket") :
            Holds(c, [Blank EXCEPT !.flow = "mfa", !.tok = t, !.user.stamp = tokens[t].seen,
                                   !.proof = tokens[t].proof, !.linking = tokens[t].linking])
    BY <1>14 DEF Mfa
  <2>2. t \in Nat /\ tokens[t].seen \in Nat /\ tokens[t].proof \in Proofs /\ tokens[t].linking \in BOOLEAN
    BY <1>t, <2>1, RowFields DEF Open
  <2>3. PICK m \in Held : /\ m = [Blank EXCEPT !.flow = "mfa", !.tok = t, !.user.stamp = tokens[t].seen,
                                   !.proof = tokens[t].proof, !.linking = tokens[t].linking]
                          /\ m.flow = "mfa" /\ m.tok = t /\ m.user.stamp = tokens[t].seen
                          /\ m.proof = tokens[t].proof /\ m.linking = tokens[t].linking
    <3>1. LET n == [Blank EXCEPT !.flow = "mfa", !.tok = t,
                  !.user.stamp = tokens[t].seen, !.proof = tokens[t].proof, !.linking = tokens[t].linking] IN
             /\ n \in Held /\ n.flow = "mfa" /\ n.tok = t
             /\ n.user.stamp = tokens[t].seen /\ n.proof = tokens[t].proof
             /\ n.linking = tokens[t].linking
      <4>1. PICK s \in Nat, p \in Proofs, b \in BOOLEAN :
               s = tokens[t].seen /\ p = tokens[t].proof /\ b = tokens[t].linking
        BY <2>2
      <4>2. "mfa" \in Flows /\ t \in Nat
        BY <2>2 DEF Flows
      <4>3. Blank.user \in UserRows
        BY NothingFacts DEF Held
      <4>4. [Blank.user EXCEPT !.stamp = s] \in UserRows /\ [Blank.user EXCEPT !.stamp = s].stamp = s
        BY <4>1, <4>3, UserChanges
      <4>5. LET n == [Blank EXCEPT !.flow = "mfa", !.tok = t,
                  !.user.stamp = s, !.proof = p, !.linking = b] IN
             /\ n \in Held /\ n.flow = "mfa" /\ n.tok = t
             /\ n.user.stamp = s /\ n.proof = p /\ n.linking = b
        BY <4>1, <4>2, <4>3, <4>4, NothingFacts DEF Held
      <4> QED BY <4>1, <4>5
    <3> QED BY <3>1
  <2>4. at[c] = "start" /\ Goto(c, "attempt")
    BY <1>14 DEF Mfa, Starts
  <2> QED BY <1>h, <2>1, <2>2, <2>3, <2>4 DEF CallMoved, BeginsMfa
<1>15. ASSUME Attempted(c) PROVE Effect
  BY <1>15, <1>e, <1>g DEF Attempted, CallMoved, MovesOn
<1>16. ASSUME Factor(c) PROVE Effect
  BY <1>16, <1>e, <1>g DEF Factor, CallMoved, MovesOn
<1>17. ASSUME Apply(c) PROVE Effect
  BY <1>17, <1>g DEF Apply, history, CallMoved, MovesOn
<1>18. ASSUME Since(c) PROVE Effect
  BY <1>18, <1>e, <1>g DEF Since, CallMoved, MovesOn
<1>19. ASSUME Unlink(c) PROVE Effect
  BY <1>19, <1>e DEF Unlink
<1>20. ASSUME Provider(c) PROVE Effect
  <2>1. CASE link # NoLink
    <3>1. PICK m \in Held : /\ m = [Blank EXCEPT !.flow = "provider", !.link = link]
                            /\ m.flow = "provider" /\ m.link = link /\ m.linking = FALSE
      <4>1. LET n == [Blank EXCEPT !.flow = "provider", !.link = link] IN
               /\ n \in Held /\ n.flow = "provider" /\ n.link = link
               /\ n.linking = FALSE
        BY <1>t, LinkHeld DEF Flows
      <4> QED BY <4>1
    <3> QED BY <1>20, <1>h, <2>1, <3>1 DEF Provider, Starts, CallMoved, Begins
  <2> QED BY <1>20, <1>e, <2>1 DEF Provider
<1>21. ASSUME Linked(c) PROVE Effect
  <2>1. PICK m \in Held : /\ m = [my[c] EXCEPT !.user = user] /\ m.user = user
                          /\ m.flow = my[c].flow /\ m.tok = my[c].tok /\ m.link = my[c].link
                          /\ m.linking = my[c].linking
    BY <1>t, HeldUser
  <2> QED BY <1>21, <1>h, <2>1 DEF Linked, CallMoved, Refills
<1>22. ASSUME Still(c) PROVE Effect
  <2>1. PICK p \in Proofs : p = [link.proof EXCEPT !.sure = @ /\ Settled]
    BY <1>t, ProofUnsure DEF LinkRows
  <2>2. PICK m \in Held : /\ m = [my[c] EXCEPT !.proof = p] /\ m.proof = p
                          /\ m.user = my[c].user
                          /\ m.flow = my[c].flow /\ m.tok = my[c].tok /\ m.link = my[c].link
                          /\ m.linking = my[c].linking
    BY <1>t, HeldProof
  <2>3. at[c] = "still" /\ (End(c) \/ (link = my[c].link /\ Goto(c, "finish") /\ Holds(c, m)))
    BY <1>22, <2>1, <2>2 DEF Still
  <2> QED BY <1>e, <1>h, <2>1, <2>2, <2>3 DEF CallMoved, Refills
<1>23. ASSUME Stamp(c) PROVE Effect
  <2>1. CASE my[c].flow = "accept_invite"
    BY <1>23, <1>e, <2>1 DEF Stamp
  <2>2. CASE my[c].flow # "accept_invite"
    <3>1. Proof("code", user.stamp + 1, TRUE) \in Proofs /\ user.stamp + 1 \in Nat
      BY <1>t DEF UserRows, Kinds, Proof, Proofs
    <3>2. PICK m \in Held : /\ m = [my[c] EXCEPT !.proof = Proof("code", user.stamp + 1, TRUE)]
                            /\ m.proof = Proof("code", user.stamp + 1, TRUE)
                            /\ m.flow = my[c].flow /\ m.tok = my[c].tok /\ m.link = my[c].link
                            /\ m.linking = my[c].linking
      BY <1>t, <3>1, HeldProof
    <3>3. user'.stamp = user.stamp + 1 /\ at[c] = "stamp"
      BY <1>23 DEF Stamp
    <3>4. Goto(c, "void") /\ Holds(c, m)
      BY <1>23, <2>2, <3>2 DEF Stamp
    <3> QED BY <1>h, <2>2, <3>2, <3>3, <3>4 DEF CallMoved, Refills
  <2> QED BY <2>1, <2>2
<1>24. ASSUME Void(c) PROVE Effect
  BY <1>24, <1>g DEF Void, history, CallMoved
<1>25. ASSUME Links(c) PROVE Effect
  BY <1>25, <1>g DEF Links, history, CallMoved, MovesOn
<1>26. ASSUME Restamp(c) PROVE Effect
  <2>1. CASE ~Claims(c)
    BY <1>26, <1>e, <2>1 DEF Restamp
  <2>2. CASE Claims(c)
    <3>1. Proof("code", user.stamp + 1, TRUE) \in Proofs /\ user.stamp + 1 \in Nat
      BY <1>t DEF UserRows, Kinds, Proof, Proofs
    <3>2. user' \in UserRows /\ user'.stamp = user.stamp + 1 /\ at[c] = "restamp"
      BY <1>26, <1>t, <3>1, UserChanges DEF Restamp
    <3>3. PICK u \in UserRows : u = [user' EXCEPT !.totp = FALSE] /\ u.stamp = user'.stamp
      BY <3>2, UserTotpOff
    <3>4. PICK m \in Held : /\ m = [my[c] EXCEPT !.user = u, !.proof = Proof("code", user.stamp + 1, TRUE)]
                            /\ m.user = u /\ m.proof = Proof("code", user.stamp + 1, TRUE)
                            /\ m.flow = my[c].flow /\ m.tok = my[c].tok /\ m.link = my[c].link
                            /\ m.linking = my[c].linking
      <4>1. LET n == [my[c] EXCEPT !.user = u, !.proof = Proof("code", user.stamp + 1, TRUE)] IN
               /\ n \in Held /\ n.user = u
               /\ n.proof = Proof("code", user.stamp + 1, TRUE)
               /\ n.flow = my[c].flow /\ n.tok = my[c].tok /\ n.link = my[c].link
               /\ n.linking = my[c].linking
        BY <1>t, <3>1, <3>3 DEF Held
      <4> QED BY <4>1
    <3>5. Goto(c, "finish") /\ Holds(c, m)
      BY <1>26, <2>2, <3>3, <3>4 DEF Restamp
    <3> QED BY <1>h, <2>2, <3>2, <3>3, <3>4, <3>5 DEF CallMoved, Refills
  <2> QED BY <2>1, <2>2
<1>27. ASSUME Issue(c) PROVE Effect
  <2>1. PICK purpose \in {"otp", "password_reset", "email_change"} :
           /\ Starts(c, purpose)
           /\ tokens' = Append(tokens, Token(purpose, Proof("code", user.stamp, TRUE), 0, FALSE))
           /\ Holds(c, [Blank EXCEPT !.flow = purpose, !.tok = Len(tokens) + 1])
    BY <1>27 DEF Issue
  <2>2. Len(tokens) + 1 \in Nat
    BY DEF SignInTypes
  <2>3. PICK m \in Held : /\ m = [Blank EXCEPT !.flow = purpose, !.tok = Len(tokens) + 1]
                          /\ m.flow = purpose /\ m.tok = Len(tokens) + 1 /\ m.linking = FALSE
    <3>1. LET n == [Blank EXCEPT !.flow = purpose, !.tok = Len(tokens) + 1] IN
             /\ n \in Held /\ n.flow = purpose /\ n.tok = Len(tokens) + 1 /\ n.linking = FALSE
      BY <2>1, <2>2, NothingFacts DEF Held, Flows
    <3> QED BY <3>1
  <2>4. at[c] = "start" /\ Goto(c, "rank")
    BY <1>27, <2>1 DEF Issue, Starts
  <2> QED BY <1>h, <2>1, <2>3, <2>4 DEF CallMoved, Issues
<1>28. ASSUME Rank(c) PROVE Effect
  BY <1>28, <1>e, <1>g DEF Rank, CallMoved
<1>29. ASSUME Supersede(c) PROVE Effect
  BY <1>29, <1>e DEF Supersede
<1>30. ASSUME Consume(c) PROVE Effect
  <2>1. CASE tokens[my[c].tok].used
    BY <1>30, <1>e, <2>1 DEF Consume
  <2>2. CASE ~tokens[my[c].tok].used /\ LetIn(c)
    <3>1. at[c] = "consume" /\ my' = my
      BY <1>30, <2>2 DEF Consume, LetIn
    <3>2. CASE my[c].flow \in {"confirm_reset", "confirm_email", "accept_invite"}
      BY <1>g, <2>2, <3>1, <3>2 DEF LetIn, CallMoved, GetsIn
    <3>3. CASE my[c].flow \in {"otp_link", "otp_code"}
      BY <1>g, <2>2, <3>1, <3>3 DEF LetIn, CallMoved, GetsIn
    <3>4. CASE my[c].flow = "merge_confirm"
      BY <1>g, <2>2, <3>1, <3>4 DEF LetIn, CallMoved, GetsIn
    <3>5. CASE my[c].flow = "mfa"
      BY <1>g, <2>2, <3>1, <3>5 DEF LetIn, CallMoved, GetsIn
    <3> QED BY <1>t, <3>1, <3>2, <3>3, <3>4, <3>5 DEF Placed
  <2> QED BY <1>30, <2>1, <2>2 DEF Consume
<1>31. ASSUME Finish(c) PROVE Effect
  BY <1>31, <1>e DEF Finish
<1> QED BY <1>1, <1>2, <1>3, <1>4, <1>5, <1>6, <1>7, <1>8, <1>9, <1>10, <1>11, <1>12, <1>13, <1>14, <1>15, <1>16, <1>17, <1>18, <1>19, <1>20, <1>21, <1>22, <1>23, <1>24, <1>25, <1>26, <1>27, <1>28, <1>29, <1>30, <1>31 DEF Step

-----------------------------------------------------------------------------
(* What the step of a call does to each of the rows. *)

UserMoved(c) ==
    /\ user' \in UserRows /\ cut' \in [Kinds -> Nat]
    /\ \/ at[c] \notin {"stamp", "restamp"} /\ user'.stamp = user.stamp /\ user'.pw = user.pw /\ cut' = cut
       \/ /\ at[c] = "stamp" /\ at'[c] = IF my[c].flow = "accept_invite" THEN "ended" ELSE "void"
          /\ user'.stamp = user.stamp + 1 /\ cut' = cut
          /\ \/ user'.pw \in {user.stamp + 1, Unusable}
             \/ my[c].flow = "confirm_email" /\ user'.pw = user.pw
       \/ /\ at[c] = "restamp" /\ at'[c] \in {"finish", "ended"}
          /\ user'.stamp = user.stamp + 1 /\ user'.pw = user.pw
          /\ TakesBack(c)

LEMMA UserMoves ==
    ASSUME SignInTypes, CallsPlaced, Cuts, NEW c \in Calls, Step(c)
    PROVE  UserMoved(c)
<1>t. /\ user \in UserRows /\ cut \in [Kinds -> Nat] /\ Placed(c) /\ at \in [Calls -> Stages]
      /\ user.stamp \in Nat /\ user.stamp + 1 \in Nat
  BY DEF SignInTypes, CallsPlaced, UserRows
<1>s. ASSUME user' = user, cut' = cut, at[c] \notin {"stamp", "restamp"} PROVE UserMoved(c)
  BY <1>s, <1>t DEF UserMoved
<1>1. ASSUME Login(c) \/ MergeConfirm(c) \/ ConfirmEmailChange(c) PROVE UserMoved(c)
  BY <1>1, <1>s DEF Login, MergeConfirm, ConfirmEmailChange, Presents, Starts, history
<1>2. ASSUME OtpLink(c) \/ ConfirmReset(c) \/ AcceptInvite(c) PROVE UserMoved(c)
  BY <1>2, <1>s DEF OtpLink, ConfirmReset, AcceptInvite, Opens, Starts, db, history
<1>3. ASSUME OtpCode(c) \/ Mfa(c) \/ Provider(c) \/ Issue(c) PROVE UserMoved(c)
  BY <1>3, <1>s DEF OtpCode, Mfa, Provider, Issue, Starts, history
<1>4. ASSUME Password(c) \/ Succeeded(c) \/ Pick(c) \/ Guess(c) \/ Exhausted(c) PROVE UserMoved(c)
  BY <1>4, <1>s DEF Password, Succeeded, Pick, Guess, Exhausted, history
<1>5. ASSUME Account(c) \/ Attempted(c) \/ Factor(c) \/ Since(c) \/ Unlink(c) PROVE UserMoved(c)
  BY <1>5, <1>s DEF Account, Attempted, Factor, Since, Unlink, db, history
<1>6. ASSUME Linked(c) \/ Still(c) \/ Void(c) \/ Links(c) PROVE UserMoved(c)
  BY <1>6, <1>s DEF Linked, Still, Void, Links, db, history
<1>7. ASSUME Rank(c) \/ Supersede(c) \/ Consume(c) \/ Finish(c) PROVE UserMoved(c)
  BY <1>7, <1>s DEF Rank, Supersede, Consume, Finish, history
<1>8. ASSUME Apply(c) PROVE UserMoved(c)
  <2>1. user' = [user EXCEPT !.verified = TRUE] /\ cut' = cut /\ at[c] = "apply"
    BY <1>8 DEF Apply, history
  <2>2. user' \in UserRows /\ user'.stamp = user.stamp /\ user'.pw = user.pw
    BY <1>t, <2>1 DEF UserRows
  <2> QED BY <1>t, <2>1, <2>2 DEF UserMoved
<1>9. ASSUME Stamp(c) PROVE UserMoved(c)
  <2>1. at[c] = "stamp" /\ cut' = cut /\ at'[c] = IF my[c].flow = "accept_invite" THEN "ended" ELSE "void"
    BY <1>9, <1>t DEF Stamp, End, Goto, history
  <2>2. user'.stamp = user.stamp + 1
    BY <1>9 DEF Stamp
  <2>3. /\ user'.pw \in Int
        /\ \/ user'.pw \in {user.stamp + 1, Unusable}
           \/ my[c].flow = "confirm_email" /\ user'.pw = user.pw
    BY <1>9, <1>t, <2>1 DEF Stamp, Claims, Placed, UserRows, Unusable
  <2>4. user' \in UserRows
    <3>1. user'.verified \in BOOLEAN /\ user'.totp \in BOOLEAN
      BY <1>9, <1>t DEF Stamp, UserRows
    <3>2. user' = [pw |-> user'.pw, verified |-> user'.verified, totp |-> user'.totp, stamp |-> user'.stamp]
      BY <1>9 DEF Stamp
    <3> QED BY <1>t, <2>2, <2>3, <3>1, <3>2 DEF UserRows
  <2> QED BY <1>t, <2>1, <2>2, <2>3, <2>4 DEF UserMoved
<1>10. ASSUME Restamp(c) PROVE UserMoved(c)
  <2>1. /\ user' = [user EXCEPT !.stamp = @ + 1] /\ TakesBack(c) /\ at[c] = "restamp"
        /\ at'[c] \in {"finish", "ended"}
    BY <1>10, <1>t DEF Restamp, End, Goto
  <2>2. user' \in UserRows /\ user'.stamp = user.stamp + 1 /\ user'.pw = user.pw
    BY <1>t, <2>1 DEF UserRows
  <2>3. my[c].proof.stamp \in Nat
    BY <2>1 DEF Cuts
  <2>4. cut' \in [Kinds -> Nat]
    BY <1>t, <2>1, <2>3 DEF TakesBack, Later
  <2> QED BY <2>1, <2>2, <2>4 DEF UserMoved
<1> QED BY <1>1, <1>2, <1>3, <1>4, <1>5, <1>6, <1>7, <1>8, <1>9, <1>10 DEF Step

LinkMoved(c) ==
    /\ link' \in LinkRows
    /\ at[c] = "since" => /\ link' = link
                          /\ \/ at'[c] = "ended" /\ my[c].user.stamp = user.stamp
                             \/ at'[c] = "unlink"
                             \/ my[c].flow # "merge_confirm" /\ ~my[c].linking
    /\ \/ link' = link /\ at[c] \notin {"unlink", "links"}
       \/ link' = NoLink /\ at[c] \in {"unlink", "links"}
       \/ /\ at[c] = "apply" /\ at'[c] = "since" /\ my'[c] = my[c]
          /\ link' = [by |-> c, proof |-> [my[c].proof EXCEPT !.kind = "provider"]]

LEMMA LinkMoves ==
    ASSUME SignInTypes, NEW c \in Calls, Step(c)
    PROVE  LinkMoved(c)
<1>t. link \in LinkRows /\ my[c] \in Held /\ at \in [Calls -> Stages] /\ NoLink \in LinkRows
  BY NothingFacts DEF SignInTypes
<1>s. ASSUME link' = link, at[c] \notin {"unlink", "links", "since"} PROVE LinkMoved(c)
  BY <1>s, <1>t DEF LinkMoved
<1>1. ASSUME Login(c) \/ MergeConfirm(c) \/ ConfirmEmailChange(c) PROVE LinkMoved(c)
  BY <1>1, <1>s DEF Login, MergeConfirm, ConfirmEmailChange, Presents, Starts
<1>2. ASSUME OtpLink(c) \/ ConfirmReset(c) \/ AcceptInvite(c) PROVE LinkMoved(c)
  BY <1>2, <1>s DEF OtpLink, ConfirmReset, AcceptInvite, Opens, Starts, db
<1>3. ASSUME OtpCode(c) \/ Mfa(c) \/ Provider(c) \/ Issue(c) PROVE LinkMoved(c)
  BY <1>3, <1>s DEF OtpCode, Mfa, Provider, Issue, Starts
<1>4. ASSUME Password(c) \/ Succeeded(c) \/ Pick(c) \/ Guess(c) \/ Exhausted(c) PROVE LinkMoved(c)
  BY <1>4, <1>s DEF Password, Succeeded, Pick, Guess, Exhausted
<1>5. ASSUME Account(c) \/ Attempted(c) \/ Factor(c) \/ Stamp(c) \/ Restamp(c) PROVE LinkMoved(c)
  BY <1>5, <1>s DEF Account, Attempted, Factor, Stamp, Restamp, db
<1>6. ASSUME Linked(c) \/ Still(c) \/ Void(c) PROVE LinkMoved(c)
  BY <1>6, <1>s DEF Linked, Still, Void, db
<1>7. ASSUME Rank(c) \/ Supersede(c) \/ Consume(c) \/ Finish(c) PROVE LinkMoved(c)
  BY <1>7, <1>s DEF Rank, Supersede, Consume, Finish
<1>8. ASSUME Apply(c) PROVE LinkMoved(c)
  <2>1. at[c] = "apply" /\ at'[c] = "since" /\ my'[c] = my[c]
    BY <1>8, <1>t DEF Apply, Goto
  <2>2. CASE link # NoLink
    BY <1>8, <1>t, <2>1, <2>2 DEF Apply, LinkMoved
  <2>3. CASE link = NoLink
    <3>1. link' = [by |-> c, proof |-> [my[c].proof EXCEPT !.kind = "provider"]]
      BY <1>8, <2>3 DEF Apply
    <3>2. [my[c].proof EXCEPT !.kind = "provider"] \in Proofs
      BY <1>t DEF Held, Proofs, Kinds
    <3>3. link' \in LinkRows
      BY <3>1, <3>2 DEF LinkRows
    <3> QED BY <2>1, <3>1, <3>3 DEF LinkMoved
  <2> QED BY <2>2, <2>3
<1>9. ASSUME Unlink(c) \/ Links(c) PROVE LinkMoved(c)
  BY <1>9, <1>t DEF Unlink, Links, LinkMoved
<1>10. ASSUME Since(c) PROVE LinkMoved(c)
  <2>1. link' = link /\ at[c] = "since"
    BY <1>10 DEF Since, db
  <2>2. \/ at'[c] = "ended" /\ my[c].user.stamp = user.stamp
        \/ at'[c] = "unlink"
        \/ my[c].flow # "merge_confirm" /\ ~my[c].linking
    BY <1>10, <1>t DEF Since, End, Goto
  <2> QED BY <1>t, <2>1, <2>2 DEF LinkMoved
<1> QED BY <1>1, <1>2, <1>3, <1>4, <1>5, <1>6, <1>7, <1>8, <1>9, <1>10 DEF Step

SessionsMoved(c) ==
    \/ sessions' = sessions
    \/ /\ at[c] \in {"finish", "since"}
       /\ sessions' = sessions \cup {[rs |-> my[c].user.stamp, proof |-> my[c].proof]}

LEMMA SessionsMove ==
    ASSUME NEW c \in Calls, Step(c)
    PROVE  SessionsMoved(c)
<1>1. ASSUME Login(c) \/ MergeConfirm(c) \/ ConfirmEmailChange(c) PROVE SessionsMoved(c)
  BY <1>1 DEF Login, MergeConfirm, ConfirmEmailChange, Presents, SessionsMoved
<1>2. ASSUME OtpLink(c) \/ ConfirmReset(c) \/ AcceptInvite(c) PROVE SessionsMoved(c)
  BY <1>2 DEF OtpLink, ConfirmReset, AcceptInvite, Opens, SessionsMoved
<1>3. ASSUME OtpCode(c) \/ Mfa(c) \/ Provider(c) \/ Issue(c) PROVE SessionsMoved(c)
  BY <1>3 DEF OtpCode, Mfa, Provider, Issue, SessionsMoved
<1>4. ASSUME Password(c) \/ Succeeded(c) \/ Pick(c) \/ Guess(c) \/ Exhausted(c) PROVE SessionsMoved(c)
  BY <1>4 DEF Password, Succeeded, Pick, Guess, Exhausted, SessionsMoved
<1>5. ASSUME Account(c) \/ Attempted(c) \/ Factor(c) \/ Stamp(c) \/ Restamp(c) PROVE SessionsMoved(c)
  BY <1>5 DEF Account, Attempted, Factor, Stamp, Restamp, SessionsMoved
<1>6. ASSUME Linked(c) \/ Still(c) \/ Void(c) \/ Apply(c) \/ Unlink(c) \/ Links(c) PROVE SessionsMoved(c)
  BY <1>6 DEF Linked, Still, Void, Apply, Unlink, Links, SessionsMoved
<1>7. ASSUME Rank(c) \/ Supersede(c) \/ Consume(c) PROVE SessionsMoved(c)
  BY <1>7 DEF Rank, Supersede, Consume, LetIn, SessionsMoved
<1>8. ASSUME Finish(c) \/ Since(c) PROVE SessionsMoved(c)
  BY <1>8 DEF Finish, Since, Mint, SessionsMoved
<1> QED BY <1>1, <1>2, <1>3, <1>4, <1>5, <1>6, <1>7, <1>8 DEF Step

ActedMoved(c) ==
    \/ acted' = acted /\ factors' = factors
    \/ /\ at[c] = "consume" /\ ~tokens[my[c].tok].used /\ Spends({my[c].tok})
       /\ acted' = acted \cup {<<c, my[c].tok>>} /\ factors' = factors
    \/ /\ at[c] = "factor" /\ tokens' = tokens
       /\ \E f \in Factors \ factors : acted' = acted \cup {<<c, f>>} /\ factors' = factors \cup {f}

LEMMA ActedMoves ==
    ASSUME NEW c \in Calls, Step(c)
    PROVE  ActedMoved(c)
<1>1. ASSUME Login(c) \/ MergeConfirm(c) \/ ConfirmEmailChange(c) PROVE ActedMoved(c)
  BY <1>1 DEF Login, MergeConfirm, ConfirmEmailChange, Presents, history, ActedMoved
<1>2. ASSUME OtpLink(c) \/ ConfirmReset(c) \/ AcceptInvite(c) PROVE ActedMoved(c)
  BY <1>2 DEF OtpLink, ConfirmReset, AcceptInvite, Opens, db, history, ActedMoved
<1>3. ASSUME OtpCode(c) \/ Mfa(c) \/ Provider(c) \/ Issue(c) PROVE ActedMoved(c)
  BY <1>3 DEF OtpCode, Mfa, Provider, Issue, history, ActedMoved
<1>4. ASSUME Password(c) \/ Succeeded(c) \/ Pick(c) \/ Guess(c) \/ Exhausted(c) PROVE ActedMoved(c)
  BY <1>4 DEF Password, Succeeded, Pick, Guess, Exhausted, history, ActedMoved
<1>5. ASSUME Account(c) \/ Attempted(c) \/ Stamp(c) \/ Restamp(c) PROVE ActedMoved(c)
  BY <1>5 DEF Account, Attempted, Stamp, Restamp, db, history, ActedMoved
<1>6. ASSUME Linked(c) \/ Still(c) \/ Void(c) \/ Apply(c) \/ Unlink(c) \/ Links(c) PROVE ActedMoved(c)
  BY <1>6 DEF Linked, Still, Void, Apply, Unlink, Links, db, history, ActedMoved
<1>7. ASSUME Rank(c) \/ Supersede(c) \/ Finish(c) \/ Since(c) PROVE ActedMoved(c)
  BY <1>7 DEF Rank, Supersede, Finish, Since, db, history, ActedMoved
<1>8. ASSUME Consume(c) PROVE ActedMoved(c)
  BY <1>8 DEF Consume, LetIn, ActedMoved
<1>9. ASSUME Factor(c) PROVE ActedMoved(c)
  BY <1>9 DEF Factor, ActedMoved
<1> QED BY <1>1, <1>2, <1>3, <1>4, <1>5, <1>6, <1>7, <1>8, <1>9 DEF Step

ComparedMoved(c) ==
    \/ compared' = compared
    \/ /\ my[c].tok \in DOMAIN tokens /\ Spendable(my[c].tok) /\ Attempt(my[c].tok)
       /\ compared' = compared \cup {<<c, my[c].tok>>}

LEMMA ComparedMoves ==
    ASSUME CallsPlaced, NEW c \in Calls, Step(c)
    PROVE  ComparedMoved(c)
<1>1. ASSUME Login(c) \/ MergeConfirm(c) \/ ConfirmEmailChange(c) PROVE ComparedMoved(c)
  BY <1>1 DEF Login, MergeConfirm, ConfirmEmailChange, Presents, history, ComparedMoved
<1>2. ASSUME OtpLink(c) \/ ConfirmReset(c) \/ AcceptInvite(c) PROVE ComparedMoved(c)
  BY <1>2 DEF OtpLink, ConfirmReset, AcceptInvite, Opens, history, ComparedMoved
<1>3. ASSUME OtpCode(c) \/ Mfa(c) \/ Provider(c) \/ Issue(c) PROVE ComparedMoved(c)
  BY <1>3 DEF OtpCode, Mfa, Provider, Issue, history, ComparedMoved
<1>4. ASSUME Password(c) \/ Succeeded(c) \/ Pick(c) \/ Exhausted(c) PROVE ComparedMoved(c)
  BY <1>4 DEF Password, Succeeded, Pick, Exhausted, history, ComparedMoved
<1>5. ASSUME Account(c) \/ Factor(c) \/ Stamp(c) \/ Restamp(c) PROVE ComparedMoved(c)
  BY <1>5 DEF Account, Factor, Stamp, Restamp, history, ComparedMoved
<1>6. ASSUME Linked(c) \/ Still(c) \/ Void(c) \/ Apply(c) \/ Unlink(c) \/ Links(c) PROVE ComparedMoved(c)
  BY <1>6 DEF Linked, Still, Void, Apply, Unlink, Links, history, ComparedMoved
<1>7. ASSUME Rank(c) \/ Supersede(c) \/ Finish(c) \/ Since(c) \/ Consume(c) PROVE ComparedMoved(c)
  BY <1>7 DEF Rank, Supersede, Finish, Since, Consume, history, ComparedMoved
<1>8. ASSUME Guess(c) PROVE ComparedMoved(c)
  BY <1>8 DEF Guess, CallsPlaced, Placed, HasToken, ComparedMoved
<1>9. ASSUME Attempted(c) PROVE ComparedMoved(c)
  BY <1>9 DEF Attempted, CallsPlaced, Placed, HasToken, ComparedMoved
<1> QED BY <1>1, <1>2, <1>3, <1>4, <1>5, <1>6, <1>7, <1>8, <1>9 DEF Step

\* The effect of c's step on a budget; it waits for the count at one stage and
\* may guess at the next.
ChargedAs(c, b, wait, guess) ==
    \/ charges'[b] = charges[b] /\ missed'[b] = missed[b] /\ at'[c] \notin {wait, guess}
    \/ charges'[b] = charges[b] \cup {c} /\ missed'[b] = missed[b] /\ at'[c] = wait
    \/ /\ at[c] = wait /\ at'[c] = guess /\ ~Over(b)
       /\ charges'[b] = charges[b] /\ missed'[b] = missed[b]
    \/ charges'[b] = charges[b] \ {c} /\ missed'[b] = missed[b] /\ at'[c] \notin {wait, guess}
    \/ /\ at[c] = guess /\ at'[c] = "ended"
       /\ charges'[b] = charges[b] /\ missed'[b] = missed[b] \cup {c}

ChargesMoved(c) ==
    /\ charges' \in [Budgets -> SUBSET Calls] /\ missed' \in [Budgets -> SUBSET Calls] /\ at[c] # "ended"
    /\ ChargedAs(c, "otp", "pick", "guess") /\ ChargedAs(c, "mfa", "attempt", "factor")

LEMMA ChargesMove ==
    ASSUME SignInTypes, CallsPlaced, NEW c \in Calls, Step(c)
    PROVE  ChargesMoved(c)
<1>t. /\ at \in [Calls -> Stages] /\ charges \in [Budgets -> SUBSET Calls] /\ missed \in [Budgets -> SUBSET Calls]
      /\ Placed(c)
  BY DEF SignInTypes, CallsPlaced
<1> USE DEF Budgets
<1>s. ASSUME charges' = charges, missed' = missed, at[c] # "ended", NEW stage,
             Goto(c, stage), stage \notin {"pick", "guess", "attempt", "factor"}
      PROVE  ChargesMoved(c)
  BY <1>s, <1>t DEF Goto, ChargesMoved, ChargedAs
<1>p. ASSUME charges' \in [Budgets -> SUBSET Calls], charges'["otp"] = charges["otp"], charges'["mfa"] = charges["mfa"],
             missed' \in [Budgets -> SUBSET Calls], missed'["otp"] = missed["otp"], missed'["mfa"] = missed["mfa"],
             at[c] # "ended", at'[c] \notin {"pick", "guess", "attempt", "factor"}
      PROVE  ChargesMoved(c)
  BY <1>p DEF ChargesMoved, ChargedAs
<1>q. ASSUME Charge("password", c) PROVE /\ charges' \in [Budgets -> SUBSET Calls]
                                         /\ charges'["otp"] = charges["otp"] /\ charges'["mfa"] = charges["mfa"]
  BY <1>q, <1>t DEF Charge
<1>1. ASSUME Login(c) \/ MergeConfirm(c) \/ ConfirmEmailChange(c) PROVE ChargesMoved(c)
  <2>1. Charge("password", c) /\ at[c] = "start" /\ Goto(c, "password") /\ missed' = missed
    BY <1>1 DEF Login, MergeConfirm, ConfirmEmailChange, Presents, Starts, history
  <2>2. at'[c] = "password"
    BY <1>t, <2>1 DEF Goto
  <2> QED BY <1>t, <1>p, <1>q, <2>1, <2>2
<1>2. ASSUME OtpLink(c) \/ ConfirmReset(c) \/ AcceptInvite(c) PROVE ChargesMoved(c)
  BY <1>2, <1>s DEF OtpLink, ConfirmReset, AcceptInvite, Opens, Starts, db, history
<1>3. ASSUME OtpCode(c) \/ Mfa(c) PROVE ChargesMoved(c)
  <2>1. /\ at[c] = "start" /\ missed' = missed
        /\ \/ Charge("otp", c) /\ Goto(c, "pick")
           \/ Charge("mfa", c) /\ Goto(c, "attempt")
    BY <1>3 DEF OtpCode, Mfa, Starts, history
  <2>2. charges' \in [Budgets -> SUBSET Calls]
    BY <1>t, <2>1 DEF Charge
  <2>3. \/ /\ charges'["otp"] = charges["otp"] \cup {c} /\ charges'["mfa"] = charges["mfa"]
           /\ at'[c] = "pick"
        \/ /\ charges'["mfa"] = charges["mfa"] \cup {c} /\ charges'["otp"] = charges["otp"]
           /\ at'[c] = "attempt"
    BY <1>t, <2>1 DEF Charge, Goto
  <2> QED BY <1>t, <2>1, <2>2, <2>3 DEF ChargesMoved, ChargedAs
<1>4. ASSUME Provider(c) \/ Issue(c) \/ Account(c) \/ Exhausted(c) PROVE ChargesMoved(c)
  BY <1>4, <1>s DEF Provider, Issue, Account, Exhausted, Starts, End, db, history
<1>5. ASSUME Stamp(c) \/ Restamp(c) \/ Linked(c) \/ Still(c) \/ Void(c) PROVE ChargesMoved(c)
  BY <1>5, <1>s DEF Stamp, Restamp, Linked, Still, Void, End, db, history
<1>6. ASSUME Apply(c) \/ Unlink(c) \/ Links(c) \/ Rank(c) \/ Supersede(c) PROVE ChargesMoved(c)
  BY <1>6, <1>s DEF Apply, Unlink, Links, Rank, Supersede, End, db, history
<1>7. ASSUME Finish(c) \/ Since(c) PROVE ChargesMoved(c)
  BY <1>7, <1>s DEF Finish, Since, End, db, history
<1>8. ASSUME Consume(c) PROVE ChargesMoved(c)
  <2>1. charges' = charges /\ missed' = missed /\ at[c] = "consume"
    BY <1>8 DEF Consume, LetIn
  <2>2. CASE End(c)
    BY <1>s, <2>1, <2>2 DEF End
  <2>3. CASE LetIn(c)
    <3>1. PICK stage : Goto(c, stage) /\ stage \in {"stamp", "finish", "apply", "since"}
      BY <1>t, <2>1, <2>3 DEF LetIn, Placed
    <3> QED BY <1>s, <2>1, <3>1
  <2> QED BY <1>8, <2>2, <2>3 DEF Consume
<1>9. ASSUME Password(c) PROVE ChargesMoved(c)
  <2>1. /\ \/ charges' = charges /\ Misses("password", c)
           \/ Release("password", c) /\ missed' = missed
           \/ charges' = charges /\ missed' = missed
        /\ at[c] = "password" /\ (End(c) \/ Goto(c, "succeeded"))
    BY <1>9 DEF Password
  <2>2. at'[c] \in {"ended", "succeeded"}
    BY <1>t, <2>1 DEF End, Goto
  <2>3. /\ charges' \in [Budgets -> SUBSET Calls] /\ missed' \in [Budgets -> SUBSET Calls]
        /\ charges'["otp"] = charges["otp"] /\ charges'["mfa"] = charges["mfa"]
        /\ missed'["otp"] = missed["otp"] /\ missed'["mfa"] = missed["mfa"]
    BY <1>t, <2>1 DEF Release, Misses
  <2> QED BY <1>p, <2>1, <2>2, <2>3
<1>10. ASSUME Succeeded(c) PROVE ChargesMoved(c)
  <2>1. charges' = [charges EXCEPT !["password"] = {}] /\ missed' = missed /\ at[c] = "succeeded"
        /\ at'[c] \in {"finish", "consume"}
    BY <1>10, <1>t DEF Succeeded, Goto, history
  <2> QED BY <1>t, <1>p, <2>1
<1>11. ASSUME Pick(c) PROVE ChargesMoved(c)
  BY <1>11, <1>t DEF Pick, End, Goto, Release, history, ChargesMoved, ChargedAs
<1>12. ASSUME Guess(c) PROVE ChargesMoved(c)
  BY <1>12, <1>t DEF Guess, End, Goto, Release, Misses, ChargesMoved, ChargedAs
<1>13. ASSUME Attempted(c) PROVE ChargesMoved(c)
  BY <1>13, <1>t DEF Attempted, End, Goto, Release, ChargesMoved, ChargedAs
<1>14. ASSUME Factor(c) PROVE ChargesMoved(c)
  BY <1>14, <1>t DEF Factor, End, Goto, Release, Misses, ChargesMoved, ChargedAs
<1> QED BY <1>1, <1>2, <1>3, <1>4, <1>5, <1>6, <1>7, <1>8, <1>9, <1>10, <1>11, <1>12, <1>13, <1>14 DEF Step

Fresh(c, t) ==
    \/ /\ Issues(c) /\ my'[c].tok = t
       /\ tokens'[t] = Token(my'[c].flow, Proof("code", user.stamp, TRUE), 0, FALSE)
    \/ tokens'[t] = Token("oauth2_merge", NoProof, 0, TRUE)
    \/ /\ at[c] = "finish"
       /\ tokens'[t] = Token("mfa_ticket", my[c].proof, my[c].user.stamp, my[c].flow = "merge_confirm")

RowsMoved(c) ==
    /\ TokensMoved
    /\ \A t \in DOMAIN tokens : tokens'[t].purpose # tokens[t].purpose => at[c] = "rank" /\ t = my[c].tok
    /\ \A t \in DOMAIN tokens' : t \in DOMAIN tokens \/ (t = Len(tokens) + 1 /\ Fresh(c, t))
    /\ at[c] = "void" => \A t \in DOMAIN tokens' : tokens'[t].used
    /\ at[c] \in {"rank", "supersede"} =>
         \/ at[c] = "rank" /\ at'[c] = "supersede" /\ my'[c] = my[c]
         \/ my[c].flow = "password_reset"
         \/ tokens'[my[c].tok].purpose = "deleted" \/ tokens'[my[c].tok].used
         \/ \A t \in Open(my[c].flow) : t # my[c].tok => tokens'[t].used

LEMMA RowsMove ==
    ASSUME SignInTypes, CallsPlaced, NEW c \in Calls, Step(c), CallMoved(c)
    PROVE  RowsMoved(c)
<1>t. /\ tokens \in Seq(TokenRows) /\ at \in [Calls -> Stages] /\ my[c] \in Held /\ user \in UserRows
      /\ Placed(c) /\ my \in [Calls -> Held]
  BY DEF SignInTypes, CallsPlaced
<1>s. ASSUME tokens' = tokens, at[c] \notin {"rank", "supersede", "void"} PROVE RowsMoved(c)
  BY <1>s, <1>t, TokensSame DEF RowsMoved
<1>m. ASSUME NEW ids, Spends(ids), at[c] \notin {"rank", "supersede", "void"} PROVE RowsMoved(c)
  <2>1. /\ TokensMoved /\ DOMAIN tokens' = DOMAIN tokens
        /\ \A t \in DOMAIN tokens : tokens'[t].purpose = tokens[t].purpose
    BY <1>m, <1>t, TokensSpent
  <2> QED BY <1>m, <2>1 DEF RowsMoved
<1>a. ASSUME my[c].tok \in DOMAIN tokens, Attempt(my[c].tok), at[c] \notin {"rank", "supersede", "void"} PROVE RowsMoved(c)
  <2>1. PICK k \in DOMAIN tokens : k = my[c].tok
    BY <1>a
  <2>2. Attempt(k)
    BY <1>a, <2>1
  <2>3. /\ TokensMoved /\ DOMAIN tokens' = DOMAIN tokens
        /\ tokens'[k].purpose = tokens[k].purpose
        /\ \A s \in DOMAIN tokens : s # k => tokens'[s] = tokens[s]
    BY <1>t, <2>2, TokensAttempted
  <2> QED BY <1>a, <2>1, <2>3 DEF RowsMoved
<1>f. ASSUME NEW r \in TokenRows, tokens' = Append(tokens, r), at[c] \notin {"rank", "supersede", "void"},
             tokens'[Len(tokens) + 1] = r => Fresh(c, Len(tokens) + 1)
      PROVE  RowsMoved(c)
  <2>1. /\ TokensMoved /\ DOMAIN tokens' = DOMAIN tokens \cup {Len(tokens) + 1}
        /\ tokens'[Len(tokens) + 1] = r
        /\ \A t \in DOMAIN tokens : tokens'[t] = tokens[t]
    BY <1>f, <1>t, TokensAppended
  <2> QED BY <1>f, <2>1 DEF RowsMoved
<1>1. ASSUME Login(c) \/ MergeConfirm(c) \/ ConfirmEmailChange(c) PROVE RowsMoved(c)
  BY <1>1, <1>s DEF Login, MergeConfirm, ConfirmEmailChange, Presents, Starts
<1>2. ASSUME OtpLink(c) \/ ConfirmReset(c) \/ AcceptInvite(c) PROVE RowsMoved(c)
  BY <1>2, <1>s DEF OtpLink, ConfirmReset, AcceptInvite, Opens, Starts, db
<1>3. ASSUME OtpCode(c) \/ Mfa(c) \/ Password(c) \/ Succeeded(c) \/ Pick(c) PROVE RowsMoved(c)
  BY <1>3, <1>s DEF OtpCode, Mfa, Password, Succeeded, Pick, Starts
<1>4. ASSUME Account(c) \/ Factor(c) \/ Stamp(c) \/ Restamp(c) \/ Linked(c) \/ Still(c) PROVE RowsMoved(c)
  BY <1>4, <1>s DEF Account, Factor, Stamp, Restamp, Linked, Still, db
<1>5. ASSUME Apply(c) \/ Unlink(c) \/ Links(c) \/ Since(c) PROVE RowsMoved(c)
  BY <1>5, <1>s DEF Apply, Unlink, Links, Since, db
<1>6. ASSUME Guess(c) PROVE RowsMoved(c)
  BY <1>6, <1>t, <1>s, <1>a DEF Guess, Placed, HasToken
<1>7. ASSUME Attempted(c) PROVE RowsMoved(c)
  BY <1>7, <1>t, <1>s, <1>a DEF Attempted, Placed, HasToken
<1>8. ASSUME Exhausted(c) PROVE RowsMoved(c)
  BY <1>8, <1>s, <1>m DEF Exhausted
<1>9. ASSUME Consume(c) PROVE RowsMoved(c)
  BY <1>9, <1>s, <1>m DEF Consume, LetIn
<1>10. ASSUME Finish(c) PROVE RowsMoved(c)
  <2>1. CASE tokens' = tokens
    BY <1>10, <1>s, <2>1 DEF Finish
  <2>2. CASE tokens' = Append(tokens, Token("mfa_ticket", my[c].proof, my[c].user.stamp, my[c].flow = "merge_confirm"))
    <3>1. my[c].proof \in Proofs /\ my[c].user.stamp \in Nat
      BY <1>t DEF Held, UserRows
    <3>2. Token("mfa_ticket", my[c].proof, my[c].user.stamp, my[c].flow = "merge_confirm") \in TokenRows
      BY <3>1 DEF Token, TokenRows, Purposes
    <3> QED BY <1>10, <1>f, <2>2, <3>2 DEF Finish, Fresh
  <2> QED BY <1>10, <2>1, <2>2 DEF Finish
<1>11. ASSUME Provider(c) PROVE RowsMoved(c)
  <2>1. CASE tokens' = tokens
    BY <1>11, <1>s, <2>1 DEF Provider, Starts
  <2>2. CASE tokens' = Append(tokens, Token("oauth2_merge", NoProof, 0, TRUE))
    <3>2. Token("oauth2_merge", NoProof, 0, TRUE) \in TokenRows
      BY NothingFacts DEF Token, TokenRows, Purposes
    <3> QED BY <1>11, <1>f, <2>2, <3>2 DEF Provider, Starts, Fresh
  <2> QED BY <1>11, <2>1, <2>2 DEF Provider
<1>12. ASSUME Issue(c) PROVE RowsMoved(c)
  <2>1. Issues(c)
    <3>1. at[c] = "start" /\ at'[c] = "rank"
      BY <1>12, <1>t DEF Issue, Starts, Goto
    <3> QED BY <3>1, <1>12, <1>t DEF CallMoved, MovesOn, Begins, BeginsMfa, GetsIn, Refills
  <2>2. PICK r \in TokenRows : r = Token(my'[c].flow, Proof("code", user.stamp, TRUE), 0, FALSE)
    <3>1. my'[c].flow \in Purposes /\ Proof("code", user.stamp, TRUE) \in Proofs
      BY <1>t, <2>1 DEF Issues, Purposes, Proof, Proofs, Kinds, UserRows
    <3> QED BY <3>1 DEF Token, TokenRows
  <2>3. tokens' = Append(tokens, r) /\ my'[c].tok = Len(tokens) + 1 /\ at[c] = "start"
    BY <2>1, <2>2 DEF Issues
  <2> QED BY <1>f, <2>1, <2>2, <2>3 DEF Fresh
<1>13. ASSUME Void(c) PROVE RowsMoved(c)
  <2>1. Spends(DOMAIN tokens) /\ at[c] = "void"
    BY <1>13 DEF Void
  <2>2. /\ TokensMoved /\ DOMAIN tokens' = DOMAIN tokens
        /\ \A t \in DOMAIN tokens : tokens'[t].purpose = tokens[t].purpose /\ tokens'[t].used
    BY <1>t, <2>1, TokensSpent
  <2> QED BY <2>1, <2>2 DEF RowsMoved
<1>r. ASSUME NEW ids, Spends(ids), at[c] \in {"rank", "supersede"},
             my[c].tok \in ids \/ ids = Open(my[c].flow) \ {my[c].tok}
      PROVE  RowsMoved(c)
  <2>1. /\ TokensMoved /\ DOMAIN tokens' = DOMAIN tokens
        /\ \A t \in DOMAIN tokens : tokens'[t].purpose = tokens[t].purpose /\ (t \in ids => tokens'[t].used)
    BY <1>r, <1>t, TokensSpent
  <2>2. my[c].tok \in DOMAIN tokens /\ Open(my[c].flow) \subseteq DOMAIN tokens
    BY <1>r, <1>t DEF Placed, HasToken, Open
  <2> QED BY <1>r, <2>1, <2>2 DEF RowsMoved
<1>14. ASSUME Supersede(c) PROVE RowsMoved(c)
  BY <1>14, <1>r DEF Supersede
<1>15. ASSUME Rank(c) PROVE RowsMoved(c)
  <2>1. at[c] = "rank" /\ my[c].tok \in DOMAIN tokens
    BY <1>15, <1>t DEF Rank, Placed, HasToken
  <2>2. CASE tokens' = [tokens EXCEPT ![my[c].tok].purpose = "deleted"]
    <3>1. PICK k \in DOMAIN tokens : k = my[c].tok
      BY <2>1
    <3>2. tokens' = [tokens EXCEPT ![k].purpose = "deleted"]
      BY <2>2, <3>1
    <3>3. /\ TokensMoved /\ DOMAIN tokens' = DOMAIN tokens /\ tokens'[k].purpose = "deleted"
          /\ \A s \in DOMAIN tokens : s # k => tokens'[s] = tokens[s]
      BY <1>t, <3>2, TokensDeleted
    <3> QED BY <2>1, <3>1, <3>3 DEF RowsMoved
  <2>3. CASE Spends({my[c].tok})
    BY <1>r, <2>1, <2>3
  <2>4. CASE my[c].flow = "password_reset" /\ tokens' = tokens
    BY <1>t, <2>1, <2>4, TokensSame DEF RowsMoved
  <2>5. CASE Goto(c, "supersede") /\ tokens' = tokens /\ my' = my
    <3>1. at'[c] = "supersede"
      BY <1>t, <2>5 DEF Goto
    <3> QED BY <1>t, <2>1, <2>5, <3>1, TokensSame DEF RowsMoved
  <2> QED BY <1>15, <2>2, <2>3, <2>4, <2>5 DEF Rank
<1> QED BY <1>1, <1>2, <1>3, <1>4, <1>5, <1>6, <1>7, <1>8, <1>9, <1>10, <1>11, <1>12, <1>13, <1>14, <1>15 DEF Step

\* All of it.
SignInMoved(c) ==
    /\ \E m \in Held : Goes(c, at'[c], m)
    /\ CallMoved(c) /\ RowsMoved(c) /\ UserMoved(c) /\ LinkMoved(c) /\ SessionsMoved(c)
    /\ ActedMoved(c) /\ ComparedMoved(c) /\ ChargesMoved(c)

LEMMA SignInMoves ==
    ASSUME SignInInv, NEW c \in Calls, Step(c)
    PROVE  SignInMoved(c)
<1>1. SignInTypes /\ CallsPlaced /\ Cuts
  BY DEF SignInInv, Backed
<1>2. (\E m \in Held : Goes(c, at'[c], m)) /\ CallMoved(c)
  BY <1>1, CallsMove
<1> QED BY <1>1, <1>2, RowsMove, UserMoves, LinkMoves, SessionsMove, ActedMoves, ComparedMoves, ChargesMove
        DEF SignInMoved

LEMMA TypesKept ==
    ASSUME SignInInv, NEW c \in Calls, SignInMoved(c)
    PROVE  SignInTypes'
<1>t. SignInTypes /\ my[c] \in Held
  BY DEF SignInInv, SignInTypes
<1>1. at' \in [Calls -> Stages] /\ my' \in [Calls -> Held]
  BY DEF SignInMoved, Goes
<1>2. user' \in UserRows /\ link' \in LinkRows /\ tokens' \in Seq(TokenRows) /\ cut' \in [Kinds -> Nat]
  BY DEF SignInMoved, UserMoved, LinkMoved, RowsMoved, TokensMoved
<1>3. charges' \in [Budgets -> SUBSET Calls] /\ missed' \in [Budgets -> SUBSET Calls]
  BY DEF SignInMoved, ChargesMoved
<1>4. sessions' \subseteq [rs : Nat, proof : Proofs]
  <2>1. my[c].user.stamp \in Nat /\ my[c].proof \in Proofs
    BY <1>t DEF Held, UserRows
  <2> QED BY <1>t, <2>1 DEF SignInTypes, SignInMoved, SessionsMoved
<1>5. acted' \subseteq Calls \X (Nat \cup Factors) /\ factors' \subseteq Factors /\ compared' \subseteq Calls \X Nat
  <2>1. my[c].tok \in Nat
    BY <1>t DEF Held
  <2> QED BY <1>t, <2>1 DEF SignInTypes, SignInMoved, ActedMoved, ComparedMoved
<1> QED BY <1>1, <1>2, <1>3, <1>4, <1>5 DEF SignInTypes

LEMMA PlacedKept ==
    ASSUME SignInInv, NEW c \in Calls, SignInMoved(c)
    PROVE  CallsPlaced'
<1>t. SignInTypes /\ my[c] \in Held /\ Placed(c) /\ CallMoved(c) /\ RowsMoved(c)
  BY DEF SignInInv, SignInTypes, CallsPlaced, SignInMoved
<1>r. \A t \in DOMAIN tokens : t \in DOMAIN tokens' /\ tokens'[t].purpose \in {tokens[t].purpose, "deleted"}
  BY <1>t DEF RowsMoved, TokensMoved
<1>d. ASSUME NEW d \in Calls, d # c PROVE Placed(d)'
  <2>1. at'[d] = at[d] /\ my'[d] = my[d]
    BY <1>d DEF SignInMoved, Goes
  <2>2. Placed(d)
    BY DEF SignInInv, CallsPlaced
  <2> QED BY <1>r, <2>1, <2>2 DEF Placed, HasToken
<1>1. ASSUME at'[c] = "ended" /\ my'[c] = Blank
      PROVE  Placed(c)'
  BY <1>1, NothingFacts DEF Placed
<1>2. ASSUME MovesOn(c)
      PROVE  Placed(c)'
  BY <1>2, <1>t, <1>r DEF MovesOn, Placed, HasToken
<1>3. ASSUME Begins(c)
      PROVE  Placed(c)'
  <2>1. link # NoLink /\ at'[c] = "linked" => link.proof.kind = "provider"
    BY DEF SignInInv, Backed, LinkKept
  <2> QED BY <1>3, <1>r, <2>1 DEF Begins, Placed, HasToken, Open
<1>4. ASSUME BeginsMfa(c)
      PROVE  Placed(c)'
  BY <1>4, <1>r DEF BeginsMfa, Placed, HasToken, Open
<1>5. ASSUME Issues(c)
      PROVE  Placed(c)'
  <2>1. my'[c].tok \in DOMAIN tokens' /\ tokens'[my'[c].tok] = Token(my'[c].flow, Proof("code", user.stamp, TRUE), 0, FALSE)
    <3>1. PICK r : r = Token(my'[c].flow, Proof("code", user.stamp, TRUE), 0, FALSE)
      OBVIOUS
    <3>2. tokens \in Seq(TokenRows) /\ tokens' \in Seq(TokenRows) /\ tokens' = Append(tokens, r)
          /\ my'[c].tok = Len(tokens) + 1
      BY <1>5, <1>t, <3>1 DEF Issues, SignInTypes, RowsMoved, TokensMoved
    <3>3. Len(tokens) + 1 \in DOMAIN tokens' /\ tokens'[Len(tokens) + 1] = r
      BY <3>2
    <3> QED BY <3>1, <3>2, <3>3
  <2>2. tokens'[my'[c].tok].purpose = my'[c].flow
    BY <2>1 DEF Token
  <2> QED BY <1>5, <2>1, <2>2 DEF Issues, Placed, HasToken
<1>6. ASSUME GetsIn(c)
      PROVE  Placed(c)'
  BY <1>6, <1>t DEF GetsIn, Placed
<1>7. ASSUME Refills(c)
      PROVE  Placed(c)'
  BY <1>7, <1>t, <1>r DEF Refills, Placed, HasToken, Claims
<1>8. ASSUME \/ at[c] = "password" /\ at'[c] = "succeeded" /\ my'[c] = my[c]
             \/ at[c] = "succeeded" /\ my'[c] = my[c] /\ at'[c] = IF my[c].flow = "login" THEN "finish" ELSE "consume"
             \/ at[c] = "rank" /\ at'[c] = "supersede" /\ my[c].flow # "password_reset" /\ my'[c] = my[c]
      PROVE  Placed(c)'
  BY <1>8, <1>t, <1>r DEF Placed, HasToken
<1>9. ASSUME at[c] = "pick" /\ at'[c] = "guess" /\ my'[c].flow = my[c].flow /\ my'[c].tok \in Open("otp")
           /\ my'[c].linking = my[c].linking
      PROVE  Placed(c)'
  BY <1>9, <1>t, <1>r DEF Placed, HasToken, Open
<1>10. ASSUME /\ at[c] = "void" /\ my'[c] = my[c]
            /\ at'[c] = IF my[c].flow = "confirm_email" THEN "restamp" ELSE "links"
      PROVE  Placed(c)'
  BY <1>10, <1>t DEF Placed
<1> QED BY <1>t, <1>d, <1>1, <1>2, <1>3, <1>4, <1>5, <1>6, <1>7, <1>8, <1>9, <1>10 DEF CallsPlaced, CallMoved

LEMMA SpentKept ==
    ASSUME SignInInv, NEW c \in Calls, SignInMoved(c)
    PROVE  (Spent /\ SpentOnce)'
<1>t. /\ tokens \in Seq(TokenRows) /\ Spent /\ SpentOnce /\ ActedMoved(c) /\ Placed(c) /\ RowsMoved(c)
      /\ acted \subseteq Calls \X (Nat \cup Factors)
  BY DEF SignInInv, SignInTypes, SignInMoved, CallsPlaced
<1>r. \A t \in DOMAIN tokens : t \in DOMAIN tokens' /\ t \in Nat /\ (tokens[t].used => tokens'[t].used)
  BY <1>t DEF RowsMoved, TokensMoved
<1>1. CASE acted' = acted /\ factors' = factors
  BY <1>1, <1>t, <1>r DEF Spent, SpentOnce
<1>2. CASE /\ at[c] = "consume" /\ ~tokens[my[c].tok].used /\ Spends({my[c].tok})
           /\ acted' = acted \cup {<<c, my[c].tok>>} /\ factors' = factors
  <2>1. my[c].tok \in DOMAIN tokens
    BY <1>2, <1>t DEF Placed, HasToken
  <2>2. tokens'[my[c].tok].used
    BY <1>2, <1>t, <2>1, TokensSpent
  <2>3. \A x \in acted : x[2] # my[c].tok
    <3>1. my[c].tok \notin factors
      BY <1>r, <2>1, SignInAssumption DEF SignInInv, SignInTypes
    <3> QED BY <1>2, <1>t, <3>1 DEF Spent
  <2>4. \A x \in acted' : x \in acted \/ x = <<c, my[c].tok>>
    BY <1>2
  <2> QED BY <1>2, <1>t, <1>r, <2>1, <2>2, <2>3, <2>4 DEF Spent, SpentOnce
<1>3. CASE /\ at[c] = "factor" /\ tokens' = tokens
           /\ \E f \in Factors \ factors : acted' = acted \cup {<<c, f>>} /\ factors' = factors \cup {f}
  <2>1. PICK f \in Factors \ factors : acted' = acted \cup {<<c, f>>} /\ factors' = factors \cup {f}
    BY <1>3
  <2>2. \A x \in acted : x[2] # f
    <3>1. f \notin DOMAIN tokens
      BY <1>r, <2>1, SignInAssumption
    <3> QED BY <1>t, <2>1, <3>1 DEF Spent
  <2>3. \A x \in acted' : x \in acted \/ x = <<c, f>>
    BY <2>1
  <2> QED BY <1>3, <1>t, <2>1, <2>2, <2>3 DEF Spent, SpentOnce
<1> QED BY <1>t, <1>1, <1>2, <1>3 DEF ActedMoved

LEMMA OneLiveKept ==
    ASSUME SignInInv, NEW c \in Calls, SignInMoved(c)
    PROVE  OneLiveCode'
<1>t. /\ tokens \in Seq(TokenRows) /\ OneLiveCode /\ RowsMoved(c) /\ Placed(c)
  BY DEF SignInInv, SignInTypes, SignInMoved, CallsPlaced
<1> SUFFICES ASSUME NEW purpose \in {"otp", "email_change"}, NEW s \in Open(purpose)', NEW t \in Open(purpose)', s # t
             PROVE  \E d \in Calls : at'[d] \in {"rank", "supersede"} /\ my'[d].tok \in {s, t}
  BY DEF OneLiveCode
<1>1. \A k \in Open(purpose)' : k \in Open(purpose) \/ (at'[c] = "rank" /\ my'[c].tok = k)
  <2> TAKE k \in Open(purpose)'
  <2>1. k \in DOMAIN tokens' /\ tokens'[k].purpose = purpose /\ ~tokens'[k].used
    BY DEF Open
  <2>2. CASE k \in DOMAIN tokens
    BY <1>t, <2>1, <2>2 DEF RowsMoved, TokensMoved, Open
  <2>3. CASE k \notin DOMAIN tokens
    <3>1. Fresh(c, k)
      BY <1>t, <2>1, <2>3 DEF RowsMoved
    <3>2. tokens'[k] # Token("oauth2_merge", NoProof, 0, TRUE)
      BY <2>1 DEF Token
    <3>3. tokens'[k] # Token("mfa_ticket", my[c].proof, my[c].user.stamp, my[c].flow = "merge_confirm")
      BY <2>1 DEF Token
    <3> QED BY <3>1, <3>2, <3>3 DEF Fresh, Issues
  <2> QED BY <2>2, <2>3
<1>2. CASE s \notin Open(purpose) \/ t \notin Open(purpose)
  BY <1>1, <1>2
<1>3. CASE s \in Open(purpose) /\ t \in Open(purpose)
  <2>1. PICK d \in Calls : at[d] \in {"rank", "supersede"} /\ my[d].tok \in {s, t}
    BY <1>t, <1>3 DEF OneLiveCode
  <2>2. CASE d # c
    BY <2>1, <2>2 DEF SignInMoved, Goes
  <2>3. CASE d = c
    <3>1. my[c].tok \in DOMAIN tokens /\ tokens[my[c].tok].purpose = purpose
      BY <1>3, <2>1, <2>3 DEF Open
    <3>2. my[c].flow = purpose
      BY <1>t, <2>1, <2>3, <3>1 DEF Placed
    <3>3. tokens'[my[c].tok].purpose = purpose /\ ~tokens'[my[c].tok].used
      BY <2>1, <2>3 DEF Open
    <3>4. \E k \in Open(my[c].flow) : k # my[c].tok /\ ~tokens'[k].used
      BY <1>3, <2>1, <2>3, <3>2 DEF Open
    <3>5. at[c] = "rank" /\ at'[c] = "supersede" /\ my'[c] = my[c]
      BY <1>t, <2>1, <2>3, <3>2, <3>3, <3>4 DEF RowsMoved
    <3> QED BY <2>1, <2>3, <3>5
  <2> QED BY <2>2, <2>3
<1> QED BY <1>2, <1>3

LEMMA CountedKept ==
    ASSUME SignInInv, NEW c \in Calls, SignInMoved(c)
    PROVE  Counted'
<1> DEFINE Wait(b) == IF b = "otp" THEN "pick" ELSE "attempt"
           Risk(b) == IF b = "otp" THEN "guess" ELSE "factor"
<1>t. /\ SignInTypes /\ Counted /\ ChargesMoved(c) /\ RowsMoved(c) /\ ComparedMoved(c)
      /\ \A d \in Calls : d # c => at'[d] = at[d]
      /\ IsFiniteSet(Calls) /\ MaxCodeFailures \in Nat /\ MaxTokenAttempts \in Nat
  BY SignInAssumption DEF SignInInv, SignInMoved, Goes
<1>1. ASSUME NEW b \in {"otp", "mfa"}
      PROVE  /\ Passed(b)' \subseteq charges'[b] /\ Cardinality(Passed(b)') <= MaxCodeFailures
             /\ \A d \in missed'[b] : at'[d] = "ended"
             /\ \A d \in Calls : at'[d] = Wait(b) => d \in charges'[b]
  <2>1. /\ charges[b] \subseteq Calls /\ missed[b] \subseteq Calls
        /\ charges'[b] \subseteq Calls /\ missed'[b] \subseteq Calls
    BY <1>t DEF SignInTypes, ChargesMoved, Budgets
  <2>2. ChargedAs(c, b, Wait(b), Risk(b)) /\ at[c] # "ended"
    BY <1>t DEF ChargesMoved
  <2>3. /\ Passed(b) \subseteq charges[b] /\ Cardinality(Passed(b)) <= MaxCodeFailures
        /\ \A d \in missed[b] : at[d] = "ended"
        /\ \A d \in Calls : at[d] = Wait(b) => d \in charges[b]
    BY <1>t DEF Counted
  <2>4. /\ Passed(b) = missed[b] \cup {d \in Calls : at[d] = Risk(b)}
        /\ Passed(b)' = missed'[b] \cup {d \in Calls : at'[d] = Risk(b)}
    BY DEF Passed
  <2>5. \A d \in missed'[b] : at'[d] = "ended"
    BY <1>t, <2>1, <2>2, <2>3 DEF ChargedAs
  <2>6. \A d \in Calls : at'[d] = Wait(b) => d \in charges'[b]
    BY <1>t, <2>2, <2>3 DEF ChargedAs
  <2>7. CASE at'[c] = Risk(b)
    <3>1. at[c] = Wait(b) /\ ~Over(b) /\ charges'[b] = charges[b] /\ missed'[b] = missed[b]
      BY <2>2, <2>7 DEF ChargedAs
    <3>2. Passed(b)' \subseteq charges[b]
      BY <1>t, <2>3, <2>4, <3>1
    <3>3. IsFiniteSet(charges[b]) /\ Cardinality(charges[b]) <= MaxCodeFailures
      <4>1. IsFiniteSet(charges[b]) /\ Cardinality(charges[b]) \in Nat
        BY <1>t, <2>1, FS_Subset, FS_CardinalityType
      <4> QED BY <1>t, <3>1, <4>1 DEF Over
    <3>4. Cardinality(Passed(b)') <= Cardinality(charges[b]) /\ Cardinality(Passed(b)') \in Nat /\ Cardinality(charges[b]) \in Nat
      BY <3>2, <3>3, FS_Subset, FS_CardinalityType
    <3> QED BY <1>t, <2>5, <2>6, <3>1, <3>2, <3>3, <3>4
  <2>8. CASE at'[c] # Risk(b)
    <3>1. Passed(b)' \subseteq Passed(b)
      BY <1>t, <2>1, <2>2, <2>4, <2>8 DEF ChargedAs
    <3>2. c \in Passed(b)' => c \in charges'[b]
      BY <1>t, <2>2, <2>3, <2>4, <2>8 DEF ChargedAs
    <3>3. Passed(b)' \subseteq charges'[b]
      BY <2>2, <2>3, <3>1, <3>2 DEF ChargedAs
    <3>4. IsFiniteSet(Passed(b))
      BY <1>t, <2>1, <2>3, FS_Subset
    <3>5. /\ Cardinality(Passed(b)') <= Cardinality(Passed(b))
          /\ Cardinality(Passed(b)') \in Nat /\ Cardinality(Passed(b)) \in Nat
      BY <3>1, <3>4, FS_Subset, FS_CardinalityType
    <3> QED BY <1>t, <2>3, <2>5, <2>6, <3>3, <3>5
  <2> QED BY <2>7, <2>8
<1>2. /\ tokens \in Seq(TokenRows) /\ tokens' \in Seq(TokenRows)
      /\ \A t \in DOMAIN tokens : t \in DOMAIN tokens' /\ tokens[t].attempts <= tokens'[t].attempts
      /\ \A t \in DOMAIN tokens : tokens[t].attempts \in Nat
      /\ \A t \in DOMAIN tokens' : tokens'[t].attempts \in Nat
  BY <1>t, RowFields DEF SignInTypes, RowsMoved, TokensMoved
<1>3. \A x \in compared' : x[2] \in DOMAIN tokens'
  <2>1. \A x \in compared' : x \in compared \/ x = <<c, my[c].tok>>
    BY <1>t DEF ComparedMoved
  <2>2. <<c, my[c].tok>> \in compared' => <<c, my[c].tok>> \in compared \/ my[c].tok \in DOMAIN tokens
    BY <1>t DEF ComparedMoved
  <2> QED BY <1>t, <1>2, <2>1, <2>2 DEF Counted
<1>4. ASSUME NEW t \in DOMAIN tokens'
      PROVE  /\ Cardinality(Compared(t)') <= tokens'[t].attempts
             /\ Cardinality(Compared(t)') <= MaxTokenAttempts
  <2>c. IsFiniteSet(Compared(t)) /\ Cardinality(Compared(t)) \in Nat
    BY <1>t, FS_Subset, FS_CardinalityType DEF Compared
  <2>1. CASE t \notin DOMAIN tokens
    <3>1. t # my[c].tok \/ compared' = compared
      BY <1>t, <2>1 DEF ComparedMoved
    <3>2. \A d \in Calls : <<d, t>> \notin compared
      BY <1>t, <2>1 DEF Counted
    <3>3. Compared(t)' = {}
      BY <1>t, <3>1, <3>2 DEF Compared, ComparedMoved
    <3> QED BY <1>t, <1>2, <3>3, FS_EmptySet
  <2>2. CASE t \in DOMAIN tokens /\ Compared(t)' = Compared(t)
    BY <1>t, <1>2, <2>2, <2>c DEF Counted
  <2>3. CASE t \in DOMAIN tokens /\ Compared(t)' # Compared(t)
    <3>1. /\ t = my[c].tok /\ Spendable(t) /\ Attempt(t)
          /\ compared' = compared \cup {<<c, t>>}
      BY <1>t, <2>3 DEF ComparedMoved, Compared
    <3>2. Compared(t)' = Compared(t) \cup {c}
      BY <3>1 DEF Compared
    <3>3. Cardinality(Compared(t)') <= Cardinality(Compared(t)) + 1 /\ Cardinality(Compared(t)') \in Nat
      <4>1. CASE c \in Compared(t)
        BY <2>c, <3>2, <4>1
      <4>2. CASE c \notin Compared(t)
        <5>1. PICK S : S = Compared(t)
          OBVIOUS
        <5>2. IsFiniteSet(S) /\ c \notin S /\ Cardinality(S) \in Nat
          BY <2>c, <4>2, <5>1
        <5>3. Cardinality(S \cup {c}) = Cardinality(S) + 1
          BY <5>2, FS_AddElement
        <5> QED BY <3>2, <5>1, <5>2, <5>3
      <4> QED BY <4>1, <4>2
    <3>4. tokens'[t].attempts = tokens[t].attempts + 1
      BY <1>2, <2>3, <3>1, TokensAttempted
    <3>5. tokens[t].attempts < MaxTokenAttempts
      BY <3>1 DEF Spendable
    <3>6. Cardinality(Compared(t)) <= tokens[t].attempts
      BY <1>t, <2>3 DEF Counted
    <3> QED BY <1>t, <1>2, <2>3, <2>c, <3>3, <3>4, <3>5, <3>6
  <2> QED BY <2>1, <2>2, <2>3
<1> QED BY <1>1, <1>3, <1>4 DEF Counted

-----------------------------------------------------------------------------
(* Taking the account back: a step that stamps the account leaves nothing
   good that was signed before it; any other leaves good what was good. *)

\* How a call comes to be taking the account back.
TakesOn(c) ==
    at'[c] \in {"void", "links", "restamp"} =>
      \/ /\ at[c] = "stamp" /\ at'[c] = "void" /\ my'[c].flow = my[c].flow
         /\ my'[c].proof.stamp = user.stamp + 1
      \/ /\ at[c] = "void" /\ my'[c] = my[c]
         /\ at'[c] = IF my[c].flow = "confirm_email" THEN "restamp" ELSE "links"
      \/ at[c] = "links" /\ at'[c] = "restamp" /\ my'[c] = my[c]

LEMMA TakesOnOnly ==
    ASSUME SignInInv, NEW c \in Calls, SignInMoved(c)
    PROVE  TakesOn(c)
<1>t. CallMoved(c) /\ user.stamp + 1 \in Int
  BY DEF SignInMoved, SignInInv, SignInTypes, UserRows
<1>0. Proof("code", user.stamp + 1, TRUE).stamp = user.stamp + 1
  BY DEF Proof
<1>1. ASSUME MovesOn(c) PROVE TakesOn(c)
  BY <1>1 DEF MovesOn, TakesOn
<1>2. ASSUME Refills(c) PROVE TakesOn(c)
  BY <1>0, <1>2 DEF Refills, TakesOn
<1>3. ASSUME Begins(c) \/ BeginsMfa(c) \/ Issues(c) \/ GetsIn(c) PROVE TakesOn(c)
  BY <1>3 DEF Begins, BeginsMfa, Issues, GetsIn, TakesOn
<1> QED BY <1>t, <1>1, <1>2, <1>3 DEF CallMoved, TakesOn

\* The stamp counts up; while it stays nobody starts to take the account back
\* and nobody is done with it.
Stamped(c) ==
    /\ user.stamp \in Nat /\ user'.stamp \in Nat
    /\ \/ user'.stamp = user.stamp + 1
       \/ /\ user'.stamp = user.stamp /\ user'.pw = user.pw /\ cut' = cut
          /\ at[c] \notin {"stamp", "restamp"}
    /\ \A d \in Calls : at'[d] \in {"void", "links", "restamp"} =>
         \/ /\ at[d] \in {"void", "links", "restamp"}
            /\ my'[d].flow = my[d].flow /\ my'[d].proof = my[d].proof
         \/ d = c /\ at[c] = "stamp" /\ my'[c].proof.stamp = user'.stamp /\ my'[c].flow = my[c].flow
    /\ \A d \in Calls : at'[d] \in {"links", "restamp"} =>
         \/ at[d] \in {"links", "restamp"} /\ my'[d].flow = my[d].flow /\ my'[d].proof = my[d].proof
         \/ d = c /\ at[c] = "void" /\ \A t \in DOMAIN tokens' : tokens'[t].used

LEMMA StampMoves ==
    ASSUME SignInInv, NEW c \in Calls, SignInMoved(c)
    PROVE  Stamped(c)
<1>t. /\ user \in UserRows /\ UserMoved(c) /\ RowsMoved(c) /\ TakesOn(c)
      /\ \A d \in Calls : d # c => at'[d] = at[d] /\ my'[d] = my[d]
  BY TakesOnOnly DEF SignInInv, SignInTypes, SignInMoved, Goes
<1>1. user.stamp \in Nat /\ user'.stamp \in Nat
  BY <1>t DEF UserRows, UserMoved
<1>2. \/ user'.stamp = user.stamp + 1
      \/ /\ user'.stamp = user.stamp /\ user'.pw = user.pw /\ cut' = cut
         /\ at[c] \notin {"stamp", "restamp"}
  BY <1>t DEF UserMoved
<1>3. \A d \in Calls : at'[d] \in {"void", "links", "restamp"} =>
         \/ /\ at[d] \in {"void", "links", "restamp"}
            /\ my'[d].flow = my[d].flow /\ my'[d].proof = my[d].proof
         \/ d = c /\ at[c] = "stamp" /\ my'[c].proof.stamp = user'.stamp /\ my'[c].flow = my[c].flow
  BY <1>t, <1>1 DEF TakesOn, UserMoved
<1>4. \A d \in Calls : at'[d] \in {"links", "restamp"} =>
         \/ at[d] \in {"links", "restamp"} /\ my'[d].flow = my[d].flow /\ my'[d].proof = my[d].proof
         \/ d = c /\ at[c] = "void" /\ \A t \in DOMAIN tokens' : tokens'[t].used
  BY <1>t DEF TakesOn, RowsMoved
<1> QED BY <1>1, <1>2, <1>3, <1>4 DEF Stamped

LEMMA GoodKept ==
    ASSUME SignInInv, NEW c \in Calls, SignInMoved(c), NEW s \in Nat, NEW p \in Proofs, Good(s, p)
    PROVE  Good(s, p)'
<1>t. Stamped(c)
  BY StampMoves
<1>1. CASE user'.stamp = user.stamp + 1
  BY <1>1, <1>t DEF Stamped, Good
<1>2. CASE user'.stamp = user.stamp /\ cut' = cut /\ at[c] # "stamp"
  <2>1. \A d \in Calls : TakingAll(d)' => TakingAll(d) /\ my'[d].proof = my[d].proof
    BY <1>2, <1>t DEF Stamped, TakingAll
  <2> QED BY <1>2, <2>1 DEF Good
<1> QED BY <1>1, <1>2, <1>t DEF Stamped

\* What the operation that is over has done.
LEMMA TakenBackBy ==
    ASSUME SignInInv, NEW c \in Calls, SignInMoved(c), at[c] = "restamp"
    PROVE  /\ my[c].proof.stamp \in Nat /\ my[c].proof.stamp <= user.stamp
           /\ user'.pw = user.pw /\ user'.stamp = user.stamp + 1
           /\ \A k \in Kinds : cut'[k] = IF my[c].flow = "confirm_email" /\ k # "code" THEN cut[k]
                                         ELSE Later(cut[k], my[c].proof.stamp)
           /\ cut \in [Kinds -> Nat]
<1>1. UserMoved(c) /\ Cuts /\ cut \in [Kinds -> Nat]
  BY DEF SignInMoved, SignInInv, SignInTypes, Backed
<1>2. my[c].proof.stamp \in Nat /\ my[c].proof.stamp <= user.stamp
  BY <1>1 DEF Cuts
<1>3. user'.pw = user.pw /\ user'.stamp = user.stamp + 1 /\ TakesBack(c)
  BY <1>1 DEF UserMoved
<1> QED BY <1>1, <1>2, <1>3 DEF TakesBack

LEMMA CutsKept ==
    ASSUME SignInInv, NEW c \in Calls, SignInMoved(c)
    PROVE  Cuts'
<1>t. /\ Stamped(c) /\ Cuts /\ cut \in [Kinds -> Nat] /\ UserMoved(c)
  BY StampMoves DEF SignInInv, SignInTypes, SignInMoved, Backed
<1>1. cut'["provider"] = cut'["password"] /\ \A k \in Kinds : cut'[k] <= user'.stamp
  <2>1. CASE at[c] = "restamp"
    BY <1>t, <2>1, TakenBackBy DEF Cuts, Later, Kinds, Stamped
  <2>2. CASE at[c] # "restamp"
    <3>1. cut' = cut /\ user.stamp <= user'.stamp
      BY <1>t, <2>2 DEF UserMoved, Stamped
    <3> QED BY <1>t, <3>1 DEF Cuts, Stamped
  <2> QED BY <2>1, <2>2
<1>2. \A d \in Calls : at'[d] \in {"void", "links", "restamp"} =>
         my'[d].proof.stamp \in Nat /\ my'[d].proof.stamp <= user'.stamp
  BY <1>t DEF Cuts, Stamped
<1> QED BY <1>1, <1>2 DEF Cuts

LEMMA PasswordsKept ==
    ASSUME SignInInv, NEW c \in Calls, SignInMoved(c)
    PROVE  Passwords'
<1>t. /\ Stamped(c) /\ Cuts /\ Passwords /\ cut \in [Kinds -> Nat] /\ UserMoved(c)
      /\ user \in UserRows /\ user' \in UserRows
  BY StampMoves DEF SignInInv, SignInTypes, SignInMoved, UserMoved, Backed
<1>n. cut["password"] \in Nat /\ user.pw \in Int
  BY <1>t DEF Kinds, UserRows
<1>1. CASE at[c] = "restamp"
  <2>1. \A d \in Calls : TakingAll(d)' => TakingAll(d) /\ my'[d].proof = my[d].proof
    BY <1>1, <1>t DEF Stamped, TakingAll
  <2>2. user'.pw = user.pw /\ (user.pw # Unusable => user.pw >= cut'["password"])
    BY <1>1, <1>n, <1>t, TakenBackBy DEF Passwords, TakingAll, Later, Kinds
  <2> QED BY <1>t, <2>1, <2>2 DEF Passwords
<1>2. CASE at[c] = "stamp" /\ user'.pw \in {user.stamp + 1, Unusable}
  <2>1. cut' = cut /\ user'.stamp = user.stamp + 1 /\ cut["password"] <= user.stamp
    BY <1>2, <1>t DEF UserMoved, Cuts, Kinds
  <2>2. \A d \in Calls : TakingAll(d)' => my'[d].proof.stamp \in Nat /\ my'[d].proof.stamp <= user'.stamp
    BY CutsKept DEF Cuts, TakingAll
  <2> QED BY <1>2, <1>n, <1>t, <2>1, <2>2 DEF Passwords, Stamped
<1>3. CASE at[c] = "stamp" /\ my[c].flow = "confirm_email" /\ user'.pw = user.pw
  <2>1. cut' = cut
    BY <1>3, <1>t DEF UserMoved
  <2>2. \A d \in Calls : TakingAll(d)' => TakingAll(d) /\ my'[d].proof = my[d].proof
    BY <1>3, <1>t DEF Stamped, TakingAll
  <2> QED BY <1>3, <1>t, <2>1, <2>2 DEF Passwords
<1>4. CASE at[c] \notin {"stamp", "restamp"}
  <2>1. cut' = cut /\ user'.pw = user.pw
    BY <1>4, <1>t DEF UserMoved
  <2>2. \A d \in Calls : TakingAll(d)' => TakingAll(d) /\ my'[d].proof = my[d].proof
    BY <1>4, <1>t DEF Stamped, TakingAll
  <2> QED BY <1>t, <2>1, <2>2 DEF Passwords
<1> QED BY <1>t, <1>1, <1>2, <1>3, <1>4 DEF UserMoved

LEMMA CodesKept ==
    ASSUME SignInInv, NEW c \in Calls, SignInMoved(c)
    PROVE  Codes'
<1>t. /\ Stamped(c) /\ Cuts /\ Codes /\ cut \in [Kinds -> Nat] /\ UserMoved(c) /\ RowsMoved(c) /\ Placed(c)
      /\ tokens \in Seq(TokenRows) /\ tokens' \in Seq(TokenRows) /\ user.stamp \in Nat
  BY StampMoves DEF SignInInv, SignInTypes, SignInMoved, CallsPlaced, Backed, RowsMoved, TokensMoved, UserRows
<1>c. Cuts' /\ cut' \in [Kinds -> Nat]
  BY <1>t, CutsKept DEF UserMoved
<1> SUFFICES ASSUME NEW t \in DOMAIN tokens'
             PROVE  /\ tokens'[t].purpose = "otp" => tokens'[t].proof.kind = "code"
                    /\ tokens'[t].purpose # "mfa_ticket" /\ tokens'[t].proof.kind = "code" /\ ~tokens'[t].used =>
                         /\ tokens'[t].proof.stamp >= cut'["code"]
                         /\ \A d \in Calls : at'[d] \in {"links", "restamp"} => tokens'[t].proof.stamp >= my'[d].proof.stamp
  BY DEF Codes
<1>1. CASE t \in DOMAIN tokens
  <2>0. /\ tokens'[t].proof = tokens[t].proof /\ (tokens[t].used => tokens'[t].used)
        /\ tokens'[t].purpose \in {tokens[t].purpose, "deleted"}
        /\ tokens[t].purpose = "mfa_ticket" => tokens'[t].purpose = "mfa_ticket"
    BY <1>1, <1>t DEF RowsMoved, TokensMoved, Placed
  <2>1. tokens'[t].purpose = "otp" => tokens'[t].proof.kind = "code"
    BY <1>1, <1>t, <2>0 DEF Codes
  <2>2. ASSUME tokens'[t].purpose # "mfa_ticket", tokens'[t].proof.kind = "code", ~tokens'[t].used
        PROVE  /\ tokens'[t].proof.stamp >= cut'["code"]
               /\ \A d \in Calls : at'[d] \in {"links", "restamp"} => tokens'[t].proof.stamp >= my'[d].proof.stamp
    <3>1. /\ tokens[t].proof.stamp >= cut["code"] /\ tokens[t].proof.stamp \in Int /\ cut["code"] \in Nat
          /\ \A d \in Calls : at[d] \in {"links", "restamp"} => tokens[t].proof.stamp >= my[d].proof.stamp
      <4>1. tokens[t].purpose # "mfa_ticket" /\ tokens[t].proof.kind = "code" /\ ~tokens[t].used
        BY <2>0, <2>2
      <4>2. tokens[t].proof \in Proofs
        BY <1>1, <1>t, RowFields
      <4> QED BY <1>1, <1>t, <4>1, <4>2 DEF Codes, Proofs, Kinds
    <3>2. \A d \in Calls : at'[d] \in {"links", "restamp"} => tokens'[t].proof.stamp >= my'[d].proof.stamp
      BY <1>t, <2>0, <2>2, <3>1 DEF Stamped
    <3>3. tokens'[t].proof.stamp >= cut'["code"]
      <4>1. CASE at[c] = "restamp"
        BY <2>0, <3>1, <4>1, TakenBackBy DEF Later, Kinds
      <4>2. CASE at[c] # "restamp"
        BY <1>t, <2>0, <3>1, <4>2 DEF UserMoved
      <4> QED BY <4>1, <4>2
    <3> QED BY <3>2, <3>3
  <2> QED BY <2>1, <2>2
<1>2. CASE t \notin DOMAIN tokens
  <2>1. Fresh(c, t)
    BY <1>2, <1>t DEF RowsMoved
  <2>2. CASE tokens'[t] = Token("oauth2_merge", NoProof, 0, TRUE)
    BY <2>2 DEF Token, NoProof, Proof
  <2>3. CASE tokens'[t] = Token("mfa_ticket", my[c].proof, my[c].user.stamp, my[c].flow = "merge_confirm")
    BY <2>3 DEF Token
  <2>4. CASE Issues(c) /\ tokens'[t] = Token(my'[c].flow, Proof("code", user.stamp, TRUE), 0, FALSE)
    <3>1. tokens'[t].proof.kind = "code" /\ tokens'[t].proof.stamp = user.stamp
      BY <2>4 DEF Token, Proof
    <3>2. user'.stamp = user.stamp
      BY <1>t, <2>4 DEF Issues, UserMoved
    <3>3. /\ cut'["code"] <= user.stamp /\ cut'["code"] \in Nat
          /\ \A d \in Calls : at'[d] \in {"links", "restamp"} => my'[d].proof.stamp \in Nat /\ my'[d].proof.stamp <= user.stamp
      BY <1>c, <3>2 DEF Cuts, Kinds
    <3> QED BY <1>t, <3>1, <3>3
  <2> QED BY <2>1, <2>2, <2>3, <2>4 DEF Fresh
<1> QED BY <1>1, <1>2

\* What is sound stays so.
LEMMA SoundKept ==
    ASSUME SignInInv, NEW c \in Calls, SignInMoved(c), NEW s \in Nat, NEW p \in Proofs
    PROVE  \A linking \in BOOLEAN : Sound(s, p, linking) => Sound(s, p, linking)'
BY GoodKept DEF Sound

LEMMA TicketsKept ==
    ASSUME SignInInv, NEW c \in Calls, SignInMoved(c)
    PROVE  Tickets'
<1>t. /\ Tickets /\ RowsMoved(c) /\ tokens \in Seq(TokenRows) /\ tokens' \in Seq(TokenRows) /\ my[c] \in Held
      /\ Holder(c)
  BY DEF SignInInv, SignInTypes, SignInMoved, Backed, RowsMoved, TokensMoved
<1> SUFFICES ASSUME NEW t \in DOMAIN tokens', tokens'[t].purpose = "mfa_ticket"
             PROVE  \E s \in Nat, p \in Proofs, b \in BOOLEAN :
                       /\ s = tokens'[t].seen /\ p = tokens'[t].proof /\ b = tokens'[t].linking
                       /\ Sound(s, p, b)'
  BY DEF Tickets, Sound, Good
<1>1. CASE t \in DOMAIN tokens
  <2>1. /\ tokens'[t].seen = tokens[t].seen /\ tokens'[t].proof = tokens[t].proof
        /\ tokens'[t].linking = tokens[t].linking /\ tokens[t].purpose = "mfa_ticket"
    BY <1>1, <1>t DEF RowsMoved, TokensMoved
  <2>2. PICK s \in Nat, p \in Proofs, b \in BOOLEAN : s = tokens[t].seen /\ p = tokens[t].proof /\ b = tokens[t].linking
    <3>1. tokens[t] \in TokenRows
      BY <1>1, <1>t
    <3> QED BY <3>1 DEF TokenRows
  <2>3. Sound(s, p, b)
    BY <1>1, <1>t, <2>1, <2>2 DEF Tickets
  <2>4. Sound(s, p, b)'
    BY <2>2, <2>3, SoundKept
  <2> QED BY <2>1, <2>2, <2>4
<1>2. CASE t \notin DOMAIN tokens
  <2>1. Fresh(c, t)
    BY <1>2, <1>t DEF RowsMoved
  <2>2. tokens'[t] # Token("oauth2_merge", NoProof, 0, TRUE)
    BY DEF Token
  <2>3. ~Issues(c) \/ tokens'[t] # Token(my'[c].flow, Proof("code", user.stamp, TRUE), 0, FALSE)
    <3>1. Issues(c) => my'[c].flow # "mfa_ticket"
      BY DEF Issues
    <3>2. Token(my'[c].flow, Proof("code", user.stamp, TRUE), 0, FALSE).purpose = my'[c].flow
      BY DEF Token
    <3>3. CASE Issues(c)
      BY <3>1, <3>2, <3>3
    <3> QED BY <3>3
  <2>4. /\ at[c] = "finish"
        /\ tokens'[t] = Token("mfa_ticket", my[c].proof, my[c].user.stamp, my[c].flow = "merge_confirm")
    BY <2>1, <2>2, <2>3 DEF Fresh
  <2>5. PICK s \in Nat, p \in Proofs, b \in BOOLEAN :
           s = my[c].user.stamp /\ p = my[c].proof /\ b = (my[c].flow = "merge_confirm")
    BY <1>t DEF Held, UserRows
  <2>6. tokens'[t].seen = s /\ tokens'[t].proof = p /\ tokens'[t].linking = b
    BY <2>4, <2>5 DEF Token
  <2>7. Sound(s, p, b)
    BY <1>t, <2>4, <2>5 DEF Holder, Signs, Sound
  <2>8. Sound(s, p, b)'
    BY <2>7, SoundKept
  <2> QED BY <2>6, <2>8
<1> QED BY <1>1, <1>2

LEMMA SessionsGood ==
    ASSUME SignInInv, NEW c \in Calls, SignInMoved(c)
    PROVE  \A s \in sessions' : s.proof.kind \in Kinds /\ Good(s.rs, s.proof)'
<1>t. /\ SessionsMoved(c) /\ sessions \subseteq [rs : Nat, proof : Proofs] /\ Holder(c) /\ my[c] \in Held
      /\ \A s \in sessions : s.proof.kind \in Kinds /\ Good(s.rs, s.proof)
  BY DEF SignInInv, SignInTypes, SignInMoved, Backed
<1> SUFFICES ASSUME NEW s \in sessions' PROVE s.proof.kind \in Kinds /\ Good(s.rs, s.proof)'
  OBVIOUS
<1>1. CASE s \in sessions
  <2>1. PICK n \in Nat, p \in Proofs : n = s.rs /\ p = s.proof
    BY <1>1, <1>t
  <2>2. p.kind \in Kinds /\ Good(n, p)
    BY <1>1, <1>t, <2>1
  <2>3. Good(n, p)'
    BY <2>2, GoodKept
  <2> QED BY <2>1, <2>2, <2>3
<1>2. CASE s \notin sessions
  <2>1. PICK n \in Nat, p \in Proofs : n = my[c].user.stamp /\ p = my[c].proof
    BY <1>t DEF Held, UserRows
  <2>2. s = [rs |-> n, proof |-> p] /\ at[c] \in {"finish", "since"}
    BY <1>2, <1>t, <2>1 DEF SessionsMoved
  <2>3. p.kind \in Kinds /\ Good(n, p)
    BY <1>t, <2>1, <2>2 DEF Holder, Signs, Sound
  <2>4. Good(n, p)'
    BY <2>3, GoodKept
  <2> QED BY <2>2, <2>3, <2>4
<1> QED BY <1>1, <1>2

LEMMA HolderKept ==
    ASSUME SignInInv, NEW c \in Calls, SignInMoved(c)
    PROVE  \A d \in Calls : Holder(d)'
<1>t. /\ SignInTypes /\ CallMoved(c) /\ RowsMoved(c) /\ UserMoved(c) /\ Stamped(c) /\ Codes /\ Passwords /\ Tickets /\ LinkKept
      /\ Placed(c) /\ Holder(c) /\ Cuts
      /\ at' \in [Calls -> Stages] /\ my' \in [Calls -> Held]
      /\ \A d \in Calls : d # c => at'[d] = at[d] /\ my'[d] = my[d]
  BY StampMoves DEF SignInInv, SignInMoved, Goes, Backed, CallsPlaced
<1>r. \A t \in DOMAIN tokens : /\ t \in DOMAIN tokens' /\ tokens'[t].proof = tokens[t].proof
                               /\ tokens[t].used => tokens'[t].used
                               /\ tokens[t] \in TokenRows
  BY <1>t DEF RowsMoved, TokensMoved, SignInTypes
<1>m. \A d \in Calls : /\ my[d] \in Held /\ my[d].user.stamp \in Nat /\ my[d].proof \in Proofs
                       /\ my'[d].user.stamp \in Nat /\ my'[d].proof \in Proofs
  BY <1>t DEF SignInTypes, Held, UserRows
<1>f. ASSUME NEW d \in Calls, Good(my'[d].user.stamp, my'[d].proof), my'[d].proof.kind \in Kinds,
             my'[d].linking \/ my'[d].flow \in {"login", "merge_confirm"} => my'[d].proof.kind = "password"
      PROVE  Signs(d)'
  <2>1. PICK s \in Nat, p \in Proofs : s = my'[d].user.stamp /\ p = my'[d].proof
    BY <1>m
  <2>2. Good(s, p)
    BY <1>f, <2>1
  <2>3. Good(s, p)'
    BY <2>2, GoodKept
  <2>4. Good(my[d].user.stamp, my[d].proof)'
    BY <2>1, <2>3 DEF Good
  <2> QED BY <1>f, <2>4 DEF Signs, Sound
<1>k. ASSUME NEW d \in Calls, Signs(d), my'[d] = my[d]
      PROVE  Signs(d)'
  BY <1>k, <1>f DEF Signs, Sound
<1>d. ASSUME NEW d \in Calls, d # c PROVE Holder(d)'
  <2>1. at'[d] = at[d] /\ my'[d] = my[d] /\ Holder(d) /\ Placed(d)
    BY <1>d, <1>t DEF SignInInv, Backed, CallsPlaced
  <2>2. Signs(d) => Signs(d)'
    BY <1>k, <2>1
  <2>3. at[d] = "still" => my'[d].user.stamp <= user'.stamp
    BY <1>m, <1>t, <2>1 DEF Holder, Stamped
  <2> QED BY <1>r, <2>1, <2>2, <2>3 DEF Holder, Placed, HasToken
<1>1. ASSUME at'[c] \in {"ended", "stamp", "void", "links", "restamp", "rank", "supersede", "unlink", "linked", "pick"}
      PROVE  Holder(c)'
  BY <1>1 DEF Holder
<1>2. ASSUME MovesOn(c) PROVE Holder(c)'
  <2>1. Signs(c) => Signs(c)'
    BY <1>2, <1>k DEF MovesOn
  <2>2. CASE at[c] \in {"exhausted", "guess"} /\ at'[c] = "account"
    BY <1>2, <1>r, <1>t, <2>2 DEF MovesOn, Holder, Placed, HasToken
  <2>3. CASE \/ at[c] = "attempt" /\ at'[c] = "factor"
             \/ at[c] = "factor" /\ at'[c] = "consume"
             \/ at[c] = "apply" /\ at'[c] = "since"
    <3>1. Signs(c)' /\ (at[c] = "factor" => my'[c].flow = "mfa")
      BY <1>2, <1>t, <2>1, <2>3 DEF Holder, Placed, MovesOn
    <3> QED BY <2>3, <3>1 DEF Holder
  <2>4. CASE at'[c] \in {"unlink", "restamp"}
    BY <1>1, <2>4
  <2> QED BY <1>2, <2>2, <2>3, <2>4 DEF MovesOn
<1>3. ASSUME Begins(c) PROVE Holder(c)'
  <2>1. CASE at'[c] = "password"
    <3>1. CASE my'[c].flow = "confirm_email"
      BY <2>1, <3>1 DEF Holder
    <3>2. CASE my'[c].flow \in {"login", "merge_confirm"} /\ my'[c].proof = Proof("password", user.pw, TRUE) /\ my'[c].user = user
      <4>1. CASE user.pw = Unusable
        BY <2>1, <3>2, <4>1 DEF Holder
      <4>2. CASE user.pw # Unusable
        <5>1. my'[c].proof.kind = "password" /\ my'[c].proof.stamp = user.pw
          BY <3>2 DEF Proof
        <5>2. Good(my'[c].user.stamp, my'[c].proof)
          <6>1. my'[c].user.stamp = user.stamp /\ user.stamp \in Nat /\ Passwords
            BY <1>t, <3>2 DEF Stamped
          <6> QED BY <4>2, <5>1, <6>1 DEF Good, Passwords
        <5>3. Signs(c)'
          BY <1>f, <5>1, <5>2 DEF Kinds
        <5> QED BY <2>1, <5>3 DEF Holder
      <4> QED BY <4>1, <4>2
    <3> QED BY <1>3, <2>1, <3>1, <3>2 DEF Begins
  <2>2. CASE at'[c] = "exhausted" /\ my'[c].flow = "otp_link" /\ my'[c].tok \in Open("otp")
    <3>1. tokens'[my'[c].tok].proof.kind = "code"
      BY <1>r, <1>t, <2>2 DEF Codes, Open
    <3> QED BY <2>2, <3>1 DEF Holder
  <2>3. CASE at'[c] = "consume" /\ my'[c].flow \in {"confirm_reset", "accept_invite"}
    BY <2>3 DEF Holder
  <2>4. CASE at'[c] \in {"pick", "linked"}
    BY <1>1, <2>4
  <2> QED BY <1>3, <2>1, <2>2, <2>3, <2>4 DEF Begins
<1>4. ASSUME BeginsMfa(c) PROVE Holder(c)'
  <2>1. /\ at'[c] = "attempt" /\ my'[c].flow = "mfa" /\ my'[c].tok \in DOMAIN tokens
        /\ tokens[my'[c].tok].purpose = "mfa_ticket"
        /\ my'[c].user.stamp = tokens[my'[c].tok].seen /\ my'[c].proof = tokens[my'[c].tok].proof
        /\ my'[c].linking = tokens[my'[c].tok].linking
    BY <1>4 DEF BeginsMfa, Open
  <2>2. Sound(my'[c].user.stamp, my'[c].proof, my'[c].linking)
    BY <1>t, <2>1 DEF Tickets
  <2>3. Signs(c)'
    BY <1>f, <2>1, <2>2 DEF Sound
  <2> QED BY <2>1, <2>3 DEF Holder
<1>5. ASSUME GetsIn(c) PROVE Holder(c)'
  <2>1. CASE at'[c] = "stamp"
    BY <1>1, <2>1
  <2>2. CASE at'[c] \in {"finish", "apply", "since"}
    <3>1. Signs(c) /\ my'[c] = my[c]
      BY <1>5, <1>t, <2>2 DEF GetsIn, Holder
    <3>2. Signs(c)'
      BY <1>k, <3>1
    <3> QED BY <2>2, <3>2 DEF Holder
  <2> QED BY <1>5, <2>1, <2>2 DEF GetsIn
<1>6. ASSUME Refills(c) PROVE Holder(c)'
  <2>1. CASE at[c] = "account" /\ at'[c] = "consume"
    <3>1. /\ my'[c].user = user /\ my'[c].proof = tokens[my[c].tok].proof /\ my'[c].tok = my[c].tok
          /\ my'[c].flow = my[c].flow /\ my[c].flow \in {"otp_link", "otp_code"} /\ my[c].tok \in DOMAIN tokens
          /\ tokens[my[c].tok].purpose \in {"otp", "deleted"} /\ my'[c].linking = FALSE
          /\ tokens[my[c].tok].proof.kind = "code"
      BY <1>6, <1>t, <2>1 DEF Refills, Placed, HasToken, Holder
    <3>2. CASE tokens[my[c].tok].used
      <4>1. tokens'[my'[c].tok].used
        BY <1>r, <3>1, <3>2
      <4> QED BY <2>1, <3>1, <4>1 DEF Holder
    <3>3. CASE ~tokens[my[c].tok].used
      <4>1. tokens[my[c].tok].proof.stamp >= cut["code"]
        BY <1>t, <3>1, <3>3 DEF Codes
      <4>2. Good(my'[c].user.stamp, my'[c].proof)
        BY <1>t, <3>1, <4>1 DEF Good, Stamped
      <4>3. Signs(c)'
        BY <1>f, <3>1, <4>2 DEF Kinds
      <4> QED BY <2>1, <3>1, <4>3 DEF Holder
    <3> QED BY <3>2, <3>3
  <2>2. CASE at[c] = "linked" /\ at'[c] = "still"
    <3>1. my'[c].user.stamp <= user'.stamp
      BY <1>6, <1>t, <2>2 DEF Refills, Stamped
    <3> QED BY <2>2, <3>1 DEF Holder
  <2>3. CASE at[c] = "still" /\ at'[c] = "finish"
    <3>1. /\ link = my[c].link /\ my'[c].user = my[c].user /\ my'[c].flow = my[c].flow /\ my'[c].linking = my[c].linking
          /\ my'[c].proof = [link.proof EXCEPT !.sure = @ /\ Settled]
          /\ my[c].flow = "provider" /\ my[c].linking = FALSE /\ link # NoLink
          /\ link.proof \in Proofs /\ my[c].user.stamp <= user.stamp
      BY <1>6, <1>t, <2>3 DEF Refills, Placed, Holder, SignInTypes, LinkRows
    <3>2. /\ my'[c].proof.kind = "provider" /\ my'[c].proof.stamp = link.proof.stamp
          /\ my'[c].proof.sure => link.proof.sure /\ Settled
      <4>1. my'[c].proof.kind = link.proof.kind /\ my'[c].proof.stamp = link.proof.stamp
        BY <3>1 DEF Proofs
      <4>2. my'[c].proof.sure = (link.proof.sure /\ Settled)
        BY <3>1 DEF Proofs
      <4>3. link.proof.kind = "provider"
        BY <1>t, <3>1 DEF LinkKept
      <4> QED BY <4>1, <4>2, <4>3
    <3>3. Good(my'[c].user.stamp, my'[c].proof)
      BY <1>t, <3>1, <3>2 DEF Good, LinkKept
    <3>4. Signs(c)'
      BY <1>f, <3>1, <3>2, <3>3 DEF Kinds
    <3> QED BY <2>3, <3>4 DEF Holder
  <2>4. CASE at[c] = "stamp" /\ at'[c] = "void"
    BY <1>1, <2>4
  <2>5. CASE at[c] = "restamp" /\ at'[c] = "finish"
    <3>1. /\ my'[c].user.stamp = user'.stamp /\ my'[c].proof = Proof("code", user'.stamp, TRUE)
          /\ my'[c].flow \in {"otp_link", "otp_code"} /\ my'[c].linking = FALSE
      <4>1. /\ Claims(c) /\ my'[c].user.stamp = user'.stamp /\ user'.stamp = user.stamp + 1
            /\ my'[c].proof = Proof("code", user.stamp + 1, TRUE)
            /\ my'[c].flow = my[c].flow /\ my'[c].linking = my[c].linking
        BY <1>6, <2>5 DEF Refills
      <4>2. my[c].flow \in {"otp_link", "otp_code"}
        BY <4>1 DEF Claims
      <4>3. my[c].linking = FALSE
        BY <1>m, <1>t, <4>2 DEF Placed, Held
      <4> QED BY <4>1, <4>2, <4>3
    <3>2. my'[c].proof.kind = "code" /\ my'[c].proof.stamp = user'.stamp
      BY <3>1 DEF Proof
    <3>3. cut'["code"] <= user'.stamp /\ cut'["code"] \in Nat
      BY <1>t, CutsKept DEF Cuts, Kinds, UserMoved
    <3>4. Good(my[c].user.stamp, my[c].proof)'
      <4>1. user'.stamp \in Nat
        BY <1>t DEF Stamped
      <4>2. my'[c].user.stamp <= user'.stamp
        BY <3>1, <4>1
      <4>3. my'[c].proof.stamp >= cut'[my'[c].proof.kind]
        BY <3>2, <3>3, <4>1
      <4>4. my'[c].proof.kind # "password"
        BY <3>2
      <4> QED BY <4>2, <4>3, <4>4 DEF Good
    <3>5. Signs(c)'
      BY <3>1, <3>2, <3>4 DEF Signs, Sound, Kinds
    <3> QED BY <2>5, <3>5 DEF Holder
  <2> QED BY <1>6, <2>1, <2>2, <2>3, <2>4, <2>5 DEF Refills
<1>7. ASSUME at[c] = "password", at'[c] = "succeeded", my'[c] = my[c], my[c].user.pw # Unusable PROVE Holder(c)'
  BY <1>7, <1>k, <1>t DEF Holder
<1>8. ASSUME at[c] = "succeeded", my'[c] = my[c], at'[c] = IF my[c].flow = "login" THEN "finish" ELSE "consume"
      PROVE  Holder(c)'
  <2>1. my[c].flow # "confirm_email" => Signs(c)'
    BY <1>8, <1>k, <1>t DEF Holder
  <2> QED BY <1>8, <1>t, <2>1 DEF Holder, Placed
<1>9. ASSUME at'[c] = "guess", my'[c].tok \in Open("otp") PROVE Holder(c)'
  <2>1. tokens'[my'[c].tok].proof.kind = "code"
    BY <1>9, <1>r, <1>t DEF Codes, Open
  <2> QED BY <1>9, <2>1 DEF Holder
<1>10. ASSUME Issues(c) PROVE Holder(c)'
  BY <1>1, <1>10 DEF Issues
<1>11. ASSUME at[c] = "void", at'[c] = IF my[c].flow = "confirm_email" THEN "restamp" ELSE "links" PROVE Holder(c)'
  BY <1>1, <1>11
<1>12. Holder(c)'
  BY <1>t, <1>1, <1>2, <1>3, <1>4, <1>5, <1>6, <1>7, <1>8, <1>9, <1>10, <1>11 DEF CallMoved
<1> QED BY <1>d, <1>12

LEMMA LinkStays ==
    ASSUME SignInInv, NEW c \in Calls, SignInMoved(c)
    PROVE  LinkKept'
<1>t. /\ LinkKept /\ LinkMoved(c) /\ UserMoved(c) /\ Stamped(c) /\ TakesOn(c) /\ Placed(c) /\ Holder(c) /\ Cuts
      /\ at[c] # "ended" /\ link \in LinkRows /\ my[c] \in Held /\ cut \in [Kinds -> Nat]
      /\ \A d \in Calls : d # c => at'[d] = at[d] /\ my'[d] = my[d]
  BY StampMoves, TakesOnOnly DEF SignInInv, SignInTypes, CallsPlaced, SignInMoved, Goes, ChargesMoved, Backed
<1>1. CASE link' = NoLink
  <2>1. link'.by \notin Calls
    BY <1>1, NothingFacts, SignInAssumption
  <2> QED BY <1>1, <2>1 DEF LinkKept
<1>2. CASE /\ at[c] = "apply" /\ at'[c] = "since" /\ my'[c] = my[c]
           /\ link' = [by |-> c, proof |-> [my[c].proof EXCEPT !.kind = "provider"]]
  <2>1. my[c].proof \in Proofs
    BY <1>t DEF Held
  <2>2. /\ link'.by = c /\ link'.proof.kind = "provider"
        /\ link'.proof.stamp = my'[c].proof.stamp /\ link'.proof.sure = my'[c].proof.sure
    BY <1>2, <2>1 DEF Proofs
  <2>3. my'[c].flow = "merge_confirm" \/ my'[c].linking
    BY <1>2, <1>t DEF Placed
  <2>4. ~Settled'
    BY <1>2, <2>2 DEF Settled
  <2> QED BY <1>2, <2>2, <2>3, <2>4 DEF LinkKept
<1>3. CASE link' = link /\ at[c] \notin {"unlink", "links"}
  <2>1. ASSUME link'.by \in Calls
        PROVE  /\ at'[link'.by] \in {"since", "unlink", "ended"}
               /\ at'[link'.by] = "since" =>
                    /\ my'[link'.by].flow = "merge_confirm" \/ my'[link'.by].linking
                    /\ link'.proof.stamp = my'[link'.by].proof.stamp
                    /\ link'.proof.sure = my'[link'.by].proof.sure
    <3>1. CASE link.by # c
      BY <1>3, <1>t, <2>1, <3>1 DEF LinkKept
    <3>2. CASE link.by = c
      <4>1. at[c] = "since"
        BY <1>3, <1>t, <2>1, <3>2 DEF LinkKept
      <4>2. my[c].flow = "merge_confirm" \/ my[c].linking
        BY <1>t, <3>2, <4>1 DEF LinkKept
      <4>3. at'[c] \in {"ended", "unlink"}
        BY <1>t, <4>1, <4>2 DEF LinkMoved
      <4> QED BY <1>3, <3>2, <4>3
    <3> QED BY <3>1, <3>2
  <2>2. ASSUME link # NoLink, link.proof.sure, Settled'
        PROVE  /\ link.proof.stamp >= cut["provider"]
               /\ \A d \in Calls : at[d] = "restamp" /\ my[d].flow # "confirm_email" =>
                    link.proof.stamp >= my[d].proof.stamp
    <3>1. CASE Settled
      BY <1>t, <2>2, <3>1 DEF LinkKept
    <3>2. CASE ~Settled
      <4>1. link.by \in Calls /\ at[link.by] \in {"since", "unlink"} /\ at'[link.by] \notin {"since", "unlink"}
        BY <1>3, <2>2, <3>2 DEF Settled
      <4>2. link.by = c /\ at[c] = "since"
        BY <1>3, <1>t, <4>1
      <4>3. /\ my[c].flow = "merge_confirm" \/ my[c].linking
            /\ link.proof.stamp = my[c].proof.stamp /\ link.proof.sure = my[c].proof.sure
        BY <1>t, <4>2 DEF LinkKept
      <4>4. my[c].user.stamp = user.stamp
        BY <1>t, <4>1, <4>2, <4>3 DEF LinkMoved
      <4>5. Good(my[c].user.stamp, my[c].proof) /\ my[c].proof.kind = "password"
        BY <1>t, <4>2, <4>3 DEF Holder, Signs, Sound
      <4>6. /\ my[c].proof.stamp >= cut["password"]
            /\ \A d \in Calls : TakingAll(d) => my[c].proof.stamp >= my[d].proof.stamp
        BY <2>2, <4>3, <4>4, <4>5 DEF Good
      <4> QED BY <1>t, <4>3, <4>6 DEF TakingAll, Cuts
    <3> QED BY <3>1, <3>2
  <2>3. ASSUME link # NoLink, link.proof.sure, Settled'
        PROVE  link.proof.stamp >= cut'["provider"]
    <3>1. CASE at[c] = "restamp"
      <4>1. link.proof.stamp \in Int /\ cut["provider"] \in Nat
        BY <1>t DEF LinkRows, Proofs, Kinds
      <4>2. cut'["provider"] = IF my[c].flow = "confirm_email" THEN cut["provider"]
                               ELSE Later(cut["provider"], my[c].proof.stamp)
        BY <3>1, TakenBackBy DEF Kinds
      <4> QED BY <2>2, <2>3, <3>1, <4>1, <4>2 DEF Later
    <3>2. CASE at[c] # "restamp"
      BY <1>t, <2>2, <2>3, <3>2 DEF UserMoved
    <3> QED BY <3>1, <3>2
  <2>4. ASSUME link # NoLink, link.proof.sure, Settled', NEW d \in Calls,
               at'[d] = "restamp", my'[d].flow # "confirm_email"
        PROVE  link.proof.stamp >= my'[d].proof.stamp
    <3>1. at[d] = "restamp" /\ my'[d] = my[d]
      BY <1>3, <1>t, <2>4 DEF TakesOn
    <3> QED BY <2>2, <2>4, <3>1
  <2> QED BY <1>3, <1>t, <2>1, <2>3, <2>4 DEF LinkKept
<1> QED BY <1>t, <1>1, <1>2, <1>3 DEF LinkMoved

LEMMA SignInKept == SignInInv /\ [SignInStep]_signin => SignInInv'
<1>1. ASSUME SignInInv, NEW c \in Calls, Step(c) PROVE SignInInv'
  <2>1. SignInMoved(c)
    BY <1>1, SignInMoves
  <2>2. SignInTypes' /\ CallsPlaced' /\ Spent' /\ SpentOnce' /\ OneLiveCode' /\ Counted'
    BY <1>1, <2>1, TypesKept, PlacedKept, SpentKept, OneLiveKept, CountedKept
  <2>3. Cuts' /\ Passwords' /\ Codes' /\ Tickets' /\ LinkKept'
    BY <1>1, <2>1, CutsKept, PasswordsKept, CodesKept, TicketsKept, LinkStays
  <2>4. (\A d \in Calls : Holder(d)') /\ \A s \in sessions' : s.proof.kind \in Kinds /\ Good(s.rs, s.proof)'
    BY <1>1, <2>1, HolderKept, SessionsGood
  <2> QED BY <2>2, <2>3, <2>4 DEF SignInInv, Backed, Good
<1>2. ASSUME SignInInv, UNCHANGED signin PROVE SignInInv'
  <2>1. SignInTypes' /\ CallsPlaced' /\ Spent' /\ SpentOnce' /\ OneLiveCode'
    BY <1>2 DEF SignInInv, signin, db, history, SignInTypes, CallsPlaced, Placed, HasToken, Spent, SpentOnce,
                OneLiveCode, Open
  <2>2. Counted'
    BY <1>2 DEF SignInInv, signin, db, history, Counted, Passed, Compared
  <2>3. Cuts' /\ Passwords' /\ Codes' /\ LinkKept'
    BY <1>2 DEF SignInInv, Backed, signin, db, history, Cuts, Passwords, Codes, LinkKept, TakingAll, Settled
  <2>4. Tickets' /\ (\A d \in Calls : Holder(d)') /\ \A s \in sessions' : s.proof.kind \in Kinds /\ Good(s.rs, s.proof)'
    BY <1>2 DEF SignInInv, Backed, signin, db, history, Tickets, Holder, Signs, Sound, Good, TakingAll
  <2> QED BY <2>1, <2>2, <2>3, <2>4 DEF SignInInv, Backed, Good
<1> QED BY <1>1, <1>2 DEF SignInStep

LEMMA InitSignedIn == InitSignIn => SignInInv
<1> SUFFICES ASSUME InitSignIn PROVE SignInInv
  OBVIOUS
<1>1. PICK a \in Accounts : user = a.user /\ link = a.link /\ tokens = a.tokens
  BY DEF InitSignIn
<1>2. Accounted(a)
  BY SignInAssumption
<1>3. /\ user \in UserRows /\ (user.pw # Unusable => user.pw >= 0)
      /\ link \in LinkRows /\ link.by = "nobody" /\ link.proof.stamp >= 0
      /\ link # NoLink => link.proof.kind = "provider"
      /\ tokens \in Seq(TokenRows)
  BY <1>1, <1>2 DEF Accounted
<1>4. \A t \in DOMAIN tokens :
         /\ tokens[t].proof.stamp >= 0
         /\ tokens[t].purpose = "otp" => tokens[t].proof.kind = "code"
         /\ tokens[t].purpose = "mfa_ticket" =>
              /\ tokens[t].proof.kind \in Kinds /\ tokens[t].seen <= user.stamp
              /\ tokens[t].linking => tokens[t].proof.kind = "password"
         /\ ~tokens[t].used /\ tokens[t].purpose \in {"otp", "email_change"} =>
              \A s \in DOMAIN tokens :
                 s # t /\ tokens[s].purpose = tokens[t].purpose => tokens[s].used
  BY <1>1, <1>2 DEF Accounted
<1>5. /\ charges = [b \in Budgets |-> {}] /\ missed = [b \in Budgets |-> {}]
      /\ factors = {} /\ sessions = {} /\ acted = {} /\ compared = {}
      /\ cut = [k \in Kinds |-> 0]
      /\ \A c \in Calls : at[c] = "start" /\ my[c] = Blank
      /\ at \in [Calls -> Stages] /\ my \in [Calls -> Held]
  BY NothingFacts DEF InitSignIn, Budgets, Kinds, Stages
<1>6. SignInTypes
  BY <1>3, <1>5 DEF SignInTypes
<1>7. CallsPlaced
  BY <1>5, NothingFacts DEF CallsPlaced, Placed
<1>8. Spent /\ SpentOnce
  BY <1>5 DEF Spent, SpentOnce
<1>9. OneLiveCode
  BY <1>4 DEF OneLiveCode, Open
<1>10. Counted
  <2>1. \A b \in {"otp", "mfa"} : missed[b] = {} /\ Passed(b) = {}
    BY <1>5 DEF Passed, Budgets
  <2>2. \A t : Compared(t) = {}
    BY <1>5 DEF Compared
  <2>3. \A t \in DOMAIN tokens : tokens[t].attempts \in Nat
    BY <1>3, RowFields
  <2>4. Cardinality({}) = 0 /\ MaxCodeFailures \in Nat /\ MaxTokenAttempts \in Nat
    BY FS_EmptySet, SignInAssumption
  <2>5. \A b \in {"otp", "mfa"} : Passed(b) \subseteq charges[b] /\ Cardinality(Passed(b)) <= MaxCodeFailures
    BY <2>1, <2>4
  <2>6. \A t \in DOMAIN tokens : /\ Cardinality(Compared(t)) <= tokens[t].attempts
                                 /\ Cardinality(Compared(t)) <= MaxTokenAttempts
    BY <2>2, <2>3, <2>4
  <2>7. /\ \A b \in {"otp", "mfa"} : \A c \in missed[b] : at[c] = "ended"
        /\ \A c \in Calls : /\ at[c] = "pick" => c \in charges["otp"]
                            /\ at[c] = "attempt" => c \in charges["mfa"]
        /\ \A x \in compared : x[2] \in DOMAIN tokens
    BY <1>5, <2>1
  <2> QED BY <2>5, <2>6, <2>7 DEF Counted
<1>11. Backed
  <2>0. cut["provider"] = 0 /\ cut["password"] = 0 /\ cut["code"] = 0 /\ (\A k \in Kinds : cut[k] = 0) /\ user.stamp \in Nat
        /\ \A c \in Calls : ~TakingAll(c)
    BY <1>3, <1>5 DEF Kinds, UserRows, TakingAll
  <2>1. Cuts /\ Passwords /\ Codes
    BY <1>3, <1>4, <1>5, <2>0 DEF Cuts, Passwords, Codes
  <2>2. Tickets
    BY <1>4, <2>0 DEF Tickets, Sound, Good
  <2>3. LinkKept
    BY <1>3, <1>5, <2>0, SignInAssumption DEF LinkKept
  <2>4. \A c \in Calls : Holder(c)
    BY <1>5 DEF Holder
  <2> QED BY <1>5, <2>1, <2>2, <2>3, <2>4 DEF Backed
<1> QED BY <1>6, <1>7, <1>8, <1>9, <1>10, <1>11 DEF SignInInv

LEMMA SigningInIsKept == Spec => []SignInInv
<1>1. Init => SignInInv
  BY InitSignedIn DEF Init
<1>2. SignInInv /\ [Next]_vars => SignInInv'
  BY SignInKept DEF Next, vars
<1> QED BY <1>1, <1>2, PTL DEF Spec

\* Whoever sends or races it, a mailed link or code, an MFA ticket, a merge
\* token, a TOTP step or a recovery code lets one call through: it is spent by
\* a conditional update, and what is spent stays spent.  (consumeToken and
\* verifyTotpOnce, api/auth.ts)
THEOREM CredentialsSpendOnce == Spec => []SpentOnce
BY SigningInIsKept, PTL DEF SignInInv

\* However many calls guess at once, wrong guesses at an account's codes stay
\* within its budget and each code's comparisons within its own: the charge is
\* there before the count, and is taken back by calls that no longer guess.
\* (reserveAttempt in core/security.ts, spendTokenAttempt in api/auth.ts)
THEOREM GuessingIsBounded == Spec => []GuessesBounded
<1>1. SignInInv => GuessesBounded
  <2> SUFFICES ASSUME SignInInv PROVE GuessesBounded
    OBVIOUS
  <2>1. Counted /\ missed \in [Budgets -> SUBSET Calls] /\ IsFiniteSet(Calls) /\ MaxCodeFailures \in Nat
    BY SignInAssumption DEF SignInInv, SignInTypes
  <2>2. ASSUME NEW b \in {"otp", "mfa"} PROVE Cardinality(missed[b]) <= MaxCodeFailures
    <3>1. missed[b] \subseteq Passed(b) /\ Passed(b) \subseteq Calls /\ Cardinality(Passed(b)) <= MaxCodeFailures
      BY <2>1 DEF Counted, Passed, Budgets
    <3>2. IsFiniteSet(Passed(b)) /\ Cardinality(Passed(b)) \in Nat
      BY <2>1, <3>1, FS_Subset, FS_CardinalityType
    <3>3. Cardinality(missed[b]) <= Cardinality(Passed(b)) /\ Cardinality(missed[b]) \in Nat
      BY <3>1, <3>2, FS_Subset, FS_CardinalityType
    <3> QED BY <2>1, <3>1, <3>2, <3>3
  <2> QED BY <2>1, <2>2 DEF Counted, Compared, GuessesBounded
<1> QED BY <1>1, SigningInIsKept, PTL

\* Two requests for a code at once, or for an email change, leave one live once
\* both have voided the rest.  (issueOtpAndSend, api/auth.ts)
THEOREM CodesSupersede == Spec => []OneLiveCode
BY SigningInIsKept, PTL DEF SignInInv

\* However sign-ins interleave with it, once a password reset or the claim of
\* an unverified account is over no live session rests on a password, code or
\* (settled) provider link from before: whoever signs later signs with a stamp
\* that has been passed.  (restampAfterReset and resetSince, api/auth.ts)
THEOREM ResetsTakeBack == Spec => []TakenBack
<1>1. SignInInv => TakenBack
  BY DEF SignInInv, Backed, Good, TakenBack
<1> QED BY <1>1, SigningInIsKept, PTL

=============================================================================
