--------------------------- MODULE CollectionCache ---------------------------
(***************************************************************************)
(* The collection cache of every server (src/src/core/collections.ts) over *)
(* one database, with the announcements of Peers that empty it: one        *)
(* collection name, whose row (id, rules and all) is read, created,        *)
(* updated and deleted on any server.                                      *)
(*                                                                         *)
(* A statement runs on a connection of its own, so what it reads and what  *)
(* the code does with the answer are two steps, with others in between.    *)
(* Ids and versions of the row are numbered as they are written.           *)
(***************************************************************************)
EXTENDS Peers

CONSTANTS Reads,    \* calls of getCollection
          Creates,  \* of createCollection
          Updates,  \* of updateCollection, that change rules and not the name
          Deletes,  \* of deleteCollection
          MaxCalls  \* bound: how many of them are made

Changes == Creates \cup Updates \cup Deletes

ASSUME CollectionsAssumption ==
    /\ MaxCalls \in Nat
    /\ Calls = Reads \cup Changes
    /\ Reads \cap Changes = {} /\ Creates \cap Updates = {}
    /\ Deletes \cap (Creates \cup Updates) = {}

VARIABLES row,     \* the collection's row in the database
          latest,  \* the number of the last version written
          cache,   \* what each server's cache has under the name
          at,      \* where each call is
          on,      \* the server it runs on
          target,  \* the id it works on
          got,     \* what its last select has read
          why      \* history: how each entry came to be what it is

callVars == <<at, on, target, got>>
vars == <<peerVars, row, latest, cache, callVars, why>>

NoRow == [id |-> 0, ver |-> 0]
Versions == 0 .. (Cardinality(Creates) + Cardinality(Updates) + 1)
Row == {NoRow} \cup [id : Versions \ {0}, ver : Versions \ {0}]

Init == /\ PeersInit
        /\ row \in {NoRow, [id |-> 1, ver |-> 1]}
        /\ latest = 1
        /\ cache = [s \in Servers |-> NoRow]
        /\ at = [c \in Calls |-> "start"]
        /\ on = [c \in Calls |-> None]
        /\ target = [c \in Calls |-> 0]
        /\ got = [c \in Calls |-> NoRow]
        /\ why = [s \in Servers |-> "kept"]

Goto(c, stage) == at' = [at EXCEPT ![c] = stage]

\* The call is over, and its locals with it.
End(c, outcome) == /\ Goto(c, outcome)
                   /\ on' = [on EXCEPT ![c] = None]
                   /\ target' = [target EXCEPT ![c] = 0]
                   /\ got' = [got EXCEPT ![c] = NoRow]

\* The call c runs on a server that is up; it gets there with its first step.
Runs(c, s, stage) == at[c] = stage /\ on[c] = s /\ Up(s)

Starts(c, s) == /\ at[c] = "start"
                /\ Up(s)
                /\ Cardinality({d \in Calls : at[d] # "start"}) < MaxCalls

\* c's select has read r.
Selects(c, r) == got' = [got EXCEPT ![c] = r]

\* A change under way may still take the row with this id away.
Unsettled(id) == \E c \in Changes : target[c] = id /\ at[c] \in {"made", "remove"}

\* What is put into the cache may have changed since it was read.
Remembers(s, r) ==
    /\ cache' = [cache EXCEPT ![s] = r]
    /\ why' = [why EXCEPT ![s] = IF r # row THEN "behind"
                                 ELSE IF Unsettled(r.id) THEN "unsettled" ELSE "kept"]

Forgets(s) == /\ cache' = [cache EXCEPT ![s] = NoRow]
              /\ why' = [why EXCEPT ![s] = "kept"]

-----------------------------------------------------------------------------
(* getCollection, called by itself or by deleteCollection. *)

\* A read is over; a delete goes on with the collection it found.
Has(c, r) == IF c \in Reads THEN End(c, "ok")
             ELSE /\ target' = [target EXCEPT ![c] = r.id]
                  /\ got' = [got EXCEPT ![c] = NoRow]
                  /\ Goto(c, "drop")

\* (A read that hits changes nothing.)
Hit(c, s) == /\ c \in Deletes
             /\ Starts(c, s)
             /\ cache[s] # NoRow
             /\ Has(c, cache[s])
             /\ on' = [on EXCEPT ![c] = s]
             /\ UNCHANGED <<peerVars, row, latest, cache, why>>

Miss(c, s) == /\ c \in Reads \cup Deletes
              /\ Starts(c, s)
              /\ cache[s] = NoRow
              /\ on' = [on EXCEPT ![c] = s]
              /\ Selects(c, row)
              /\ Goto(c, "found")
              /\ UNCHANGED <<peerVars, row, latest, cache, target, why>>

Fill(c, s) ==
    /\ Runs(c, s, "found")
    /\ IF got[c] = NoRow
       THEN End(c, IF c \in Reads THEN "ok" ELSE "failed") /\ UNCHANGED <<cache, why>>
       ELSE /\ Remembers(s, got[c])
            /\ Has(c, got[c])
            /\ c \in Deletes => UNCHANGED on
    /\ UNCHANGED <<peerVars, row, latest>>

-----------------------------------------------------------------------------
(* Changes. *)

\* The row is inserted, unless the name is taken; then the table is made.
Insert(c, s) ==
    /\ c \in Creates
    /\ Starts(c, s)
    /\ IF row # NoRow
       THEN End(c, "failed") /\ UNCHANGED <<row, latest>>
       ELSE /\ on' = [on EXCEPT ![c] = s]
            /\ row' = [id |-> latest + 1, ver |-> latest + 1]
            /\ latest' = latest + 1
            /\ target' = [target EXCEPT ![c] = latest + 1]
            /\ Goto(c, "made")
            /\ UNCHANGED got
    /\ UNCHANGED <<peerVars, cache, why>>

\* The table couldn't be made: the row goes again.
CreateFails(c, s) == /\ Runs(c, s, "made")
                     /\ row' = IF row.id = target[c] THEN NoRow ELSE row
                     /\ End(c, "failed")
                     /\ UNCHANGED <<peerVars, latest, cache, why>>

\* updateCollection reads the row, not the cache.
Find(c, s) == /\ c \in Updates
              /\ Starts(c, s)
              /\ IF row = NoRow THEN End(c, "failed")
                 ELSE /\ on' = [on EXCEPT ![c] = s]
                      /\ target' = [target EXCEPT ![c] = row.id]
                      /\ Goto(c, "write")
                      /\ UNCHANGED got
              /\ UNCHANGED <<peerVars, row, latest, cache, why>>

Write(c, s) == /\ Runs(c, s, "write")
               /\ IF row.id = target[c]
                  THEN /\ row' = [row EXCEPT !.ver = latest + 1]
                       /\ latest' = latest + 1
                  ELSE UNCHANGED <<row, latest>>
               /\ Goto(c, "written")
               /\ UNCHANGED <<peerVars, cache, on, target, got, why>>

\* The server's own entry goes, and the others are told.
Announce(c, s, next) == /\ Forgets(s)
                        /\ sendToPeers(s, c)
                        /\ Goto(c, next)
                        /\ UNCHANGED <<row, latest, on, target, got>>

Updated(c, s) == Runs(c, s, "written") /\ Announce(c, s, "reread")

\* A created or updated row is read back.
Reread(c, s) == /\ Runs(c, s, IF c \in Creates THEN "made" ELSE "reread")
                /\ Selects(c, IF row.id = target[c] THEN row ELSE NoRow)
                /\ Goto(c, "store")
                /\ UNCHANGED <<peerVars, row, latest, cache, on, target, why>>

Store(c, s) == /\ Runs(c, s, "store")
               /\ IF got[c] = NoRow
                  THEN End(c, "failed") /\ UNCHANGED <<cache, why>>
                  ELSE Remembers(s, got[c]) /\ End(c, "ok")
               /\ UNCHANGED <<peerVars, row, latest>>

\* The table is dropped, the caches too, and then the row is deleted.
Dropped(c, s) == Runs(c, s, "drop") /\ Announce(c, s, "remove")

Remove(c, s) == /\ Runs(c, s, "remove")
                /\ row' = IF row.id = target[c] THEN NoRow ELSE row
                /\ End(c, "ok")
                /\ UNCHANGED <<peerVars, latest, cache, why>>

-----------------------------------------------------------------------------

\* What a server does on an announcement, or a reset.
Drop(s) == Handle(s) /\ Forgets(s) /\ UNCHANGED <<row, latest, callVars>>

\* Its calls end with it.
Crash(s) ==
    LET cut == {c \in Calls : on[c] = s}
        rid(f, none) == [c \in Calls |-> IF c \in cut THEN none ELSE f[c]]
    IN  /\ PeerCrash(s)
        /\ Forgets(s)
        /\ at' = [c \in Calls |-> IF c \notin cut THEN at[c]
                                  ELSE IF at[c] = "written" THEN "cut" ELSE "failed"]
        /\ on' = rid(on, None)
        /\ target' = rid(target, 0)
        /\ got' = rid(got, NoRow)
        /\ UNCHANGED <<row, latest>>

Restart(s) == startPeers(s) /\ UNCHANGED <<row, latest, cache, callVars, why>>

CallStep(c, s) == \/ Hit(c, s) \/ Miss(c, s) \/ Fill(c, s)
                  \/ Insert(c, s) \/ CreateFails(c, s)
                  \/ Find(c, s) \/ Write(c, s) \/ Updated(c, s)
                  \/ Reread(c, s) \/ Store(c, s)
                  \/ Dropped(c, s) \/ Remove(c, s)

Next == \/ \E c \in Calls, s \in Servers : CallStep(c, s)
        \/ PeersStep /\ UNCHANGED <<row, latest, cache, callVars, why>>
        \/ \E s \in Servers : Drop(s) \/ Crash(s) \/ Restart(s)

Spec == Init /\ [][Next]_vars

-----------------------------------------------------------------------------

\* No call is under way and no announcement is on its way.
Quiet == /\ PeersQuiet
         /\ \A c \in Calls : at[c] \in {"start", "ok", "failed", "cut"}

\* Every change could be told: no nextval and NOTIFY failed together, and no
\* server died between a change and its announcement.
AllTold == unheard = {} /\ \A c \in Calls : at[c] # "cut"

\* A change reaches every server: whatever NOTIFYs fail, connections drop and
\* servers restart, once all is quiet a server has the row as it is in the
\* database or nothing (peers.ts:4-9, 22-28).  Except for an entry that was
\* read before a change and stored after it, or of a row that was about to go.
ChangesReachEveryone ==
    Quiet /\ AllTold =>
        \A s \in Servers : cache[s] \in {NoRow, row} \/ why[s] # "kept"

=============================================================================
