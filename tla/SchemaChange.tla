---------------------------- MODULE SchemaChange ----------------------------
(***************************************************************************)
(* Collections and the tables of their records: what createCollection,     *)
(* updateCollection and deleteCollection (src/src/core/collections.ts) do  *)
(* to the collections' rows, to the tables, to the stored row counts       *)
(* (row-counts.ts) and to what points at a collection by its name: the     *)
(* relation fields of others, and the record history.                      *)
(*                                                                         *)
(* On SQLite all calls share one connection.  The driver's statements wait *)
(* for another call's transaction; what the calls write to the rows of the *)
(* collections goes past the driver (drizzle), does not wait, and is rolled*)
(* back with it, though the process's cache may keep it, where a delete    *)
(* finds what it is to delete.  A statement may fail, and the process may  *)
(* crash.                                                                  *)
(*                                                                         *)
(* A column's data is known by the call, or the collection, and the field  *)
(* that it was made for.  In a row, data and aim are history: the data     *)
(* that a field was declared to hold, and the collection its target named  *)
(* when it was saved.                                                      *)
(***************************************************************************)
EXTENDS Integers, Sequences, FiniteSets

CONSTANTS Editors,    \* the calls
          Wishes,     \* what each of them may ask
          Given,      \* the rows to begin with, by their ids
          MaxRecords, \* bound: records in a table
          MaxMishaps, \* bound: statements that fail, crashes
          None

ASSUME SchemaAssumption ==
    /\ MaxRecords \in Nat /\ MaxMishaps \in Nat
    /\ None \notin Editors

VARIABLES base,       \* the database: rows, history, tables (columns, how many records,
                      \* the names its count triggers bear) and the stored counts
          tx,         \* the open transaction: whose, the database before it, and the
                      \* names that other calls wrote of in it
          stage,      \* where each call is
          wish,       \* what it asks
          my,         \* what it has read, and how far a rename is
          cached,     \* what the process's cache may hold, as any call may fill it from
                      \* the rows there are: ids and names, by the key they are under
          mishaps,    \* how much has gone wrong
          torn        \* history: names about which nothing is claimed, as two calls
                      \* had to do with them at once, one ended halfway, or one
                      \* deletes by what the cache has and the database hasn't

schemaVars == <<base, tx, stage, wish, my, cached, mishaps, torn>>

NoTx == [by |-> None, saved |-> None, joined |-> {}]
Blank == [name |-> None, fields |-> <<>>]
Nothing == [id |-> None, row |-> Blank, from |-> None, to |-> None, moved |-> <<>>, undoing |-> FALSE]

Without(f, x) == [y \in DOMAIN f \ {x} |-> f[y]]
With(f, x, v) == [y \in DOMAIN f \cup {x} |-> IF y = x THEN v ELSE f[y]]

Columns(fields) == [f \in DOMAIN fields |-> fields[f].data]

\* The collections in rows that have the name.
Bearers(rows, name) == {i \in DOMAIN rows : rows[i].name = name}
Named(name) == Bearers(base.rows, name)

\* What getCollection puts into the cache of these rows.
Cacheable(rows) ==
    UNION {{[key |-> k, id |-> i, name |-> rows[i].name] : k \in {i, rows[i].name}} : i \in DOMAIN rows}

\* What it may hold when these keys are taken out, or are set to what is there.
Evicts(keys) == cached' = {x \in cached : x.key \notin keys} \cup Cacheable(base'.rows)

GivenNames == {Given[i].name : i \in DOMAIN Given}

InitSchema ==
    /\ base = [rows    |-> Given,
               tables  |-> [n \in GivenNames |->
                              LET i == CHOOSE j \in Bearers(Given, n) : TRUE
                              IN  [cols |-> Columns(Given[i].fields), n |-> 1, trig |-> {n}]],
               counts  |-> [n \in GivenNames |-> 1],
               history |-> {<<Given[i].name, i>> : i \in DOMAIN Given}]
    /\ tx = NoTx
    /\ stage = [c \in Editors |-> "start"]
    /\ wish = [c \in Editors |-> None]
    /\ my = [c \in Editors |-> Nothing]
    /\ cached = Cacheable(Given)
    /\ mishaps = 0
    /\ torn = {}

-----------------------------------------------------------------------------
(* Statements, and the course of a call. *)

Mishap == mishaps < MaxMishaps /\ mishaps' = mishaps + 1
Well == UNCHANGED mishaps

\* A statement through the driver: no other call's transaction is open.
Driver(c) == tx.by \in {None, c}

\* A write past the driver, about some names: it is part of any open transaction.
Writes(c, names, b) ==
    /\ base' = b
    /\ tx' = IF tx.by \in {None, c} THEN tx ELSE [tx EXCEPT !.joined = @ \cup names]

\* What it writes may be read, and cached, from then on.
Raw(c, names, b) == Writes(c, names, b) /\ Evicts({})

\* schemaChange.
Begin(c, b) == /\ tx.by = None
               /\ tx' = [by |-> c, saved |-> base, joined |-> {}]
               /\ base' = b
               /\ UNCHANGED cached

Commit == tx' = NoTx /\ UNCHANGED base

Go(c, place) == stage' = [stage EXCEPT ![c] = place]
Keeps(c) == UNCHANGED <<wish, my>>

Under(c) == stage[c] \notin {"start", "over"}

\* The call is over, and its locals with it.
Over(c) == /\ Go(c, "over")
           /\ my' = [my EXCEPT ![c] = Nothing]
           /\ wish' = [wish EXCEPT ![c] = None]

\* It answers with the row as it is then, if it is there, and puts it into the
\* cache once some keys are out.
Answers(c, keys) ==
    /\ Over(c)
    /\ Evicts(keys \cup UNION {{i, base'.rows[i].name} : i \in {my[c].id} \cap DOMAIN base'.rows})

\* What is asked of the fields is done once the table has its name.
Fields(w) == IF w.fields = None THEN "save" ELSE "alter"

\* Mutant: nothing is undone.
UndoNothing(c) == Over(c)

\* An update fails, and a rename is undone.
Undo(c) == IF my[c].to = None THEN Over(c)
           ELSE /\ Go(c, "others")
                /\ my' = [my EXCEPT ![c].from = my[c].to, ![c].to = my[c].from, ![c].undoing = TRUE]
                /\ UNCHANGED wish

-----------------------------------------------------------------------------
(* Names about which nothing is claimed. *)

\* The names a call has to do with: those it gives, takes, and relates to; and
\* the name of what it deletes.
Concerns(c) ==
    LET w == wish[c]
        now == IF w.op = "delete" THEN {base.rows[i].name : i \in {my[c].id} \cap DOMAIN base.rows} ELSE {}
        asked == IF w.op = "delete" THEN {} ELSE {w.name}
        listed == IF w.op = "delete" \/ w.fields = None THEN {} ELSE {w.fields[i].to : i \in DOMAIN w.fields}
        had == {my[c].row.fields[f].to : f \in DOMAIN my[c].row.fields}
    IN  (asked \cup listed \cup had \cup now \cup {my[c].from, my[c].to}) \ {None}

\* It deletes a row that isn't so, or no longer: by its id or by its name it is
\* another's.
Stale(c) == wish[c].op = "delete" /\ \E i \in DOMAIN base.rows : (i = my[c].id) # (base.rows[i].name = my[c].from)

\* c begins beside d, and both have to do with some name.  Only creates, and
\* deletes, may have one name at once, and a create that begins when a delete
\* has removed the row.
Crosses(c, d) == /\ d # c /\ Under(d)
                 /\ \/ "update" \in {wish[c].op, wish[d].op}
                    \/ wish[c].op = "delete" /\ wish[d].op = "create"
                    \/ wish[c].op = "create" /\ wish[d].op = "delete" /\ stage[d] # "history"
                 /\ Concerns(c) \cap Concerns(d) # {}

Crossing(c) == IF stage[c] = "over" THEN {}
               ELSE UNION {Concerns(c) \cup Concerns(d) : d \in {e \in Editors : Crosses(c, e)}}

\* What is done with a name of the kind makes others so.
Begins(c) ==
    torn' = torn \cup Crossing(c)'
            \cup (IF stage'[c] # "over" /\ (Stale(c)' \/ Concerns(c)' \cap torn # {}) THEN Concerns(c)' ELSE {})

\* The name whose row and table, or history, don't go together if c ends here.
Halfway(c) ==
    LET m == my[c]
        at(places) == stage[c] \in places
    IN  CASE wish[c].op = "create" -> IF at({"table", "unmake", "drop"}) THEN {m.from} ELSE {}
          [] wish[c].op = "delete" -> IF at({"forget", "remove", "history"}) THEN {m.from} ELSE {}
          [] wish[c].op = "update" ->
                IF \/ ~m.undoing /\ m.to # None /\ at({"index", "alter", "unaltered", "save", "saved"})
                   \/ m.undoing /\ at({"others", "rename", "renamed", "unrenamed"})
                THEN {m.from, m.to} ELSE {}

\* An update that goes on, and has to do with such a name, makes others so.
Spoils(names) ==
    LET meets(d) == /\ Under(d) /\ stage'[d] # "over"
                    /\ wish[d].op = "update" /\ Concerns(d) \cap names # {}
    IN  torn' = torn \cup names \cup UNION {Concerns(d) : d \in {e \in Editors : meets(e)}}

\* What other calls have written in the transaction goes too.
\* (The cache keeps what was read of it.)
Rollback(names) == base' = tx.saved /\ tx' = NoTx /\ Spoils(names \cup tx.joined) /\ Evicts({})

\* A statement fails, and that is the end of the call.
Fails(c) == Mishap /\ Over(c) /\ Spoils(Halfway(c))

-----------------------------------------------------------------------------
(* Row counts. *)

forgetRowCount(b, name) == [b EXCEPT !.counts = Without(@, name)]

\* Triggers under another table's name here, and under this name elsewhere, go.
NoStale(b, name) ==
    LET trig(t) == IF t = name THEN b.tables[t].trig \cap {name} ELSE b.tables[t].trig \ {name}
    IN  [b EXCEPT !.tables = [t \in DOMAIN @ |-> [@[t] EXCEPT !.trig = trig(t)]]]

\* Mutant: a count that is there is taken for right.
TrustsCount(b, name) ==
    LET d == NoStale(b, name)
        n == IF name \in DOMAIN d.counts THEN d.counts[name] ELSE d.tables[name].n
    IN  [d EXCEPT !.tables[name].trig = {name}, !.counts = With(@, name, n)]

\* The triggers and the count are made in one transaction.
ensureRowCount(b, name) ==
    LET d == NoStale(b, name)
    IN  IF d.tables[name].trig = {name} /\ name \in DOMAIN d.counts THEN d
        ELSE [d EXCEPT !.tables[name].trig = {name}, !.counts = With(@, name, d.tables[name].n)]

-----------------------------------------------------------------------------
(* Creating. *)

\* The fields that call c saves, given those there were and the rows there are.
Declared(c, l, old, rows) ==
    [n \in {l[i].name : i \in DOMAIN l} |->
        LET to == l[CHOOSE i \in DOMAIN l : l[i].name = n].to
        IN  [data |-> IF n \in DOMAIN old THEN old[n].data ELSE <<c, n>>,
             to   |-> to,
             aim  |-> IF Bearers(rows, to) = {} THEN None ELSE CHOOSE i \in Bearers(rows, to) : TRUE]]

\* The name is looked for, so as to answer plainly.
Available(c) == /\ stage[c] = "start"
                /\ \E w \in Wishes[c] :
                     /\ w.op = "create"
                     /\ IF Named(w.name) # {} THEN Over(c)
                        ELSE Go(c, "insert") /\ wish' = [wish EXCEPT ![c] = w] /\ UNCHANGED my
                /\ UNCHANGED <<base, tx, cached, mishaps>>
                /\ Begins(c)

\* A row is unique by its name.
Insert(c) ==
    LET w == wish[c]
        row == [name |-> w.name, fields |-> Declared(c, w.fields, <<>>, base.rows)]
    IN  /\ stage[c] = "insert"
        /\ IF Named(w.name) # {} THEN Over(c) /\ UNCHANGED <<base, tx, cached>>
           ELSE /\ Raw(c, {w.name}, [base EXCEPT !.rows = With(@, c, row)])
                /\ my' = [my EXCEPT ![c].id = c, ![c].from = w.name]
                /\ Go(c, "table")
                /\ UNCHANGED wish
        /\ UNCHANGED <<mishaps, torn>>

\* Relation fields are indexed, if there are such columns.
Indexable(l, cols) == \A i \in DOMAIN l : l[i].to # None => l[i].name \in DOMAIN cols

\* createUserTable: a table is made unless there is one, then its indexes.
MakeTable(c) ==
    LET name == my[c].from
        l == wish[c].fields
        made == [cols |-> [n \in {l[i].name : i \in DOMAIN l} |-> <<c, n>>], n |-> 0, trig |-> {}]
        table == IF name \in DOMAIN base.tables THEN base.tables[name] ELSE made
    IN  /\ stage[c] = "table"
        /\ Driver(c)
        /\ base' = [base EXCEPT !.tables = With(@, name, table)]
        /\ IF Indexable(l, table.cols)
           THEN \/ Well /\ Go(c, "count")
                \/ Mishap /\ Go(c, "unmake")
           ELSE Well /\ Go(c, "unmake")
        /\ Keeps(c)
        /\ UNCHANGED <<tx, cached, torn>>

\* Then its count, in a transaction of its own, that is not schemaChange's.
Count(c) ==
    LET name == my[c].from
    IN  /\ stage[c] = "count"
        /\ Begin(c, IF name \in DOMAIN base.tables THEN ensureRowCount(base, name) ELSE base)
        /\ Go(c, "counted")
        /\ Keeps(c)
        /\ UNCHANGED <<mishaps, torn>>

\* Without the table, which another call may have dropped, it fails.
CountEnds(c) ==
    LET there == my[c].from \in DOMAIN base.tables
    IN  /\ stage[c] = "counted"
        /\ \/ there /\ Well /\ Commit /\ Answers(c, {}) /\ UNCHANGED torn
           \/ (IF there THEN Mishap ELSE Well) /\ Go(c, "unmake") /\ Keeps(c) /\ Rollback({})

\* The table couldn't be made: the row goes, and then the table, whatever fails.
\* (The history of records that were quick stays.)
Unmake(c) == /\ stage[c] = "unmake"
             /\ Go(c, "drop")
             /\ \/ /\ Well
                   /\ Raw(c, {my[c].from}, [base EXCEPT !.rows = Without(@, c)])
                   /\ Spoils({h[1] : h \in {g \in base.history : g[2] = c}})
                \/ Mishap /\ UNCHANGED <<base, tx, cached>> /\ Spoils(Halfway(c))
             /\ Keeps(c)

-----------------------------------------------------------------------------
(* Updating. *)

\* The collection is looked for by its id or its name.
Find(c) ==
    /\ stage[c] = "start"
    /\ \E w \in {v \in Wishes[c] : v.op = "update"} :
         LET found == ({w.of} \cap DOMAIN base.rows) \cup Named(w.of)
         IN  \/ found = {} /\ Over(c)
             \/ \E i \in found :
                  LET name == base.rows[i].name
                      renames == w.name \notin {None, name}
                  IN  /\ my' = [my EXCEPT ![c].id = i, ![c].row = base.rows[i], ![c].from = name,
                                          ![c].to = IF renames THEN w.name ELSE None]
                      /\ Go(c, IF renames THEN "clash" ELSE Fields(w))
                      /\ wish' = [wish EXCEPT ![c] = w]
    /\ UNCHANGED <<base, tx, cached, mishaps>>
    /\ Begins(c)

\* renameCollectionStorage, to the new name or, undoing it, back.
Clash(c) == /\ stage[c] = "clash"
            /\ IF Named(my[c].to) # {} THEN Over(c) ELSE Go(c, "others") /\ Keeps(c)
            /\ UNCHANGED <<base, tx, cached, mishaps, torn>>

\* Fields that relate to the old name, with the new one.
Renaming(c, fields) == [f \in DOMAIN fields |->
                          IF fields[f].to = my[c].from THEN [fields[f] EXCEPT !.to = my[c].to] ELSE fields[f]]

\* The collections that relate to the old name.
Relating(c, rows) == {i \in DOMAIN rows : \E f \in DOMAIN rows[i].fields : rows[i].fields[f].to = my[c].from}

\* Those whose fields another rename has read, and has yet to write: one of the
\* two changes will be lost.
ReadTwice(c) == {i \in Relating(c, base.rows) :
                    \E d \in Editors \ {c} : stage[d] \in {"rename", "renamed"} /\ i \in DOMAIN my[d].moved}

Others(c) == /\ stage[c] = "others"
             /\ my' = [my EXCEPT ![c].moved = [i \in Relating(c, base.rows) |-> Renaming(c, base.rows[i].fields)]]
             /\ Go(c, "rename")
             /\ Spoils({base.rows[i].name : i \in ReadTwice(c)})
             /\ UNCHANGED <<base, tx, cached, wish, mishaps>>

\* The transaction: the table, its count, and what points at it by its name.
Renamed(c) ==
    LET old == my[c].from
        new == my[c].to
        moved == my[c].moved
        b == [base EXCEPT
                !.tables = With(Without(@, old), new, @[old]),
                !.rows = [i \in DOMAIN @ |-> IF i \in DOMAIN moved
                                             THEN [@[i] EXCEPT !.fields = moved[i]] ELSE @[i]],
                !.history = {<<IF h[1] = old THEN new ELSE h[1], h[2]>> : h \in @}]
    IN  ensureRowCount(forgetRowCount(b, old), new)

Rename(c) ==
    /\ stage[c] = "rename"
    /\ IF my[c].from \notin DOMAIN base.tables \/ my[c].to \in DOMAIN base.tables
       THEN Begin(c, base) /\ Go(c, "unrenamed")
       ELSE Begin(c, Renamed(c)) /\ Go(c, "renamed")
    /\ Keeps(c)
    /\ UNCHANGED <<mishaps, torn>>

RenameEnds(c) ==
    \/ stage[c] = "renamed" /\ Well /\ Commit /\ Go(c, "index") /\ Keeps(c) /\ UNCHANGED <<cached, torn>>
    \/ stage[c] = "renamed" /\ Mishap /\ Over(c) /\ Rollback(Halfway(c))
    \/ stage[c] = "unrenamed" /\ Well /\ Over(c) /\ Rollback(Halfway(c))

\* The search index is built again, once the transaction is over, and what related
\* to the old name is taken out of the cache.
syncFts(c) ==
    /\ stage[c] = "index"
    /\ Driver(c)
    /\ UNCHANGED <<base, tx>>
    /\ \/ /\ Well
          /\ IF my[c].undoing THEN Over(c) ELSE Go(c, Fields(wish[c])) /\ Keeps(c)
          /\ Evicts(DOMAIN my[c].moved \cup {base.rows[i].name : i \in DOMAIN my[c].moved \cap DOMAIN base.rows})
          /\ UNCHANGED torn
       \/ Fails(c) /\ UNCHANGED cached

\* The old names of the fields in l that say they had one, and that is gone from
\* the list; of several the last has it.
Froms(old, l) == {f \in DOMAIN old : /\ \E i \in DOMAIN l : l[i].from = f
                                     /\ \A i \in DOMAIN l : l[i].name # f}
NewName(f, l) == l[CHOOSE i \in DOMAIN l : /\ l[i].from = f
                                           /\ \A j \in DOMAIN l : l[j].from = f => j <= i].name

\* What was called n.
OldName(n, froms, l) == IF \E f \in froms : NewName(f, l) = n
                        THEN CHOOSE f \in froms : NewName(f, l) = n ELSE n

\* f, of fields or columns, after the renames.
AfterRenames(f, froms, l) ==
    [n \in (DOMAIN f \ froms) \cup {NewName(x, l) : x \in froms} |-> f[OldName(n, froms, l)]]

\* The statements of alterUserTable on the columns, in their order: renames,
\* drops, additions.  None if one is refused, or a field's type would change.
Altered(c, cols, old, l) ==
    LET froms == Froms(old, l)
        oldByName == AfterRenames(old, froms, l)
        names == {l[i].name : i \in DOMAIN l}
        renamed == AfterRenames(cols, froms, l)
        dropped == DOMAIN oldByName \ names
        added == names \ DOMAIN oldByName
        retyped == \E i \in DOMAIN l : /\ l[i].name \in DOMAIN oldByName
                                       /\ (oldByName[l[i].name].to = None) # (l[i].to = None)
    IN  IF /\ froms \subseteq DOMAIN cols
           /\ \A f \in froms : NewName(f, l) \notin DOMAIN cols
           /\ dropped \subseteq DOMAIN renamed
           /\ added \cap DOMAIN renamed = {}
           /\ ~retyped
        THEN [n \in (DOMAIN renamed \ dropped) \cup added |-> IF n \in added THEN <<c, n>> ELSE renamed[n]]
        ELSE None

Alter(c) ==
    LET name == IF my[c].to = None THEN my[c].from ELSE my[c].to
        cols == IF name \notin DOMAIN base.tables THEN None
                ELSE Altered(c, base.tables[name].cols, my[c].row.fields, wish[c].fields)
    IN  /\ stage[c] = "alter"
        /\ IF cols = None
           THEN Begin(c, base) /\ Go(c, "unaltered")
           ELSE Begin(c, [base EXCEPT !.tables[name].cols = cols]) /\ Go(c, "save")
        /\ Keeps(c)
        /\ UNCHANGED <<mishaps, torn>>

\* What it was found by, or could have been, at first.
Keys(c) == {my[c].id, my[c].row.name}

\* The row, as the call leaves it.
Saved(c) ==
    LET w == wish[c]
        id == my[c].id
        old == my[c].row.fields
        named == IF w.name = None THEN base.rows ELSE [base.rows EXCEPT ![id].name = w.name]
    IN  IF id \notin DOMAIN base.rows THEN base.rows
        ELSE IF w.fields = None THEN named
        ELSE [named EXCEPT ![id].fields =
                Declared(c, w.fields, AfterRenames(old, Froms(old, w.fields), w.fields), named)]

\* It is saved in the transaction of its table, if that has changed.
Save(c) ==
    LET taken == /\ my[c].id \in DOMAIN base.rows
                 /\ wish[c].name # None /\ ~(Named(wish[c].name) \subseteq {my[c].id})
    IN  /\ stage[c] = "save"
        /\ \/ /\ ~taken
              /\ Well
              /\ Writes(c, {my[c].from, my[c].to} \ {None}, [base EXCEPT !.rows = Saved(c)])
              /\ IF tx.by = c THEN Go(c, "saved") /\ Keeps(c) /\ Evicts(Keys(c)) ELSE Answers(c, Keys(c))
              /\ UNCHANGED torn
           \/ /\ IF taken THEN Well ELSE Mishap
              /\ Undo(c)
              /\ IF tx.by = c THEN Rollback({}) ELSE UNCHANGED <<base, tx, cached, torn>>

\* The views that read the table are looked at, and it is committed.
AlterEnds(c) ==
    \/ stage[c] = "saved" /\ Well /\ Commit /\ Answers(c, Keys(c)) /\ UNCHANGED torn
    \/ stage[c] = "saved" /\ Mishap /\ Undo(c) /\ Rollback({})
    \/ stage[c] = "unaltered" /\ Well /\ Undo(c) /\ Rollback({})

-----------------------------------------------------------------------------
(* Deleting; and dropUserTable, which a create that fails calls too. *)

\* getCollection: what is to be deleted is looked for in the process's cache first.
FindToDelete(c) ==
    /\ stage[c] = "start"
    /\ \E w \in {v \in Wishes[c] : v.op = "delete"} :
         \/ w.of \notin DOMAIN base.rows /\ Named(w.of) = {} /\ Over(c)
         \/ \E x \in cached :
              /\ x.key = w.of
              /\ my' = [my EXCEPT ![c].id = x.id, ![c].from = x.name]
              /\ Go(c, "drop")
              /\ wish' = [wish EXCEPT ![c] = w]
    /\ UNCHANGED <<base, tx, cached, mishaps>>
    /\ Begins(c)

\* (By then another create may have the name, and its table goes.)
DropTable(c) ==
    /\ stage[c] = "drop"
    /\ Driver(c)
    /\ \/ /\ Well
          /\ base' = [base EXCEPT !.tables = Without(@, my[c].from)]
          /\ Go(c, "forget")
          /\ Keeps(c)
          /\ Spoils(IF wish[c].op = "create" /\ Named(my[c].from) # {} THEN {my[c].from} ELSE {})
       \/ Fails(c) /\ UNCHANGED base
    /\ UNCHANGED <<tx, cached>>

\* The row of what is deleted leaves the cache before the database.
Forget(c) ==
    /\ stage[c] = "forget"
    /\ Driver(c)
    /\ \/ /\ Well
          /\ base' = forgetRowCount(base, my[c].from)
          /\ IF wish[c].op = "create" THEN Over(c) /\ UNCHANGED cached
             ELSE Go(c, "remove") /\ Keeps(c) /\ Evicts({my[c].id, my[c].from})
          /\ UNCHANGED torn
       \/ Fails(c) /\ UNCHANGED <<base, cached>>
    /\ UNCHANGED tx

Remove(c) == /\ stage[c] = "remove"
             /\ \/ /\ Well
                   /\ Raw(c, {my[c].from}, [base EXCEPT !.rows = Without(@, my[c].id)])
                   /\ Go(c, "history")
                   /\ Keeps(c)
                   /\ UNCHANGED torn
                \/ Fails(c) /\ UNCHANGED <<base, tx, cached>>

ForgetHistory(c) ==
    /\ stage[c] = "history"
    /\ \/ /\ Well
          /\ Raw(c, {my[c].from}, [base EXCEPT !.history = {h \in @ : h[1] # my[c].from}])
          /\ Over(c)
          /\ UNCHANGED torn
       \/ Fails(c) /\ UNCHANGED <<base, tx, cached>>

-----------------------------------------------------------------------------

\* A record is created, inside the gate: its table's trigger counts it, and its
\* history begins.
CreateRecord(i) ==
    LET name == base.rows[i].name
    IN  /\ tx.by = None
        /\ name \in DOMAIN base.tables
        /\ base.tables[name].n < MaxRecords
        /\ base' = [base EXCEPT
                     !.tables[name].n = @ + 1,
                     !.counts = [t \in DOMAIN @ |-> IF t \in base.tables[name].trig THEN @[t] + 1 ELSE @[t]],
                     !.history = @ \cup {<<name, i>>}]
        /\ UNCHANGED <<tx, stage, wish, my, cached, mishaps, torn>>

\* The process dies, and what was not committed with it.
Stop == /\ Mishap
        /\ \E c \in Editors : Under(c)
        /\ base' = IF tx.by = None THEN base ELSE tx.saved
        /\ tx' = NoTx
        /\ cached' = Cacheable(base'.rows)
        /\ stage' = [c \in Editors |-> IF Under(c) THEN "over" ELSE stage[c]]
        /\ my' = [c \in Editors |-> Nothing]
        /\ wish' = [c \in Editors |-> None]
        /\ Spoils(tx.joined \cup UNION {Halfway(c) : c \in {d \in Editors : Under(d)}})

EditorStep(c) == \/ Available(c) \/ Insert(c) \/ MakeTable(c) \/ Count(c) \/ CountEnds(c) \/ Unmake(c)
                 \/ Find(c) \/ Clash(c) \/ Others(c) \/ Rename(c) \/ RenameEnds(c) \/ syncFts(c)
                 \/ Alter(c) \/ Save(c) \/ AlterEnds(c)
                 \/ FindToDelete(c) \/ DropTable(c) \/ Forget(c) \/ Remove(c) \/ ForgetHistory(c)

SchemaStep == \/ \E c \in Editors : EditorStep(c)
              \/ \E i \in DOMAIN base.rows : CreateRecord(i)
              \/ Stop

SchemaSpec == InitSchema /\ [][SchemaStep]_schemaVars

-----------------------------------------------------------------------------
(* Properties. *)

\* A row has its table, whose columns are its fields, each with the field's own
\* data; and a table has its row.
TablesMatch ==
    /\ \A i \in DOMAIN base.rows :
         LET r == base.rows[i]
         IN  r.name \notin torn => /\ r.name \in DOMAIN base.tables
                                   /\ base.tables[r.name].cols = Columns(r.fields)
    /\ \A n \in DOMAIN base.tables \ torn : Named(n) # {}

\* What a relation field names is the collection it named when it was saved, if
\* that is still there; and a collection's history is its own.
NamesFollow ==
    /\ \A i \in DOMAIN base.rows : \A f \in DOMAIN base.rows[i].fields :
         LET x == base.rows[i].fields[f]
         IN  x.aim \in DOMAIN base.rows =>
                LET now == base.rows[x.aim].name
                IN  {base.rows[i].name, x.to, now} \cap torn = {} => x.to = now
    /\ \A h \in base.history : h[1] \notin torn => Named(h[1]) \subseteq {h[2]}

\* Whatever sequence of creates, changes, renames and deletes, and whatever of it
\* was refused, failed and was undone: once no call is under way, row, table,
\* relations and history go together.  Not so for names that two calls had to do
\* with at once, an update one of them, or with which one ended halfway, that
\* another call's transaction undid with its own, or that a delete found in a
\* row of the cache that was rolled back.
\* (updateCollection and deleteCollection, core/collections.ts:2092, 2222)
StaysTogether == (\A c \in Editors : ~Under(c)) => TablesMatch /\ NamesFollow

\* A stored count that is trusted is right, always: "a missing or stale trigger
\* costs speed, never a wrong total" (core/row-counts.ts:17-20), also between
\* the steps of drops, failed creates and renames of other calls.
RowCountsRight ==
    \A t \in DOMAIN base.tables :
        t \in base.tables[t].trig /\ t \in DOMAIN base.counts => base.counts[t] = base.tables[t].n

=============================================================================
