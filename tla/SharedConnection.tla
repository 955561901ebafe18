-------------------------- MODULE SharedConnection --------------------------
(***************************************************************************)
(* Everything that writes to SQLite through the one connection of a server *)
(* process: the write gate, group commit (src/src/core/group-commit.ts),   *)
(* the driver's transaction ownership (src/src/db/sqlite.ts) and the batch *)
(* (src/src/api/batch.ts) put together.                                    *)
(*                                                                         *)
(*   Writers  record writes (withSharedWrite); a hook of theirs may open a *)
(*            transaction of its own                                       *)
(*   Batches  atomic batches, cascading deletes, schema changes            *)
(*            (withExclusiveWrite around db.transaction)                   *)
(*   Stamps   writes outside the gate through the driver (db.run)          *)
(*   Raws     writes outside the gate on the raw connection (drizzle's     *)
(*            getDb().insert/update/delete)                                *)
(*   Txs      transactions outside the gate (helpers.sql.transaction)      *)
(*                                                                         *)
(* Each of them is one call.  A row stands for what one statement writes.  *)
(* The connection is a record, and what a synchronous stretch of code does *)
(* to it is an operator from connections to connections (or to the set of  *)
(* possible ones, where a COMMIT may fail).                                *)
(***************************************************************************)
EXTENDS WriteGate

CONSTANTS Stamps, Raws, Txs,
          Hooked,           \* the record writes whose hook opens a transaction
          MaxRows,          \* statements one call runs at most
          GroupCommit,      \* whether group commit is enabled
          TriggerRollback,  \* whether some trigger does RAISE(ROLLBACK)
          None

Procs == Writers \cup Batches \cup Stamps \cup Raws \cup Txs

ASSUME ConnectionAssumption == /\ Hooked \subseteq Writers
                               /\ MaxRows \in Nat \ {0}
                               /\ GroupCommit \in BOOLEAN
                               /\ TriggerRollback \in BOOLEAN
                               /\ None \notin Procs
                               /\ {"nowhere", "auto", "own"} \cap Writers = {}
                               /\ Callers \cap (Stamps \cup Raws \cup Txs) = {}

Rows == Procs \X (1 .. MaxRows)

VARIABLES conn,    \* the connection and the open group
          at,      \* where each call is, or how it was answered
          grp,     \* the group each record write joined
          toHook,  \* the record writes whose hook has yet to have it
          issued,  \* how many statements each call has run
          wrote,   \* the rows each call believes it has written
          home     \* history: the transaction each row was written in

calls == <<at, grp, toHook, issued, wrote, home>>
vars == <<gateVars, conn, calls>>

\* conn.tx       the transaction open on the connection: "none", "group", "own"
\* conn.rows     what it has written;  conn.disk: what is committed
\* conn.owner    the call whose db.transaction owns the connection, if any
\* conn.held     that transaction is a savepoint inside the group
\* conn.savepoint, conn.inside   the savepoint exists, and the rows since it
\* conn.mine     the rows the owner wrote in its transaction
\* conn.open     the open group, named after the write that opened it
\* conn.state, conn.effects      of each group
\* conn.wanted   the group's commit waits for the owner (onGroupReleased)
\* conn.due      the end-of-turn flush is scheduled
\* conn.ran      the calls whose side effects have run
Connection ==
  [tx : {"none", "group", "own"}, rows : SUBSET Rows, disk : SUBSET Rows,
   owner : Procs \cup {None}, held : BOOLEAN, savepoint : BOOLEAN,
   inside : SUBSET Rows, mine : SUBSET Rows, open : Writers \cup {None},
   state : [Writers -> {"none", "open", "committed", "failed", "undone"}],
   effects : [Writers -> SUBSET Writers], wanted : BOOLEAN, due : BOOLEAN,
   ran : SUBSET (Writers \cup Batches)]

Init ==
  /\ GateInit
  /\ conn = [tx |-> "none", rows |-> {}, disk |-> {}, owner |-> None,
             held |-> FALSE, savepoint |-> FALSE, inside |-> {}, mine |-> {},
             open |-> None, state |-> [w \in Writers |-> "none"],
             effects |-> [w \in Writers |-> {}], wanted |-> FALSE,
             due |-> FALSE, ran |-> {}]
  /\ at = [p \in Procs |-> "start"]
  /\ grp = [w \in Writers |-> None]
  /\ toHook = Hooked
  /\ issued = [p \in Procs |-> 0]
  /\ wrote = [p \in Procs |-> {}]
  /\ home = [r \in Rows |-> "nowhere"]

-----------------------------------------------------------------------------
(* SQLite: one transaction at a time on the connection. *)

inTransaction(c) == c.tx # "none"

Ended(c) == [c EXCEPT !.tx = "none", !.rows = {}, !.savepoint = FALSE, !.inside = {}]

Commit(c) == [Ended(c) EXCEPT !.disk = @ \cup c.rows]

Rollback(c) == Ended(c)

\* A statement writes into the open transaction, or commits by itself.
Put(c, r) ==
    LET d == IF c.owner = r[1] THEN [c EXCEPT !.mine = @ \cup {r}] ELSE c
    IN  IF inTransaction(c)
        THEN [d EXCEPT !.rows = @ \cup {r},
                       !.inside = IF c.savepoint THEN @ \cup {r} ELSE @]
        ELSE [d EXCEPT !.disk = @ \cup {r}]

HomeOf(c) == CASE c.tx = "none"  -> "auto"
               [] c.tx = "own"   -> "own"
               [] c.tx = "group" -> c.open

-----------------------------------------------------------------------------
(* Group commit. *)

\* The group ends: its waiters and its effects go with the outcome.
CloseGroup(c, outcome) == [c EXCEPT !.open = None, !.state[c.open] = outcome,
                                    !.effects[c.open] = {}]

\* Mutant: the writes of a group that was rolled back are reported saved.
noticeRollbackAsSaved(c) ==
    IF c.open # None /\ ~inTransaction(c) THEN CloseGroup(c, "committed") ELSE c

\* The open group's transaction ended without our COMMIT.
noticeRollback(c) ==
    IF c.open # None /\ ~inTransaction(c) THEN CloseGroup(c, "undone") ELSE c

\* Commit the open group now, unless a hook's savepoint holds it; the COMMIT
\* may fail.  The side effects run right after the COMMIT.
flushGroupCommit(c) ==
    IF c.open = None THEN {c}
    ELSE IF c.held THEN {[c EXCEPT !.wanted = TRUE]}
    ELSE IF ~inTransaction(c) THEN {noticeRollback(c)}
    ELSE {[CloseGroup(Commit(c), "committed") EXCEPT !.ran = @ \cup c.effects[c.open]],
          CloseGroup(Rollback(c), "failed")}

\* The write w joins the open group or opens one; the pairs of connection
\* and group that may result.
joinGroupCommit(c, w) ==
    LET d == noticeRollback(c)
    IN  IF d.open # None THEN <<d, d.open>>
        ELSE IF ~GroupCommit \/ inTransaction(d) THEN <<d, None>>
        ELSE <<[d EXCEPT !.tx = "group", !.open = w, !.state[w] = "open",
                         !.due = TRUE], w>>

\* Mutant: side effects run at once.
announceNow(c, w) == [noticeRollback(c) EXCEPT !.ran = @ \cup {w}]

\* The side effects of w run now, wait for its group, or are dropped.
afterCommit(c, w) ==
    LET d == noticeRollback(c)
        g == grp[w]
    IN  IF g = None THEN [d EXCEPT !.ran = @ \cup {w}]
        ELSE IF d.state[g] = "committed" THEN [d EXCEPT !.ran = @ \cup {w}]
        ELSE IF d.state[g] = "open" THEN [d EXCEPT !.effects[g] = @ \cup {w}]
        ELSE d

\* The group w joined has ended so.
GroupEnded(w, outcome) == grp[w] \in Writers /\ conn.state[grp[w]] = outcome

\* Mutant: the write is answered as soon as it returns.
NeverWaits(w) == TRUE

\* awaitCommit has nothing (more) to wait for.
GroupSettled(w) == grp[w] \in Writers => conn.state[grp[w]] # "open"

-----------------------------------------------------------------------------
(* Ownership of the connection by db.transaction. *)

\* Mutant: nobody waits for another call's transaction.
neverForeign(p) == FALSE

foreignTx(p) == conn.owner \notin {None, p}

\* db.transaction: a savepoint when a transaction is open, a BEGIN otherwise.
Own(c, p) ==
    IF inTransaction(c)
    THEN [c EXCEPT !.owner = p, !.held = TRUE, !.savepoint = TRUE,
                   !.inside = {}, !.mine = {}]
    ELSE [c EXCEPT !.owner = p, !.held = FALSE, !.tx = "own", !.mine = {}]

\* Mutant: nobody commits the group that waited.
ReleasedSilently(c) == {[c EXCEPT !.owner = None, !.held = FALSE, !.mine = {}]}

\* The transaction is over; a commit the group wanted meanwhile happens now.
Released(c) ==
    LET d == [c EXCEPT !.owner = None, !.held = FALSE, !.mine = {}]
    IN  IF c.held /\ c.wanted THEN flushGroupCommit([d EXCEPT !.wanted = FALSE])
                              ELSE {d}

\* fn returned and SQLite has not ended the transaction by itself.
OwnerMayCommit(c) == IF c.held THEN c.savepoint ELSE inTransaction(c)

\* RELEASE of the savepoint, or COMMIT.
OwnerCommitted(c) ==
    Released(IF c.held THEN [c EXCEPT !.savepoint = FALSE, !.inside = {}]
                       ELSE Commit(c))

\* Mutant: what was written before the error is kept.
OwnerKeeps(c) == Released(IF OwnerMayCommit(c) /\ ~c.held THEN Commit(c) ELSE c)

\* fn threw, or the RELEASE or COMMIT failed: undo what is there to undo.
OwnerUndone(c) ==
    Released(IF ~OwnerMayCommit(c) THEN c
             ELSE IF c.held
             THEN [c EXCEPT !.rows = @ \ c.inside, !.savepoint = FALSE, !.inside = {}]
             ELSE Rollback(c))

-----------------------------------------------------------------------------
(* Statements. *)

Goto(p, stage) == at' = [at EXCEPT ![p] = stage]

NextRow(p) == <<p, issued[p] + 1>>

\* p runs a statement on connection c, and it succeeds.
Execute(p, c) == /\ issued[p] < MaxRows
                 /\ conn' = Put(c, NextRow(p))
                 /\ issued' = [issued EXCEPT ![p] = @ + 1]
                 /\ wrote' = [wrote EXCEPT ![p] = @ \cup {NextRow(p)}]
                 /\ home' = [home EXCEPT ![NextRow(p)] = HomeOf(c)]

\* A statement of p on connection c fires a trigger that rolls the whole
\* transaction back.  The statement fails, and the code that ran it lets the
\* error through or catches it and goes on: p stays where it is, and may throw.
FiresRollback(p, c) == /\ TriggerRollback
                       /\ inTransaction(c)
                       /\ ~foreignTx(p)
                       /\ conn' = Rollback(c)
                       /\ UNCHANGED <<gateVars, calls>>

-----------------------------------------------------------------------------
(* Record writes: withSharedWrite around createRecord and the like. *)

\* The gate's test, and with it the join: no await in between.  BEGIN may
\* fail, which fails the write.
EnterWrite(w) ==
    /\ at[w] = "start"
    /\ UNCHANGED <<toHook, issued, wrote, home>>
    /\ \/ /\ ParkShared(w)
          /\ UNCHANGED <<conn, at, grp>>
       \/ /\ AcquireShared(w)
          /\ LET joined == joinGroupCommit(conn, w)
             IN  \/ /\ conn' = joined[1]
                    /\ grp' = [grp EXCEPT ![w] = joined[2]]
                    /\ Goto(w, "run")
                 \/ /\ joined[2] = w
                    /\ conn' = noticeRollback(conn)
                    /\ Goto(w, "threw")
                    /\ UNCHANGED grp

\* A statement of the write or of its hooks; it waits for another call's
\* transaction, and joins whatever transaction it then finds.
WriteStatement(w) == /\ at[w] \in {"run", "hook"}
                     /\ ~foreignTx(w)
                     /\ Execute(w, conn)
                     /\ UNCHANGED <<gateVars, at, grp, toHook>>

\* A hook of the write opens a transaction.
HookBegin(w) == /\ at[w] = "run"
                /\ w \in toHook
                /\ ~foreignTx(w)
                /\ conn' = Own(conn, w)
                /\ toHook' = toHook \ {w}
                /\ Goto(w, "hook")
                /\ UNCHANGED <<gateVars, grp, issued, wrote, home>>

HookEnd(w) ==
    /\ at[w] = "hook"
    /\ Goto(w, "run")
    /\ UNCHANGED <<gateVars, grp, toHook, issued, home>>
    /\ \/ /\ OwnerMayCommit(conn)
          /\ conn' \in OwnerCommitted(conn)
          /\ UNCHANGED wrote
       \/ /\ conn' \in OwnerUndone(conn)
          /\ wrote' = [wrote EXCEPT ![w] = @ \ conn.mine]

WriteRollsBack(w) == /\ at[w] \in {"run", "hook"}
                     /\ FiresRollback(w, conn)

\* The write registers its side effects, then returns or throws (a rule, a
\* hook, a statement that failed alone); awaitCommit notices a lost group.
Announce(w) == /\ at[w] = "run"
               /\ conn' = afterCommit(conn, w)
               /\ Goto(w, "written")
               /\ UNCHANGED <<gateVars, grp, toHook, issued, wrote, home>>

Throw(w) == /\ at[w] = "run"
            /\ Goto(w, "thrown")
            /\ UNCHANGED <<gateVars, conn, grp, toHook, issued, wrote, home>>

AwaitCommit(w) == /\ at[w] \in {"written", "thrown"}
                  /\ conn' = noticeRollback(conn)
                  /\ Goto(w, IF at[w] = "written" THEN "saved" ELSE "threw")
                  /\ UNCHANGED <<gateVars, grp, toHook, issued, wrote, home>>

\* The write's own error wins over the group's.
AnswerWrite(w) ==
    /\ at[w] \in {"saved", "threw"}
    /\ GroupSettled(w)
    /\ ReleaseShared(w)
    /\ Goto(w, IF at[w] = "threw" THEN "error"
               ELSE IF GroupEnded(w, "failed") THEN "error"
               ELSE IF GroupEnded(w, "undone") THEN "lost"
               ELSE "ok")
    /\ UNCHANGED <<conn, grp, toHook, issued, wrote, home>>

-----------------------------------------------------------------------------
(* Batches, and transactions outside the gate. *)

EnterBatch(b) ==
    /\ at[b] = "start"
    /\ UNCHANGED <<grp, toHook, issued, wrote, home>>
    /\ \/ /\ ParkExclusive(b)
          /\ UNCHANGED <<conn, at>>
       \/ /\ AcquireExclusive(b)
          /\ conn' \in flushGroupCommit(conn)
          /\ Goto(b, "run")

BatchBegin(b) == /\ at[b] = "run"
                 /\ ~foreignTx(b)
                 /\ conn' = Own(conn, b)
                 /\ Goto(b, "tx")
                 /\ UNCHANGED <<gateVars, grp, toHook, issued, wrote, home>>

\* Outside the gate the driver's guard commits an open group first.
TxBegin(t) == /\ at[t] = "start"
              /\ ~foreignTx(t)
              /\ \E c \in flushGroupCommit(conn) : conn' = Own(c, t)
              /\ Goto(t, "tx")
              /\ UNCHANGED <<gateVars, grp, toHook, issued, wrote, home>>

\* What a statement of p finds: inside the gate the guard lets it by, outside
\* it commits an open group.
FoundBy(p) == IF p \in Txs THEN flushGroupCommit(conn) ELSE {conn}

TxStatement(p) == /\ at[p] = "tx"
                  /\ \E c \in FoundBy(p) : Execute(p, c)
                  /\ UNCHANGED <<gateVars, at, grp, toHook>>

TxRollsBack(p) == /\ at[p] = "tx"
                  /\ \E c \in FoundBy(p) : FiresRollback(p, c)

\* The transaction ends: fn returned and COMMIT succeeded, or not.
TxEnd(p) ==
    /\ at[p] = "tx"
    /\ UNCHANGED <<gateVars, grp, toHook, issued, home>>
    /\ \/ /\ OwnerMayCommit(conn)
          /\ conn' \in OwnerCommitted(conn)
          /\ Goto(p, IF p \in Batches THEN "saved" ELSE "ok")
          /\ UNCHANGED wrote
       \/ /\ conn' \in OwnerUndone(conn)
          /\ Goto(p, IF p \in Batches THEN "threw" ELSE "error")
          /\ wrote' = [wrote EXCEPT ![p] = @ \ conn.mine]

\* tx.commit() runs the batch's side effects, tx.rollback() drops them.
AnswerBatch(b) ==
    /\ at[b] \in {"saved", "threw"}
    /\ ReleaseExclusive(b)
    /\ conn' = IF at[b] = "saved" THEN [conn EXCEPT !.ran = @ \cup {b}] ELSE conn
    /\ Goto(b, IF at[b] = "saved" THEN "ok" ELSE "error")
    /\ UNCHANGED <<grp, toHook, issued, wrote, home>>

-----------------------------------------------------------------------------
(* Single writes outside the gate, and the end of an event-loop turn. *)

\* db.run: waits for another call's transaction, commits an open group, then
\* runs by itself.
Stamp(s) == /\ at[s] = "start"
            /\ ~foreignTx(s)
            /\ \E c \in flushGroupCommit(conn) : Execute(s, c)
            /\ Goto(s, "ok")
            /\ UNCHANGED <<gateVars, grp, toHook>>

\* The raw connection: the guard is called, but nothing waits.
Raw(r) == /\ at[r] = "start"
          /\ \E c \in flushGroupCommit(conn) : Execute(r, c)
          /\ Goto(r, "ok")
          /\ UNCHANGED <<gateVars, grp, toHook>>

EndOfTurn == /\ conn.due
             /\ conn' \in flushGroupCommit([conn EXCEPT !.due = FALSE])
             /\ UNCHANGED <<gateVars, calls>>

-----------------------------------------------------------------------------

WriteStep(w) == \/ WriteStatement(w) \/ HookBegin(w) \/ HookEnd(w)
                \/ WriteRollsBack(w) \/ Announce(w) \/ Throw(w)
                \/ AwaitCommit(w) \/ AnswerWrite(w)

BatchStep(b) == BatchBegin(b) \/ AnswerBatch(b)

TxStep(p) == TxStatement(p) \/ TxRollsBack(p) \/ TxEnd(p)

Next == \/ \E w \in Writers : EnterWrite(w) \/ WriteStep(w)
        \/ \E b \in Batches : EnterBatch(b) \/ BatchStep(b)
        \/ \E t \in Txs : TxBegin(t)
        \/ \E p \in Batches \cup Txs : TxStep(p)
        \/ \E s \in Stamps : Stamp(s)
        \/ \E r \in Raws : Raw(r)
        \/ EndOfTurn

Spec == Init /\ [][Next]_vars

\* Every call under way goes on: hooks and requests have time limits, promises
\* that are resolved resume, and the scheduled flush runs.
GoesOn(p) == \/ p \in Writers /\ ((gate[p] = "waiting" /\ EnterWrite(p)) \/ WriteStep(p))
             \/ p \in Batches /\ ((gate[p] = "waiting" /\ EnterBatch(p)) \/ BatchStep(p))
             \/ p \in Batches \cup Txs /\ TxStep(p)

Fairness == /\ \A p \in Callers \cup Txs : WF_vars(GoesOn(p))
            /\ WF_vars(EndOfTurn)

FairSpec == Spec /\ Fairness

-----------------------------------------------------------------------------

Answered(p) == at[p] \in {"ok", "error", "lost"}

\* Every variable holds a value of its type.
TypeOK ==
    /\ GateTypeOK
    /\ conn \in Connection
    /\ at \in [Procs -> {"start", "run", "hook", "tx", "written", "thrown",
                         "saved", "threw", "ok", "error", "lost"}]
    /\ grp \in [Writers -> Writers \cup {None}]
    /\ toHook \subseteq Hooked
    /\ issued \in [Procs -> 0 .. MaxRows]
    /\ wrote \in [Procs -> SUBSET Rows]
    /\ home \in [Rows -> {"nowhere", "auto", "own"} \cup Writers]

\* While a batch's transaction is open no group is, and no record write, no
\* driver write and no other transaction has put a row into it
\* (write-gate.ts:5-12, sqlite.ts:392-400).
BatchIsolated ==
    conn.owner \in Batches =>
        /\ conn.open = None
        /\ \A r \in conn.rows : r[1] \in Raws \cup {conn.owner}

\* A row of b written after a trigger had ended b's transaction and b's code
\* had caught that error: it was committed by itself (sqlite.ts:335-347).
WrittenAfterRollback(r) == TriggerRollback /\ home[r] = "auto"

\* A batch is all or nothing: answered ok, all its rows are committed;
\* answered with an error, none is (batch.ts:305-333), except those written
\* after a trigger had rolled the batch's transaction back.
BatchAtomic ==
    \A b \in Batches : \A n \in 1 .. issued[b] :
        /\ at[b] = "ok" => <<b, n>> \in conn.disk
        /\ at[b] = "error" /\ <<b, n>> \in conn.disk => WrittenAfterRollback(<<b, n>>)

\* The write ran its statements in the group it joined, or by itself.
InOwnGroup(w) == \A r \in wrote[w] : home[r] \in {"auto", "own", grp[w]}

\* A write that ran in the group it joined is answered only once its rows are
\* committed (group-commit.ts:12-14).
JoinedWritesAreKept ==
    \A w \in Writers : at[w] = "ok" /\ InOwnGroup(w) => wrote[w] \subseteq conn.disk

\* Nothing is announced before it is committed, for the same writes and for
\* batches (group-commit.ts:20, write-gate.ts:17-18).
EffectsFollowCommit ==
    \A p \in conn.ran :
        p \in Batches \/ InOwnGroup(p) => wrote[p] \subseteq conn.disk

\* The calls use the gate as WriteGate describes.
UsesTheGate == GateSpec

\* Every call that waits for the gate, for a transaction or for a commit is
\* answered in the end: no wake-up and no postponed commit is lost.
EveryCallAnswered ==
    \A p \in Callers \cup Txs :
        (at[p] # "start" \/ (p \in Callers /\ gate[p] = "waiting"))
                        ~> Answered(p)

=============================================================================
