# Vaultbase in TLA+

A verification project for Vaultbase (`src/`): TLA+ modules translated from its
source, TLC configurations that check them on small instances, and theorems
that TLAPS proves for every value of their parameters.

Vaultbase is a backend in one Bun process: an HTTP and realtime server over
SQLite (one shared connection) or Postgres (a pool, and possibly several
servers). Most of it is sequential text work: it parses filters, builds SQL,
formats answers. What is hard about it is what happens between two awaits,
between two requests, between two servers, and between a commit and a crash.
That is what is modelled here.

Line references of the form `queues.ts:318` are to the files under
`src/src/core`, unless the text names another directory.

Contents:

1. The system and its parts
2. The modules
3. What the runs check
4. What is proved
5. Where the code and its comments disagree
6. What is not modelled
7. Plan

## 1. The system and its parts

| Part | State it keeps | Operations | What is hard |
|---|---|---|---|
| Write gate (`write-gate.ts`) | two counters, a flag, the parked callers | enter and leave, shared or exclusive | lost wake-ups, starvation of batches |
| Group commit (`group-commit.ts`) | the open group, its waiters and effects | join, flush at the end of a turn, notice a rollback | a COMMIT that fails late, a trigger that ends everybody's transaction, a commit put off by a hook |
| Shared SQLite connection (`db/sqlite.ts`) | one transaction at a time, its owner | statements, `transaction`, savepoints | a statement of one request lands in the transaction of another |
| Batches (`api/batch.ts`) | its operations and effects | all or nothing | one step of several failing |
| Records (`records.ts`) | rows; record locks in the process | update, delete, restrict, set null, cascade | hooks that write inside a write, an If-Match checked long before the write, references set while their target goes |
| Rules and filters (`rules.ts`, `filter.ts`) | none | decide one record in the process, choose rows in SQL | two implementations of one language have to agree |
| Job queue (`queues.ts`) | rows in the database, leases; slots and running jobs in each process | enqueue, tick, claim, renew, recover, settle, retry, discard | leases that run out under a live run, crashes, unique keys |
| Realtime (`realtime/manager.ts`, `sse.ts`, `server.ts`) | connections, topics, tokens, a fan-out queue | admit, subscribe, authenticate, broadcast, pump, shed, close | events out of order, a gap nobody notices, a connection that closes during an await |
| Sign-in (`api/auth.ts`, `security.ts`) | accounts, links, one-time codes and links, attempt counters | password, code, link, provider, second factor; reset, claim, e-mail change | parallel guesses, a reset under a sign-in |
| Sessions (`api/auth.ts`, `sec.ts`) | revocations, rotation rows, reset stamps | refresh, repeat, sign out, reset | several tabs, several servers and crashes over five statements without a transaction |
| Peers (`peers.ts`, `peer-handlers.ts`) | outbox, inbox, generation seen and own moves | announce, NOTIFY, poll, reset | lost and doubled messages, dropped connections |
| Collections and schema changes (`collections.ts`, `row-counts.ts`) | rows, tables, stored row counts, relations and history by name | create, update, rename, delete | chains of awaits without a transaction, a rename that commits before the rest, counts left behind |
| Collection cache (`collections.ts`) | one entry per collection, on each server | read, create, update, delete, drop | what was read before an await is stored after it |
| Webhooks (`webhooks.ts`) | delivery rows with leases | dispatch, claim, send, record, retry | overlapping ticks, answers later than the lease |
| Cron jobs (`jobs.ts`, `script-limits.ts`) | job rows; running jobs in each process | claim a slot, run, run by hand, edit | one run per slot among servers, scripts past their limit |
| Files (`api/files.ts`, `file-sweep.ts`) | file rows, stored objects, the fields that name them | upload, edit, sweep | a sweep decides by what it read before three awaits |
| Settings (`api/settings.ts`) | a map per process | write, re-read one, reload all | three of these passing each other |
| Read workers (`read-pool.ts`) | threads, requests under way, suspension | dispatch, time out, drop, replace, suspend | a late answer looks like a dead worker, a start a restore overtakes |
| Restore (`api/backup.ts`, `restore-credentials.ts`) | the database file, what is carried over | stage, drain, swap, migrate, carry over, resume | one step of several failing, two restores at once |

The other parts (hooks as the user writes them, MCP, SQL page,
migrations, supervisor, logs and so on) are listed in `PROJECT.json` with the
reason they are left out. `PROJECT.json` also lists the hazards, each at its
line, with the properties that would catch it.

How they interact:

    request ──> rules ──> records ──> write gate ──> group commit ─┐
       │          │ record locks, hooks (await, transactions)      ├──> SQLite connection
       │          └──> enqueue, raw writes, driver writes ─────────┘        │
       ├──> batch, schema change, restore ──> gate (exclusive) ─────────────┘
       │                     after commit: effects
       │                        ├──> realtime broadcast ──> sockets, streams
       │                        ├──> webhooks, queue jobs
       │                        └──> announcements ──> peers ──> caches of other servers
       ├──> auth ──> codes, stamps, revocations, rotation rows ──> realtime re-verification
       └──> reads ──> read workers (their own connections and caches)
    timers ──> deliveries, cron jobs, queue ticks, file sweep, settings reload

Everything in one process runs on one JavaScript thread, so a synchronous
stretch of code is one action, and an `await` ends it. On Postgres, and between
servers, every statement is a step of its own.

What makes each part correct:

- Gate and connection: a batch is alone and all or nothing; what is answered or
  announced is committed; every call is answered.
- Records: a write under If-Match meets the record its caller read; nobody waits
  for ever on a lock; a delete leaves no reference behind.
- Rules: what a caller may read by its id the list shows too; an update does not
  take a record out of its author's sight; rows a caller may not see decide
  nothing.
- Schema changes: whatever was refused, failed and was undone, row, table,
  relations and history belong together; a stored row count is never wrong.
- Job queue: no job is lost, none runs more often than its attempts, none is
  taken over while it runs, a late result overwrites nothing.
- Realtime: events in order, no gap unless the connection is closed, nothing
  after leaving, and nothing held by what is gone.
- Sign-in: a code or link lets one call through, parallel guesses count, and
  taking an account back leaves no session that rests on what was there before.
- Sessions: one session follows a sign-in however it is refreshed; a sign-out
  and a reset end it.
- Peers and caches: once all is quiet nobody serves what was changed.
- Webhooks and cron: one sender, one run per slot, and edits stand.
- Files and settings: a sweep removes nothing a record names; a process keeps
  what it has set.
- Read workers and restore: the pool recovers from any failure and reads the
  file that is in place; a restore ends, and ended sessions stay ended.

## 2. The modules

| Module | Models | Uses |
|---|---|---|
| `GateLock` | abstract: what the gate promises | |
| `WriteGate` | `write-gate.ts` | implements `GateLock` |
| `SharedConnection` | `group-commit.ts`, `db/sqlite.ts`, `api/batch.ts`, and the gate | extends `WriteGate`, implements `GateSpec` |
| `RecordLocks` | updates and deletes of `records.ts` inside the gate | extends `WriteGate`, implements `GateSpec` |
| `Rules` | `rules.ts` and `filter.ts`, and the list, GET and PATCH that use them | |
| `SchemaChange` | creates, updates and deletes of `collections.ts`, `row-counts.ts` | |
| `Collections` | rules and schema changes side by side | extends `Rules`, `SchemaChange` |
| `JobQueue` | `queues.ts` | |
| `Realtime` | `realtime/manager.ts`, `sse.ts`, socket handlers of `server.ts` | |
| `SignIn` | the sign-ins and account recovery of `api/auth.ts`, budgets of `security.ts` | |
| `Sessions` | `/auth/refresh`, `/auth/logout` of `api/auth.ts`, `sec.ts` | |
| `Auth` | the account endpoints together | extends `SignIn`, `Sessions` |
| `Peers` | `peers.ts` | |
| `CollectionCache` | the cache of `collections.ts`, `peer-handlers.ts` | extends `Peers` |
| `Clock` | the time the servers share | |
| `Deliveries` | `webhooks.ts` | extends `Clock` |
| `CronJobs` | `jobs.ts`, `script-limits.ts` | extends `Clock` |
| `FileSweep` | `file-sweep.ts`, uploads of `api/files.ts`, `checkFileOwnership`, changes of file fields | extends `Clock` |
| `SettingsStore` | the store of `api/settings.ts` | |
| `Background` | what runs by timers, and crashes | extends the last four |
| `ReadPool` | `read-pool.ts` | |
| `Restore` | the online restore of `api/backup.ts`, `restore-credentials.ts` | extends `ReadPool` |
| `WriteGateProofs`, `SharedConnectionProofs`, `RecordLocksProofs`, `JobQueueProofs` | theorems | extend their subject |
| `AuthProofs`, `EventsProofs`, `BackgroundProofs`, `DatabaseProofs` | theorems about `SignIn` and `Sessions`; `Realtime` and `CollectionCache`; the four parts of `Background`; `Restore` with its pool, `Rules` and the stored counts of `SchemaChange` | instantiate or extend their subjects |
| `MC...` | definitions and symmetry for TLC | extend their subject |

### GateLock and WriteGate

`GateLock` is the promise: any number of writes, or one batch, and nothing
else. `WriteGate` has the code's variables (`sharedHolders`, `exclusiveHeld`,
`exclusiveWaiting`, `waiters`) and, for each caller, whether it is out, waits or
is in. `ParkShared` and `ParkExclusive` are one round of the `while` loop that
ends on the promise, `AcquireShared` and `AcquireExclusive` the round that falls
through, and the two releases end with `wakeAll`. A woken caller is one that
waits and is not in `waiters` any more: it looks again when it resumes, in any
order, and a caller that has just come may be faster. `ImplementsLock` maps
`writing` and `batching` to the callers that are in.

### SharedConnection

The module of the record path. A call is a process:

- `Writers`: record writes. `EnterWrite` is the test of the gate with the join
  of a group, which have no await between them. Then come statements, hooks with
  transactions of their own, the registration of effects (`Announce`) or a
  throw, `AwaitCommit`, and `AnswerWrite`.
- `Batches`: `EnterBatch`, `BatchBegin`, the shared `TxStatement` and `TxEnd`,
  `AnswerBatch`. Cascading deletes and schema changes take the same path.
- `Txs`: transactions outside the gate (`helpers.sql.transaction`).
- `Stamps`: driver writes outside the gate (`db.run`), which wait for another
  call's transaction. `Raws`: writes on the raw drizzle connection, which do not
  wait.
- `EndOfTurn`: the flush scheduled with the first join of a group.
- `WriteRollsBack`, `TxRollsBack`: a statement fires a trigger that rolls the
  transaction back. The call stays where it is: its code may throw, or catch the
  error and write on, in autocommit.

The connection and the open group are one record `conn`, because the code
changes them together in synchronous stretches; `joinGroupCommit`,
`flushGroupCommit`, `noticeRollback`, `Own`, `Released` and the others are
operators from connections to connections, or to sets of them where a COMMIT or
a BEGIN may fail. A row is one statement's effect. `home` is a history variable:
which transaction each row was written in.

Left out: group commit's closing handlers, the savepoints of a cascade inside a
batch, the statement cache.

### RecordLocks

A request inside the gate runs a stack of writes: its own, those of its hook,
those of a cascade. A write goes through `lockRecord` (or `waitForRecordLock`,
with a time limit that may pass whenever somebody waits), `Check` (the record is
read and the If-Match compared), its hook, `validateRecord` and `WriteRow`; a
delete goes on to what refers to the record, by the relation's mode: `SetNull`,
`ReadIds` and `DeleteChild`, or `checkRestrict`. `Return` is the `finally`. A
delete with cascades comes as a batch, alone in the gate, and its transaction is
rolled back when its own write fails (`undo`). A write whose row has gone
meanwhile, by its own hook for one, changes nothing and fails. `Enter` and
`Answer` are the gate's steps, so the module is composed with `WriteGate` alone,
as `SharedConnection` is. `changed` and `loose` are history; `loose` says that a
restrict reference was made after it was looked for, by a request beside the
delete or by the delete's own hook (`ForbidsAfterCheck`).

Left out: creates, which lock nothing, record history, Postgres' row locks, and
the savepoint of a hook that deletes the parent within the parent's delete
(`records.ts:1747`): when that fails, the model keeps what it has cleared.

### Rules

A parsed expression is decided twice: `evaluateRule` and what it calls are the
process's decision on one record, `compileCmp`, `compileEach`,
`compileCollectionRef` and the others the SQL that a list runs, as the rows it
selects. `compileCmp` has the order in which `compileNode` decides what a
comparison is: null, then what is asked of the request (`compileAsked`: `:isset`
and `:changed`), `_via_` row by row, `?`, `:each`, a negated `@collection`, two
values. `Refused` are the comparisons that fail the whole query. `GetRecord`, `ListRecords` and `PatchRecord` are the three requests,
the last with the rule's second look at the merged record. Values are tagged,
and a text is known by what the operators tell apart: its place in the order,
lower case, length, what it contains and matches; `MCRules` gives these for
fourteen texts. `joinedCollectionGuard` keeps rows of other collections from a
caller who may not see them, and `compileScoped` binds every reference to one of
the rows that are left.

The code walks a tree of `&&`, `||` and conditions. There is no negation in it,
so the model has the expression as its set of alternatives, each a set of
conditions; a condition is a comparison, or `x:any(...)` over alternatives of
comparisons (`filter.ts:428` refuses a `:any` in a `:any`). That makes every
decider an operator of constants without recursion, which proofs can be about.
What a caller may see of another collection is decided by that collection's own
rules, which read no third one here.

Left out: the parser, Postgres, macros and functions, comparisons of values of
different types outside list items, `~` on a `_via_` reference, limits on
references, sorting and search.

### SchemaChange and Collections

A call creates, updates or deletes a collection, one statement after another.
`base` is what a rollback brings back: the collections' rows, the tables with
their columns, row numbers and count triggers, the stored counts, the history.
Statements through the driver wait for another call's transaction (`Driver`);
drizzle's do not, and go with it (`Raw`); `Begin`, `Commit` and `Rollback` are a
transaction: `schemaChange`'s, or that of `ensureRowCount`, which a create runs
outside the gate (`Count`, `CountEnds`). A create is `Available`, `Insert`,
`MakeTable`, `Count`, `CountEnds`, and on failure `Unmake`, `DropTable`,
`Forget`; an update `Find`, then for a new name
`Clash`, `Others`, `Rename`, `RenameEnds`, `syncFts`, then `Alter`, `Save`,
`AlterEnds`, and on failure the rename once more, backwards (`Undo`); a delete
`FindToDelete`, `DropTable`, `Forget`, `Remove`, `ForgetHistory`. A delete finds
its row in the process's cache first: `cached` is what that may hold, since any
request may fill it from the rows there are at the time, those of an open
transaction included; reading a row and storing it is one step here, as SQLite
answers at once (`CollectionCache` has the await of Postgres). Records are created
meanwhile (`CreateRecord`), and any statement may fail, or the process stop. A
column's data is known by the call and field it was made for, so `StaysTogether`
tells a renamed column from a new one in its place. `data`, `aim` and `torn` are
history; `torn` holds the names about which nothing is claimed (section 5).

`Collections` puts `Rules` and `SchemaChange` side by side: a rule is decided on
a record and a parsed expression, of which a schema change changes nothing.

Left out: views, singletons, auth columns, unique and other indexes, what the
search index holds, subfields, hooks (renamed as history is), other processes.

### JobQueue

One row per job (`status`, `owner`, `attempt`, `lease`), the slots and runs of
each process, and the enqueue of each job. `EnqueueInsert` and `EnqueueLookup`
are the two statements of the enqueue loop. `Tick` reads the rows that are due
and `Claim` takes them one await at a time. `renewLeases`, `RecoverDead` and
`RecoverRequeue` (the two statements of a sweep) are the timers; `Settle`,
`SettleFails` and `SlotReleased` the end of a run. `RetryJob` and `DiscardJob`
are the admin's, `Start` and `Crash` a process's. Time is the lease: `TimePasses`
is one renewal interval, and a process not in `MayStall` renews in each. `claims`
and `retried` are history.

Left out: jobs without a lease (from versions before 0.24), maintenance mode,
the choice of a worker for a queue, statistics.

### Realtime

The registry of the manager is one record `reg` (`live`, `byIp`, `subs`,
`topics`, `auth`, `checks`, `sse`, `owner`), changed by operators named after
the code's functions. `Open`, `Hangup`, `CloseHandler`, `closeConnections`,
`Subscribe`, `Unsubscribe`, `AskAuth`, `PostStream` and `PostTopics` are the
handlers; an authentication is an ask and, after the await, `ApplyAuth`.
`Recheck` and `ApplyRecheck` are the re-verification of one connection.
`broadcast` judges the audience, forgets expired tokens, and fans out at once or
through `enqueue`, with `shedBacklog` when the backlog is full; `pump` is one
slice. Events are numbered as they are broadcast, so `inbox` tells the order.

Left out: event-typed topics and system messages (they take the same fan-out),
the origin check, heartbeats, how an expression rule is evaluated: a rule is the
set of auths that pass it.

### SignIn, Sessions and Auth

`SignIn` is one account. A call is one request and a state machine over the
statements of its handler (`at`, and in `my` what it holds): `Login`, `OtpLink`,
`OtpCode`, `Mfa`, `Provider`, `MergeConfirm`, `ConfirmReset`, `AcceptInvite`,
`ConfirmEmailChange` present something; `Pick`, `Guess`, `Attempted`, `Factor`
are the attempt budgets; `Consume` spends a token; `Stamp`, `Void`, `Links`,
`NotAgain` and `Restamp` take the account back; `Issue`, `Rank` and `Supersede`
mail a new code. Every credential carries a mark, the stamp it dates from, so
that `TakenBack` can say which sessions rest on something old. `cut`, `acted`,
`compared` and `missed` are history.

`Sessions` is the tokens that descend from one sign-in. Every statement of `/auth/refresh` is
an action: `Verify` (the revocation), `Principal` (the stamp), `Note` (the
rotation row), `Revoke`, `Stamp` and `Drop` (a reset that came in between),
`Mint`. A request that finds its token revoked goes `Repeat`, `Again`, `Same`:
`repeatRefresh`. A sign-out is `SignOut`, `Out`, `Find`, `End`, `Forget`. Any
request may die (`Dies`) between two of them; the client asks again as another
request with the same token. `parent` and `handed` are history: which token each
one replaced, and which a client got.

`Auth` puts the two side by side. They meet in the reset stamp alone, of which
`Sessions` only asks whether it has moved, so a behaviour takes one of them.

Left out: registration, enrolment of a second factor, unlinking, the expiry of
codes and of failures; token lifetimes (but not the row's), the session cap, impersonation
and API tokens, admin session rows.

### Peers and CollectionCache

`Peers` is the announcements: `sendToPeers` puts one into the outbox and starts
the `nextval` nobody waits for (`Nextval`, `BumpAnswer`, either may fail);
`post` sends some of the outbox, which gets through, gets through twice or is
given up; `Poll` and `PollAnswer` are `pollGeneration` around its await;
`Disconnect` and `Reconnect` the listening connection; `PeerCrash` and
`startPeers` the process. `CollectionCache` extends it with the row of one
collection and each server's entry: a read or a delete finds the entry (`Hit`)
or selects the row (`Miss`) and stores what it read after the await (`Fill`); a
create inserts and reads back, or takes the row away when its table can't be
made; an update writes, announces, reads back and stores; a delete drops the
table, announces, and deletes the row. `Drop` is what a message or a reset does.

Left out: renames and DDL (`SchemaChange`), caches derived from the entry, read workers' copies,
announcements inside a transaction (delivered at COMMIT), record events.

### Deliveries, CronJobs, FileSweep, SettingsStore and Background

What the servers do by timers. `Clock` counts ticks; the servers' clocks are
taken to agree. `Background` composes the four with crashes; none reads what
another writes, so a behaviour has work of one kind (`Only`).

- `Deliveries`: `Dispatch` makes a row, `Tick` reads the due ones and `Claim`
  takes them one at a time with a lease in `scheduled_at`; `Look` reads the
  webhook before the request, `Answered` records what came of it if the row is
  still `Held`, and plans the next attempt. `atOnce` is history: what was due
  again as soon as it was answered.
- `CronJobs`: `ReadJobs` is the tick, `Initialise` and `ClaimSlot` take each row
  by what was read; `TimesOut` ends the wait but not the script, `Released`
  gives the slot up, `RunEnds` frees it; `RunByHand` and `Reschedule` are the
  admin's.
- `FileSweep`: `Upload`, `Edit`, `AddField`, `DropField`, `RenameField`, and a
  sweep in its awaits: `SweepBegins` reads the collections, `ReadRows` the
  files, `ReadValues` one column, `DeleteObject` and `DeleteRow` act on what was
  read. `spares` and `moved` are history: what a sweep must not take, and which
  files had their field renamed.
- `SettingsStore`: one key and one process. `SetSetting`, `WriteRow`, `SetEnds`;
  `Reload`, `ReadRow`, `ReloadEnds`; `Reread`, `RereadEnds`. The marks of a call
  are the code's `written` sets and its hold on a map that may be replaced.
  `own` and `beside` are history.

Left out: maintenance mode, event patterns and signing, queue-mode jobs, jobs of
extensions, collections with history, DELETE /files, encryption of settings.

### ReadPool and Restore

`ReadPool` has the pool's sets as the code has them: `slots`, those `launching`
and `respawning`, the timer. `respawnOne`, `Joins`, `RestartFails`,
`startReadPool`, `Ready`, `StartFails`, `Launched`, `dropWorker`,
`suspendReadPool`, `stopReadPool` are its operations; `stale` marks a start a
suspension has overtaken, `old` (history) a connection to a file since replaced.
Whether a timed-out worker made progress is a choice, as is every timer.

`Restore` extends it with any number of restores: `Stage`, `Enter` (the gate,
held exclusively), `StopReaders` (drained, or late), `Swap` with its failures,
`Migrate`, `Carry` for each kind of ending, `Resume`, `Started`, `Leave` (the
gate) and `Answer`. What a restore could not carry over it notes in
`lastSummary`, one for the process (`noteCarry`), and its answer, which comes
after the gate is left, says what is there by then. A sign-out may come at any
step (`EndSession`). `promised`, `told` and `unread` are history: endings that
were answered; those that were lost in a restore whose answer says so, or says
that it failed, one that opened a blank database included; and those of a note
that another took the place of.

Left out: Postgres, the checkpointer (suspended like the workers), the options
of a restore, taking and pruning backups.

## 3. What the runs check

Each run is `tlc -workers 2 -config <cfg> <module>`. The states are the distinct
ones of one run on a small machine.

| Run | Module, cfg | Properties | States |
|---|---|---|---|
| `shared_writes` | `MCSharedConnection`, `SharedWrites.cfg` | `JoinedWritesAreKept`, `EffectsFollowCommit` | 4.4 M |
| `shared_batches` | `MCSharedConnection`, `SharedBatches.cfg` | `BatchIsolated`, `BatchAtomic`, `EveryCallAnswered` | 443 k |
| `record_locks` | `MCRecordLocks`, `RecordLocks.cfg` | `BatchGetsIn`, `ImplementsLock`, `IfMatchHolds`, `NoDangling` | 294 k |
| `collections` | `MCCollections`, `Collections.cfg` | `ByIdOnlyWhatIsListed`, `PatchKeepsItVisible`, `HiddenRowsDontDecide`, `RowCountsRight`, `StaysTogether` | 1.26 M |
| `job_queue` | `MCJobQueue`, `JobQueue.cfg` | `UniqueKeys`, `NoTakeover`, `ConcurrencyKept`, `LateFinishIgnored`, `JobsEnd` | 355 k |
| `realtime` | `MCRealtime`, `Realtime.cfg` | `InOrder`, `GoneHoldsNothing`, `NothingSkipped`, `NothingAfterLeaving`, `RevokedForgotten` | 390 k |
| `accounts` | `MCAuth`, `Auth.cfg` | `SpentOnce`, `GuessesBounded`, `OneLiveCode`, `TakenBack`, `OneReplacement`, `SignOutSticks` | 1.5 M |
| `collection_cache` | `MCCollectionCache`, `CollectionCache.cfg` | `ChangesReachEveryone` | 1.3 M |
| `background_work` | `MCBackground`, `Background.cfg` | `HeldWhileLeased`, `SlotOnce`, `NoOverlap`, `NamedFilesStay`, `OwnSettingStays` | 1.2 M |
| `restore` | `MCRestore`, `Restore.cfg` | `PoolKept`, `NoOldReads`, `EndedStaysEnded`, `RestoreEnds` | 467 k |
| `found_restores_collide` | `MCRestore`, `FoundRestoresCollide.cfg` | `FailedRestoreKeepsTheDatabase`, violated: section 5 | |
| `found_renamed_field_swept` | `MCBackground`, `FoundRenamedFieldSwept.cfg` | `RenamedFilesStay`, violated: section 5 | |

Every property of a passing run has a mutant: an operator next to the one it
replaces, headed `Mutant:`, that changes it the way a plausible bug would.
`PROJECT.json` pairs them; with the mutant in place the run finds the property
violated.

What the properties say is written above each in its module. A few of the
modules' invariants are not properties of a run because they are proved for
every instance (section 4): `Exclusion` and `NoLostWakeup` of the gate,
`UsesTheGate`, `AttemptsBounded` of the queue, `LocksGivenBack`.

### Bounds, and why they are enough

- `shared_writes`: two writes with hooks, a driver write and a raw write, two
  statements each, COMMITs that fail. Two writes share a group, or the second
  opens the next one under the first's await; two statements let a group end
  between them.
- `shared_batches`: one batch with two statements (one may fail after the
  other), one write with a hook's transaction, one transaction outside the gate,
  and triggers that roll everything back. Two batches meet in the gate alone,
  which `record_locks` covers, and `BatchIsolated` is proved for any number.
- `record_locks`: two writers and two batches that come back for ever, so no
  bound on calls; a parent and one child of each mode. `MCAsks` is what they ask
  for: hooks that write each other's record (the least a deadlock needs), or the
  same one twice, or delete the record their request writes; If-Match on an
  update and on a delete; a relation set while its target goes, and by the hook
  of its target's own delete. Two writers and two batches already meet every order of park,
  release and resume at the gate.
- `collections`, rules: some 400 rules over fourteen texts, three numbers and
  lists of up to two items, chosen so that each operator meets a missing value,
  an empty text, another case and a wildcard; four callers; up to three rows of
  another collection. Rules combine three comparisons at most. Each clause of
  `DecidedDifferently` was taken out in turn, and TLC found a record that is
  shown by id and not in the list; the one about `!~` and a request's `:length`
  alone is there for the proof, which does not assume that types match.
- `collections`, schema: two collections, one related to the other, and three
  calls: renames of either, of fields, and of both in one update, with a new
  field in the old one's place; creates and deletes of taken and free names. One
  statement that fails, or one crash, at any point. Two calls meet; the third
  uses a name they have left. Two more names are free, so that one create can
  write into the transaction in which another counts its table; two records per
  table tell a count that was taken from one that was kept.
- `job_queue`: two processes, of which one is steady and the other stalls and
  leaves scripts behind; two jobs under one key, two attempts, one slot, one
  admin retry. `LeaseTime` is two renewal intervals, the least that `NoTakeover`
  needs (the code's lease of 60 s lasts four of 15 s). One slot is the limit that
  matters most: a second run is one too many.
- `realtime`: two sockets and a stream on two addresses, caps that refuse the
  third, one token, two events, a backlog of three deliveries: enough for a
  queued fan-out behind another, a slow reader cut off in the middle, and a
  backlog that is shed. `Listeners` and `MaxAsks` bound who subscribes and
  authenticates. Rules are the two of `EventRules` in `MCRealtime`.
- `accounts`: four calls on an account, of which `MCDoes` says who may do what,
  such that each way of taking the account back meets each way in; three kinds
  of account, with what is already mailed; two attempts per token and one wrong
  code per account, so that both limits are reached. Besides, three refreshes and
  a sign-out: two refreshes race for one token, the third is a retry, a late one,
  or a refresh of the replacement. One tick of the clock separates within from
  beyond the repeat window.
- `collection_cache`: two servers, any two of four calls, two faults. A fault is
  a failed `nextval`, a lost answer, a NOTIFY given up or sent twice, a dropped
  connection or a crash: two of them are needed to lose both the NOTIFY and the
  generation, or the NOTIFY and the connection's reset.
- `background_work`: two servers, three ticks. One delivery with two retries,
  at once or a tick later, and a lease of two ticks, so that an answer may be one
  too late; one job with
  periods of one and two ticks, two overlapping ticks, one run by hand; one file,
  two fields, three changes; three values of one setting, one reload and one
  re-read at a time. Rows do not meet each other: a claim, a slot and a sweep's
  verdict concern one row. Two files, and two re-reads at a time, were tried and
  held.
- `restore`: two restores, three threads for a pool of two, one read that may
  always come, two kinds of endings: the first step of the carry-over and the
  last. Two restores are one after the other or at once, and one may note
  what it lost before the other has answered; a third thread is the one that
  replaces.

Deadlock is checked in `record_locks` alone: there callers come back for ever,
so a state without a step is a wait for a lock that nobody gives back. The work
of the other models is finite, and when all has ended nothing need happen any
more. That it does end is `EveryCallAnswered`, `JobsEnd` and `RestoreEnds`.

Symmetry is used in the safety runs, among calls (and servers) that are alike,
never with liveness.

### Fairness

- Connection: `GoesOn` is weakly fair for each call that has started: it
  resumes, its hook ends (hooks and requests have time limits), and it goes on to
  its answer. The scheduled flush runs (`EndOfTurn`). Nothing has to start.
- Record locks: each caller under way takes its next step when it can
  (`Step`): JavaScript runs resolved promises, hooks have time limits, and
  `finally` releases. New requests are under no obligation to come (`Asked`), and
  nobody has to give up a wait.
- Queue: the timers of a live process fire (`Tick`, `Claim`, `renewLeases`, the
  sweeps), time passes, and scripts end, since they have a time limit and
  `slotReleased` waits no longer than the kill. A stalled process has the same
  fairness and may still miss renewals. `JobsEnd` asks for one process that
  lives.
- Realtime: the re-verification timer and the answers of `verifyAuthToken`.
  Delivering has no fairness: a slow reader may be slow for ever.
- Restore: a restore's next step, the timer of the drain, and that a thread
  being started comes up or fails. Reads have none: they may keep coming.

## 4. What is proved

With `tlapm` on the eight `...Proofs` modules (16567 obligations). Constants are
arbitrary within the modules' named assumptions.

| Theorem | Says |
|---|---|
| `GateExclusion`, `GateNoLostWakeup` | `GateSpec => []Exclusion`, `[]NoLostWakeup`, for any finite sets of callers |
| `GateImplementsLock` | `GateSpec => ImplementsLock`: the counters and wake-ups implement `GateLock` |
| `CallsUseTheGate`, `ConnectionExclusion` | every step of `SharedConnection` is one of the gate's, or leaves it alone; so what is proved of the gate holds there |
| `BatchIsolation` | `Spec => []BatchIsolated`: nothing joins a batch's transaction except raw writes |
| `BatchesAreAtomic` | `Spec => []BatchAtomic`: all rows of a batch or none, except what its code wrote after catching a trigger's rollback |
| `JoinedWritesStay` | `~TriggerRollback` implies `Spec => []JoinedWritesAreKept` |
| `EffectsComeLast` | `~TriggerRollback` implies `Spec => []EffectsFollowCommit` |
| `RecordWritesUseGate`, `RecordWritesImplementLock` | the same of `RecordLocks`, and so `Spec => ImplementsLock` |
| `RecordIfMatch` | `Spec => []IfMatchHolds`, for any callers, children, modes and requests |
| `RecordNoDangling` | `Spec => []NoDangling`, for the same |
| `RecordLocksGivenBack` | `Spec => []LocksGivenBack`: who has left the gate holds no lock, and a batch never waits for one |
| `QueueUniqueKeys` | `Spec => []UniqueKeys` |
| `QueueAttemptsBounded` | `Spec => []AttemptsBounded` |
| `QueueLateFinishIgnored` | `Spec => LateFinishIgnored`, an action property |
| `QueueNoTakeover` | `LeaseTime > 1` implies `Spec => []NoTakeover` |
| `QueueConcurrency` | `IsFiniteSet(Jobs)` implies `Spec => []ConcurrencyKept` |
| `EventsInOrder` | `RealtimeSpec => []InOrder`, for any connections, tokens, rules and limits |
| `NothingHeldForTheGone` | `RealtimeSpec => []GoneHoldsNothing` |
| `LeavingIsObeyed`, `GapsEndConnections` | `RealtimeSpec => NothingAfterLeaving`, `NothingSkipped`, action properties |
| `ChangesReachTheCaches` | the cache's specification implies `[]ChangesReachEveryone`, for any servers, calls and faults |
| `CredentialsSpendOnce`, `GuessingIsBounded` | `[]SpentOnce`, `[]GuessesBounded` of the sign-ins |
| `CodesSupersede`, `ResetsTakeBack` | `[]OneLiveCode`, `[]TakenBack` of the sign-ins |
| `OneSessionFollows`, `SignedOutForGood` | `[]OneReplacement`, `[]SignOutSticks` of the sessions, for any number of requests |
| `ClaimsHold` | `[]HeldWhileLeased` of the deliveries, with servers that crash, for any back-offs; rows retried with no delay are excepted |
| `SlotsAreClaimedOnce`, `JobsDontOverlap` | `[]SlotOnce`, `[]NoOverlap` of the cron jobs |
| `SweepsSpareNamedFiles` | `[]NamedFilesStay` of the file sweep |
| `OwnSettingIsKept` | `[]OwnSettingStays` of the settings store |
| `PoolIsKept`, `ReadersAreOnTheFile` | `[]PoolKept`, `[]NoOldReads`, of the pool and the restores together |
| `EndingsSurvive` | `[]EndedStaysEnded`, for any number of restores; a loss whose note another restore overwrote is excepted |
| `StoredRowCounts` | `SchemaSpec => []RowCountsRight`, for any calls, wishes, failures and crashes |
| `RulesByIdOnlyListed`, `RulesPatchKeepsVisible` | `RulesSpec => []ByIdOnlyWhatIsListed`, `[]PatchKeepsItVisible`, for any callers, requests and records, and any rules that have no refused comparison and none of `DecidedDifferently` (section 5) |
| `RulesHiddenRows` | `RulesSpec => []HiddenRowsDontDecide`, for any rows and rules of the other collection |
| `RulesAnswers` | `RulesSpec => []AnswersRight`: an answer is what the compiled rule (a list) or the evaluated one (by id) says of the record as it is now |
| `CollectionsImplementRules`, `CollectionsImplementSchema`, `CollectionsSafe` | the run's specification implements both halves, and so has their properties |

What is assumed of the constants has a name in the module that declares them,
and TLC evaluates it on every run. Most of it says which sets are apart, and
that a limit is a number. Beyond that:

- The callers of the gate, the children of a record, the calls on an account and
  the worker threads are finite sets, because something counts them.
- `ConnectionAssumption`: the three marks that `home` uses for "no group" are
  names of no write.
- `PoolAssumption`: thread ids are positive numbers, and there are at least as
  many as the pool's size.
- `SignInAssumption`: an account starts as one the code may have left
  (`Accounted`). No row is newer than the account's stamp where that is compared,
  the proofs of its codes and tickets are those such rows have, and at most one
  code of a purpose is live, since who issued it voided the rest.

Three theorems have a hypothesis of their own. `LeaseTime > 1`: the code's lease
lasts four renewals. `IsFiniteSet(Jobs)`: the jobs of a run are counted.
`~TriggerRollback`: section 5 has what a trigger's `RAISE(ROLLBACK)` does to a
group, so there the two properties are false. `BatchAtomic` needs no such
hypothesis: it excepts, row by row, what a batch wrote by itself after one.

The arguments, each from an inductive invariant that TLC found true on the run's
instance before it was proved:

- The gate decides by counters, its promise is about callers. `GateInv` says
  that `sharedHolders` is the number of writers inside, `exclusiveWaiting` the
  number of batches that wait, and `exclusiveHeld` whether a batch is inside
  (`CountersAgree`); each step moves one caller and one counter, which is where
  the library's facts about cardinalities come in. `NoLostWakeup` is inductive
  next to it: who leaves empties `waiters`, and who parks has found somebody
  inside, or a batch waiting that is not parked or has somebody to wake it.
- `BatchIsolated` is not inductive: a group may be open while the batch enters.
  `SharedInv` adds that the open group's opener is still inside the gate
  (`OpenersStay`), that a call's stage agrees with its place in the gate
  (`StagesAgree`), and that the connection's owner is where it should be
  (`OwnersAgree`), with `ConnOK` for what the connection's own operators keep.
  The gate's exclusion does the rest.
- `BatchInv` says stage by stage where a batch's rows are: nowhere, in its own
  transaction, or on the disk (`BatchRowOK`). A trigger's rollback meets them in
  the second case, and from there the batch has no transaction: what it writes
  bears the mark of that (`OnlyLate`), and its end finds nothing to commit
  (`InOneTransaction`). That no write opens a group beside it meanwhile is the
  gate's exclusion (`NoBatchBeside`).
- `WritesInv` follows each row of a write (`RowKept`): it is on the disk, in a
  transaction of the write's own, in the open group, or its group has failed,
  and then the write is not answered ok. That a hook's savepoint undoes only its
  own rows and raw ones (`GroupOK`), and that a group is opened once
  (`GroupsBegun`), is what keeps another's rows through it. Effects are filed
  under the write's own group and wait for it (`EffectsOK`). A trigger's
  rollback breaks `GroupOK` first: the transaction is gone and the group open.
- `LockInv` reads the locks off the stacks: a write that is past its lock holds
  it (`Holds`), each lock is the business of exactly one write of its owner, the
  lowest on that record, and a stack is only there inside the gate. Then two
  requests are never past their checks of one record, and a pop of the stack
  gives back what the lemma about the shorter stack says. `DataInv` are the
  types of the rest.
- `NoDangling` is about the end of a delete; `CleanInv` says what its middle
  owes. How far a delete of the parent has got says which references are gone
  (`Ripe`): restrict ones when it is past `checkRestrict`, those to clear when it
  comes to the children, the cascading ones when it comes to its own row. The
  children it has still to delete are left to it or being deleted above it in
  the stack (`Minds`). Only the delete's own hook makes a reference meanwhile,
  and before the rows that refer are read (`HooksPoint`), since it is alone in
  the gate. `Pointing` says that who points exists, and points at something
  found.
- In the queue `Numbered` says that a row which waits or runs has been claimed
  as often as its attempt says, and `RunsNumbered` that a run carries the number
  of its claim. That bounds the attempts, and makes owner and attempt enough to
  recognise the latest claim, as long as no retry restarts the numbers
  (`Unretried`). `SweepLeft` is what the two statements of a sweep need.
- `LeasesKept`: a run of a steady process holds its row with an interval left,
  with two once it has renewed in this one. Time passes only when all steady
  processes have renewed, so the lease never reaches zero under it.
- `SlotsCounted`: what a tick has read and not claimed yet takes a slot as a run
  does, so overlapping ticks share what is free, and a claim moves a job from one
  set to the other.
- `RealtimeInv`: the two indexes of the registry agree and the gone hold nothing
  (`RegistryOK`), for which each of its operators has a lemma; what is queued is
  in order, and newer than all its receivers have been sent (`FanOK`). A fan-out
  at once is in order because the queue is empty then.
- `CacheInv` is about entries that are doubtful: not the row, and taken for it.
  Each of them is answered (`DoubtsAnswered`): a reset is coming, by a message, a
  reconnection, or a move of the sequence that the next poll finds (`Unseen`); or
  a change was not told, which the property excuses. The cases that matter are
  those that take an answer away: a poll that hides another's move behind the
  server's own, a message lost while the move is known as one's own, and a call
  that is cut after its commit (`CutFit`: it runs nowhere any more).
- `SignInInv`: who was let through has spent something (`Spent`), every wrong
  guess and every call past the budget is charged (`Counted`), and what a call
  holds or a row says is backed by the account as of its stamp (`Backed`): a
  session, a ticket or a link with the account's stamp rests on nothing older
  than the last reset of its kind. While an account is being taken back, nothing
  passes for newer than the call that does it (`TakingAll`), which bridges the
  gap between its statements. The proof first says what a step does to each row
  and call (`SignInMoved`), then that this preserves each part.
- `SessionInv`: a replacement is only there when its token has ended
  (`Replaced`), one refresh of a token ends it (`OneWinner`), and what a repeat
  has found, and what was handed out from the row, is what the row says
  (`FoundIsRow`, `HandedIsRow`), unless a sign-out ran beside. `RowAgrees` is the
  heart of `OneReplacement`: once anybody has repeated from the row, the
  winner's own clock reading is not later than the row's, so it repeats too
  instead of minting.
- The deliveries rest on `OneLease`: a claim ends the due time another tick has
  read, so two claims of a row carry different leases, and the row stands at the
  later, unless a retry was due at the very time that was read (`atOnce`). The cron jobs rest on a claim that moves the schedule on, for which
  `NextIsLater` is the arithmetic. A sweep: what it must spare is named at its
  field, and if the column is read, is in what it read (`SweepOK`). The settings:
  a call that will take the row's value read it when no write was under way, or
  is marked by the write that came later (`ReadsApart`, `Takes`).
- `PoolInv` and `Stopped` say where each thread is (`ThreadsKnown`), which of
  those being started are too late (`StaleKnown`), and that whoever is in the
  gate beyond the drain has the pool stopped until its new start is over. A
  thread on a replaced file is then a late one. `Kept`: an ending is in the
  database, told, noted by a restore that has yet to answer, overwritten there, or
  captured by the restore that has yet to come to it.
- A stored count is right where it is trusted, but a record also counts under
  every other name its table's triggers bear. `CountsInv` adds that they bear
  none (`Own`), of the database and of the copy a rollback brings back, and that
  a transaction is the call's that is inside one. Between the rename of a table
  and its new triggers `Own` fails for that table alone (`GoodBut`), and
  `CountEnsured` mends it; `CountForgotten` is why a name that is dropped, or
  given away, leaves nothing to trust.

- The rules rest on one lemma, `CmpAgrees`: a comparison that the process finds
  true is true in the SQL, for any value of every operand and any rows behind
  its references, outside `DecidedDifferently` and `Refused`. What is asked of the
  request comes first (`AskedAgrees`), then operands (`OperandsAgree`),
  then two values (`ScalarsAgree`), an element, an item (`ElementAgrees`,
  `ItemsAgree`), then the three shapes of a comparison. No condition is negated,
  so it passes on to expressions (`ScopedAgrees`), whatever row each reference
  is bound to. The invariant `AnswersRight` is short: answers are of the record
  as it is, and the second look of a PATCH, with the body in it, says what a rule
  that reads no body says without (`BodyDoesntDecide`). Hidden rows: the guard
  of the rows it has let through lets them through (`SeenOnce`), and only a
  public collection may deny that a row is there (`DeniedOfAll`).

Trying to prove them corrected some of the statements. With three sign-outs of
one token the first form of `SignOutSticks` was false, because a refresh that
runs beside one of them is shared by all. A restore that opens a blank database
loses what was ended before it, and tells. A write whose row its own hook has
deleted was taken to succeed.

Only model-checked:

- liveness (`BatchGetsIn`, `EveryCallAnswered`, `JobsEnd`, `RevokedForgotten`,
  `RestoreEnds`) and the absence of deadlock among record locks: liveness under
  fairness is out of the prover's reach, and so is `ENABLED`;
- `StaysTogether`. It speaks of what is left when no call is under way, and
  excepts names by the history of who had to do with them (`torn`). An inductive
  form would say for each pair of calls and each pair of statements what they owe
  each other; none was found that is shorter than the module.

## 5. Where the code and its comments disagree

Two runs show a statement of the repository that the code breaks. The passing
properties are worded so that these and what follows are excluded, and nothing
else.

- `found_renamed_field_swept` (`RenamedFilesStay`, `file-sweep.ts:139`). A file
  is uploaded to a field, the record names it, the field is renamed. The column
  is renamed and keeps the name (`collections.ts:1534-1541`), but
  `vaultbase_files.field_name` still says the old field, no field of the
  collection is called that, and the next sweep past the grace period deletes
  the file. "Renaming a field keeps its data" (`src/CHANGELOG.md:1984`).
- `found_restores_collide` (`FailedRestoreKeepsTheDatabase`,
  `api/backup.ts:436`, `574`). Two restores share one staging path. The second
  one's refusal or its swap takes the file from under the first, which has moved
  the live database away (59), finds nothing to put in its place (61) and opens
  a blank one (62-66), against the comment at 63. In milder orders the first
  restore swaps in the second one's file, and the options of one are used for
  the other (`restore-credentials.ts:136-139`).

The rest was seen while modelling. Each is a trace of a model with the exclusion
taken out, or follows from the lines given.

Writes and the connection:

- A write joins a group when it enters the gate and waits for that one alone. If
  a hook awaits past the end of the turn, the statement runs in a later group,
  and the write is answered while that one is open (`write-gate.ts:85`);
  `group-commit.ts:12` promises the COMMIT that holds its statements. The other
  way round, a write may be reported lost whose row was saved in a later group.
- A trigger's `RAISE(ROLLBACK)` ends the group's transaction; before that is
  noticed, another write's hook begins its own, and at the end of the turn this
  one is committed as if it were the group's (`group-commit.ts:141`, against
  17). Writes that were rolled back are answered as saved. In the passing run
  `TriggerRollback` is off for writes.
- The same in a batch: a hook may catch the failed statement. What the batch
  writes then commits statement by statement (`sqlite.ts:335-347`), its COMMIT
  finds no transaction (410-416), and it is answered with an error while those
  rows are on the disk, against "committed or rolled back as a whole"
  (`batch.ts:305`). `BatchAtomic` excepts exactly these rows
  (`WrittenAfterRollback`). In a transaction outside the gate the COMMIT may
  meanwhile find a group of others, still empty, and commits that: its writes
  then run by themselves and are reported lost.
- Raw drizzle writes outside the gate (`db/sqlite.ts:190-208`) do not wait for
  another call's transaction: reported done, they are undone with its rollback.
- A cascade run by a hook's delete (`records.ts:1749-1750`, shared mode) waits
  for the children's locks (1509) but does not hold them when its UPDATE clears
  them (1510): an If-Match write past its check can be overtaken, against
  1290-1299. In the same mode a restrict relation can be set between
  `checkRestrict` (1575) and the DELETE (1585). Several writes that one hook
  starts without awaiting them pass through the same lock, and the first to end
  releases it.

Rules: the comment at `rules.ts:92-93` has it that the single-record check can
only deny more than the list query. `DecidedDifferently` excepts what it admits
by id and the list hides:

- `tags ?!= @request.query.x` with a missing value or a null element;
- `?!~` and `:each !~` with a literal that has `%` or `_`;
- `listA ?= listB` with one element, whose text equals it in the process;
- `@collection.x.f = null`, `_via_...:length = null`, always true by id, where a
  sentinel counts as null (`rules.ts:130-137`);
- `@request.query.x:length = null` when x is missing: SQL binds 0
  (`filter.ts:1259-1262`), the process says null; and what is said of
  `:isset` and `:changed` against null, since SQL's `IS NULL` comes before them
  (`filter.ts:336-344`);
- `title = @request.query.x:lower` with a letter beyond ASCII: `filter.ts:1258`
  lowers it, the process does not (`rules.ts:584-585`);
- `:length` of a number, a truth value or an object in a column of its own, which
  SQLite takes of the stored text (`filter.ts:1244`) and the process has as 0; and
  `:lower` of a list, which SQL takes of its text;
- a list or an object inside an item that `:any` or a path looks at: the process
  compares its text (`rules.ts:516-517`), the query its JSON type;
- `flags:each = @request.query.q:isset`, and `:changed` of the body: by id each
  element is compared; the query decides what it asks of the request first
  (`filter.ts:346-370`, before 388-393), and compares the text of the whole list
  with 1 or 0. Where one side has `:isset` and the other `:changed`, the query
  asks only the first.

Some comparisons fail the whole list (`Refused`): `?` without a column
(`filter.ts:642`); `?=`, `~` and `!~` with `:isset` or `:changed`, which is no SQL
(`filter.ts:357`, `369`); and the `_via_` ones that `expression.ts:240-253` and
`filter.ts:1037-1044` name. And for the same reason as above,
`@collection.bans.active != @request.query.q:isset` is true in a list when some
joined row differs, against the comment at `filter.ts:394-396`, which has it that
no row the caller may view matches; `Negated` is without it.

A text column compared with a number, and `title:length` of a text that is
itself a JSON array, differ too, and are outside the values modelled. Also,
`info.m:each` fails the whole list when one row has a text there, `:changed` is
true for fields a PATCH omits, `title !~ @request.auth.email` lists everything to
an anonymous caller and denies by id, and a caller's negated `@collection` filter
looks at the view rule of that collection alone (`filter.ts:977`).

Schema changes (`torn` excepts the names concerned):

- A rename commits before the fields are altered and the row is saved. A crash in
  between, or a `syncFts` that fails after the rename's transaction
  (`collections.ts:2042`, called outside the `try` of 2134), leaves the table
  under the new name and the row under the old one, as does an undoing that
  fails (2199): "a rename whose later step fails is undone"
  (`src/CHANGELOG.md:553`).
- A create looks for its name, inserts its row and makes the table in three
  awaits; "the constraint still decides a race" (1853) between two creates, but a
  rename to that name in between renames a table, and a create then adopts it, or
  its failure drops it (1936-1937). A failed create deletes its row before the
  table: another create of the name in between loses its table to it. A delete of
  a collection still being created leaves a table without a row, which a later
  create of that name takes over with its columns and records.
- Two updates of one collection each compare the fields they were sent with the
  row they read first (2101), not with the table the other has altered since; and
  a rename writes the relation fields of others as it read them before the gate
  (1993-2003).
- What another call writes past the driver while a schema change is open is
  undone with it. That includes the transaction in which a create counts its
  table (`row-counts.ts:45-71`, from `collections.ts:454`), which does not even
  hold the gate: when it fails, the row another create has just inserted goes,
  and its table stays without one.
- A delete goes by the process's cache (2224, 1694-1710). A row that was read
  inside a transaction and then rolled back stays there: an update takes it out
  inside its transaction (2184-2185) and once it is done (2204-2205), but not
  when it fails (2194-2203), nor does a create that fails (1933-1940), and a row
  read between 2230 and 2233 comes back. Such a delete drops the table of another
  name, and leaves the one it was to drop without its row.
- Two deletes of one collection at once, and a create of its name after the first
  has removed the row: the second drops the new table. Two renames at once of two
  collections that a third relates to: each writes the third's fields as it read
  them, and one of the two changes is lost.
- A delete cut before its last statement leaves its history to the next
  collection of that name (2234-2236); so do records written to a create that
  then failed.
- A relation of a collection to itself, sent with a new name and the old target
  in one update, keeps the old name. Two fields that swap names by `renamedFrom`
  are left as they are, without a word.

Job queue and realtime:

- `running` is keyed by the job (`queues.ts:465`). When attempt 1 outlives its
  time limit and attempt 2 is claimed by the same process, the end of the first
  script removes the entry of the second, whose lease is not renewed any more
  (against 318 and 322). `NoTakeover` speaks of processes whose scripts end in
  time.
- `retryJob` starts the attempts at 1 again (`queues.ts:545`), so a stalled run
  of the same process may write its result over a newer one.
  `LateFinishIgnored` excludes jobs an admin may retry.
- `POST /api/v1/realtime` looks a stream up before it verifies the token, and not
  after (`server.ts:686`): a stream closed meanwhile gets its owner and auth
  back, and keeps the owner. `GoneHoldsNothing` speaks of the sockets' tokens.

Accounts:

- A refresh that has revoked the old token does not look for a sign-out again
  before it mints (`api/auth.ts:2692`, against 587-588 and 1711-1713): the
  sign-out is answered, and a session lives on. So does one whose row had
  expired. `SignOutSticks` speaks of sign-outs with no refresh beside them.
- A refresh that dies after writing its row and before revoking leaves a row
  that goes stale. More than `REFRESH_REPEAT_SECONDS` later two tabs that refresh
  that token do not both succeed: the loser is turned away, and a sign-out with
  the old token ends the row's replacement instead of the one that was minted.
- A sign-in with a provider between `applyProviderLink` and `removeProviderLink`
  of a link that is not to stay gets a session that outlives the reset
  (`api/auth.ts:844-862`, 2515-2521). `TakenBack` excepts it (`sure`).
- A new code issued by a request that read the user before an e-mail change or a
  reset, and inserted after `voidAccountTokens`, stays live. So does a claim in
  progress across an e-mail change. Two resets in one millisecond carry one
  stamp.
- `totp/setup` reads that the second factor is off, a confirmation turns it on,
  and the setup overwrites the secret (1837-1865).

Caches and settings:

- `getCollection` stores after an await what it read before it
  (`collections.ts:1700-1710`). A change in between has already emptied the
  cache, here and on the other servers: the old definition stays, rules
  included, until the next change. `ChangesReachEveryone` excepts entries that
  were out of date when they were stored (`why` = "behind").
- `deleteCollection` announces before it deletes the row
  (`collections.ts:2232-2233`), and a create that fails takes its row away again
  without emptying any cache (`collections.ts:1933-1941`). Whoever read the row
  in between keeps serving a collection that is gone (`why` = "unsettled").
- A server that dies between a change's commit and its announcement leaves the
  others unaware (`at` = "cut").
- A re-read of a setting that read the row before a `setSetting` wrote it, and
  ends after it, puts the old value back until the next reload, two seconds
  later (`api/settings.ts:236-239`, against 146-148). `OwnSettingStays` excepts
  it (`beside`). On Postgres two concurrent writes of one process may reach the
  row in the other order than the store.

Background work:

- With `retry_delay_ms` of 0 or less, which `api/webhooks.ts:67` and `101`
  accept, a row is due again at a time that a tick may have read before the row
  was sent. That tick claims it again, with the number of the attempt it read,
  so what this request is answered goes unrecorded and the row waits for the
  lease to run out. `HeldWhileLeased` excepts such rows (`atOnce`).
  `MAX_IN_FLIGHT` is exceeded when ticks overlap.
- A cron run by hand writes the slot it computed when it began, which may move
  the schedule back (`jobs.ts:115-119`); a first tick that initialises a null
  slot overwrites an edit; and once `slotReleased` has given a script up, the
  next slot may start beside it. `SlotOnce` and `NoOverlap` except
  these.
- A record pointed again at an old file between a sweep's read and its delete
  loses it: `NamedFilesStay` speaks of files named since the sweep began. The
  header of `file-sweep.ts` has clients uploading "sometimes before the record
  exists", which `api/files.ts` refuses.

Restore:

- `runMigrations` that throws after the swap skips the whole carry-over and the
  cache reset (`api/backup.ts:70-71`, outside the `try`, against 152-155);
  `EndedStaysEnded` counts the error as the answer that tells. A crash between
  the swap and the carry-over revives ended sessions, and in between they verify.
- Reads that arrive during the drain still go to workers (`server.ts:416`,
  against `read-pool.ts:391-392`), and are failed when the drain times out.
- What was not carried over is noted in one variable of the process
  (`core/restore-credentials.ts:613-624`), set inside the gate
  (`api/backup.ts:178`, `182`) and read after it is left, with more awaits in
  between (587-588): the note of a restore that overlaps takes its place, and the
  first one's loss is told in no answer, or one's loss in the other's.
  `EndedStaysEnded` excepts a note that was overwritten (`unread`).
- `startReadPool` keeps a worker that was ready and then erred while the others
  started.

## 6. What is not modelled

`PROJECT.json` gives each part's reason. In short: text translation (the parser,
the text of DDL, CSV, OpenAPI) is sequential and data the models do not tell apart; what a
hook or a route does is the user's; SQLite, Postgres, storage and mail providers
are external, and modelled where they are used, as statements that succeed or
fail; process control, startup and migrations run when nothing is served; rate
limits are synchronous and in floating point. The admin's pages (`src/admin`) are
user interface. The hold that other Postgres servers
keep during a restore (`peer-handlers.ts:84-127`) was read and left out: it is
best effort, and what protects the data is the swap's table locks, inside
Postgres.

Abstractions common to all modules: a payload is a name or a number; a statement
is atomic; what happens between two awaits of one process is one step; times are
orders of events, or counted in intervals (renewals, repeat windows, ticks);
formatting and logging are left out.

## 7. Plan

The models are complete as planned, and of the safety properties the runs check,
all are proved but `StaysTogether`. What is left:

1. `StaysTogether` for creates and deletes alone, where `torn` is not needed for
   renames: row and table go together, and who finds the name taken leaves them.
2. The refinement of an abstract cache by `CollectionCache`, with the doubtful
   entries as those that may be stale.
3. Connection and record locks together: that an answered update, with all that
   its hooks and cascades wrote, is in one committed group.
