----------------------------- MODULE RecordLocks -----------------------------
(***************************************************************************)
(* Updates and deletes of records (src/src/core/records.ts) inside the     *)
(* write gate: per-record locks, If-Match, hooks that write other records, *)
(* and what a delete does to the records that refer to the deleted one.    *)
(*                                                                         *)
(* A request is one owner of locks: what its hooks write passes through    *)
(* the locks it holds.  A call runs a stack of writes: its own, those of   *)
(* its hook, those of a cascade.  Waiting for a lock is bounded by         *)
(* LOCK_WAIT_MS; time is a choice here, so whoever waits may give up.      *)
(*                                                                         *)
(* Bounds: one relation, to one record; the hooks are those of the request *)
(* itself, which write once; creates lock nothing and are left out, with   *)
(* record history, announcements (SharedConnection) and Postgres.  A hook  *)
(* that deletes the parent within the parent's delete has a savepoint in   *)
(* the code (1747): when it fails, the model keeps what it cleared.        *)
(***************************************************************************)
EXTENDS WriteGate, SequencesExt

CONSTANTS Parent,    \* the record others refer to
          Children,  \* the records with a relation field that may refer to it
          Cascade,   \* that field's mode: "setNull", "cascade" or "restrict"
          Asks,      \* bound: what each caller may ask for
          None

Records == {Parent} \cup Children

\* An "update" changes other fields, a "point" the relation, to the parent.
Write == {w \in [op : {"update", "point", "delete"}, rec : Records] :
            w.op = "point" => w.rec \in Children}

Request == [write : Write, guarded : BOOLEAN, hook : Write \cup {None}]

\* deleteRecordOwned: a delete that may cascade is a batch, all else is not.
Cascades(w) == /\ w.op = "delete"
               /\ w.rec = Parent
               /\ \E k \in Children : Cascade[k] # "restrict"

ASSUME RecordsAssumption ==
    /\ IsFiniteSet(Children)
    /\ Parent \notin Children
    /\ Cascade \in [Children -> {"setNull", "cascade", "restrict"}]
    /\ Asks \in [Callers -> SUBSET Request]
    /\ \A c \in Callers : \A a \in Asks[c] : c \in Batches <=> Cascades(a.write)
    /\ None \notin Callers
    /\ None \notin Request
    /\ None \notin Write

\* Nothing to roll back: no batch is inside.
NoUndo == [there |-> {}, points |-> {}, changed |-> {}, wrote |-> {}]

VARIABLES there,    \* the records that exist
          points,   \* the records whose relation points at the parent
          locks,    \* recordLocks: each record's owner
          ask,      \* what each caller asked for
          stack,    \* the writes a caller is in, its own first
          changed,  \* the callers whose record isn't what they read any more
          undo,     \* what a ROLLBACK of the batch brings back
          loose     \* history: the parent was deleted outside a batch, or while
                    \* the delete's own hook made a reference that forbids it

recordVars == <<there, points, locks, ask, stack, changed, undo, loose>>

vars == <<gateVars, recordVars>>

Init == /\ GateInit
        /\ there = Records
        /\ points = {k \in Children : Cascade[k] # "restrict"}
        /\ locks = [r \in Records |-> None]
        /\ ask = [c \in Callers |-> None]
        /\ stack = [c \in Callers |-> <<>>]
        /\ changed = {}
        /\ undo = NoUndo
        /\ loose = FALSE

-----------------------------------------------------------------------------
(* The stack of writes. *)

Begun(w) == [op |-> w.op, rec |-> w.rec, at |-> "lock", locked |-> FALSE, left |-> {}]

Running(c) == stack[c] # <<>>

top(c) == stack[c][Len(stack[c])]

At(c, place) == Running(c) /\ top(c).at = place

\* The write on top of the stack becomes f.
Top(c, f) == stack' = [stack EXCEPT ![c] = [@ EXCEPT ![Len(@)] = f]]

Goto(c, place) == Top(c, [top(c) EXCEPT !.at = place])

Fail(c) == Goto(c, "failed")

\* The write on top becomes f and waits for another one, w.
Call(c, f, w) == stack' = [stack EXCEPT ![c] = Append([@ EXCEPT ![Len(@)] = f], Begun(w))]

\* The request's own write has read its record and not yet written it.
PastCheck(c) == Running(c) /\ stack[c][1].at \notin {"lock", "check", "done", "failed"}

\* This is the request's own write, and it came with an If-Match.
Guarded(c) == Len(stack[c]) = 1 /\ ask[c].guarded

\* The callers, but c, that read one of the records R for their If-Match.
Readers(c, R) == {d \in Callers \ {c} : /\ ask[d] # None
                                        /\ ask[d].guarded
                                        /\ ask[d].write.rec \in R}

\* c writes the records R, and D have read one of them.
Touches(c, R, D) == /\ changed' = changed \cup D
                    /\ undo' = IF c \in Batches THEN [undo EXCEPT !.wrote = @ \cup R] ELSE undo

-----------------------------------------------------------------------------
(* Calls. *)

\* A request comes; with an If-Match, the route reads the record (within a
\* batch's transaction too: there is one connection).
Asked(c) ==
    /\ ask[c] = None
    /\ \E a \in Asks[c] :
          /\ a.guarded => a.write.rec \in there
          /\ ask' = [ask EXCEPT ![c] = a]
          /\ undo' = IF a.guarded /\ a.write.rec \in undo.wrote
                     THEN [undo EXCEPT !.changed = @ \cup {c}] ELSE undo
    /\ UNCHANGED <<gateVars, there, points, locks, stack, changed, loose>>

Park(c) == /\ ask[c] # None
           /\ \/ c \in Writers /\ ParkShared(c)
              \/ c \in Batches /\ ParkExclusive(c)
           /\ UNCHANGED recordVars

Enter(c) ==
    /\ ask[c] # None
    /\ \/ c \in Writers /\ AcquireShared(c) /\ UNCHANGED undo
       \/ /\ c \in Batches
          /\ AcquireExclusive(c)
          /\ undo' = [there |-> there, points |-> points, changed |-> changed, wrote |-> {}]
    /\ stack' = [stack EXCEPT ![c] = <<Begun(ask[c].write)>>]
    /\ UNCHANGED <<there, points, locks, ask, changed, loose>>

\* The call leaves the gate and is answered.
Answer(c) ==
    /\ gate[c] = "in"
    /\ ~Running(c)
    /\ \/ c \in Writers /\ ReleaseShared(c) /\ UNCHANGED undo
       \/ c \in Batches /\ ReleaseExclusive(c) /\ undo' = NoUndo
    /\ ask' = [ask EXCEPT ![c] = None]
    /\ changed' = changed \ {c}
    /\ UNCHANGED <<there, points, locks, stack, loose>>

-----------------------------------------------------------------------------
(* Locks. *)

Free(c, r) == locks[r] \in {None, c}

\* The write on top takes its record's lock, or passes through its request's
\* own; between the last look and the taking nothing is awaited.
lockRecord(c) == /\ At(c, "lock")
                 /\ Free(c, top(c).rec)
                 /\ Top(c, [top(c) EXCEPT !.at = "check",
                                         !.locked = (locks[top(c).rec] = None)])
                 /\ locks' = [locks EXCEPT ![top(c).rec] = c]
                 /\ UNCHANGED <<gateVars, there, points, ask, changed, undo, loose>>

\* A cascade waits for each row it is going to clear, and locks none.
waitForRecordLock(c) ==
    /\ At(c, "wait")
    /\ \E k \in top(c).left : /\ Free(c, k)
                             /\ Top(c, [top(c) EXCEPT !.left = @ \ {k}])
    /\ UNCHANGED <<gateVars, there, points, locks, ask, changed, undo, loose>>

\* RecordBusyError: LOCK_WAIT_MS are over and another request has the lock.
Busy(c) == /\ \/ At(c, "lock") /\ ~Free(c, top(c).rec)
              \/ At(c, "wait") /\ \E k \in top(c).left : ~Free(c, k)
           /\ Fail(c)
           /\ UNCHANGED <<gateVars, there, points, locks, ask, changed, undo, loose>>

-----------------------------------------------------------------------------
(* updateRecordImpl, deleteRecordInternal. *)

\* The first stop of a write after its hook.
AfterHook(w) == CASE w.op = "point" -> "validate"
                  [] w.op = "delete" /\ w.rec = Parent -> "read rows"
                  [] OTHER -> "write"

\* The request's own write has a hook that does something.
Hooked(c) == Len(stack[c]) = 1 /\ ask[c].hook # None

AtHook(c) == IF Hooked(c) THEN "hook" ELSE AfterHook(top(c))

\* getRecord, and the If-Match against what it returns.  A record that is gone
\* need not be deleted; it can't be updated.
Check(c) ==
    /\ At(c, "check")
    /\ IF Guarded(c) /\ c \in changed
       THEN Fail(c)
       ELSE IF top(c).rec \in there
            THEN Goto(c, IF top(c).op = "delete" /\ top(c).rec = Parent
                         THEN "restrict" ELSE AtHook(c))
            ELSE Goto(c, IF top(c).op = "delete" THEN "done" ELSE "failed")
    /\ UNCHANGED <<gateVars, there, points, locks, ask, changed, undo, loose>>

\* Mutant: the references that forbid a delete are not looked for.
CheckNothing(c) == /\ At(c, "restrict")
                   /\ Goto(c, AtHook(c))
                   /\ UNCHANGED <<gateVars, there, points, locks, ask, changed, undo, loose>>

\* restrict references are looked for before the hook, which may have effects.
checkRestrict(c) ==
    /\ At(c, "restrict")
    /\ IF \E k \in points : Cascade[k] = "restrict" THEN Fail(c) ELSE Goto(c, AtHook(c))
    /\ UNCHANGED <<gateVars, there, points, locks, ask, changed, undo, loose>>

\* The before-hook writes another record, or the same one, or refuses.
runBeforeHook(c) ==
    /\ At(c, "hook") /\ Hooked(c)
    /\ \/ Call(c, [top(c) EXCEPT !.at = AfterHook(top(c))], ask[c].hook)
       \/ Fail(c)
    /\ UNCHANGED <<gateVars, there, points, locks, ask, changed, undo, loose>>

\* validateRecord: the record a relation points at exists.
validateRecord(c) ==
    /\ At(c, "validate")
    /\ IF Parent \in there THEN Goto(c, "write") ELSE Fail(c)
    /\ UNCHANGED <<gateVars, there, points, locks, ask, changed, undo, loose>>

\* The hook of c's request points at the parent what forbids to delete it.
ForbidsAfterCheck(c) == /\ ask[c].hook # None
                        /\ ask[c].hook.op = "point"
                        /\ Cascade[ask[c].hook.rec] = "restrict"

\* The UPDATE, or the DELETE.  An updated row is read back, and the update fails
\* when the hook has deleted it.
WriteRow(c) ==
    LET r == top(c).rec
    IN  /\ At(c, "write")
        /\ CASE top(c).op = "delete" -> there' = there \ {r} /\ points' = points \ {r}
             [] top(c).op = "point"  -> points' = points \cup ({r} \cap there) /\ UNCHANGED there
             [] OTHER                -> UNCHANGED <<there, points>>
        /\ loose' = (loose \/ (/\ top(c).op = "delete" /\ r = Parent
                               /\ c \in Writers \/ ForbidsAfterCheck(c)))
        /\ Touches(c, {r}, Readers(c, {r}))
        /\ IF top(c).op = "delete" \/ r \in there THEN Goto(c, "done") ELSE Fail(c)
        /\ UNCHANGED <<gateVars, locks, ask>>

-----------------------------------------------------------------------------
(* applyCascades. *)

Referring(mode) == {k \in points : Cascade[k] = mode}

\* The rows whose relation will be cleared are read.
ReadRows(c) ==
    /\ At(c, "read rows")
    /\ Top(c, IF Referring("setNull") = {}
              THEN [top(c) EXCEPT !.at = "read ids"]
              ELSE [top(c) EXCEPT !.at = "wait", !.left = Referring("setNull")])
    /\ UNCHANGED <<gateVars, there, points, locks, ask, changed, undo, loose>>

\* One UPDATE clears the relation wherever it points at the parent now.
SetNull(c) ==
    /\ At(c, "wait")
    /\ top(c).left = {}
    /\ points' = points \ Referring("setNull")
    /\ LET D == Readers(c, Referring("setNull"))
       IN  Touches(c, Referring("setNull"),
                   IF c \in Batches THEN D ELSE {d \in D : ~PastCheck(d)})
    /\ Goto(c, "read ids")
    /\ UNCHANGED <<gateVars, there, locks, ask, loose>>

\* The rows to delete are read ...
ReadIds(c) ==
    /\ At(c, "read ids")
    /\ Top(c, [top(c) EXCEPT !.at = "children", !.left = Referring("cascade")])
    /\ UNCHANGED <<gateVars, there, points, locks, ask, changed, undo, loose>>

\* ... and deleted one after the other, each as deleteRecord would ...
DeleteChild(c) ==
    /\ At(c, "children")
    /\ \E k \in top(c).left : Call(c, [top(c) EXCEPT !.left = @ \ {k}], [op |-> "delete", rec |-> k])
    /\ UNCHANGED <<gateVars, there, points, locks, ask, changed, undo, loose>>

ChildrenGone(c) ==
    /\ At(c, "children")
    /\ top(c).left = {}
    /\ Goto(c, "write")
    /\ UNCHANGED <<gateVars, there, points, locks, ask, changed, undo, loose>>

\* ... unless the caller's rules don't allow it: CascadeForbiddenError.
Forbidden(c) ==
    /\ At(c, "children")
    /\ top(c).left # {}
    /\ Fail(c)
    /\ UNCHANGED <<gateVars, there, points, locks, ask, changed, undo, loose>>

-----------------------------------------------------------------------------

\* Mutant: a write within a write of its record releases the lock.
UnlockedAlways(c) == [locks EXCEPT ![top(c).rec] = None]

Unlocked(c) == IF top(c).locked THEN [locks EXCEPT ![top(c).rec] = None] ELSE locks

\* A write ends: its lock is released (the finally), and what waits for it goes
\* on or fails too; a script may catch the error of a write it made.  When the
\* batch's own write fails its transaction is rolled back.
Return(c) ==
    /\ Running(c) /\ top(c).at \in {"done", "failed"}
    /\ locks' = Unlocked(c)
    /\ LET rest == Front(stack[c])
           fails == top(c).at = "failed"
       IN  /\ IF ~fails \/ rest = <<>>
              THEN stack' = [stack EXCEPT ![c] = rest]
              ELSE \/ /\ Last(rest).at # "children"
                      /\ stack' = [stack EXCEPT ![c] = rest]
                   \/ stack' = [stack EXCEPT ![c] = [rest EXCEPT ![Len(rest)].at = "failed"]]
           /\ IF fails /\ rest = <<>> /\ c \in Batches
              THEN there' = undo.there /\ points' = undo.points /\ changed' = undo.changed
              ELSE UNCHANGED <<there, points, changed>>
    /\ UNCHANGED <<gateVars, ask, undo, loose>>

\* What goes on once a request has come.
Step(c) == \/ Park(c) \/ Enter(c) \/ Answer(c)
           \/ lockRecord(c) \/ waitForRecordLock(c) \/ Busy(c)
           \/ Check(c) \/ checkRestrict(c) \/ runBeforeHook(c) \/ validateRecord(c)
           \/ WriteRow(c) \/ ReadRows(c) \/ SetNull(c) \/ ReadIds(c) \/ DeleteChild(c)
           \/ ChildrenGone(c) \/ Forbidden(c) \/ Return(c)

Next == \E c \in Callers : Asked(c) \/ Step(c)

Spec == Init /\ [][Next]_vars

\* A request that has come goes on, at the latest when LOCK_WAIT_MS are over.
FairSpec == Spec /\ \A c \in Callers : WF_vars(Step(c))

-----------------------------------------------------------------------------

\* A write with an If-Match happens only on the record its caller read: from
\* the check to the UPDATE no other request changes or deletes it, whatever the
\* hook awaits and whatever it writes (records.ts:1290-1299).  Excepted is what
\* a hook's delete of the parent clears outside a batch: it only waits for the
\* locks (1509).
IfMatchHolds == \A c \in Callers : PastCheck(c) /\ ask[c].guarded => c \notin changed

\* Every way out of a write gives its lock back: locks belong to calls inside
\* the gate, so a batch, which is alone there, never waits for one and can't
\* fail with "Record is busy".
LocksGivenBack ==
    /\ \A r \in Records : locks[r] # None => gate[locks[r]] = "in"
    /\ \A b \in Inside(Batches), r \in Records : Free(b, r)

\* A delete that cascades leaves no reference to its record behind, whatever is
\* written meanwhile and however far an attempt before it got
\* (records.ts:1717-1722: it has the gate to itself and a transaction).  Excepted
\* is a restrict reference that its hook makes: they are looked for before (1572).
NoDangling == Parent \in there \/ loose \/ points = {}

=============================================================================
