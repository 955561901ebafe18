----------------------- MODULE SharedConnectionProofs -----------------------
(***************************************************************************)
(* Proofs about the shared connection, for any finite sets of calls.       *)
(*                                                                         *)
(* The calls use the gate as WriteGate describes it, so what is proved of  *)
(* the gate holds here.  On top of it: a group is open only while the      *)
(* write that opened it is inside the gate, so none is open while a batch  *)
(* is, and nothing but the batch writes into its transaction.              *)
(***************************************************************************)
EXTENDS SharedConnection, WriteGateProofs

-----------------------------------------------------------------------------
(* The gate's part of every step. *)

LEMMA StepUsesGate == [Next]_vars => [GateNext]_gateVars
  <1> SUFFICES ASSUME [Next]_vars PROVE [GateNext]_gateVars
    OBVIOUS
  <1>1. ASSUME NEW w \in Writers, EnterWrite(w) PROVE GateNext
    BY <1>1 DEF EnterWrite, GateNext
  <1>2. ASSUME NEW w \in Writers, WriteStep(w) PROVE [GateNext]_gateVars
    <2>1. CASE AnswerWrite(w)
      BY <2>1 DEF AnswerWrite, GateNext
    <2>2. CASE ~AnswerWrite(w)
      BY <1>2, <2>2 DEF WriteStep, WriteStatement, HookBegin, HookEnd, WriteRollsBack,
                        FiresRollback, Announce, Throw, AwaitCommit
    <2> QED
      BY <2>1, <2>2
  <1>3. ASSUME NEW b \in Batches, EnterBatch(b) PROVE GateNext
    BY <1>3 DEF EnterBatch, GateNext
  <1>4. ASSUME NEW b \in Batches, BatchStep(b) PROVE [GateNext]_gateVars
    BY <1>4 DEF BatchStep, BatchBegin, AnswerBatch, GateNext
  <1>5. ASSUME NEW t \in Txs, TxBegin(t) PROVE UNCHANGED gateVars
    BY <1>5 DEF TxBegin
  <1>6. ASSUME NEW p \in Batches \cup Txs, TxStep(p) PROVE UNCHANGED gateVars
    BY <1>6 DEF TxStep, TxStatement, TxRollsBack, FiresRollback, TxEnd
  <1>7. ASSUME NEW s \in Stamps, Stamp(s) PROVE UNCHANGED gateVars
    BY <1>7 DEF Stamp
  <1>8. ASSUME NEW r \in Raws, Raw(r) PROVE UNCHANGED gateVars
    BY <1>8 DEF Raw
  <1>9. CASE EndOfTurn
    BY <1>9 DEF EndOfTurn
  <1>10. CASE UNCHANGED vars
    BY <1>10 DEF vars
  <1> QED
    BY <1>1, <1>2, <1>3, <1>4, <1>5, <1>6, <1>7, <1>8, <1>9, <1>10 DEF Next

\* Record writes, batches and everything else on the connection take the gate
\* only in the ways WriteGate allows.
THEOREM CallsUseTheGate == Spec => UsesTheGate
  <1>1. Init => GateInit
    BY DEF Init
  <1> QED
    BY <1>1, StepUsesGate, PTL DEF Spec, UsesTheGate, GateSpec

\* So a batch is alone inside the gate, with everything else that runs on the
\* connection.
THEOREM ConnectionExclusion == Spec => []GateInv
  BY CallsUseTheGate, GateInvariant, PTL DEF UsesTheGate

-----------------------------------------------------------------------------
(* What the connection's operators preserve. *)

\* A transaction belongs to the open group or to an owner that is not a
\* savepoint; without one there is nothing uncommitted.
ConnOK(c) == /\ c \in Connection
             /\ c.open # None => c.state[c.open] = "open"
             /\ c.tx = "group" => c.open # None
             /\ c.tx = "own" => c.owner # None /\ ~c.held
             /\ c.tx = "none" => c.rows = {}

\* From c to d no group opened and the owner stayed.
NothingOpened(c, d) ==
    /\ ConnOK(d)
    /\ \A g \in Writers : d.state[g] = "open" => c.state[g] = "open"
    /\ d.open # None => d.open = c.open
    /\ d.tx \in {c.tx, "none"}

\* What p writes and what it waits for make no difference to a group.
Steady(c, d) == NothingOpened(c, d) /\ d.owner = c.owner

LEMMA NoneIsNobody == None \notin Procs /\ None \notin Writers /\ None \notin Batches
  BY ConnectionAssumption DEF Procs

LEMMA SteadyRollback ==
    ASSUME NEW c, ConnOK(c)
    PROVE  Steady(c, Rollback(c)) /\ Rollback(c).rows = {}
  BY DEF ConnOK, Steady, NothingOpened, Connection, Rollback, Ended

LEMMA SteadyCommit ==
    ASSUME NEW c, ConnOK(c)
    PROVE  Steady(c, Commit(c)) /\ Commit(c).rows = {} /\ Commit(c).open = c.open
  BY DEF ConnOK, Steady, NothingOpened, Connection, Commit, Ended

LEMMA SteadyClose ==
    ASSUME NEW c, ConnOK(c), c.tx # "group", c.open # None,
           NEW outcome \in {"committed", "failed", "undone"}
    PROVE  Steady(c, CloseGroup(c, outcome)) /\ CloseGroup(c, outcome).open = None
  BY NoneIsNobody DEF ConnOK, Steady, NothingOpened, Connection, CloseGroup

LEMMA SteadyNotice ==
    ASSUME NEW c, ConnOK(c)
    PROVE  Steady(c, noticeRollback(c)) /\ (c.open = None => noticeRollback(c) = c)
  BY SteadyClose DEF noticeRollback, inTransaction, ConnOK, Steady, NothingOpened

LEMMA NoticeRows ==
    ASSUME NEW c, ConnOK(c)
    PROVE  noticeRollback(c).rows \subseteq c.rows
  BY DEF noticeRollback, CloseGroup, ConnOK, Connection

LEMMA SteadyPut ==
    ASSUME NEW c, ConnOK(c), NEW r \in Rows
    PROVE  /\ Steady(c, Put(c, r))
           /\ Put(c, r).rows \subseteq c.rows \cup {r}
           /\ Put(c, r).open = c.open
  <1> DEFINE d == IF c.owner = r[1] THEN [c EXCEPT !.mine = @ \cup {r}] ELSE c
             e == Put(c, r)
  <1>1. /\ d \in Connection /\ d.tx = c.tx /\ d.rows = c.rows /\ d.owner = c.owner
        /\ d.held = c.held /\ d.open = c.open /\ d.state = c.state
    BY DEF ConnOK, Connection
  <1>2. IF inTransaction(c)
        THEN e = [d EXCEPT !.rows = @ \cup {r},
                           !.inside = IF c.savepoint THEN @ \cup {r} ELSE @]
        ELSE e = [d EXCEPT !.disk = @ \cup {r}]
    BY DEF Put
  <1> HIDE DEF d, e
  <1>3. /\ e \in Connection /\ e.tx = c.tx /\ e.owner = c.owner /\ e.held = c.held
        /\ e.open = c.open /\ e.state = c.state
        /\ e.rows = IF inTransaction(c) THEN c.rows \cup {r} ELSE c.rows
    <2>1. CASE inTransaction(c)
      <3>1. PICK i \in SUBSET Rows : e = [d EXCEPT !.rows = @ \cup {r}, !.inside = i]
        <4>1. d.inside \cup {r} \in SUBSET Rows /\ d.inside \in SUBSET Rows
          BY <1>1 DEF Connection
        <4> QED
          BY <1>2, <2>1, <4>1
      <3>2. d.rows \cup {r} \in SUBSET Rows
        BY <1>1 DEF Connection
      <3> QED
        BY <1>1, <2>1, <3>1, <3>2 DEF Connection
    <2>2. CASE ~inTransaction(c)
      <3>1. d.disk \cup {r} \in SUBSET Rows
        BY <1>1 DEF Connection
      <3> QED
        BY <1>1, <1>2, <2>2, <3>1 DEF Connection
    <2> QED
      BY <2>1, <2>2
  <1>4. Steady(c, e) /\ e.rows \subseteq c.rows \cup {r} /\ e.open = c.open
    BY <1>3 DEF ConnOK, Steady, NothingOpened, inTransaction
  <1> QED
    BY <1>4 DEF e

LEMMA SteadyTransitive ==
    ASSUME NEW c, NEW d, NEW e, Steady(c, d), Steady(d, e)
    PROVE  Steady(c, e)
  BY DEF Steady, NothingOpened

LEMMA SteadyFlush ==
    ASSUME NEW c, ConnOK(c), NEW d \in flushGroupCommit(c)
    PROVE  Steady(c, d) /\ (c.open = None => d = c)
  <1>1. CASE c.open = None
    <2>1. d = c
      BY <1>1 DEF flushGroupCommit
    <2>2. Steady(c, c)
      BY DEF Steady, NothingOpened
    <2> QED
      BY <2>1, <2>2
  <1>2. CASE c.open # None /\ c.held
    <2>1. d = [c EXCEPT !.wanted = TRUE]
      BY <1>2 DEF flushGroupCommit
    <2> QED
      BY <1>2, <2>1 DEF Steady, NothingOpened, ConnOK, Connection
  <1>3. CASE c.open # None /\ ~c.held /\ ~inTransaction(c)
    BY <1>3, SteadyNotice DEF flushGroupCommit
  <1>4. CASE c.open # None /\ ~c.held /\ inTransaction(c)
    <2>1. CASE d = CloseGroup(Rollback(c), "failed")
      <3>1. Steady(c, Rollback(c)) /\ Rollback(c).open = c.open /\ Rollback(c).tx = "none"
        BY SteadyRollback DEF Rollback, Ended, ConnOK, Connection
      <3>2. Steady(Rollback(c), d)
        BY <1>4, <2>1, <3>1, SteadyClose DEF Steady, NothingOpened
      <3> QED
        BY <1>4, <3>1, <3>2, SteadyTransitive
    <2>2. CASE d = [CloseGroup(Commit(c), "committed")
                      EXCEPT !.ran = @ \cup c.effects[c.open]]
      <3> DEFINE e == CloseGroup(Commit(c), "committed")
      <3>1. Steady(c, Commit(c)) /\ Commit(c).open = c.open /\ Commit(c).tx = "none"
        BY SteadyCommit DEF Commit, Ended, ConnOK, Connection
      <3>2. Steady(Commit(c), e)
        BY <1>4, <3>1, SteadyClose DEF Steady, NothingOpened
      <3>3. Steady(c, e)
        BY <3>1, <3>2, SteadyTransitive
      <3>4. c.effects[c.open] \subseteq Writers
        BY <1>4 DEF ConnOK, Connection
      <3>5. Steady(e, d)
        <4> HIDE DEF e
        <4>1. ConnOK(e)
          BY <3>3 DEF Steady, NothingOpened
        <4>2. d = [e EXCEPT !.ran = @ \cup c.effects[c.open]]
          BY <2>2 DEF e
        <4> QED
          BY <4>1, <4>2, <3>4 DEF Steady, NothingOpened, ConnOK, Connection
      <3> QED
        BY <1>4, <3>3, <3>5, SteadyTransitive
    <2> QED
      BY <1>4, <2>1, <2>2 DEF flushGroupCommit
  <1> QED
    BY <1>1, <1>2, <1>3, <1>4

LEMMA OwnGives ==
    ASSUME NEW c, ConnOK(c), c.owner = None, NEW p \in Procs
    PROVE  /\ ConnOK(Own(c, p))
           /\ Own(c, p).owner = p
           /\ Own(c, p).open = c.open
           /\ Own(c, p).state = c.state
           /\ Own(c, p).rows = c.rows
  BY NoneIsNobody DEF ConnOK, Connection, Own, inTransaction

LEMMA ReleasedGives ==
    ASSUME NEW c, ConnOK(c), c.tx # "own", NEW d \in Released(c)
    PROVE  NothingOpened(c, d) /\ d.owner = None
  <1> DEFINE e == [c EXCEPT !.owner = None, !.held = FALSE, !.mine = {}]
             f == [e EXCEPT !.wanted = FALSE]
  <1>1. NothingOpened(c, e) /\ e.owner = None
    BY DEF ConnOK, Connection, NothingOpened
  <1>2. NothingOpened(c, f) /\ f.owner = None
    BY DEF ConnOK, Connection, NothingOpened
  <1>3. d = e \/ d \in flushGroupCommit(f)
    BY DEF Released
  <1>4. ASSUME d \in flushGroupCommit(f) PROVE Steady(f, d)
    <2> HIDE DEF f
    <2> QED
      BY <1>2, <1>4, SteadyFlush DEF NothingOpened
  <1> HIDE DEF e, f
  <1> QED
    BY <1>1, <1>2, <1>3, <1>4 DEF Steady, NothingOpened

LEMMA CommittedGives ==
    ASSUME NEW c, ConnOK(c), NEW d \in OwnerCommitted(c)
    PROVE  NothingOpened(c, d) /\ d.owner = None
  <1>1. CASE c.held
    <2> DEFINE e == [c EXCEPT !.savepoint = FALSE, !.inside = {}]
    <2>1. Steady(c, e) /\ e.tx # "own"
      BY <1>1 DEF ConnOK, Connection, Steady, NothingOpened
    <2>2. d \in Released(e)
      BY <1>1 DEF OwnerCommitted
    <2> HIDE DEF e
    <2> QED
      BY <2>1, <2>2, ReleasedGives DEF Steady, NothingOpened
  <1>2. CASE ~c.held
    <2>1. Steady(c, Commit(c)) /\ Commit(c).tx # "own"
      BY SteadyCommit DEF Commit, Ended, ConnOK, Connection
    <2>2. d \in Released(Commit(c))
      BY <1>2 DEF OwnerCommitted
    <2> QED
      BY <2>1, <2>2, ReleasedGives DEF Steady, NothingOpened
  <1> QED
    BY <1>1, <1>2

LEMMA UndoneGives ==
    ASSUME NEW c, ConnOK(c), NEW d \in OwnerUndone(c)
    PROVE  NothingOpened(c, d) /\ d.owner = None
  <1>1. CASE ~OwnerMayCommit(c)
    <2>1. c.tx # "own"
      BY <1>1 DEF OwnerMayCommit, inTransaction, ConnOK
    <2>2. d \in Released(c)
      BY <1>1 DEF OwnerUndone
    <2> QED
      BY <2>1, <2>2, ReleasedGives
  <1>2. CASE OwnerMayCommit(c) /\ c.held
    <2> DEFINE e == [c EXCEPT !.rows = @ \ c.inside, !.savepoint = FALSE, !.inside = {}]
    <2>1. Steady(c, e) /\ e.tx # "own"
      BY <1>2 DEF ConnOK, Connection, Steady, NothingOpened
    <2>2. d \in Released(e)
      BY <1>2 DEF OwnerUndone
    <2> HIDE DEF e
    <2> QED
      BY <2>1, <2>2, ReleasedGives DEF Steady, NothingOpened
  <1>3. CASE OwnerMayCommit(c) /\ ~c.held
    <2>1. Steady(c, Rollback(c)) /\ Rollback(c).tx # "own"
      BY SteadyRollback DEF Rollback, Ended, ConnOK, Connection
    <2>2. d \in Released(Rollback(c))
      BY <1>3 DEF OwnerUndone
    <2> QED
      BY <2>1, <2>2, ReleasedGives DEF Steady, NothingOpened
  <1> QED
    BY <1>1, <1>2, <1>3

-----------------------------------------------------------------------------
(* The invariant. *)

\* Inside withSharedWrite or withExclusiveWrite.
InGate == {"run", "hook", "tx", "written", "thrown", "saved", "threw"}

Stages == InGate \cup {"start", "ok", "error", "lost"}

\* A call inside the gate is counted as such.
StagesAgree == /\ at \in [Procs -> Stages]
               /\ \A p \in Callers : at[p] \in InGate => gate[p] = "in"

\* The write that opened a group stays in the gate while the group is open.
OpenersStay == /\ grp \in [Writers -> Writers \cup {None}]
               /\ \A g \in Writers :
                    conn.state[g] = "open" => grp[g] = g /\ gate[g] = "in"

\* The connection's owner is the call that is in a transaction.
OwnersAgree == \A p \in Procs : at[p] \in {"hook", "tx"} <=> conn.owner = p

SharedInv == /\ GateInv
             /\ ConnOK(conn)
             /\ issued \in [Procs -> 0 .. MaxRows]
             /\ StagesAgree
             /\ OpenersStay
             /\ OwnersAgree
             /\ BatchIsolated

LEMMA InitShared == Init => SharedInv
  <1> SUFFICES ASSUME Init PROVE SharedInv
    OBVIOUS
  <1>1. GateInv
    BY InitInv DEF Init
  <1>2. ConnOK(conn)
    BY DEF Init, ConnOK, Connection
  <1>3. StagesAgree /\ issued \in [Procs -> 0 .. MaxRows]
    BY ConnectionAssumption DEF Init, StagesAgree, Stages, InGate, Procs, Callers
  <1>4. OpenersStay
    BY DEF Init, OpenersStay
  <1>5. OwnersAgree /\ BatchIsolated
    BY NoneIsNobody DEF Init, OwnersAgree, BatchIsolated
  <1> QED
    BY <1>1, <1>2, <1>3, <1>4, <1>5 DEF SharedInv

\* While a batch is inside the gate no group is open.
LEMMA BatchInsideNoGroup ==
    ASSUME SharedInv, NEW b \in Batches, gate[b] = "in"
    PROVE  conn.open = None /\ conn.tx # "group"
  <1>1. \A w \in Writers : gate[w] # "in"
    BY DEF SharedInv, GateInv, Exclusion, Inside
  <1> QED
    BY <1>1 DEF SharedInv, OpenersStay, ConnOK, Connection

\* A step that leaves the owner alone and writes at most rows of the raw
\* connection, or of the owner, keeps a batch isolated.
LEMMA IsolatedByRows ==
    ASSUME BatchIsolated, NothingOpened(conn, conn'), conn'.owner = conn.owner,
           conn.owner \in Batches =>
             \A r \in conn'.rows : r \in conn.rows \/ r[1] \in Raws \cup {conn.owner}
    PROVE  BatchIsolated'
  BY DEF BatchIsolated, NothingOpened, ConnOK

\* Without a batch that owns the connection there is nothing to show.
LEMMA IsolatedByOwner ==
    ASSUME conn'.owner \notin Batches
    PROVE  BatchIsolated'
  BY DEF BatchIsolated

\* What a step does to the groups when none opens and no call leaves the gate.
LEMMA OpenersByGate ==
    ASSUME OpenersStay, NothingOpened(conn, conn'), UNCHANGED grp,
           \A g \in Writers : gate[g] = "in" => gate'[g] = "in"
    PROVE  OpenersStay'
  BY DEF OpenersStay, NothingOpened

LEMMA RowPlace ==
    ASSUME NEW p \in Procs, issued \in [Procs -> 0 .. MaxRows], issued[p] < MaxRows
    PROVE  NextRow(p) \in Rows /\ NextRow(p)[1] = p
  BY ConnectionAssumption DEF NextRow, Rows

\* A statement on a connection that opened nothing.
LEMMA ExecuteGives ==
    ASSUME SharedInv, NEW p \in Procs, NEW c, Steady(conn, c), Execute(p, c)
    PROVE  /\ Steady(conn, conn')
           /\ conn'.rows \subseteq c.rows \cup {NextRow(p)}
           /\ NextRow(p)[1] = p
           /\ (issued \in [Procs -> 0 .. MaxRows])'
  <1>1. NextRow(p) \in Rows /\ NextRow(p)[1] = p
    BY RowPlace DEF SharedInv, Execute
  <1>2. ConnOK(c)
    BY DEF Steady, NothingOpened
  <1>3. conn' = Put(c, NextRow(p))
    BY DEF Execute
  <1>4. Steady(c, conn') /\ conn'.rows \subseteq c.rows \cup {NextRow(p)}
    BY <1>1, <1>2, <1>3, SteadyPut
  <1>5. Steady(conn, conn')
    BY <1>4, SteadyTransitive
  <1>6. (issued \in [Procs -> 0 .. MaxRows])'
    BY ConnectionAssumption DEF SharedInv, Execute
  <1> QED
    BY <1>1, <1>4, <1>5, <1>6

-----------------------------------------------------------------------------
(* One step at a time: record writes. *)

LEMMA JoinGives ==
    ASSUME NEW c, ConnOK(c), NEW w \in Writers, NEW d, NEW g,
           joinGroupCommit(c, w) = <<d, g>>
    PROVE  /\ ConnOK(d)
           /\ d.owner = c.owner
           /\ g \in Writers \cup {None}
           /\ \A h \in Writers : d.state[h] = "open" => c.state[h] = "open" \/ (h = w /\ g = w)
  <1> DEFINE e == noticeRollback(c)
             f == [e EXCEPT !.tx = "group", !.open = w, !.state[w] = "open", !.due = TRUE]
  <1>1. ConnOK(e) /\ Steady(c, e)
    BY SteadyNotice DEF Steady, NothingOpened
  <1>2. \/ d = e /\ g \in {e.open, None}
        \/ e.open = None /\ e.tx = "none" /\ d = f /\ g = w
    BY DEF joinGroupCommit, inTransaction
  <1>3. e.open \in Writers \cup {None}
    BY <1>1 DEF ConnOK, Connection
  <1>4. ASSUME e.open = None, e.tx = "none"
        PROVE  /\ ConnOK(f) /\ f.owner = e.owner
               /\ \A h \in Writers : f.state[h] = "open" => e.state[h] = "open" \/ h = w
    <2> HIDE DEF e
    <2> QED
      BY <1>1, <1>4, NoneIsNobody DEF ConnOK, Connection
  <1> HIDE DEF e, f
  <1> QED
    BY <1>1, <1>2, <1>3, <1>4 DEF Steady, NothingOpened

\* A caller that is not inside leaves everybody else where they are.
LEMMA OthersStayInside ==
    ASSUME GateTypeOK, NEW c \in Callers, gate[c] # "in",
           NEW place, gate' = [gate EXCEPT ![c] = place]
    PROVE  /\ \A p \in Callers : gate[p] = "in" => gate'[p] = "in"
           /\ gate'[c] = place
  BY DEF GateTypeOK

LEMMA ParkInv ==
    ASSUME SharedInv, NEW c \in Callers, Runs(c), nextWake(c), GateInv',
           UNCHANGED <<conn, calls>>
    PROVE  SharedInv'
  <1>1. \A p \in Callers : gate[p] = "in" => gate'[p] = "in"
    BY OthersStayInside DEF Runs, nextWake, SharedInv, GateInv
  <1>2. StagesAgree' /\ OpenersStay'
    BY <1>1 DEF calls, SharedInv, StagesAgree, OpenersStay, Callers
  <1> QED
    BY <1>2 DEF calls, SharedInv, OwnersAgree, BatchIsolated

LEMMA EnterWriteInv ==
    ASSUME SharedInv, NEW w \in Writers, EnterWrite(w), GateInv'
    PROVE  SharedInv'
  <1>1. w \in Callers /\ w \in Procs /\ at[w] = "start" /\ conn.owner # w
    BY DEF EnterWrite, Callers, Procs, SharedInv, OwnersAgree
  <1>2. CASE ParkShared(w) /\ UNCHANGED <<conn, at, grp>>
    BY <1>1, <1>2, ParkInv DEF EnterWrite, ParkShared, calls
  <1>3. ASSUME AcquireShared(w),
               NEW stage \in {"run", "threw"}, NEW d, NEW g,
               conn' = d, grp' = [grp EXCEPT ![w] = g], Goto(w, stage),
               ConnOK(d), d.owner = conn.owner, g \in Writers \cup {None},
               \A h \in Writers : d.state[h] = "open" =>
                                    conn.state[h] = "open" \/ (h = w /\ g = w)
        PROVE  SharedInv'
    <2>1. /\ \A p \in Callers : gate[p] = "in" => gate'[p] = "in"
          /\ gate'[w] = "in" /\ gate[w] # "in"
      BY <1>1, <1>3, OthersStayInside DEF AcquireShared, Runs, SharedInv, GateInv
    <2>2. conn.owner \notin Batches
      <3>1. \A b \in Batches : gate'[b] # "in"
        BY <2>1 DEF GateInv, Exclusion, Inside
      <3>2. \A b \in Batches : at[b] \notin {"tx", "hook"}
        BY <2>1, <3>1 DEF SharedInv, StagesAgree, InGate, Callers
      <3> QED
        BY <3>2 DEF SharedInv, OwnersAgree, Procs
    <2>3. OpenersStay'
      BY <1>3, <2>1, <1>1 DEF SharedInv, OpenersStay, Callers
    <2>4. StagesAgree'
      BY <1>1, <1>3, <2>1 DEF SharedInv, StagesAgree, Goto, Stages, InGate
    <2>5. OwnersAgree'
      BY <1>1, <1>3 DEF SharedInv, StagesAgree, OwnersAgree, Goto
    <2>6. BatchIsolated'
      BY <1>3, <2>2, IsolatedByOwner
    <2> QED
      BY <1>3, <2>3, <2>4, <2>5, <2>6 DEF EnterWrite, SharedInv
  <1>4. CASE AcquireShared(w) /\ conn' = joinGroupCommit(conn, w)[1]
             /\ grp' = [grp EXCEPT ![w] = joinGroupCommit(conn, w)[2]] /\ Goto(w, "run")
    <2>1. PICK d, g : joinGroupCommit(conn, w) = <<d, g>>
      BY DEF joinGroupCommit
    <2>2. conn' = d /\ grp' = [grp EXCEPT ![w] = g]
      BY <1>4, <2>1
    <2>3. /\ ConnOK(d) /\ d.owner = conn.owner /\ g \in Writers \cup {None}
          /\ \A h \in Writers : d.state[h] = "open" =>
                               conn.state[h] = "open" \/ (h = w /\ g = w)
      BY <2>1, JoinGives DEF SharedInv
    <2> QED
      BY <1>3, <1>4, <2>2, <2>3
  <1>5. CASE AcquireShared(w) /\ conn' = noticeRollback(conn) /\ Goto(w, "threw")
             /\ UNCHANGED grp
    <2>1. Steady(conn, noticeRollback(conn))
      BY SteadyNotice DEF SharedInv
    <2>2. grp' = [grp EXCEPT ![w] = grp[w]] /\ grp[w] \in Writers \cup {None}
      BY <1>5 DEF SharedInv, OpenersStay
    <2> QED
      BY <1>3, <1>5, <2>1, <2>2 DEF Steady, NothingOpened
  <1> QED
    BY <1>2, <1>4, <1>5 DEF EnterWrite

\* A step of call p that is not its entry and not its exit: the gate and the
\* groups joined stay, and no group opens.
LEMMA StepInside ==
    ASSUME SharedInv, NEW p \in Procs, NEW stage \in Stages, Goto(p, stage),
           UNCHANGED <<gateVars, grp>>,
           (issued \in [Procs -> 0 .. MaxRows])',
           NothingOpened(conn, conn'),
           p \in Callers => gate[p] = "in" \/ stage \notin InGate,
           OwnersAgree', BatchIsolated'
    PROVE  SharedInv'
  <1>1. GateInv'
    BY DEF gateVars, SharedInv, GateInv, GateTypeOK, CountersAgree, Exclusion,
           NoLostWakeup, Inside, WaitingBatches
  <1>2. StagesAgree'
    BY DEF gateVars, SharedInv, StagesAgree, Goto
  <1>3. OpenersStay'
    BY OpenersByGate DEF gateVars, SharedInv
  <1> QED
    BY <1>1, <1>2, <1>3 DEF SharedInv, NothingOpened

\* The owner stays, and so does the kind of stage the call is in.
LEMMA OwnersStay ==
    ASSUME SharedInv, NEW p \in Procs, NEW stage, Goto(p, stage),
           conn'.owner = conn.owner,
           at[p] \in {"hook", "tx"} <=> stage \in {"hook", "tx"}
    PROVE  OwnersAgree'
  BY DEF SharedInv, StagesAgree, OwnersAgree, Goto

\* The owner's transaction ends.
LEMMA OwnerLeaves ==
    ASSUME SharedInv, NEW p \in Procs, NEW stage, Goto(p, stage),
           conn.owner = p, conn'.owner = None, stage \notin {"hook", "tx"}
    PROVE  OwnersAgree' /\ BatchIsolated'
  BY NoneIsNobody DEF SharedInv, StagesAgree, OwnersAgree, BatchIsolated, Goto

\* A free connection is taken.
LEMMA OwnerEnters ==
    ASSUME SharedInv, NEW p \in Procs, NEW stage, Goto(p, stage),
           conn.owner = None, conn'.owner = p, stage \in {"hook", "tx"}
    PROVE  OwnersAgree'
  BY NoneIsNobody DEF SharedInv, StagesAgree, OwnersAgree, Goto

LEMMA WriterIsACall ==
    ASSUME SharedInv, NEW w \in Writers
    PROVE  /\ w \in Procs /\ w \in Callers /\ w \notin Batches
           /\ at[w] \in InGate => gate[w] = "in"
           /\ at[w] \in {"hook", "tx"} => conn.owner = w
           /\ conn.owner = w => at[w] \in {"hook", "tx"}
  BY CallersAssumption DEF SharedInv, StagesAgree, OwnersAgree, Procs, Callers

LEMMA WriteStatementInv ==
    ASSUME SharedInv, NEW w \in Writers, WriteStatement(w)
    PROVE  SharedInv'
  <1>1. Steady(conn, conn)
    BY DEF Steady, NothingOpened, SharedInv
  <1>2. /\ w \in Procs /\ w \notin Batches /\ gate[w] = "in"
        /\ at[w] \in Stages /\ at \in [Procs -> Stages]
    BY WriterIsACall DEF WriteStatement, InGate, Stages, SharedInv, StagesAgree
  <1>3. Steady(conn, conn') /\ (issued \in [Procs -> 0 .. MaxRows])'
    BY <1>1, <1>2, ExecuteGives DEF WriteStatement
  <1>4. conn.owner \notin Batches
    BY <1>2, NoneIsNobody DEF WriteStatement, foreignTx
  <1>5. Goto(w, at[w])
    BY <1>2 DEF WriteStatement, Goto
  <1>6. OwnersAgree' /\ BatchIsolated'
    BY <1>2, <1>3, <1>4, <1>5, OwnersStay, IsolatedByOwner DEF Steady
  <1> QED
    BY <1>2, <1>3, <1>5, <1>6, StepInside DEF WriteStatement, Steady

LEMMA HookBeginInv ==
    ASSUME SharedInv, NEW w \in Writers, HookBegin(w)
    PROVE  SharedInv'
  <1>1. w \in Procs /\ w \notin Batches /\ gate[w] = "in" /\ conn.owner # w
    BY WriterIsACall DEF HookBegin, InGate
  <1>2. conn.owner = None
    BY <1>1 DEF HookBegin, foreignTx
  <1>3. /\ ConnOK(conn') /\ conn'.owner = w /\ conn'.open = conn.open
        /\ conn'.state = conn.state
    BY <1>1, <1>2, OwnGives DEF HookBegin, SharedInv
  <1>4. OwnersAgree' /\ BatchIsolated'
    BY <1>1, <1>2, <1>3, OwnerEnters, IsolatedByOwner DEF HookBegin
  <1>5. StagesAgree'
    BY <1>1 DEF HookBegin, Goto, gateVars, SharedInv, StagesAgree, Stages, InGate
  <1>6. GateInv' /\ OpenersStay'
    BY <1>3 DEF HookBegin, gateVars, SharedInv, OpenersStay, GateInv, GateTypeOK,
                CountersAgree, Exclusion, NoLostWakeup, Inside, WaitingBatches
  <1> QED
    BY <1>3, <1>4, <1>5, <1>6 DEF HookBegin, SharedInv

LEMMA HookEndInv ==
    ASSUME SharedInv, NEW w \in Writers, HookEnd(w)
    PROVE  SharedInv'
  <1>1. /\ w \in Procs /\ gate[w] = "in" /\ conn.owner = w
        /\ (issued \in [Procs -> 0 .. MaxRows])'
    BY WriterIsACall DEF HookEnd, InGate, SharedInv
  <1>2. NothingOpened(conn, conn') /\ conn'.owner = None
    <2>1. CASE conn' \in OwnerCommitted(conn)
      BY <2>1, CommittedGives DEF SharedInv
    <2>2. CASE conn' \in OwnerUndone(conn)
      BY <2>2, UndoneGives DEF SharedInv
    <2> QED
      BY <2>1, <2>2 DEF HookEnd
  <1>3. Goto(w, "run") /\ "run" \in Stages
    BY DEF HookEnd, Stages, InGate
  <1>4. OwnersAgree' /\ BatchIsolated'
    BY <1>1, <1>2, <1>3, OwnerLeaves
  <1> QED
    BY <1>1, <1>2, <1>3, <1>4, StepInside DEF HookEnd

LEMMA WriteRollsBackInv ==
    ASSUME SharedInv, NEW w \in Writers, WriteRollsBack(w)
    PROVE  SharedInv'
  <1>1. /\ w \in Procs /\ w \notin Batches /\ gate[w] = "in"
        /\ conn.owner \notin Batches
    BY WriterIsACall, NoneIsNobody DEF WriteRollsBack, FiresRollback, foreignTx, InGate
  <1>2. Goto(w, at[w]) /\ at[w] \in Stages /\ (issued \in [Procs -> 0 .. MaxRows])'
    BY <1>1 DEF Goto, SharedInv, StagesAgree, WriteRollsBack, FiresRollback, calls
  <1>3. Steady(conn, conn')
    BY SteadyRollback DEF WriteRollsBack, FiresRollback, SharedInv
  <1>4. OwnersAgree' /\ BatchIsolated'
    BY <1>1, <1>2, <1>3, OwnersStay, IsolatedByOwner DEF Steady
  <1> QED
    BY <1>1, <1>2, <1>3, <1>4, StepInside
       DEF WriteRollsBack, FiresRollback, calls, Steady, InGate

\* The write's way out changes a group at most.
LEMMA WriteLeavesInv ==
    ASSUME SharedInv, NEW w \in Writers,
           NEW stage \in {"written", "thrown", "saved", "threw"}, Goto(w, stage),
           at[w] \in {"run", "written", "thrown"}, Steady(conn, conn'),
           UNCHANGED <<gateVars, grp, issued>>,
           conn'.rows \subseteq conn.rows
    PROVE  SharedInv'
  <1>1. w \in Procs /\ gate[w] = "in" /\ stage \in Stages
    BY WriterIsACall DEF InGate, Stages
  <1>2. OwnersAgree' /\ BatchIsolated'
    BY <1>1, OwnersStay, IsolatedByRows DEF Steady, SharedInv
  <1>3. (issued \in [Procs -> 0 .. MaxRows])'
    BY DEF SharedInv
  <1> QED
    BY <1>1, <1>2, <1>3, StepInside DEF Steady

LEMMA AfterCommitGives ==
    ASSUME NEW c, ConnOK(c), NEW w \in Writers, OpenersStay
    PROVE  Steady(c, afterCommit(c, w)) /\ afterCommit(c, w).rows \subseteq c.rows
  <1> DEFINE d == noticeRollback(c)
  <1>1. Steady(c, d) /\ ConnOK(d) /\ d.rows \subseteq c.rows
    BY SteadyNotice, NoticeRows DEF Steady, NothingOpened
  <1>2. grp[w] # None => grp[w] \in Writers
    BY DEF OpenersStay
  <1>3. \/ afterCommit(c, w) = d
        \/ afterCommit(c, w) = [d EXCEPT !.ran = @ \cup {w}]
        \/ /\ grp[w] \in Writers
           /\ afterCommit(c, w) = [d EXCEPT !.effects[grp[w]] = @ \cup {w}]
    BY <1>2 DEF afterCommit
  <1> HIDE DEF d
  <1>4. CASE afterCommit(c, w) = d
    BY <1>1, <1>4
  <1>5. CASE afterCommit(c, w) = [d EXCEPT !.ran = @ \cup {w}]
    BY <1>1, <1>5 DEF Steady, NothingOpened, ConnOK, Connection
  <1>6. CASE /\ grp[w] \in Writers
             /\ afterCommit(c, w) = [d EXCEPT !.effects[grp[w]] = @ \cup {w}]
    <2> DEFINE e == afterCommit(c, w)
    <2>1. d \in Connection
      BY <1>1 DEF ConnOK
    <2>2. /\ e.tx = d.tx /\ e.rows = d.rows /\ e.owner = d.owner /\ e.held = d.held
          /\ e.open = d.open /\ e.state = d.state
      BY <1>6, <2>1 DEF Connection
    <2>3. d.effects[grp[w]] \cup {w} \subseteq Writers
      BY <1>6, <2>1 DEF Connection
    <2>4. e \in Connection
      BY <1>6, <2>1, <2>3 DEF Connection
    <2> HIDE DEF e
    <2>5. Steady(c, e) /\ e.rows \subseteq c.rows
      BY <1>1, <2>2, <2>4 DEF Steady, NothingOpened, ConnOK
    <2> QED
      BY <2>5 DEF e
  <1> QED
    BY <1>3, <1>4, <1>5, <1>6

LEMMA WayOutInv ==
    ASSUME SharedInv, NEW w \in Writers, Announce(w) \/ Throw(w) \/ AwaitCommit(w)
    PROVE  SharedInv'
  <1> USE WriteLeavesInv
  <1>1. CASE Announce(w)
    BY <1>1, AfterCommitGives DEF Announce, SharedInv
  <1>2. CASE Throw(w)
    <2>1. Steady(conn, conn') /\ conn'.rows \subseteq conn.rows
      BY <1>2 DEF Throw, Steady, NothingOpened, SharedInv
    <2> QED
      BY <1>2, <2>1 DEF Throw
  <1>3. CASE AwaitCommit(w)
    <2>1. Steady(conn, conn') /\ conn'.rows \subseteq conn.rows
      BY <1>3, SteadyNotice, NoticeRows DEF AwaitCommit, SharedInv
    <2>2. PICK stage \in {"saved", "threw"} : Goto(w, stage)
      BY <1>3 DEF AwaitCommit
    <2> QED
      BY <1>3, <2>1, <2>2 DEF AwaitCommit
  <1> QED
    BY <1>1, <1>2, <1>3

LEMMA AnswerWriteInv ==
    ASSUME SharedInv, NEW w \in Writers, AnswerWrite(w), GateInv'
    PROVE  SharedInv'
  <1>1. w \in Procs /\ w \in Callers /\ conn.owner # w
    BY WriterIsACall DEF AnswerWrite
  <1>2. PICK stage \in {"ok", "error", "lost"} : Goto(w, stage)
    BY DEF AnswerWrite
  <1>3. gate' = [gate EXCEPT ![w] = "out"]
    BY DEF AnswerWrite, ReleaseShared
  <1>4. StagesAgree'
    BY <1>1, <1>2, <1>3 DEF SharedInv, StagesAgree, Goto, Stages, InGate, GateInv, GateTypeOK
  <1>5. OpenersStay'
    BY <1>3 DEF AnswerWrite, GroupSettled, SharedInv, OpenersStay, GateInv, GateTypeOK, Callers
  <1>6. OwnersAgree' /\ BatchIsolated'
    BY <1>1, <1>2 DEF AnswerWrite, SharedInv, OwnersAgree, BatchIsolated, Goto, StagesAgree
  <1> QED
    BY <1>4, <1>5, <1>6 DEF AnswerWrite, SharedInv

-----------------------------------------------------------------------------
(* One step at a time: batches, transactions, writes outside the gate. *)

LEMMA FlushKeeps ==
    ASSUME SharedInv, NEW d \in flushGroupCommit(conn)
    PROVE  /\ Steady(conn, d)
           /\ conn.owner \in Batches => d = conn
  BY SteadyFlush DEF SharedInv, BatchIsolated

LEMMA EnterBatchInv ==
    ASSUME SharedInv, NEW b \in Batches, EnterBatch(b), GateInv'
    PROVE  SharedInv'
  <1>1. b \in Callers /\ b \in Procs /\ at[b] = "start" /\ conn.owner # b
    BY DEF EnterBatch, Callers, Procs, SharedInv, OwnersAgree
  <1>2. CASE ParkExclusive(b) /\ UNCHANGED <<conn, at>>
    BY <1>1, <1>2, ParkInv DEF EnterBatch, ParkExclusive, calls
  <1>3. CASE /\ AcquireExclusive(b)
             /\ conn' \in flushGroupCommit(conn)
             /\ Goto(b, "run")
    <2>1. /\ \A p \in Callers : gate[p] = "in" => gate'[p] = "in"
          /\ gate'[b] = "in"
      BY <1>1, <1>3, OthersStayInside DEF AcquireExclusive, Runs, SharedInv, GateInv
    <2>2. Steady(conn, conn') /\ (conn.owner \in Batches => conn' = conn)
      BY <1>3, FlushKeeps
    <2>3. StagesAgree'
      BY <1>1, <1>3, <2>1 DEF SharedInv, StagesAgree, Goto, Stages, InGate
    <2>4. OpenersStay'
      BY <2>1, <2>2, OpenersByGate DEF EnterBatch, SharedInv, Steady, Callers
    <2>5. OwnersAgree' /\ BatchIsolated'
      BY <1>1, <1>3, <2>2, OwnersStay, IsolatedByRows DEF Steady, SharedInv
    <2> QED
      BY <2>2, <2>3, <2>4, <2>5 DEF EnterBatch, SharedInv, Steady, NothingOpened
  <1> QED
    BY <1>2, <1>3 DEF EnterBatch

LEMMA BatchIsACall ==
    ASSUME SharedInv, NEW p \in Batches \cup Txs
    PROVE  /\ p \in Procs
           /\ at[p] \in {"hook", "tx"} => conn.owner = p
           /\ conn.owner = p => at[p] \in {"hook", "tx"}
           /\ p \in Callers => p \in Batches
           /\ p \in Callers /\ at[p] \in InGate => gate[p] = "in"
  BY ConnectionAssumption DEF SharedInv, StagesAgree, OwnersAgree, Procs, Callers

\* A transaction begins on a connection nobody owns.
LEMMA BeginInv ==
    ASSUME SharedInv, NEW p \in Batches \cup Txs, NEW c, Steady(conn, c),
           conn.owner = None, conn' = Own(c, p), Goto(p, "tx"),
           p \in Batches => c.open = None /\ c.rows = {},
           p \in Callers => gate[p] = "in",
           UNCHANGED <<gateVars, grp, issued>>
    PROVE  SharedInv'
  <1>1. p \in Procs /\ (p \in Callers => p \in Batches)
    BY BatchIsACall
  <1>2. ConnOK(c) /\ c.owner = None
    BY DEF Steady, NothingOpened
  <1>3. /\ ConnOK(conn') /\ conn'.owner = p /\ conn'.open = c.open
        /\ conn'.state = c.state /\ conn'.rows = c.rows
    BY <1>1, <1>2, OwnGives
  <1>4. OwnersAgree'
    BY <1>1, <1>3, OwnerEnters
  <1>5. BatchIsolated'
    BY <1>3 DEF BatchIsolated
  <1>6. StagesAgree'
    BY <1>1 DEF Goto, gateVars, SharedInv, StagesAgree, Stages, InGate
  <1>7. OpenersStay'
    BY <1>3 DEF gateVars, SharedInv, OpenersStay, Steady, NothingOpened
  <1>8. GateInv'
    BY DEF gateVars, SharedInv, GateInv, GateTypeOK, CountersAgree, Exclusion,
           NoLostWakeup, Inside, WaitingBatches
  <1> QED
    BY <1>3, <1>4, <1>5, <1>6, <1>7, <1>8 DEF SharedInv

LEMMA BatchBeginInv ==
    ASSUME SharedInv, NEW b \in Batches, BatchBegin(b)
    PROVE  SharedInv'
  <1>1. b \in Callers /\ gate[b] = "in" /\ conn.owner # b
    BY BatchIsACall DEF BatchBegin, InGate, Callers
  <1>2. conn.owner = None
    BY <1>1 DEF BatchBegin, foreignTx
  <1>3. conn.open = None /\ conn.rows = {}
    BY <1>1, <1>2, BatchInsideNoGroup DEF SharedInv, ConnOK, Connection
  <1>4. Steady(conn, conn)
    BY DEF SharedInv, Steady, NothingOpened
  <1> QED
    BY <1>1, <1>2, <1>3, <1>4, BeginInv DEF BatchBegin

LEMMA TxBeginInv ==
    ASSUME SharedInv, NEW t \in Txs, TxBegin(t)
    PROVE  SharedInv'
  <1>1. t \notin Callers /\ t \notin Batches /\ conn.owner # t
    BY BatchIsACall, ConnectionAssumption DEF TxBegin, Callers
  <1>2. PICK c \in flushGroupCommit(conn) : conn' = Own(c, t)
    BY DEF TxBegin
  <1>3. Steady(conn, c) /\ conn.owner = None
    BY <1>1, <1>2, FlushKeeps DEF TxBegin, foreignTx
  <1> QED
    BY <1>1, <1>2, <1>3, BeginInv DEF TxBegin

LEMMA TxStatementInv ==
    ASSUME SharedInv, NEW p \in Batches \cup Txs, TxStatement(p)
    PROVE  SharedInv'
  <1>1. p \in Procs /\ conn.owner = p /\ (p \in Callers => gate[p] = "in")
    BY BatchIsACall DEF TxStatement, InGate
  <1>2. PICK c \in flushGroupCommit(conn) \cup {conn} : Execute(p, c)
    BY DEF TxStatement, FoundBy
  <1>3. Steady(conn, c) /\ (conn.owner \in Batches => c = conn)
    <2>1. CASE c = conn
      BY <2>1 DEF SharedInv, Steady, NothingOpened
    <2> QED
      BY <1>2, <2>1, FlushKeeps
  <1>4. /\ Steady(conn, conn')
        /\ conn'.rows \subseteq c.rows \cup {NextRow(p)} /\ NextRow(p)[1] = p
        /\ (issued \in [Procs -> 0 .. MaxRows])'
    BY <1>1, <1>2, <1>3, ExecuteGives
  <1>5. Goto(p, "tx") /\ at[p] = "tx" /\ "tx" \in Stages
    BY <1>1 DEF TxStatement, Goto, SharedInv, StagesAgree, Stages, InGate
  <1>6. OwnersAgree' /\ BatchIsolated'
    BY <1>1, <1>3, <1>4, <1>5, OwnersStay, IsolatedByRows DEF Steady, SharedInv
  <1> QED
    BY <1>1, <1>4, <1>5, <1>6, StepInside DEF TxStatement, Steady

LEMMA TxRollsBackInv ==
    ASSUME SharedInv, NEW p \in Batches \cup Txs, TxRollsBack(p)
    PROVE  SharedInv'
  <1>1. p \in Procs /\ (p \in Callers => gate[p] = "in")
    BY BatchIsACall DEF TxRollsBack, InGate
  <1>2. PICK c \in flushGroupCommit(conn) \cup {conn} : FiresRollback(p, c)
    BY DEF TxRollsBack, FoundBy
  <1>3. Steady(conn, c)
    BY SteadyFlush DEF SharedInv, Steady, NothingOpened
  <1>4. Steady(conn, conn') /\ conn'.rows = {}
    <2>1. Steady(c, conn') /\ conn'.rows = {}
      BY <1>2, <1>3, SteadyRollback DEF FiresRollback, Steady, NothingOpened
    <2> QED
      BY <1>3, <2>1, SteadyTransitive
  <1>5. /\ Goto(p, at[p]) /\ at[p] \in Stages /\ at[p] = "tx"
        /\ (issued \in [Procs -> 0 .. MaxRows])'
    BY <1>1, <1>2 DEF TxRollsBack, FiresRollback, calls, Goto, SharedInv, StagesAgree
  <1>6. OwnersAgree' /\ BatchIsolated'
    BY <1>1, <1>4, <1>5, OwnersStay, IsolatedByRows DEF Steady, SharedInv
  <1> QED
    BY <1>1, <1>2, <1>4, <1>5, <1>6, StepInside DEF FiresRollback, calls, Steady, InGate

LEMMA TxEndInv ==
    ASSUME SharedInv, NEW p \in Batches \cup Txs, TxEnd(p)
    PROVE  SharedInv'
  <1>1. p \in Procs /\ conn.owner = p /\ (p \in Callers => gate[p] = "in")
    BY BatchIsACall DEF TxEnd, InGate
  <1>2. NothingOpened(conn, conn') /\ conn'.owner = None
    <2>1. CASE conn' \in OwnerCommitted(conn)
      BY <2>1, CommittedGives DEF SharedInv
    <2>2. CASE conn' \in OwnerUndone(conn)
      BY <2>2, UndoneGives DEF SharedInv
    <2> QED
      BY <2>1, <2>2 DEF TxEnd
  <1>3. PICK stage \in {"saved", "ok", "threw", "error"} : Goto(p, stage)
    BY DEF TxEnd
  <1>4. OwnersAgree' /\ BatchIsolated'
    BY <1>1, <1>2, <1>3, OwnerLeaves
  <1>5. (issued \in [Procs -> 0 .. MaxRows])' /\ stage \in Stages
    BY DEF SharedInv, TxEnd, Stages, InGate
  <1> QED
    BY <1>1, <1>2, <1>3, <1>4, <1>5, StepInside DEF TxEnd

LEMMA AnswerBatchInv ==
    ASSUME SharedInv, NEW b \in Batches, AnswerBatch(b), GateInv'
    PROVE  SharedInv'
  <1>1. b \in Procs /\ b \in Callers /\ conn.owner # b
    BY BatchIsACall DEF AnswerBatch, Callers
  <1>2. PICK stage \in {"ok", "error"} : Goto(b, stage)
    BY DEF AnswerBatch
  <1>3. gate' = [gate EXCEPT ![b] = "out"]
    BY DEF AnswerBatch, ReleaseExclusive
  <1>4. Steady(conn, conn') /\ conn'.rows = conn.rows
    BY DEF AnswerBatch, SharedInv, Steady, NothingOpened, ConnOK, Connection
  <1>5. StagesAgree'
    BY <1>1, <1>2, <1>3 DEF SharedInv, StagesAgree, Goto, Stages, InGate, GateInv, GateTypeOK
  <1>6. \A w \in Writers : gate'[w] = gate[w]
    BY <1>3, CallersAssumption DEF SharedInv, GateInv, GateTypeOK, Callers
  <1>7. OpenersStay'
    BY <1>4, <1>6, OpenersByGate DEF AnswerBatch, SharedInv, Steady
  <1>8. OwnersAgree' /\ BatchIsolated'
    BY <1>1, <1>2, <1>4, OwnersStay, IsolatedByRows DEF AnswerBatch, Steady, SharedInv
  <1> QED
    BY <1>4, <1>5, <1>7, <1>8 DEF AnswerBatch, SharedInv, Steady, NothingOpened

\* A single write of a call that owns nothing, in or out of a transaction.
LEMMA OutsideWriteInv ==
    ASSUME SharedInv, NEW p \in Stamps \cup Raws, at[p] = "start",
           NEW c \in flushGroupCommit(conn), Execute(p, c), Goto(p, "ok"),
           UNCHANGED <<gateVars, grp>>,
           conn.owner \in Batches => p \in Raws
    PROVE  SharedInv'
  <1>1. p \in Procs /\ "ok" \in Stages /\ "ok" \notin InGate
    BY DEF Procs, Stages, InGate
  <1>2. Steady(conn, c) /\ (conn.owner \in Batches => c = conn)
    BY FlushKeeps
  <1>3. /\ Steady(conn, conn')
        /\ conn'.rows \subseteq c.rows \cup {NextRow(p)} /\ NextRow(p)[1] = p
        /\ (issued \in [Procs -> 0 .. MaxRows])'
    BY <1>1, <1>2, ExecuteGives
  <1>4. OwnersAgree' /\ BatchIsolated'
    BY <1>1, <1>2, <1>3, OwnersStay, IsolatedByRows DEF Steady, SharedInv
  <1> QED
    BY <1>1, <1>3, <1>4, StepInside DEF Steady

LEMMA StampInv ==
    ASSUME SharedInv, NEW s \in Stamps, Stamp(s)
    PROVE  SharedInv'
  <1>1. conn.owner \notin Batches
    <2>1. s \notin Batches
      BY ConnectionAssumption DEF Callers
    <2> QED
      BY <2>1, NoneIsNobody DEF Stamp, foreignTx
  <1> QED
    BY <1>1, OutsideWriteInv DEF Stamp

LEMMA RawInv ==
    ASSUME SharedInv, NEW r \in Raws, Raw(r)
    PROVE  SharedInv'
  BY OutsideWriteInv DEF Raw

LEMMA EndOfTurnInv ==
    ASSUME SharedInv, EndOfTurn
    PROVE  SharedInv'
  <1> DEFINE c == [conn EXCEPT !.due = FALSE]
  <1>1. ConnOK(c) /\ Steady(conn, c) /\ c.rows = conn.rows /\ c.open = conn.open
    BY DEF SharedInv, Steady, NothingOpened, ConnOK, Connection
  <1>2. conn' \in flushGroupCommit(c)
    BY DEF EndOfTurn
  <1> HIDE DEF c
  <1>3. Steady(c, conn') /\ (c.open = None => conn' = c)
    BY <1>1, <1>2, SteadyFlush
  <1>4. Steady(conn, conn')
    BY <1>1, <1>3, SteadyTransitive
  <1>5. BatchIsolated'
    BY <1>1, <1>3, <1>4, IsolatedByRows DEF Steady, SharedInv, BatchIsolated
  <1>6. GateInv' /\ StagesAgree' /\ OwnersAgree' /\ (issued \in [Procs -> 0 .. MaxRows])'
    BY <1>4 DEF EndOfTurn, gateVars, calls, SharedInv, GateInv, GateTypeOK, CountersAgree,
      Exclusion, NoLostWakeup, Inside, WaitingBatches, StagesAgree, OwnersAgree, Steady
  <1>7. OpenersStay'
    BY <1>4, OpenersByGate DEF EndOfTurn, gateVars, calls, SharedInv, Steady
  <1> QED
    BY <1>4, <1>5, <1>6, <1>7 DEF SharedInv, Steady, NothingOpened

-----------------------------------------------------------------------------

LEMMA SharedStep ==
    ASSUME SharedInv, GateInv', [Next]_vars
    PROVE  SharedInv'
  <1>1. ASSUME NEW w \in Writers, EnterWrite(w) \/ WriteStep(w) PROVE SharedInv'
    BY <1>1, EnterWriteInv, WriteStatementInv, HookBeginInv, HookEndInv, WriteRollsBackInv,
       WayOutInv, AnswerWriteInv DEF WriteStep
  <1>2. ASSUME NEW b \in Batches, EnterBatch(b) \/ BatchStep(b) PROVE SharedInv'
    BY <1>2, EnterBatchInv, BatchBeginInv, AnswerBatchInv DEF BatchStep
  <1>3. ASSUME NEW t \in Txs, TxBegin(t) PROVE SharedInv'
    BY <1>3, TxBeginInv
  <1>4. ASSUME NEW p \in Batches \cup Txs, TxStep(p) PROVE SharedInv'
    BY <1>4, TxStatementInv, TxRollsBackInv, TxEndInv DEF TxStep
  <1>5. ASSUME NEW s \in Stamps, Stamp(s) PROVE SharedInv'
    BY <1>5, StampInv
  <1>6. ASSUME NEW r \in Raws, Raw(r) PROVE SharedInv'
    BY <1>6, RawInv
  <1>7. CASE EndOfTurn
    BY <1>7, EndOfTurnInv
  <1>8. CASE UNCHANGED vars
    BY <1>8 DEF vars, gateVars, calls, SharedInv, GateInv, StagesAgree, OpenersStay,
                OwnersAgree, BatchIsolated
  <1> QED
    BY <1>1, <1>2, <1>3, <1>4, <1>5, <1>6, <1>7, <1>8 DEF Next

\* While a batch's transaction is open on the connection no group is open, and
\* no record write, no driver write and no other transaction has put a row
\* into it, however many calls there are.
THEOREM BatchIsolation == Spec => []BatchIsolated
  <1>1. SharedInv => BatchIsolated
    BY DEF SharedInv
  <1> QED
    BY InitShared, ConnectionExclusion, SharedStep, <1>1, PTL DEF Spec


-----------------------------------------------------------------------------
(* What becomes of the rows.  The invariants are operators of a connection, *)
(* so that they can be followed through the operators that make up a step.  *)

\* A row a call has written is numbered by one of its statements.
WroteTypes == /\ wrote \in [Procs -> SUBSET Rows]
              /\ home \in [Rows -> {"nowhere", "auto", "own"} \cup Writers]
              /\ \A p \in Procs : \A r \in wrote[p] : r[1] = p /\ r[2] <= issued[p]

\* None of the rows of b is among S.
NoneOf(b, S) == \A r \in S : r[1] # b

\* The first rows of b are among S.
FirstRows(b, S) == \A n \in 1 .. issued[b] : <<b, n>> \in S

\* b's rows among S were written after a trigger had rolled back.
OnlyLate(b, S) == \A r \in S : r[1] = b => WrittenAfterRollback(r)

\* Its rows are all in its transaction, or a trigger has ended that.
InOneTransaction(b, c) ==
    \/ c.tx = "own" /\ FirstRows(b, c.rows) /\ NoneOf(b, c.disk)
    \/ c.tx = "none" /\ TriggerRollback /\ NoneOf(b, c.rows) /\ OnlyLate(b, c.disk)

\* Until a batch has committed, its rows are in its own transaction or nowhere,
\* but for those written after a trigger's rollback.
BatchRowOK(b, c) ==
    /\ at[b] \in {"start", "run"} => /\ issued[b] = 0
                                     /\ NoneOf(b, c.rows) /\ NoneOf(b, c.disk)
    /\ at[b] = "tx" => ~c.held /\ InOneTransaction(b, c)
    /\ at[b] \in {"threw", "error"} => NoneOf(b, c.rows) /\ OnlyLate(b, c.disk)
    /\ at[b] \in {"saved", "ok"} => FirstRows(b, c.disk)

BatchRowsOK(c) == \A b \in Batches : BatchRowOK(b, c)

\* Unless a trigger rolls everything back: a group is open exactly while its
\* transaction is, and what a savepoint may undo is its owner's or raw.
GroupOK(c) ==
    /\ c.open # None => c.tx = "group"
    /\ \A g \in Writers : c.state[g] = "open" => c.open = g
    /\ c.held => c.tx = "group" /\ c.owner # None
    /\ c.owner # None /\ ~c.held => c.tx = "own"
    /\ c.held => \A r \in c.inside : r \in c.mine \/ r[1] \in Raws
    /\ \A r \in c.mine : r[1] = c.owner

\* A group is opened once, by the write it is named after, and joined then.
GroupsBegun(c) ==
    \A w \in Writers : /\ at[w] = "start" => c.state[w] = "none" /\ grp[w] = None
                       /\ grp[w] \in Writers => c.state[grp[w]] # "none"

\* The row r of w is committed, or in the transaction w has open, or in the
\* open group, or its group has failed.
RowKept(c, w, r) ==
    \/ r \in c.disk
    \/ c.tx = "own" /\ c.owner = w /\ r \in c.rows /\ r \in c.mine
    \/ c.tx = "group" /\ home[r] = c.open /\ r \in c.rows
    \/ home[r] \in Writers /\ c.state[home[r]] \in {"failed", "undone"}

RowsKept(c) == \A w \in Writers : \A r \in wrote[w] : RowKept(c, w, r)

\* The write has run its last statement.
Past == {"written", "saved", "ok", "error", "lost"}

\* The group w waited for is committed, if it joined one.
GroupKept(c, w) == grp[w] = None \/ c.state[grp[w]] = "committed"

\* Effects wait for the group of their write, and have run after its commit.
EffectsOK(c) ==
    /\ \A g \in Writers : \A w \in c.effects[g] : grp[w] = g /\ at[w] \in Past
    /\ \A w \in c.ran \cap Writers : at[w] \in Past /\ GroupKept(c, w)
    /\ \A w \in Writers : at[w] = "ok" => GroupKept(c, w)

\* A batch's effects have run when it was answered ok.
BatchEffects(c) == \A b \in c.ran \cap Batches : at[b] = "ok"

WritesOK(c) == GroupOK(c) /\ GroupsBegun(c) /\ RowsKept(c) /\ EffectsOK(c)

BatchInv == WroteTypes /\ BatchRowsOK(conn) /\ BatchEffects(conn)

WritesInv == BatchInv /\ WritesOK(conn)


-----------------------------------------------------------------------------
(* What the operators do to the connection, field by field. *)

\* From c to d at most what is wanted and what is due has changed.
Alike(c, d) ==
    /\ d.tx = c.tx /\ d.rows = c.rows /\ d.disk = c.disk
    /\ d.owner = c.owner /\ d.held = c.held
    /\ d.inside = c.inside /\ d.mine = c.mine
    /\ d.open = c.open /\ d.state = c.state /\ d.effects = c.effects /\ d.ran = c.ran

\* The open group has ended, and its transaction with it.
GroupEnds(c, d, outcome) ==
    /\ d.tx = "none" /\ d.rows = {}
    /\ d.disk = IF outcome = "committed" THEN c.disk \cup c.rows ELSE c.disk
    /\ d.owner = c.owner /\ d.held = c.held /\ d.mine = c.mine
    /\ d.open = None
    /\ d.state = [c.state EXCEPT ![c.open] = outcome]
    /\ d.effects = [c.effects EXCEPT ![c.open] = {}]
    /\ d.ran = IF outcome = "committed" THEN c.ran \cup c.effects[c.open] ELSE c.ran

Outcomes == {"committed", "failed", "undone"}

LEMMA CommitFields ==
    ASSUME NEW c \in Connection
    PROVE  LET d == Commit(c)
           IN  /\ d \in Connection
               /\ d.tx = "none" /\ d.rows = {} /\ d.disk = c.disk \cup c.rows
               /\ d.owner = c.owner /\ d.held = c.held /\ d.mine = c.mine /\ d.inside = {}
               /\ d.open = c.open /\ d.state = c.state /\ d.effects = c.effects
               /\ d.ran = c.ran
  BY DEF Connection, Commit, Ended

LEMMA RollbackFields ==
    ASSUME NEW c \in Connection
    PROVE  LET d == Rollback(c)
           IN  /\ d \in Connection
               /\ d.tx = "none" /\ d.rows = {} /\ d.disk = c.disk
               /\ d.owner = c.owner /\ d.held = c.held /\ d.mine = c.mine /\ d.inside = {}
               /\ d.open = c.open /\ d.state = c.state /\ d.effects = c.effects
               /\ d.ran = c.ran
  BY DEF Connection, Rollback, Ended

LEMMA CloseFields ==
    ASSUME NEW c \in Connection, c.open # None, NEW outcome \in Outcomes
    PROVE  LET d == CloseGroup(c, outcome)
           IN  /\ d \in Connection
               /\ d.tx = c.tx /\ d.rows = c.rows /\ d.disk = c.disk
               /\ d.owner = c.owner /\ d.held = c.held /\ d.mine = c.mine
               /\ d.inside = c.inside
               /\ d.open = None
               /\ d.state = [c.state EXCEPT ![c.open] = outcome]
               /\ d.effects = [c.effects EXCEPT ![c.open] = {}]
               /\ d.ran = c.ran
  BY DEF Connection, CloseGroup, Outcomes

LEMMA FlushFields ==
    ASSUME NEW c, ConnOK(c), NEW d \in flushGroupCommit(c)
    PROVE  \/ Alike(c, d)
           \/ /\ c.open \in Writers /\ ~c.held
              /\ \E outcome \in Outcomes : GroupEnds(c, d, outcome)
  <1>1. c \in Connection /\ (c.tx = "none" => c.rows = {})
    BY DEF ConnOK
  <1>2. CASE c.open = None
    BY <1>2 DEF flushGroupCommit, Alike
  <1>3. CASE c.open # None /\ c.held
    <2>1. d = [c EXCEPT !.wanted = TRUE]
      BY <1>3 DEF flushGroupCommit
    <2> QED
      BY <1>1, <2>1 DEF Connection, Alike
  <1>4. CASE c.open # None /\ ~c.held
    <2>1. c.open \in Writers
      BY <1>1, <1>4 DEF Connection
    <2>2. CASE ~inTransaction(c)
      <3>1. d = CloseGroup(c, "undone")
        BY <1>4, <2>2 DEF flushGroupCommit, noticeRollback
      <3>2. GroupEnds(c, d, "undone")
        BY <1>1, <1>4, <2>2, <3>1, CloseFields DEF GroupEnds, inTransaction, Outcomes
      <3> QED
        BY <1>4, <2>1, <3>2 DEF Outcomes
    <2>3. CASE inTransaction(c) /\ d = CloseGroup(Rollback(c), "failed")
      <3>1. PICK e : e = Rollback(c)
        OBVIOUS
      <3>2. /\ e \in Connection /\ e.tx = "none" /\ e.rows = {} /\ e.disk = c.disk
            /\ e.owner = c.owner /\ e.held = c.held /\ e.mine = c.mine
            /\ e.open = c.open /\ e.state = c.state /\ e.effects = c.effects
            /\ e.ran = c.ran
        BY <1>1, <3>1, RollbackFields
      <3>3. d = CloseGroup(e, "failed") /\ e.open # None /\ "failed" \in Outcomes
        BY <1>4, <2>3, <3>1, <3>2 DEF Outcomes
      <3>4. /\ d.tx = e.tx /\ d.rows = e.rows /\ d.disk = e.disk
            /\ d.owner = e.owner /\ d.held = e.held /\ d.mine = e.mine
            /\ d.open = None /\ d.state = [e.state EXCEPT ![e.open] = "failed"]
            /\ d.effects = [e.effects EXCEPT ![e.open] = {}] /\ d.ran = e.ran
        BY <3>2, <3>3, CloseFields
      <3>5. GroupEnds(c, d, "failed")
        BY <3>2, <3>4 DEF GroupEnds
      <3> QED
        BY <1>4, <2>1, <3>3, <3>5
    <2>4. CASE /\ inTransaction(c)
               /\ d = [CloseGroup(Commit(c), "committed")
                         EXCEPT !.ran = @ \cup c.effects[c.open]]
      <3>1. PICK e, f : e = Commit(c) /\ f = CloseGroup(e, "committed")
        OBVIOUS
      <3>2. /\ e \in Connection /\ e.tx = "none" /\ e.rows = {}
            /\ e.disk = c.disk \cup c.rows
            /\ e.owner = c.owner /\ e.held = c.held /\ e.mine = c.mine
            /\ e.open = c.open /\ e.state = c.state /\ e.effects = c.effects
            /\ e.ran = c.ran
        BY <1>1, <3>1, CommitFields
      <3>a. e.open # None /\ "committed" \in Outcomes
        BY <1>4, <3>2 DEF Outcomes
      <3>b. /\ f \in Connection /\ f.tx = e.tx /\ f.rows = e.rows /\ f.disk = e.disk
            /\ f.owner = e.owner /\ f.held = e.held /\ f.mine = e.mine
            /\ f.open = None /\ f.state = [e.state EXCEPT ![e.open] = "committed"]
            /\ f.effects = [e.effects EXCEPT ![e.open] = {}] /\ f.ran = e.ran
        BY <3>1, <3>2, <3>a, CloseFields
      <3>3. /\ f \in Connection /\ f.tx = "none" /\ f.rows = {}
            /\ f.disk = c.disk \cup c.rows
            /\ f.owner = c.owner /\ f.held = c.held /\ f.mine = c.mine
            /\ f.open = None
            /\ f.state = [c.state EXCEPT ![c.open] = "committed"]
            /\ f.effects = [c.effects EXCEPT ![c.open] = {}]
            /\ f.ran = c.ran
        BY <3>2, <3>b
      <3>4. d = [f EXCEPT !.ran = @ \cup c.effects[c.open]]
        BY <2>4, <3>1
      <3>5. GroupEnds(c, d, "committed")
        BY <3>3, <3>4 DEF GroupEnds, Connection
      <3> QED
        BY <1>4, <2>1, <3>5 DEF Outcomes
    <2> QED
      BY <1>4, <2>2, <2>3, <2>4 DEF flushGroupCommit
  <1> QED
    BY <1>2, <1>3, <1>4

LEMMA PutFields ==
    ASSUME NEW c \in Connection, NEW r \in Rows
    PROVE  LET d == Put(c, r)
           IN  /\ d.tx = c.tx
               /\ d.rows = IF inTransaction(c) THEN c.rows \cup {r} ELSE c.rows
               /\ d.disk = IF inTransaction(c) THEN c.disk ELSE c.disk \cup {r}
               /\ d.owner = c.owner /\ d.held = c.held
               /\ d.mine = IF c.owner = r[1] THEN c.mine \cup {r} ELSE c.mine
               /\ d.inside \subseteq c.inside \cup {r}
               /\ d.open = c.open /\ d.state = c.state /\ d.effects = c.effects
               /\ d.ran = c.ran
  <1> DEFINE e == IF c.owner = r[1] THEN [c EXCEPT !.mine = @ \cup {r}] ELSE c
  <1>1. /\ e.tx = c.tx /\ e.rows = c.rows /\ e.disk = c.disk
        /\ e.owner = c.owner /\ e.held = c.held /\ e.inside = c.inside
        /\ e.mine = IF c.owner = r[1] THEN c.mine \cup {r} ELSE c.mine
        /\ e.open = c.open /\ e.state = c.state /\ e.effects = c.effects /\ e.ran = c.ran
        /\ e \in Connection
    BY DEF Connection
  <1>2. IF inTransaction(c)
        THEN Put(c, r) = [e EXCEPT !.rows = @ \cup {r},
                                   !.inside = IF c.savepoint THEN @ \cup {r} ELSE @]
        ELSE Put(c, r) = [e EXCEPT !.disk = @ \cup {r}]
    BY DEF Put
  <1> HIDE DEF e
  <1>3. CASE inTransaction(c)
    <2>1. PICK i : /\ Put(c, r) = [e EXCEPT !.rows = @ \cup {r}, !.inside = i]
                   /\ i \subseteq c.inside \cup {r}
      BY <1>1, <1>2, <1>3
    <2> QED
      BY <1>1, <1>3, <2>1 DEF Connection
  <1>4. CASE ~inTransaction(c)
    BY <1>1, <1>2, <1>4 DEF Connection
  <1> QED
    BY <1>3, <1>4


-----------------------------------------------------------------------------
(* Batches: what the operators do to rows that are not being written. *)

\* From c to d rows are committed or undone, and effects of writes run.
Drifts(c, d) == /\ d.rows \subseteq c.rows
                /\ c.disk \subseteq d.disk /\ d.disk \subseteq c.disk \cup c.rows
                /\ d.ran \subseteq c.ran \cup Writers

\* From c to d the transaction has not changed.
Still(c, d) == d.tx = c.tx /\ d.held = c.held /\ d.rows = c.rows /\ d.disk = c.disk

LEMMA DriftsTransitive ==
    ASSUME NEW c, NEW d, NEW e, Drifts(c, d), Drifts(d, e)
    PROVE  Drifts(c, e)
  BY DEF Drifts

LEMMA FlushDrifts ==
    ASSUME NEW c, ConnOK(c), NEW d \in flushGroupCommit(c)
    PROVE  Drifts(c, d) /\ (c.open = None => Still(c, d))
  <1>1. CASE Alike(c, d)
    BY <1>1 DEF Alike, Drifts, Still
  <1>2. ASSUME c.open \in Writers, NEW outcome \in Outcomes, GroupEnds(c, d, outcome)
        PROVE  Drifts(c, d) /\ (c.open = None => Still(c, d))
    <2>1. c.effects[c.open] \subseteq Writers
      BY <1>2 DEF ConnOK, Connection
    <2> QED
      BY <1>2, <2>1, NoneIsNobody DEF GroupEnds, Drifts
  <1> QED
    BY <1>1, <1>2, FlushFields

LEMMA NoticeDrifts ==
    ASSUME NEW c, ConnOK(c)
    PROVE  Drifts(c, noticeRollback(c)) /\ (c.open = None => noticeRollback(c) = c)
  <1>1. CASE c.open # None /\ ~inTransaction(c)
    <2>1. noticeRollback(c) = CloseGroup(c, "undone") /\ c \in Connection
      BY <1>1 DEF noticeRollback, ConnOK
    <2> QED
      BY <1>1, <2>1, CloseFields DEF Drifts, Outcomes
  <1>2. CASE ~(c.open # None /\ ~inTransaction(c))
    <2>1. noticeRollback(c) = c
      BY <1>2 DEF noticeRollback
    <2> QED
      BY <2>1 DEF Drifts
  <1> QED
    BY <1>1, <1>2

LEMMA AfterCommitDrifts ==
    ASSUME NEW c, ConnOK(c), NEW w \in Writers, OpenersStay
    PROVE  /\ Drifts(c, afterCommit(c, w))
           /\ c.open = None => Still(c, afterCommit(c, w))
  <1> DEFINE e == afterCommit(c, w)
  <1>1. PICK d : d = noticeRollback(c)
    OBVIOUS
  <1>2. d \in Connection /\ Drifts(c, d) /\ (c.open = None => d = c)
    BY <1>1, SteadyNotice, NoticeDrifts DEF Steady, NothingOpened, ConnOK
  <1>3. grp[w] # None => grp[w] \in Writers
    BY DEF OpenersStay
  <1>4. \/ e = d
        \/ e = [d EXCEPT !.ran = @ \cup {w}]
        \/ grp[w] \in Writers /\ e = [d EXCEPT !.effects[grp[w]] = @ \cup {w}]
    BY <1>1, <1>3 DEF afterCommit
  <1>5. /\ e.tx = d.tx /\ e.held = d.held /\ e.rows = d.rows /\ e.disk = d.disk
        /\ e.ran \subseteq d.ran \cup Writers
    BY <1>2, <1>4 DEF Connection
  <1> HIDE DEF e
  <1>6. Drifts(c, e) /\ (c.open = None => Still(c, e))
    BY <1>2, <1>5 DEF Drifts, Still
  <1> QED
    BY <1>6 DEF e

LEMMA JoinDrifts ==
    ASSUME NEW c, ConnOK(c), NEW w \in Writers
    PROVE  Drifts(c, joinGroupCommit(c, w)[1])
  <1>1. PICK d, e : d = noticeRollback(c) /\ e = joinGroupCommit(c, w)[1]
    OBVIOUS
  <1>2. d \in Connection /\ Drifts(c, d) /\ (c.open = None => d = c)
    BY <1>1, SteadyNotice, NoticeDrifts DEF Steady, NothingOpened, ConnOK
  <1>3. \/ e = d
        \/ /\ ~inTransaction(d) /\ d.open = None
           /\ e = [d EXCEPT !.tx = "group", !.open = w, !.state[w] = "open", !.due = TRUE]
    BY <1>1 DEF joinGroupCommit
  <1>4. e.rows = d.rows /\ e.disk = d.disk /\ e.ran = d.ran
    BY <1>2, <1>3 DEF Connection
  <1>5. Drifts(c, e)
    BY <1>2, <1>4 DEF Drifts
  <1> QED
    BY <1>1, <1>5

LEMMA ReleasedDrifts ==
    ASSUME NEW c, ConnOK(c), c.tx # "own", NEW d \in Released(c)
    PROVE  /\ Drifts(c, d)
           /\ ~c.held => d.rows = c.rows /\ d.disk = c.disk
  <1> DEFINE e == [c EXCEPT !.owner = None, !.held = FALSE, !.mine = {}]
             f == [e EXCEPT !.wanted = FALSE]
  <1>1. e.rows = c.rows /\ e.disk = c.disk /\ e.ran = c.ran
    BY DEF ConnOK, Connection
  <1>2. f.rows = c.rows /\ f.disk = c.disk /\ f.ran = c.ran /\ ConnOK(f)
    BY DEF ConnOK, Connection
  <1>3. d = e \/ (c.held /\ d \in flushGroupCommit(f))
    BY DEF Released
  <1>4. ASSUME d \in flushGroupCommit(f) PROVE Drifts(f, d)
    <2> HIDE DEF f
    <2> QED
      BY <1>2, <1>4, FlushDrifts
  <1> HIDE DEF e, f
  <1> QED
    BY <1>1, <1>2, <1>3, <1>4 DEF Drifts

LEMMA CommittedDrifts ==
    ASSUME NEW c, ConnOK(c), NEW d \in OwnerCommitted(c)
    PROVE  /\ Drifts(c, d)
           /\ ~c.held => d.disk = c.disk \cup c.rows
  <1>1. CASE c.held
    <2> DEFINE e == [c EXCEPT !.savepoint = FALSE, !.inside = {}]
    <2>1. ConnOK(e) /\ e.tx # "own" /\ e.rows = c.rows /\ e.disk = c.disk /\ e.ran = c.ran
      BY <1>1 DEF ConnOK, Connection
    <2>2. d \in Released(e)
      BY <1>1 DEF OwnerCommitted
    <2> HIDE DEF e
    <2>3. Drifts(e, d)
      BY <2>1, <2>2, ReleasedDrifts
    <2> QED
      BY <1>1, <2>1, <2>3 DEF Drifts
  <1>2. CASE ~c.held
    <2>1. PICK e : e = Commit(c)
      OBVIOUS
    <2>2. /\ ConnOK(e) /\ e.tx = "none" /\ e.rows = {} /\ e.disk = c.disk \cup c.rows
          /\ e.held = c.held /\ e.ran = c.ran
      BY <2>1, SteadyCommit, CommitFields DEF Steady, NothingOpened, ConnOK
    <2>3. d \in Released(e)
      BY <1>2, <2>1 DEF OwnerCommitted
    <2>4. Drifts(e, d) /\ d.rows = e.rows /\ d.disk = e.disk
      BY <1>2, <2>2, <2>3, ReleasedDrifts
    <2> QED
      BY <1>2, <2>2, <2>4 DEF Drifts
  <1> QED
    BY <1>1, <1>2

LEMMA UndoneDrifts ==
    ASSUME NEW c, ConnOK(c), NEW d \in OwnerUndone(c)
    PROVE  /\ Drifts(c, d)
           /\ ~c.held => d.rows = {} /\ d.disk = c.disk
  <1>1. CASE ~OwnerMayCommit(c)
    <2>1. c.tx # "own" /\ (~c.held => c.rows = {})
      BY <1>1 DEF OwnerMayCommit, inTransaction, ConnOK
    <2>2. d \in Released(c)
      BY <1>1 DEF OwnerUndone
    <2> QED
      BY <2>1, <2>2, ReleasedDrifts
  <1>2. CASE OwnerMayCommit(c) /\ c.held
    <2> DEFINE e == [c EXCEPT !.rows = @ \ c.inside, !.savepoint = FALSE, !.inside = {}]
    <2>1. /\ ConnOK(e) /\ e.tx # "own" /\ e.rows \subseteq c.rows /\ e.disk = c.disk
          /\ e.ran = c.ran
      BY <1>2 DEF ConnOK, Connection
    <2>2. d \in Released(e)
      BY <1>2 DEF OwnerUndone
    <2> HIDE DEF e
    <2>3. Drifts(e, d)
      BY <2>1, <2>2, ReleasedDrifts
    <2> QED
      BY <1>2, <2>1, <2>3 DEF Drifts
  <1>3. CASE OwnerMayCommit(c) /\ ~c.held
    <2>1. PICK e : e = Rollback(c)
      OBVIOUS
    <2>2. /\ ConnOK(e) /\ e.tx = "none" /\ e.rows = {} /\ e.disk = c.disk
          /\ e.held = c.held /\ e.ran = c.ran
      BY <2>1, SteadyRollback, RollbackFields DEF Steady, NothingOpened, ConnOK
    <2>3. d \in Released(e)
      BY <1>3, <2>1 DEF OwnerUndone
    <2>4. Drifts(e, d) /\ d.rows = e.rows /\ d.disk = e.disk
      BY <1>3, <2>2, <2>3, ReleasedDrifts
    <2> QED
      BY <1>3, <2>2, <2>4 DEF Drifts
  <1> QED
    BY <1>1, <1>2, <1>3


-----------------------------------------------------------------------------
(* Batches, step by step. *)

\* A batch goes from s to t without touching its rows.
SameRows(s, t) == \/ t = s
                  \/ s = "start" /\ t = "run"
                  \/ s = "saved" /\ t = "ok"
                  \/ s = "threw" /\ t = "error"

LEMMA RowsDrift ==
    ASSUME BatchRowsOK(conn), Drifts(conn, conn'),
           \A b \in Batches : at[b] = "tx" => Still(conn, conn'),
           \A b \in Batches : SameRows(at[b], at'[b]),
           UNCHANGED <<issued, home>>
    PROVE  BatchRowsOK(conn)'
  <1> SUFFICES ASSUME NEW b \in Batches PROVE BatchRowOK(b, conn)'
    BY DEF BatchRowsOK
  <1>1. SameRows(at[b], at'[b]) /\ BatchRowOK(b, conn)
    BY DEF BatchRowsOK
  <1>2. ASSUME NoneOf(b, conn.rows)
        PROVE  /\ NoneOf(b, conn'.rows)
               /\ NoneOf(b, conn.disk) => NoneOf(b, conn'.disk)
               /\ OnlyLate(b, conn.disk) => OnlyLate(b, conn.disk)'
    BY <1>2 DEF NoneOf, OnlyLate, WrittenAfterRollback, Drifts
  <1>3. FirstRows(b, conn.disk) => FirstRows(b, conn.disk)'
    BY DEF FirstRows, Drifts
  <1>4. CASE at[b] = "tx"
    <2>1. at'[b] = "tx" /\ Still(conn, conn') /\ ~conn.held /\ InOneTransaction(b, conn)
      BY <1>1, <1>4 DEF SameRows, BatchRowOK
    <2>2. InOneTransaction(b, conn)'
      BY <2>1 DEF InOneTransaction, Still, FirstRows, NoneOf, OnlyLate, WrittenAfterRollback
    <2> QED
      BY <2>1, <2>2 DEF BatchRowOK, Still
  <1>5. CASE at[b] # "tx"
    BY <1>1, <1>2, <1>3, <1>5 DEF SameRows, BatchRowOK, NoneOf
  <1> QED
    BY <1>4, <1>5

LEMMA RanDrift ==
    ASSUME BatchEffects(conn), Drifts(conn, conn'),
           \A b \in Batches : SameRows(at[b], at'[b])
    PROVE  BatchEffects(conn)'
  BY CallersAssumption DEF BatchEffects, Drifts, SameRows

LEMMA WroteShrinks ==
    ASSUME WroteTypes, UNCHANGED <<issued, home>>, wrote' \in [Procs -> SUBSET Rows],
           \A p \in Procs : wrote'[p] \subseteq wrote[p]
    PROVE  WroteTypes'
  BY DEF WroteTypes

\* A step that writes no row.
LEMMA BatchDrift ==
    ASSUME BatchInv, Drifts(conn, conn'),
           \A b \in Batches : at[b] = "tx" => Still(conn, conn'),
           \A b \in Batches : SameRows(at[b], at'[b]),
           UNCHANGED <<issued, home>>, wrote' \in [Procs -> SUBSET Rows],
           \A p \in Procs : wrote'[p] \subseteq wrote[p]
    PROVE  BatchInv'
  BY RowsDrift, RanDrift, WroteShrinks DEF BatchInv

\* A batch in its transaction owns the connection, and no group is open.
LEMMA TxAlone ==
    ASSUME SharedInv, BatchInv, NEW b \in Batches, at[b] = "tx"
    PROVE  conn.owner = b /\ conn.open = None /\ ~conn.held
  BY DEF SharedInv, OwnersAgree, BatchIsolated, Procs, BatchInv, BatchRowsOK, BatchRowOK

\* What a call that is not a batch does leaves the batches where they are.
LEMMA BatchesStay ==
    ASSUME SharedInv, NEW p \in Procs, p \notin Batches, NEW stage, Goto(p, stage)
    PROVE  \A b \in Batches : SameRows(at[b], at'[b])
  BY DEF Goto, SameRows, SharedInv, StagesAgree, Procs

\* A statement on a connection that has drifted at most.
LEMMA ExecuteRows ==
    ASSUME SharedInv, BatchInv, NEW p \in Procs, NEW c, ConnOK(c),
           Drifts(conn, c),
           \A b \in Batches : at[b] = "tx" => Still(conn, c),
           Execute(p, c),
           p \in Batches => at[p] = "tx",
           \A b \in Batches : at'[b] = at[b]
    PROVE  BatchInv'
  <1> DEFINE r == NextRow(p)
  <1>1. r \in Rows /\ r[1] = p /\ r[2] = issued[p] + 1
    BY RowPlace DEF SharedInv, Execute, NextRow
  <1>2. /\ conn' = Put(c, r) /\ issued[p] < MaxRows
        /\ issued' = [issued EXCEPT ![p] = @ + 1]
        /\ wrote' = [wrote EXCEPT ![p] = @ \cup {r}]
        /\ home' = [home EXCEPT ![r] = HomeOf(c)]
    BY DEF Execute
  <1>3. c \in Connection
    BY DEF ConnOK
  <1>4. /\ conn'.tx = c.tx /\ conn'.held = c.held /\ conn'.ran = c.ran
        /\ conn'.rows = IF inTransaction(c) THEN c.rows \cup {r} ELSE c.rows
        /\ conn'.disk = IF inTransaction(c) THEN c.disk ELSE c.disk \cup {r}
    <2> HIDE DEF r
    <2> QED
      BY <1>1, <1>2, <1>3, PutFields
  <1> HIDE DEF r
  <1>5. issued \in [Procs -> 0 .. MaxRows] /\ MaxRows \in Nat
    BY ConnectionAssumption DEF SharedInv
  <1>6. WroteTypes'
    <2>1. HomeOf(c) \in {"auto", "own"} \cup Writers
      BY <1>3 DEF HomeOf, ConnOK, Connection
    <2>2. home' \in [Rows -> {"nowhere", "auto", "own"} \cup Writers]
      BY <1>1, <1>2, <2>1 DEF BatchInv, WroteTypes
    <2>3. wrote' \in [Procs -> SUBSET Rows]
      BY <1>1, <1>2 DEF BatchInv, WroteTypes
    <2>4. ASSUME NEW q \in Procs, NEW s \in wrote'[q] PROVE s[1] = q /\ s[2] <= issued'[q]
      <3>1. CASE q = p
        <4>1. issued'[p] = issued[p] + 1 /\ issued[p] \in Nat
          BY <1>2, <1>5
        <4>2. s \in wrote[p] \/ s = r
          BY <1>2, <2>4, <3>1 DEF BatchInv, WroteTypes
        <4>3. CASE s = r
          BY <1>1, <3>1, <4>1, <4>3
        <4>4. CASE s \in wrote[p]
          <5>1. s[1] = p /\ s[2] <= issued[p] /\ s[2] \in Nat
            BY <1>5, <4>4 DEF BatchInv, WroteTypes, Rows
          <5> QED
            BY <3>1, <4>1, <5>1
        <4> QED
          BY <4>2, <4>3, <4>4
      <3>2. CASE q # p
        BY <1>2, <1>5, <2>4, <3>2 DEF BatchInv, WroteTypes
      <3> QED
        BY <3>1, <3>2
    <2> QED
      BY <2>2, <2>3, <2>4 DEF WroteTypes
  <1>7. BatchEffects(conn)'
    BY <1>4, CallersAssumption DEF BatchInv, BatchEffects, Drifts
  <1>8. BatchRowsOK(conn)'
    <2> SUFFICES ASSUME NEW b \in Batches PROVE BatchRowOK(b, conn)'
      BY DEF BatchRowsOK
    <2>1. at'[b] = at[b] /\ b \in Procs /\ BatchRowOK(b, conn)
      BY DEF Procs, BatchInv, BatchRowsOK
    <2>2. ASSUME at[b] = "tx"
          PROVE  ~c.held /\ InOneTransaction(b, c)
      BY <2>1, <2>2 DEF Still, BatchRowOK, InOneTransaction
    <2>3. CASE b = p
      <3>1. at[b] = "tx" /\ ~c.held /\ InOneTransaction(b, c)
        BY <2>1, <2>2, <2>3
      <3>2. issued'[b] = issued[b] + 1 /\ issued[b] \in Nat /\ r = <<b, issued[b] + 1>>
        BY <1>2, <1>5, <2>1, <2>3 DEF r, NextRow
      <3>3. CASE c.tx = "own"
        <4>1. conn'.rows = c.rows \cup {r} /\ conn'.disk = c.disk /\ conn'.tx = "own"
          BY <1>4, <3>3 DEF inTransaction
        <4>2. FirstRows(b, c.rows) /\ NoneOf(b, c.disk)
          BY <3>1, <3>3 DEF InOneTransaction
        <4>3. ASSUME NEW n \in 1 .. issued'[b] PROVE <<b, n>> \in conn'.rows
          <5>1. n \in 1 .. issued[b] \/ n = issued[b] + 1
            BY <3>2
          <5> QED
            BY <3>2, <4>1, <4>2, <5>1 DEF FirstRows
        <4>4. InOneTransaction(b, conn)'
          BY <4>1, <4>2, <4>3 DEF InOneTransaction, FirstRows, NoneOf
        <4> QED
          BY <1>4, <2>1, <3>1, <4>4 DEF BatchRowOK
      <3>4. CASE c.tx = "none"
        <4>1. conn'.rows = c.rows /\ conn'.disk = c.disk \cup {r} /\ conn'.tx = "none"
          BY <1>4, <3>4 DEF inTransaction
        <4>2. TriggerRollback /\ NoneOf(b, c.rows) /\ OnlyLate(b, c.disk)
          BY <3>1, <3>4 DEF InOneTransaction
        <4>3. home'[r] = "auto" /\ \A t \in Rows \ {r} : home'[t] = home[t]
          BY <1>1, <1>2, <3>4 DEF HomeOf, BatchInv, WroteTypes
        <4>4. c.disk \subseteq Rows
          BY <1>3 DEF Connection
        <4>5. InOneTransaction(b, conn)'
          BY <4>1, <4>2, <4>3, <4>4
             DEF InOneTransaction, NoneOf, OnlyLate, WrittenAfterRollback
        <4> QED
          BY <1>4, <2>1, <3>1, <4>5 DEF BatchRowOK
      <3> QED
        BY <3>1, <3>3, <3>4 DEF InOneTransaction
    <2>4. CASE b # p
      <3>1. issued'[b] = issued[b]
        BY <1>2, <1>5, <2>1, <2>4
      <3>2. ASSUME NEW t, t[1] = b, WrittenAfterRollback(t), t \in Rows
            PROVE  WrittenAfterRollback(t)'
        BY <1>1, <1>2, <2>4, <3>2 DEF WrittenAfterRollback, BatchInv, WroteTypes
      <3>3. conn.disk \subseteq Rows /\ conn.rows \subseteq Rows /\ c.disk \subseteq Rows
        BY <1>3 DEF SharedInv, ConnOK, Connection
      <3>4. CASE at[b] = "tx"
        <4>1. ~c.held /\ InOneTransaction(b, c)
          BY <2>2, <3>4
        <4>2. c.tx = "own" => InOneTransaction(b, conn)'
          BY <1>1, <1>4, <2>4, <3>1, <4>1 DEF inTransaction, InOneTransaction, FirstRows, NoneOf
        <4>3. c.tx = "none" => InOneTransaction(b, conn)'
          BY <1>1, <1>4, <2>4, <3>2, <3>3, <4>1
             DEF inTransaction, InOneTransaction, OnlyLate, NoneOf
        <4> QED
          BY <1>4, <2>1, <3>4, <4>1, <4>2, <4>3 DEF BatchRowOK, InOneTransaction
      <3>5. CASE at[b] # "tx"
        <4>1. ASSUME NoneOf(b, conn.rows)
              PROVE  /\ NoneOf(b, conn'.rows)
                     /\ NoneOf(b, conn.disk) => NoneOf(b, conn'.disk)
                     /\ OnlyLate(b, conn.disk) => OnlyLate(b, conn.disk)'
          <5>1. NoneOf(b, conn'.rows) /\ (NoneOf(b, conn.disk) => NoneOf(b, conn'.disk))
            BY <1>1, <1>4, <2>4, <4>1 DEF NoneOf, Drifts
          <5>2. ASSUME OnlyLate(b, conn.disk), NEW t \in conn'.disk, t[1] = b
                PROVE  WrittenAfterRollback(t)'
            <6>1. t \in conn.disk
              BY <1>1, <1>4, <2>4, <4>1, <5>2 DEF NoneOf, Drifts
            <6> QED
              BY <3>2, <3>3, <5>2, <6>1 DEF OnlyLate
          <5> QED
            BY <5>1, <5>2 DEF OnlyLate
        <4>2. FirstRows(b, conn.disk) => FirstRows(b, conn.disk)'
          BY <1>4, <3>1 DEF FirstRows, Drifts
        <4> QED
          BY <2>1, <3>1, <3>5, <4>1, <4>2 DEF BatchRowOK, NoneOf
      <3> QED
        BY <3>4, <3>5
    <2> QED
      BY <2>3, <2>4
  <1> QED
    BY <1>6, <1>7, <1>8 DEF BatchInv


\* The rows of a batch at "tx" are safe from a call that sees no other owner.
LEMMA NobodyAtTx ==
    ASSUME SharedInv, BatchInv, NEW p, ~foreignTx(p), p \notin Batches
    PROVE  \A b \in Batches : at[b] # "tx"
  BY TxAlone, NoneIsNobody DEF foreignTx

\* A write that passes the gate finds no batch inside.
LEMMA NoBatchBeside ==
    ASSUME SharedInv, NEW w \in Writers, AcquireShared(w)
    PROVE  \A b \in Batches : at[b] # "tx"
  <1>1. Inside(Batches) = {}
    BY DEF AcquireShared, ClosedToWrites, SharedInv, GateInv, CountersAgree
  <1> QED
    BY <1>1, BatchIsACall DEF Inside, InGate, Callers

LEMMA EnterWriteRows ==
    ASSUME SharedInv, BatchInv, NEW w \in Writers, EnterWrite(w)
    PROVE  BatchInv'
  <1>1. /\ UNCHANGED <<issued, home, wrote>>
        /\ wrote' \in [Procs -> SUBSET Rows]
        /\ \A p \in Procs : wrote'[p] \subseteq wrote[p]
    BY DEF EnterWrite, BatchInv, WroteTypes
  <1>2. CASE UNCHANGED <<conn, at>>
    BY <1>1, <1>2, BatchDrift DEF Drifts, Still, SameRows
  <1>3. ASSUME AcquireShared(w), NEW stage, Goto(w, stage),
               \/ conn' = joinGroupCommit(conn, w)[1]
               \/ conn' = noticeRollback(conn)
        PROVE  BatchInv'
    <2>1. \A b \in Batches : SameRows(at[b], at'[b])
      BY <1>3, WriterIsACall, BatchesStay
    <2>2. Drifts(conn, conn')
      <3>1. CASE conn' = joinGroupCommit(conn, w)[1]
        BY <3>1, JoinDrifts DEF SharedInv
      <3>2. CASE conn' = noticeRollback(conn)
        BY <3>2, NoticeDrifts DEF SharedInv
      <3> QED
        BY <1>3, <3>1, <3>2
    <2>3. \A b \in Batches : at[b] # "tx"
      BY <1>3, NoBatchBeside
    <2> QED
      BY <1>1, <2>1, <2>2, <2>3, BatchDrift
  <1> QED
    BY <1>2, <1>3 DEF EnterWrite

\* Steps of a record write that run no statement and end no transaction.
LEMMA QuietWriteRows ==
    ASSUME SharedInv, BatchInv, NEW w \in Writers,
           Announce(w) \/ Throw(w) \/ AwaitCommit(w) \/ AnswerWrite(w)
    PROVE  BatchInv'
  <1>1. /\ UNCHANGED <<issued, home, wrote>>
        /\ wrote' \in [Procs -> SUBSET Rows]
        /\ \A p \in Procs : wrote'[p] \subseteq wrote[p]
    BY DEF Announce, Throw, AwaitCommit, AnswerWrite, BatchInv, WroteTypes
  <1>2. PICK stage : Goto(w, stage)
    BY DEF Announce, Throw, AwaitCommit, AnswerWrite
  <1>3. \A b \in Batches : SameRows(at[b], at'[b])
    BY <1>2, WriterIsACall, BatchesStay
  <1>4. Drifts(conn, conn') /\ (conn.open = None => Still(conn, conn'))
    <2>1. CASE Announce(w)
      BY <2>1, AfterCommitDrifts DEF Announce, SharedInv
    <2>2. CASE AwaitCommit(w)
      BY <2>2, NoticeDrifts DEF AwaitCommit, SharedInv, Still
    <2>3. CASE Throw(w) \/ AnswerWrite(w)
      BY <2>3 DEF Throw, AnswerWrite, Drifts, Still
    <2> QED
      BY <2>1, <2>2, <2>3
  <1>5. \A b \in Batches : at[b] = "tx" => Still(conn, conn')
    BY <1>4, TxAlone
  <1> QED
    BY <1>1, <1>3, <1>4, <1>5, BatchDrift

\* A transaction that begins, or is rolled back by a trigger.
LEMMA HookRows ==
    ASSUME SharedInv, BatchInv, NEW w \in Writers, HookBegin(w) \/ WriteRollsBack(w)
    PROVE  BatchInv'
  <1>1. /\ UNCHANGED <<issued, home, wrote>>
        /\ wrote' \in [Procs -> SUBSET Rows]
        /\ \A p \in Procs : wrote'[p] \subseteq wrote[p]
    BY DEF HookBegin, WriteRollsBack, FiresRollback, calls, BatchInv, WroteTypes
  <1>2. ~foreignTx(w) /\ w \in Procs /\ w \notin Batches
    BY WriterIsACall DEF HookBegin, WriteRollsBack, FiresRollback
  <1>4. \A b \in Batches : SameRows(at[b], at'[b])
    BY <1>2, BatchesStay DEF HookBegin, WriteRollsBack, FiresRollback, calls, SameRows
  <1>5. Drifts(conn, conn')
    <2>1. CASE HookBegin(w)
      BY <2>1 DEF HookBegin, Own, SharedInv, ConnOK, Connection, Drifts
    <2>2. CASE WriteRollsBack(w)
      BY <2>2, RollbackFields DEF WriteRollsBack, FiresRollback, SharedInv, ConnOK, Drifts
    <2> QED
      BY <2>1, <2>2
  <1>6. \A b \in Batches : at[b] # "tx"
    BY <1>2, NobodyAtTx
  <1> QED
    BY <1>1, <1>4, <1>5, <1>6, BatchDrift

LEMMA HookEndRows ==
    ASSUME SharedInv, BatchInv, NEW w \in Writers, HookEnd(w)
    PROVE  BatchInv'
  <1>1. w \in Procs /\ w \notin Batches /\ conn.owner = w
    BY WriterIsACall DEF HookEnd
  <1>2. Goto(w, "run")
    BY DEF HookEnd
  <1>3. \A b \in Batches : SameRows(at[b], at'[b])
    BY <1>1, <1>2, BatchesStay
  <1>4. /\ UNCHANGED <<issued, home>>
        /\ wrote' \in [Procs -> SUBSET Rows]
        /\ \A p \in Procs : wrote'[p] \subseteq wrote[p]
    BY <1>1 DEF HookEnd, BatchInv, WroteTypes
  <1>5. Drifts(conn, conn')
    BY CommittedDrifts, UndoneDrifts DEF HookEnd, SharedInv
  <1>6. \A b \in Batches : at[b] # "tx"
    BY <1>1, TxAlone
  <1> QED
    BY <1>3, <1>4, <1>5, <1>6, BatchDrift

LEMMA WriteStepRows ==
    ASSUME SharedInv, BatchInv, NEW w \in Writers, WriteStep(w)
    PROVE  BatchInv'
  <1>1. CASE WriteStatement(w)
    <2>1. w \in Procs /\ w \notin Batches
      BY WriterIsACall
    <2>2. Drifts(conn, conn) /\ Still(conn, conn) /\ ConnOK(conn)
      BY DEF Drifts, Still, SharedInv
    <2> QED
      BY <1>1, <2>1, <2>2, ExecuteRows DEF WriteStatement
  <1> QED
    BY <1>1, QuietWriteRows, HookRows, HookEndRows DEF WriteStep

LEMMA EnterBatchRows ==
    ASSUME SharedInv, BatchInv, NEW b \in Batches, EnterBatch(b)
    PROVE  BatchInv'
  <1>1. /\ UNCHANGED <<issued, home, wrote>>
        /\ wrote' \in [Procs -> SUBSET Rows]
        /\ \A p \in Procs : wrote'[p] \subseteq wrote[p]
    BY DEF EnterBatch, BatchInv, WroteTypes
  <1>2. CASE UNCHANGED <<conn, at>>
    BY <1>1, <1>2, BatchDrift DEF Drifts, Still, SameRows
  <1>3. CASE conn' \in flushGroupCommit(conn) /\ Goto(b, "run")
    <2>1. \A a \in Batches : SameRows(at[a], at'[a])
      BY <1>3 DEF EnterBatch, Goto, SameRows, SharedInv, StagesAgree, Procs
    <2>2. Drifts(conn, conn') /\ (conn.open = None => Still(conn, conn'))
      BY <1>3, FlushDrifts DEF SharedInv
    <2>3. \A a \in Batches : at[a] = "tx" => Still(conn, conn')
      BY <2>2, TxAlone
    <2> QED
      BY <1>1, <2>1, <2>2, <2>3, BatchDrift
  <1> QED
    BY <1>2, <1>3 DEF EnterBatch

\* A batch's transaction begins on a connection nobody has open.
LEMMA BatchBeginRows ==
    ASSUME SharedInv, BatchInv, NEW b \in Batches, BatchBegin(b)
    PROVE  BatchInv'
  <1>1. b \in Callers /\ b \in Procs /\ gate[b] = "in" /\ conn.owner # b /\ at[b] = "run"
    BY BatchIsACall DEF BatchBegin, InGate, Callers
  <1>2. conn.owner = None /\ conn.open = None /\ conn.tx = "none" /\ conn \in Connection
    <2>1. conn.owner = None
      BY <1>1 DEF BatchBegin, foreignTx
    <2> QED
      BY <1>1, <2>1, BatchInsideNoGroup DEF SharedInv, ConnOK, Connection
  <1>3. conn' = [conn EXCEPT !.owner = b, !.held = FALSE, !.tx = "own", !.mine = {}]
    BY <1>2 DEF BatchBegin, Own, inTransaction
  <1>4. /\ conn'.tx = "own" /\ ~conn'.held
        /\ conn'.rows = conn.rows /\ conn'.disk = conn.disk /\ conn'.ran = conn.ran
    BY <1>2, <1>3 DEF Connection
  <1>5. /\ at'[b] = "tx" /\ \A a \in Batches \ {b} : at'[a] = at[a]
        /\ UNCHANGED <<issued, home, wrote>>
    BY <1>1 DEF BatchBegin, Goto, SharedInv, StagesAgree
  <1>6. \A a \in Batches : at[a] # "tx"
    BY <1>2, TxAlone, NoneIsNobody
  <1>7. WroteTypes'
    BY <1>5 DEF BatchInv, WroteTypes
  <1>8. BatchEffects(conn)'
    BY <1>1, <1>4, <1>5 DEF BatchInv, BatchEffects
  <1>9. BatchRowsOK(conn)'
    <2> SUFFICES ASSUME NEW a \in Batches PROVE BatchRowOK(a, conn)'
      BY DEF BatchRowsOK
    <2>1. BatchRowOK(a, conn)
      BY DEF BatchInv, BatchRowsOK
    <2>2. CASE a = b
      <3>1. issued'[b] = 0 /\ NoneOf(b, conn'.disk)
        BY <1>1, <1>4, <1>5, <2>1, <2>2 DEF BatchRowOK
      <3>2. FirstRows(b, conn.rows)'
        BY <3>1 DEF FirstRows
      <3> QED
        BY <1>4, <1>5, <2>2, <3>1, <3>2 DEF BatchRowOK, InOneTransaction, NoneOf
    <2>3. CASE a # b
      <3>1. at'[a] = at[a] /\ at[a] # "tx"
        BY <1>5, <1>6, <2>3
      <3> QED
        BY <1>4, <1>5, <2>1, <3>1
           DEF BatchRowOK, FirstRows, NoneOf, OnlyLate, WrittenAfterRollback
    <2> QED
      BY <2>2, <2>3
  <1> QED
    BY <1>7, <1>8, <1>9 DEF BatchInv

LEMMA AnswerBatchRows ==
    ASSUME SharedInv, BatchInv, NEW b \in Batches, AnswerBatch(b)
    PROVE  BatchInv'
  <1>1. /\ UNCHANGED <<issued, home, wrote>>
        /\ wrote' \in [Procs -> SUBSET Rows]
        /\ \A p \in Procs : wrote'[p] \subseteq wrote[p]
    BY DEF AnswerBatch, BatchInv, WroteTypes
  <1>2. /\ at[b] \in {"saved", "threw"}
        /\ at'[b] = IF at[b] = "saved" THEN "ok" ELSE "error"
        /\ \A a \in Batches \ {b} : at'[a] = at[a]
    BY DEF AnswerBatch, Goto, SharedInv, StagesAgree, Procs
  <1>3. \A a \in Batches : SameRows(at[a], at'[a])
    BY <1>2 DEF SameRows
  <1>4. /\ Still(conn, conn')
        /\ conn'.ran = IF at[b] = "saved" THEN conn.ran \cup {b} ELSE conn.ran
    BY DEF AnswerBatch, SharedInv, ConnOK, Connection, Still
  <1>5. BatchEffects(conn)'
    BY <1>2, <1>3, <1>4 DEF BatchInv, BatchEffects, SameRows
  <1>6. BatchRowsOK(conn)'
    <2> SUFFICES ASSUME NEW a \in Batches PROVE BatchRowOK(a, conn)'
      BY DEF BatchRowsOK
    <2>1. BatchRowOK(a, conn) /\ SameRows(at[a], at'[a])
      BY <1>3 DEF BatchInv, BatchRowsOK
    <2> QED
      BY <1>1, <1>4, <2>1
         DEF BatchRowOK, InOneTransaction, OnlyLate, WrittenAfterRollback, FirstRows,
             NoneOf, Still, SameRows
  <1> QED
    BY <1>1, <1>5, <1>6, WroteShrinks DEF BatchInv


LEMMA TxBeginRows ==
    ASSUME SharedInv, BatchInv, NEW t \in Txs, TxBegin(t)
    PROVE  BatchInv'
  <1>1. t \in Procs /\ t \notin Batches /\ conn.owner # t
    BY BatchIsACall, ConnectionAssumption DEF TxBegin, Callers
  <1>2. PICK c \in flushGroupCommit(conn) : conn' = Own(c, t)
    BY DEF TxBegin
  <1>3. Drifts(conn, c) /\ Steady(conn, c)
    BY FlushDrifts, SteadyFlush DEF SharedInv
  <1>4. Drifts(c, conn')
    BY <1>2, <1>3 DEF Own, Steady, NothingOpened, ConnOK, Connection, Drifts
  <1>5. Drifts(conn, conn')
    BY <1>3, <1>4, DriftsTransitive
  <1>6. \A b \in Batches : at[b] # "tx"
    BY <1>1, NobodyAtTx DEF TxBegin
  <1>7. \A b \in Batches : SameRows(at[b], at'[b])
    BY <1>1, BatchesStay DEF TxBegin
  <1>8. /\ UNCHANGED <<issued, home, wrote>>
        /\ wrote' \in [Procs -> SUBSET Rows]
        /\ \A p \in Procs : wrote'[p] \subseteq wrote[p]
    BY DEF TxBegin, BatchInv, WroteTypes
  <1> QED
    BY <1>5, <1>6, <1>7, <1>8, BatchDrift

LEMMA TxStatementRows ==
    ASSUME SharedInv, BatchInv, NEW p \in Batches \cup Txs, TxStatement(p)
    PROVE  BatchInv'
  <1>1. p \in Procs /\ conn.owner = p /\ at[p] = "tx" /\ UNCHANGED at
    BY BatchIsACall DEF TxStatement
  <1>2. PICK c \in flushGroupCommit(conn) \cup {conn} : Execute(p, c)
    BY DEF TxStatement, FoundBy
  <1>3. Drifts(conn, c) /\ Steady(conn, c) /\ (conn.open = None => Still(conn, c))
    <2>1. CASE c = conn
      BY <2>1 DEF Drifts, Still, Steady, NothingOpened, SharedInv
    <2>2. CASE c \in flushGroupCommit(conn)
      BY <2>2, FlushDrifts, SteadyFlush DEF SharedInv
    <2> QED
      BY <2>1, <2>2
  <1>4. \A b \in Batches : at[b] = "tx" => Still(conn, c)
    BY <1>3, TxAlone
  <1> QED
    BY <1>1, <1>2, <1>3, <1>4, ExecuteRows DEF Steady, NothingOpened

\* A trigger's rollback takes all that a batch has written.
LEMMA TxRollsBackRows ==
    ASSUME SharedInv, BatchInv, NEW p \in Batches \cup Txs, TxRollsBack(p)
    PROVE  BatchInv'
  <1>1. p \in Procs /\ conn.owner = p /\ at[p] = "tx"
    BY BatchIsACall DEF TxRollsBack
  <1>2. PICK c \in flushGroupCommit(conn) \cup {conn} : FiresRollback(p, c)
    BY DEF TxRollsBack, FoundBy
  <1>3. Drifts(conn, c) /\ Steady(conn, c) /\ (conn.open = None => Still(conn, c))
    <2>1. CASE c = conn
      BY <2>1 DEF Drifts, Still, Steady, NothingOpened, SharedInv
    <2>2. CASE c \in flushGroupCommit(conn)
      BY <2>2, FlushDrifts, SteadyFlush DEF SharedInv
    <2> QED
      BY <2>1, <2>2
  <1>4. /\ UNCHANGED <<at, issued, home, wrote>> /\ TriggerRollback
        /\ wrote' \in [Procs -> SUBSET Rows]
        /\ \A q \in Procs : wrote'[q] \subseteq wrote[q]
    BY <1>2 DEF FiresRollback, calls, BatchInv, WroteTypes
  <1>5. /\ conn'.tx = "none" /\ conn'.rows = {} /\ conn'.disk = c.disk
        /\ conn'.held = c.held /\ conn'.ran = c.ran
    BY <1>2, <1>3, RollbackFields DEF FiresRollback, Steady, NothingOpened, ConnOK
  <1>6. Drifts(conn, conn')
    BY <1>3, <1>5 DEF Drifts
  <1>7. BatchEffects(conn)'
    BY <1>4, <1>6, CallersAssumption DEF BatchInv, BatchEffects, Drifts
  <1>8. BatchRowsOK(conn)'
    <2> SUFFICES ASSUME NEW b \in Batches PROVE BatchRowOK(b, conn)'
      BY DEF BatchRowsOK
    <2>1. BatchRowOK(b, conn)
      BY DEF BatchInv, BatchRowsOK
    <2>2. CASE at[b] = "tx"
      <3>1. Still(conn, c) /\ ~conn.held /\ InOneTransaction(b, conn)
        BY <1>3, <2>1, <2>2, TxAlone DEF BatchRowOK
      <3>2. NoneOf(b, conn'.rows) /\ OnlyLate(b, conn.disk)'
        BY <1>4, <1>5, <3>1
           DEF InOneTransaction, Still, NoneOf, OnlyLate, WrittenAfterRollback
      <3> QED
        BY <1>4, <1>5, <2>2, <3>1, <3>2 DEF BatchRowOK, InOneTransaction, Still, NoneOf
    <2>3. CASE at[b] # "tx"
      <3>1. NoneOf(b, conn.rows)
              => /\ NoneOf(b, conn'.rows)
                 /\ NoneOf(b, conn.disk) => NoneOf(b, conn'.disk)
                 /\ OnlyLate(b, conn.disk) => OnlyLate(b, conn.disk)'
        BY <1>4, <1>6 DEF NoneOf, OnlyLate, WrittenAfterRollback, Drifts
      <3>2. FirstRows(b, conn.disk) => FirstRows(b, conn.disk)'
        BY <1>4, <1>6 DEF FirstRows, Drifts
      <3> QED
        BY <1>4, <2>1, <2>3, <3>1, <3>2 DEF BatchRowOK, NoneOf
    <2> QED
      BY <2>2, <2>3
  <1> QED
    BY <1>4, <1>7, <1>8, WroteShrinks DEF BatchInv

\* A batch's COMMIT makes all its rows last, its end without one none.
LEMMA TxEndRows ==
    ASSUME SharedInv, BatchInv, NEW p \in Batches \cup Txs, TxEnd(p)
    PROVE  BatchInv'
  <1>1. p \in Procs /\ conn.owner = p /\ at[p] = "tx"
    BY BatchIsACall DEF TxEnd
  <1>2. /\ UNCHANGED <<issued, home>>
        /\ wrote' \in [Procs -> SUBSET Rows]
        /\ \A q \in Procs : wrote'[q] \subseteq wrote[q]
    BY <1>1 DEF TxEnd, BatchInv, WroteTypes
  <1>3. Drifts(conn, conn')
    BY CommittedDrifts, UndoneDrifts DEF TxEnd, SharedInv
  <1>4. PICK stage : Goto(p, stage)
    BY DEF TxEnd
  <1>5. \A b \in Batches \ {p} : at[b] # "tx" /\ at'[b] = at[b]
    BY <1>1, <1>4, TxAlone DEF SharedInv, StagesAgree, Procs, Goto
  <1>6. ASSUME NEW b \in Batches, b # p PROVE BatchRowOK(b, conn)'
    <2>1. BatchRowOK(b, conn) /\ at'[b] = at[b] /\ at[b] # "tx"
      BY <1>5, <1>6 DEF BatchInv, BatchRowsOK
    <2>2. NoneOf(b, conn.rows)
            => /\ NoneOf(b, conn'.rows)
               /\ NoneOf(b, conn.disk) => NoneOf(b, conn'.disk)
               /\ OnlyLate(b, conn.disk) => OnlyLate(b, conn.disk)'
      BY <1>2, <1>3 DEF NoneOf, OnlyLate, WrittenAfterRollback, Drifts
    <2>3. FirstRows(b, conn.disk) => FirstRows(b, conn.disk)'
      BY <1>2, <1>3 DEF FirstRows, Drifts
    <2> QED
      BY <1>2, <2>1, <2>2, <2>3 DEF BatchRowOK, NoneOf
  <1>7. ASSUME p \in Batches PROVE BatchRowOK(p, conn)'
    <2>1. at \in [Procs -> Stages] /\ ~conn.held /\ InOneTransaction(p, conn)
      BY <1>1, <1>7 DEF SharedInv, StagesAgree, BatchInv, BatchRowsOK, BatchRowOK
    <2>2. CASE OwnerMayCommit(conn) /\ conn' \in OwnerCommitted(conn) /\ Goto(p, "saved")
      <3>1. FirstRows(p, conn.rows)
        BY <2>1, <2>2 DEF OwnerMayCommit, inTransaction, InOneTransaction
      <3>2. conn'.disk = conn.disk \cup conn.rows
        BY <2>1, <2>2, CommittedDrifts DEF SharedInv
      <3>3. at'[p] = "saved" /\ FirstRows(p, conn.disk)'
        BY <1>1, <1>2, <2>1, <2>2, <3>1, <3>2 DEF FirstRows, Goto
      <3> QED
        BY <3>3 DEF BatchRowOK
    <2>3. CASE conn' \in OwnerUndone(conn) /\ Goto(p, "threw")
      <3>1. conn'.rows = {} /\ conn'.disk = conn.disk
        BY <2>1, <2>3, UndoneDrifts DEF SharedInv
      <3>2. OnlyLate(p, conn.disk)
        BY <2>1 DEF InOneTransaction, NoneOf, OnlyLate
      <3>3. at'[p] = "threw" /\ NoneOf(p, conn'.rows) /\ OnlyLate(p, conn.disk)'
        BY <1>1, <1>2, <2>1, <2>3, <3>1, <3>2 DEF NoneOf, OnlyLate, WrittenAfterRollback, Goto
      <3> QED
        BY <3>3 DEF BatchRowOK, NoneOf
    <2> QED
      BY <1>7, <2>2, <2>3 DEF TxEnd
  <1>8. BatchEffects(conn)'
    <2>1. at[p] # "ok" /\ \A b \in Batches : b # p => at'[b] = at[b]
      BY <1>1, <1>5
    <2> QED
      BY <1>3, <2>1, CallersAssumption DEF BatchInv, BatchEffects, Drifts
  <1>9. BatchRowsOK(conn)'
    BY <1>6, <1>7 DEF BatchRowsOK
  <1> QED
    BY <1>2, <1>8, <1>9, WroteShrinks DEF BatchInv

\* A write outside the gate is not a batch's, and finds its transaction still.
LEMMA OutsideRows ==
    ASSUME SharedInv, BatchInv, NEW p \in Stamps \cup Raws, Stamp(p) \/ Raw(p)
    PROVE  BatchInv'
  <1>1. p \in Procs /\ p \notin Batches
    BY ConnectionAssumption DEF Procs, Callers
  <1>2. PICK c \in flushGroupCommit(conn) : Execute(p, c)
    BY DEF Stamp, Raw
  <1>3. Drifts(conn, c) /\ Steady(conn, c) /\ (conn.open = None => Still(conn, c))
    BY FlushDrifts, SteadyFlush DEF SharedInv
  <1>4. \A b \in Batches : at[b] = "tx" => Still(conn, c)
    BY <1>3, TxAlone
  <1>5. \A b \in Batches : at'[b] = at[b]
    BY <1>1 DEF Stamp, Raw, Goto, SharedInv, StagesAgree, Procs
  <1> QED
    BY <1>1, <1>2, <1>3, <1>4, <1>5, ExecuteRows DEF Steady, NothingOpened

LEMMA EndOfTurnRows ==
    ASSUME SharedInv, BatchInv, EndOfTurn
    PROVE  BatchInv'
  <1> DEFINE c == [conn EXCEPT !.due = FALSE]
  <1>1. ConnOK(c) /\ Drifts(conn, c) /\ Still(conn, c) /\ c.open = conn.open
    BY DEF SharedInv, ConnOK, Connection, Drifts, Still
  <1>2. conn' \in flushGroupCommit(c)
    BY DEF EndOfTurn
  <1> HIDE DEF c
  <1>3. Drifts(c, conn') /\ (c.open = None => Still(c, conn'))
    BY <1>1, <1>2, FlushDrifts
  <1>4. Drifts(conn, conn') /\ (conn.open = None => Still(conn, conn'))
    BY <1>1, <1>3, DriftsTransitive DEF Still
  <1>5. \A b \in Batches : at[b] = "tx" => Still(conn, conn')
    BY <1>4, TxAlone
  <1>6. /\ \A b \in Batches : SameRows(at[b], at'[b])
        /\ UNCHANGED <<issued, home, wrote>>
        /\ wrote' \in [Procs -> SUBSET Rows]
        /\ \A q \in Procs : wrote'[q] \subseteq wrote[q]
    BY DEF EndOfTurn, calls, SameRows, BatchInv, WroteTypes
  <1> QED
    BY <1>4, <1>5, <1>6, BatchDrift

LEMMA BatchStepRows ==
    ASSUME SharedInv, BatchInv, [Next]_vars
    PROVE  BatchInv'
  <1>1. ASSUME NEW w \in Writers, EnterWrite(w) \/ WriteStep(w) PROVE BatchInv'
    BY <1>1, EnterWriteRows, WriteStepRows
  <1>2. ASSUME NEW b \in Batches, EnterBatch(b) \/ BatchStep(b) PROVE BatchInv'
    BY <1>2, EnterBatchRows, BatchBeginRows, AnswerBatchRows DEF BatchStep
  <1>3. ASSUME NEW t \in Txs, TxBegin(t) PROVE BatchInv'
    BY <1>3, TxBeginRows
  <1>4. ASSUME NEW p \in Batches \cup Txs, TxStep(p) PROVE BatchInv'
    BY <1>4, TxStatementRows, TxRollsBackRows, TxEndRows DEF TxStep
  <1>5. ASSUME NEW s \in Stamps, Stamp(s) PROVE BatchInv'
    BY <1>5, OutsideRows
  <1>6. ASSUME NEW r \in Raws, Raw(r) PROVE BatchInv'
    BY <1>6, OutsideRows
  <1>7. CASE EndOfTurn
    BY <1>7, EndOfTurnRows
  <1>8. CASE UNCHANGED vars
    BY <1>8 DEF vars, calls, BatchInv, WroteTypes, BatchRowsOK, BatchRowOK, InOneTransaction,
                 OnlyLate, WrittenAfterRollback, BatchEffects, FirstRows, NoneOf
  <1> QED
    BY <1>1, <1>2, <1>3, <1>4, <1>5, <1>6, <1>7, <1>8 DEF Next

LEMMA InitBatches == Init => BatchInv
  <1> SUFFICES ASSUME Init PROVE BatchInv
    OBVIOUS
  <1>1. WroteTypes
    BY DEF Init, WroteTypes
  <1>2. BatchRowsOK(conn)
    BY DEF Init, BatchRowsOK, BatchRowOK, NoneOf, FirstRows, Procs
  <1>3. BatchEffects(conn)
    BY DEF Init, BatchEffects
  <1> QED
    BY <1>1, <1>2, <1>3 DEF BatchInv

LEMMA SharedInvariant == Spec => []SharedInv
  BY InitShared, ConnectionExclusion, SharedStep, PTL DEF Spec

LEMMA BatchInvariant == Spec => []BatchInv
  BY InitBatches, SharedInvariant, BatchStepRows, PTL DEF Spec

\* A batch that is answered ok has all its rows committed and one that is
\* answered with an error none, but for rows its code wrote after catching the
\* rollback of a trigger: for any calls, hooks, statements and triggers.
THEOREM BatchesAreAtomic == Spec => []BatchAtomic
  <1>1. BatchInv => BatchAtomic
    BY DEF BatchInv, BatchRowsOK, BatchRowOK, BatchAtomic, FirstRows, OnlyLate
  <1> QED
    BY <1>1, BatchInvariant, PTL


-----------------------------------------------------------------------------
(* Record writes, where no trigger rolls everything back.  First what the   *)
(* operators keep: the groups' part of the invariant, and a row's place.    *)

GroupsInv(c) == GroupOK(c) /\ GroupsBegun(c) /\ EffectsOK(c)

LEMMA AlikeKeeps ==
    ASSUME NEW c, NEW d, Alike(c, d), GroupsInv(c)
    PROVE  /\ GroupsInv(d)
           /\ \A w, r : RowKept(c, w, r) => RowKept(d, w, r)
  <1>1. GroupOK(d)
    BY DEF Alike, GroupsInv, GroupOK
  <1>2. GroupsBegun(d)
    BY DEF Alike, GroupsInv, GroupsBegun
  <1>3. EffectsOK(d)
    BY DEF Alike, GroupsInv, EffectsOK, GroupKept
  <1>4. \A w, r : RowKept(c, w, r) => RowKept(d, w, r)
    BY DEF Alike, RowKept
  <1> QED
    BY <1>1, <1>2, <1>3, <1>4 DEF GroupsInv

\* The open group ends: its rows are committed or it has failed, and the
\* effects that run are those of a group that is committed.
LEMMA GroupEndKeeps ==
    ASSUME NEW c, NEW d, ConnOK(c), GroupsInv(c), c.open \in Writers, ~c.held,
           NEW outcome \in Outcomes, GroupEnds(c, d, outcome),
           grp \in [Writers -> Writers \cup {None}]
    PROVE  /\ GroupsInv(d)
           /\ \A w \in Writers : \A r : RowKept(c, w, r) => RowKept(d, w, r)
  <1>1. /\ c.open # None /\ c.tx = "group" /\ c.owner = None
        /\ c.state \in [Writers -> {"none", "open", "committed", "failed", "undone"}]
        /\ c.effects \in [Writers -> SUBSET Writers]
    BY NoneIsNobody DEF GroupsInv, GroupOK, ConnOK, Connection
  <1>2. /\ d.state[c.open] = outcome
        /\ \A g \in Writers \ {c.open} : d.state[g] = c.state[g]
        /\ c.state[c.open] = "open"
        /\ \A g \in Writers : d.effects[g] \subseteq c.effects[g]
    BY <1>1 DEF GroupEnds, ConnOK
  <1>3. GroupOK(d)
    <2>1. \A g \in Writers : d.state[g] # "open"
      BY <1>2 DEF GroupsInv, GroupOK, Outcomes
    <2> QED
      BY <1>1, <2>1 DEF GroupEnds, GroupsInv, GroupOK
  <1>4. \A w \in Writers : GroupKept(c, w) => GroupKept(d, w)
    BY <1>2 DEF GroupKept
  <1>5. GroupsBegun(d)
    BY <1>2, NoneIsNobody DEF GroupsInv, GroupsBegun, Outcomes
  <1>6. EffectsOK(d)
    <2>1. \A g \in Writers : \A w \in d.effects[g] : grp[w] = g /\ at[w] \in Past
      BY <1>2 DEF GroupsInv, EffectsOK
    <2>2. ASSUME NEW w \in d.ran \cap Writers PROVE at[w] \in Past /\ GroupKept(d, w)
      <3>1. CASE w \in c.ran
        BY <1>4, <3>1 DEF GroupsInv, EffectsOK
      <3>2. CASE w \notin c.ran
        <4>1. outcome = "committed" /\ w \in c.effects[c.open]
          BY <2>2, <3>2 DEF GroupEnds
        <4>2. grp[w] = c.open /\ at[w] \in Past
          BY <4>1 DEF GroupsInv, EffectsOK
        <4> QED
          BY <1>2, <4>1, <4>2 DEF GroupKept
      <3> QED
        BY <3>1, <3>2
    <2>3. \A w \in Writers : at[w] = "ok" => GroupKept(d, w)
      BY <1>4 DEF GroupsInv, EffectsOK
    <2> QED
      BY <2>1, <2>2, <2>3 DEF EffectsOK
  <1>7. ASSUME NEW w \in Writers, NEW r, RowKept(c, w, r) PROVE RowKept(d, w, r)
    <2>1. CASE r \in c.disk
      BY <2>1 DEF GroupEnds, RowKept
    <2>2. CASE home[r] = c.open /\ r \in c.rows
      <3>1. CASE outcome = "committed"
        BY <2>2, <3>1 DEF GroupEnds, RowKept
      <3>2. CASE outcome \in {"failed", "undone"}
        BY <1>2, <2>2, <3>2 DEF RowKept
      <3> QED
        BY <3>1, <3>2 DEF Outcomes
    <2>3. CASE home[r] \in Writers /\ c.state[home[r]] \in {"failed", "undone"}
      BY <1>2, <2>3 DEF RowKept
    <2> QED
      BY <1>1, <1>7, <2>1, <2>2, <2>3 DEF RowKept
  <1> QED
    BY <1>3, <1>5, <1>6, <1>7 DEF GroupsInv

LEMMA FlushKeepsWrites ==
    ASSUME NEW c, ConnOK(c), GroupsInv(c), NEW d \in flushGroupCommit(c),
           grp \in [Writers -> Writers \cup {None}]
    PROVE  /\ GroupsInv(d)
           /\ \A w \in Writers : \A r : RowKept(c, w, r) => RowKept(d, w, r)
  <1>1. CASE Alike(c, d)
    BY <1>1, AlikeKeeps
  <1>2. ASSUME c.open \in Writers, ~c.held, NEW outcome \in Outcomes, GroupEnds(c, d, outcome)
        PROVE  /\ GroupsInv(d)
               /\ \A w \in Writers : \A r : RowKept(c, w, r) => RowKept(d, w, r)
    BY <1>2, GroupEndKeeps
  <1> QED
    BY <1>1, <1>2, FlushFields

\* No group loses its transaction unnoticed.
LEMMA NothingToNotice ==
    ASSUME NEW c, GroupOK(c)
    PROVE  noticeRollback(c) = c
  BY DEF GroupOK, noticeRollback, inTransaction

LEMMA OwnKeepsWrites ==
    ASSUME NEW c, ConnOK(c), GroupsInv(c), c.owner = None, NEW p \in Procs
    PROVE  /\ GroupsInv(Own(c, p))
           /\ \A w \in Writers : \A r : RowKept(c, w, r) => RowKept(Own(c, p), w, r)
  <1>1. PICK d : d = Own(c, p)
    OBVIOUS
  <1>2. c \in Connection /\ p # None /\ ~c.held /\ c.tx # "own"
    BY NoneIsNobody DEF ConnOK, GroupsInv, GroupOK
  <1>3. /\ d.owner = p /\ d.rows = c.rows /\ d.disk = c.disk /\ d.mine = {}
        /\ d.open = c.open /\ d.state = c.state /\ d.effects = c.effects /\ d.ran = c.ran
        /\ IF inTransaction(c) THEN d.held /\ d.tx = c.tx /\ d.inside = {}
                               ELSE ~d.held /\ d.tx = "own"
    BY <1>1, <1>2 DEF Own, Connection
  <1>4. c.tx \in {"none", "group", "own"}
    BY <1>2 DEF Connection
  <1>5. GroupOK(d)
    BY <1>2, <1>3, <1>4 DEF GroupsInv, GroupOK, inTransaction
  <1>6. GroupsBegun(d) /\ EffectsOK(d)
    BY <1>3 DEF GroupsInv, GroupsBegun, EffectsOK, GroupKept
  <1>7. \A w \in Writers : \A r : RowKept(c, w, r) => RowKept(d, w, r)
    BY <1>2, <1>3, <1>4 DEF RowKept, inTransaction
  <1> QED
    BY <1>1, <1>5, <1>6, <1>7 DEF GroupsInv

LEMMA ReleasedKeepsWrites ==
    ASSUME NEW c, ConnOK(c), GroupsInv(c), c.tx # "own", NEW d \in Released(c),
           grp \in [Writers -> Writers \cup {None}]
    PROVE  /\ GroupsInv(d)
           /\ \A w \in Writers : \A r : RowKept(c, w, r) => RowKept(d, w, r)
  <1>1. PICK e, f : /\ e = [c EXCEPT !.owner = None, !.held = FALSE, !.mine = {}]
                    /\ f = [e EXCEPT !.wanted = FALSE]
    OBVIOUS
  <1>2. d = e \/ d \in flushGroupCommit(f)
    BY <1>1 DEF Released
  <1>3. /\ e \in Connection /\ e.tx = c.tx /\ e.rows = c.rows /\ e.disk = c.disk
        /\ e.owner = None /\ ~e.held /\ e.mine = {}
        /\ e.open = c.open /\ e.state = c.state /\ e.effects = c.effects /\ e.ran = c.ran
    BY <1>1 DEF ConnOK, Connection
  <1>4. ConnOK(e) /\ GroupsInv(e)
    <2>1. ConnOK(e)
      BY <1>3 DEF ConnOK
    <2>2. GroupOK(e)
      BY <1>3 DEF GroupsInv, GroupOK
    <2>3. GroupsBegun(e) /\ EffectsOK(e)
      BY <1>3 DEF GroupsInv, GroupsBegun, EffectsOK, GroupKept
    <2> QED
      BY <2>1, <2>2, <2>3 DEF GroupsInv
  <1>5. \A w \in Writers : \A r : RowKept(c, w, r) => RowKept(e, w, r)
    BY <1>3 DEF RowKept
  <1>6. Alike(e, f) /\ ConnOK(f)
    <2>1. /\ f \in Connection /\ f.tx = e.tx /\ f.rows = e.rows /\ f.disk = e.disk
          /\ f.owner = e.owner /\ f.held = e.held /\ f.inside = e.inside /\ f.mine = e.mine
          /\ f.open = e.open /\ f.state = e.state /\ f.effects = e.effects /\ f.ran = e.ran
      BY <1>1, <1>3 DEF Connection
    <2>2. Alike(e, f)
      BY <2>1 DEF Alike
    <2>3. ConnOK(f)
      BY <1>4, <2>1 DEF ConnOK
    <2> QED
      BY <2>2, <2>3
  <1>7. GroupsInv(f) /\ \A w \in Writers : \A r : RowKept(e, w, r) => RowKept(f, w, r)
    <2>1. GroupsInv(f)
      BY <1>4, <1>6, AlikeKeeps
    <2>2. \A w \in Writers : \A r : RowKept(e, w, r) => RowKept(f, w, r)
      BY <1>6 DEF Alike, RowKept
    <2> QED
      BY <2>1, <2>2
  <1>8. CASE d = e
    BY <1>4, <1>5, <1>8
  <1>9. CASE d \in flushGroupCommit(f)
    <2>1. /\ GroupsInv(d)
          /\ \A w \in Writers : \A r : RowKept(f, w, r) => RowKept(d, w, r)
      BY <1>6, <1>7, <1>9, FlushKeepsWrites
    <2> QED
      BY <1>5, <1>7, <2>1
  <1> QED
    BY <1>2, <1>8, <1>9


LEMMA CommittedKeepsWrites ==
    ASSUME NEW c, ConnOK(c), GroupsInv(c), c.owner # None, NEW d \in OwnerCommitted(c),
           grp \in [Writers -> Writers \cup {None}]
    PROVE  /\ GroupsInv(d)
           /\ \A w \in Writers : \A r : RowKept(c, w, r) => RowKept(d, w, r)
  <1>1. CASE c.held
    <2>1. PICK e : e = [c EXCEPT !.savepoint = FALSE, !.inside = {}]
      OBVIOUS
    <2>2. /\ e \in Connection /\ e.tx = c.tx /\ e.rows = c.rows /\ e.disk = c.disk
          /\ e.owner = c.owner /\ e.held = c.held /\ e.mine = c.mine /\ e.inside = {}
          /\ e.open = c.open /\ e.state = c.state /\ e.effects = c.effects /\ e.ran = c.ran
      BY <2>1 DEF ConnOK, Connection
    <2>3. ConnOK(e) /\ e.tx # "own"
      BY <1>1, <2>2 DEF ConnOK, GroupsInv, GroupOK
    <2>4. GroupsInv(e)
      <3>1. GroupOK(e)
        BY <2>2 DEF GroupsInv, GroupOK
      <3>2. GroupsBegun(e) /\ EffectsOK(e)
        BY <2>2 DEF GroupsInv, GroupsBegun, EffectsOK, GroupKept
      <3> QED
        BY <3>1, <3>2 DEF GroupsInv
    <2>5. \A w \in Writers : \A r : RowKept(c, w, r) => RowKept(e, w, r)
      BY <2>2 DEF RowKept
    <2>6. d \in Released(e)
      BY <1>1, <2>1 DEF OwnerCommitted
    <2>7. /\ GroupsInv(d)
          /\ \A w \in Writers : \A r : RowKept(e, w, r) => RowKept(d, w, r)
      BY <2>3, <2>4, <2>6, ReleasedKeepsWrites
    <2> QED
      BY <2>5, <2>7
  <1>2. CASE ~c.held
    <2>1. PICK e : e = Commit(c)
      OBVIOUS
    <2>2. /\ e \in Connection /\ e.tx = "none" /\ e.rows = {} /\ e.disk = c.disk \cup c.rows
          /\ e.held = c.held /\ e.open = c.open /\ e.state = c.state
          /\ e.effects = c.effects /\ e.ran = c.ran
      BY <2>1, CommitFields DEF ConnOK
    <2>3. d = [e EXCEPT !.owner = None, !.held = FALSE, !.mine = {}]
      BY <1>2, <2>1, <2>2 DEF OwnerCommitted, Released
    <2>4. /\ d.tx = "none" /\ d.rows = {} /\ d.disk = c.disk \cup c.rows
          /\ d.owner = None /\ ~d.held /\ d.mine = {}
          /\ d.open = c.open /\ d.state = c.state /\ d.effects = c.effects /\ d.ran = c.ran
      BY <2>2, <2>3 DEF Connection
    <2>5. c.tx = "own" /\ c.open = None
      BY <1>2 DEF GroupsInv, GroupOK
    <2>6. GroupOK(d)
      BY <2>4, <2>5 DEF GroupsInv, GroupOK
    <2>7. GroupsBegun(d) /\ EffectsOK(d)
      BY <2>4 DEF GroupsInv, GroupsBegun, EffectsOK, GroupKept
    <2>8. \A w \in Writers : \A r : RowKept(c, w, r) => RowKept(d, w, r)
      BY <2>4, <2>5 DEF RowKept
    <2> QED
      BY <2>6, <2>7, <2>8 DEF GroupsInv
  <1> QED
    BY <1>1, <1>2

\* Undone, the transaction takes only rows its owner or the raw connection wrote.
LEMMA UndoneKeepsWrites ==
    ASSUME NEW c, ConnOK(c), GroupsInv(c), c.owner # None, NEW d \in OwnerUndone(c),
           grp \in [Writers -> Writers \cup {None}]
    PROVE  /\ GroupsInv(d)
           /\ \A w \in Writers : \A r :
                RowKept(c, w, r) /\ r[1] = w /\ r \notin c.mine => RowKept(d, w, r)
  <1>1. CASE ~OwnerMayCommit(c)
    <2>1. d \in Released(c) /\ c.tx # "own"
      BY <1>1 DEF OwnerUndone, OwnerMayCommit, inTransaction, GroupsInv, GroupOK
    <2> QED
      BY <2>1, ReleasedKeepsWrites
  <1>2. CASE OwnerMayCommit(c) /\ c.held
    <2>1. PICK e : e = [c EXCEPT !.rows = @ \ c.inside, !.savepoint = FALSE, !.inside = {}]
      OBVIOUS
    <2>2. /\ e \in Connection /\ e.tx = c.tx /\ e.rows = c.rows \ c.inside /\ e.disk = c.disk
          /\ e.owner = c.owner /\ e.held = c.held /\ e.mine = c.mine /\ e.inside = {}
          /\ e.open = c.open /\ e.state = c.state /\ e.effects = c.effects /\ e.ran = c.ran
      BY <2>1 DEF ConnOK, Connection
    <2>3. ConnOK(e) /\ e.tx # "own" /\ c.tx = "group"
      BY <1>2, <2>2 DEF ConnOK, GroupsInv, GroupOK
    <2>4. GroupsInv(e)
      <3>1. GroupOK(e)
        BY <2>2 DEF GroupsInv, GroupOK
      <3>2. GroupsBegun(e) /\ EffectsOK(e)
        BY <2>2 DEF GroupsInv, GroupsBegun, EffectsOK, GroupKept
      <3> QED
        BY <3>1, <3>2 DEF GroupsInv
    <2>5. ASSUME NEW w \in Writers, NEW r, RowKept(c, w, r), r[1] = w, r \notin c.mine
          PROVE  RowKept(e, w, r)
      <3>1. r \notin c.inside
        <4>1. r[1] \notin Raws
          BY <2>5, ConnectionAssumption DEF Callers
        <4> QED
          BY <1>2, <2>5, <4>1 DEF GroupsInv, GroupOK
      <3> QED
        BY <2>2, <2>3, <2>5, <3>1 DEF RowKept
    <2>6. d \in Released(e)
      BY <1>2, <2>1 DEF OwnerUndone
    <2>7. /\ GroupsInv(d)
          /\ \A w \in Writers : \A r : RowKept(e, w, r) => RowKept(d, w, r)
      BY <2>3, <2>4, <2>6, ReleasedKeepsWrites
    <2> QED
      BY <2>5, <2>7
  <1>3. CASE OwnerMayCommit(c) /\ ~c.held
    <2>1. PICK e : e = Rollback(c)
      OBVIOUS
    <2>2. /\ e \in Connection /\ e.tx = "none" /\ e.rows = {} /\ e.disk = c.disk
          /\ e.held = c.held /\ e.open = c.open /\ e.state = c.state
          /\ e.effects = c.effects /\ e.ran = c.ran
      BY <2>1, RollbackFields DEF ConnOK
    <2>3. d = [e EXCEPT !.owner = None, !.held = FALSE, !.mine = {}]
      BY <1>3, <2>1, <2>2 DEF OwnerUndone, Released
    <2>4. /\ d.tx = "none" /\ d.rows = {} /\ d.disk = c.disk
          /\ d.owner = None /\ ~d.held /\ d.mine = {}
          /\ d.open = c.open /\ d.state = c.state /\ d.effects = c.effects /\ d.ran = c.ran
      BY <2>2, <2>3 DEF Connection
    <2>5. c.tx = "own" /\ c.open = None
      BY <1>3 DEF GroupsInv, GroupOK
    <2>6. GroupOK(d)
      BY <2>4, <2>5 DEF GroupsInv, GroupOK
    <2>7. GroupsBegun(d) /\ EffectsOK(d)
      BY <2>4 DEF GroupsInv, GroupsBegun, EffectsOK, GroupKept
    <2>8. \A w \in Writers : \A r :
            RowKept(c, w, r) /\ r[1] = w /\ r \notin c.mine => RowKept(d, w, r)
      BY <2>4, <2>5 DEF RowKept
    <2> QED
      BY <2>6, <2>7, <2>8 DEF GroupsInv
  <1> QED
    BY <1>1, <1>2, <1>3

\* A statement of a call that sees no other owner, or on the raw connection.
LEMMA PutKeepsWrites ==
    ASSUME NEW c, ConnOK(c), GroupsInv(c), NEW r \in Rows,
           c.owner \in {None, r[1]} \/ r[1] \in Raws
    PROVE  GroupsInv(Put(c, r))
  <1>1. PICK d : d = Put(c, r)
    OBVIOUS
  <1>2. /\ d.tx = c.tx /\ d.owner = c.owner /\ d.held = c.held
        /\ d.mine = IF c.owner = r[1] THEN c.mine \cup {r} ELSE c.mine
        /\ d.inside \subseteq c.inside \cup {r}
        /\ d.open = c.open /\ d.state = c.state /\ d.effects = c.effects /\ d.ran = c.ran
    BY <1>1, PutFields DEF ConnOK
  <1>3. \A s \in d.mine : s[1] = d.owner
    BY <1>2 DEF GroupsInv, GroupOK
  <1>4. ASSUME d.held, NEW s \in d.inside PROVE s \in d.mine \/ s[1] \in Raws
    <2>1. c.owner # None
      BY <1>2, <1>4 DEF GroupsInv, GroupOK
    <2>2. CASE s = r
      BY <1>2, <2>1, <2>2
    <2>3. CASE s \in c.inside
      BY <1>2, <1>4, <2>3 DEF GroupsInv, GroupOK
    <2> QED
      BY <1>2, <1>4, <2>2, <2>3
  <1>5. GroupOK(d)
    BY <1>2, <1>3, <1>4 DEF GroupsInv, GroupOK
  <1>6. GroupsBegun(d) /\ EffectsOK(d)
    BY <1>2 DEF GroupsInv, GroupsBegun, EffectsOK, GroupKept
  <1> QED
    BY <1>1, <1>5, <1>6 DEF GroupsInv


-----------------------------------------------------------------------------
(* Record writes, step by step. *)

\* From stage s to stage t, answered ok only if the group w joined is committed.
GoesTo(w, s, t, c) == /\ s \in Past => t \in Past
                      /\ t = "start" => s = "start"
                      /\ t = "ok" => s = "ok" \/ GroupKept(c, w)

\* A step after which the connection keeps its groups keeps them for the calls.
LEMMA GroupsGoOn ==
    ASSUME SharedInv', GroupsInv(conn'), UNCHANGED grp,
           \A w \in Writers : GoesTo(w, at[w], at'[w], conn')
    PROVE  GroupsInv(conn)'
  <1>1. GroupOK(conn)'
    BY DEF GroupsInv, GroupOK
  <1>2. GroupsBegun(conn)'
    BY DEF GroupsInv, GroupsBegun, GoesTo
  <1>3. EffectsOK(conn)'
    <2>1. \A g \in Writers : \A w \in conn'.effects[g] : grp'[w] = g /\ at'[w] \in Past
      <3> SUFFICES ASSUME NEW g \in Writers, NEW w \in conn'.effects[g]
                   PROVE  grp'[w] = g /\ at'[w] \in Past
        OBVIOUS
      <3>1. w \in Writers
        BY DEF SharedInv, ConnOK, Connection
      <3> QED
        BY <3>1 DEF GroupsInv, EffectsOK, GoesTo
    <2>2. \A w \in conn'.ran \cap Writers : at'[w] \in Past /\ GroupKept(conn, w)'
      BY DEF GroupsInv, EffectsOK, GoesTo, GroupKept
    <2>3. \A w \in Writers : at'[w] = "ok" => GroupKept(conn, w)'
      BY DEF GroupsInv, EffectsOK, GoesTo, GroupKept
    <2> QED
      BY <2>1, <2>2, <2>3 DEF EffectsOK
  <1> QED
    BY <1>1, <1>2, <1>3 DEF GroupsInv

LEMMA RowsGoOn ==
    ASSUME UNCHANGED home,
           \A w \in Writers : \A r \in wrote'[w] : RowKept(conn', w, r)
    PROVE  RowsKept(conn)'
  BY DEF RowsKept, RowKept

\* A step that writes no row of a record write.
LEMMA WritesGoOn ==
    ASSUME SharedInv', BatchInv, WritesOK(conn), GroupsInv(conn'),
           UNCHANGED <<grp, home>>,
           \A w \in Writers : GoesTo(w, at[w], at'[w], conn'),
           \A w \in Writers : wrote'[w] \subseteq wrote[w],
           \A w \in Writers : \A r \in wrote'[w] :
               RowKept(conn, w, r) /\ r[1] = w => RowKept(conn', w, r)
    PROVE  WritesOK(conn)'
  <1>1. GroupsInv(conn)'
    BY GroupsGoOn
  <1>2. \A w \in Writers : \A r \in wrote'[w] : RowKept(conn', w, r)
    <2> SUFFICES ASSUME NEW w \in Writers, NEW r \in wrote'[w] PROVE RowKept(conn', w, r)
      OBVIOUS
    <2>1. r \in wrote[w] /\ w \in Procs
      BY DEF Procs
    <2>2. r[1] = w /\ RowKept(conn, w, r)
      BY <2>1 DEF BatchInv, WroteTypes, WritesOK, RowsKept
    <2> QED
      BY <2>2
  <1>3. RowsKept(conn)'
    BY <1>2, RowsGoOn
  <1> QED
    BY <1>1, <1>3 DEF WritesOK, GroupsInv

LEMMA GroupsOfWrites ==
    ASSUME WritesOK(conn)
    PROVE  GroupsInv(conn)
  BY DEF WritesOK, GroupsInv

\* What a call that is not a record write does leaves the writes where they are.
LEMMA WritesStay ==
    ASSUME SharedInv, NEW p \in Procs, p \notin Writers, NEW stage, Goto(p, stage), NEW c
    PROVE  \A w \in Writers : at'[w] = at[w] /\ GoesTo(w, at[w], at'[w], c)
  BY DEF Goto, GoesTo, SharedInv, StagesAgree, Procs

LEMMA WriteMoves ==
    ASSUME SharedInv, NEW w \in Writers, NEW stage, Goto(w, stage), NEW c,
           GoesTo(w, at[w], stage, c)
    PROVE  \A v \in Writers : GoesTo(v, at[v], at'[v], c)
  <1>1. at'[w] = stage /\ \A v \in Writers \ {w} : at'[v] = at[v]
    BY DEF Goto, SharedInv, StagesAgree, Procs
  <1> QED
    BY <1>1 DEF GoesTo


\* A statement of any call, on a connection that keeps the writes so far.
LEMMA ExecuteWrites ==
    ASSUME SharedInv, SharedInv', BatchInv, WritesOK(conn), NEW p \in Procs,
           NEW c, ConnOK(c), GroupsInv(c),
           \A w \in Writers : \A r : RowKept(conn, w, r) => RowKept(c, w, r),
           Execute(p, c), p \in Raws \/ c.owner \in {None, p},
           UNCHANGED grp, \A w \in Writers : at'[w] = at[w]
    PROVE  WritesOK(conn)'
  <1>1. PICK n : n = NextRow(p)
    OBVIOUS
  <1>2. n \in Rows /\ n[1] = p /\ n[2] = issued[p] + 1
    BY <1>1, RowPlace DEF SharedInv, Execute, NextRow
  <1>3. /\ conn' = Put(c, n) /\ issued[p] \in Nat
        /\ wrote' = [wrote EXCEPT ![p] = @ \cup {n}]
        /\ home' = [home EXCEPT ![n] = HomeOf(c)]
    BY <1>1, ConnectionAssumption DEF Execute, SharedInv
  <1>4. GroupsInv(conn)'
    <2>1. GroupsInv(conn')
      BY <1>2, <1>3, PutKeepsWrites
    <2>2. \A w \in Writers : GoesTo(w, at[w], at'[w], conn')
      BY DEF GoesTo
    <2> QED
      BY <2>1, <2>2, GroupsGoOn
  <1>5. /\ conn'.tx = c.tx /\ conn'.owner = c.owner /\ conn'.open = c.open
        /\ conn'.state = c.state
        /\ conn'.rows = IF inTransaction(c) THEN c.rows \cup {n} ELSE c.rows
        /\ conn'.disk = IF inTransaction(c) THEN c.disk ELSE c.disk \cup {n}
        /\ conn'.mine = IF c.owner = p THEN c.mine \cup {n} ELSE c.mine
    BY <1>2, <1>3, PutFields DEF ConnOK
  <1>6. ASSUME NEW w \in Writers, NEW r \in wrote[w] PROVE RowKept(conn, w, r)'
    <2>1. w \in Procs /\ r \in Rows /\ r[1] = w /\ r[2] <= issued[w]
      BY DEF BatchInv, WroteTypes, Procs
    <2>2. r # n
      BY <1>2, <1>3, <2>1 DEF Rows
    <2>3. home'[r] = home[r]
      BY <1>3, <2>1, <2>2 DEF BatchInv, WroteTypes
    <2>4. RowKept(c, w, r)
      BY DEF WritesOK, RowsKept
    <2> QED
      BY <1>5, <2>3, <2>4 DEF RowKept
  <1>7. ASSUME p \in Writers PROVE RowKept(conn, p, n)'
    <2>1. p \notin Raws
      BY <1>7, ConnectionAssumption DEF Callers
    <2>2. home'[n] = HomeOf(c)
      BY <1>2, <1>3 DEF BatchInv, WroteTypes
    <2>3. CASE c.tx = "none"
      BY <1>5, <2>3 DEF inTransaction, RowKept
    <2>4. CASE c.tx = "own"
      <3>1. c.owner = p
        BY <2>1, <2>4 DEF ConnOK
      <3> QED
        BY <1>5, <2>4, <3>1 DEF inTransaction, RowKept
    <2>5. CASE c.tx = "group"
      BY <1>5, <2>2, <2>5 DEF inTransaction, HomeOf, RowKept
    <2> QED
      BY <2>3, <2>4, <2>5 DEF ConnOK, Connection
  <1>8. RowsKept(conn)'
    <2> SUFFICES ASSUME NEW w \in Writers, NEW r \in wrote'[w] PROVE RowKept(conn, w, r)'
      BY DEF RowsKept
    <2>1. r \in wrote[w] \/ (w = p /\ r = n)
      BY <1>3 DEF BatchInv, WroteTypes, Procs
    <2> QED
      BY <1>6, <1>7, <2>1
  <1> QED
    BY <1>4, <1>8 DEF WritesOK, GroupsInv

\* The test and the join of EnterWrite.
LEMMA EnterWriteWrites ==
    ASSUME SharedInv, SharedInv', BatchInv, WritesOK(conn), NEW w \in Writers, EnterWrite(w)
    PROVE  WritesOK(conn)'
  <1>1. /\ at[w] = "start" /\ UNCHANGED <<wrote, home>> /\ noticeRollback(conn) = conn
        /\ GroupsInv(conn)
    BY NothingToNotice, GroupsOfWrites DEF EnterWrite, WritesOK
  <1>2. CASE UNCHANGED <<conn, at, grp>>
    BY <1>1, <1>2 DEF WritesOK, GroupOK, GroupsBegun, RowsKept, RowKept, EffectsOK, GroupKept
  <1>3. CASE conn' = conn /\ Goto(w, "threw") /\ UNCHANGED grp
    <2>1. \A v \in Writers : GoesTo(v, at[v], at'[v], conn')
      BY <1>1, <1>3, WriteMoves DEF GoesTo, Past
    <2> QED
      BY <1>1, <1>3, <2>1, WritesGoOn
  <1>4. ASSUME NEW g \in Writers \cup {None}, conn' = joinGroupCommit(conn, w)[1],
               g = joinGroupCommit(conn, w)[2],
               grp' = [grp EXCEPT ![w] = g], Goto(w, "run")
        PROVE  WritesOK(conn)'
    <2>1. /\ at'[w] = "run" /\ grp'[w] = g
          /\ \A v \in Writers \ {w} : at'[v] = at[v] /\ grp'[v] = grp[v]
      BY <1>4 DEF Goto, SharedInv, StagesAgree, OpenersStay, Procs
    <2>2. conn \in Connection /\ conn.state[w] = "none" /\ grp[w] = None
      BY <1>1 DEF SharedInv, ConnOK, WritesOK, GroupsBegun
    <2>3. \/ conn' = conn /\ g = conn.open
          \/ conn' = conn /\ g = None
          \/ /\ g = w /\ conn.open = None /\ ~inTransaction(conn)
             /\ conn' = [conn EXCEPT !.tx = "group", !.open = w, !.state[w] = "open",
                                     !.due = TRUE]
      BY <1>1, <1>4 DEF joinGroupCommit
    <2>4. ASSUME NEW v \in Writers,
                 v \in conn.ran \/ at[v] = "ok" \/ \E h \in Writers : v \in conn.effects[h]
          PROVE  v # w
      BY <1>1, <2>4 DEF WritesOK, EffectsOK, Past
    <2>5. CASE conn' = conn /\ g \in {conn.open, None}
      <3>1. g \in Writers => conn.state[g] = "open"
        BY <2>5, <2>2, NoneIsNobody DEF SharedInv, ConnOK
      <3>2. GroupsBegun(conn)'
        BY <2>1, <2>5, <3>1 DEF WritesOK, GroupsBegun
      <3>3. EffectsOK(conn)'
        BY <2>1, <2>2, <2>4, <2>5 DEF WritesOK, EffectsOK, GroupKept, Connection
      <3> QED
        BY <1>1, <2>5, <3>2, <3>3 DEF WritesOK, GroupOK, RowsKept, RowKept
    <2>6. CASE /\ g = w /\ conn.open = None /\ ~inTransaction(conn)
               /\ conn' = [conn EXCEPT !.tx = "group", !.open = w, !.state[w] = "open",
                                       !.due = TRUE]
      <3>1. /\ conn'.tx = "group" /\ conn'.open = w
            /\ conn'.state = [conn.state EXCEPT ![w] = "open"]
            /\ conn'.rows = conn.rows /\ conn'.disk = conn.disk
            /\ conn'.owner = conn.owner /\ conn'.held = conn.held
            /\ conn'.inside = conn.inside /\ conn'.mine = conn.mine
            /\ conn'.effects = conn.effects /\ conn'.ran = conn.ran
        BY <2>2, <2>6 DEF Connection
      <3>2. /\ conn'.state[w] = "open"
            /\ \A v \in Writers \ {w} : conn'.state[v] = conn.state[v]
        BY <2>2, <3>1 DEF Connection
      <3>3. conn.tx = "none" /\ conn.owner = None /\ ~conn.held
        BY <2>6 DEF WritesOK, GroupOK, inTransaction
      <3>4. GroupOK(conn)'
        <4>1. \A v \in Writers : conn'.state[v] = "open" => conn'.open = v
          BY <2>6, <3>1, <3>2, NoneIsNobody DEF WritesOK, GroupOK
        <4> QED
          BY <3>1, <3>3, <4>1 DEF WritesOK, GroupOK
      <3>5. GroupsBegun(conn)'
        BY <2>1, <2>6, <3>2 DEF WritesOK, GroupsBegun
      <3>6. \A v \in Writers \ {w} : GroupKept(conn, v) => GroupKept(conn, v)'
        BY <2>1, <2>2, <3>2 DEF GroupKept, SharedInv, OpenersStay
      <3>7. EffectsOK(conn)'
        BY <2>1, <2>2, <2>4, <3>1, <3>6 DEF WritesOK, EffectsOK, Connection
      <3>8. RowsKept(conn)'
        BY <1>1, <2>2, <3>1, <3>2, <3>3 DEF WritesOK, RowsKept, RowKept
      <3> QED
        BY <3>4, <3>5, <3>7, <3>8 DEF WritesOK
    <2> QED
      BY <2>3, <2>5, <2>6
  <1>5. joinGroupCommit(conn, w)[2] \in Writers \cup {None}
    BY <1>1 DEF joinGroupCommit, SharedInv, ConnOK, Connection
  <1> QED
    BY <1>1, <1>2, <1>3, <1>4, <1>5 DEF EnterWrite


\* Steps of a record write on its way out.
LEMMA QuietWrites ==
    ASSUME SharedInv, SharedInv', BatchInv, WritesOK(conn), NEW w \in Writers,
           Throw(w) \/ AwaitCommit(w) \/ AnswerWrite(w)
    PROVE  WritesOK(conn)'
  <1>1. /\ conn' = conn /\ UNCHANGED <<grp, home, wrote>> /\ GroupsInv(conn)
    BY NothingToNotice, GroupsOfWrites DEF Throw, AwaitCommit, AnswerWrite, WritesOK
  <1>2. PICK stage : Goto(w, stage) /\ GoesTo(w, at[w], stage, conn')
    <2>1. CASE Throw(w)
      BY <2>1 DEF Throw, GoesTo, Past
    <2>2. CASE AwaitCommit(w)
      BY <2>2 DEF AwaitCommit, GoesTo, Past
    <2>3. CASE AnswerWrite(w)
      <3>1. /\ grp[w] \in Writers \cup {None}
            /\ conn.state \in [Writers -> {"none", "open", "committed", "failed", "undone"}]
        BY DEF SharedInv, OpenersStay, ConnOK, Connection
      <3>2. grp[w] \in Writers => conn.state[grp[w]] \notin {"none", "open"}
        BY <2>3 DEF AnswerWrite, GroupSettled, WritesOK, GroupsBegun
      <3>3. ~GroupEnded(w, "failed") /\ ~GroupEnded(w, "undone") => GroupKept(conn, w)
        BY <3>1, <3>2 DEF GroupEnded, GroupKept
      <3> QED
        BY <1>1, <2>3, <3>3 DEF AnswerWrite, GoesTo, Past
    <2> QED
      BY <2>1, <2>2, <2>3
  <1>3. \A v \in Writers : GoesTo(v, at[v], at'[v], conn')
    BY <1>2, WriteMoves
  <1> QED
    BY <1>1, <1>3, WritesGoOn

\* The side effects of a write run, wait for its group or are dropped.
LEMMA AnnounceWrites ==
    ASSUME SharedInv, SharedInv', BatchInv, WritesOK(conn), NEW w \in Writers, Announce(w)
    PROVE  WritesOK(conn)'
  <1>1. /\ noticeRollback(conn) = conn /\ UNCHANGED <<grp, home, wrote>>
        /\ at[w] = "run" /\ Goto(w, "written") /\ GroupsInv(conn)
        /\ conn' = afterCommit(conn, w)
    BY NothingToNotice, GroupsOfWrites DEF Announce, WritesOK
  <1>2. /\ at'[w] = "written" /\ \A v \in Writers \ {w} : at'[v] = at[v]
        /\ conn \in Connection /\ grp[w] \in Writers \cup {None}
    BY <1>1 DEF Goto, SharedInv, StagesAgree, OpenersStay, ConnOK, Procs
  <1>3. PICK g : g = grp[w]
    OBVIOUS
  <1>4. \/ conn' = conn
        \/ GroupKept(conn, w) /\ conn' = [conn EXCEPT !.ran = @ \cup {w}]
        \/ g \in Writers /\ conn' = [conn EXCEPT !.effects[g] = @ \cup {w}]
    BY <1>1, <1>2, <1>3 DEF afterCommit, GroupKept
  <1>5. /\ conn'.tx = conn.tx /\ conn'.rows = conn.rows /\ conn'.disk = conn.disk
        /\ conn'.owner = conn.owner /\ conn'.held = conn.held
        /\ conn'.inside = conn.inside /\ conn'.mine = conn.mine
        /\ conn'.open = conn.open /\ conn'.state = conn.state
    BY <1>2, <1>4 DEF Connection
  <1>6. conn'.ran = conn.ran \/ (conn'.ran = conn.ran \cup {w} /\ GroupKept(conn, w))
    BY <1>2, <1>4 DEF Connection
  <1>7. \A h \in Writers :
          \/ conn'.effects[h] = conn.effects[h]
          \/ h = grp[w] /\ conn'.effects[h] = conn.effects[h] \cup {w}
    BY <1>2, <1>3, <1>4 DEF Connection
  <1>8. GroupOK(conn)' /\ GroupsBegun(conn)' /\ RowsKept(conn)'
    <2>1. GroupOK(conn)'
      BY <1>5 DEF WritesOK, GroupOK
    <2>2. GroupsBegun(conn)'
      BY <1>1, <1>2, <1>5 DEF WritesOK, GroupsBegun
    <2>3. RowsKept(conn)'
      BY <1>1, <1>5 DEF WritesOK, RowsKept, RowKept
    <2> QED
      BY <2>1, <2>2, <2>3
  <1>9. EffectsOK(conn)'
    <2>1. \A v \in Writers : GroupKept(conn, v) => GroupKept(conn, v)'
      BY <1>1, <1>5 DEF GroupKept
    <2>2. \A v \in Writers : at[v] \in Past => at'[v] \in Past
      BY <1>2 DEF Past
    <2>3. ASSUME NEW h \in Writers, NEW v \in conn'.effects[h]
          PROVE  grp'[v] = h /\ at'[v] \in Past
      <3>1. CASE v \in conn.effects[h]
        <4>1. v \in Writers
          BY <1>2, <3>1 DEF Connection
        <4> QED
          BY <1>1, <2>2, <3>1, <4>1 DEF WritesOK, EffectsOK
      <3>2. CASE v = w /\ h = grp[w]
        BY <1>1, <1>2, <3>2 DEF Past
      <3> QED
        BY <1>7, <2>3, <3>1, <3>2
    <2>4. \A v \in conn'.ran \cap Writers : at'[v] \in Past /\ GroupKept(conn, v)'
      BY <1>2, <1>6, <2>1, <2>2 DEF WritesOK, EffectsOK, Past
    <2>5. \A v \in Writers : at'[v] = "ok" => GroupKept(conn, v)'
      BY <1>2, <2>1 DEF WritesOK, EffectsOK
    <2> QED
      BY <2>3, <2>4, <2>5 DEF EffectsOK
  <1> QED
    BY <1>8, <1>9 DEF WritesOK

\* A hook's transaction begins on a connection nobody owns, and ends.
LEMMA HookWrites ==
    ASSUME SharedInv, SharedInv', BatchInv, WritesOK(conn), NEW w \in Writers,
           HookBegin(w) \/ HookEnd(w)
    PROVE  WritesOK(conn)'
  <1>1. /\ UNCHANGED <<grp, home>> /\ w \in Procs /\ GroupsInv(conn) /\ ConnOK(conn)
        /\ grp \in [Writers -> Writers \cup {None}]
    BY WriterIsACall, GroupsOfWrites DEF HookBegin, HookEnd, SharedInv, OpenersStay
  <1>2. PICK stage \in {"run", "hook"} : Goto(w, stage)
    BY DEF HookBegin, HookEnd
  <1>3. at[w] \in {"run", "hook"}
    BY DEF HookBegin, HookEnd
  <1>4. \A v \in Writers : GoesTo(v, at[v], at'[v], conn')
    BY <1>2, <1>3, WriteMoves DEF GoesTo, Past
  <1>5. CASE HookBegin(w)
    <2>1. conn.owner = None
      BY <1>5, WriterIsACall DEF HookBegin, foreignTx
    <2>2. /\ GroupsInv(conn') /\ UNCHANGED wrote
          /\ \A v \in Writers : \A r : RowKept(conn, v, r) => RowKept(conn', v, r)
      BY <1>1, <1>5, <2>1, OwnKeepsWrites DEF HookBegin
    <2> QED
      BY <1>1, <1>4, <2>2, WritesGoOn
  <1>6. CASE HookEnd(w) /\ conn' \in OwnerCommitted(conn) /\ UNCHANGED wrote
    <2>1. conn.owner # None
      BY <1>6, WriterIsACall, NoneIsNobody DEF HookEnd
    <2>2. /\ GroupsInv(conn')
          /\ \A v \in Writers : \A r : RowKept(conn, v, r) => RowKept(conn', v, r)
      BY <1>1, <1>6, <2>1, CommittedKeepsWrites
    <2> QED
      BY <1>1, <1>4, <1>6, <2>2, WritesGoOn
  <1>7. CASE /\ HookEnd(w) /\ conn' \in OwnerUndone(conn)
             /\ wrote' = [wrote EXCEPT ![w] = @ \ conn.mine]
    <2>1. conn.owner = w /\ conn.owner # None
      BY <1>7, WriterIsACall, NoneIsNobody DEF HookEnd
    <2>2. /\ GroupsInv(conn')
          /\ \A v \in Writers : \A r :
               RowKept(conn, v, r) /\ r[1] = v /\ r \notin conn.mine => RowKept(conn', v, r)
      BY <1>1, <1>7, <2>1, UndoneKeepsWrites
    <2>3. ASSUME NEW v \in Writers, NEW r \in wrote'[v], r[1] = v
          PROVE  r \in wrote[v] /\ r \notin conn.mine
      <3>1. v \in Procs /\ wrote \in [Procs -> SUBSET Rows]
        BY DEF Procs, BatchInv, WroteTypes
      <3>2. \A s \in conn.mine : s[1] = w
        BY <2>1 DEF WritesOK, GroupOK
      <3> QED
        BY <1>7, <2>3, <3>1, <3>2
    <2>4. \A v \in Writers : wrote'[v] \subseteq wrote[v]
      BY <1>7 DEF Procs, BatchInv, WroteTypes
    <2> QED
      BY <1>1, <1>4, <2>2, <2>3, <2>4, WritesGoOn
  <1> QED
    BY <1>5, <1>6, <1>7 DEF HookEnd


LEMMA WriteStepWrites ==
    ASSUME ~TriggerRollback,
           SharedInv, SharedInv', BatchInv, WritesOK(conn), NEW w \in Writers, WriteStep(w)
    PROVE  WritesOK(conn)'
  <1>1. CASE WriteStatement(w)
    <2>1. w \in Procs /\ ConnOK(conn) /\ GroupsInv(conn)
      BY WriterIsACall, GroupsOfWrites DEF SharedInv
    <2>2. Execute(w, conn) /\ conn.owner \in {None, w} /\ UNCHANGED <<grp, at>>
      BY <1>1 DEF WriteStatement, foreignTx
    <2> QED
      BY <2>1, <2>2, ExecuteWrites
  <1>2. ~WriteRollsBack(w)
    BY DEF WriteRollsBack, FiresRollback
  <1> QED
    BY <1>1, <1>2, QuietWrites, AnnounceWrites, HookWrites DEF WriteStep

\* A step of another call that writes no row and keeps the groups.
LEMMA OtherWrites ==
    ASSUME SharedInv, SharedInv', BatchInv, WritesOK(conn),
           NEW p \in Procs, p \notin Writers, NEW stage, Goto(p, stage),
           GroupsInv(conn'), UNCHANGED <<grp, home, wrote>>,
           \A w \in Writers : \A r : RowKept(conn, w, r) => RowKept(conn', w, r)
    PROVE  WritesOK(conn)'
  <1>1. \A w \in Writers : GoesTo(w, at[w], at'[w], conn')
    BY WritesStay
  <1> QED
    BY <1>1, WritesGoOn

LEMMA BatchIsNoWrite ==
    ASSUME NEW p \in Batches \cup Txs \cup Stamps \cup Raws
    PROVE  p \in Procs /\ p \notin Writers
  BY CallersAssumption, ConnectionAssumption DEF Procs, Callers

LEMMA EnterBatchWrites ==
    ASSUME SharedInv, SharedInv', BatchInv, WritesOK(conn), NEW b \in Batches, EnterBatch(b)
    PROVE  WritesOK(conn)'
  <1>1. /\ UNCHANGED <<grp, home, wrote>> /\ b \in Procs /\ b \notin Writers
        /\ GroupsInv(conn) /\ ConnOK(conn) /\ grp \in [Writers -> Writers \cup {None}]
    BY BatchIsNoWrite, GroupsOfWrites DEF EnterBatch, SharedInv, OpenersStay
  <1>2. CASE UNCHANGED <<conn, at>>
    BY <1>1, <1>2 DEF WritesOK, GroupOK, GroupsBegun, RowsKept, RowKept, EffectsOK, GroupKept
  <1>3. CASE conn' \in flushGroupCommit(conn) /\ Goto(b, "run")
    <2>1. /\ GroupsInv(conn')
          /\ \A w \in Writers : \A r : RowKept(conn, w, r) => RowKept(conn', w, r)
      BY <1>1, <1>3, FlushKeepsWrites
    <2> QED
      BY <1>1, <1>3, <2>1, OtherWrites
  <1> QED
    BY <1>2, <1>3 DEF EnterBatch

LEMMA BatchBeginWrites ==
    ASSUME SharedInv, SharedInv', BatchInv, WritesOK(conn), NEW b \in Batches, BatchBegin(b)
    PROVE  WritesOK(conn)'
  <1>1. /\ UNCHANGED <<grp, home, wrote>> /\ b \in Procs /\ b \notin Writers
        /\ GroupsInv(conn) /\ ConnOK(conn) /\ conn.owner = None
    BY BatchIsNoWrite, BatchIsACall, GroupsOfWrites DEF BatchBegin, foreignTx, SharedInv
  <1>2. /\ GroupsInv(conn')
        /\ \A w \in Writers : \A r : RowKept(conn, w, r) => RowKept(conn', w, r)
    BY <1>1, OwnKeepsWrites DEF BatchBegin
  <1> QED
    BY <1>1, <1>2, OtherWrites DEF BatchBegin

LEMMA AnswerBatchWrites ==
    ASSUME SharedInv, SharedInv', BatchInv, WritesOK(conn), NEW b \in Batches, AnswerBatch(b)
    PROVE  WritesOK(conn)'
  <1>1. /\ UNCHANGED <<grp, home, wrote>> /\ b \in Procs /\ b \notin Writers
        /\ GroupsInv(conn) /\ conn \in Connection
    BY BatchIsNoWrite, GroupsOfWrites DEF AnswerBatch, SharedInv, ConnOK
  <1>2. /\ conn'.tx = conn.tx /\ conn'.rows = conn.rows /\ conn'.disk = conn.disk
        /\ conn'.owner = conn.owner /\ conn'.held = conn.held
        /\ conn'.inside = conn.inside /\ conn'.mine = conn.mine
        /\ conn'.open = conn.open /\ conn'.state = conn.state
        /\ conn'.effects = conn.effects /\ conn'.ran \subseteq conn.ran \cup {b}
    BY <1>1 DEF AnswerBatch, Connection
  <1>3. GroupsInv(conn')
    <2>1. GroupOK(conn')
      BY <1>1, <1>2 DEF GroupsInv, GroupOK
    <2>2. GroupsBegun(conn')
      BY <1>1, <1>2 DEF GroupsInv, GroupsBegun
    <2>3. EffectsOK(conn')
      BY <1>1, <1>2 DEF GroupsInv, EffectsOK, GroupKept
    <2> QED
      BY <2>1, <2>2, <2>3 DEF GroupsInv
  <1>4. \A w \in Writers : \A r : RowKept(conn, w, r) => RowKept(conn', w, r)
    BY <1>2 DEF RowKept
  <1> QED
    BY <1>1, <1>3, <1>4, OtherWrites DEF AnswerBatch

LEMMA TxBeginWrites ==
    ASSUME SharedInv, SharedInv', BatchInv, WritesOK(conn), NEW t \in Txs, TxBegin(t)
    PROVE  WritesOK(conn)'
  <1>1. /\ UNCHANGED <<grp, home, wrote>> /\ t \in Procs /\ t \notin Writers
        /\ GroupsInv(conn) /\ ConnOK(conn) /\ conn.owner = None
        /\ grp \in [Writers -> Writers \cup {None}]
    BY BatchIsNoWrite, BatchIsACall, GroupsOfWrites
       DEF TxBegin, foreignTx, SharedInv, OpenersStay
  <1>2. PICK c \in flushGroupCommit(conn) : conn' = Own(c, t)
    BY DEF TxBegin
  <1>3. /\ GroupsInv(c)
        /\ \A w \in Writers : \A r : RowKept(conn, w, r) => RowKept(c, w, r)
    BY <1>1, <1>2, FlushKeepsWrites
  <1>4. ConnOK(c) /\ c.owner = None
    BY <1>1, <1>2, SteadyFlush DEF Steady, NothingOpened
  <1>5. /\ GroupsInv(conn')
        /\ \A w \in Writers : \A r : RowKept(c, w, r) => RowKept(conn', w, r)
    BY <1>1, <1>2, <1>3, <1>4, OwnKeepsWrites
  <1>6. \A w \in Writers : \A r : RowKept(conn, w, r) => RowKept(conn', w, r)
    BY <1>3, <1>5
  <1> QED
    BY <1>1, <1>5, <1>6, OtherWrites DEF TxBegin

\* The statement of a transaction, or outside the gate.
LEMMA OtherStatementWrites ==
    ASSUME SharedInv, SharedInv', BatchInv, WritesOK(conn),
           NEW p \in Batches \cup Txs \cup Stamps \cup Raws,
           NEW c \in flushGroupCommit(conn) \cup {conn}, Execute(p, c),
           p \in Raws \/ conn.owner \in {None, p},
           UNCHANGED grp, \A w \in Writers : at'[w] = at[w]
    PROVE  WritesOK(conn)'
  <1>1. /\ p \in Procs /\ GroupsInv(conn) /\ ConnOK(conn)
        /\ grp \in [Writers -> Writers \cup {None}]
    BY BatchIsNoWrite, GroupsOfWrites DEF SharedInv, OpenersStay
  <1>2. /\ GroupsInv(c)
        /\ \A w \in Writers : \A r : RowKept(conn, w, r) => RowKept(c, w, r)
    BY <1>1, FlushKeepsWrites
  <1>3. ConnOK(c) /\ c.owner = conn.owner
    BY <1>1, SteadyFlush DEF Steady, NothingOpened
  <1> QED
    BY <1>1, <1>2, <1>3, ExecuteWrites

LEMMA TxStatementWrites ==
    ASSUME SharedInv, SharedInv', BatchInv, WritesOK(conn), NEW p \in Batches \cup Txs,
           TxStatement(p)
    PROVE  WritesOK(conn)'
  <1>1. conn.owner = p /\ UNCHANGED <<grp, at>>
    BY BatchIsACall DEF TxStatement
  <1>2. PICK c \in flushGroupCommit(conn) \cup {conn} : Execute(p, c)
    BY DEF TxStatement, FoundBy
  <1> QED
    BY <1>1, <1>2, OtherStatementWrites

LEMMA OutsideWrites ==
    ASSUME SharedInv, SharedInv', BatchInv, WritesOK(conn), NEW p \in Stamps \cup Raws,
           \/ p \in Stamps /\ Stamp(p)
           \/ p \in Raws /\ Raw(p)
    PROVE  WritesOK(conn)'
  <1>1. UNCHANGED grp /\ Goto(p, "ok") /\ (p \in Raws \/ conn.owner \in {None, p})
    BY DEF Stamp, Raw, foreignTx
  <1>2. PICK c \in flushGroupCommit(conn) : Execute(p, c)
    BY DEF Stamp, Raw
  <1>3. \A w \in Writers : at'[w] = at[w]
    BY <1>1, BatchIsNoWrite, WritesStay
  <1> QED
    BY <1>1, <1>2, <1>3, OtherStatementWrites

LEMMA TxEndWrites ==
    ASSUME SharedInv, SharedInv', BatchInv, WritesOK(conn), NEW p \in Batches \cup Txs,
           TxEnd(p)
    PROVE  WritesOK(conn)'
  <1>1. /\ UNCHANGED <<grp, home>> /\ p \in Procs /\ p \notin Writers
        /\ GroupsInv(conn) /\ ConnOK(conn) /\ conn.owner = p /\ p # None
        /\ grp \in [Writers -> Writers \cup {None}]
    BY BatchIsNoWrite, BatchIsACall, GroupsOfWrites, NoneIsNobody
       DEF TxEnd, SharedInv, OpenersStay
  <1>2. PICK stage : Goto(p, stage)
    BY DEF TxEnd
  <1>3. CASE conn' \in OwnerCommitted(conn) /\ UNCHANGED wrote
    <2>1. /\ GroupsInv(conn')
          /\ \A w \in Writers : \A r : RowKept(conn, w, r) => RowKept(conn', w, r)
      BY <1>1, <1>3, CommittedKeepsWrites
    <2> QED
      BY <1>1, <1>2, <1>3, <2>1, OtherWrites
  <1>4. CASE conn' \in OwnerUndone(conn) /\ wrote' = [wrote EXCEPT ![p] = @ \ conn.mine]
    <2>1. /\ GroupsInv(conn')
          /\ \A w \in Writers : \A r :
               RowKept(conn, w, r) /\ r[1] = w /\ r \notin conn.mine => RowKept(conn', w, r)
      BY <1>1, <1>4, UndoneKeepsWrites
    <2>2. \A w \in Writers : wrote'[w] = wrote[w]
      BY <1>1, <1>4 DEF Procs, BatchInv, WroteTypes
    <2>3. \A r \in conn.mine : r[1] = p
      BY <1>1 DEF WritesOK, GroupOK
    <2>4. \A w \in Writers : GoesTo(w, at[w], at'[w], conn')
      BY <1>1, <1>2, WritesStay
    <2>5. \A w \in Writers : \A r \in wrote'[w] :
            RowKept(conn, w, r) /\ r[1] = w => RowKept(conn', w, r)
      BY <1>1, <2>1, <2>3
    <2> QED
      BY <1>1, <2>1, <2>2, <2>4, <2>5, WritesGoOn
  <1> QED
    BY <1>3, <1>4 DEF TxEnd

LEMMA EndOfTurnWrites ==
    ASSUME SharedInv, SharedInv', BatchInv, WritesOK(conn), EndOfTurn
    PROVE  WritesOK(conn)'
  <1>1. PICK c : c = [conn EXCEPT !.due = FALSE]
    OBVIOUS
  <1>2. /\ c \in Connection /\ c.tx = conn.tx /\ c.rows = conn.rows /\ c.disk = conn.disk
        /\ c.owner = conn.owner /\ c.held = conn.held
        /\ c.inside = conn.inside /\ c.mine = conn.mine
        /\ c.open = conn.open /\ c.state = conn.state
        /\ c.effects = conn.effects /\ c.ran = conn.ran
    BY <1>1 DEF SharedInv, ConnOK, Connection
  <1>3. ConnOK(c) /\ Alike(conn, c) /\ GroupsInv(conn)
    <2>1. ConnOK(c)
      BY <1>2 DEF SharedInv, ConnOK
    <2>2. Alike(conn, c)
      BY <1>2 DEF Alike
    <2> QED
      BY <2>1, <2>2, GroupsOfWrites
  <1>4. GroupsInv(c)
    BY <1>3, AlikeKeeps
  <1>5. \A w \in Writers : \A r : RowKept(conn, w, r) => RowKept(c, w, r)
    BY <1>2 DEF RowKept
  <1>6. /\ conn' \in flushGroupCommit(c) /\ UNCHANGED <<at, grp, home, wrote>>
        /\ grp \in [Writers -> Writers \cup {None}]
    BY <1>1 DEF EndOfTurn, calls, SharedInv, OpenersStay
  <1>7. /\ GroupsInv(conn')
        /\ \A w \in Writers : \A r : RowKept(c, w, r) => RowKept(conn', w, r)
    BY <1>3, <1>4, <1>6, FlushKeepsWrites
  <1>8. \A w \in Writers : GoesTo(w, at[w], at'[w], conn')
    BY <1>6 DEF GoesTo
  <1>9. \A w \in Writers : \A r : RowKept(conn, w, r) => RowKept(conn', w, r)
    BY <1>5, <1>7
  <1> QED
    BY <1>6, <1>7, <1>8, <1>9, WritesGoOn

LEMMA WritesStep ==
    ASSUME ~TriggerRollback, SharedInv, SharedInv', BatchInv, WritesOK(conn), [Next]_vars
    PROVE  WritesOK(conn)'
  <1>1. ASSUME NEW w \in Writers, EnterWrite(w) \/ WriteStep(w) PROVE WritesOK(conn)'
    BY <1>1, EnterWriteWrites, WriteStepWrites
  <1>2. ASSUME NEW b \in Batches, EnterBatch(b) \/ BatchStep(b) PROVE WritesOK(conn)'
    BY <1>2, EnterBatchWrites, BatchBeginWrites, AnswerBatchWrites DEF BatchStep
  <1>3. ASSUME NEW t \in Txs, TxBegin(t) PROVE WritesOK(conn)'
    BY <1>3, TxBeginWrites
  <1>4. ASSUME NEW p \in Batches \cup Txs, TxStep(p) PROVE WritesOK(conn)'
    <2>1. ~TxRollsBack(p)
      BY DEF TxRollsBack, FiresRollback
    <2> QED
      BY <1>4, <2>1, TxStatementWrites, TxEndWrites DEF TxStep
  <1>5. ASSUME NEW s \in Stamps, Stamp(s) PROVE WritesOK(conn)'
    BY <1>5, OutsideWrites
  <1>6. ASSUME NEW r \in Raws, Raw(r) PROVE WritesOK(conn)'
    BY <1>6, OutsideWrites
  <1>7. CASE EndOfTurn
    BY <1>7, EndOfTurnWrites
  <1>8. CASE UNCHANGED vars
    BY <1>8 DEF vars, calls, WritesOK, GroupOK, GroupsBegun, RowsKept, RowKept,
                EffectsOK, GroupKept
  <1> QED
    BY <1>1, <1>2, <1>3, <1>4, <1>5, <1>6, <1>7, <1>8 DEF Next

LEMMA InitWrites == Init => WritesOK(conn)
  <1> SUFFICES ASSUME Init PROVE WritesOK(conn)
    OBVIOUS
  <1>1. GroupOK(conn)
    BY DEF Init, GroupOK
  <1>2. GroupsBegun(conn)
    BY NoneIsNobody DEF Init, GroupsBegun
  <1>3. RowsKept(conn)
    BY DEF Init, RowsKept, Procs
  <1>4. EffectsOK(conn)
    BY DEF Init, EffectsOK, Procs
  <1> QED
    BY <1>1, <1>2, <1>3, <1>4 DEF WritesOK

LEMMA WritesInvariant ==
    ASSUME ~TriggerRollback
    PROVE  Spec => [](SharedInv /\ BatchInv /\ WritesOK(conn))
  <1>1. SharedInv /\ SharedInv' /\ BatchInv /\ WritesOK(conn) /\ [Next]_vars
          => WritesOK(conn)'
    BY WritesStep
  <1> QED
    BY <1>1, InitWrites, SharedInvariant, BatchInvariant, PTL DEF Spec

\* The rows of a write in the group that is committed, or by itself, are too.
LEMMA SettledRows ==
    ASSUME SharedInv, WritesOK(conn), NEW w \in Writers, at[w] \in Past, GroupKept(conn, w),
           InOwnGroup(w), NEW r \in wrote[w]
    PROVE  r \in conn.disk
  <1>1. RowKept(conn, w, r) /\ home[r] \in {"auto", "own", grp[w]}
    BY DEF WritesOK, RowsKept, InOwnGroup
  <1>2. conn.owner # w
    BY WriterIsACall DEF Past
  <1>3. ASSUME home[r] \in Writers PROVE grp[w] = home[r] /\ conn.state[home[r]] = "committed"
    BY <1>1, <1>3, NoneIsNobody, ConnectionAssumption DEF GroupKept
  <1>4. conn.tx = "group" => conn.open \in Writers /\ conn.state[conn.open] = "open"
    BY DEF SharedInv, ConnOK, Connection
  <1> QED
    BY <1>1, <1>2, <1>3, <1>4 DEF RowKept

\* Unless a trigger rolls everything back, a write that ran in the group it
\* joined and is answered ok has its rows committed, for any calls and hooks.
THEOREM JoinedWritesStay ==
    ASSUME ~TriggerRollback
    PROVE  Spec => []JoinedWritesAreKept
  <1>1. SharedInv /\ WritesOK(conn) => JoinedWritesAreKept
    <2> SUFFICES ASSUME SharedInv, WritesOK(conn), NEW w \in Writers, at[w] = "ok",
                        InOwnGroup(w), NEW r \in wrote[w]
                 PROVE  r \in conn.disk
      BY DEF JoinedWritesAreKept
    <2>1. GroupKept(conn, w) /\ at[w] \in Past
      BY DEF WritesOK, EffectsOK, Past
    <2> QED
      BY <2>1, SettledRows
  <1> QED
    BY <1>1, WritesInvariant, PTL

\* Unless a trigger rolls everything back, side effects run only for rows that
\* are committed, for any calls and hooks.
THEOREM EffectsComeLast ==
    ASSUME ~TriggerRollback
    PROVE  Spec => []EffectsFollowCommit
  <1>1. SharedInv /\ BatchInv /\ WritesOK(conn) => EffectsFollowCommit
    <2> SUFFICES ASSUME SharedInv, BatchInv, WritesOK(conn), NEW p \in conn.ran,
                        p \in Batches \/ InOwnGroup(p), NEW r \in wrote[p]
                 PROVE  r \in conn.disk
      BY DEF EffectsFollowCommit
    <2>1. p \in Writers \/ p \in Batches
      BY DEF SharedInv, ConnOK, Connection
    <2>2. CASE p \in Batches
      <3>1. FirstRows(p, conn.disk)
        BY <2>2 DEF BatchInv, BatchEffects, BatchRowsOK, BatchRowOK
      <3>2. r \in Rows /\ r[1] = p /\ r[2] <= issued[p] /\ issued[p] \in Nat
        BY <2>2, ConnectionAssumption DEF BatchInv, WroteTypes, Procs, SharedInv
      <3>3. r = <<p, r[2]>> /\ r[2] \in 1 .. issued[p]
        BY <3>2, ConnectionAssumption DEF Rows
      <3> QED
        BY <3>1, <3>3 DEF FirstRows
    <2>3. CASE p \in Writers /\ p \notin Batches
      <3>1. at[p] \in Past /\ GroupKept(conn, p) /\ InOwnGroup(p)
        BY <2>3 DEF WritesOK, EffectsOK
      <3> QED
        BY <2>3, <3>1, SettledRows
    <2> QED
      BY <2>1, <2>2, <2>3
  <1> QED
    BY <1>1, WritesInvariant, PTL

=============================================================================
