---------------------------- MODULE JobQueueProofs ----------------------------
(***************************************************************************)
(* Proofs about the job queue, for any jobs, keys, servers and limits.     *)
(*                                                                         *)
(* The attempt number a row carries is the number of its claims, and a run *)
(* carries the attempt of its claim: that makes owner and attempt enough   *)
(* to tell the latest claim, as long as nobody starts the numbers again.   *)
(***************************************************************************)
EXTENDS JobQueue, FiniteSetTheorems, TLAPS

\* A row that waits or runs counts its claims, and has attempts left for them.
Numbered ==
    \A j \in Jobs :
        /\ enq[j].stage \in {"none", "insert", "lookup"} => row[j].status = "none"
        /\ row[j].status = "none" => claims[j] = 0
        /\ row[j].status = "queued" => /\ claims[j] = row[j].attempt - 1
                                       /\ row[j].attempt <= MostAttempts
        /\ row[j].status = "running" => /\ claims[j] = row[j].attempt
                                        /\ row[j].attempt <= MostAttempts
        /\ claims[j] <= MostAttempts

\* Between the statements of a sweep no lost job is out of attempts.
SweepLeft == \A p \in Procs, j \in Jobs :
    sweep[p] = "half" /\ Lost(j) => row[j].attempt < RetryMax

\* A run carries the number of its claim.
RunsNumbered == \A r \in runs : r.claim \in (0 .. MaxRetries) \X Nat /\ r.claim[2] = r.attempt

QueueInv == TypeOK /\ UniqueKeys /\ Numbered /\ SweepLeft /\ RunsNumbered

LEMMA Limits == /\ RetryMax \in Nat /\ MostAttempts \in Nat
                /\ RetryMax <= MostAttempts /\ 1 <= MostAttempts
                /\ MostAttempts \in Attempts /\ 1 \in Attempts
                /\ \A n \in Attempts : n < RetryMax => n + 1 \in Attempts /\ n + 1 <= MostAttempts
  BY QueueAssumption DEF MostAttempts, Attempts

LEMMA NewRowType ==
    ASSUME NEW s \in {"none", "queued", "running", "succeeded", "dead", "discarded"},
           NEW a \in Attempts
    PROVE  /\ NewRow(s, a) \in Row
           /\ NewRow(s, a).status = s /\ NewRow(s, a).attempt = a
           /\ NewRow(s, a).lease = 0
  BY QueueAssumption DEF NewRow, Row, Leases

\* The ways a row is changed in place.
LEMMA RowChanges ==
    ASSUME NEW x \in Row, NEW p \in Procs \cup {NoProc}
    PROVE  /\ [x EXCEPT !.status = "running", !.owner = p, !.lease = LeaseTime] \in Row
           /\ [x EXCEPT !.status = "queued", !.attempt = 1] \in Row
  <1>1. LeaseTime \in Leases /\ 1 \in Attempts
    BY QueueAssumption, Limits DEF Leases
  <1>2. [x EXCEPT !.status = "running", !.owner = p, !.lease = LeaseTime] \in Row
    BY <1>1 DEF Row
  <1>3. [x EXCEPT !.status = "queued", !.attempt = 1] \in Row
    BY <1>1 DEF Row
  <1> QED
    BY <1>2, <1>3

LEMMA LeaseChanges ==
    ASSUME NEW x \in Row, NEW l \in Leases
    PROVE  LET y == [x EXCEPT !.lease = l]
           IN  y \in Row /\ y.status = x.status /\ y.attempt = x.attempt /\ y.lease = l
  BY DEF Row

LEMMA InitQueue == Init => QueueInv
  <1> SUFFICES ASSUME Init PROVE QueueInv
    OBVIOUS
  <1>1. NewRow("none", 1) \in Row /\ NewRow("none", 1).status = "none"
    BY Limits, NewRowType
  <1>2. TypeOK
    BY <1>1, QueueAssumption DEF Init, TypeOK
  <1>3. UniqueKeys /\ Numbered
    BY <1>1, Limits DEF Init, UniqueKeys, Numbered, Active
  <1>4. SweepLeft /\ RunsNumbered
    BY DEF Init, SweepLeft, RunsNumbered
  <1> QED
    BY <1>2, <1>3, <1>4 DEF QueueInv

\* A step that makes no job active keeps the keys unique.
LEMMA KeysKept ==
    ASSUME UniqueKeys, \A j \in Jobs : row'[j].status \in Active => row[j].status \in Active
    PROVE  UniqueKeys'
  BY DEF UniqueKeys

\* One that makes a job active does when nothing conflicts with it.
LEMMA KeysKeptByIndex ==
    ASSUME UniqueKeys, NEW i \in Jobs, Conflicts(i) = {},
           \A j \in Jobs \ {i} : row'[j] = row[j]
    PROVE  UniqueKeys'
  BY DEF UniqueKeys, Conflicts, Active

LEMMA EnqueueInv ==
    ASSUME QueueInv, NEW j \in Jobs, EnqueueInsert(j) \/ EnqueueLookup(j)
    PROVE  QueueInv'
  <1> USE DEF QueueInv
  <1>1. CASE EnqueueInsert(j) /\ Conflicts(j) = {}
    <2>1. /\ row' = [row EXCEPT ![j] = NewRow("queued", 1)]
          /\ enq' = [enq EXCEPT ![j].stage = "queued"]
          /\ UNCHANGED <<memory, proc, claims, retried>>
          /\ row[j].status = "none" /\ claims[j] = 0
      BY <1>1 DEF EnqueueInsert, Numbered
    <2>2. NewRow("queued", 1) \in Row /\ NewRow("queued", 1).status = "queued"
          /\ NewRow("queued", 1).attempt = 1
      BY Limits, NewRowType
    <2>3. TypeOK'
      BY <2>1, <2>2 DEF TypeOK, memory
    <2>4. UniqueKeys'
      BY <1>1, <2>1, KeysKeptByIndex DEF TypeOK
    <2>5. Numbered'
      BY <2>1, <2>2, Limits DEF Numbered, TypeOK
    <2>6. SweepLeft' /\ RunsNumbered'
      BY <2>1, <2>2 DEF SweepLeft, RunsNumbered, Lost, TypeOK, memory
    <2> QED
      BY <2>3, <2>4, <2>5, <2>6
  <1>2. CASE \/ EnqueueInsert(j) /\ Conflicts(j) # {}
             \/ EnqueueLookup(j)
    <2>1. UNCHANGED <<db, memory, proc>> /\ enq' \in [Jobs -> [stage : {"none", "insert",
            "lookup", "queued", "deduped", "gaveup"}, tries : Nat]]
      <3>1. CASE EnqueueInsert(j) /\ Conflicts(j) # {}
        BY <3>1 DEF EnqueueInsert, TypeOK, db
      <3>2. CASE EnqueueLookup(j)
        <4> DEFINE stages == {"none", "insert", "lookup", "queued", "deduped", "gaveup"}
                   next == IF Conflicts(j) # {}
                           THEN [stage |-> "deduped", tries |-> enq[j].tries]
                           ELSE [stage |-> IF enq[j].tries + 1 < MaxTries
                                           THEN "insert" ELSE "gaveup",
                                 tries |-> enq[j].tries + 1]
        <4>1. enq' = [enq EXCEPT ![j] = next]
          BY <3>2 DEF EnqueueLookup
        <4>2. enq[j].tries \in Nat /\ enq[j].tries + 1 \in Nat
          BY DEF TypeOK
        <4>3. next \in [stage : stages, tries : Nat]
          BY <4>2
        <4> QED
          BY <3>2, <4>1, <4>3 DEF EnqueueLookup, TypeOK
      <3> QED
        BY <1>2, <3>1, <3>2
    <2>2. \A i \in Jobs : enq'[i].stage \in {"none", "insert", "lookup"}
                             => enq[i].stage \in {"none", "insert", "lookup"}
      BY <1>2 DEF EnqueueInsert, EnqueueLookup, TypeOK
    <2>3. TypeOK'
      BY <2>1 DEF TypeOK, db, memory
    <2>4. UniqueKeys' /\ Numbered' /\ SweepLeft' /\ RunsNumbered'
      BY <2>1, <2>2 DEF UniqueKeys, Numbered, SweepLeft, RunsNumbered, Lost, db, memory
    <2> QED
      BY <2>3, <2>4
  <1> QED
    BY <1>1, <1>2

LEMMA AdminInv ==
    ASSUME QueueInv, NEW j \in Jobs, RetryJob(j) \/ DiscardJob(j)
    PROVE  QueueInv'
  <1> USE DEF QueueInv
  <1>1. CASE RetryJob(j)
    <2>1. /\ row' = [row EXCEPT ![j].status = "queued", ![j].attempt = 1]
          /\ claims' = [claims EXCEPT ![j] = 0]
          /\ retried' = [retried EXCEPT ![j] = @ + 1]
          /\ UNCHANGED <<memory, enq, proc>>
          /\ row[j].status \in {"dead", "succeeded"}
      BY <1>1 DEF RetryJob
    <2>2. TypeOK'
      <3>1. row' \in [Jobs -> Row]
        <4>1. row' = [row EXCEPT ![j] = [row[j] EXCEPT !.status = "queued", !.attempt = 1]]
          BY <2>1 DEF TypeOK
        <4> QED
          BY <4>1, RowChanges DEF TypeOK
      <3>2. retried' \in [Jobs -> 0 .. MaxRetries] /\ claims' \in [Jobs -> Nat]
        <4>1. retried[j] + 1 \in 0 .. MaxRetries
          BY <1>1, QueueAssumption DEF RetryJob, TypeOK
        <4> QED
          BY <2>1, <4>1 DEF TypeOK
      <3> QED
        BY <2>1, <3>1, <3>2 DEF TypeOK, memory
    <2>3. UniqueKeys'
      BY <1>1, <2>1, KeysKeptByIndex DEF RetryJob, TypeOK
    <2>4. Numbered'
      BY <2>1, Limits DEF Numbered, TypeOK, Row
    <2>5. SweepLeft' /\ RunsNumbered'
      BY <2>1 DEF SweepLeft, RunsNumbered, Lost, TypeOK, Row, memory
    <2> QED
      BY <2>2, <2>3, <2>4, <2>5
  <1>2. CASE DiscardJob(j)
    <2>1. /\ row' = [row EXCEPT ![j].status = "discarded"]
          /\ UNCHANGED <<memory, enq, proc, claims, retried>>
          /\ row[j].status \in {"queued", "dead"}
      BY <1>2 DEF DiscardJob
    <2>2. TypeOK'
      BY <2>1 DEF TypeOK, Row, memory
    <2>3. UniqueKeys'
      BY <2>1, KeysKept DEF TypeOK, Row, Active
    <2>4. Numbered' /\ SweepLeft' /\ RunsNumbered'
      BY <2>1 DEF Numbered, SweepLeft, RunsNumbered, Lost, TypeOK, Row, memory
    <2> QED
      BY <2>2, <2>3, <2>4
  <1> QED
    BY <1>1, <1>2

LEMMA TickInv ==
    ASSUME QueueInv, NEW p \in Procs, Tick(p)
    PROVE  QueueInv'
  <1> USE DEF QueueInv
  <1>1. pending' \in [Procs -> SUBSET (Jobs \X Attempts)]
    <2>1. \A j \in Jobs : row[j].attempt \in Attempts
      BY DEF TypeOK, Row
    <2>2. PICK S \in SUBSET {j \in Jobs : row[j].status = "queued"} :
            pending' = [pending EXCEPT ![p] = {<<j, row[j].attempt>> : j \in S}]
      BY DEF Tick
    <2> QED
      BY <2>1, <2>2 DEF TypeOK
  <1>2. TypeOK'
    BY <1>1 DEF Tick, TypeOK, db
  <1>3. UniqueKeys' /\ Numbered' /\ SweepLeft' /\ RunsNumbered'
    BY DEF Tick, UniqueKeys, Numbered, SweepLeft, RunsNumbered, Lost, db
  <1> QED
    BY <1>2, <1>3

\* What a successful claim does.
Claims(p, j) == /\ row[j].status = "queued"
                /\ row' = [row EXCEPT ![j].status = "running", ![j].owner = p,
                                      ![j].lease = LeaseTime]
                /\ running' = [running EXCEPT ![p] = @ \cup {j}]
                /\ runs' = runs \cup {NewRun(p, j)}
                /\ claims' = [claims EXCEPT ![j] = @ + 1]

LEMMA ClaimCases ==
    ASSUME QueueInv, NEW p \in Procs, Claim(p)
    PROVE  /\ UNCHANGED <<sweep, renewed, retried, enq, proc>>
           /\ pending' \in [Procs -> SUBSET (Jobs \X Attempts)]
           /\ \/ UNCHANGED <<row, running, runs, claims>>
              \/ \E j \in Jobs : Claims(p, j)
  <1>1. PICK read \in pending[p] :
          /\ pending' = [pending EXCEPT ![p] = @ \ {read}]
          /\ IF row[read[1]].status = "queued" /\ row[read[1]].attempt = read[2]
             THEN Claims(p, read[1])
             ELSE UNCHANGED <<row, running, runs, claims>>
    BY Zenon DEF Claim, Claims
  <1>2. read[1] \in Jobs
    BY DEF QueueInv, TypeOK
  <1> QED
    BY <1>1, <1>2 DEF Claim, QueueInv, TypeOK

LEMMA NewRunType ==
    ASSUME QueueInv, NEW p \in Procs, NEW j \in Jobs, row[j].status = "queued"
    PROVE  /\ NewRun(p, j) \in Run
           /\ NewRun(p, j).claim \in (0 .. MaxRetries) \X Nat
           /\ NewRun(p, j).claim[2] = NewRun(p, j).attempt
  BY QueueAssumption DEF QueueInv, TypeOK, Numbered, NewRun, Run, Row, Attempts

LEMMA ClaimInv ==
    ASSUME QueueInv, NEW p \in Procs, Claim(p)
    PROVE  QueueInv'
  <1> USE DEF QueueInv
  <1>1. CASE UNCHANGED <<row, running, runs, claims>>
    BY <1>1, ClaimCases DEF TypeOK, UniqueKeys, Numbered, SweepLeft, RunsNumbered, Lost
  <1>2. ASSUME NEW j \in Jobs, Claims(p, j) PROVE QueueInv'
    <2>1. row' \in [Jobs -> Row] /\ \A i \in Jobs \ {j} : row'[i] = row[i]
      <3>1. row' = [row EXCEPT ![j] = [row[j] EXCEPT !.status = "running", !.owner = p,
                                                     !.lease = LeaseTime]]
        BY <1>2 DEF Claims, TypeOK
      <3>2. [row[j] EXCEPT !.status = "running", !.owner = p, !.lease = LeaseTime] \in Row
        BY RowChanges DEF TypeOK
      <3> QED
        BY <3>1, <3>2 DEF TypeOK
    <2>2. /\ row'[j].status = "running" /\ row'[j].lease = LeaseTime
          /\ row'[j].attempt = row[j].attempt /\ row[j].status = "queued"
      BY <1>2 DEF Claims, TypeOK, Row
    <2>3. runs' = runs \cup {NewRun(p, j)} /\ claims' = [claims EXCEPT ![j] = @ + 1]
      BY <1>2 DEF Claims
    <2>4. TypeOK'
      <3>1. claims' \in [Jobs -> Nat] /\ runs' \subseteq Run
        BY <2>2, <2>3, NewRunType DEF TypeOK
      <3>2. running' \in [Procs -> SUBSET Jobs]
        BY <1>2 DEF Claims, TypeOK
      <3> QED
        BY <2>1, <3>1, <3>2, ClaimCases DEF TypeOK
    <2>5. UniqueKeys'
      BY <2>1, <2>2, KeysKept DEF Active
    <2>6. Numbered'
      BY <2>1, <2>2, <2>3, ClaimCases, Limits DEF Numbered, TypeOK, Row, Attempts
    <2>7. SweepLeft'
      BY <2>1, <2>2, ClaimCases, QueueAssumption DEF SweepLeft, Lost
    <2>8. RunsNumbered'
      BY <2>2, <2>3, NewRunType DEF RunsNumbered
    <2> QED
      BY <2>4, <2>5, <2>6, <2>7, <2>8
  <1> QED
    BY <1>1, <1>2, ClaimCases

\* Steps that change the leases of rows and nothing else about them.
LEMMA LeasesInv ==
    ASSUME QueueInv, row' \in [Jobs -> Row], UNCHANGED <<claims, retried, pending, running, runs, enq, proc>>,
           renewed' \subseteq Procs, sweep' \in [Procs -> {"due", "half", "done"}],
           \A j \in Jobs : row'[j].status = row[j].status /\ row'[j].attempt = row[j].attempt,
           SweepLeft'
    PROVE  QueueInv'
  <1> USE DEF QueueInv
  <1>1. TypeOK'
    BY DEF TypeOK
  <1>2. UniqueKeys' /\ Numbered' /\ RunsNumbered'
    BY DEF UniqueKeys, Numbered, RunsNumbered
  <1> QED
    BY <1>1, <1>2

LEMMA RenewInv ==
    ASSUME QueueInv, NEW p \in Procs, renewLeases(p)
    PROVE  QueueInv'
  <1>1. ASSUME NEW j \in Jobs
        PROVE  /\ row'[j] \in Row
               /\ row'[j].status = row[j].status /\ row'[j].attempt = row[j].attempt
               /\ row'[j].lease = 0 => row[j].lease = 0
    <2>1. row[j] \in Row /\ LeaseTime \in Leases /\ LeaseTime # 0
      BY QueueAssumption DEF QueueInv, TypeOK, Leases
    <2> DEFINE y == [row[j] EXCEPT !.lease = LeaseTime]
    <2>2. row'[j] = row[j] \/ row'[j] = y
      BY DEF renewLeases
    <2>3. /\ y \in Row /\ y.status = row[j].status /\ y.attempt = row[j].attempt
          /\ y.lease = LeaseTime
      BY <2>1, LeaseChanges
    <2> HIDE DEF y
    <2> QED
      BY <2>1, <2>2, <2>3
  <1>2. row' \in [Jobs -> Row]
    BY <1>1 DEF renewLeases
  <1>3. SweepLeft'
    BY <1>1 DEF renewLeases, SweepLeft, Lost, QueueInv
  <1>4. UNCHANGED <<claims, retried, pending, running, runs, enq, proc>> /\ renewed' \subseteq Procs
        /\ sweep' \in [Procs -> {"due", "half", "done"}]
    BY DEF renewLeases, QueueInv, TypeOK
  <1> QED
    BY <1>1, <1>2, <1>3, <1>4, LeasesInv

LEMMA TimeInv ==
    ASSUME QueueInv, TimePasses
    PROVE  QueueInv'
  <1>1. ASSUME NEW j \in Jobs
        PROVE  /\ row'[j] \in Row
               /\ row'[j].status = row[j].status /\ row'[j].attempt = row[j].attempt
    <2>1. row[j] \in Row
      BY DEF QueueInv, TypeOK
    <2>2. row[j].lease > 0 => row[j].lease - 1 \in Leases
      BY <2>1, QueueAssumption DEF Row, Leases
    <2> DEFINE y == [row[j] EXCEPT !.lease = row[j].lease - 1]
    <2>3. row'[j] = row[j] \/ (row[j].lease > 0 /\ row'[j] = y)
      BY DEF TimePasses
    <2>4. CASE row[j].lease > 0
      <3>1. y \in Row /\ y.status = row[j].status /\ y.attempt = row[j].attempt
        BY <2>1, <2>2, <2>4, LeaseChanges
      <3> HIDE DEF y
      <3> QED
        BY <2>1, <2>3, <3>1
    <2> QED
      BY <2>1, <2>3, <2>4
  <1>2. row' \in [Jobs -> Row]
    BY <1>1 DEF TimePasses
  <1>3. SweepLeft'
    BY DEF TimePasses, SweepLeft
  <1>4. UNCHANGED <<claims, retried, pending, running, runs, enq, proc>> /\ renewed' \subseteq Procs
        /\ sweep' \in [Procs -> {"due", "half", "done"}]
    BY DEF TimePasses
  <1> QED
    BY <1>1, <1>2, <1>3, <1>4, LeasesInv

LEMMA RecoverDeadInv ==
    ASSUME QueueInv, NEW p \in Procs, RecoverDead(p)
    PROVE  QueueInv'
  <1> USE DEF QueueInv
  <1>1. \A j \in Jobs :
          row'[j] = IF Lost(j) /\ row[j].attempt >= RetryMax
                    THEN NewRow("dead", row[j].attempt) ELSE row[j]
    BY DEF RecoverDead
  <1>2. \A j \in Jobs : row[j] \in Row /\ row[j].attempt \in Attempts
    BY DEF TypeOK, Row
  <1>3. \A j \in Jobs : row'[j] = row[j] \/ (row'[j] \in Row /\ row'[j].status = "dead")
    BY <1>1, <1>2, NewRowType
  <1>4. TypeOK'
    BY <1>2, <1>3 DEF RecoverDead, TypeOK
  <1>5. UniqueKeys'
    BY <1>3, KeysKept DEF Active
  <1>6. Numbered' /\ RunsNumbered'
    <2>1. \A j \in Jobs : row'[j] = row[j] \/ (row'[j].status = "dead" /\ row[j].status = "running")
      BY <1>1, <1>3 DEF Lost
    <2> QED
      BY <2>1 DEF RecoverDead, Numbered, RunsNumbered
  <1>7. SweepLeft'
    <2> SUFFICES ASSUME NEW j \in Jobs, Lost(j)' PROVE row'[j].attempt < RetryMax
      BY DEF SweepLeft
    <2>1. row'[j] = row[j]
      BY <1>3 DEF Lost
    <2> QED
      BY <1>1, <1>2, <2>1, <1>3, Limits, NewRowType DEF Lost, Attempts
  <1> QED
    BY <1>4, <1>5, <1>6, <1>7

LEMMA RecoverRequeueInv ==
    ASSUME QueueInv, NEW p \in Procs, RecoverRequeue(p)
    PROVE  QueueInv'
  <1> USE DEF QueueInv
  <1>1. \A j \in Jobs : row'[j] = IF Lost(j) THEN NewRow("queued", row[j].attempt + 1)
                                  ELSE row[j]
    BY DEF RecoverRequeue
  <1>2. \A j \in Jobs : row[j] \in Row /\ row[j].attempt \in Attempts
    BY DEF TypeOK, Row
  <1>3. \A j \in Jobs : Lost(j) => row[j].attempt < RetryMax
    BY DEF RecoverRequeue, SweepLeft
  <1>4. \A j \in Jobs : \/ row'[j] = row[j]
                        \/ /\ row'[j] \in Row /\ row'[j].status = "queued"
                           /\ row[j].status = "running"
                           /\ row'[j].attempt = row[j].attempt + 1
                           /\ row'[j].attempt <= MostAttempts
    <2> TAKE j \in Jobs
    <2>1. CASE ~Lost(j)
      BY <1>1, <2>1
    <2>2. CASE Lost(j)
      <3>1. row[j].attempt + 1 \in Attempts /\ row[j].attempt + 1 <= MostAttempts
        BY <1>2, <1>3, <2>2, Limits
      <3>2. row'[j] = NewRow("queued", row[j].attempt + 1)
        BY <1>1, <2>2
      <3> QED
        BY <2>2, <3>1, <3>2, NewRowType DEF Lost
    <2> QED
      BY <2>1, <2>2
  <1>5. TypeOK'
    BY <1>2, <1>4 DEF RecoverRequeue, TypeOK
  <1>6. UniqueKeys'
    BY <1>4, KeysKept DEF Active
  <1>7. Numbered' /\ RunsNumbered'
    BY <1>4, Limits DEF RecoverRequeue, Numbered, RunsNumbered, TypeOK, Row, Attempts
  <1>8. SweepLeft'
    <2>1. \A j \in Jobs : Lost(j)' => row'[j] = row[j]
      BY <1>4 DEF Lost
    <2>2. \A q \in Procs : sweep'[q] = "half" => sweep[q] = "half"
      BY DEF RecoverRequeue, TypeOK
    <2> QED
      BY <2>1, <2>2 DEF SweepLeft, Lost
  <1> QED
    BY <1>5, <1>6, <1>7, <1>8

\* What the end of a run does to its row.
LEMMA ResultGives ==
    ASSUME QueueInv, NEW r \in runs, Held(r), NEW succeeded \in BOOLEAN
    PROVE  /\ Result(r, succeeded) \in Row
           /\ Result(r, succeeded).status \in {"succeeded", "queued", "dead"}
           /\ Result(r, succeeded).status = "queued" =>
                /\ Result(r, succeeded).attempt = row[r.job].attempt + 1
                /\ Result(r, succeeded).attempt <= MostAttempts
  <1>1. r.attempt \in Attempts /\ row[r.job].attempt = r.attempt
    BY DEF QueueInv, TypeOK, Run, Held
  <1>2. CASE succeeded
    BY <1>1, <1>2, NewRowType DEF Result
  <1>3. CASE ~succeeded /\ r.attempt < RetryMax
    <2>1. r.attempt + 1 \in Attempts /\ r.attempt + 1 <= MostAttempts
      BY <1>1, <1>3, Limits
    <2>2. Result(r, succeeded) = NewRow("queued", r.attempt + 1)
      BY <1>3 DEF Result
    <2> QED
      BY <1>1, <2>1, <2>2, NewRowType
  <1>4. CASE ~succeeded /\ ~(r.attempt < RetryMax)
    BY <1>1, <1>4, NewRowType DEF Result
  <1> QED
    BY <1>2, <1>3, <1>4

\* A run ends or is left behind; its job's row may get a result.
LEMMA RunInv ==
    ASSUME QueueInv, NEW r \in runs, Settle(r) \/ SettleFails(r) \/ SlotReleased(r)
    PROVE  QueueInv'
  <1> USE DEF QueueInv
  <1>1. r.job \in Jobs /\ r.proc \in Procs /\ r \in Run
    BY DEF TypeOK, Run
  <1>2. /\ running' \in [Procs -> SUBSET Jobs]
        /\ runs' \subseteq Run
        /\ RunsNumbered'
    <2>1. CASE Gone(r)
      BY <1>1, <2>1 DEF Gone, TypeOK, RunsNumbered
    <2>2. CASE /\ runs' = (runs \ {r}) \cup {[r EXCEPT !.stage = "late"]}
               /\ UNCHANGED running
      <3>1. /\ [r EXCEPT !.stage = "late"] \in Run
            /\ [r EXCEPT !.stage = "late"].claim = r.claim
            /\ [r EXCEPT !.stage = "late"].attempt = r.attempt
        BY <1>1 DEF Run
      <3> QED
        BY <2>2, <3>1 DEF TypeOK, RunsNumbered
    <2> QED
      BY <2>1, <2>2 DEF Settle, SettleFails, SlotReleased
  <1>3. UNCHANGED <<claims, retried, pending, sweep, renewed, enq, proc>>
    BY DEF Settle, SettleFails, SlotReleased, db
  <1>4. CASE row' = row
    <2>1. TypeOK'
      BY <1>2, <1>3, <1>4 DEF TypeOK
    <2>2. UniqueKeys' /\ Numbered' /\ SweepLeft'
      BY <1>3, <1>4 DEF UniqueKeys, Numbered, SweepLeft, Lost
    <2> QED
      BY <1>2, <2>1, <2>2
  <1>5. ASSUME Held(r), NEW succeeded \in BOOLEAN,
               row' = [row EXCEPT ![r.job] = Result(r, succeeded)]
        PROVE  QueueInv'
    <2> DEFINE new == Result(r, succeeded)
    <2>1. /\ new \in Row /\ new.status \in {"succeeded", "queued", "dead"}
          /\ new.status = "queued" => /\ new.attempt = row[r.job].attempt + 1
                                      /\ new.attempt <= MostAttempts
          /\ row[r.job].status = "running"
      BY <1>5, ResultGives DEF Held
    <2> HIDE DEF new
    <2>2. /\ row' \in [Jobs -> Row] /\ row'[r.job] = new
          /\ \A j \in Jobs \ {r.job} : row'[j] = row[j]
      BY <1>1, <1>5, <2>1 DEF TypeOK, new
    <2>3. TypeOK'
      BY <1>2, <1>3, <2>2 DEF TypeOK
    <2>4. UniqueKeys'
      BY <1>1, <2>1, <2>2, KeysKept DEF Active
    <2>5. Numbered'
      BY <1>1, <1>3, <2>1, <2>2, Limits DEF Numbered, TypeOK, Row, Attempts
    <2>6. SweepLeft'
      BY <1>1, <1>3, <2>1, <2>2 DEF SweepLeft, Lost
    <2> QED
      BY <1>2, <2>3, <2>4, <2>5, <2>6
  <1> QED
    BY <1>4, <1>5 DEF Settle, SettleFails, SlotReleased, db

LEMMA ProcessInv ==
    ASSUME QueueInv, NEW p \in Procs, Start(p) \/ Crash(p)
    PROVE  QueueInv'
  <1> USE DEF QueueInv
  <1>1. TypeOK'
    BY DEF Start, Crash, TypeOK, db, memory
  <1>2. UNCHANGED <<row, claims, retried, enq>> /\ runs' \subseteq runs
        /\ \A q \in Procs : sweep'[q] = "half" => sweep[q] = "half"
    BY DEF Start, Crash, TypeOK, db, memory, RunsOf
  <1>3. UniqueKeys' /\ Numbered' /\ SweepLeft' /\ RunsNumbered'
    BY <1>2 DEF UniqueKeys, Numbered, SweepLeft, RunsNumbered, Lost
  <1> QED
    BY <1>1, <1>3

LEMMA QueueStep == QueueInv /\ [Next]_vars => QueueInv'
  <1> SUFFICES ASSUME QueueInv, [Next]_vars PROVE QueueInv'
    OBVIOUS
  <1>1. CASE UNCHANGED vars
    BY <1>1 DEF vars, db, memory, QueueInv, TypeOK, UniqueKeys, Numbered, SweepLeft,
                RunsNumbered, Lost
  <1> QED
    BY <1>1, EnqueueInv, AdminInv, TickInv, ClaimInv, RenewInv, TimeInv, RecoverDeadInv,
       RecoverRequeueInv, RunInv, ProcessInv DEF Next

LEMMA QueueInvariant == Spec => []QueueInv
  BY InitQueue, QueueStep, PTL DEF Spec

-----------------------------------------------------------------------------

\* At most one queued or running job per unique key, for any jobs and servers.
THEOREM QueueUniqueKeys == Spec => []UniqueKeys
  <1>1. QueueInv => UniqueKeys
    BY DEF QueueInv
  <1> QED
    BY <1>1, QueueInvariant, PTL

\* A job gets no more runs than its attempts, for any limit, through crashes.
THEOREM QueueAttemptsBounded == Spec => []AttemptsBounded
  <1>1. QueueInv => AttemptsBounded
    BY DEF QueueInv, Numbered, AttemptsBounded
  <1> QED
    BY <1>1, QueueInvariant, PTL

\* The numbers start again only for jobs an admin may retry.
Unretried == /\ \A j \in Jobs \ Retriable : retried[j] = 0
             /\ \A r \in runs : r.job \notin Retriable => r.claim[1] = 0

LEMMA UnretriedStep ==
    ASSUME QueueInv, Unretried, [Next]_vars
    PROVE  Unretried'
  <1>1. ASSUME NEW j \in Jobs, RetryJob(j) PROVE Unretried'
    BY <1>1 DEF RetryJob, Unretried, QueueInv, TypeOK, memory
  <1>2. ASSUME NEW p \in Procs, Claim(p) PROVE Unretried'
    <2>1. UNCHANGED retried /\ (runs' = runs \/ \E j \in Jobs : runs' = runs \cup {NewRun(p, j)})
      BY <1>2, ClaimCases DEF Claims
    <2>2. \A j \in Jobs : NewRun(p, j).job = j /\ NewRun(p, j).claim[1] = retried[j]
      BY DEF NewRun
    <2> QED
      BY <2>1, <2>2 DEF Unretried
  <1>3. ASSUME NEW r \in runs, Settle(r) PROVE Unretried'
    <2>1. r \in Run
      BY DEF QueueInv, TypeOK
    <2>2. [r EXCEPT !.stage = "late"].job = r.job /\ [r EXCEPT !.stage = "late"].claim = r.claim
      BY <2>1 DEF Run
    <2> QED
      BY <1>3, <2>2 DEF Settle, Gone, Unretried
  <1>4. CASE UNCHANGED retried /\ runs' \subseteq runs
    BY <1>4 DEF Unretried
  <1>5. ASSUME NEW r \in runs, SettleFails(r) \/ SlotReleased(r)
        PROVE  UNCHANGED retried /\ runs' \subseteq runs
    BY <1>5 DEF SettleFails, SlotReleased, Gone, db
  <1>6. ASSUME NEW p \in Procs,
               Start(p) \/ Crash(p) \/ Tick(p) \/ renewLeases(p)
                 \/ RecoverDead(p) \/ RecoverRequeue(p)
        PROVE  UNCHANGED retried /\ runs' \subseteq runs
    BY <1>6 DEF Start, Crash, Tick, renewLeases, RecoverDead, RecoverRequeue, db, memory
  <1>7. ASSUME NEW j \in Jobs, EnqueueInsert(j) \/ EnqueueLookup(j) \/ DiscardJob(j)
        PROVE  UNCHANGED retried /\ runs' \subseteq runs
    BY <1>7 DEF EnqueueInsert, EnqueueLookup, DiscardJob, db, memory
  <1>8. CASE TimePasses \/ UNCHANGED vars
    BY <1>4, <1>8 DEF TimePasses, vars, db, memory
  <1> QED
    BY <1>1, <1>2, <1>3, <1>4, <1>5, <1>6, <1>7, <1>8 DEF Next

LEMMA HolderIsLatest ==
    ASSUME QueueInv, Unretried, NEW r \in runs, Held(r), r.job \notin Retriable
    PROVE  r.claim = LatestClaim(r.job)
  <1>1. r.job \in Jobs /\ r.claim \in (0 .. MaxRetries) \X Nat /\ r.claim[2] = r.attempt
    BY DEF QueueInv, TypeOK, Run, RunsNumbered
  <1>2. claims[r.job] = r.attempt /\ retried[r.job] = 0 /\ r.claim[1] = 0
    BY <1>1 DEF QueueInv, TypeOK, Numbered, Held, Unretried
  <1> QED
    BY <1>1, <1>2 DEF LatestClaim

LateFinish ==
    \A r \in runs : r \notin runs' /\ row'[r.job] # row[r.job] /\ r.job \notin Retriable
                       => r.claim = LatestClaim(r.job)

LEMMA LateFinishStep ==
    ASSUME QueueInv, Unretried, [Next]_vars
    PROVE  LateFinish
  <1> SUFFICES ASSUME NEW r \in runs, r \notin runs', row'[r.job] # row[r.job],
                      r.job \notin Retriable
               PROVE  r.claim = LatestClaim(r.job)
    BY DEF LateFinish
  <1>1. PICK s \in runs : Settle(s)
    <2>1. CASE \E j \in Jobs : \/ EnqueueInsert(j) \/ EnqueueLookup(j)
                               \/ RetryJob(j) \/ DiscardJob(j)
      BY <2>1 DEF EnqueueInsert, EnqueueLookup, RetryJob, DiscardJob, memory
    <2>2. CASE \E p \in Procs : \/ Start(p) \/ Crash(p) \/ Tick(p)
                                \/ renewLeases(p) \/ RecoverDead(p) \/ RecoverRequeue(p)
      BY <2>2 DEF Start, Crash, Tick, renewLeases, RecoverDead, RecoverRequeue, memory, db
    <2>3. ASSUME NEW p \in Procs, Claim(p) PROVE FALSE
      BY <2>3, ClaimCases DEF Claims
    <2>4. CASE \E s \in runs : SettleFails(s) \/ SlotReleased(s)
      BY <2>4 DEF SettleFails, SlotReleased, db
    <2>5. CASE TimePasses \/ UNCHANGED vars
      BY <2>5 DEF TimePasses, vars, memory
    <2> QED
      BY <2>1, <2>2, <2>3, <2>4, <2>5 DEF Next
  <1>2. r = s /\ Held(s)
    BY <1>1 DEF Settle, Gone
  <1> QED
    BY <1>2, HolderIsLatest

\* A late finish can't overwrite a newer attempt of a job no admin retries, for
\* any servers and limits, whatever stalls or crashes.
THEOREM QueueLateFinishIgnored == Spec => LateFinishIgnored
  <1>1. Init => Unretried
    BY DEF Init, Unretried
  <1>2. QueueInv /\ Unretried /\ [Next]_vars => Unretried' /\ [LateFinish]_vars
    BY UnretriedStep, LateFinishStep
  <1>3. Spec => [][LateFinish]_vars
    BY <1>1, <1>2, QueueInvariant, PTL DEF Spec
  <1> QED
    BY <1>3 DEF LateFinishIgnored, LateFinish

-----------------------------------------------------------------------------
(* Leases. *)

\* A run of a process that renews holds its row, with time left: one interval
\* at least, two once it has renewed in this one.
LeasesKept == \A r \in runs :
    Steady(r.proc) =>
        /\ r.stage = "script"
        /\ Held(r)
        /\ r.claim = LatestClaim(r.job)
        /\ Up(r.proc)
        /\ r.job \in running[r.proc]
        /\ row[r.job].lease > 0
        /\ r.proc \in renewed => row[r.job].lease > 1

\* The row stays as it is, and so do the renewals.
LEMMA LeasesUndisturbed ==
    ASSUME QueueInv, LeasesKept, runs' \subseteq runs,
           \A r \in runs' : /\ row'[r.job] = row[r.job]
                            /\ claims'[r.job] = claims[r.job]
                            /\ retried'[r.job] = retried[r.job]
                            /\ proc'[r.proc] = proc[r.proc]
                            /\ (Steady(r.proc) => r.job \in running'[r.proc]),
           renewed' \subseteq renewed
    PROVE  LeasesKept'
  BY DEF LeasesKept, Held, LatestClaim, Up

\* A job that runs under a lease is running.
LEMMA HeldIsRunning ==
    ASSUME QueueInv, LeasesKept, NEW r \in runs, Steady(r.proc)
    PROVE  row[r.job].status = "running" /\ row[r.job].lease > 0 /\ ~Lost(r.job)
  BY DEF LeasesKept, Held, Lost

LEMMA EnqueueKeepsLeases ==
    ASSUME QueueInv, LeasesKept, NEW j \in Jobs,
           EnqueueInsert(j) \/ EnqueueLookup(j) \/ RetryJob(j) \/ DiscardJob(j)
    PROVE  LeasesKept'
  <1>1. /\ UNCHANGED <<memory, proc>>
        /\ row[j].status \notin {"running"} \/ UNCHANGED <<row, claims, retried>>
    BY DEF EnqueueInsert, EnqueueLookup, RetryJob, DiscardJob, QueueInv, Numbered, db
  <1>2. \A i \in Jobs \ {j} : row'[i] = row[i] /\ claims'[i] = claims[i] /\ retried'[i] = retried[i]
    BY DEF EnqueueInsert, EnqueueLookup, RetryJob, DiscardJob, QueueInv, TypeOK, db
  <1>3. \A r \in runs : r.job \in Jobs
    BY DEF QueueInv, TypeOK, Run
  <1>4. \A r \in runs : Steady(r.proc) =>
          /\ row'[r.job] = row[r.job]
          /\ claims'[r.job] = claims[r.job]
          /\ retried'[r.job] = retried[r.job]
    <2> TAKE r \in runs
    <2> HAVE Steady(r.proc)
    <2>1. row[r.job].status = "running"
      BY HeldIsRunning
    <2> QED
      BY <1>1, <1>2, <1>3, <2>1
  <1>5. UNCHANGED <<runs, running, renewed, proc>>
    BY <1>1 DEF memory
  <1> QED
    BY <1>4, <1>5 DEF LeasesKept, Held, LatestClaim, Up

LEMMA ClaimKeepsLeases ==
    ASSUME QueueInv, LeasesKept, LeaseTime > 1, NEW p \in Procs, Claim(p)
    PROVE  LeasesKept'
  <1>1. CASE UNCHANGED <<row, running, runs, claims>>
    BY <1>1, ClaimCases DEF LeasesKept, Held, LatestClaim, Up
  <1>2. ASSUME NEW j \in Jobs, Claims(p, j) PROVE LeasesKept'
    <2> DEFINE new == NewRun(p, j)
    <2>1. /\ row[j] \in Row /\ row[j].status = "queued"
          /\ \A i \in Jobs \ {j} : row'[i] = row[i] /\ claims'[i] = claims[i]
          /\ claims'[j] = claims[j] + 1
      BY <1>2 DEF Claims, QueueInv, TypeOK
    <2>2. row'[j] = [row[j] EXCEPT !.status = "running", !.owner = p, !.lease = LeaseTime]
      BY <1>2 DEF Claims, QueueInv, TypeOK
    <2>3. /\ row'[j].status = "running" /\ row'[j].owner = p
          /\ row'[j].lease = LeaseTime /\ row'[j].attempt = row[j].attempt
      BY <2>1, <2>2 DEF Row
    <2>4. /\ new.job = j /\ new.proc = p /\ new.attempt = row[j].attempt
          /\ new.stage = "script" /\ new.claim = <<retried[j], claims[j] + 1>>
      BY DEF NewRun
    <2>5. runs' = runs \cup {new} /\ UNCHANGED <<renewed, proc, retried>>
      BY <1>2, ClaimCases DEF Claims
    <2>6. \A q \in Procs : running[q] \subseteq running'[q]
      BY <1>2 DEF Claims, QueueInv, TypeOK
    <2>7. j \in running'[p]
      BY <1>2 DEF Claims, QueueInv, TypeOK
    <2>8. Up(p)
      BY DEF Claim
    <2>9. \A r \in runs : r.job \in Jobs /\ r.proc \in Procs
      BY DEF QueueInv, TypeOK, Run
    <2> HIDE DEF new
    <2> SUFFICES ASSUME NEW r \in runs', Steady(r.proc)
                 PROVE  /\ r.stage = "script" /\ Held(r)' /\ (r.claim = LatestClaim(r.job))'
                        /\ Up(r.proc)' /\ r.job \in running'[r.proc]
                        /\ row'[r.job].lease > 0
                        /\ r.proc \in renewed' => row'[r.job].lease > 1
      BY DEF LeasesKept
    <2>10. CASE r = new
      BY <2>1, <2>3, <2>4, <2>5, <2>7, <2>8, <2>10, QueueAssumption DEF Held, LatestClaim, Up
    <2>11. CASE r \in runs
      <3>1. r.job # j /\ r.job \in Jobs /\ r.proc \in Procs
        BY <2>1, <2>9, <2>11, HeldIsRunning
      <3> QED
        BY <2>1, <2>5, <2>6, <2>11, <3>1 DEF LeasesKept, Held, LatestClaim, Up
    <2> QED
      BY <2>5, <2>10, <2>11
  <1> QED
    BY <1>1, <1>2, ClaimCases

LEMMA RenewKeepsLeases ==
    ASSUME QueueInv, LeasesKept, LeaseTime > 1, NEW p \in Procs, renewLeases(p)
    PROVE  LeasesKept'
  <1> SUFFICES ASSUME NEW r \in runs, Steady(r.proc)
               PROVE  /\ Held(r)' /\ row'[r.job].lease > 0
                      /\ r.proc \in renewed' => row'[r.job].lease > 1
    BY DEF renewLeases, LeasesKept, LatestClaim, Up
  <1>1. r.job \in Jobs /\ row[r.job] \in Row
    BY DEF QueueInv, TypeOK, Run
  <1>2. /\ Held(r) /\ r.job \in running[r.proc] /\ row[r.job].lease > 0
        /\ r.proc \in renewed => row[r.job].lease > 1
    BY DEF LeasesKept
  <1>3. CASE r.proc = p
    <2>1. row'[r.job] = [row[r.job] EXCEPT !.lease = LeaseTime]
      BY <1>1, <1>2, <1>3 DEF renewLeases, Held
    <2>2. /\ row'[r.job].lease = LeaseTime /\ row'[r.job].status = row[r.job].status
          /\ row'[r.job].attempt = row[r.job].attempt /\ row'[r.job].owner = row[r.job].owner
      BY <1>1, <2>1 DEF Row
    <2> QED
      BY <1>2, <2>2, QueueAssumption DEF Held
  <1>4. CASE r.proc # p
    <2>1. row'[r.job] = row[r.job]
      BY <1>1, <1>2, <1>4 DEF renewLeases, Held
    <2> QED
      BY <1>2, <1>4, <2>1 DEF Held, renewLeases
  <1> QED
    BY <1>3, <1>4

LEMMA TimeKeepsLeases ==
    ASSUME QueueInv, LeasesKept, TimePasses
    PROVE  LeasesKept'
  <1> SUFFICES ASSUME NEW r \in runs, Steady(r.proc)
               PROVE  Held(r)' /\ row'[r.job].lease > 0
    BY DEF TimePasses, LeasesKept, LatestClaim, Up
  <1>1. r.job \in Jobs /\ row[r.job] \in Row /\ r.proc \in Procs
    BY DEF QueueInv, TypeOK, Run
  <1>2. Held(r) /\ row[r.job].lease > 1
    BY <1>1 DEF LeasesKept, TimePasses, Steady
  <1>3. row'[r.job] = [row[r.job] EXCEPT !.lease = row[r.job].lease - 1]
    BY <1>1, <1>2 DEF TimePasses, Row, Leases
  <1>4. /\ row'[r.job].lease = row[r.job].lease - 1 /\ row'[r.job].status = row[r.job].status
        /\ row'[r.job].attempt = row[r.job].attempt /\ row'[r.job].owner = row[r.job].owner
    BY <1>1, <1>3 DEF Row
  <1>5. row[r.job].lease - 1 > 0
    BY <1>1, <1>2, QueueAssumption DEF Row, Leases
  <1> QED
    BY <1>2, <1>4, <1>5 DEF Held

LEMMA RecoveryKeepsLeases ==
    ASSUME QueueInv, LeasesKept, NEW p \in Procs, RecoverDead(p) \/ RecoverRequeue(p)
    PROVE  LeasesKept'
  <1>1. \A j \in Jobs : ~Lost(j) => row'[j] = row[j]
    BY DEF RecoverDead, RecoverRequeue
  <1>2. \A r \in runs : r.job \in Jobs
    BY DEF QueueInv, TypeOK, Run
  <1>3. UNCHANGED <<claims, retried, renewed, running, runs, proc>>
    BY DEF RecoverDead, RecoverRequeue
  <1> QED
    BY <1>1, <1>2, <1>3, HeldIsRunning DEF LeasesKept, Held, LatestClaim, Up

LEMMA RunKeepsLeases ==
    ASSUME QueueInv, LeasesKept, NEW s \in runs,
           Settle(s) \/ SettleFails(s) \/ SlotReleased(s)
    PROVE  LeasesKept'
  <1>0. s \in Run
    BY DEF QueueInv, TypeOK
  <1>1. UNCHANGED <<claims, retried, renewed, proc>>
    BY DEF Settle, SettleFails, SlotReleased, db
  <1>2. row' = row \/ (Held(s) /\ \A j \in Jobs \ {s.job} : row'[j] = row[j])
    BY DEF Settle, SettleFails, SlotReleased, QueueInv, TypeOK, db
  <1>3. /\ \A r \in runs' : Steady(r.proc) => r \in runs \ {s}
        /\ \A q \in Procs : \A j \in running[q] :
             q # s.proc \/ j # s.job => j \in running'[q]
    <2>1. CASE Gone(s)
      BY <1>0, <2>1 DEF Gone, QueueInv, TypeOK
    <2>2. CASE /\ s.proc \in MayOverrun
               /\ runs' = (runs \ {s}) \cup {[s EXCEPT !.stage = "late"]}
               /\ UNCHANGED running
      <3>1. [s EXCEPT !.stage = "late"].proc = s.proc
        BY <1>0 DEF Run
      <3> QED
        BY <2>2, <3>1 DEF Steady
    <2> QED
      BY <2>1, <2>2 DEF Settle, SettleFails, SlotReleased
  <1> SUFFICES ASSUME NEW r \in runs \ {s}, Steady(r.proc)
               PROVE  row'[r.job] = row[r.job] /\ r.job \in running'[r.proc]
    BY <1>1, <1>3 DEF LeasesKept, Held, LatestClaim, Up
  <1>4. /\ r.stage = "script" /\ Held(r) /\ r.claim = LatestClaim(r.job)
        /\ r.job \in running[r.proc] /\ r \in Run
    BY DEF LeasesKept, QueueInv, TypeOK
  \* Two runs of a steady process are never of the same job.
  <1>5. s.job = r.job => s.proc # r.proc
    <2> SUFFICES ASSUME s.job = r.job, s.proc = r.proc PROVE s = r
      OBVIOUS
    <2>1. s.stage = "script" /\ Held(s) /\ s.claim = LatestClaim(s.job)
      BY DEF LeasesKept
    <2> QED
      BY <1>0, <1>4, <2>1 DEF Run, Held
  <1>6. r.job \in running'[r.proc]
    BY <1>3, <1>4, <1>5 DEF Run
  <1>7. row'[r.job] = row[r.job]
    BY <1>0, <1>2, <1>4, <1>5 DEF Held, Run
  <1> QED
    BY <1>6, <1>7

LEMMA ProcessKeepsLeases ==
    ASSUME QueueInv, LeasesKept, NEW p \in Procs, Start(p) \/ Crash(p)
    PROVE  LeasesKept'
  <1>1. \A r \in runs : r.proc \in Procs /\ (Steady(r.proc) => Up(r.proc))
    BY DEF QueueInv, TypeOK, Run, LeasesKept
  <1>2. CASE Start(p)
    <2>1. \A r \in runs : Steady(r.proc) => Up(r.proc)'
      BY <1>1, <1>2 DEF Start, Up, QueueInv, TypeOK
    <2> QED
      BY <1>2, <2>1 DEF Start, db, memory, LeasesKept, Held, LatestClaim
  <1>3. CASE Crash(p)
    <2>1. /\ runs' = {r \in runs : r.proc # p} /\ renewed' \subseteq renewed
          /\ \A q \in Procs \ {p} : proc'[q] = proc[q] /\ running'[q] = running[q]
          /\ UNCHANGED <<row, claims, retried>>
      BY <1>3 DEF Crash, RunsOf, db, QueueInv, TypeOK
    <2> QED
      BY <1>1, <2>1 DEF LeasesKept, Held, LatestClaim, Up
  <1> QED
    BY <1>2, <1>3

LEMMA LeasesStep ==
    ASSUME QueueInv, LeasesKept, LeaseTime > 1, [Next]_vars
    PROVE  LeasesKept'
  <1>1. CASE UNCHANGED vars \/ \E p \in Procs : Tick(p)
    BY <1>1 DEF vars, memory, db, Tick, LeasesKept, Held, LatestClaim, Up
  <1> QED
    BY <1>1, EnqueueKeepsLeases, ClaimKeepsLeases, RenewKeepsLeases, TimeKeepsLeases,
       RecoveryKeepsLeases, RunKeepsLeases, ProcessKeepsLeases DEF Next

\* When a lease outlasts a renewal interval, no job of a steady server is taken
\* over, for any number of servers, jobs and attempts, whatever the others do.
THEOREM QueueNoTakeover ==
  ASSUME LeaseTime > 1
  PROVE  Spec => []NoTakeover
  <1>1. Init => LeasesKept
    BY DEF Init, LeasesKept
  <1>2. LeasesKept => NoTakeover
    BY DEF LeasesKept, NoTakeover
  <1>3. QueueInv /\ LeasesKept /\ [Next]_vars => LeasesKept'
    BY LeasesStep
  <1> QED
    BY <1>1, <1>2, <1>3, QueueInvariant, PTL DEF Spec


-----------------------------------------------------------------------------
(* Concurrency: what a tick has read and not claimed has a slot already, so *)
(* the pending rows and the runs of a process share its slots.              *)

SlotsCounted == \A p \in Procs :
    /\ IsFiniteSet(pending[p]) /\ IsFiniteSet(RunsOf(p))
    /\ Cardinality(pending[p]) + Cardinality(RunsOf(p)) <= Concurrency

\* With no more pending and no more under way, the slots suffice as before.
LEMMA FewerSlots ==
    ASSUME SlotsCounted,
           \A p \in Procs : pending'[p] \subseteq pending[p] /\ RunsOf(p)' \subseteq RunsOf(p)
    PROVE  SlotsCounted'
  <1> SUFFICES ASSUME NEW p \in Procs
               PROVE  /\ IsFiniteSet(pending'[p]) /\ IsFiniteSet(RunsOf(p)')
                      /\ Cardinality(pending'[p]) + Cardinality(RunsOf(p)') <= Concurrency
    BY DEF SlotsCounted
  <1>1. /\ IsFiniteSet(pending[p]) /\ IsFiniteSet(RunsOf(p))
        /\ Cardinality(pending[p]) + Cardinality(RunsOf(p)) <= Concurrency
    BY DEF SlotsCounted
  <1>2. /\ IsFiniteSet(pending'[p])
        /\ Cardinality(pending'[p]) <= Cardinality(pending[p])
    BY <1>1, FS_Subset
  <1>3. /\ IsFiniteSet(RunsOf(p)')
        /\ Cardinality(RunsOf(p)') <= Cardinality(RunsOf(p))
    BY <1>1, FS_Subset
  <1>4. /\ Cardinality(pending[p]) \in Nat /\ Cardinality(RunsOf(p)) \in Nat
        /\ Cardinality(pending'[p]) \in Nat /\ Cardinality(RunsOf(p)') \in Nat
    BY <1>1, <1>2, <1>3, FS_CardinalityType
  <1> QED
    BY <1>1, <1>2, <1>3, <1>4, QueueAssumption

LEMMA AtMostOneMore ==
    ASSUME NEW S, IsFiniteSet(S), NEW x
    PROVE  /\ IsFiniteSet(S \cup {x})
           /\ Cardinality(S) \in Nat /\ Cardinality(S \cup {x}) \in Nat
           /\ Cardinality(S \cup {x}) <= Cardinality(S) + 1
  <1>1. IsFiniteSet(S \cup {x})
    BY FS_AddElement
  <1>2. Cardinality(S \cup {x}) = IF x \in S THEN Cardinality(S) ELSE Cardinality(S) + 1
    BY FS_AddElement
  <1>3. Cardinality(S) \in Nat /\ Cardinality(S \cup {x}) \in Nat
    BY <1>1, FS_CardinalityType
  <1> QED
    BY <1>1, <1>2, <1>3

LEMMA TickCounts ==
    ASSUME IsFiniteSet(Jobs), QueueInv, SlotsCounted, NEW p \in Procs, Tick(p)
    PROVE  SlotsCounted'
  <1>1. PICK S \in SUBSET {j \in Jobs : row[j].status = "queued"} :
          /\ Cardinality(S) + Cardinality(RunsOf(p)) <= Concurrency
          /\ pending' = [pending EXCEPT ![p] = {<<j, row[j].attempt>> : j \in S}]
    BY DEF Tick
  <1> DEFINE T == {<<j, row[j].attempt>> : j \in S}
             reads == [j \in S |-> <<j, row[j].attempt>>]
  <1>2. S \in SUBSET Jobs
    OBVIOUS
  <1>3. IsFiniteSet(S)
    BY <1>2, FS_Subset
  <1>4. reads \in Surjection(S, T)
    BY DEF Surjection
  <1>5. IsFiniteSet(T) /\ Cardinality(T) <= Cardinality(S)
    <2> HIDE DEF T, reads
    <2> QED
      BY <1>3, <1>4, FS_Surjection
  <1>6. pending'[p] = T /\ \A q \in Procs \ {p} : pending'[q] = pending[q]
    BY <1>1 DEF QueueInv, TypeOK
  <1>7. \A q \in Procs : RunsOf(q)' = RunsOf(q)
    BY DEF Tick, RunsOf
  <1> HIDE DEF T, reads
  <1>8. Cardinality(T) + Cardinality(RunsOf(p)) <= Concurrency
    <2>1. Cardinality(T) \in Nat /\ Cardinality(S) \in Nat /\ Cardinality(RunsOf(p)) \in Nat
      BY <1>3, <1>5, FS_CardinalityType DEF SlotsCounted
    <2> QED
      BY <1>1, <1>5, <2>1, QueueAssumption
  <1>9. ASSUME NEW q \in Procs
        PROVE  /\ IsFiniteSet(pending'[q]) /\ IsFiniteSet(RunsOf(q)')
               /\ Cardinality(pending'[q]) + Cardinality(RunsOf(q)') <= Concurrency
    BY <1>5, <1>6, <1>7, <1>8 DEF SlotsCounted
  <1> QED
    BY <1>9 DEF SlotsCounted

\* A claim gives its slot to the run it starts.
LEMMA ClaimCounts ==
    ASSUME QueueInv, SlotsCounted, NEW p \in Procs, Claim(p)
    PROVE  SlotsCounted'
  <1>1. PICK read \in pending[p] :
          /\ pending' = [pending EXCEPT ![p] = @ \ {read}]
          /\ \/ runs' = runs
             \/ runs' = runs \cup {NewRun(p, read[1])}
    <2>1. PICK read \in pending[p] :
            /\ pending' = [pending EXCEPT ![p] = @ \ {read}]
            /\ IF row[read[1]].status = "queued" /\ row[read[1]].attempt = read[2]
               THEN Claims(p, read[1])
               ELSE UNCHANGED <<row, running, runs, claims>>
      BY Zenon DEF Claim, Claims
    <2> QED
      BY <2>1 DEF Claims
  <1>2. pending'[p] = pending[p] \ {read} /\ \A q \in Procs \ {p} : pending'[q] = pending[q]
    BY <1>1 DEF QueueInv, TypeOK
  <1>3. CASE runs' = runs
    <2>1. \A q \in Procs : pending'[q] \subseteq pending[q] /\ RunsOf(q)' \subseteq RunsOf(q)
      BY <1>2, <1>3 DEF RunsOf
    <2> QED
      BY <2>1, FewerSlots
  <1>4. CASE runs' = runs \cup {NewRun(p, read[1])}
    <2>1. PICK n : n = NewRun(p, read[1])
      OBVIOUS
    <2>2. n.proc = p
      BY <2>1 DEF NewRun
    <2>3. /\ RunsOf(p)' = RunsOf(p) \cup {n}
          /\ \A q \in Procs \ {p} : RunsOf(q)' = RunsOf(q)
      BY <1>4, <2>1, <2>2 DEF RunsOf
    <2>4. PICK R, D : R = RunsOf(p) /\ D = pending[p]
      OBVIOUS
    <2>5. /\ IsFiniteSet(R) /\ IsFiniteSet(D) /\ read \in D
          /\ Cardinality(D) + Cardinality(R) <= Concurrency
      BY <2>4 DEF SlotsCounted
    <2>6. /\ IsFiniteSet(R \cup {n}) /\ Cardinality(R \cup {n}) <= Cardinality(R) + 1
          /\ Cardinality(R) \in Nat
      BY <2>5, AtMostOneMore
    <2>7. /\ IsFiniteSet(D \ {read}) /\ Cardinality(D \ {read}) = Cardinality(D) - 1
          /\ Cardinality(D) \in Nat
      BY <2>5, FS_RemoveElement, FS_CardinalityType
    <2>8. Cardinality(R \cup {n}) \in Nat
      BY <2>5, AtMostOneMore
    <2>9. Cardinality(D \ {read}) + Cardinality(R \cup {n}) <= Concurrency
      BY <2>5, <2>6, <2>7, <2>8, QueueAssumption
    <2>10. ASSUME NEW q \in Procs
           PROVE  /\ IsFiniteSet(pending'[q]) /\ IsFiniteSet(RunsOf(q)')
                  /\ Cardinality(pending'[q]) + Cardinality(RunsOf(q)') <= Concurrency
      <3>1. CASE q = p
        BY <1>2, <2>3, <2>4, <2>6, <2>7, <2>9, <3>1
      <3>2. CASE q # p
        BY <1>2, <2>3, <3>2 DEF SlotsCounted
      <3> QED
        BY <3>1, <3>2
    <2> QED
      BY <2>10 DEF SlotsCounted
  <1> QED
    BY <1>1, <1>3, <1>4

\* A script that outlives its limit keeps the slot its run had.
LEMMA RunCounts ==
    ASSUME QueueInv, SlotsCounted, NEW r \in runs, Settle(r) \/ SettleFails(r) \/ SlotReleased(r)
    PROVE  SlotsCounted'
  <1>1. UNCHANGED pending
    BY DEF Settle, SettleFails, SlotReleased
  <1>2. CASE runs' = runs \ {r}
    <2>1. \A q \in Procs : pending'[q] \subseteq pending[q] /\ RunsOf(q)' \subseteq RunsOf(q)
      BY <1>1, <1>2 DEF RunsOf
    <2> QED
      BY <2>1, FewerSlots
  <1>3. CASE runs' = (runs \ {r}) \cup {[r EXCEPT !.stage = "late"]}
    <2>1. PICK l : l = [r EXCEPT !.stage = "late"]
      OBVIOUS
    <2>2. PICK p \in Procs : r.proc = p /\ l.proc = p
      BY <2>1 DEF QueueInv, TypeOK, Run
    <2>3. /\ RunsOf(p)' = (RunsOf(p) \ {r}) \cup {l} /\ r \in RunsOf(p)
          /\ \A q \in Procs \ {p} : RunsOf(q)' = RunsOf(q)
      BY <1>3, <2>1, <2>2 DEF RunsOf
    <2>4. PICK R, S : R = RunsOf(p) /\ S = R \ {r}
      OBVIOUS
    <2>5. IsFiniteSet(R) /\ r \in R /\ RunsOf(p)' = S \cup {l}
      BY <2>3, <2>4 DEF SlotsCounted
    <2>6. /\ IsFiniteSet(S) /\ Cardinality(S) = Cardinality(R) - 1
          /\ Cardinality(R) \in Nat /\ Cardinality(S) \in Nat
      BY <2>4, <2>5, FS_RemoveElement, FS_CardinalityType
    <2>7. /\ IsFiniteSet(S \cup {l}) /\ Cardinality(S \cup {l}) <= Cardinality(R)
          /\ Cardinality(S \cup {l}) \in Nat
      <3>1. /\ IsFiniteSet(S \cup {l}) /\ Cardinality(S \cup {l}) \in Nat
            /\ Cardinality(S \cup {l}) <= Cardinality(S) + 1
        BY <2>6, AtMostOneMore
      <3> QED
        BY <2>6, <3>1
    <2>8. ASSUME NEW q \in Procs
          PROVE  /\ IsFiniteSet(pending'[q]) /\ IsFiniteSet(RunsOf(q)')
                 /\ Cardinality(pending'[q]) + Cardinality(RunsOf(q)') <= Concurrency
      <3>1. CASE q = p
        <4>1. /\ Cardinality(pending[p]) + Cardinality(R) <= Concurrency
              /\ Cardinality(pending[p]) \in Nat /\ IsFiniteSet(pending[p])
          BY <2>4, FS_CardinalityType DEF SlotsCounted
        <4> QED
          BY <1>1, <2>5, <2>6, <2>7, <3>1, <4>1, QueueAssumption
      <3>2. CASE q # p
        BY <1>1, <2>3, <3>2 DEF SlotsCounted
      <3> QED
        BY <3>1, <3>2
    <2> QED
      BY <2>8 DEF SlotsCounted
  <1> QED
    BY <1>2, <1>3 DEF Settle, SettleFails, SlotReleased, Gone

LEMMA SlotsStep ==
    ASSUME IsFiniteSet(Jobs), QueueInv, SlotsCounted, [Next]_vars
    PROVE  SlotsCounted'
  <1>1. CASE UNCHANGED <<pending, runs>>
    <2>1. \A q \in Procs : pending'[q] \subseteq pending[q] /\ RunsOf(q)' \subseteq RunsOf(q)
      BY <1>1 DEF RunsOf
    <2> QED
      BY <2>1, FewerSlots
  <1>2. ASSUME NEW j \in Jobs, EnqueueInsert(j) \/ EnqueueLookup(j) \/ RetryJob(j) \/ DiscardJob(j)
        PROVE  UNCHANGED <<pending, runs>>
    BY <1>2 DEF EnqueueInsert, EnqueueLookup, RetryJob, DiscardJob, memory
  <1>3. ASSUME NEW p \in Procs, Start(p) \/ renewLeases(p) \/ RecoverDead(p) \/ RecoverRequeue(p)
        PROVE  UNCHANGED <<pending, runs>>
    BY <1>3 DEF Start, renewLeases, RecoverDead, RecoverRequeue, memory
  <1>4. ASSUME NEW p \in Procs, Crash(p) PROVE SlotsCounted'
    <2>1. \A q \in Procs : pending'[q] \subseteq pending[q] /\ RunsOf(q)' \subseteq RunsOf(q)
      BY <1>4 DEF Crash, RunsOf, QueueInv, TypeOK
    <2> QED
      BY <2>1, FewerSlots
  <1>5. CASE TimePasses
    BY <1>1, <1>5 DEF TimePasses
  <1>6. CASE UNCHANGED vars
    BY <1>1, <1>6 DEF vars, memory
  <1> QED
    BY <1>1, <1>2, <1>3, <1>4, <1>5, <1>6, TickCounts, ClaimCounts, RunCounts DEF Next

\* When there are finitely many jobs, no process runs more of them at a time
\* than its worker's concurrency, those left behind by a time limit included,
\* for any number of servers, jobs and slots.
THEOREM QueueConcurrency ==
  ASSUME IsFiniteSet(Jobs)
  PROVE  Spec => []ConcurrencyKept
  <1>1. Init => SlotsCounted
    <2> SUFFICES ASSUME Init, NEW p \in Procs
                 PROVE  /\ IsFiniteSet(pending[p]) /\ IsFiniteSet(RunsOf(p))
                        /\ Cardinality(pending[p]) + Cardinality(RunsOf(p)) <= Concurrency
      BY DEF SlotsCounted
    <2>1. pending[p] = {} /\ RunsOf(p) = {}
      BY DEF Init, RunsOf
    <2> QED
      BY <2>1, FS_EmptySet, QueueAssumption
  <1>2. SlotsCounted => ConcurrencyKept
    <2> SUFFICES ASSUME SlotsCounted, NEW p \in Procs
                 PROVE  Cardinality(RunsOf(p)) <= Concurrency
      BY DEF ConcurrencyKept
    <2>1. /\ Cardinality(pending[p]) \in Nat /\ Cardinality(RunsOf(p)) \in Nat
          /\ Cardinality(pending[p]) + Cardinality(RunsOf(p)) <= Concurrency
      BY FS_CardinalityType DEF SlotsCounted
    <2> QED
      BY <2>1, QueueAssumption
  <1>3. QueueInv /\ SlotsCounted /\ [Next]_vars => SlotsCounted'
    BY SlotsStep
  <1> QED
    BY <1>1, <1>2, <1>3, QueueInvariant, PTL DEF Spec

=============================================================================
