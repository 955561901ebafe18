------------------------------- MODULE JobQueue -------------------------------
(***************************************************************************)
(* The job queue (src/src/core/queues.ts): rows of vaultbase_jobs_log that *)
(* several server processes on one database claim, run under a lease and   *)
(* settle.                                                                 *)
(*                                                                         *)
(* A process is an incarnation: PROCESS_ID is drawn at start, so one that  *)
(* crashes never comes back under the same name.  A claim is numbered      *)
(* within its job; the run it starts lives in the memory of its process.   *)
(* Time is counted in renewal intervals (LEASE_RENEW_MS): a lease lasts    *)
(* LeaseTime of them, and a process that does not stall renews in each.    *)
(* One queue, with one worker: the first one serves it on every server.    *)
(***************************************************************************)
EXTENDS Naturals, FiniteSets

CONSTANTS Procs,        \* the server processes
          Jobs,         \* the job ids
          Keys,         \* the unique keys
          KeyOf,        \* the key each job is enqueued with, or NoKey
          NoKey,
          NoProc,
          RetryMax,     \* the attempt limit of a job
          Concurrency,  \* of the worker, in each process
          LeaseTime,    \* how many renewal intervals a lease lasts
          MaxTries,     \* rounds of the enqueue loop
          Retriable,    \* the jobs an admin may retry
          MaxRetries,   \* bound: retries of each of them
          MayStall,     \* the processes that may miss a renewal
          MayOverrun,   \* those where scripts may outlive their time limit
          WriteFails    \* whether writing a result may fail

ASSUME QueueAssumption == /\ KeyOf \in [Jobs -> Keys \cup {NoKey}]
                          /\ NoKey \notin Keys
                          /\ NoProc \notin Procs
                          /\ RetryMax \in Nat
                          /\ Concurrency \in Nat \ {0}
                          /\ LeaseTime \in Nat \ {0}
                          /\ MaxTries \in Nat \ {0}
                          /\ Retriable \subseteq Jobs
                          /\ MaxRetries \in Nat
                          /\ MayStall \subseteq Procs
                          /\ MayOverrun \subseteq Procs
                          /\ WriteFails \in BOOLEAN

VARIABLES row,       \* the job rows
          enq,       \* the enqueue call of each job: its stage and its tries
          proc,      \* "off", "up" or "down", of each process
          pending,   \* the rows the tick of a process has read and not claimed
          sweep,     \* the recovery sweep of each process in this interval
          renewed,   \* the processes that have renewed in this interval
          running,   \* what each process believes it is running (renewLeases)
          runs,      \* the runs under way, and those left behind by a time limit
          retried,   \* history: retries by an admin, of each job
          claims     \* history: claims of each job since the last of them

db == <<row, claims, retried>>
memory == <<pending, sweep, renewed, running, runs>>
vars == <<db, memory, enq, proc>>

Active == {"queued", "running"}

Attempts == 1 .. RetryMax + 1

\* Intervals left to a lease.
Leases == 0 .. LeaseTime

\* The attempts a job is worth: one at least.
MostAttempts == IF RetryMax = 0 THEN 1 ELSE RetryMax

Row == [status : {"none", "queued", "running", "succeeded", "dead", "discarded"},
        attempt : Attempts, owner : Procs \cup {NoProc}, lease : Leases]

\* A run: of which job, under which claim, at which attempt, where; whether
\* its result is still to be written or the script only holds its slot.
Run == [job : Jobs, claim : Nat \X Nat, attempt : Attempts, proc : Procs,
        stage : {"script", "late"}]

\* The name of a job's latest claim.
LatestClaim(j) == <<retried[j], claims[j]>>

NewRow(status, attempt) ==
    [status |-> status, attempt |-> attempt, owner |-> NoProc, lease |-> 0]

Init == /\ row = [j \in Jobs |-> NewRow("none", 1)]
        /\ enq = [j \in Jobs |-> [stage |-> "none", tries |-> 0]]
        /\ proc = [p \in Procs |-> "off"]
        /\ pending = [p \in Procs |-> {}]
        /\ sweep = [p \in Procs |-> "due"]
        /\ renewed = {}
        /\ running = [p \in Procs |-> {}]
        /\ runs = {}
        /\ claims = [j \in Jobs |-> 0]
        /\ retried = [j \in Jobs |-> 0]

Up(p) == proc[p] = "up"

RunsOf(p) == {r \in runs : r.proc = p}

-----------------------------------------------------------------------------
(* Unique keys: a partial unique index over the queued and running jobs.   *)

\* Mutant: the index covers the queued jobs only.
IndexOfQueued(j) == {k \in Jobs \ {j} : /\ KeyOf[j] # NoKey
                                        /\ KeyOf[k] = KeyOf[j]
                                        /\ row[k].status = "queued"}

\* The jobs that stand in the way of j being queued.
Conflicts(j) == {k \in Jobs \ {j} : /\ KeyOf[j] # NoKey
                                    /\ KeyOf[k] = KeyOf[j]
                                    /\ row[k].status \in Active}

\* enqueue: the insert, which does nothing on a conflict.
EnqueueInsert(j) ==
    /\ enq[j].stage \in {"none", "insert"}
    /\ \E p \in Procs : Up(p)
    /\ IF Conflicts(j) = {}
       THEN /\ row' = [row EXCEPT ![j] = NewRow("queued", 1)]
            /\ enq' = [enq EXCEPT ![j].stage = "queued"]
       ELSE /\ enq' = [enq EXCEPT ![j].stage = "lookup"]
            /\ UNCHANGED row
    /\ UNCHANGED <<memory, proc, claims, retried>>

\* The insert that lost looks for the winner; if that has ended meanwhile the
\* call tries again, and gives up in the end.
EnqueueLookup(j) ==
    /\ enq[j].stage = "lookup"
    /\ enq' = [enq EXCEPT ![j] =
                 IF Conflicts(j) # {}
                 THEN [stage |-> "deduped", tries |-> @.tries]
                 ELSE [stage |-> IF @.tries + 1 < MaxTries THEN "insert" ELSE "gaveup",
                       tries |-> @.tries + 1]]
    /\ UNCHANGED <<db, memory, proc>>

\* An admin retries a job that has ended; the index may refuse.
RetryJob(j) ==
    /\ j \in Retriable
    /\ retried[j] < MaxRetries
    /\ row[j].status \in {"dead", "succeeded"}
    /\ Conflicts(j) = {}
    /\ row' = [row EXCEPT ![j].status = "queued", ![j].attempt = 1]
    /\ retried' = [retried EXCEPT ![j] = @ + 1]
    /\ claims' = [claims EXCEPT ![j] = 0]
    /\ UNCHANGED <<memory, enq, proc>>

DiscardJob(j) ==
    /\ row[j].status \in {"queued", "dead"}
    /\ row' = [row EXCEPT ![j].status = "discarded"]
    /\ UNCHANGED <<memory, enq, proc, claims, retried>>

-----------------------------------------------------------------------------
(* The scheduler of a process: ticks, claims, leases. *)

\* Mutant: a tick may start while another is under way.
TickOverlapping(p) ==
    /\ Up(p)
    /\ \E S \in SUBSET {j \in Jobs : row[j].status = "queued"} :
         /\ S # {}
         /\ Cardinality(S) + Cardinality(RunsOf(p)) <= Concurrency
         /\ pending' = [pending EXCEPT ![p] =
                          @ \cup {<<j, row[j].attempt>> : j \in S}]
    /\ UNCHANGED <<db, sweep, renewed, running, runs, enq, proc>>

\* A tick reads queued jobs that are due, as many as there are free slots.
Tick(p) ==
    /\ Up(p)
    /\ pending[p] = {}
    /\ \E S \in SUBSET {j \in Jobs : row[j].status = "queued"} :
         /\ S # {}
         /\ Cardinality(S) + Cardinality(RunsOf(p)) <= Concurrency
         /\ pending' = [pending EXCEPT ![p] = {<<j, row[j].attempt>> : j \in S}]
    /\ UNCHANGED <<db, sweep, renewed, running, runs, enq, proc>>

NewRun(p, j) == [job |-> j, claim |-> <<retried[j], claims[j] + 1>>,
                 attempt |-> row[j].attempt, proc |-> p, stage |-> "script"]

\* Mutants: a claim that is not registered for renewal, or not conditional.
ClaimUnregistered(p) ==
    /\ Up(p)
    /\ \E read \in pending[p] :
         LET j == read[1]
         IN  /\ pending' = [pending EXCEPT ![p] = @ \ {read}]
             /\ IF row[j].status = "queued" /\ row[j].attempt = read[2]
                THEN /\ row' = [row EXCEPT ![j].status = "running", ![j].owner = p,
                                           ![j].lease = LeaseTime]
                     /\ runs' = runs \cup {NewRun(p, j)}
                     /\ claims' = [claims EXCEPT ![j] = @ + 1]
                ELSE UNCHANGED <<row, runs, claims>>
    /\ UNCHANGED <<sweep, renewed, running, retried, enq, proc>>

\* The claim of a row the tick has read; lost if the row has changed.
Claim(p) ==
    /\ Up(p)
    /\ \E read \in pending[p] :
         LET j == read[1]
         IN  /\ pending' = [pending EXCEPT ![p] = @ \ {read}]
             /\ IF row[j].status = "queued" /\ row[j].attempt = read[2]
                THEN /\ row' = [row EXCEPT ![j].status = "running", ![j].owner = p,
                                           ![j].lease = LeaseTime]
                     /\ running' = [running EXCEPT ![p] = @ \cup {j}]
                     /\ runs' = runs \cup {NewRun(p, j)}
                     /\ claims' = [claims EXCEPT ![j] = @ + 1]
                ELSE UNCHANGED <<row, running, runs, claims>>
    /\ UNCHANGED <<sweep, renewed, retried, enq, proc>>

\* Mutant: every row that names the process is renewed.
RenewAll(p) ==
    /\ Up(p)
    /\ p \notin renewed
    /\ renewed' = renewed \cup {p}
    /\ row' = [j \in Jobs |-> IF row[j].status = "running" /\ row[j].owner = p
                              THEN [row[j] EXCEPT !.lease = LeaseTime] ELSE row[j]]
    /\ UNCHANGED <<claims, retried, pending, sweep, running, runs, enq, proc>>

\* Only what the process is running is renewed.
renewLeases(p) ==
    /\ Up(p)
    /\ p \notin renewed
    /\ renewed' = renewed \cup {p}
    /\ row' = [j \in Jobs |-> IF /\ row[j].status = "running" /\ row[j].owner = p
                                 /\ j \in running[p]
                              THEN [row[j] EXCEPT !.lease = LeaseTime] ELSE row[j]]
    /\ UNCHANGED <<claims, retried, pending, sweep, running, runs, enq, proc>>

\* An interval passes: the processes that do not stall have renewed.  A sweep
\* comes once per interval too (RECOVERY_SWEEP_MS), and takes less than one.
TimePasses ==
    /\ \A p \in Procs : sweep[p] # "half"
    /\ \A p \in Procs \ MayStall : Up(p) => p \in renewed
    /\ row' = [j \in Jobs |-> IF row[j].lease > 0
                              THEN [row[j] EXCEPT !.lease = @ - 1] ELSE row[j]]
    /\ renewed' = {}
    /\ sweep' = [p \in Procs |-> "due"]
    /\ UNCHANGED <<claims, retried, pending, running, runs, enq, proc>>

Lost(j) == row[j].status = "running" /\ row[j].lease = 0

\* recoverInterruptedJobs, first statement: the lost jobs out of attempts die.
RecoverDead(p) ==
    /\ Up(p)
    /\ sweep[p] = "due"
    /\ sweep' = [sweep EXCEPT ![p] = "half"]
    /\ row' = [j \in Jobs |-> IF Lost(j) /\ row[j].attempt >= RetryMax
                              THEN NewRow("dead", row[j].attempt) ELSE row[j]]
    /\ UNCHANGED <<claims, retried, pending, renewed, running, runs, enq, proc>>

\* Second statement: the others are queued again, at the next attempt.
RecoverRequeue(p) ==
    /\ Up(p)
    /\ sweep[p] = "half"
    /\ sweep' = [sweep EXCEPT ![p] = "done"]
    /\ row' = [j \in Jobs |-> IF Lost(j) THEN NewRow("queued", row[j].attempt + 1)
                              ELSE row[j]]
    /\ UNCHANGED <<claims, retried, pending, renewed, running, runs, enq, proc>>

-----------------------------------------------------------------------------
(* A run. *)

\* Mutant: neither the owner nor the attempt is part of the condition.
HeldByAnyone(r) == row[r.job].status = "running"

\* Only the attempt that still holds the lease writes its result.
Held(r) == /\ row[r.job].status = "running"
           /\ row[r.job].owner = r.proc
           /\ row[r.job].attempt = r.attempt

Result(r, succeeded) ==
    IF succeeded THEN NewRow("succeeded", r.attempt)
    ELSE IF r.attempt < RetryMax THEN NewRow("queued", r.attempt + 1)
    ELSE NewRow("dead", r.attempt)

\* The run is over for the scheduler: its slot is free and its job is not
\* renewed any more.
Gone(r) == /\ runs' = runs \ {r}
           /\ running' = [running EXCEPT ![r.proc] = @ \ {r.job}]

\* The script returns, throws, or runs out of time (and goes on); the result
\* is written if the run still holds the job.
Settle(r) ==
    /\ r.stage = "script"
    /\ \E succeeded \in BOOLEAN :
         row' = IF Held(r) THEN [row EXCEPT ![r.job] = Result(r, succeeded)] ELSE row
    /\ \/ Gone(r)
       \/ /\ r.proc \in MayOverrun
          /\ runs' = (runs \ {r}) \cup {[r EXCEPT !.stage = "late"]}
          /\ UNCHANGED running
    /\ UNCHANGED <<claims, retried, pending, sweep, renewed, enq, proc>>

\* The result can't be written: the row is left as it is.
SettleFails(r) == /\ WriteFails
                  /\ r.stage = "script"
                  /\ Gone(r)
                  /\ UNCHANGED <<db, pending, sweep, renewed, enq, proc>>

\* The script left behind ends, or has had one more time limit.
SlotReleased(r) == /\ r.stage = "late"
                   /\ Gone(r)
                   /\ UNCHANGED <<db, pending, sweep, renewed, enq, proc>>

-----------------------------------------------------------------------------
(* Processes. *)

Start(p) == /\ proc[p] = "off"
            /\ proc' = [proc EXCEPT ![p] = "up"]
            /\ UNCHANGED <<db, memory, enq>>

\* A crash takes the memory of the process with it; another one is left.
Crash(p) == /\ Up(p)
            /\ \E q \in Procs \ {p} : Up(q)
            /\ proc' = [proc EXCEPT ![p] = "down"]
            /\ pending' = [pending EXCEPT ![p] = {}]
            /\ sweep' = [sweep EXCEPT ![p] = "done"]
            /\ renewed' = renewed \ {p}
            /\ running' = [running EXCEPT ![p] = {}]
            /\ runs' = runs \ RunsOf(p)
            /\ UNCHANGED <<db, enq>>

Next == \/ \E j \in Jobs : \/ EnqueueInsert(j) \/ EnqueueLookup(j)
                           \/ RetryJob(j) \/ DiscardJob(j)
        \/ \E p \in Procs : \/ Start(p) \/ Crash(p) \/ Tick(p) \/ Claim(p)
                            \/ renewLeases(p) \/ RecoverDead(p) \/ RecoverRequeue(p)
        \/ \E r \in runs : Settle(r) \/ SettleFails(r) \/ SlotReleased(r)
        \/ TimePasses

Spec == Init /\ [][Next]_vars

\* The timers of a live process go on firing, time passes, and the scripts
\* end (they have a time limit, and slotReleased waits for one more).
Fairness == /\ WF_vars(TimePasses)
            /\ \A p \in Procs : /\ WF_vars(Tick(p)) /\ WF_vars(Claim(p))
                                /\ WF_vars(renewLeases(p))
                                /\ WF_vars(RecoverDead(p)) /\ WF_vars(RecoverRequeue(p))
            /\ \A j \in Jobs : /\ WF_vars(EnqueueLookup(j))
                               /\ WF_vars(enq[j].stage = "insert" /\ EnqueueInsert(j))
            /\ \A p \in Procs, j \in Jobs :
                 WF_vars(\E r \in RunsOf(p) : r.job = j /\ (\/ Settle(r) \/ SettleFails(r)
                                                            \/ SlotReleased(r)))

FairSpec == Spec /\ Fairness

-----------------------------------------------------------------------------

\* Every variable holds a value of its type.
TypeOK == /\ row \in [Jobs -> Row]
          /\ enq \in [Jobs -> [stage : {"none", "insert", "lookup", "queued",
                                        "deduped", "gaveup"},
                               tries : Nat]]
          /\ proc \in [Procs -> {"off", "up", "down"}]
          /\ pending \in [Procs -> SUBSET (Jobs \X Attempts)]
          /\ sweep \in [Procs -> {"due", "half", "done"}]
          /\ renewed \subseteq Procs
          /\ running \in [Procs -> SUBSET Jobs]
          /\ runs \subseteq Run
          /\ claims \in [Jobs -> Nat]
          /\ retried \in [Jobs -> 0 .. MaxRetries]

\* One queued or running job per key, through retries, recoveries and crashes
\* (queues.ts:222-225, the index of fixed-schema.ts:63).
UniqueKeys == \A j, k \in Jobs :
    /\ j # k /\ KeyOf[j] = KeyOf[k] /\ KeyOf[j] # NoKey
    /\ row[j].status \in Active
    => row[k].status \notin Active

\* A process never runs past the worker's concurrency, runs left behind by a
\* time limit included (queues.ts:280-281, 526-528).
ConcurrencyKept == \A p \in Procs : Cardinality(RunsOf(p)) <= Concurrency

\* A job gets no more runs than its attempts, crashes included: a lease that ran
\* out used one up, so a job that crashes its process is not restarted for ever
\* (queues.ts:364-368).
AttemptsBounded == \A j \in Jobs : claims[j] <= MostAttempts

\* A server whose timers run and whose scripts end within their limit.
Steady(p) == p \notin MayStall \cup MayOverrun

\* No server takes over a job another is still running: a run of a steady server
\* holds its job, by its latest claim, until it has written its result, whatever
\* the other servers miss, leave behind or sweep (queues.ts:318-323).
NoTakeover == \A r \in runs :
    Steady(r.proc) => Held(r) /\ r.claim = LatestClaim(r.job)

\* A result is written by the claim the row stands for: a late finish can't
\* overwrite a newer attempt, even when leases run out under stalled processes
\* (queues.ts:323-324), as long as no admin retries the job.
LateFinishIgnored ==
    [][\A r \in runs : r \notin runs' /\ row'[r.job] # row[r.job] /\ r.job \notin Retriable
                         => r.claim = LatestClaim(r.job)]_vars

\* Every job that is queued or running ends, whatever crashes, stalls or
\* results that can't be written (queues.ts:344-347).
JobsEnd == \A j \in Jobs :
    row[j].status \in Active ~> row[j].status \notin Active

=============================================================================
