------------------------------- MODULE CronJobs -------------------------------
(***************************************************************************)
(* Cron jobs (src/src/core/jobs.ts, core/script-limits.ts, api/jobs.ts):   *)
(* the rows of vaultbase_jobs, and the servers whose ticks claim the slots *)
(* that are due and run the scripts.                                       *)
(*                                                                         *)
(* A tick reads all rows, then takes them one at a time, by what it read;  *)
(* ticks overlap, on one server and on several.  A claim and the mark in   *)
(* runningJobs after it are one step: a statement is answered before the   *)
(* job's next slot, a minute later at the earliest.  Left out: maintenance *)
(* mode and jobs switched off (a tick that does nothing, and whose slot    *)
(* stays due), deleted jobs, queue-mode jobs (a run that ends at once), and*)
(* the jobs extensions register, whose schedule is in memory.              *)
(***************************************************************************)
EXTENDS Clock, Sequences, FiniteSets

CONSTANTS Jobs,       \* the rows
          Periods,    \* the schedules: a cron expression is due at multiples
          MaxReads,   \* bound: rows that ticks have read and are yet to get to
          MaxByHand   \* bound: runs by hand under way

ASSUME CronJobsAssumption == Periods \subseteq Nat \ {0}

\* next_run_at is null.
NoSlot == 0

VARIABLES job,        \* the rows: cron, next_run_at
          read,       \* rows a tick has read and not yet got to
          runs,       \* scripts under way
          running,    \* runningJobs, of each process
          claims      \* history: the slots claimed, since something else set the schedule

cron == <<job, read, runs, running, claims>>

nextRunFromCron(period, from) == ((from \div period) + 1) * period

InitJobs == /\ job = [j \in Jobs |-> [cron |-> 0, next_run_at |-> NoSlot]]
            /\ read = {}
            /\ runs = {}
            /\ running = [p \in Procs |-> {}]
            /\ claims = [j \in Jobs |-> <<>>]

Created == {j \in Jobs : job[j].cron # 0}

\* POST /admin/jobs, or a row from elsewhere, which may have no slot yet.
CreateJob(j) ==
    /\ j \notin Created
    /\ \E c \in Periods : \E slot \in {NoSlot, nextRunFromCron(c, now)} :
         job' = [job EXCEPT ![j] = [cron |-> c, next_run_at |-> slot]]
    /\ UNCHANGED <<read, runs, running, claims>>

Run(p, j, byHand, next) ==
    [proc |-> p, job |-> j, byHand |-> byHand, next |-> next, stage |-> "script"]

\* The rows that are due, or have no slot (0) yet.
ReadJobs(p) ==
    LET rows == {j \in Created : job[j].next_run_at <= now}
    IN  /\ rows # {}
        /\ Cardinality(read) + Cardinality(rows) <= MaxReads
        /\ read' = read \cup {[proc |-> p, job |-> j, slot |-> job[j].next_run_at,
                               next |-> nextRunFromCron(job[j].cron, now)] : j \in rows}
        /\ UNCHANGED <<job, runs, running, claims>>

\* A row without a slot gets one, whatever it has by now.
Initialise(t) ==
    /\ t.slot = NoSlot
    /\ read' = read \ {t}
    /\ job' = [job EXCEPT ![t.job].next_run_at = t.next]
    /\ claims' = [claims EXCEPT ![t.job] = <<>>]
    /\ UNCHANGED <<runs, running>>

Claimed(t) ==
    /\ job' = [job EXCEPT ![t.job].next_run_at = t.next]
    /\ running' = [running EXCEPT ![t.proc] = @ \cup {t.job}]
    /\ runs' = runs \cup {Run(t.proc, t.job, FALSE, t.next)}
    /\ claims' = [claims EXCEPT ![t.job] = Append(@, t.slot)]

\* A due row, unless the process still runs the job: the slot is claimed if
\* it is the one that was read.
ClaimSlot(t) ==
    /\ t.slot # NoSlot
    /\ read' = read \ {t}
    /\ IF t.job \in running[t.proc] \/ job[t.job].next_run_at # t.slot
       THEN UNCHANGED <<job, running, runs, claims>>
       ELSE Claimed(t)

\* POST /admin/jobs/:id/run
RunByHand(p, j) ==
    /\ j \in Created
    /\ Cardinality({r \in runs : r.byHand}) < MaxByHand
    /\ runs' = runs \cup {Run(p, j, TRUE, nextRunFromCron(job[j].cron, now))}
    /\ UNCHANGED <<job, read, running, claims>>

\* Mutant: a scheduled run writes the slot it computed, too.
WritesSlot(r) == TRUE

\* Only a run by hand writes the next slot, which it computed at its start.
Writes(r) == r.byHand

Outcome(r) ==
    /\ job' = IF Writes(r) THEN [job EXCEPT ![r.job].next_run_at = r.next] ELSE job
    /\ claims' = IF r.byHand THEN [claims EXCEPT ![r.job] = <<>>] ELSE claims

Frees(r) == running' = IF r.byHand THEN running ELSE [running EXCEPT ![r.proc] = @ \ {r.job}]

\* The script ends inside its time limit; its slot is given back.
RunEnds(r) ==
    /\ r.stage = "script"
    /\ Outcome(r)
    /\ runs' = runs \ {r}
    /\ Frees(r)
    /\ UNCHANGED read

\* Mutant: the slot is given back with the result.
TimesOutAndFrees(r) == /\ r.stage = "script"
                       /\ Outcome(r)
                       /\ runs' = (runs \ {r}) \cup {[r EXCEPT !.stage = "late"]}
                       /\ Frees(r)
                       /\ UNCHANGED read

\* It does not: the result is written, the script goes on and keeps its slot.
TimesOut(r) ==
    /\ r.stage = "script"
    /\ Outcome(r)
    /\ runs' = (runs \ {r}) \cup {[r EXCEPT !.stage = "late"]}
    /\ UNCHANGED <<read, running>>

\* slotReleased: the script ends after all, or is given up one time limit
\* later and goes on without a slot.
Released(r) ==
    /\ r.stage = "late"
    /\ runs' = runs \ {r}
    /\ Frees(r)
    /\ UNCHANGED <<job, read, claims>>

\* PATCH /admin/jobs/:id
Reschedule(j) ==
    /\ j \in Created
    /\ \E c \in Periods : job' = [job EXCEPT ![j].cron = c, ![j].next_run_at = nextRunFromCron(c, now)]
    /\ claims' = [claims EXCEPT ![j] = <<>>]
    /\ UNCHANGED <<read, runs, running>>

StopJobs(p) == /\ read' = {t \in read : t.proc # p}
               /\ runs' = {r \in runs : r.proc # p}
               /\ running' = [running EXCEPT ![p] = {}]
               /\ UNCHANGED <<job, claims>>

JobStep == \/ \E p \in Procs : ReadJobs(p) \/ \E j \in Jobs : RunByHand(p, j)
           \/ \E t \in read : Initialise(t) \/ ClaimSlot(t)
           \/ \E r \in runs : RunEnds(r) \/ TimesOut(r) \/ Released(r)
           \/ \E j \in Jobs : Reschedule(j)

-----------------------------------------------------------------------------
(* Properties *)

\* However many servers and ticks see a slot, one claims it, and slots are
\* claimed in order, as long as the schedule is not set by an edit, a run by
\* hand or the first tick meanwhile.  (scheduleTick and runJob, core/jobs.ts)
SlotOnce == \A j \in Jobs : \A i \in 2 .. Len(claims[j]) : claims[j][i - 1] < claims[j][i]

\* A process runs a job on schedule once at a time, as long as a script that
\* outlives its time limit is not given up.  (runningJobs, core/jobs.ts)
NoOverlap == \A r, s \in runs : ~r.byHand /\ ~s.byHand /\ r.proc = s.proc /\ r.job = s.job => r = s

=============================================================================
