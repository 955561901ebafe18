--------------------------- MODULE BackgroundProofs ---------------------------
(***************************************************************************)
(* The work the servers do by timers, for any number of servers, rows and  *)
(* files, and however long it goes on.                                     *)
(*                                                                         *)
(* Each kind of work has an invariant of its own, since none reads what    *)
(* another writes.                                                         *)
(***************************************************************************)
EXTENDS Background, SequenceTheorems, TLAPS

-----------------------------------------------------------------------------
(* Deliveries. *)

Rows == [status : Statuses, attempt : Nat, scheduled_at : Int]

Picks == [proc : Procs, id : Deliveries, attempt : Nat, seen : Int, lease : Nat]

Sends == [proc : Procs, id : Deliveries, attempt : Nat, lease : Nat, stage : {"look", "sent"}]

DeliveriesTypeOK == /\ now \in Nat
                    /\ row \in [Deliveries -> Rows]
                    /\ picked \subseteq Picks
                    /\ sends \subseteq Sends

\* What a tick read of a row: the row is due later by now, or still as it was,
\* unless it was retried at once.
PickOK(c) == /\ row[c.id].status # "none"
             /\ c.seen <= now /\ c.seen < c.lease
             /\ c.id \notin atOnce =>
                  /\ c.seen <= row[c.id].scheduled_at
                  /\ row[c.id].scheduled_at = c.seen => row[c.id].attempt = c.attempt

\* A row is due at the end of the last claim, or later.
SendOK(s) == /\ row[s.id].status # "none"
             /\ s.id \notin atOnce => s.lease <= row[s.id].scheduled_at

\* No two claims of a row have one lease.
OneLease == \A s, t \in sends : s.id = t.id /\ s.lease = t.lease /\ s.id \notin atOnce => s = t

DeliveriesInv == /\ DeliveriesTypeOK
                 /\ \A c \in picked : PickOK(c)
                 /\ \A s \in sends : SendOK(s)
                 /\ OneLease
                 /\ HeldWhileLeased

LEMMA DeliveriesInit == now = 0 /\ InitDeliveries => DeliveriesInv
BY DEF InitDeliveries, DeliveriesInv, DeliveriesTypeOK, Rows, Statuses, OneLease, HeldWhileLeased

LEMMA TickKeeps ==
    ASSUME DeliveriesInv, NEW p \in Procs, Tick(p), UNCHANGED now
    PROVE  DeliveriesInv'
<1> USE DEF DeliveriesInv
<1>1. PICK S \in SUBSET Due :
         picked' = picked \cup {[proc |-> p, id |-> d, attempt |-> row[d].attempt,
                                 seen |-> row[d].scheduled_at, lease |-> now + Lease] : d \in S}
  BY DEF Tick
<1>2. UNCHANGED <<row, webhook, sends, atOnce>>
  BY DEF Tick
<1>3. ASSUME NEW c \in picked'
      PROVE  c \in Picks /\ PickOK(c)'
  <2>1. CASE c \in picked
    BY <1>2, <2>1 DEF DeliveriesTypeOK, PickOK
  <2>2. ASSUME NEW d \in S,
               c = [proc |-> p, id |-> d, attempt |-> row[d].attempt,
                    seen |-> row[d].scheduled_at, lease |-> now + Lease]
        PROVE  c \in Picks /\ PickOK(c)'
    <3>1. d \in Deliveries /\ row[d].status = "pending" /\ row[d].scheduled_at <= now
      BY DEF Due
    <3>2. row[d] \in Rows /\ now \in Nat /\ Lease \in Nat \ {0}
      BY <3>1, DeliveriesAssumption DEF DeliveriesTypeOK
    <3> QED
      BY <1>2, <2>2, <3>1, <3>2 DEF Picks, Rows, PickOK
  <2> QED
    BY <1>1, <2>1, <2>2
<1> QED
  BY <1>2, <1>3 DEF DeliveriesTypeOK, SendOK, OneLease, HeldWhileLeased, Held

LEMMA ClaimKeeps ==
    ASSUME DeliveriesInv, NEW c \in picked, Claim(c), UNCHANGED now
    PROVE  DeliveriesInv'
<1> USE DEF DeliveriesInv
<1>1. /\ c \in Picks /\ c.id \in Deliveries /\ c.lease \in Nat /\ c.seen \in Int
      /\ PickOK(c) /\ row[c.id] \in Rows /\ now \in Nat
  BY DEF DeliveriesTypeOK, Picks
<1>2. picked' = picked \ {c} /\ atOnce' = atOnce
  BY DEF Claim
<1>3. CASE UNCHANGED <<row, sends>>
  BY <1>2, <1>3 DEF DeliveriesTypeOK, PickOK, SendOK, OneLease, HeldWhileLeased, Held
<1>4. CASE row[c.id].status = "pending" /\ row[c.id].scheduled_at = c.seen /\ Claims(c)
  <2> DEFINE new == [proc |-> c.proc, id |-> c.id, attempt |-> c.attempt,
                     lease |-> c.lease, stage |-> "look"]
  <2>1. row' = [row EXCEPT ![c.id].scheduled_at = c.lease] /\ sends' = sends \cup {new}
    BY <1>4 DEF Claims
  <2>2. new \in Sends
    BY <1>1 DEF Picks, Sends
  <2> HIDE DEF new
  <2>3. new.id = c.id /\ new.lease = c.lease /\ new.attempt = c.attempt
    BY DEF new
  <2>4. /\ row' \in [Deliveries -> Rows]
        /\ \A d \in Deliveries \ {c.id} : row'[d] = row[d]
        /\ row'[c.id].status = "pending" /\ row'[c.id].attempt = row[c.id].attempt
        /\ row'[c.id].scheduled_at = c.lease
    BY <1>1, <1>4, <2>1 DEF DeliveriesTypeOK, Rows
  <2>5. DeliveriesTypeOK'
    BY <1>2, <2>1, <2>2, <2>4 DEF DeliveriesTypeOK
  <2>6. ASSUME NEW b \in picked'
        PROVE  PickOK(b)'
    <3>1. b \in Picks /\ PickOK(b) /\ row[b.id] \in Rows
      BY <1>2 DEF DeliveriesTypeOK, Picks
    <3>2. CASE b.id = c.id
      BY <1>1, <1>2, <1>4, <2>4, <3>1, <3>2 DEF PickOK, Picks, Rows
    <3>3. CASE b.id # c.id
      BY <1>2, <2>4, <3>1, <3>3 DEF PickOK, Picks
    <3> QED
      BY <3>2, <3>3
  <2>7. ASSUME NEW s \in sends
        PROVE  SendOK(s)' /\ (s.id = c.id /\ s.id \notin atOnce => s.lease < c.lease)
    <3>1. s \in Sends /\ SendOK(s) /\ row[s.id] \in Rows
      BY DEF DeliveriesTypeOK, Sends
    <3>2. CASE s.id = c.id
      BY <1>1, <1>2, <1>4, <2>4, <3>1, <3>2 DEF SendOK, Sends, Rows, PickOK
    <3>3. CASE s.id # c.id
      BY <1>2, <2>4, <3>1, <3>3 DEF SendOK, Sends
    <3> QED
      BY <3>2, <3>3
  <2>8. \A s \in sends' : SendOK(s)'
    <3>1. SendOK(new)'
      BY <1>1, <2>3, <2>4 DEF SendOK
    <3> QED
      BY <2>1, <2>7, <3>1
  <2>9. OneLease'
    BY <1>1, <1>2, <2>1, <2>3, <2>7 DEF OneLease
  <2>10. ASSUME NEW s \in sends', now' < s.lease, s.id \notin atOnce'
         PROVE  Held(s)'
    <3>1. CASE s \in sends /\ s.id # c.id
      BY <1>2, <2>4, <2>10, <3>1 DEF HeldWhileLeased, Held, DeliveriesTypeOK, Sends
    <3>2. CASE s \in sends /\ s.id = c.id
      \* The row would be due, and it is not while s has its lease.
      <4>1. s.lease \in Nat /\ now < s.lease /\ c.id \notin atOnce
        BY <1>2, <2>10, <3>2 DEF DeliveriesTypeOK, Sends
      <4>2. row[c.id].scheduled_at = s.lease
        BY <3>2, <4>1 DEF HeldWhileLeased, Held
      <4> QED
        BY <1>1, <1>4, <4>1, <4>2 DEF PickOK
    <3>3. CASE s = new
      BY <1>1, <1>2, <1>4, <2>3, <2>4, <2>10, <3>3 DEF Held, PickOK
    <3> QED
      BY <2>1, <3>1, <3>2, <3>3
  <2> QED
    BY <2>5, <2>6, <2>8, <2>9, <2>10 DEF HeldWhileLeased
<1> QED
  BY <1>3, <1>4 DEF Claim

\* An answer ends the row, or makes it due later than any tick has read it.
LEMMA ResultKeeps ==
    ASSUME DeliveriesInv, NEW s \in sends, NEW result \in Rows, Records(s, result), UNCHANGED now,
           result.status # "none",
           \/ result.scheduled_at = row[s.id].scheduled_at /\ result.attempt = row[s.id].attempt
           \/ result.status = "pending"
    PROVE  DeliveriesInv'
<1> USE DEF DeliveriesInv
<1>1. /\ s \in Sends /\ s.id \in Deliveries /\ row[s.id] \in Rows /\ now \in Nat
      /\ sends' = sends \ {s} /\ UNCHANGED <<webhook, picked>>
      /\ atOnce' \in {atOnce, atOnce \cup {s.id}}
  BY DEF DeliveriesTypeOK, Sends, Records
<1>2. CASE row' = row
  BY <1>1, <1>2 DEF DeliveriesTypeOK, PickOK, SendOK, OneLease, HeldWhileLeased, Held
<1>3. CASE Held(s) /\ row' = [row EXCEPT ![s.id] = result]
  <2>1. /\ row' \in [Deliveries -> Rows]
        /\ row'[s.id] = result
        /\ \A d \in Deliveries \ {s.id} : row'[d] = row[d]
    BY <1>1, <1>3 DEF DeliveriesTypeOK
  <2>0. \/ s.id \in atOnce'
        \/ result.scheduled_at = row[s.id].scheduled_at /\ result.attempt = row[s.id].attempt
        \/ now < result.scheduled_at
    BY <1>1, <1>3 DEF Records, Rows
  <2>2. DeliveriesTypeOK'
    BY <1>1, <2>1 DEF DeliveriesTypeOK
  <2>3. ASSUME NEW b \in picked'
        PROVE  PickOK(b)'
    <3>1. b \in Picks /\ PickOK(b) /\ row[b.id] \in Rows
      BY <1>1 DEF DeliveriesTypeOK, Picks
    <3>2. CASE b.id = s.id
      BY <1>1, <2>0, <2>1, <3>1, <3>2 DEF PickOK, Picks, Rows
    <3>3. CASE b.id # s.id
      BY <1>1, <2>1, <3>1, <3>3 DEF PickOK, Picks
    <3> QED
      BY <3>2, <3>3
  <2>4. ASSUME NEW t \in sends', t.id = s.id, t.id \notin atOnce'
        PROVE  t.lease <= now
    <3>1. t \in Sends /\ t \in sends /\ t # s /\ t.lease \in Nat
      BY <1>1 DEF DeliveriesTypeOK, Sends
    <3>2. ~(now < t.lease)
      BY <1>1, <1>3, <2>4, <3>1 DEF HeldWhileLeased, Held, OneLease
    <3> QED
      BY <1>1, <3>1, <3>2
  <2>5. ASSUME NEW t \in sends'
        PROVE  SendOK(t)' /\ (now' < t.lease => Held(t)' \/ t.id \in atOnce')
    <3>1. t \in Sends /\ t \in sends /\ SendOK(t) /\ (now < t.lease => Held(t) \/ t.id \in atOnce)
      BY <1>1 DEF DeliveriesTypeOK, HeldWhileLeased
    <3>2. CASE t.id = s.id
      BY <1>1, <2>0, <2>1, <2>4, <3>1, <3>2 DEF SendOK, Sends, Rows
    <3>3. CASE t.id # s.id
      BY <1>1, <2>1, <3>1, <3>3 DEF SendOK, Sends, Held
    <3> QED
      BY <3>2, <3>3
  <2>6. OneLease'
    BY <1>1 DEF OneLease
  <2> QED
    BY <2>2, <2>3, <2>5, <2>6 DEF HeldWhileLeased
<1> QED
  BY <1>2, <1>3 DEF Records

LEMMA EndKeeps ==
    ASSUME DeliveriesInv, NEW s \in sends, NEW status \in {"succeeded", "dead"},
           Records(s, Ended(s, status)), UNCHANGED now
    PROVE  DeliveriesInv'
<1>1. row[s.id] \in Rows
  BY DEF DeliveriesInv, DeliveriesTypeOK, Sends
<1>2. /\ Ended(s, status) \in Rows /\ Ended(s, status).status # "none"
      /\ Ended(s, status).scheduled_at = row[s.id].scheduled_at
      /\ Ended(s, status).attempt = row[s.id].attempt
  BY <1>1 DEF Ended, Rows, Statuses
<1> QED
  BY <1>2, ResultKeeps

LEMMA LookKeeps ==
    ASSUME DeliveriesInv, NEW s \in sends, Look(s), UNCHANGED now
    PROVE  DeliveriesInv'
<1>1. CASE Records(s, Ended(s, "dead"))
  BY <1>1, EndKeeps
<1>2. CASE /\ sends' = (sends \ {s}) \cup {[s EXCEPT !.stage = "sent"]}
           /\ UNCHANGED <<row, webhook, picked, atOnce>>
  <2>1. s \in Sends
    BY DEF DeliveriesInv, DeliveriesTypeOK
  <2> DEFINE t == [s EXCEPT !.stage = "sent"]
  <2>2. t \in Sends /\ t.id = s.id /\ t.lease = s.lease /\ t.attempt = s.attempt
    BY <2>1 DEF Sends
  <2>3. sends' = (sends \ {s}) \cup {t} /\ UNCHANGED <<row, picked, atOnce>>
    BY <1>2
  <2> HIDE DEF t
  <2>4. DeliveriesTypeOK' /\ \A c \in picked' : PickOK(c)'
    BY <2>2, <2>3 DEF DeliveriesInv, DeliveriesTypeOK, PickOK
  <2>5. OneLease'
    BY <2>2, <2>3 DEF DeliveriesInv, OneLease
  <2>6. \A u \in sends' : SendOK(u)' /\ (now' < u.lease => Held(u)' \/ u.id \in atOnce')
    BY <2>2, <2>3 DEF DeliveriesInv, SendOK, HeldWhileLeased, Held
  <2> QED
    BY <2>4, <2>5, <2>6 DEF DeliveriesInv, HeldWhileLeased
<1> QED
  BY <1>1, <1>2 DEF Look

LEMMA AnsweredKeeps ==
    ASSUME DeliveriesInv, NEW s \in sends, Answered(s), UNCHANGED now
    PROVE  DeliveriesInv'
<1>1. CASE Records(s, Ended(s, "succeeded")) \/ Records(s, Ended(s, "dead"))
  BY <1>1, EndKeeps
<1>2. ASSUME NEW delay \in Delays,
             Records(s, [status |-> "pending", attempt |-> s.attempt + 1, scheduled_at |-> now + delay])
      PROVE  DeliveriesInv'
  <2>1. s.attempt \in Nat /\ now \in Nat /\ delay \in Int
    BY DeliveriesAssumption DEF DeliveriesInv, DeliveriesTypeOK, Sends
  <2> DEFINE retry == [status |-> "pending", attempt |-> s.attempt + 1, scheduled_at |-> now + delay]
  <2>2. retry \in Rows /\ retry.status = "pending"
    BY <2>1 DEF Rows, Statuses
  <2> QED
    BY <1>2, <2>2, ResultKeeps
<1> QED
  BY <1>1, <1>2 DEF Answered

LEMMA DispatchKeeps ==
    ASSUME DeliveriesInv, NEW d \in Deliveries, Dispatch(d), UNCHANGED now
    PROVE  DeliveriesInv'
<1> USE DEF DeliveriesInv
<1>1. /\ now \in Nat /\ row[d].status = "none" /\ UNCHANGED <<webhook, picked, sends, atOnce>>
      /\ row' = [row EXCEPT ![d] = [status |-> "pending", attempt |-> 1, scheduled_at |-> now]]
  BY DEF Dispatch, DeliveriesTypeOK
<1>2. /\ row' \in [Deliveries -> Rows]
      /\ \A e \in Deliveries \ {d} : row'[e] = row[e]
  BY <1>1 DEF DeliveriesTypeOK, Rows, Statuses
<1>3. (\A c \in picked : c.id \in Deliveries \ {d}) /\ (\A s \in sends : s.id \in Deliveries \ {d})
  BY <1>1 DEF DeliveriesTypeOK, Picks, Sends, PickOK, SendOK
<1> QED
  BY <1>1, <1>2, <1>3 DEF DeliveriesTypeOK, PickOK, SendOK, OneLease, HeldWhileLeased, Held

\* Time, an edit of the webhook, a crash, and work of another kind.
LEMMA ElseKeepsDeliveries ==
    ASSUME DeliveriesInv, now' \in Nat, now <= now', UNCHANGED <<row, atOnce>>,
           picked' \subseteq picked, sends' \subseteq sends
    PROVE  DeliveriesInv'
<1> USE DEF DeliveriesInv
<1>1. now \in Nat /\ DeliveriesTypeOK' /\ OneLease'
  BY DEF DeliveriesTypeOK, OneLease
<1>2. ASSUME NEW c \in picked'
      PROVE  PickOK(c)'
  <2>1. c \in Picks /\ PickOK(c)
    BY DEF DeliveriesTypeOK
  <2> QED
    BY <1>1, <2>1 DEF PickOK, Picks
<1>3. ASSUME NEW s \in sends'
      PROVE  SendOK(s)' /\ (now' < s.lease => Held(s)' \/ s.id \in atOnce')
  <2>1. s \in Sends /\ SendOK(s) /\ (now < s.lease => Held(s) \/ s.id \in atOnce)
    BY DEF DeliveriesTypeOK, HeldWhileLeased
  <2> QED
    BY <1>1, <2>1 DEF SendOK, Sends, Held
<1> QED
  BY <1>1, <1>2, <1>3 DEF HeldWhileLeased

LEMMA DeliveriesNext == DeliveriesInv /\ [Next]_vars => DeliveriesInv'
<1> SUFFICES ASSUME DeliveriesInv, [Next]_vars
             PROVE  DeliveriesInv'
  OBVIOUS
<1>1. now \in Nat
  BY DEF DeliveriesInv, DeliveriesTypeOK
<1>2. CASE Passes \/ Schedule \/ Store \/ Configure \/ UNCHANGED vars
  <2>1. UNCHANGED delivery /\ now' \in {now, now + 1}
    BY <1>2 DEF Passes, Pass, Schedule, Store, Configure, vars
  <2> QED
    BY <1>1, <2>1, ElseKeepsDeliveries DEF delivery
<1>3. CASE Deliver
  <2>1. UNCHANGED now /\ ((\E d \in Deliveries : Dispatch(d)) \/ DeliveryStep)
    BY <1>3 DEF Deliver
  <2>2. CASE EditWebhook
    BY <1>1, <2>1, <2>2, ElseKeepsDeliveries DEF EditWebhook
  <2> QED
    BY <2>1, <2>2, DispatchKeeps, TickKeeps, ClaimKeeps, LookKeeps, AnsweredKeeps DEF DeliveryStep
<1>4. ASSUME NEW p \in Procs, Crash(p)
      PROVE  DeliveriesInv'
  BY <1>1, <1>4, ElseKeepsDeliveries DEF Crash, StopDeliveries
<1> QED
  BY <1>2, <1>3, <1>4 DEF Next

\* While its lease runs, a claim holds its row (tick and deliverOne,
\* core/webhooks.ts), for any number of servers, rows and overlapping ticks,
\* any lease and any delays between retries, and servers that die at any step:
\* no tick that read the row earlier claims it, and no late answer changes it.
\* The rows that were retried with no delay, which api/webhooks.ts:67 and 101
\* accept, are excepted from then on.
THEOREM ClaimsHold == Spec => []HeldWhileLeased
<1>1. Init => DeliveriesInv
  BY DeliveriesInit DEF Init
<1>2. DeliveriesInv => HeldWhileLeased
  BY DEF DeliveriesInv
<1> QED
  BY <1>1, <1>2, DeliveriesNext, PTL DEF Spec

-----------------------------------------------------------------------------
(* Cron jobs. *)

JobRows == [cron : Periods \cup {0}, next_run_at : Nat]

Reads == [proc : Procs, job : Jobs, slot : Nat, next : Nat]

JobRuns == [proc : Procs, job : Jobs, byHand : BOOLEAN, next : Nat, stage : {"script", "late"}]

CronTypeOK == /\ now \in Nat
              /\ job \in [Jobs -> JobRows]
              /\ read \subseteq Reads
              /\ runs \subseteq JobRuns
              /\ running \in [Procs -> SUBSET Jobs]
              /\ claims \in [Jobs -> Seq(Nat)]

\* A claim moves the schedule on.
ReadOK(t) == t.slot < t.next /\ t.job \in Created

\* The slots claimed are in order, and the next slot is after them.
ClaimsOK(j) == /\ \A i \in 2 .. Len(claims[j]) : claims[j][i - 1] < claims[j][i]
               /\ \A i \in 1 .. Len(claims[j]) : claims[j][i] < job[j].next_run_at
               /\ j \notin Created => claims[j] = <<>>

\* A run on schedule holds its place.
PlacesHeld == \A r \in runs : ~r.byHand => r.job \in running[r.proc]

CronInv == /\ CronTypeOK
           /\ \A t \in read : ReadOK(t)
           /\ \A j \in Jobs : ClaimsOK(j)
           /\ PlacesHeld
           /\ NoOverlap

LEMMA NextIsLater ==
    ASSUME NEW period \in Nat \ {0}, NEW from \in Nat
    PROVE  nextRunFromCron(period, from) \in Nat /\ from < nextRunFromCron(period, from)
<1> DEFINE q == from \div period
           r == from % period
<1>1. q \in Nat /\ r \in Nat /\ r < period /\ from = period * q + r
  OBVIOUS
<1> HIDE DEF q, r
<1>2. (q + 1) * period = period * q + period /\ (q + 1) * period \in Nat
  BY <1>1
<1>3. from < (q + 1) * period
  BY <1>1, <1>2
<1> QED
  BY <1>2, <1>3 DEF q, nextRunFromCron

LEMMA CronInit == now = 0 /\ InitJobs => CronInv
BY DEF InitJobs, CronInv, CronTypeOK, JobRows, ClaimsOK, PlacesHeld, NoOverlap, NoSlot,
       Created

LEMMA SameClaims ==
    ASSUME NEW i \in Jobs, ClaimsOK(i), job'[i] = job[i], claims'[i] = claims[i],
           i \in Created => i \in Created'
    PROVE  ClaimsOK(i)'
<1>1. \A k \in 2 .. Len(claims'[i]) : claims'[i][k - 1] < claims'[i][k]
  BY DEF ClaimsOK
<1>2. \A k \in 1 .. Len(claims'[i]) : claims'[i][k] < job'[i].next_run_at
  BY DEF ClaimsOK
<1>3. i \notin Created' => claims'[i] = <<>>
  BY DEF ClaimsOK
<1> QED
  BY <1>1, <1>2, <1>3 DEF ClaimsOK

\* The schedule of j is set, and the history begins anew; a run of it may end.
LEMMA SetKeeps ==
    ASSUME CronInv, UNCHANGED now, NEW j \in Jobs, job' \in [Jobs -> JobRows], job'[j].cron # 0,
           \A i \in Jobs \ {j} : job'[i] = job[i],
           claims' = [claims EXCEPT ![j] = <<>>],
           read' \subseteq read, runs' \subseteq JobRuns, running' \in [Procs -> SUBSET Jobs],
           PlacesHeld', NoOverlap'
    PROVE  CronInv'
<1> USE DEF CronInv, CronTypeOK
<1>1. claims' \in [Jobs -> Seq(Nat)] /\ claims'[j] = <<>> /\ \A i \in Jobs \ {j} : claims'[i] = claims[i]
  OBVIOUS
<1>2. CronTypeOK'
  BY <1>1
<1>3. Created \subseteq Created'
  BY DEF Created
<1>4. ASSUME NEW i \in Jobs
      PROVE  ClaimsOK(i)'
  <2>1. CASE i = j
    BY <1>1, <2>1 DEF ClaimsOK
  <2>2. CASE i # j
    <3>1. job'[i] = job[i] /\ claims'[i] = claims[i] /\ (i \in Created => i \in Created')
      BY <1>1, <1>3, <2>2
    <3>2. ClaimsOK(i)
      OBVIOUS
    <3> QED
      BY <3>1, <3>2, SameClaims
  <2> QED
    BY <2>1, <2>2
<1>5. \A t \in read' : ReadOK(t)'
  BY <1>3 DEF ReadOK
<1> QED
  BY <1>2, <1>4, <1>5

LEMMA CreateKeeps ==
    ASSUME CronInv, NEW j \in Jobs, CreateJob(j), UNCHANGED now
    PROVE  CronInv'
<1> USE DEF CronInv, CronTypeOK
<1>1. UNCHANGED <<read, runs, running, claims>> /\ j \notin Created
  BY DEF CreateJob
<1>2. claims' = [claims EXCEPT ![j] = <<>>]
  <2>1. ClaimsOK(j)
    OBVIOUS
  <2>2. claims[j] = <<>>
    BY <1>1, <2>1 DEF ClaimsOK
  <2>3. claims = [claims EXCEPT ![j] = claims[j]]
    OBVIOUS
  <2> QED
    BY <1>1, <2>2, <2>3
<1>3. PICK c \in Periods : \E slot \in {NoSlot, nextRunFromCron(c, now)} :
         job' = [job EXCEPT ![j] = [cron |-> c, next_run_at |-> slot]]
  BY DEF CreateJob
<1>4. nextRunFromCron(c, now) \in Nat /\ c # 0
  BY NextIsLater, CronJobsAssumption
<1>5. PICK slot \in Nat : job' = [job EXCEPT ![j] = [cron |-> c, next_run_at |-> slot]]
  BY <1>3, <1>4 DEF NoSlot
<1>6. job' \in [Jobs -> JobRows] /\ job'[j].cron # 0 /\ \A i \in Jobs \ {j} : job'[i] = job[i]
  BY <1>4, <1>5 DEF JobRows
<1>7. PlacesHeld' /\ NoOverlap'
  BY <1>1 DEF PlacesHeld, NoOverlap
<1> QED
  BY <1>1, <1>2, <1>6, <1>7, SetKeeps

LEMMA RescheduleKeeps ==
    ASSUME CronInv, NEW j \in Jobs, Reschedule(j), UNCHANGED now
    PROVE  CronInv'
<1> USE DEF CronInv, CronTypeOK
<1>1. claims' = [claims EXCEPT ![j] = <<>>] /\ UNCHANGED <<read, runs, running>>
  BY DEF Reschedule
<1>2. PICK c \in Periods : job' = [job EXCEPT ![j].cron = c, ![j].next_run_at = nextRunFromCron(c, now)]
  BY DEF Reschedule
<1>3. nextRunFromCron(c, now) \in Nat /\ c # 0
  BY NextIsLater, CronJobsAssumption
<1>4. job' \in [Jobs -> JobRows] /\ job'[j].cron # 0 /\ \A i \in Jobs \ {j} : job'[i] = job[i]
  BY <1>2, <1>3 DEF JobRows
<1>5. PlacesHeld' /\ NoOverlap'
  BY <1>1 DEF PlacesHeld, NoOverlap
<1> QED
  BY <1>1, <1>4, <1>5, SetKeeps

LEMMA InitialiseKeeps ==
    ASSUME CronInv, NEW t \in read, Initialise(t), UNCHANGED now
    PROVE  CronInv'
<1> USE DEF CronInv, CronTypeOK
<1>1. t.job \in Jobs /\ t.next \in Nat /\ job[t.job].cron # 0
  BY DEF Reads, ReadOK, Created
<1>2. claims' = [claims EXCEPT ![t.job] = <<>>] /\ read' \subseteq read /\ UNCHANGED <<runs, running>>
  BY DEF Initialise
<1>3. job' = [job EXCEPT ![t.job].next_run_at = t.next]
  BY DEF Initialise
<1>4. /\ job' \in [Jobs -> JobRows] /\ job'[t.job].cron # 0
      /\ \A i \in Jobs \ {t.job} : job'[i] = job[i]
  BY <1>1, <1>3 DEF JobRows
<1>5. PlacesHeld' /\ NoOverlap'
  BY <1>2 DEF PlacesHeld, NoOverlap
<1> QED
  BY <1>1, <1>2, <1>4, <1>5, SetKeeps

LEMMA ReadKeeps ==
    ASSUME CronInv, NEW p \in Procs, ReadJobs(p), UNCHANGED now
    PROVE  CronInv'
<1> USE DEF CronInv, CronTypeOK
<1> DEFINE due == {j \in Created : job[j].next_run_at <= now}
<1>1. /\ read' = read \cup {[proc |-> p, job |-> j, slot |-> job[j].next_run_at,
                             next |-> nextRunFromCron(job[j].cron, now)] : j \in due}
      /\ UNCHANGED <<job, runs, running, claims>>
  BY DEF ReadJobs
<1>2. ASSUME NEW j \in due
      PROVE  /\ j \in Jobs /\ j \in Created /\ job[j].next_run_at \in Nat
             /\ nextRunFromCron(job[j].cron, now) \in Nat
             /\ job[j].next_run_at < nextRunFromCron(job[j].cron, now)
  <2>1. job[j].cron \in Nat \ {0} /\ now \in Nat /\ job[j].next_run_at \in Nat
    BY CronJobsAssumption DEF Created, JobRows
  <2>2. nextRunFromCron(job[j].cron, now) \in Nat /\ now < nextRunFromCron(job[j].cron, now)
    BY <2>1, NextIsLater
  <2> QED
    BY <2>1, <2>2 DEF Created
<1>3. ASSUME NEW t \in read'
      PROVE  t \in Reads /\ ReadOK(t)'
  <2>1. CASE t \in read
    BY <1>1, <2>1 DEF ReadOK, Created
  <2>2. ASSUME NEW j \in due,
               t = [proc |-> p, job |-> j, slot |-> job[j].next_run_at,
                    next |-> nextRunFromCron(job[j].cron, now)]
        PROVE  t \in Reads /\ ReadOK(t)'
    BY <1>1, <1>2, <2>2 DEF Reads, ReadOK, Created
  <2> QED
    BY <1>1, <2>1, <2>2
<1> QED
  BY <1>1, <1>3 DEF ClaimsOK, PlacesHeld, NoOverlap, Created

LEMMA ClaimSlotKeeps ==
    ASSUME CronInv, NEW t \in read, ClaimSlot(t), UNCHANGED now
    PROVE  CronInv'
<1> USE DEF CronInv, CronTypeOK
<1>1. /\ t.proc \in Procs /\ t.job \in Jobs /\ t.slot \in Nat /\ t.next \in Nat
      /\ t.slot < t.next /\ t.job \in Created
  BY DEF Reads, ReadOK
<1>2. CASE UNCHANGED <<job, running, runs, claims>>
  <2>1. read' \subseteq read
    BY DEF ClaimSlot
  <2>2. \A j \in Jobs : ClaimsOK(j)'
    BY <1>2, SameClaims DEF Created
  <2> QED
    BY <1>2, <2>1, <2>2 DEF ReadOK, PlacesHeld, NoOverlap, Created
<1>3. CASE t.job \notin running[t.proc] /\ job[t.job].next_run_at = t.slot /\ Claimed(t)
  <2> DEFINE j == t.job
             new == Run(t.proc, t.job, FALSE, t.next)
  <2>1. /\ job' = [job EXCEPT ![j].next_run_at = t.next]
        /\ running' = [running EXCEPT ![t.proc] = @ \cup {j}]
        /\ runs' = runs \cup {new}
        /\ claims' = [claims EXCEPT ![j] = Append(@, t.slot)]
        /\ read' \subseteq read
    BY <1>3 DEF Claimed, ClaimSlot
  <2>2. new \in JobRuns /\ new.proc = t.proc /\ new.job = j /\ ~new.byHand
    BY <1>1 DEF Run, JobRuns
  <2> HIDE DEF new
  <2>3. /\ job' \in [Jobs -> JobRows] /\ job'[j].next_run_at = t.next /\ Created' = Created
        /\ \A i \in Jobs \ {j} : job'[i] = job[i]
    BY <1>1, <2>1 DEF JobRows, Created
  <2>4. /\ claims' \in [Jobs -> Seq(Nat)] /\ claims'[j] = Append(claims[j], t.slot)
        /\ \A i \in Jobs \ {j} : claims'[i] = claims[i]
    BY <1>1, <2>1
  <2>5. /\ running' \in [Procs -> SUBSET Jobs]
        /\ \A p \in Procs : running[p] \subseteq running'[p]
        /\ j \in running'[t.proc]
    BY <1>1, <2>1
  <2>6. CronTypeOK'
    BY <2>1, <2>2, <2>3, <2>4, <2>5
  <2>7. ClaimsOK(j)'
    <3>1. ClaimsOK(j) /\ claims[j] \in Seq(Nat) /\ job[j].next_run_at = t.slot
      BY <1>1, <1>3
    <3>2. /\ Len(claims'[j]) = Len(claims[j]) + 1 /\ Len(claims[j]) \in Nat
          /\ claims'[j][Len(claims[j]) + 1] = t.slot
          /\ \A i \in 1 .. Len(claims[j]) : claims'[j][i] = claims[j][i] /\ claims[j][i] \in Nat
      BY <1>1, <2>4, <3>1
    <3>3. ASSUME NEW i \in 1 .. Len(claims'[j])
          PROVE  claims'[j][i] < job'[j].next_run_at
      <4>1. CASE i = Len(claims[j]) + 1
        BY <1>1, <2>3, <3>2, <4>1
      <4>2. CASE i \in 1 .. Len(claims[j])
        <5>1. claims[j][i] < t.slot
          BY <3>1, <4>2 DEF ClaimsOK
        <5> QED
          BY <1>1, <2>3, <3>2, <4>2, <5>1
      <4> QED
        BY <3>2, <4>1, <4>2
    <3>4. ASSUME NEW i \in 2 .. Len(claims'[j])
          PROVE  claims'[j][i - 1] < claims'[j][i]
      <4>1. CASE i = Len(claims[j]) + 1
        <5>1. i - 1 \in 1 .. Len(claims[j]) /\ i - 1 = Len(claims[j])
          BY <3>2, <4>1
        <5>2. claims[j][i - 1] < t.slot
          BY <3>1, <5>1 DEF ClaimsOK
        <5> QED
          BY <3>2, <4>1, <5>1, <5>2
      <4>2. CASE i \in 2 .. Len(claims[j])
        <5>1. claims[j][i - 1] < claims[j][i]
          BY <3>1, <4>2 DEF ClaimsOK
        <5>2. i \in 1 .. Len(claims[j]) /\ i - 1 \in 1 .. Len(claims[j])
          BY <3>2, <4>2
        <5> QED
          BY <3>2, <5>1, <5>2
      <4> QED
        BY <3>2, <4>1, <4>2
    <3>5. j \in Created'
      BY <1>1, <2>3
    <3> QED
      BY <3>3, <3>4, <3>5 DEF ClaimsOK
  <2>8. ASSUME NEW i \in Jobs
        PROVE  ClaimsOK(i)'
    <3>1. ClaimsOK(i)
      OBVIOUS
    <3> QED
      BY <2>3, <2>4, <2>7, <3>1, SameClaims
  <2>9. PlacesHeld'
    BY <2>1, <2>2, <2>5 DEF PlacesHeld, JobRuns
  <2>10. NoOverlap'
    BY <1>3, <2>1, <2>2 DEF PlacesHeld, NoOverlap
  <2> QED
    BY <2>1, <2>3, <2>6, <2>8, <2>9, <2>10 DEF ReadOK
<1> QED
  BY <1>2, <1>3 DEF ClaimSlot

\* A run writes its outcome: the schedule is set, or nothing is.
LEMMA OutcomeKeeps ==
    ASSUME CronInv, UNCHANGED now, NEW r \in runs, Outcome(r), read' = read,
           runs' \subseteq JobRuns, running' \in [Procs -> SUBSET Jobs], PlacesHeld', NoOverlap'
    PROVE  CronInv'
<1> USE DEF CronInv, CronTypeOK
<1>1. r.job \in Jobs /\ r.next \in Nat /\ r.byHand \in BOOLEAN
  BY DEF JobRuns
<1>2. CASE ~r.byHand
  <2>1. job' = job /\ claims' = claims
    BY <1>2 DEF Outcome, Writes
  <2>2. \A j \in Jobs : ClaimsOK(j)'
    BY <2>1, SameClaims DEF Created
  <2> QED
    BY <2>1, <2>2 DEF ReadOK, Created
<1>3. CASE r.byHand
  <2>1. /\ job' = [job EXCEPT ![r.job].next_run_at = r.next]
        /\ claims' = [claims EXCEPT ![r.job] = <<>>]
    BY <1>3 DEF Outcome, Writes
  <2>2. /\ job' \in [Jobs -> JobRows]
        /\ Created' = Created
        /\ \A j \in Jobs \ {r.job} : job'[j] = job[j]
    BY <1>1, <2>1 DEF JobRows, Created
  <2>3. claims' \in [Jobs -> Seq(Nat)] /\ claims'[r.job] = <<>> /\ \A j \in Jobs \ {r.job} : claims'[j] = claims[j]
    BY <1>1, <2>1
  <2>4. ClaimsOK(r.job)'
    BY <2>3 DEF ClaimsOK
  <2>5. ASSUME NEW j \in Jobs
        PROVE  ClaimsOK(j)'
    <3>1. ClaimsOK(j)
      OBVIOUS
    <3> QED
      BY <2>2, <2>3, <2>4, <3>1, SameClaims
  <2> QED
    BY <2>2, <2>3, <2>5 DEF ReadOK
<1> QED
  BY <1>1, <1>2, <1>3

\* A run leaves its place.
LEMMA FreesKeeps ==
    ASSUME CronInv, NEW r \in runs, runs' = runs \ {r}, Frees(r)
    PROVE  /\ runs' \subseteq JobRuns /\ running' \in [Procs -> SUBSET Jobs]
           /\ PlacesHeld' /\ NoOverlap'
<1> USE DEF CronInv, CronTypeOK
<1>1. r \in JobRuns /\ r.proc \in Procs /\ r.job \in Jobs
  BY DEF JobRuns
<1>2. CASE r.byHand
  BY <1>1, <1>2 DEF Frees, PlacesHeld, NoOverlap
<1>3. CASE ~r.byHand
  <2>1. running' = [running EXCEPT ![r.proc] = @ \ {r.job}]
    BY <1>3 DEF Frees
  <2>2. running' \in [Procs -> SUBSET Jobs]
    BY <1>1, <2>1
  <2>3. ASSUME NEW s \in runs', ~s.byHand
        PROVE  s.job \in running'[s.proc]
    <3>1. s \in runs /\ s # r /\ s.proc \in Procs /\ s.job \in running[s.proc]
      BY <2>3 DEF PlacesHeld, JobRuns
    <3>2. s.proc = r.proc => s.job # r.job
      BY <1>3, <2>3, <3>1 DEF NoOverlap
    <3> QED
      BY <1>1, <2>1, <3>1, <3>2
  <2> QED
    BY <2>2, <2>3 DEF PlacesHeld, NoOverlap
<1> QED
  BY <1>2, <1>3

LEMMA RunKeeps ==
    ASSUME CronInv, NEW r \in runs, RunEnds(r) \/ TimesOut(r) \/ Released(r), UNCHANGED now
    PROVE  CronInv'
<1> USE DEF CronInv, CronTypeOK
<1>1. CASE RunEnds(r)
  BY <1>1, FreesKeeps, OutcomeKeeps DEF RunEnds
<1>2. CASE TimesOut(r)
  <2> DEFINE late == [r EXCEPT !.stage = "late"]
  <2>1. late \in JobRuns /\ late.byHand = r.byHand /\ late.proc = r.proc /\ late.job = r.job
    BY DEF JobRuns
  <2>2. runs' = (runs \ {r}) \cup {late} /\ UNCHANGED <<read, running>> /\ Outcome(r)
    BY <1>2 DEF TimesOut
  <2> HIDE DEF late
  <2>3. PlacesHeld' /\ NoOverlap'
    BY <2>1, <2>2 DEF PlacesHeld, NoOverlap
  <2> QED
    BY <2>1, <2>2, <2>3, OutcomeKeeps
<1>3. CASE Released(r)
  <2>1. UNCHANGED <<job, read, claims>> /\ runs' = runs \ {r} /\ Frees(r)
    BY <1>3 DEF Released
  <2>2. \A j \in Jobs : ClaimsOK(j)'
    BY <2>1, SameClaims DEF Created
  <2> QED
    BY <2>1, <2>2, FreesKeeps DEF ReadOK, Created
<1> QED
  BY <1>1, <1>2, <1>3

LEMMA RunByHandKeeps ==
    ASSUME CronInv, NEW p \in Procs, NEW j \in Jobs, RunByHand(p, j), UNCHANGED now
    PROVE  CronInv'
<1> USE DEF CronInv, CronTypeOK
<1>1. job[j].cron \in Periods /\ UNCHANGED <<job, read, running, claims>>
  BY DEF RunByHand, Created, JobRows
<1>2. nextRunFromCron(job[j].cron, now) \in Nat
  BY <1>1, NextIsLater, CronJobsAssumption
<1> DEFINE new == Run(p, j, TRUE, nextRunFromCron(job[j].cron, now))
<1>3. new \in JobRuns /\ new.byHand /\ runs' = runs \cup {new}
  BY <1>2 DEF RunByHand, Run, JobRuns
<1> HIDE DEF new
<1>4. \A i \in Jobs : ClaimsOK(i)'
  BY <1>1, SameClaims DEF Created
<1> QED
  BY <1>1, <1>3, <1>4 DEF ReadOK, Created, PlacesHeld, NoOverlap

LEMMA StopJobsKeeps ==
    ASSUME CronInv, NEW p \in Procs, StopJobs(p), UNCHANGED now
    PROVE  CronInv'
<1> USE DEF CronInv, CronTypeOK
<1>1. /\ read' \subseteq read /\ runs' = {r \in runs : r.proc # p}
      /\ running' = [running EXCEPT ![p] = {}] /\ UNCHANGED <<job, claims>>
  BY DEF StopJobs
<1>2. \A j \in Jobs : ClaimsOK(j)'
  BY <1>1, SameClaims DEF Created
<1>3. running' \in [Procs -> SUBSET Jobs] /\ PlacesHeld'
  BY <1>1 DEF PlacesHeld, JobRuns
<1> QED
  BY <1>1, <1>2, <1>3 DEF ReadOK, Created, NoOverlap

LEMMA ElseKeepsCron ==
    ASSUME CronInv, now' \in Nat, UNCHANGED cron
    PROVE  CronInv'
<1> USE DEF CronInv, CronTypeOK
<1>1. UNCHANGED <<job, read, runs, running, claims>>
  BY DEF cron
<1>2. \A j \in Jobs : ClaimsOK(j)'
  BY <1>1, SameClaims DEF Created
<1> QED
  BY <1>1, <1>2 DEF ReadOK, Created, PlacesHeld, NoOverlap

LEMMA CronNext == CronInv /\ [Next]_vars => CronInv'
<1> SUFFICES ASSUME CronInv, [Next]_vars
             PROVE  CronInv'
  OBVIOUS
<1>1. now \in Nat
  BY DEF CronInv, CronTypeOK
<1>2. CASE Passes \/ Deliver \/ Store \/ Configure \/ UNCHANGED vars
  <2>1. UNCHANGED cron /\ now' \in {now, now + 1}
    BY <1>2 DEF Passes, Pass, Deliver, Store, Configure, vars
  <2> QED
    BY <1>1, <2>1, ElseKeepsCron
<1>3. CASE Schedule
  <2>1. UNCHANGED now /\ ((\E j \in Jobs : CreateJob(j)) \/ JobStep)
    BY <1>3 DEF Schedule
  <2> QED
    BY <2>1, CreateKeeps, ReadKeeps, RunByHandKeeps, InitialiseKeeps, ClaimSlotKeeps,
       RunKeeps, RescheduleKeeps DEF JobStep
<1>4. ASSUME NEW p \in Procs, Crash(p)
      PROVE  CronInv'
  BY <1>4, StopJobsKeeps DEF Crash
<1> QED
  BY <1>2, <1>3, <1>4 DEF Next

LEMMA CronInvariant == Spec => []CronInv
<1>1. Init => CronInv
  BY CronInit DEF Init
<1> QED
  BY <1>1, CronNext, PTL DEF Spec

\* One tick claims a slot of a cron job, and slots are claimed in order
\* (scheduleTick and runJob, core/jobs.ts), for any number of servers and
\* overlapping ticks and any schedules: every claim moves the schedule past the
\* time of the tick that makes it, so whoever read the slot before is too late.
THEOREM SlotsAreClaimedOnce == Spec => []SlotOnce
<1>1. CronInv => SlotOnce
  BY DEF CronInv, ClaimsOK, SlotOnce
<1> QED
  BY <1>1, CronInvariant, PTL

\* A server has one run of a job on schedule at a time (runningJobs,
\* core/jobs.ts), also while a script that ran out of time goes on, and
\* whatever runs by hand there are beside it.
THEOREM JobsDontOverlap == Spec => []NoOverlap
<1>1. CronInv => NoOverlap
  BY DEF CronInv
<1> QED
  BY <1>1, CronInvariant, PTL

-----------------------------------------------------------------------------
(* The sweep of orphaned files. *)

FileRows == [row : BOOLEAN, object : BOOLEAN, field : Fields \cup {Nothing}, at : Nat]

\* What a sweep has read of some of the columns.
Columns == UNION {[D -> SUBSET (Files \cup {Nothing})] : D \in SUBSET Fields}

Sweeps == [proc : Procs, fields : SUBSET Fields, began : Nat, stage : {"rows", "values"},
           todo : SUBSET Files, seen : Columns, cutting : Files \cup {Nothing},
           spares : SUBSET Files]

StoredTypeOK == /\ now \in Nat
                /\ fields \subseteq Fields
                /\ names \in [Fields -> SUBSET Files]
                /\ file \in [Files -> FileRows]
                /\ sweeps \subseteq Sweeps

\* A column that is not there names nothing, and one that is there names what
\* was uploaded to its field, but for a field that was renamed.
NamesOK == /\ \A c \in Fields \ fields : names[c] = {}
           /\ \A c \in Fields : \A f \in names[c] \ moved : file[f].field = c

\* What a sweep must spare is named; the sweep has its field, and if it has
\* read the column, it knows.
SweepOK(s) ==
    /\ s.spares \subseteq Named
    /\ \A f \in s.spares \ moved :
         /\ file[f].field \in s.fields
         /\ file[f].field \in DOMAIN s.seen =>
               s.seen[file[f].field] = Failed \/ f \in s.seen[file[f].field]
    /\ s.cutting \notin s.spares \ moved

SweepInv == StoredTypeOK /\ NamesOK /\ \A s \in sweeps : SweepOK(s)

LEMMA SweepInit == now = 0 /\ InitFiles => SweepInv
<1> SUFFICES ASSUME now = 0, InitFiles PROVE SweepInv
  OBVIOUS
<1> USE DEF InitFiles
<1>1. StoredTypeOK
  BY FileSweepAssumption DEF StoredTypeOK, FileRows
<1>2. NamesOK
  BY DEF NamesOK
<1> QED
  BY <1>1, <1>2 DEF SweepInv

\* A named file whose field was not renamed is in the column of its field.
LEMMA NamedByItsField ==
    ASSUME StoredTypeOK, NamesOK, NEW f \in Named \ moved
    PROVE  f \in Files /\ file[f].field \in fields /\ f \in names[file[f].field] /\ f \in Uploaded
<1>1. PICK c \in Fields : f \in names[c]
  BY DEF Named
<1>2. f \in Files /\ file[f].field = c /\ c \in fields
  BY <1>1 DEF StoredTypeOK, NamesOK
<1> QED
  BY <1>1, <1>2, FileSweepAssumption DEF Uploaded

LEMMA UploadKeeps ==
    ASSUME SweepInv, NEW f \in Files, Upload(f), UNCHANGED now
    PROVE  SweepInv'
<1> USE DEF SweepInv
<1>1. UNCHANGED <<fields, names, sweeps, changes, moved>> /\ f \notin Uploaded
  BY DEF Upload
<1>2. PICK c \in fields : file' = [file EXCEPT ![f] = [row |-> TRUE, object |-> TRUE, field |-> c, at |-> now]]
  BY DEF Upload
<1>3. file' \in [Files -> FileRows] /\ \A g \in Files \ {f} : file'[g] = file[g]
  BY <1>2 DEF StoredTypeOK, FileRows
<1>4. \A g \in Named \ moved : g \in Files \ {f}
  BY <1>1, NamedByItsField
<1>5. StoredTypeOK' /\ Named' = Named
  BY <1>1, <1>3 DEF StoredTypeOK, Named
<1>6. NamesOK'
  <2>1. \A d \in Fields : \A g \in names[d] \ moved : g \in Named \ moved
    BY DEF Named
  <2> QED
    BY <1>1, <1>3, <1>4, <2>1 DEF NamesOK
<1>7. ASSUME NEW s \in sweeps'
      PROVE  SweepOK(s)'
  <2>1. SweepOK(s) /\ s.spares \subseteq Named
    BY <1>1 DEF SweepOK
  <2>2. \A g \in s.spares \ moved : file'[g].field = file[g].field
    BY <1>3, <1>4, <2>1
  <2> QED
    BY <1>1, <1>5, <2>1, <2>2 DEF SweepOK
<1> QED
  BY <1>5, <1>6, <1>7

\* A change of the record or the schema: every sweep spares less.
LEMMA ChangesKeep ==
    ASSUME SweepInv, Changes, UNCHANGED now, fields' \subseteq Fields,
           names' \in [Fields -> SUBSET Files], moved \subseteq moved', NamesOK'
    PROVE  SweepInv'
<1> USE DEF SweepInv
<1>1. file' = file /\ sweeps' = {[s EXCEPT !.spares = @ \cap Named'] : s \in sweeps}
  BY DEF Changes, Named
<1>2. ASSUME NEW t \in sweeps'
      PROVE  t \in Sweeps /\ SweepOK(t)'
  <2>1. PICK s \in sweeps : t = [s EXCEPT !.spares = @ \cap Named']
    BY <1>1
  <2>2. s \in Sweeps /\ SweepOK(s)
    BY DEF StoredTypeOK
  <2>3. /\ t \in Sweeps /\ t.spares = s.spares \cap Named'
        /\ t.fields = s.fields /\ t.seen = s.seen /\ t.cutting = s.cutting
    BY <2>1, <2>2 DEF Sweeps
  <2>4. \A f \in t.spares \ moved' : f \in s.spares \ moved
    BY <2>3
  <2>5. SweepOK(t)'
    BY <1>1, <2>2, <2>3, <2>4 DEF SweepOK
  <2> QED
    BY <2>3, <2>5
<1>3. StoredTypeOK'
  BY <1>1, <1>2 DEF StoredTypeOK
<1> QED
  BY <1>1, <1>2, <1>3

LEMMA EditKeeps ==
    ASSUME SweepInv, NEW c \in Fields, Edit(c), UNCHANGED now
    PROVE  SweepInv'
<1> USE DEF SweepInv, StoredTypeOK
<1>1. c \in fields /\ UNCHANGED <<fields, moved, file>> /\ Changes
  BY DEF Edit, Changes
<1>2. PICK S \in SUBSET (names[c] \cup {f \in Files : file[f].row /\ file[f].field = c}) :
         names' = [names EXCEPT ![c] = S]
  BY DEF Edit
<1>3. S \subseteq Files /\ \A f \in S \ moved : file[f].field = c
  BY <1>2 DEF NamesOK
<1>4. names' \in [Fields -> SUBSET Files] /\ NamesOK'
  BY <1>1, <1>2, <1>3 DEF NamesOK
<1> QED
  BY <1>1, <1>4, ChangesKeep

LEMMA SchemaKeeps ==
    ASSUME SweepInv, NEW c \in Fields, UNCHANGED now,
           \/ AddField(c) \/ DropField(c)
           \/ \E d \in Fields : RenameField(c, d)
    PROVE  SweepInv'
<1> USE DEF SweepInv, StoredTypeOK
<1>1. CASE AddField(c)
  <2>1. fields' = fields \cup {c} /\ UNCHANGED <<names, moved, file>> /\ Changes
    BY <1>1 DEF AddField, Changes
  <2>2. NamesOK'
    BY <2>1 DEF NamesOK
  <2> QED
    BY <2>1, <2>2, ChangesKeep
<1>2. CASE DropField(c)
  <2>1. /\ fields' = fields \ {c} /\ names' = [names EXCEPT ![c] = {}]
        /\ UNCHANGED <<moved, file>> /\ Changes
    BY <1>2 DEF DropField, Changes
  <2>2. names' \in [Fields -> SUBSET Files] /\ NamesOK'
    BY <2>1 DEF NamesOK
  <2> QED
    BY <2>1, <2>2, ChangesKeep
<1>3. ASSUME NEW d \in Fields, RenameField(c, d)
      PROVE  SweepInv'
  <2>1. /\ c \in fields /\ d \notin fields /\ fields' = (fields \ {c}) \cup {d}
        /\ names' = [names EXCEPT ![d] = names[c], ![c] = {}]
        /\ moved' = moved \cup names[c] /\ file' = file /\ Changes
    BY <1>3 DEF RenameField, Changes
  <2>2. /\ names' \in [Fields -> SUBSET Files] /\ names'[c] = {} /\ names'[d] = names[c]
        /\ \A e \in Fields \ {c, d} : names'[e] = names[e]
    BY <2>1
  <2>3. NamesOK'
    BY <2>1, <2>2 DEF NamesOK
  <2> QED
    BY <2>1, <2>2, <2>3, ChangesKeep
<1> QED
  BY <1>1, <1>2, <1>3

\* A step of a sweep, which changes no field of a file.
LEMMA SweepStepKeeps ==
    ASSUME SweepInv, now' \in Nat, UNCHANGED <<fields, names, moved>>,
           file' \in [Files -> FileRows], \A f \in Files : file'[f].field = file[f].field,
           \A s \in sweeps' : s \in sweeps \/ (s \in Sweeps /\ SweepOK(s))
    PROVE  SweepInv'
<1> USE DEF SweepInv
<1>1. StoredTypeOK' /\ Named' = Named
  BY DEF StoredTypeOK, Named
<1>2. NamesOK'
  BY DEF NamesOK, StoredTypeOK
<1>3. ASSUME NEW s \in sweeps'
      PROVE  SweepOK(s)'
  <2>1. s \in Sweeps /\ SweepOK(s)
    BY DEF StoredTypeOK
  <2>2. \A f \in s.spares : f \in Files
    BY <2>1 DEF Sweeps
  <2> QED
    BY <1>1, <2>1, <2>2 DEF SweepOK
<1> QED
  BY <1>1, <1>2, <1>3

LEMMA BeginsKeeps ==
    ASSUME SweepInv, NEW p \in Procs, SweepBegins(p), UNCHANGED now
    PROVE  SweepInv'
<1> USE DEF SweepInv, StoredTypeOK
<1> DEFINE new == [proc |-> p, fields |-> fields, began |-> now, stage |-> "rows",
                   todo |-> {}, seen |-> [c \in {} |-> {}], cutting |-> Nothing,
                   spares |-> Named]
<1>1. sweeps' = sweeps \cup {new} /\ UNCHANGED <<fields, names, file, changes, moved>>
  BY DEF SweepBegins
<1>2. Named \subseteq Files
  BY DEF Named
<1>3. [c \in {} |-> {}] \in [{} -> SUBSET (Files \cup {Nothing})]
  OBVIOUS
<1>4. [c \in {} |-> {}] \in Columns
  BY <1>3 DEF Columns
<1>5. /\ new \in Sweeps
      /\ new.spares = Named /\ new.fields = fields /\ DOMAIN new.seen = {} /\ new.cutting = Nothing
  BY <1>2, <1>4 DEF Sweeps
<1> HIDE DEF new
<1>6. Nothing \notin Named
  BY <1>2, FileSweepAssumption
<1>7. SweepOK(new)
  BY <1>5, <1>6, NamedByItsField DEF SweepOK
<1> QED
  BY <1>1, <1>5, <1>7, SweepStepKeeps

LEMMA ReadRowsKeeps ==
    ASSUME SweepInv, NEW s \in sweeps, ReadRows(s), UNCHANGED now
    PROVE  SweepInv'
<1> USE DEF SweepInv, StoredTypeOK
<1> DEFINE T == {f \in Files : file[f].row /\ file[f].at + Grace < s.began}
           t == [s EXCEPT !.stage = "values", !.todo = T]
<1>1. sweeps' = (sweeps \ {s}) \cup {t} /\ UNCHANGED <<fields, names, file, changes, moved>>
  BY DEF ReadRows, Steps
<1>2. s \in Sweeps /\ SweepOK(s) /\ T \subseteq Files
  OBVIOUS
<1> HIDE DEF T
<1>3. /\ t \in Sweeps
      /\ t.spares = s.spares /\ t.fields = s.fields /\ t.seen = s.seen /\ t.cutting = s.cutting
  BY <1>2 DEF Sweeps
<1> HIDE DEF t
<1>4. SweepOK(t)
  BY <1>2, <1>3 DEF SweepOK
<1> QED
  BY <1>1, <1>3, <1>4, SweepStepKeeps

LEMMA ReadValuesKeeps ==
    ASSUME SweepInv, NEW s \in sweeps, ReadValues(s), UNCHANGED now
    PROVE  SweepInv'
<1> USE DEF SweepInv, StoredTypeOK
<1>1. PICK c \in Groups(s) \ DOMAIN s.seen :
         \E v \in {Failed} \cup (IF c \in fields THEN {names[c]} ELSE {}) :
            Steps(s, [s EXCEPT !.seen = [d \in DOMAIN @ \cup {c} |-> IF d = c THEN v ELSE @[d]]])
  BY DEF ReadValues
<1>2. PICK v \in {Failed, names[c]} :
         Steps(s, [s EXCEPT !.seen = [d \in DOMAIN @ \cup {c} |-> IF d = c THEN v ELSE @[d]]])
  BY <1>1
<1> DEFINE read2 == [d \in DOMAIN s.seen \cup {c} |-> IF d = c THEN v ELSE s.seen[d]]
           t == [s EXCEPT !.seen = read2]
<1>3. sweeps' = (sweeps \ {s}) \cup {t} /\ UNCHANGED <<fields, names, file, changes, moved>>
  BY <1>2 DEF ReadValues, Steps
<1>4. s \in Sweeps /\ SweepOK(s) /\ s.fields \subseteq Fields /\ s.seen \in Columns
  BY DEF Sweeps
<1>5. c \in Fields /\ (v = Failed \/ v = names[c]) /\ v \in SUBSET (Files \cup {Nothing})
  BY <1>2, <1>1, <1>4 DEF Groups, Failed
<1>6. read2 \in Columns
  <2>1. PICK D \in SUBSET Fields : s.seen \in [D -> SUBSET (Files \cup {Nothing})]
    BY <1>4 DEF Columns
  <2>2. read2 \in [D \cup {c} -> SUBSET (Files \cup {Nothing})] /\ D \cup {c} \in SUBSET Fields
    BY <1>5, <2>1
  <2> QED
    BY <2>2 DEF Columns
<1>7. /\ DOMAIN read2 = DOMAIN s.seen \cup {c} /\ read2[c] = v
      /\ \A d \in DOMAIN s.seen \ {c} : read2[d] = s.seen[d]
  OBVIOUS
<1> HIDE DEF read2
<1>8. /\ t \in Sweeps
      /\ t.spares = s.spares /\ t.fields = s.fields /\ t.seen = read2 /\ t.cutting = s.cutting
  BY <1>4, <1>6 DEF Sweeps
<1> HIDE DEF t
<1>9. \A f \in s.spares \ moved : file[f].field = c => v = Failed \/ f \in v
  BY <1>4, <1>5, NamedByItsField DEF SweepOK
<1>10. SweepOK(t)
  BY <1>1, <1>4, <1>7, <1>8, <1>9 DEF SweepOK
<1> QED
  BY <1>3, <1>8, <1>10, SweepStepKeeps

\* By what it read a sweep takes no file for an orphan that it must spare.
LEMMA OrphansAreNotSpared ==
    ASSUME SweepInv, NEW s \in sweeps, Decides(s)
    PROVE  Orphans(s) \cap (s.spares \ moved) = {}
<1> SUFFICES ASSUME NEW f \in Orphans(s), f \in s.spares \ moved
             PROVE  FALSE
  OBVIOUS
<1>1. SweepOK(s)
  BY DEF SweepInv
<1>2. file[f].field \in s.fields /\ f \in s.todo
  BY <1>1 DEF SweepOK, Orphans
<1>3. file[f].field \in DOMAIN s.seen
  BY <1>2 DEF Decides, Groups
<1> QED
  BY <1>1, <1>2, <1>3 DEF SweepOK, Orphans

\* A sweep is done with some files, and with one in hand.
LEMMA TodoKeeps ==
    ASSUME SweepInv, NEW s \in sweeps, NEW left \in SUBSET Files, NEW inHand,
           inHand \in (Files \cup {Nothing}) \ (s.spares \ moved)
    PROVE  LET t == [s EXCEPT !.todo = left, !.cutting = inHand]
           IN  t \in Sweeps /\ SweepOK(t)
<1> DEFINE t == [s EXCEPT !.todo = left, !.cutting = inHand]
<1>1. s \in Sweeps /\ SweepOK(s)
  BY DEF SweepInv, StoredTypeOK
<1>2. /\ t \in Sweeps
      /\ t.spares = s.spares /\ t.fields = s.fields /\ t.seen = s.seen /\ t.cutting = inHand
  BY <1>1 DEF Sweeps
<1> HIDE DEF t
<1>3. SweepOK(t)
  BY <1>1, <1>2 DEF SweepOK
<1> QED
  BY <1>2, <1>3 DEF t

LEMMA DeleteObjectKeeps ==
    ASSUME SweepInv, NEW s \in sweeps, DeleteObject(s), UNCHANGED now
    PROVE  SweepInv'
<1> USE DEF SweepInv, StoredTypeOK
<1>1. s \in Sweeps /\ SweepOK(s) /\ s.todo \subseteq Files /\ Decides(s) /\ s.cutting = Nothing
  BY DEF Sweeps, DeleteObject
<1>2. UNCHANGED <<fields, names, changes, moved>>
  BY DEF DeleteObject
<1>3. PICK f \in Orphans(s) :
         \/ /\ file' = [file EXCEPT ![f].object = FALSE]
            /\ Steps(s, [s EXCEPT !.cutting = f])
         \/ /\ Steps(s, [s EXCEPT !.todo = @ \ {f}])
            /\ UNCHANGED file
  BY DEF DeleteObject
<1>4. f \in Files /\ f \notin s.spares \ moved
  BY <1>1, OrphansAreNotSpared DEF Orphans
<1>5. CASE file' = [file EXCEPT ![f].object = FALSE] /\ Steps(s, [s EXCEPT !.cutting = f])
  <2> DEFINE t == [s EXCEPT !.todo = s.todo, !.cutting = f]
  <2>1. t = [s EXCEPT !.cutting = f]
    BY <1>1 DEF Sweeps
  <2>2. t \in Sweeps /\ SweepOK(t)
    BY <1>1, <1>4, TodoKeeps
  <2> HIDE DEF t
  <2>3. file' \in [Files -> FileRows] /\ \A g \in Files : file'[g].field = file[g].field
    BY <1>5 DEF FileRows
  <2>4. sweeps' = (sweeps \ {s}) \cup {t}
    BY <1>5, <2>1 DEF Steps
  <2> QED
    BY <1>2, <2>2, <2>3, <2>4, SweepStepKeeps
<1>6. CASE Steps(s, [s EXCEPT !.todo = @ \ {f}]) /\ UNCHANGED file
  <2> DEFINE t == [s EXCEPT !.todo = s.todo \ {f}, !.cutting = Nothing]
  <2>1. t = [s EXCEPT !.todo = @ \ {f}]
    BY <1>1 DEF Sweeps
  <2>2. s.todo \ {f} \in SUBSET Files /\ Nothing \in (Files \cup {Nothing}) \ (s.spares \ moved)
    BY <1>1, FileSweepAssumption DEF Sweeps
  <2>3. t \in Sweeps /\ SweepOK(t)
    BY <2>2, TodoKeeps
  <2> HIDE DEF t
  <2>4. sweeps' = (sweeps \ {s}) \cup {t}
    BY <1>6, <2>1 DEF Steps
  <2> QED
    BY <1>2, <1>6, <2>3, <2>4, SweepStepKeeps
<1> QED
  BY <1>3, <1>5, <1>6

LEMMA DeleteRowKeeps ==
    ASSUME SweepInv, NEW s \in sweeps, DeleteRow(s), UNCHANGED now
    PROVE  SweepInv'
<1> USE DEF SweepInv, StoredTypeOK
<1> DEFINE t == [s EXCEPT !.todo = s.todo \ {s.cutting}, !.cutting = Nothing]
<1>1. s \in Sweeps /\ s.todo \subseteq Files /\ s.spares \subseteq Files
  BY DEF Sweeps
<1>2. /\ file' = [file EXCEPT ![s.cutting].row = FALSE]
      /\ sweeps' = (sweeps \ {s}) \cup {t}
      /\ UNCHANGED <<fields, names, changes, moved>>
  BY DEF DeleteRow, Steps
<1>3. s.todo \ {s.cutting} \in SUBSET Files /\ Nothing \in (Files \cup {Nothing}) \ (s.spares \ moved)
  BY <1>1, FileSweepAssumption
<1>4. t \in Sweeps /\ SweepOK(t)
  BY <1>3, TodoKeeps
<1> HIDE DEF t
<1>5. file' \in [Files -> FileRows] /\ \A g \in Files : file'[g].field = file[g].field
  BY <1>2 DEF FileRows
<1> QED
  BY <1>2, <1>4, <1>5, SweepStepKeeps

LEMMA SweepNext == SweepInv /\ [Next]_vars => SweepInv'
<1> SUFFICES ASSUME SweepInv, [Next]_vars
             PROVE  SweepInv'
  OBVIOUS
<1>1. now \in Nat /\ file \in [Files -> FileRows]
  BY DEF SweepInv, StoredTypeOK
<1>2. CASE Passes \/ Deliver \/ Schedule \/ Configure \/ UNCHANGED vars
  <2>1. UNCHANGED stored /\ now' \in {now, now + 1}
    BY <1>2 DEF Passes, Pass, Deliver, Schedule, Configure, vars
  <2> QED
    BY <1>1, <2>1, SweepStepKeeps DEF stored
<1>3. CASE Store
  <2>1. UNCHANGED now /\ ((\E f \in Files : Upload(f)) \/ FileStep)
    BY <1>3 DEF Store
  <2>2. ASSUME NEW s \in sweeps, SweepEnds(s)
        PROVE  SweepInv'
    BY <1>1, <2>1, <2>2, SweepStepKeeps DEF SweepEnds
  <2> QED
    BY <2>1, <2>2, UploadKeeps, EditKeeps, SchemaKeeps, BeginsKeeps, ReadRowsKeeps,
       ReadValuesKeeps, DeleteObjectKeeps, DeleteRowKeeps DEF FileStep
<1>4. ASSUME NEW p \in Procs, Crash(p)
      PROVE  SweepInv'
  BY <1>1, <1>4, SweepStepKeeps DEF Crash, StopSweep
<1> QED
  BY <1>2, <1>3, <1>4 DEF Next

\* No sweep removes a file that the record has named ever since the sweep began
\* (core/file-sweep.ts:7-11), but one whose field was renamed: for any number
\* of servers, files, fields and changes of the record and the schema while
\* sweeps read, and columns that cannot be read.
THEOREM SweepsSpareNamedFiles == Spec => []NamedFilesStay
<1>1. Init => SweepInv
  BY SweepInit DEF Init
<1>2. SweepInv => NamedFilesStay
  BY DEF SweepInv, SweepOK, NamedFilesStay
<1> QED
  BY <1>1, <1>2, SweepNext, PTL DEF Spec

-----------------------------------------------------------------------------
(* The settings store. *)

Calls == [kind : {"set", "reload", "reread"}, stage : {"ask", "answered"}, val : Nat, marked : BOOLEAN]

SettingsTypeOK == /\ rows \in Seq(Nat) /\ Len(rows) > 0
                  /\ store \in Nat
                  /\ calls \subseteq Calls
                  /\ sets \in Nat
                  /\ own \in Nat
                  /\ beside \in BOOLEAN

\* No value is written twice.
ValuesOK ==
    /\ \A i \in 1 .. Len(rows) : rows[i] <= sets
    /\ \A i, k \in 1 .. Len(rows) : rows[i] = rows[k] => i = k
    /\ own <= sets
    /\ \A c \in Under("set") : /\ c.val <= sets
                               /\ c.stage = "ask" => ~Written(c.val)
    /\ \A c, d \in Under("set") : c.val = d.val => c = d

\* A reload that takes the row's value began after the last write ended, and so
\* did a re-read that is not beside one.
NoneWrites == Under("set") = {}

ReadsApart == /\ (\E c \in Under("reload") : ~c.marked) => NoneWrites
              /\ ~beside /\ Under("reread") # {} => NoneWrites

OwnOnItsWay == own # 0 => Written(own) \/ \E c \in Under("set") : c.stage = "ask" /\ c.val = own

\* What the process set last, or what the row had later.
Later(v) == v = own \/ \E i, k \in 1 .. Len(rows) : i < k /\ rows[i] = own /\ rows[k] = v

\* A call that will take the row's value.
Takes(c) == /\ c.kind = "reload" \/ (c.kind = "reread" /\ ~beside)
            /\ c.stage = "answered"
            /\ ~c.marked

SettingsInv == /\ SettingsTypeOK /\ ValuesOK /\ ReadsApart /\ OwnOnItsWay
               /\ own # 0 => \A c \in calls : Takes(c) => Later(c.val)
               /\ own # 0 /\ ~beside => Later(store)

LEMMA SettingsInit == InitSettings => SettingsInv
<1> SUFFICES ASSUME InitSettings PROVE SettingsInv
  OBVIOUS
<1>1. rows = <<0>> /\ Len(rows) = 1 /\ rows[1] = 0 /\ calls = {} /\ own = 0 /\ store = 0 /\ sets = 0 /\ beside = FALSE
  BY DEF InitSettings
<1>2. SettingsTypeOK
  <2>1. rows \in Seq(Nat)
    BY <1>1
  <2>2. Len(rows) > 0 /\ store \in Nat /\ sets \in Nat /\ own \in Nat /\ calls \subseteq Calls
    BY <1>1
  <2>3. beside \in BOOLEAN
    BY <1>1
  <2> QED
    BY <2>1, <2>2, <2>3 DEF SettingsTypeOK
<1>3. Under("set") = {} /\ Under("reload") = {} /\ Under("reread") = {}
  BY <1>1 DEF Under
<1>4. ValuesOK
  BY <1>1, <1>3 DEF ValuesOK
<1> QED
  BY <1>1, <1>2, <1>3, <1>4 DEF SettingsInv, ReadsApart, OwnOnItsWay

\* Steps that change neither the row nor what was set: a call begins or ends.
LEMMA CallsKeep ==
    ASSUME SettingsInv, UNCHANGED <<rows, sets, own>>, store' \in Nat, beside' \in BOOLEAN,
           calls' \subseteq Calls, beside => beside',
           \A c \in calls' : c.kind = "set" => c \in calls,
           \A c \in calls : c.kind = "set" /\ c.stage = "ask" => c \in calls',
           ReadsApart',
           own # 0 => \A c \in calls' : Takes(c)' => c \in calls \/ Later(c.val),
           own # 0 /\ ~beside' => store' = store \/ Later(store')
    PROVE  SettingsInv'
<1> USE DEF SettingsInv
<1>1. SettingsTypeOK'
  BY DEF SettingsTypeOK
<1>2. Under("set")' \subseteq Under("set")
  BY DEF Under
<1>3. \A v : Written(v)' <=> Written(v)
  BY DEF Written
<1>4. \A v : Later(v)' <=> Later(v)
  BY DEF Later
<1>5. ValuesOK'
  BY <1>2, <1>3 DEF ValuesOK
<1>6. OwnOnItsWay'
  BY <1>3 DEF OwnOnItsWay, Under
<1>7. own # 0 => \A c \in calls' : Takes(c)' => Later(c.val)'
  BY <1>4 DEF Takes
<1>8. own # 0 /\ ~beside' => Later(store)'
  BY <1>4
<1> QED
  BY <1>1, <1>5, <1>6, <1>7, <1>8

LEMMA SetEndsKeeps ==
    ASSUME SettingsInv, NEW c \in calls, SetEnds(c)
    PROVE  SettingsInv'
<1> USE DEF SettingsInv, SettingsTypeOK
<1>1. /\ c.kind = "set" /\ c.stage = "answered" /\ calls' = calls \ {c}
      /\ UNCHANGED <<rows, store, sets, own, beside>>
  BY DEF SetEnds
<1>2. ReadsApart'
  BY <1>1 DEF ReadsApart, NoneWrites, Under
<1> QED
  BY <1>1, <1>2, CallsKeep

LEMMA ReloadKeeps ==
    ASSUME SettingsInv, Reload \/ Reread
    PROVE  SettingsInv'
<1> USE DEF SettingsInv, SettingsTypeOK
<1>1. CASE Reload
  <2> DEFINE new == Call("reload", 0, Under("set") # {})
  <2>1. calls' = calls \cup {new} /\ UNCHANGED <<rows, store, sets, own, beside>>
    BY <1>1 DEF Reload
  <2>2. /\ new \in Calls /\ new.kind = "reload" /\ new.stage = "ask"
        /\ new.marked = (Under("set") # {})
    BY DEF Call, Calls
  <2> HIDE DEF new
  <2>3. ReadsApart'
    BY <2>1, <2>2 DEF ReadsApart, NoneWrites, Under
  <2>4. \A c \in calls' : Takes(c)' => c \in calls
    BY <2>1, <2>2 DEF Takes
  <2> QED
    BY <2>1, <2>2, <2>3, <2>4, CallsKeep
<1>2. CASE Reread
  <2> DEFINE new == Call("reread", 0, FALSE)
  <2>1. /\ calls' = calls \cup {new} /\ UNCHANGED <<rows, store, sets, own>>
        /\ beside' = (beside \/ Under("set") # {})
    BY <1>2 DEF Reread
  <2>2. /\ new \in Calls /\ new.kind = "reread" /\ new.stage = "ask"
    BY DEF Call, Calls
  <2> HIDE DEF new
  <2>3. beside' \in BOOLEAN /\ (beside => beside')
    BY <2>1
  <2>4. ReadsApart'
    BY <2>1, <2>2 DEF ReadsApart, NoneWrites, Under
  <2>5. \A c \in calls' : Takes(c)' => c \in calls
    BY <2>1, <2>2 DEF Takes
  <2> QED
    BY <2>1, <2>2, <2>3, <2>4, <2>5, CallsKeep
<1> QED
  BY <1>1, <1>2

\* When no write is under way, the row has what the process set or better.
LEMMA StoredIsLater ==
    ASSUME SettingsInv, own # 0, NoneWrites
    PROVE  Later(Stored)
<1>1. PICK i \in 1 .. Len(rows) : rows[i] = own
  BY DEF SettingsInv, OwnOnItsWay, NoneWrites, Written
<1>2. Len(rows) \in Nat /\ Len(rows) > 0
  BY DEF SettingsInv, SettingsTypeOK
<1>3. CASE i = Len(rows)
  BY <1>1, <1>3 DEF Later, Stored
<1>4. CASE i < Len(rows)
  <2>1. Len(rows) \in 1 .. Len(rows)
    BY <1>2
  <2> QED
    BY <1>1, <1>4, <2>1 DEF Later, Stored
<1> QED
  BY <1>1, <1>2, <1>3, <1>4

LEMMA ReadRowKeeps ==
    ASSUME SettingsInv, NEW c \in calls, ReadRow(c)
    PROVE  SettingsInv'
<1> USE DEF SettingsInv, SettingsTypeOK
<1>1. /\ c.kind \in {"reload", "reread"} /\ c.stage = "ask" /\ c \in Calls
      /\ UNCHANGED <<rows, store, sets, own, beside>>
  BY DEF ReadRow
<1>2. CASE StatementEnds(c, Stored)
  <2>1. PICK t : t = [c EXCEPT !.stage = "answered", !.val = Stored]
    OBVIOUS
  <2>2. calls' = (calls \ {c}) \cup {t} /\ Stored \in Nat
    BY <1>2, <2>1 DEF StatementEnds, Stored
  <2>3. t \in Calls /\ t.kind = c.kind /\ t.marked = c.marked /\ t.val = Stored
    BY <1>1, <2>1, <2>2 DEF Calls
  <2>4. ReadsApart'
    BY <1>1, <2>2, <2>3 DEF ReadsApart, NoneWrites, Under
  <2>5. Takes(t)' => NoneWrites
    BY <1>1, <2>3 DEF Takes, ReadsApart, Under
  <2>6. own # 0 /\ Takes(t)' => Later(t.val)
    BY <2>3, <2>5, StoredIsLater DEF Later
  <2>7. own # 0 => \A d \in calls' : Takes(d)' => d \in calls \/ Later(d.val)
    BY <2>2, <2>6
  <2>8. /\ calls' \subseteq Calls
        /\ \A d \in calls' : d.kind = "set" => d \in calls
        /\ \A d \in calls : d.kind = "set" /\ d.stage = "ask" => d \in calls'
    BY <1>1, <2>2, <2>3
  <2> QED
    BY <1>1, <2>4, <2>7, <2>8, CallsKeep
<1>3. CASE calls' = calls \ {c}
  <2>1. ReadsApart'
    BY <1>1, <1>3 DEF ReadsApart, NoneWrites, Under
  <2> QED
    BY <1>1, <1>3, <2>1, CallsKeep
<1> QED
  BY <1>2, <1>3 DEF ReadRow

LEMMA MarkedCalls ==
    ASSUME SettingsTypeOK, NEW kind, NEW m \in Marked(kind)
    PROVE  /\ m \in Calls
           /\ m \in calls \/ (m.kind = kind /\ m.marked /\ \E c \in calls : c.kind = kind)
           /\ m.kind = kind => m.marked
<1>1. PICK c \in calls : m = IF c.kind = kind THEN [c EXCEPT !.marked = TRUE] ELSE c
  BY DEF Marked
<1>2. c \in Calls
  BY DEF SettingsTypeOK
<1>3. CASE c.kind = kind
  <2>1. m = [c EXCEPT !.marked = TRUE]
    BY <1>1, <1>3
  <2>2. m \in Calls /\ m.kind = c.kind /\ m.marked
    BY <1>2, <2>1 DEF Calls
  <2> QED
    BY <1>3, <2>2
<1>4. CASE c.kind # kind
  BY <1>1, <1>2, <1>4
<1> QED
  BY <1>3, <1>4

LEMMA OthersStay ==
    ASSUME NEW kind, NEW c \in calls, c.kind # kind
    PROVE  c \in Marked(kind)
BY DEF Marked

LEMMA RereadsEnd ==
    ASSUME SettingsInv, NEW c \in calls, ReloadEnds(c) \/ RereadEnds(c)
    PROVE  SettingsInv'
<1> USE DEF SettingsInv
<1>0. PICK kind \in {"reload", "reread"} : calls' = Marked(kind) \ {c} /\ c.kind \in {"reload", "reread"} \ {kind}
  BY DEF ReloadEnds, RereadEnds
<1>1. /\ c.stage = "answered" /\ c \in Calls
      /\ store' = IF c.marked THEN store ELSE c.val
      /\ UNCHANGED <<rows, sets, own, beside>>
  BY DEF ReloadEnds, RereadEnds, SettingsTypeOK
<1>2. \A m \in calls' : m \in Calls /\ (m \in calls \/ (m.kind = kind /\ m.marked /\ \E d \in calls : d.kind = kind))
  BY <1>0, MarkedCalls
<1>3. \A d \in calls : d.kind = "set" => d \in calls'
  BY <1>0, OthersStay
<1>4. ReadsApart'
  BY <1>1, <1>2 DEF ReadsApart, NoneWrites, Under
<1>5. \A m \in calls' : Takes(m)' => m \in calls
  BY <1>2 DEF Takes
<1>6. own # 0 /\ ~beside => store' = store \/ Later(store')
  BY <1>0, <1>1 DEF Takes
<1>7. store' \in Nat /\ beside' \in BOOLEAN
  BY <1>1 DEF SettingsTypeOK, Calls
<1>8. \A m \in calls' : m.kind = "set" => m \in calls
  BY <1>2
<1> QED
  BY <1>1, <1>2, <1>3, <1>4, <1>5, <1>6, <1>7, <1>8, CallsKeep

\* The row gets a value that no one wrote before.
LEMMA RowWritten ==
    ASSUME SettingsTypeOK, ValuesOK, NEW v \in Nat, rows' = Append(rows, v), ~Written(v),
           sets <= sets', sets' \in Nat, v <= sets'
    PROVE  /\ rows' \in Seq(Nat) /\ Len(rows') > 0
           /\ \A i \in 1 .. Len(rows') : rows'[i] <= sets'
           /\ \A i, k \in 1 .. Len(rows') : rows'[i] = rows'[k] => i = k
           /\ \A u : Written(u)' <=> Written(u) \/ u = v
<1>1. /\ Len(rows) \in Nat /\ sets \in Nat /\ rows' \in Seq(Nat) /\ Len(rows') = Len(rows) + 1
      /\ rows'[Len(rows) + 1] = v
      /\ \A i \in 1 .. Len(rows) : rows'[i] = rows[i] /\ rows[i] \in Nat
  BY DEF SettingsTypeOK
<1>2. \A i \in 1 .. Len(rows') : i \in 1 .. Len(rows) \/ i = Len(rows) + 1
  BY <1>1
<1>3. \A i \in 1 .. Len(rows') : rows'[i] <= sets'
  BY <1>1, <1>2 DEF ValuesOK
<1>4. \A i \in 1 .. Len(rows) : rows[i] # v
  BY DEF Written
<1>5. \A i, k \in 1 .. Len(rows') : rows'[i] = rows'[k] => i = k
  BY <1>1, <1>2, <1>4 DEF ValuesOK
<1>6. \A u : Written(u)' <=> Written(u) \/ u = v
  BY <1>1, <1>2 DEF Written
<1> QED
  BY <1>1, <1>3, <1>5, <1>6

LEMMA LaterStays ==
    ASSUME SettingsTypeOK, NEW v \in Nat, rows' = Append(rows, v), own' = own, NEW u, Later(u)
    PROVE  Later(u)'
<1>1. /\ Len(rows) \in Nat /\ Len(rows') = Len(rows) + 1
      /\ \A i \in 1 .. Len(rows) : rows'[i] = rows[i]
  BY DEF SettingsTypeOK
<1> QED
  BY <1>1 DEF Later

LEMMA SetElsewhereKeeps ==
    ASSUME SettingsInv, SetElsewhere
    PROVE  SettingsInv'
<1> USE DEF SettingsInv
<1>1. /\ sets' = sets + 1 /\ rows' = Append(rows, sets + 1) /\ sets \in Nat
      /\ UNCHANGED <<store, calls, own, beside>>
  BY DEF SetElsewhere, SettingsTypeOK
<1>2. ~Written(sets + 1)
  BY <1>1 DEF Written, ValuesOK, SettingsTypeOK
<1>3. /\ rows' \in Seq(Nat) /\ Len(rows') > 0
      /\ \A i \in 1 .. Len(rows') : rows'[i] <= sets'
      /\ \A i, k \in 1 .. Len(rows') : rows'[i] = rows'[k] => i = k
      /\ \A u : Written(u)' <=> Written(u) \/ u = sets + 1
  BY <1>1, <1>2, RowWritten
<1>4. SettingsTypeOK'
  BY <1>1, <1>3 DEF SettingsTypeOK
<1>5. \A c \in Under("set") : c.val \in Nat /\ c.val <= sets
  BY DEF Under, ValuesOK, SettingsTypeOK, Calls
<1>6. Under("set")' = Under("set")
  BY <1>1 DEF Under
<1>7. own' <= sets'
  BY <1>1 DEF SettingsTypeOK, ValuesOK
<1>8. \A c \in Under("set")' : /\ c.val <= sets'
                               /\ c.stage = "ask" => ~Written(c.val)'
  BY <1>1, <1>3, <1>5, <1>6 DEF ValuesOK
<1>9. ValuesOK'
  BY <1>3, <1>6, <1>7, <1>8 DEF ValuesOK
<1>10. ReadsApart' /\ OwnOnItsWay'
  BY <1>1, <1>3 DEF ReadsApart, NoneWrites, OwnOnItsWay, Under
<1>11. own' # 0 => \A c \in calls' : Takes(c)' => Later(c.val)'
  BY <1>1, LaterStays DEF Takes
<1>12. own' # 0 /\ ~beside' => Later(store)'
  <2>1. Later(store) => Later(store)'
    BY <1>1 DEF Later, SettingsTypeOK
  <2> QED
    BY <1>1, <2>1
<1> QED
  BY <1>4, <1>9, <1>10, <1>11, <1>12

LEMMA RestartKeeps ==
    ASSUME SettingsInv, Restart
    PROVE  SettingsInv'
<1> USE DEF SettingsInv
<1>1. calls' = {} /\ store' = Stored /\ own' = 0 /\ UNCHANGED <<rows, sets, beside>>
  BY DEF Restart
<1>2. SettingsTypeOK'
  BY <1>1 DEF SettingsTypeOK, Stored
<1>3. ValuesOK'
  BY <1>1 DEF ValuesOK, Under, SettingsTypeOK
<1> QED
  BY <1>1, <1>2, <1>3 DEF ReadsApart, Under, OwnOnItsWay

LEMMA SetSettingKeeps ==
    ASSUME SettingsInv, SetSetting
    PROVE  SettingsInv'
<1> USE DEF SettingsInv
<1>1. PICK new : new = Call("set", sets', FALSE)
  OBVIOUS
<1>2. /\ sets \in Nat /\ sets' = sets + 1 /\ store' = sets + 1 /\ own' = sets + 1 /\ rows' = rows
      /\ calls' = Marked("reload") \cup {new}
      /\ beside' = (Under("reread") # {})
  BY <1>1 DEF SetSetting, SettingsTypeOK
<1>3. new \in Calls /\ new.kind = "set" /\ new.stage = "ask" /\ new.val = sets + 1
  BY <1>1, <1>2 DEF Call, Calls
<1>4. \A m \in calls' : \/ m = new
                        \/ m \in Calls /\ m.kind = "reload" /\ m.marked
                        \/ m \in calls /\ m \in Calls /\ m.kind # "reload"
  <2> SUFFICES ASSUME NEW m \in Marked("reload")
               PROVE  \/ m \in Calls /\ m.kind = "reload" /\ m.marked
                      \/ m \in calls /\ m \in Calls /\ m.kind # "reload"
    BY <1>2
  <2> QED
    BY MarkedCalls
<1>5. SettingsTypeOK'
  <2>1. calls' \subseteq Calls
    BY <1>3, <1>4
  <2>2. beside' \in BOOLEAN
    BY <1>2
  <2> QED
    BY <1>2, <2>1, <2>2 DEF SettingsTypeOK
<1>6. ~Written(sets + 1)
  BY <1>2 DEF Written, ValuesOK, SettingsTypeOK
<1>7. Under("set")' \subseteq Under("set") \cup {new}
  BY <1>4 DEF Under
<1>8. \A c \in Under("set") : c.val \in Nat /\ c.val <= sets
  BY DEF Under, ValuesOK, SettingsTypeOK, Calls
<1>9. ValuesOK'
  <2>1. \A i \in 1 .. Len(rows') : rows'[i] <= sets'
    BY <1>2 DEF ValuesOK, SettingsTypeOK
  <2>2. \A c \in Under("set")' : /\ c.val <= sets'
                                 /\ c.stage = "ask" => ~Written(c.val)'
    BY <1>2, <1>3, <1>6, <1>7, <1>8 DEF ValuesOK, Written
  <2>3. \A c, d \in Under("set")' : c.val = d.val => c = d
    BY <1>2, <1>3, <1>7, <1>8 DEF ValuesOK
  <2> QED
    BY <1>2, <2>1, <2>2, <2>3 DEF ValuesOK
<1>10. ~ (\E c \in Under("reload")' : ~c.marked)
  BY <1>3, <1>4 DEF Under
<1>11. \A c \in Under("reread")' : c \in Under("reread") /\ beside'
  BY <1>2, <1>3, <1>4 DEF Under
<1>12. ReadsApart'
  BY <1>10, <1>11 DEF ReadsApart
<1>13. OwnOnItsWay'
  BY <1>2, <1>3 DEF OwnOnItsWay, Under
<1>14. \A c \in calls' : ~Takes(c)'
  <2> SUFFICES ASSUME NEW c \in calls' PROVE ~Takes(c)'
    OBVIOUS
  <2>1. CASE c.kind = "reload"
    BY <1>3, <1>4, <2>1 DEF Takes
  <2>2. CASE c.kind = "reread"
    BY <1>11, <2>2 DEF Takes, Under
  <2> QED
    BY <2>1, <2>2 DEF Takes
<1> QED
  BY <1>2, <1>5, <1>9, <1>12, <1>13, <1>14 DEF Later

LEMMA WriteRowKeeps ==
    ASSUME SettingsInv, NEW c \in calls, WriteRow(c)
    PROVE  SettingsInv'
<1> USE DEF SettingsInv
<1>1. PICK t : t = [c EXCEPT !.stage = "answered", !.val = c.val]
  OBVIOUS
<1>2. /\ c \in Calls /\ c \in Under("set") /\ c.kind = "set" /\ c.stage = "ask" /\ c.val \in Nat
      /\ calls' = (calls \ {c}) \cup {t} /\ UNCHANGED <<store, sets, beside>>
  BY <1>1 DEF WriteRow, StatementEnds, SettingsTypeOK, Calls, Under
<1>3. t \in Calls /\ t.kind = "set" /\ t.stage = "answered" /\ t.val = c.val
  BY <1>1, <1>2 DEF Calls
<1>4. /\ ~NoneWrites
      /\ \A d \in Under("reload") : d.marked
      /\ beside \/ Under("reread") = {}
  BY <1>2 DEF NoneWrites, ReadsApart, SettingsTypeOK
<1>5. /\ Under("set")' = (Under("set") \ {c}) \cup {t}
      /\ Under("reload")' = Under("reload") /\ Under("reread")' = Under("reread")
  BY <1>2, <1>3 DEF Under
<1>6. ReadsApart'
  BY <1>2, <1>4, <1>5 DEF ReadsApart
<1>7. \A d \in calls' : ~Takes(d)'
  BY <1>2, <1>3, <1>4 DEF Takes, Under
<1>8. \A d \in Under("set") \ {c} : d.val # c.val
  BY <1>2 DEF ValuesOK
<1>9. \A d, e \in Under("set")' : d.val = e.val => d = e
  BY <1>3, <1>5, <1>8 DEF ValuesOK
<1>10. CASE rows' = Append(rows, c.val) /\ UNCHANGED own
  <2>1. ~Written(c.val) /\ c.val <= sets /\ sets \in Nat
    BY <1>2 DEF ValuesOK, SettingsTypeOK
  <2>2. /\ rows' \in Seq(Nat) /\ Len(rows') > 0
        /\ \A i \in 1 .. Len(rows') : rows'[i] <= sets'
        /\ \A i, k \in 1 .. Len(rows') : rows'[i] = rows'[k] => i = k
        /\ \A u : Written(u)' <=> Written(u) \/ u = c.val
    BY <1>2, <1>10, <2>1, RowWritten
  <2>3. SettingsTypeOK'
    BY <1>2, <1>3, <1>10, <2>2 DEF SettingsTypeOK
  <2>4. \A d \in Under("set")' : /\ d.val <= sets'
                                 /\ d.stage = "ask" => ~Written(d.val)'
    BY <1>2, <1>3, <1>5, <1>8, <2>2 DEF ValuesOK
  <2>5. ValuesOK'
    BY <1>2, <1>9, <1>10, <2>2, <2>4 DEF ValuesOK
  <2>6. OwnOnItsWay'
    <3>1. CASE own = c.val \/ Written(own)
      BY <1>10, <2>2, <3>1 DEF OwnOnItsWay
    <3>2. CASE own # c.val
      BY <1>5, <1>10, <2>2, <3>2 DEF OwnOnItsWay
    <3> QED
      BY <3>1, <3>2
  <2>7. own' # 0 /\ ~beside' => Later(store)'
    <3>1. Later(store) => Later(store)'
      BY <1>2, <1>10 DEF Later, SettingsTypeOK
    <3> QED
      BY <1>2, <1>10, <3>1
  <2> QED
    BY <1>6, <1>7, <2>3, <2>5, <2>6, <2>7
<1>11. CASE rows' = rows /\ own' = IF own = c.val THEN 0 ELSE own
  <2>1. SettingsTypeOK'
    BY <1>2, <1>3, <1>11 DEF SettingsTypeOK
  <2>2. \A u : Written(u)' <=> Written(u)
    BY <1>11 DEF Written
  <2>3. own' <= sets'
    BY <1>2, <1>11 DEF ValuesOK, SettingsTypeOK
  <2>4. ValuesOK'
    BY <1>2, <1>3, <1>5, <1>9, <1>11, <2>2, <2>3 DEF ValuesOK
  <2>5. OwnOnItsWay'
    BY <1>2, <1>5, <1>11, <2>2 DEF OwnOnItsWay
  <2>6. own' # 0 /\ ~beside' => Later(store)'
    BY <1>2, <1>11 DEF Later
  <2> QED
    BY <1>6, <1>7, <2>1, <2>4, <2>5, <2>6
<1> QED
  BY <1>10, <1>11 DEF WriteRow

LEMMA SettingsNext == SettingsInv /\ [Next]_vars => SettingsInv'
<1> SUFFICES ASSUME SettingsInv, [Next]_vars
             PROVE  SettingsInv'
  OBVIOUS
<1>1. CASE SettingsStep
  BY <1>1, SetSettingKeeps, SetElsewhereKeeps, ReloadKeeps, RestartKeeps, WriteRowKeeps,
     SetEndsKeeps, ReadRowKeeps, RereadsEnd DEF SettingsStep
<1>2. CASE UNCHANGED settings
  BY <1>2 DEF settings, SettingsInv, SettingsTypeOK, ValuesOK, Written, Under, ReadsApart,
              NoneWrites, OwnOnItsWay, Takes, Later
<1> QED
  BY <1>1, <1>2 DEF Next, Passes, Deliver, Schedule, Store, Configure, Crash, vars

\* What a process has set it goes on to see, or what was written later
\* (api/settings.ts:144-148, 179-191), unless the key is read again at the very
\* time it is written: for any number of reloads, re-reads and writes under way,
\* here and elsewhere, and statements that fail.
THEOREM OwnSettingIsKept == Spec => []OwnSettingStays
<1>1. Init => SettingsInv
  BY SettingsInit DEF Init
<1>2. SettingsInv => OwnSettingStays
  <2> SUFFICES ASSUME SettingsInv, own # 0, ~beside, store # own
               PROVE  Written(own) /\ Written(store) /\ At(store) > At(own)
    BY DEF OwnSettingStays
  <2>1. PICK i, k \in 1 .. Len(rows) : i < k /\ rows[i] = own /\ rows[k] = store
    BY DEF SettingsInv, Later
  <2>2. At(own) = i /\ At(store) = k
    BY <2>1 DEF At, SettingsInv, ValuesOK
  <2> QED
    BY <2>1, <2>2 DEF Written
<1> QED
  BY <1>1, <1>2, SettingsNext, PTL DEF Spec

=============================================================================
