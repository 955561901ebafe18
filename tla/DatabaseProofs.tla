---------------------------- MODULE DatabaseProofs ----------------------------
(***************************************************************************)
(* What is done to the database as a whole: its file replaced by a restore *)
(* while the read workers have it open, and its tables changed with the    *)
(* rows of the collections; and what the rules of a collection let be read *)
(* and changed.  The three share nothing but the database.                 *)
(***************************************************************************)
EXTENDS Restore, Collections, FiniteSetTheorems, TLAPS

-----------------------------------------------------------------------------
(* The read workers and a restore, for any number of workers, reads and    *)
(* restores.                                                               *)
(*                                                                         *)
(* The invariant says which thread is where: in service, awaited by a      *)
(* start of the pool, awaited as a replacement, or off; that the pool is   *)
(* stopped from before a swap until its new start is over; and that a      *)
(* thread on a replaced file is a replacement of a pool that is gone.      *)

Starting == {"starting", "starting after failure"}

\* Inside the write gate.
Held == {"drain", "swap", "migrate", "done", "failed"} \cup Kinds \cup Starting

Stages == {"start", "waiting", "following", "ok", "error"} \cup Held

PoolTypeOK == /\ spec \in BOOLEAN
              /\ slots \subseteq Workers
              /\ thread \in [Workers -> {"off", "booting", "open", "up", "dead"}]
              /\ launching \subseteq Workers
              /\ respawning \subseteq Workers
              /\ respawnTimer \in BOOLEAN

StepsTypeOK == /\ at \in [Restores -> Stages]
               /\ resumes \in BOOLEAN
               /\ promised \subseteq Kinds

\* A thread that is not off belongs to the pool, a start of it, or a replacement.
ThreadsKnown ==
    /\ slots \cap launching = {} /\ slots \cap respawning = {} /\ launching \cap respawning = {}
    /\ \A w \in slots : thread[w] \in {"up", "dead"}
    /\ \A w \in respawning : thread[w] \in {"booting", "open"}
    /\ \A w \in Workers \ (slots \cup launching \cup respawning) : thread[w] = "off"
    /\ spec => launching = {}

\* A replacement started for a pool that is gone is stale, and no other thread
\* has the old file open.
StaleKnown == /\ old \subseteq stale
              /\ stale \subseteq respawning
              /\ ~spec => stale = respawning

\* The pool and those that will join it are not too many.
SizeKept == /\ spec => Cardinality(slots \cup (respawning \ stale)) <= Size
            /\ launching # {} => Cardinality(launching) = Size

Replaced == spec /\ Cardinality(slots) < Size => respawnTimer \/ respawning # {}

\* Where the pool is stopped.
Stopped ==
    /\ \A c \in Restores : at[c] \in Held => gate = c
    /\ \A c \in Restores : at[c] \in {"drain", "swap"} => ~spec
    /\ \A c \in Restores : at[c] \in Starting => ~resumes
    /\ resumes => ~spec
    /\ ~spec /\ slots # {} => \E c \in Restores : at[c] = "drain"
    /\ launching # {} => slots = {} /\ \E c \in Restores : at[c] \in Starting

\* The pool's part; what is carried over is independent of it.
PoolInv == PoolTypeOK /\ ThreadsKnown /\ StaleKnown /\ SizeKept /\ Replaced

\* The kinds a restore at this step has yet to carry over.
Left(next) == CASE next \in {"migrate", "revocations"} -> Kinds
                 [] next = "stamps"                     -> {"stamps", "credentials"}
                 [] next = "credentials"                -> {"credentials"}
                 [] OTHER                                -> {}

\* What a restore has noted as lost.
Noted == told \cup failed \cup lastSummary \cup unread

\* What was ended is in the database, or noted as lost, or is held by a restore
\* that will come to it.
Kept == /\ \A c \in Restores : at[c] \in Kinds \cup {"migrate"} =>
                promised \subseteq ended \cup Noted \cup (captured \cap Left(at[c]))
        /\ ~Carrying => promised \subseteq ended \cup Noted

\* A restore that has noted something, and one whose answer will read the summary.
Failing == Kinds \cup {"failed", "starting after failure"}
Reporting == {"done", "starting", "following"}

\* Notes that are not empty wait for a restore to say them.
Awaited == /\ failed # {} => \E c \in Restores : at[c] \in Failing
           /\ lastSummary # {} => \E c \in Restores : at[c] \in Reporting

RestoreInv == PoolInv /\ StepsTypeOK /\ Stopped /\ Kept /\ Awaited

-----------------------------------------------------------------------------
(* How many there are. *)

LEMMA Counted ==
    ASSUME NEW S, S \subseteq Workers
    PROVE  IsFiniteSet(S) /\ Cardinality(S) \in Nat /\ (Cardinality(S) = 0 <=> S = {})
BY PoolAssumption, FS_Subset, FS_CardinalityType, FS_EmptySet

LEMMA FewerCount ==
    ASSUME NEW S, NEW T, S \subseteq T, T \subseteq Workers
    PROVE  Cardinality(S) <= Cardinality(T)
BY Counted, FS_Subset

LEMMA UnionCount ==
    ASSUME NEW S, NEW T, S \subseteq Workers, T \subseteq Workers
    PROVE  Cardinality(S \cup T) <= Cardinality(S) + Cardinality(T)
<1>1. /\ IsFiniteSet(S) /\ IsFiniteSet(T)
      /\ Cardinality(S) \in Nat /\ Cardinality(T) \in Nat /\ Cardinality(S \cap T) \in Nat
  BY Counted
<1>2. Cardinality(S \cup T) = Cardinality(S) + Cardinality(T) - Cardinality(S \cap T)
  BY <1>1, FS_Union
<1> QED
  BY <1>1, <1>2

LEMMA OneMore ==
    ASSUME NEW S, NEW w \in Workers, S \subseteq Workers
    PROVE  Cardinality(S \cup {w}) <= Cardinality(S) + 1
BY Counted, FS_AddElement

\* What armRespawn is for.
LEMMA ArmedIfShort ==
    ASSUME PoolTypeOK', armRespawn, UNCHANGED spec
    PROVE  Replaced'
<1>1. /\ Cardinality(slots') \in Nat /\ Cardinality(respawning') \in Nat
      /\ Cardinality(respawning') = 0 <=> respawning' = {}
  BY Counted DEF PoolTypeOK
<1>2. Size \in Nat
  BY PoolAssumption
<1>3. CASE Short /\ spec'
  BY <1>3 DEF armRespawn, Replaced, Short
<1>4. CASE ~Short
  BY <1>1, <1>2, <1>4 DEF Short, Replaced
<1>5. CASE ~spec'
  BY <1>5 DEF Replaced
<1> QED
  BY <1>3, <1>4, <1>5

-----------------------------------------------------------------------------
(* The pool's own steps. *)

LEMMA Drops ==
    ASSUME PoolInv, NEW w \in slots, dropWorker(w)
    PROVE  PoolInv' /\ spec' = spec /\ launching' = launching /\ slots' \subseteq slots
<1> USE DEF PoolInv, dropWorker, Ends
<1>1. PoolTypeOK'
  BY DEF PoolTypeOK, armRespawn
<1>2. ThreadsKnown'
  BY DEF ThreadsKnown, PoolTypeOK
<1>3. StaleKnown'
  BY DEF StaleKnown
<1>4. SizeKept'
  <2>1. Cardinality(slots' \cup (respawning' \ stale')) <= Cardinality(slots \cup (respawning \ stale))
    BY FewerCount DEF PoolTypeOK
  <2>2. /\ Cardinality(slots \cup (respawning \ stale)) \in Nat
        /\ Cardinality(slots' \cup (respawning' \ stale')) \in Nat
    <3>1. slots \cup (respawning \ stale) \subseteq Workers
      BY DEF PoolTypeOK
    <3>2. slots' \cup (respawning' \ stale') \subseteq Workers
      BY <1>1 DEF PoolTypeOK
    <3> QED
      BY <3>1, <3>2, Counted
  <2> QED
    BY <2>1, <2>2, PoolAssumption DEF SizeKept
<1>5. Replaced'
  BY <1>1, ArmedIfShort
<1> QED
  BY <1>1, <1>2, <1>3, <1>4, <1>5

LEMMA TimerOnly ==
    ASSUME PoolInv, UNCHANGED <<spec, slots, thread, launching, respawning, stale, old>>,
           respawnTimer' \in BOOLEAN, Replaced'
    PROVE  PoolInv'
BY DEF PoolInv, PoolTypeOK, ThreadsKnown, StaleKnown, SizeKept

LEMMA Replacing ==
    ASSUME PoolInv, respawnOne
    PROVE  PoolInv' /\ spec' = spec /\ launching' = launching /\ slots' \subseteq slots
<1> USE DEF PoolInv, respawnOne
<1>1. CASE spec /\ Cardinality(slots) + Cardinality(respawning) < Size
  <2>1. PICK w \in Off : respawning' = respawning \cup {w} /\ spawnSlots({w})
    BY <1>1
  <2>2. w \in Workers /\ w \notin slots \cup launching \cup respawning
    BY <1>1, <2>1 DEF Off, ThreadsKnown, PoolTypeOK
  <2>3. PoolTypeOK'
    BY <2>1, <2>2 DEF PoolTypeOK, spawnSlots
  <2>4. ThreadsKnown'
    BY <2>1, <2>2 DEF ThreadsKnown, PoolTypeOK, spawnSlots
  <2>5. StaleKnown'
    BY <1>1, <2>1, <2>2 DEF StaleKnown
  <2>6. SizeKept'
    <3>1. slots' \cup (respawning' \ stale') \subseteq (slots \cup respawning) \cup {w}
      BY <2>1
    <3>2. slots \cup respawning \subseteq Workers
      BY DEF PoolTypeOK
    <3>3. /\ Cardinality(slots' \cup (respawning' \ stale')) <= Cardinality((slots \cup respawning) \cup {w})
          /\ Cardinality(slots' \cup (respawning' \ stale')) \in Nat
          /\ Cardinality((slots \cup respawning) \cup {w}) \in Nat
      BY <2>2, <3>1, <3>2, FewerCount, Counted
    <3>4. Cardinality((slots \cup respawning) \cup {w}) <= Cardinality(slots \cup respawning) + 1
      BY <2>2, <3>2, OneMore
    <3>5. /\ Cardinality(slots \cup respawning) <= Cardinality(slots) + Cardinality(respawning)
          /\ Cardinality(slots \cup respawning) \in Nat
          /\ Cardinality(slots) \in Nat /\ Cardinality(respawning) \in Nat
      BY <3>2, UnionCount, Counted DEF PoolTypeOK
    <3>6. Cardinality(slots' \cup (respawning' \ stale')) <= Size
      BY <1>1, <3>3, <3>4, <3>5, PoolAssumption
    <3> QED
      BY <3>6 DEF SizeKept
  <2>7. Replaced'
    BY <2>1 DEF Replaced
  <2> QED
    BY <2>3, <2>4, <2>5, <2>6, <2>7
<1>2. CASE ~(spec /\ Cardinality(slots) + Cardinality(respawning) < Size)
  <2>1. UNCHANGED <<spec, slots, thread, launching, respawning, stale, old>> /\ respawnTimer' = FALSE
    BY <1>2
  <2>2. Replaced'
    <3>1. Cardinality(slots) \in Nat /\ Cardinality(respawning) \in Nat
          /\ (Cardinality(respawning) = 0 <=> respawning = {})
      BY Counted DEF PoolTypeOK
    <3> QED
      BY <1>2, <2>1, <3>1, PoolAssumption DEF Replaced
  <2> QED
    BY <2>1, <2>2, TimerOnly
<1> QED
  BY <1>1, <1>2

LEMMA Joining ==
    ASSUME PoolInv, NEW w \in Workers, Joins(w)
    PROVE  PoolInv' /\ spec' = spec /\ launching' = launching /\ (~spec => slots' \subseteq slots)
<1> USE DEF PoolInv, Joins
<1>1. PoolTypeOK'
  BY DEF PoolTypeOK, Ends, armRespawn
<1>2. ThreadsKnown'
  BY DEF ThreadsKnown, PoolTypeOK, Ends
<1>3. StaleKnown'
  BY DEF StaleKnown, Ends, OfThisPool
<1>4. SizeKept'
  <2>1. slots' \cup (respawning' \ stale') \subseteq slots \cup (respawning \ stale)
    BY DEF OfThisPool
  <2>2. slots \cup (respawning \ stale) \subseteq Workers
    BY DEF PoolTypeOK
  <2>3. /\ Cardinality(slots' \cup (respawning' \ stale')) <= Cardinality(slots \cup (respawning \ stale))
        /\ Cardinality(slots' \cup (respawning' \ stale')) \in Nat
        /\ Cardinality(slots \cup (respawning \ stale)) \in Nat
    BY <2>1, <2>2, FewerCount, Counted
  <2> QED
    BY <2>3, PoolAssumption DEF SizeKept
<1>5. Replaced'
  BY <1>1, ArmedIfShort
<1>6. ~spec => slots' \subseteq slots
  BY DEF OfThisPool
<1> QED
  BY <1>1, <1>2, <1>3, <1>4, <1>5, <1>6

LEMMA FailingRestart ==
    ASSUME PoolInv, NEW w \in Workers, RestartFails(w)
    PROVE  PoolInv' /\ spec' = spec /\ launching' = launching /\ slots' \subseteq slots
<1> USE DEF PoolInv, RestartFails, Ends
<1>1. PoolTypeOK'
  BY DEF PoolTypeOK, armRespawn
<1>2. ThreadsKnown'
  BY DEF ThreadsKnown, PoolTypeOK
<1>3. StaleKnown'
  BY DEF StaleKnown
<1>4. SizeKept'
  <2>1. slots' \cup (respawning' \ stale') \subseteq slots \cup (respawning \ stale)
    OBVIOUS
  <2>2. slots \cup (respawning \ stale) \subseteq Workers
    BY DEF PoolTypeOK
  <2>3. /\ Cardinality(slots' \cup (respawning' \ stale')) <= Cardinality(slots \cup (respawning \ stale))
        /\ Cardinality(slots' \cup (respawning' \ stale')) \in Nat
        /\ Cardinality(slots \cup (respawning \ stale)) \in Nat
    BY <2>1, <2>2, FewerCount, Counted
  <2> QED
    BY <2>3, PoolAssumption DEF SizeKept
<1>5. Replaced'
  BY <1>1, ArmedIfShort
<1> QED
  BY <1>1, <1>2, <1>3, <1>4, <1>5

\* Steps of threads and reads that change no more than a thread's state.
LEMMA ThreadGoesOn ==
    ASSUME PoolInv, NEW w \in Workers, Opens(w) \/ Ready(w) \/ StartFails(w)
    PROVE  PoolInv' /\ UNCHANGED <<spec, launching, slots>>
<1>1. UNCHANGED <<spec, slots, launching, respawning, stale, respawnTimer, old>>
  BY DEF Opens, Ready, StartFails
<1>2. StaleKnown' /\ SizeKept' /\ Replaced'
  BY <1>1 DEF PoolInv, StaleKnown, SizeKept, Replaced
<1>3. CASE Opens(w)
  <2>1. w \in launching \cup respawning
    BY <1>3 DEF Opens, PoolInv, ThreadsKnown
  <2> QED
    BY <1>1, <1>2, <1>3, <2>1 DEF Opens, PoolInv, PoolTypeOK, ThreadsKnown
<1>4. CASE Ready(w) \/ StartFails(w)
  BY <1>1, <1>2, <1>4 DEF Ready, StartFails, PoolInv, PoolTypeOK, ThreadsKnown
<1> QED
  BY <1>3, <1>4

LEMMA PoolStepKeeps ==
    ASSUME PoolInv, PoolStep
    PROVE  PoolInv' /\ spec' = spec /\ launching' = launching /\ (~spec => slots' \subseteq slots)
<1>1. CASE UNCHANGED <<spec, slots, thread, launching, respawning, stale, respawnTimer, old>>
  BY <1>1 DEF PoolInv, PoolTypeOK, ThreadsKnown, StaleKnown, SizeKept, Replaced
<1>2. ASSUME NEW r \in Requests, forwardRead(r) \/ onReply(r) \/ TimesOut(r)
      PROVE  \/ UNCHANGED <<spec, slots, thread, launching, respawning, stale, respawnTimer, old>>
             \/ \E w \in slots : dropWorker(w)
  BY <1>2 DEF forwardRead, onReply, TimesOut
<1>3. ASSUME NEW w \in Workers, Errs(w)
      PROVE  w \in slots /\ dropWorker(w)
  BY <1>3 DEF Errs
<1> QED
  BY <1>1, <1>2, <1>3, Drops, Replacing, Joining, FailingRestart, ThreadGoesOn DEF PoolStep

-----------------------------------------------------------------------------
(* What a restore does to the pool. *)

LEMMA Suspending ==
    ASSUME PoolInv, suspendReadPool
    PROVE  PoolInv'
<1> USE DEF PoolInv, suspendReadPool
<1>1. PoolTypeOK' /\ Replaced'
  BY DEF PoolTypeOK, Replaced
<1>2. ThreadsKnown'
  BY DEF ThreadsKnown
<1>3. StaleKnown'
  BY DEF StaleKnown
<1>4. SizeKept'
  BY DEF SizeKept
<1> QED
  BY <1>1, <1>2, <1>3, <1>4

LEMMA Stopping ==
    ASSUME PoolInv, ~spec, stopReadPool
    PROVE  PoolInv' /\ slots' = {} /\ UNCHANGED <<spec, launching>>
<1> USE DEF PoolInv, stopReadPool, Ends
<1>1. PoolTypeOK' /\ Replaced'
  BY DEF PoolTypeOK, Replaced
<1>2. ThreadsKnown'
  BY DEF ThreadsKnown, PoolTypeOK
<1>3. StaleKnown'
  BY DEF StaleKnown
<1>4. SizeKept'
  BY DEF SizeKept
<1> QED
  BY <1>1, <1>2, <1>3, <1>4

LEMMA Replacement ==
    ASSUME PoolInv, ~spec, slots = {}, launching = {}, FileReplaced
    PROVE  PoolInv'
<1> USE DEF PoolInv, FileReplaced
<1>1. PoolTypeOK' /\ Replaced' /\ SizeKept'
  BY DEF PoolTypeOK, Replaced, SizeKept
<1>2. ThreadsKnown'
  BY DEF ThreadsKnown
<1>3. StaleKnown'
  BY DEF StaleKnown, ThreadsKnown
<1> QED
  BY <1>1, <1>2, <1>3

LEMMA Launching ==
    ASSUME PoolInv, ~spec, slots = {}, launching = {}, startReadPool
    PROVE  PoolInv' /\ UNCHANGED <<spec, slots>>
<1>1. /\ launching' \subseteq Off /\ Cardinality(launching') = Size
      /\ UNCHANGED <<spec, slots, respawning, stale, respawnTimer, old>>
      /\ thread' = [w \in Workers |-> IF w \in launching' THEN "booting" ELSE thread[w]]
  BY DEF startReadPool, spawnSlots, Fresh
<1>2. launching' \subseteq Workers /\ launching' \cap respawning = {}
  BY <1>1 DEF Off, PoolInv, ThreadsKnown
<1>3. PoolTypeOK' /\ ThreadsKnown'
  BY <1>1, <1>2 DEF PoolInv, PoolTypeOK, ThreadsKnown
<1>4. StaleKnown' /\ SizeKept' /\ Replaced'
  BY <1>1 DEF PoolInv, StaleKnown, SizeKept, Replaced
<1> QED
  BY <1>1, <1>3, <1>4 DEF PoolInv

LEMMA Launches ==
    ASSUME PoolInv, ~spec, slots = {}, Launched
    PROVE  PoolInv' /\ launching' = {} /\ (~spec' => slots' = {})
<1>1. /\ launching # {} /\ launching' = {}
      /\ \A w \in launching : thread[w] \in {"up", "dead", "off"}
      /\ UNCHANGED <<respawning, stale, respawnTimer>>
  BY DEF Launched
<1>2. CASE \E w \in launching : thread[w] = "off"
  <2>1. UNCHANGED <<spec, slots>> /\ Ends(launching)
    BY <1>2 DEF Launched
  <2>2. PoolTypeOK' /\ ThreadsKnown'
    BY <1>1, <2>1 DEF PoolInv, PoolTypeOK, ThreadsKnown, Ends
  <2>3. StaleKnown'
    BY <1>1, <2>1 DEF PoolInv, StaleKnown, ThreadsKnown, Ends
  <2>4. SizeKept' /\ Replaced'
    BY <1>1, <2>1 DEF SizeKept, Replaced
  <2> QED
    BY <1>1, <2>1, <2>2, <2>3, <2>4 DEF PoolInv
<1>3. CASE ~ \E w \in launching : thread[w] = "off"
  <2>1. spec' = TRUE /\ slots' = launching /\ UNCHANGED <<thread, old>>
    BY <1>3 DEF Launched
  <2>2. PoolTypeOK' /\ ThreadsKnown' /\ StaleKnown'
    BY <1>1, <1>3, <2>1 DEF PoolInv, PoolTypeOK, ThreadsKnown, StaleKnown
  <2>3. Cardinality(slots') = Size
    BY <1>1, <2>1 DEF PoolInv, SizeKept
  <2>4. slots' \cup (respawning' \ stale') = slots'
    BY <1>1 DEF PoolInv, StaleKnown
  <2>5. SizeKept' /\ Replaced'
    BY <1>1, <2>3, <2>4, PoolAssumption DEF SizeKept, Replaced
  <2> QED
    BY <1>1, <2>1, <2>2, <2>5 DEF PoolInv
<1> QED
  BY <1>2, <1>3

-----------------------------------------------------------------------------
(* The restore's own steps. *)

\* A step of c outside the carrying over.
LEMMA KeptOutside ==
    ASSUME Kept, StepsTypeOK, NEW c \in Restores, NEW next,
           at' = [at EXCEPT ![c] = next],
           {at[c], next} \cap (Kinds \cup {"migrate"}) = {},
           UNCHANGED <<ended, captured, promised, notes>>
    PROVE  Kept'
BY DEF Kept, StepsTypeOK, Carrying, Noted, notes

\* The notes stay, and c is as far from its answer as before.
LEMMA AwaitedStill ==
    ASSUME Awaited, StepsTypeOK, NEW c \in Restores, NEW next,
           at' = [at EXCEPT ![c] = next], UNCHANGED notes,
           at[c] \in Failing => next \in Failing,
           at[c] \in Reporting => next \in Reporting
    PROVE  Awaited'
BY DEF Awaited, StepsTypeOK, notes

\* Only the one inside the gate is at work.
LEMMA OneInside ==
    ASSUME Stopped, StepsTypeOK, NEW c \in Restores, at[c] \in Held,
           NEW d \in Restores, at[d] \in Held
    PROVE  c = d
BY DEF Stopped

LEMMA OutsideKeeps ==
    ASSUME RestoreInv,
           \/ PoolStep /\ UNCHANGED steps
           \/ \E k \in Endings : EndSession(k)
           \/ \E c \in Restores : Stage(c) \/ Refuse(c)
           \/ DrainTime
           \/ UNCHANGED vars
    PROVE  RestoreInv'
<1> USE DEF RestoreInv
<1>1. CASE PoolStep /\ UNCHANGED steps
  <2>1. PoolInv' /\ spec' = spec /\ launching' = launching /\ (~spec => slots' \subseteq slots)
    BY <1>1, PoolStepKeeps
  <2>2. StepsTypeOK' /\ Kept' /\ Awaited'
    BY <1>1 DEF steps, notes, StepsTypeOK, Kept, Carrying, Noted, Awaited
  <2>3. Stopped'
    BY <1>1, <2>1 DEF steps, Stopped, PoolInv, ThreadsKnown
  <2> QED
    BY <2>1, <2>2, <2>3
<1>2. ASSUME NEW k \in Endings, EndSession(k)
      PROVE  RestoreInv'
  <2>1. PoolInv' /\ Stopped'
    BY <1>2 DEF EndSession, pool, PoolInv, PoolTypeOK, ThreadsKnown, StaleKnown, SizeKept, Replaced, Stopped
  <2>2. StepsTypeOK' /\ Kept' /\ Awaited'
    BY <1>2, RestoreAssumption
       DEF EndSession, notes, StepsTypeOK, Kept, Carrying, Noted, Awaited
  <2> QED
    BY <2>1, <2>2
<1>3. ASSUME NEW c \in Restores, Stage(c) \/ Refuse(c)
      PROVE  RestoreInv'
  <2>1. PICK next \in {"waiting", "error"} : at' = [at EXCEPT ![c] = next]
    BY <1>3 DEF Stage, Refuse, Goto
  <2>2. UNCHANGED <<pool, gate, resumes, ended, captured, promised, notes>> /\ at[c] = "start"
    BY <1>3 DEF Stage, Refuse
  <2>3. PoolInv'
    BY <2>2 DEF pool, PoolInv, PoolTypeOK, ThreadsKnown, StaleKnown, SizeKept, Replaced
  <2>4. StepsTypeOK'
    BY <2>1, <2>2 DEF StepsTypeOK, Stages
  <2>5. Stopped'
    BY <2>1, <2>2 DEF pool, Stopped, StepsTypeOK, Held, Kinds, Starting
  <2>6. Kept' /\ Awaited'
    BY <2>1, <2>2, KeptOutside, AwaitedStill DEF Kinds, Failing, Reporting
  <2> QED
    BY <2>3, <2>4, <2>5, <2>6
<1>4. CASE DrainTime \/ UNCHANGED vars
  <2>1. UNCHANGED <<pool, at, gate, resumes, ended, captured, promised, notes>>
    BY <1>4 DEF DrainTime, vars, steps
  <2>2. PoolInv'
    BY <2>1 DEF pool, PoolInv, PoolTypeOK, ThreadsKnown, StaleKnown, SizeKept, Replaced
  <2>3. StepsTypeOK' /\ Kept' /\ Awaited'
    BY <2>1 DEF notes, StepsTypeOK, Kept, Carrying, Noted, Awaited
  <2>4. Stopped'
    BY <2>1 DEF pool, Stopped
  <2> QED
    BY <2>2, <2>3, <2>4
<1> QED
  BY <1>1, <1>2, <1>3, <1>4


\* A step of c inside the gate, where it stays, on which the pool stays as it is.
LEMMA PoolUnmoved ==
    ASSUME PoolInv, UNCHANGED pool
    PROVE  PoolInv'
BY DEF pool, PoolInv, PoolTypeOK, ThreadsKnown, StaleKnown, SizeKept, Replaced

LEMMA StoppedInside ==
    ASSUME Stopped, StepsTypeOK, NEW c \in Restores, at[c] \in Held \ ({"drain"} \cup Starting),
           NEW next \in Held \ ({"drain", "swap"} \cup Starting),
           at' = [at EXCEPT ![c] = next],
           UNCHANGED <<spec, slots, launching, gate, resumes>>
    PROVE  Stopped'
BY DEF Stopped, StepsTypeOK

LEMMA EnterKeeps ==
    ASSUME RestoreInv, NEW c \in Restores, Enter(c)
    PROVE  RestoreInv'
<1> USE DEF RestoreInv
<1>1. /\ at[c] = "waiting" /\ gate = Free /\ gate' = c /\ resumes' = spec
      /\ UNCHANGED <<ended, captured, promised, notes>>
  BY DEF Enter
<1>2. PICK next \in {"drain", "swap"} :
        /\ at' = [at EXCEPT ![c] = next]
        /\ next = "drain" => spec /\ suspendReadPool
        /\ next = "swap" => ~spec /\ UNCHANGED pool
  BY DEF Enter, Goto
<1>3. PoolInv'
  BY <1>2, Suspending, PoolUnmoved
<1>4. StepsTypeOK'
  BY <1>1, <1>2 DEF StepsTypeOK, Stages, Held, PoolInv, PoolTypeOK
<1>5. \A d \in Restores : at[d] \notin Held
  BY <1>1, RestoreAssumption DEF Stopped
<1>6. spec' = FALSE /\ UNCHANGED <<slots, launching>>
  BY <1>2 DEF suspendReadPool, pool
<1>7. Stopped'
  <2>1. launching = {}
    BY <1>5 DEF Stopped, Held
  <2>2. ~spec => slots = {}
    BY <1>5 DEF Stopped, Held
  <2>3. at'[c] = next /\ \A d \in Restores \ {c} : at'[d] = at[d]
    BY <1>2 DEF StepsTypeOK
  <2> QED
    BY <1>1, <1>2, <1>5, <1>6, <2>1, <2>2, <2>3 DEF Stopped, Held, Starting
<1>8. Kept' /\ Awaited'
  BY <1>1, <1>2, KeptOutside, AwaitedStill DEF Kinds, Failing, Reporting
<1> QED
  BY <1>3, <1>4, <1>7, <1>8

LEMMA StopKeeps ==
    ASSUME RestoreInv, NEW c \in Restores, StopReaders(c)
    PROVE  RestoreInv'
<1> USE DEF RestoreInv
<1>1. /\ at[c] = "drain" /\ stopReadPool /\ at' = [at EXCEPT ![c] = "swap"]
      /\ UNCHANGED <<gate, resumes, ended, captured, promised, notes>>
  BY DEF StopReaders, Goto
<1>2. ~spec
  BY <1>1 DEF Stopped
<1>3. PoolInv' /\ slots' = {} /\ UNCHANGED <<spec, launching>>
  BY <1>1, <1>2, Stopping
<1>4. StepsTypeOK'
  BY <1>1 DEF StepsTypeOK, Stages, Held
<1>5. launching = {}
  BY <1>1, OneInside DEF Stopped, Held, Starting
<1>6. Stopped'
  BY <1>1, <1>2, <1>3, <1>5 DEF Stopped, StepsTypeOK, Held, Starting, Kinds
<1>7. Kept' /\ Awaited'
  BY <1>1, KeptOutside, AwaitedStill DEF Kinds, Failing, Reporting
<1> QED
  BY <1>3, <1>4, <1>6, <1>7

LEMMA SwapKeeps ==
    ASSUME RestoreInv, NEW c \in Restores, Swap(c)
    PROVE  RestoreInv'
<1> USE DEF RestoreInv
<1>1. /\ at[c] = "swap" /\ captured' = ended
      /\ UNCHANGED <<gate, resumes, promised, told, lastSummary, unread>>
  BY DEF Swap
<1>2. PICK next \in {"migrate", "failed"} :
        /\ at' = [at EXCEPT ![c] = next]
        /\ \/ next = "failed" /\ UNCHANGED <<pool, ended, failed>>
           \/ next = "migrate" /\ FileReplaced /\ UNCHANGED failed
           \/ next = "failed" /\ FileReplaced /\ failed' = ended
  BY DEF Swap, Goto
<1>3. ~spec
  BY <1>1 DEF Stopped
<1>4. \A d \in Restores \ {c} : at[d] \notin Held
  BY <1>1, OneInside DEF Held
<1>5. slots = {} /\ launching = {}
  BY <1>1, <1>3, <1>4 DEF Stopped, Held, Starting
<1>6. PoolInv' /\ UNCHANGED <<spec, slots, launching>>
  <2>1. FileReplaced \/ UNCHANGED pool
    BY <1>2
  <2> QED
    BY <2>1, <1>3, <1>5, Replacement, PoolUnmoved DEF FileReplaced, pool
<1>7. StepsTypeOK'
  BY <1>1, <1>2 DEF StepsTypeOK, Stages, Held
<1>8. Stopped'
  BY <1>1, <1>2, <1>6, StoppedInside DEF Held, Starting
<1>10. failed = {}
  BY <1>1, <1>4 DEF Awaited, Failing, Held, Kinds, Starting
<1>11. Awaited'
  <2>1. at'[c] = next
    BY <1>2 DEF StepsTypeOK
  <2>2. failed' # {} => next \in Failing
    BY <1>2, <1>10 DEF Failing
  <2>3. lastSummary' # {} => \E d \in Restores : at'[d] \in Reporting
    BY <1>1, <1>2 DEF Awaited, Reporting, StepsTypeOK
  <2> QED
    BY <2>1, <2>2, <2>3 DEF Awaited
<1>9. Kept'
  <2>1. at'[c] = next /\ \A d \in Restores \ {c} : at'[d] \notin Held
    BY <1>2, <1>4 DEF StepsTypeOK
  <2>2. promised \subseteq ended \cup Noted
    BY <1>1, <1>4 DEF Kept, Carrying, Held, Kinds
  <2>3. Left("migrate") = Kinds /\ promised \subseteq Kinds
    BY DEF Left, StepsTypeOK
  <2>4. CASE next = "failed"
    <3>1. promised \subseteq ended' \cup Noted'
      BY <1>1, <1>2, <1>10, <2>2, <2>4 DEF Noted
    <3>2. \A d \in Restores : at'[d] \notin Kinds \cup {"migrate"}
      BY <2>1, <2>4 DEF Held, Kinds
    <3> QED
      BY <1>1, <3>1, <3>2 DEF Kept
  <2>5. CASE next = "migrate"
    <3>1. promised \subseteq ended' \cup Noted' \cup (captured' \cap Left(at'[c]))
      BY <1>1, <1>2, <2>1, <2>2, <2>3, <2>5 DEF Noted
    <3>2. \A d \in Restores : at'[d] \in Kinds \cup {"migrate"} => d = c
      BY <2>1 DEF Held
    <3>3. Carrying'
      BY <2>1, <2>5 DEF Carrying
    <3> QED
      BY <1>1, <3>1, <3>2, <3>3 DEF Kept
  <2> QED
    BY <2>4, <2>5
<1> QED
  BY <1>6, <1>7, <1>8, <1>9, <1>11

LEMMA MigrateKeeps ==
    ASSUME RestoreInv, NEW c \in Restores, Migrate(c)
    PROVE  RestoreInv'
<1> USE DEF RestoreInv
<1>1. /\ at[c] = "migrate"
      /\ UNCHANGED <<pool, gate, resumes, ended, captured, promised, told, lastSummary, unread>>
  BY DEF Migrate
<1>2. PICK next \in {"revocations", "failed"} :
        /\ at' = [at EXCEPT ![c] = next]
        /\ failed' = IF next = "failed" THEN captured ELSE failed
  BY DEF Migrate, Goto
<1>3. PoolInv' /\ UNCHANGED <<spec, slots, launching>>
  BY <1>1, PoolUnmoved DEF pool
<1>4. StepsTypeOK'
  BY <1>1, <1>2 DEF StepsTypeOK, Stages, Held, Kinds
<1>5. Stopped'
  BY <1>1, <1>2, <1>3, StoppedInside DEF Held, Starting, Kinds
<1>6. Kept'
  <2>1. \A d \in Restores \ {c} : at[d] \notin Held
    BY <1>1, OneInside DEF Held
  <2>2. at'[c] = next /\ \A d \in Restores \ {c} : at'[d] \notin Held
    BY <1>2, <2>1 DEF StepsTypeOK
  <2>3. /\ promised \subseteq ended \cup Noted \cup (captured \cap Left("migrate"))
        /\ failed = {}
    BY <1>1, <2>1 DEF Kept, Awaited, Failing, Held, Kinds, Starting
  <2>4. Left("migrate") = Left("revocations")
    BY DEF Left
  <2>5. \A d \in Restores : at'[d] \in Kinds \cup {"migrate"} => d = c
    BY <2>2 DEF Held
  <2>6. CASE next = "revocations"
    <3>1. Carrying'
      BY <2>2, <2>6 DEF Carrying, Kinds
    <3>2. promised' \subseteq ended' \cup Noted' \cup (captured' \cap Left(at'[c]))
      BY <1>1, <1>2, <2>2, <2>3, <2>4, <2>6 DEF Noted
    <3> QED
      BY <2>5, <3>1, <3>2 DEF Kept
  <2>7. CASE next = "failed"
    <3>1. promised' \subseteq ended' \cup Noted'
      BY <1>1, <1>2, <2>3, <2>7 DEF Noted
    <3>2. \A d \in Restores : at'[d] \notin Kinds \cup {"migrate"}
      BY <2>2, <2>5, <2>7 DEF Kinds
    <3> QED
      BY <3>1, <3>2 DEF Kept
  <2> QED
    BY <2>6, <2>7
<1>7. Awaited'
  <2>1. at'[c] = next
    BY <1>2 DEF StepsTypeOK
  <2>2. next \in Failing
    BY <1>2 DEF Failing, Kinds
  <2>3. lastSummary' # {} => \E d \in Restores : at'[d] \in Reporting
    BY <1>1, <1>2 DEF Awaited, Reporting, StepsTypeOK
  <2> QED
    BY <2>1, <2>2, <2>3 DEF Awaited
<1> QED
  BY <1>3, <1>4, <1>5, <1>6, <1>7

LEMMA CarryKeeps ==
    ASSUME RestoreInv, NEW c \in Restores, NEW k \in Kinds, Carry(c, k)
    PROVE  RestoreInv'
<1> USE DEF RestoreInv
<1>1. /\ at[c] = k /\ at' = [at EXCEPT ![c] = After[k]]
      /\ UNCHANGED <<pool, gate, resumes, captured, promised, told>>
  BY DEF Carry, Goto
<1>2. PICK lost \in {{}, captured \cap {k}} :
        /\ ended' = ended \cup ((captured \cap {k}) \ lost)
        /\ IF k = "credentials" THEN noteCarry(failed \cup lost)
           ELSE failed' = failed \cup lost /\ UNCHANGED <<lastSummary, unread>>
  BY DEF Carry
<1>8. /\ ended \subseteq ended' /\ Noted \subseteq Noted'
      /\ captured \cap {k} \subseteq ended' \cup Noted'
  BY <1>1, <1>2 DEF Noted, noteCarry
<1>3. PoolInv' /\ UNCHANGED <<spec, slots, launching>>
  BY <1>1, PoolUnmoved DEF pool
<1>4. After[k] \in {"stamps", "credentials", "done"}
  BY DEF After, Kinds
<1>5. StepsTypeOK'
  BY <1>1, <1>4 DEF StepsTypeOK, Stages, Held, Kinds
<1>6. Stopped'
  BY <1>1, <1>3, <1>4, StoppedInside DEF Held, Starting, Kinds
<1>7. Kept'
  <2>1. \A d \in Restores \ {c} : at[d] \notin Held
    BY <1>1, OneInside DEF Held
  <2>2. at'[c] = After[k] /\ \A d \in Restores \ {c} : at'[d] \notin Held
    BY <1>1, <2>1 DEF StepsTypeOK
  <2>3. promised \subseteq ended \cup Noted \cup (captured \cap Left(k))
    BY <1>1 DEF Kept
  <2>4. Left(k) \subseteq {k} \cup Left(After[k])
    BY DEF Left, After, Kinds
  <2>5. promised' \subseteq ended' \cup Noted' \cup (captured' \cap Left(at'[c]))
    BY <1>1, <1>8, <2>2, <2>3, <2>4
  <2>6. \A d \in Restores : at'[d] \in Kinds \cup {"migrate"} => d = c
    BY <2>2 DEF Held
  <2>7. CASE After[k] = "done"
    <3>1. Left(at'[c]) = {}
      BY <2>2, <2>7 DEF Left
    <3> QED
      BY <2>5, <2>6, <3>1 DEF Kept
  <2>8. CASE After[k] # "done"
    <3>1. Carrying'
      BY <1>4, <2>2, <2>8 DEF Carrying, Kinds
    <3> QED
      BY <2>5, <2>6, <3>1 DEF Kept
  <2> QED
    BY <2>7, <2>8
<1>9. Awaited'
  <2>1. at'[c] = After[k] /\ \A d \in Restores \ {c} : at'[d] = at[d]
    BY <1>1 DEF StepsTypeOK
  <2>2. CASE k = "credentials"
    <3>1. After[k] \in Reporting /\ failed' = {}
      BY <1>2, <2>2 DEF After, Kinds, Reporting, noteCarry
    <3> QED
      BY <2>1, <3>1 DEF Awaited
  <2>3. CASE k # "credentials"
    <3>1. After[k] \in Failing /\ at[c] \notin Reporting /\ lastSummary' = lastSummary
      BY <1>1, <1>2, <2>3 DEF After, Kinds, Failing, Reporting
    <3> QED
      BY <2>1, <3>1 DEF Awaited
  <2> QED
    BY <2>2, <2>3
<1> QED
  BY <1>3, <1>5, <1>6, <1>7, <1>9

LEMMA ResumeKeeps ==
    ASSUME RestoreInv, NEW c \in Restores, Resume(c)
    PROVE  RestoreInv'
<1> USE DEF RestoreInv
<1>1. /\ at[c] \in {"done", "failed"} /\ resumes /\ startReadPool /\ resumes' = FALSE
      /\ UNCHANGED <<gate, ended, captured, promised, notes>>
  BY DEF Resume
<1>2. PICK next \in Starting : /\ at' = [at EXCEPT ![c] = next]
                               /\ next = "starting" <=> at[c] = "done"
  BY DEF Resume, Goto, Starting
<1>3. \A d \in Restores \ {c} : at[d] \notin Held
  BY <1>1, OneInside DEF Held
<1>4. ~spec /\ slots = {} /\ launching = {}
  BY <1>1, <1>3 DEF Stopped, Held, Starting
<1>5. PoolInv' /\ UNCHANGED <<spec, slots>>
  BY <1>1, <1>4, Launching
<1>6. StepsTypeOK'
  BY <1>1, <1>2 DEF StepsTypeOK, Stages, Held
<1>7. Stopped'
  <2>1. at'[c] = next /\ \A d \in Restores \ {c} : at'[d] = at[d] /\ at'[d] \notin Held
    BY <1>2, <1>3 DEF StepsTypeOK
  <2>2. gate = c
    BY <1>1 DEF Stopped, Held
  <2> QED
    BY <1>1, <1>4, <1>5, <2>1, <2>2 DEF Stopped, Held, Starting
<1>8. Kept' /\ Awaited'
  BY <1>1, <1>2, KeptOutside, AwaitedStill DEF Kinds, Starting, Failing, Reporting
<1> QED
  BY <1>5, <1>6, <1>7, <1>8

LEMMA StartedKeeps ==
    ASSUME RestoreInv, NEW c \in Restores, Started(c)
    PROVE  RestoreInv'
<1> USE DEF RestoreInv
<1>1. /\ at[c] \in Starting /\ Launched
      /\ UNCHANGED <<gate, resumes, ended, captured, promised, notes>>
  BY DEF Started, Starting
<1>2. PICK next \in {"done", "failed"} : /\ at' = [at EXCEPT ![c] = next]
                                         /\ next = "done" <=> at[c] = "starting"
  BY DEF Started, Goto
<1>3. \A d \in Restores \ {c} : at[d] \notin Held
  BY <1>1, OneInside DEF Held
<1>4. ~spec /\ slots = {} /\ ~resumes
  BY <1>1 DEF Launched, Stopped, PoolInv, ThreadsKnown
<1>5. PoolInv' /\ launching' = {} /\ (~spec' => slots' = {})
  BY <1>1, <1>4, Launches
<1>6. StepsTypeOK'
  BY <1>1, <1>2 DEF StepsTypeOK, Stages, Held
<1>7. Stopped'
  <2>1. at'[c] = next /\ \A d \in Restores \ {c} : at'[d] \notin Held
    BY <1>2, <1>3 DEF StepsTypeOK
  <2>2. gate = c
    BY <1>1 DEF Stopped, Held
  <2>3. \A d \in Restores : at'[d] \in Held => gate' = d
    BY <1>1, <2>1, <2>2
  <2>4. \A d \in Restores : at'[d] \notin {"drain", "swap"} \cup Starting
    BY <2>1 DEF Held, Starting
  <2> QED
    BY <1>1, <1>4, <1>5, <2>3, <2>4 DEF Stopped
<1>8. Kept' /\ Awaited'
  BY <1>1, <1>2, KeptOutside, AwaitedStill DEF Kinds, Starting, Failing, Reporting
<1> QED
  BY <1>5, <1>6, <1>7, <1>8

LEMMA LeaveKeeps ==
    ASSUME RestoreInv, NEW c \in Restores, Leave(c)
    PROVE  RestoreInv'
<1> USE DEF RestoreInv
<1>1. /\ at[c] \in {"done", "failed"} /\ ~resumes /\ gate' = Free
      /\ failed' = {} /\ told' = told \cup failed
      /\ UNCHANGED <<pool, resumes, ended, lastSummary, promised, unread>>
  BY DEF Leave
<1>2. PICK next \in {"following", "error"} : /\ at' = [at EXCEPT ![c] = next]
                                             /\ next = "following" <=> at[c] = "done"
  BY DEF Leave, Goto
<1>3. \A d \in Restores \ {c} : at[d] \notin Held
  BY <1>1, OneInside DEF Held
<1>4. PoolInv'
  BY <1>1, PoolUnmoved
<1>5. StepsTypeOK'
  BY <1>1, <1>2 DEF StepsTypeOK, Stages
<1>6. \A d \in Restores : at'[d] \notin Held
  BY <1>2, <1>3 DEF StepsTypeOK, Held, Kinds, Starting
<1>7. Stopped'
  BY <1>1, <1>3, <1>6 DEF Stopped, pool, Held, Starting
<1>8. Kept'
  <2>1. ~Carrying /\ Noted' = Noted
    BY <1>1, <1>3 DEF Carrying, Held, Kinds, Noted
  <2> QED
    BY <1>1, <1>6, <2>1 DEF Kept, Held
<1>9. Awaited'
  BY <1>1, <1>2 DEF Awaited, StepsTypeOK, Reporting
<1> QED
  BY <1>4, <1>5, <1>7, <1>8, <1>9

\* The answer reads the summary outside the gate.
LEMMA AnswerKeeps ==
    ASSUME RestoreInv, NEW c \in Restores, Answer(c)
    PROVE  RestoreInv'
<1> USE DEF RestoreInv
<1>1. /\ at[c] = "following" /\ at' = [at EXCEPT ![c] = "ok"]
      /\ told' = told \cup lastSummary /\ lastSummary' = {}
      /\ UNCHANGED <<pool, gate, resumes, ended, captured, failed, promised, unread>>
  BY DEF Answer, Goto
<1>2. PoolInv'
  BY <1>1, PoolUnmoved
<1>3. StepsTypeOK'
  BY <1>1 DEF StepsTypeOK, Stages
<1>4. at'[c] = "ok" /\ \A d \in Restores \ {c} : at'[d] = at[d]
  BY <1>1 DEF StepsTypeOK
<1>5. Stopped'
  BY <1>1, <1>4 DEF Stopped, pool, Held, Kinds, Starting
<1>6. Kept'
  <2>1. Noted' = Noted
    BY <1>1 DEF Noted
  <2>2. Carrying' <=> Carrying
    BY <1>1, <1>4 DEF Carrying, Kinds
  <2> QED
    BY <1>1, <1>4, <2>1, <2>2 DEF Kept, Kinds
<1>7. Awaited'
  BY <1>1, <1>4 DEF Awaited, Failing, Kinds
<1> QED
  BY <1>2, <1>3, <1>5, <1>6, <1>7

-----------------------------------------------------------------------------

LEMMA RestoreInit == Init => RestoreInv
<1> SUFFICES ASSUME Init PROVE RestoreInv
  OBVIOUS
<1> USE DEF Init, InitPool
<1>1. PoolTypeOK /\ ThreadsKnown /\ StaleKnown
  BY DEF PoolTypeOK, ThreadsKnown, StaleKnown
<1>2. Cardinality(slots) = Size
  <2>1. slots = 1 .. Size
    <3>1. Size \in Nat /\ 1 .. Size \subseteq Workers /\ \A w \in Workers : w \in Nat \ {0}
      BY PoolAssumption
    <3>2. slots = {w \in Workers : w <= Size}
      OBVIOUS
    <3>3. \A w \in slots : w \in 1 .. Size
      BY <3>1, <3>2
    <3>4. \A w \in 1 .. Size : w \in slots
      <4> SUFFICES ASSUME NEW w \in 1 .. Size PROVE w \in slots
        OBVIOUS
      <4>1. w <= Size
        BY <3>1
      <4> QED
        BY <3>1, <3>2, <4>1
    <3> QED
      BY <3>3, <3>4
  <2>2. Cardinality(1 .. Size) = Size
    BY PoolAssumption, FS_Interval
  <2> QED
    BY <2>1, <2>2
<1>3. SizeKept /\ Replaced
  BY <1>2, PoolAssumption DEF SizeKept, Replaced
<1>4. StepsTypeOK /\ Stopped /\ Kept /\ Awaited
  BY DEF StepsTypeOK, Stages, Stopped, Kept, Held, Kinds, Starting, Carrying, Noted, Awaited
<1> QED
  BY <1>1, <1>3, <1>4 DEF RestoreInv, PoolInv

LEMMA RestoreNext == RestoreInv /\ [Next]_vars => RestoreInv'
<1> SUFFICES ASSUME RestoreInv, [Next]_vars
             PROVE  RestoreInv'
  OBVIOUS
<1>1. CASE \/ PoolStep /\ UNCHANGED steps
           \/ \E k \in Endings : EndSession(k)
           \/ \E c \in Restores : Stage(c) \/ Refuse(c)
           \/ DrainTime
           \/ UNCHANGED vars
  BY <1>1, OutsideKeeps
<1>2. ASSUME NEW c \in Restores, RestoreStep(c)
      PROVE  RestoreInv'
  <2>1. CASE \E k \in Kinds : Carry(c, k)
    BY <2>1, CarryKeeps
  <2>2. CASE Enter(c) \/ StopReaders(c) \/ Swap(c) \/ Migrate(c)
    BY <2>2, EnterKeeps, StopKeeps, SwapKeeps, MigrateKeeps
  <2>3. CASE Resume(c) \/ Started(c) \/ Leave(c) \/ Answer(c)
    BY <2>3, ResumeKeeps, StartedKeeps, LeaveKeeps, AnswerKeeps
  <2> QED
    BY <1>2, <2>1, <2>2, <2>3 DEF RestoreStep
<1> QED
  BY <1>1, <1>2 DEF Next

LEMMA RestoreInvariant == Spec => []RestoreInv
BY RestoreInit, RestoreNext, PTL DEF Spec

-----------------------------------------------------------------------------

\* The pool of read workers has at most the configured number in service, and
\* when it has fewer a replacement is being started or due
\* (read-pool.ts:19-23): for any number of workers and reads, in whatever order
\* they die, their restarts fail and restores suspend and start the pool.
THEOREM PoolIsKept == Spec => []PoolKept
<1>1. RestoreInv => PoolKept
  <2> SUFFICES ASSUME RestoreInv, spec
               PROVE  /\ Cardinality(slots) <= Size
                      /\ Cardinality(slots) < Size => respawnTimer \/ respawning # {}
    BY DEF PoolKept
  <2> USE DEF RestoreInv, PoolInv
  <2>1. slots \cup (respawning \ stale) \subseteq Workers
    BY DEF PoolTypeOK
  <2>2. Cardinality(slots) <= Cardinality(slots \cup (respawning \ stale))
    BY <2>1, FewerCount
  <2>3. Cardinality(slots) \in Nat /\ Cardinality(slots \cup (respawning \ stale)) \in Nat
    BY <2>1, Counted
  <2> QED
    BY <2>2, <2>3, PoolAssumption DEF SizeKept, Replaced
<1> QED
  BY <1>1, RestoreInvariant, PTL

\* No worker in service reads a database file that a restore has replaced
\* (read-pool.ts:389-390), one whose start the restore overtook included: such
\* a worker is a stale replacement, which is ended when it gets ready.
THEOREM ReadersAreOnTheFile == Spec => []NoOldReads
<1>1. RestoreInv => NoOldReads
  BY DEF RestoreInv, PoolInv, StaleKnown, ThreadsKnown, NoOldReads
<1> QED
  BY <1>1, RestoreInvariant, PTL

\* A session whose ending was answered stays ended through any number of
\* restores (backup.ts:78-80, 152-155), or one of their answers said that its
\* kind was not carried over or that the restore failed, or the note of it was
\* overwritten by an overlapping restore's (restore-credentials.ts:613-616): a
\* restore that holds the endings in memory has yet to come to every kind that
\* the database lacks, or has noted it.
THEOREM EndingsSurvive == Spec => []EndedStaysEnded
<1>1. RestoreInv => EndedStaysEnded
  <2> SUFFICES ASSUME RestoreInv, ~Carrying, NEW k \in promised,
                      k \notin ended, k \notin told, k \notin unread
               PROVE  k \in ToBeTold
    BY DEF EndedStaysEnded
  <2>1. k \in failed \/ k \in lastSummary
    BY DEF RestoreInv, Kept, Noted, Carrying
  <2> DEFINE said(c) ==
        (IF at[c] \in {"failed", "starting after failure"} THEN failed ELSE {})
          \cup (IF at[c] \in {"done", "starting", "following"} THEN lastSummary ELSE {})
  <2>2. \E c \in Restores : k \in said(c)
    BY <2>1 DEF RestoreInv, Awaited, Failing, Reporting, Carrying
  <2> QED
    BY <2>2, Zenon DEF ToBeTold
<1> QED
  BY <1>1, RestoreInvariant, PTL

-----------------------------------------------------------------------------
(* A stored row count that is trusted is right, for any calls, any wishes, *)
(* any failures and crashes.                                               *)
(*                                                                         *)
(* The invariant says it of the database, and of the copy a rollback would *)
(* bring back; and that a table's triggers bear no other table's name,     *)
(* which is what makes a record count where it should.  Only inside        *)
(* ensureRowCount is that not so, of the table it is called for.           *)

Shaped(b) ==
    /\ DOMAIN b = {"rows", "tables", "counts", "history"}
    /\ \A t \in DOMAIN b.tables : DOMAIN b.tables[t] = {"cols", "n", "trig"}

Right(b, t) == t \in b.tables[t].trig /\ t \in DOMAIN b.counts => b.counts[t] = b.tables[t].n

Own(b, t) == b.tables[t].trig \subseteq {t}

\* All is well with the counts, but for the triggers of the table called name.
GoodBut(b, name) ==
    /\ Shaped(b)
    /\ \A t \in DOMAIN b.tables : Right(b, t) /\ (t # name => Own(b, t))

Good(b) == Shaped(b) /\ \A t \in DOMAIN b.tables : Right(b, t) /\ Own(b, t)

Inside == {"counted", "renamed", "unrenamed", "unaltered", "saved"}

TxInv == /\ DOMAIN tx = {"by", "saved", "joined"}
         /\ DOMAIN stage = Editors
         /\ tx.by # None => Good(tx.saved)
         /\ \A c \in Editors : stage[c] \in Inside => tx.by = c

CountsInv == Good(base) /\ TxInv

-----------------------------------------------------------------------------
(* What statements do to the counts. *)

\* Rows and history are no matter.
LEMMA RowsKeep ==
    ASSUME NEW b, Good(b), NEW x
    PROVE  /\ Good([b EXCEPT !.rows = x])
           /\ Good([b EXCEPT !.history = x])
BY DEF Good, Shaped, Right, Own

\* Columns are no matter, either.
LEMMA ColumnsKeep ==
    ASSUME NEW b, Good(b), NEW name \in DOMAIN b.tables, NEW x
    PROVE  Good([b EXCEPT !.tables[name].cols = x])
BY DEF Good, Shaped, Right, Own

\* CREATE TABLE IF NOT EXISTS.
LEMMA TableMade ==
    ASSUME NEW b, Good(b), NEW name, NEW cols,
           NEW table, table = IF name \in DOMAIN b.tables THEN b.tables[name]
                              ELSE [cols |-> cols, n |-> 0, trig |-> {}]
    PROVE  Good([b EXCEPT !.tables = With(@, name, table)])
BY DEF Good, Shaped, Right, Own, With

\* DROP TABLE IF EXISTS.
LEMMA TableDropped ==
    ASSUME NEW b, Good(b), NEW name
    PROVE  Good([b EXCEPT !.tables = Without(@, name)])
BY DEF Good, Shaped, Right, Own, Without

\* Without a count, a table is counted.
LEMMA CountForgotten ==
    ASSUME NEW b, Good(b), NEW name
    PROVE  Good(forgetRowCount(b, name))
BY DEF Good, Shaped, Right, Own, Without, forgetRowCount

LEMMA StaleGone ==
    ASSUME NEW b, NEW name \in DOMAIN b.tables, GoodBut(b, name)
    PROVE  /\ Good(NoStale(b, name))
           /\ name \in DOMAIN NoStale(b, name).tables
<1> DEFINE d == NoStale(b, name)
<1>1. /\ DOMAIN d = DOMAIN b
      /\ d.counts = b.counts
      /\ d.tables = [t \in DOMAIN b.tables |->
            [b.tables[t] EXCEPT !.trig = IF t = name THEN b.tables[t].trig \cap {name}
                                         ELSE b.tables[t].trig \ {name}]]
  BY DEF GoodBut, Shaped, NoStale
<1>2. ASSUME NEW t \in DOMAIN b.tables
      PROVE  /\ DOMAIN d.tables[t] = {"cols", "n", "trig"}
             /\ d.tables[t].n = b.tables[t].n
             /\ d.tables[t].trig \subseteq b.tables[t].trig
             /\ t = name => d.tables[t].trig \subseteq {name}
  BY <1>1 DEF GoodBut, Shaped
<1>3. DOMAIN d.tables = DOMAIN b.tables
  BY <1>1
<1>4. Shaped(d)
  BY <1>1, <1>2, <1>3 DEF GoodBut, Shaped
<1>5. ASSUME NEW t \in DOMAIN d.tables
      PROVE  Right(d, t) /\ Own(d, t)
  <2>1. t \in DOMAIN b.tables /\ Right(b, t) /\ (t # name => Own(b, t))
    BY <1>3, <1>5 DEF GoodBut
  <2>2. Own(d, t)
    BY <2>1, <1>2 DEF Own
  <2>3. Right(d, t)
    BY <2>1, <1>1, <1>2 DEF Right
  <2> QED
    BY <2>2, <2>3
<1> QED
  BY <1>3, <1>4, <1>5 DEF Good

\* ensureRowCount leaves all counts right, whatever triggers its table came with.
LEMMA CountEnsured ==
    ASSUME NEW b, NEW name \in DOMAIN b.tables, GoodBut(b, name)
    PROVE  Good(ensureRowCount(b, name))
<1> DEFINE d == NoStale(b, name)
           e == [d EXCEPT !.tables[name].trig = {name}, !.counts = With(@, name, d.tables[name].n)]
<1>1. Good(d) /\ name \in DOMAIN d.tables
  BY StaleGone
<1>2. Good(e)
  <2> HIDE DEF d
  <2>1. /\ DOMAIN e = {"rows", "tables", "counts", "history"}
        /\ e.tables = [d.tables EXCEPT ![name].trig = {name}]
        /\ e.counts = With(d.counts, name, d.tables[name].n)
    BY <1>1 DEF Good, Shaped
  <2>2. ASSUME NEW t \in DOMAIN d.tables
        PROVE  /\ DOMAIN e.tables[t] = {"cols", "n", "trig"}
               /\ e.tables[t].n = d.tables[t].n
               /\ e.tables[t].trig = IF t = name THEN {name} ELSE d.tables[t].trig
    BY <1>1, <2>1 DEF Good, Shaped
  <2>3. DOMAIN e.tables = DOMAIN d.tables
    BY <2>1
  <2>4. ASSUME NEW t \in DOMAIN d.tables
        PROVE  Right(e, t) /\ Own(e, t)
    <3>1. Right(d, t) /\ Own(d, t)
      BY <1>1 DEF Good
    <3>2. Own(e, t)
      BY <3>1, <2>2 DEF Own
    <3>3. /\ t = name => e.counts[t] = d.tables[name].n
          /\ t # name /\ t \in DOMAIN e.counts => t \in DOMAIN d.counts /\ e.counts[t] = d.counts[t]
      BY <2>1 DEF With
    <3>4. Right(e, t)
      BY <3>1, <2>2, <3>3 DEF Right
    <3> QED
      BY <3>2, <3>4
  <2> HIDE DEF e
  <2> QED
    BY <2>1, <2>2, <2>3, <2>4 DEF Good, Shaped
<1> QED
  BY <1>1, <1>2 DEF ensureRowCount

LEMMA GoodIsGoodBut ==
    ASSUME NEW b, Good(b), NEW name
    PROVE  GoodBut(b, name)
BY DEF Good, GoodBut

\* The transaction of a rename: the table comes with triggers of its old name.
LEMMA CountRenamed ==
    ASSUME NEW c, Good(base), my[c].from \in DOMAIN base.tables, my[c].to \notin DOMAIN base.tables
    PROVE  Good(Renamed(c))
<1> DEFINE was == my[c].from
           new == my[c].to
           moved == my[c].moved
           b == [base EXCEPT
                   !.tables = With(Without(@, was), new, @[was]),
                   !.rows = [i \in DOMAIN @ |-> IF i \in DOMAIN moved
                                                THEN [@[i] EXCEPT !.fields = moved[i]] ELSE @[i]],
                   !.history = {<<IF h[1] = was THEN new ELSE h[1], h[2]>> : h \in @}]
           d == forgetRowCount(b, was)
<1>1. /\ DOMAIN d = {"rows", "tables", "counts", "history"}
      /\ d.tables = With(Without(base.tables, was), new, base.tables[was])
      /\ d.counts = Without(base.counts, was)
  BY DEF Good, Shaped, forgetRowCount
<1>2. new \in DOMAIN d.tables
  BY <1>1 DEF With
<1>3. GoodBut(d, new)
  <2> HIDE DEF d, b
  <2>1. \A t \in DOMAIN d.tables :
           /\ t = new => d.tables[t] = base.tables[was]
           /\ t # new => t # was /\ t \in DOMAIN base.tables /\ d.tables[t] = base.tables[t]
    BY <1>1 DEF With, Without
  <2>2. Shaped(d)
    BY <1>1, <2>1 DEF Good, Shaped
  <2>3. ASSUME NEW t \in DOMAIN d.tables
        PROVE  Right(d, t) /\ (t # new => Own(d, t))
    <3>1. CASE t = new
      \* Its triggers are the old table's, and bear no name but the old one.
      BY <3>1, <2>1 DEF Good, Right, Own
    <3>2. CASE t # new
      <4>1. Right(base, t) /\ Own(base, t) /\ t # was /\ d.tables[t] = base.tables[t]
        BY <3>2, <2>1 DEF Good
      <4>2. t \in DOMAIN d.counts => t \in DOMAIN base.counts /\ d.counts[t] = base.counts[t]
        BY <1>1 DEF Without
      <4> QED
        BY <4>1, <4>2 DEF Right, Own
    <3> QED
      BY <3>1, <3>2
  <2> QED
    BY <2>2, <2>3 DEF GoodBut
<1>4. Renamed(c) = ensureRowCount(d, new)
  BY DEF Renamed
<1> QED
  <2> HIDE DEF d, new
  <2> QED
    BY <1>2, <1>3, <1>4, CountEnsured

\* A record is counted under its table's name, and no other.
LEMMA RecordCounted ==
    ASSUME NEW i, Good(base), CreateRecord(i)
    PROVE  Good(base')
<1> DEFINE name == base.rows[i].name
<1>1. /\ name \in DOMAIN base.tables
      /\ DOMAIN base' = {"rows", "tables", "counts", "history"}
      /\ base'.tables = [base.tables EXCEPT ![name].n = @ + 1]
      /\ base'.counts = [t \in DOMAIN base.counts |-> IF t \in base.tables[name].trig
                                                      THEN base.counts[t] + 1 ELSE base.counts[t]]
  BY DEF CreateRecord, Good, Shaped
<1>2. \A t \in DOMAIN base.tables :
         /\ DOMAIN base'.tables[t] = {"cols", "n", "trig"}
         /\ base'.tables[t].trig = base.tables[t].trig
         /\ base'.tables[t].n = IF t = name THEN base.tables[t].n + 1 ELSE base.tables[t].n
  <2> HIDE DEF name
  <2> QED
    BY <1>1 DEF Good, Shaped
<1>3. DOMAIN base'.tables = DOMAIN base.tables
  BY <1>1
<1>4. Own(base, name)
  BY <1>1 DEF Good
<1>5. ASSUME NEW t \in DOMAIN base'.tables
      PROVE  Right(base', t) /\ Own(base', t)
  <2> HIDE DEF name
  <2>1. Right(base, t) /\ Own(base, t)
    BY <1>3 DEF Good
  <2>2. t \in base.tables[name].trig => t = name
    BY <1>4 DEF Own
  <2>3. CASE t = name
    BY <2>1, <2>3, <1>1, <1>2, <1>3 DEF Right, Own
  <2>4. CASE t # name
    BY <2>1, <2>2, <2>4, <1>1, <1>2, <1>3 DEF Right, Own
  <2> QED
    BY <2>3, <2>4
<1> QED
  BY <1>1, <1>2, <1>3, <1>5 DEF Good, Shaped

-----------------------------------------------------------------------------
(* The invariant. *)

LEMMA CountsInit == InitSchema => CountsInv
<1> SUFFICES ASSUME InitSchema PROVE CountsInv
  OBVIOUS
<1>1. DOMAIN base = {"rows", "tables", "counts", "history"}
  BY DEF InitSchema
<1>2. /\ DOMAIN base.tables = GivenNames
      /\ \A t \in GivenNames : /\ DOMAIN base.tables[t] = {"cols", "n", "trig"}
                               /\ base.tables[t].n = 1
                               /\ base.tables[t].trig = {t}
                               /\ base.counts[t] = 1
  BY DEF InitSchema
<1>3. Good(base)
  BY <1>1, <1>2 DEF Good, Shaped, Right, Own
<1>4. TxInv
  BY DEF InitSchema, TxInv, NoTx, Inside
<1> QED
  BY <1>3, <1>4 DEF CountsInv

\* A call goes to a place outside a transaction of its own.
Leaves(c) == \E place : place \notin Inside /\ Go(c, place)

LEMMA EndsLeave ==
    ASSUME NEW c
    PROVE  /\ Over(c) => Leaves(c)
           /\ Undo(c) => Leaves(c)
           /\ Fails(c) => Leaves(c)
           /\ \A keys : Answers(c, keys) => Leaves(c)
<1>1. "over" \notin Inside /\ "others" \notin Inside
  BY DEF Inside
<1>2. Over(c) => Leaves(c)
  BY <1>1 DEF Over, Leaves
<1>3. Undo(c) => Leaves(c)
  BY <1>1, <1>2 DEF Undo, Leaves
<1> QED
  BY <1>2, <1>3 DEF Fails, Answers

\* Other calls' transactions go on.
LEMMA LeavingKeeps ==
    ASSUME NEW c \in Editors, TxInv, Leaves(c), tx'.by = tx.by, tx'.saved = tx.saved,
           DOMAIN tx' = DOMAIN tx
    PROVE  TxInv'
<1>1. PICK place : place \notin Inside /\ stage' = [stage EXCEPT ![c] = place]
  BY DEF Leaves, Go
<1>2. DOMAIN stage' = Editors
  BY <1>1 DEF TxInv
<1>3. \A d \in Editors : stage'[d] \in Inside => stage[d] \in Inside
  BY <1>1 DEF TxInv
<1>4. tx'.by # None => Good(tx'.saved)
  BY DEF TxInv
<1> QED
  BY <1>2, <1>3, <1>4 DEF TxInv

\* A write past the driver leaves the transaction whose it is.
LEMMA WritesKeep ==
    ASSUME NEW c, NEW names, NEW b, TxInv, Writes(c, names, b)
    PROVE  /\ base' = b
           /\ tx'.by = tx.by /\ tx'.saved = tx.saved /\ DOMAIN tx' = DOMAIN tx
           /\ tx.by = c => tx' = tx
BY DEF TxInv, Writes

\* It is about the collections' rows or the history.
LEMMA RawWriteKeeps ==
    ASSUME NEW c \in Editors, NEW names, NEW b, CountsInv, Leaves(c), Raw(c, names, b),
           \E x : b = [base EXCEPT !.rows = x] \/ b = [base EXCEPT !.history = x]
    PROVE  CountsInv'
<1>1. Good(b)
  <2>1. Good(base)
    BY DEF CountsInv
  <2>2. PICK x : b = [base EXCEPT !.rows = x] \/ b = [base EXCEPT !.history = x]
    OBVIOUS
  <2>3. Good([base EXCEPT !.rows = x]) /\ Good([base EXCEPT !.history = x])
    BY <2>1, RowsKeep
  <2> QED
    BY <2>2, <2>3
<1>2. Good(base') /\ TxInv'
  BY <1>1, WritesKeep, LeavingKeeps DEF CountsInv, Raw
<1> QED
  BY <1>2 DEF CountsInv

\* Nobody else is in the transaction that a call ends.
LEMMA EndingKeeps ==
    ASSUME NEW c \in Editors, TxInv, tx.by = c, tx' = NoTx, Leaves(c)
    PROVE  TxInv'
<1>1. PICK place : place \notin Inside /\ stage' = [stage EXCEPT ![c] = place]
  BY DEF Leaves, Go
<1>2. DOMAIN stage' = Editors
  BY <1>1 DEF TxInv
<1>3. \A d \in Editors : stage'[d] \notin Inside
  BY <1>1 DEF TxInv
<1>4. DOMAIN tx' = {"by", "saved", "joined"} /\ tx'.by = None
  BY DEF NoTx
<1> QED
  BY <1>2, <1>3, <1>4 DEF TxInv

\* What it leaves the database as is as it was, or as it is.
LEMMA EndKeeps ==
    ASSUME NEW c \in Editors, CountsInv, stage[c] \in Inside, Leaves(c),
           Commit \/ \E names : Rollback(names)
    PROVE  CountsInv'
<1>1. tx.by = c /\ tx.by # None
  BY SchemaAssumption DEF CountsInv, TxInv
<1>2. tx' = NoTx /\ base' \in {base, tx.saved}
  BY DEF Commit, Rollback
<1>3. Good(base')
  BY <1>1, <1>2 DEF CountsInv, TxInv
<1>4. TxInv'
  BY <1>1, <1>2, EndingKeeps DEF CountsInv
<1> QED
  BY <1>3, <1>4 DEF CountsInv

\* Nor in the one it begins.
LEMMA BeginningKeeps ==
    ASSUME NEW c \in Editors, NEW place, NEW b, TxInv, Good(base), Begin(c, b), Go(c, place)
    PROVE  TxInv'
<1>1. tx.by = None /\ tx' = [by |-> c, saved |-> base, joined |-> {}]
  BY DEF Begin
<1>2. DOMAIN tx' = {"by", "saved", "joined"} /\ tx'.by = c /\ tx'.saved = base
  BY <1>1
<1>3. None \notin Editors
  BY SchemaAssumption
<1>4. \A d \in Editors : stage[d] \notin Inside
  BY <1>1, <1>3 DEF TxInv
<1>5. DOMAIN stage' = Editors /\ \A d \in Editors : stage'[d] \in Inside => d = c
  BY <1>4 DEF Go, TxInv
<1> QED
  BY <1>2, <1>5 DEF TxInv

LEMMA BeginKeeps ==
    ASSUME NEW c \in Editors, NEW place, NEW b, CountsInv, Good(b), Begin(c, b), Go(c, place)
    PROVE  CountsInv'
<1>1. base' = b
  BY DEF Begin
<1> QED
  BY <1>1, BeginningKeeps DEF CountsInv

-----------------------------------------------------------------------------
(* The steps of a call. *)

\* Steps that touch neither the tables nor a transaction.
LEMMA QuietKeeps ==
    ASSUME NEW c \in Editors, CountsInv, UNCHANGED <<base, tx>>, Leaves(c)
    PROVE  CountsInv'
BY LeavingKeeps DEF CountsInv

LEMMA CreateKeeps ==
    ASSUME NEW c \in Editors, CountsInv,
           Available(c) \/ Insert(c) \/ MakeTable(c) \/ Count(c) \/ CountEnds(c) \/ Unmake(c)
    PROVE  CountsInv'
<1> USE DEF CountsInv
<1>0. {"insert", "table", "count", "unmake", "drop"} \cap Inside = {}
  BY DEF Inside
<1>1. CASE Available(c)
  <2>1. UNCHANGED <<base, tx>>
    BY <1>1 DEF Available
  <2>2. Leaves(c)
    BY <1>0, <1>1, EndsLeave DEF Available, Leaves
  <2> QED
    BY <2>1, <2>2, QuietKeeps
<1>2. CASE Insert(c)
  <2>1. Leaves(c)
    BY <1>0, <1>2, EndsLeave DEF Insert, Leaves
  <2>2. CASE UNCHANGED <<base, tx>>
    BY <2>1, <2>2, QuietKeeps
  <2>3. ASSUME NEW x, Raw(c, {wish[c].name}, [base EXCEPT !.rows = x])
        PROVE  CountsInv'
    BY <2>1, <2>3, RawWriteKeeps
  <2> QED
    BY <1>2, <2>2, <2>3 DEF Insert
<1>3. CASE MakeTable(c)
  <2>1. Leaves(c) /\ UNCHANGED tx
    BY <1>0, <1>3 DEF MakeTable, Leaves
  <2>2. Good(base')
    <3> DEFINE name == my[c].from
               cols == [n \in {wish[c].fields[i].name : i \in DOMAIN wish[c].fields} |-> <<c, n>>]
               table == IF name \in DOMAIN base.tables THEN base.tables[name]
                        ELSE [cols |-> cols, n |-> 0, trig |-> {}]
    <3>1. base' = [base EXCEPT !.tables = With(@, name, table)]
      BY <1>3 DEF MakeTable
    <3> HIDE DEF cols, name
    <3> QED
      BY <3>1, TableMade
  <2> QED
    BY <2>1, <2>2, LeavingKeeps
<1>4. CASE Count(c)
  <2> DEFINE b == IF my[c].from \in DOMAIN base.tables THEN ensureRowCount(base, my[c].from) ELSE base
  <2>1. Good(b)
    BY CountEnsured, GoodIsGoodBut
  <2>2. Begin(c, b) /\ Go(c, "counted")
    BY <1>4 DEF Count
  <2> HIDE DEF b
  <2> QED
    BY <2>1, <2>2, BeginKeeps
<1>6. CASE CountEnds(c)
  <2>1. stage[c] \in Inside
    BY <1>6 DEF CountEnds, Inside
  <2>2. CASE Commit /\ Answers(c, {})
    BY <2>1, <2>2, EndsLeave, EndKeeps
  <2>3. CASE Rollback({}) /\ Go(c, "unmake")
    <3>1. Leaves(c)
      BY <1>0, <2>3 DEF Leaves
    <3> QED
      BY <2>1, <2>3, <3>1, EndKeeps
  <2> QED
    BY <1>6, <2>2, <2>3 DEF CountEnds
<1>5. CASE Unmake(c)
  <2>1. Leaves(c)
    BY <1>0, <1>5 DEF Unmake, Leaves
  <2>2. CASE UNCHANGED <<base, tx>>
    BY <2>1, <2>2, QuietKeeps
  <2>3. ASSUME NEW x, Raw(c, {my[c].from}, [base EXCEPT !.rows = x])
        PROVE  CountsInv'
    BY <2>1, <2>3, RawWriteKeeps
  <2> QED
    BY <1>5, <2>2, <2>3 DEF Unmake
<1> QED
  BY <1>1, <1>2, <1>3, <1>4, <1>5, <1>6

LEMMA RenameKeeps ==
    ASSUME NEW c \in Editors, CountsInv,
           Find(c) \/ Clash(c) \/ Others(c) \/ Rename(c) \/ RenameEnds(c) \/ syncFts(c)
    PROVE  CountsInv'
<1> USE DEF CountsInv
<1>0. {"clash", "others", "rename", "index", "save", "alter"} \cap Inside = {}
  BY DEF Inside
<1>a. ASSUME NEW w PROVE Fields(w) \notin Inside
  BY <1>0 DEF Fields
<1>1. CASE Find(c)
  <2>1. UNCHANGED <<base, tx>>
    BY <1>1 DEF Find
  <2>2. Leaves(c)
    BY <1>0, <1>a, <1>1, EndsLeave DEF Find, Leaves
  <2> QED
    BY <2>1, <2>2, QuietKeeps
<1>2. CASE Clash(c)
  <2>1. UNCHANGED <<base, tx>> /\ Leaves(c)
    BY <1>0, <1>2, EndsLeave DEF Clash, Leaves
  <2> QED
    BY <2>1, QuietKeeps
<1>3. CASE Others(c)
  <2>1. UNCHANGED <<base, tx>> /\ Leaves(c)
    BY <1>0, <1>3 DEF Others, Leaves
  <2> QED
    BY <2>1, QuietKeeps
<1>4. CASE Rename(c)
  <2>1. CASE Begin(c, base) /\ Go(c, "unrenamed")
    BY <2>1, BeginKeeps
  <2>2. CASE /\ my[c].from \in DOMAIN base.tables /\ my[c].to \notin DOMAIN base.tables
             /\ Begin(c, Renamed(c)) /\ Go(c, "renamed")
    BY <2>2, CountRenamed, BeginKeeps
  <2> QED
    BY <1>4, <2>1, <2>2 DEF Rename
<1>5. CASE RenameEnds(c)
  <2>1. stage[c] \in Inside
    BY <1>5 DEF RenameEnds, Inside
  <2>2. CASE Commit /\ Go(c, "index")
    <3>1. Leaves(c)
      BY <1>0, <2>2 DEF Leaves
    <3> QED
      BY <2>1, <2>2, <3>1, EndKeeps
  <2>3. CASE Over(c) /\ Rollback(Halfway(c))
    BY <2>1, <2>3, EndsLeave, EndKeeps
  <2> QED
    BY <1>5, <2>2, <2>3 DEF RenameEnds
<1>6. CASE syncFts(c)
  <2>1. UNCHANGED <<base, tx>> /\ Leaves(c)
    BY <1>a, <1>6, EndsLeave DEF syncFts, Leaves
  <2> QED
    BY <2>1, QuietKeeps
<1> QED
  BY <1>1, <1>2, <1>3, <1>4, <1>5, <1>6

LEMMA AlterKeeps ==
    ASSUME NEW c \in Editors, CountsInv, Alter(c) \/ Save(c) \/ AlterEnds(c)
    PROVE  CountsInv'
<1> USE DEF CountsInv
<1>1. CASE Alter(c)
  <2>1. CASE Begin(c, base) /\ Go(c, "unaltered")
    BY <2>1, BeginKeeps
  <2>2. ASSUME NEW name \in DOMAIN base.tables, NEW cols,
               Begin(c, [base EXCEPT !.tables[name].cols = cols]), Go(c, "save")
        PROVE  CountsInv'
    BY <2>2, ColumnsKeep, BeginKeeps
  <2> QED
    BY <1>1, <2>1, <2>2 DEF Alter
<1>2. CASE Save(c)
  <2> DEFINE names == {my[c].from, my[c].to} \ {None}
             b == [base EXCEPT !.rows = Saved(c)]
  <2>1. CASE UNCHANGED <<base, tx>> /\ Undo(c)
    BY <2>1, EndsLeave, QuietKeeps
  <2>2. CASE tx.by = c /\ Rollback({}) /\ Undo(c)
    <3>1. tx.by # None
      BY <2>2, SchemaAssumption
    <3>2. Good(base') /\ tx' = NoTx
      BY <2>2, <3>1 DEF Rollback, TxInv
    <3> QED
      BY <2>2, <3>2, EndsLeave, EndingKeeps
  <2>3. CASE Writes(c, names, b) /\ (Answers(c, Keys(c)) \/ (tx.by = c /\ Go(c, "saved")))
    <3>1. Good(b)
      BY RowsKeep
    <3> HIDE DEF names, b
    <3>2. Good(base')
      BY <2>3, <3>1, WritesKeep
    <3>3. CASE Answers(c, Keys(c))
      BY <2>3, <3>2, <3>3, WritesKeep, EndsLeave, LeavingKeeps
    <3>4. CASE tx.by = c /\ Go(c, "saved")
      <4>1. tx' = tx
        BY <2>3, <3>4, WritesKeep
      <4>2. DOMAIN stage' = Editors /\ \A d \in Editors : d # c => stage'[d] = stage[d]
        BY <3>4 DEF Go, TxInv
      <4>3. TxInv'
        BY <3>4, <4>1, <4>2 DEF TxInv
      <4> QED
        BY <3>2, <4>3
    <3> QED
      BY <2>3, <3>3, <3>4
  <2> QED
    BY <1>2, <2>1, <2>2, <2>3 DEF Save
<1>3. CASE AlterEnds(c)
  <2>1. stage[c] \in Inside
    BY <1>3 DEF AlterEnds, Inside
  <2>2. CASE Commit /\ Answers(c, Keys(c))
    BY <2>1, <2>2, EndsLeave, EndKeeps
  <2>3. CASE Undo(c) /\ Rollback({})
    BY <2>1, <2>3, EndsLeave, EndKeeps
  <2> QED
    BY <1>3, <2>2, <2>3 DEF AlterEnds
<1> QED
  BY <1>1, <1>2, <1>3

LEMMA DeleteKeeps ==
    ASSUME NEW c \in Editors, CountsInv,
           FindToDelete(c) \/ DropTable(c) \/ Forget(c) \/ Remove(c) \/ ForgetHistory(c)
    PROVE  CountsInv'
<1> USE DEF CountsInv
<1>0. {"drop", "forget", "remove", "history"} \cap Inside = {}
  BY DEF Inside
<1>1. CASE DropTable(c)
  <2>1. Leaves(c) /\ UNCHANGED tx
    BY <1>0, <1>1, EndsLeave DEF DropTable, Leaves
  <2>2. base' = base \/ base' = [base EXCEPT !.tables = Without(@, my[c].from)]
    BY <1>1 DEF DropTable
  <2> QED
    BY <2>1, <2>2, TableDropped, LeavingKeeps
<1>2. CASE Forget(c)
  <2>1. Leaves(c) /\ UNCHANGED tx
    BY <1>0, <1>2, EndsLeave DEF Forget, Leaves
  <2>2. base' = base \/ base' = forgetRowCount(base, my[c].from)
    BY <1>2 DEF Forget
  <2> QED
    BY <2>1, <2>2, CountForgotten, LeavingKeeps
<1>3. CASE Remove(c)
  <2>1. Leaves(c)
    BY <1>0, <1>3, EndsLeave DEF Remove, Leaves
  <2>2. CASE UNCHANGED <<base, tx>>
    BY <2>1, <2>2, QuietKeeps
  <2>3. ASSUME NEW x, Raw(c, {my[c].from}, [base EXCEPT !.rows = x])
        PROVE  CountsInv'
    BY <2>1, <2>3, RawWriteKeeps
  <2> QED
    BY <1>3, <2>2, <2>3 DEF Remove
<1>4. CASE ForgetHistory(c)
  <2>1. Leaves(c)
    BY <1>4, EndsLeave DEF ForgetHistory
  <2>2. CASE UNCHANGED <<base, tx>>
    BY <2>1, <2>2, QuietKeeps
  <2>3. ASSUME NEW x, Raw(c, {my[c].from}, [base EXCEPT !.history = x])
        PROVE  CountsInv'
    BY <2>1, <2>3, RawWriteKeeps
  <2> QED
    BY <1>4, <2>2, <2>3 DEF ForgetHistory
<1>5. CASE FindToDelete(c)
  <2>1. UNCHANGED <<base, tx>>
    BY <1>5 DEF FindToDelete
  <2>2. Leaves(c)
    BY <1>0, <1>5, EndsLeave DEF FindToDelete, Leaves
  <2> QED
    BY <2>1, <2>2, QuietKeeps
<1> QED
  BY <1>1, <1>2, <1>3, <1>4, <1>5

-----------------------------------------------------------------------------

LEMMA CountsNext == CountsInv /\ [SchemaStep]_schemaVars => CountsInv'
<1> SUFFICES ASSUME CountsInv, [SchemaStep]_schemaVars PROVE CountsInv'
  OBVIOUS
<1>1. CASE UNCHANGED schemaVars
  BY <1>1 DEF CountsInv, TxInv, schemaVars
<1>2. ASSUME NEW c \in Editors, EditorStep(c)
      PROVE  CountsInv'
  BY <1>2, CreateKeeps, RenameKeeps, AlterKeeps, DeleteKeeps DEF EditorStep
<1>3. ASSUME NEW i, CreateRecord(i)
      PROVE  CountsInv'
  <2>1. UNCHANGED <<tx, stage>>
    BY <1>3 DEF CreateRecord
  <2>2. Good(base')
    BY <1>3, RecordCounted DEF CountsInv
  <2> QED
    BY <2>1, <2>2 DEF CountsInv, TxInv
<1>4. CASE Stop
  <2>1. base' = base \/ (tx.by # None /\ base' = tx.saved)
    BY <1>4 DEF Stop
  <2>2. Good(base')
    BY <2>1 DEF CountsInv, TxInv
  <2>3. DOMAIN tx' = {"by", "saved", "joined"} /\ tx'.by = None
    BY <1>4 DEF Stop, NoTx
  <2>4. DOMAIN stage' = Editors
    BY <1>4 DEF Stop
  <2>5. \A c \in Editors : stage'[c] \notin Inside
    <3>1. \A c \in Editors : Under(c) \/ stage[c] \notin Inside
      BY DEF Under, Inside
    <3>2. \A c \in Editors : stage'[c] = IF Under(c) THEN "over" ELSE stage[c]
      BY <1>4 DEF Stop
    <3> QED
      BY <3>1, <3>2 DEF Inside
  <2> QED
    BY <2>2, <2>3, <2>4, <2>5 DEF CountsInv, TxInv
<1> QED
  BY <1>1, <1>2, <1>3, <1>4 DEF SchemaStep

\* A stored row count that a list would trust is the number of the table's
\* records, between any two statements of any calls, after any failure or
\* crash.  (ensureRowCount, forgetRowCount and storedRowCount in
\* core/row-counts.ts, as core/collections.ts calls them)
THEOREM StoredRowCounts == SchemaSpec => []RowCountsRight
<1>1. InitSchema => CountsInv
  BY CountsInit
<1>2. CountsInv /\ [SchemaStep]_schemaVars => CountsInv'
  BY CountsNext
<1>3. CountsInv => RowCountsRight
  BY DEF CountsInv, Good, Right, RowCountsRight
<1> QED
  BY <1>1, <1>2, <1>3, PTL DEF SchemaSpec

-----------------------------------------------------------------------------
(* What the rules admit, for any rules, filters, callers, requests, records *)
(* and rows of other collections.                                          *)
(*                                                                         *)
(* A comparison that rules.ts finds true holds in the SQL that filter.ts   *)
(* makes of it, whatever rows its references to another collection stand   *)
(* for, unless it is one of those DecidedDifferently lists; so does an     *)
(* expression, which has no negation.  A rule that doesn't read the body   *)
(* says of the changed record what the check of the change said of it.     *)

(* Values, as both programs take them. *)

LEMMA NumberOnce == ASSUME NEW v PROVE Number(Number(v)) = Number(v)
  BY DEF Number, Is, Num

LEMMA SameContent ==
  ASSUME NEW v
  PROVE  Number(v)[2] = v[2] /\ (Number(v) = Null <=> v = Null) /\ (Number(v) = Text("") <=> v = Text(""))
<1>1. CASE Is("bool", v)
  <2>1. Number(v) = <<"num", v[2]>>
    BY <1>1 DEF Number, Num
  <2>2. Number(v)[1] = "num" /\ Number(v)[2] = v[2]
    BY <2>1
  <2>3. v[1] = "bool" /\ Null[1] = "null" /\ Text("")[1] = "text"
    BY <1>1 DEF Is, Null, Text
  <2> QED BY <2>2, <2>3
<1>2. CASE ~Is("bool", v)
  BY <1>2 DEF Number
<1> QED BY <1>1, <1>2

LEMMA StoredAsItIs == ASSUME NEW v, ~Compound(v) PROVE Stored(v) = v /\ SqlValue(v) = Number(v)
  BY DEF Stored, SqlValue

LEMMA StoredOnce == ASSUME NEW v PROVE Stored(Number(Stored(v))) = Number(Stored(v))
  BY DEF Stored, Number, Compound, Is, Text, Num

\* Values of one type are whole: neither missing nor a list or an object.
LEMMA TypedValue ==
  ASSUME NEW a, NEW b, SameType(a, b)
  PROVE  /\ ~Compound(a) /\ ~Compound(b)
         /\ a # Null /\ b # Null
         /\ SqlValue(a) # Null /\ SqlValue(b) # Null
  BY DEF SameType, Is, Number, Compound, Null, SqlValue, Stored, Num

\* The types are those of the numbers that truth values stand for.
LEMMA TypeOfNumbers == ASSUME NEW a, NEW b PROVE SameType(Number(a), Number(b)) <=> SameType(a, b)
  BY NumberOnce DEF SameType

LEMMA PatternAsStored == ASSUME NEW v PROVE Pattern(SqlValue(v)) <=> Pattern(v)
  BY DEF Pattern, SqlValue, Stored, Number, Compound, Is, Text, Num

-----------------------------------------------------------------------------
(* Operands: what one program reads is what the other one reads. *)

\* The length of what the request doesn't have: 0 in SQL, missing in the process.
LengthOfNothing(o, ctx) ==
    o.kind = "requestMap" /\ o.modifier = "length" /\ requestMapValue(RequestMap(o, ctx), o.key) = Null

LEMMA FieldsAgree ==
  ASSUME NEW o, NEW ctx, o.kind = "field", ~ReadDifferently(o, ctx)
  PROVE  applyModifierToSql(readField(o, ctx), o, ctx) = applyModifierValue(readField(o, ctx), o.modifier)
<1> DEFINE v == readField(o, ctx)
<1>1. CASE o.modifier = "lower"
  BY <1>1 DEF ReadDifferently, applyModifierToSql, applyModifierValue, LowerIn
<1>2. CASE o.modifier = "length" /\ v = Null
  BY <1>2 DEF applyModifierToSql, applyModifierValue, Is, Null
<1>3. CASE o.modifier = "length" /\ v # Null
  BY <1>3 DEF ReadDifferently, applyModifierToSql, applyModifierValue
<1>4. CASE o.modifier \notin {"lower", "length"}
  BY <1>4 DEF applyModifierToSql, applyModifierValue
<1> QED BY <1>1, <1>2, <1>3, <1>4

LEMMA RequestsAgree ==
  ASSUME NEW o, NEW ctx, o.kind = "requestMap", ~ReadDifferently(o, ctx), ~LengthOfNothing(o, ctx)
  PROVE  compileRequestMap(o, ctx) = applyModifierValue(requestMapValue(RequestMap(o, ctx), o.key), o.modifier)
  BY DEF ReadDifferently, LengthOfNothing, compileRequestMap, applyModifierToValue, applyModifierValue

LEMMA OperandsAgree ==
  ASSUME NEW o, NEW ctx, NEW refs,
         ~Elsewhere(o), ~Asked(o), ~ReadDifferently(o, ctx), ~LengthOfNothing(o, ctx)
  PROVE  compileOperand(o, ctx, refs) = resolveOperand(o, ctx)
<1>1. CASE o.kind = "requestMap"
  BY <1>1, RequestsAgree DEF compileOperand, resolveOperand
<1>2. CASE o.kind = "field"
  BY <1>2, FieldsAgree DEF compileOperand, resolveOperand, compileFieldRef
<1>3. CASE o.kind \notin {"requestMap", "field"}
  BY <1>3 DEF compileOperand, resolveOperand, Elsewhere
<1> QED BY <1>1, <1>2, <1>3

\* Where SQL has the length 0 of what the request doesn't say, it is missing.
LEMMA NothingIsMissing ==
  ASSUME NEW o, NEW ctx, LengthOfNothing(o, ctx)
  PROVE  resolveOperand(o, ctx) = Null
  BY DEF LengthOfNothing, resolveOperand, Asked, applyModifierValue, Is, Null

-----------------------------------------------------------------------------
(* One comparison. *)

LEMMA LikesAgree ==
  ASSUME NEW l, NEW op \in Likes, NEW o, NEW ctx, NEW refs,
         contains(SqlValue(l), SqlValue(compileOperand(o, ctx, refs))) <=> op = "~",
         ~(op = "!~" /\ o.kind = "literal" /\ Pattern(compileOperand(o, ctx, refs)))
  PROVE  likeSql(l, op, o, ctx, refs)
<1> DEFINE r == compileOperand(o, ctx, refs)
<1>1. CASE op = "~"
  BY <1>1 DEF likeSql, sqlLike, contains, Like
<1>2. CASE op = "!~"
  BY <1>2, PatternAsStored DEF likeSql, sqlLike, contains, Like
<1> QED BY <1>1, <1>2 DEF Likes

LEMMA PatternsAgree ==
  ASSUME NEW l, NEW op, NEW o, NEW ctx, NEW refs, o.kind = "literal",
         Pattern(compileOperand(o, ctx, refs)),
         likeMatch(Stored(l), Stored(compileOperand(o, ctx, refs))) <=> op = "~"
  PROVE  likeSql(l, op, o, ctx, refs)
<1> DEFINE r == compileOperand(o, ctx, refs)
<1>1. SqlValue(r) = Stored(r) /\ Stored(r) # Null
  BY DEF Pattern, SqlValue, Number, Is, Null
<1>2. SqlValue(l)[2] = Stored(l)[2] /\ (SqlValue(l) = Null <=> Stored(l) = Null)
  BY DEF SqlValue, Number, Is, Null, Num
<1> HIDE DEF r
<1> QED BY <1>1, <1>2 DEF likeSql, sqlLike, likeMatch, r

\* What compareScalar says is what SQL says, of values that are not lists or
\* objects where types are checked.
LEMMA ScalarsAgree ==
  ASSUME NEW l, NEW op, NEW o, NEW ctx, NEW refs, NEW item \in BOOLEAN, NEW typed \in BOOLEAN, typed => item,
         compareScalar(l, op, compileOperand(o, ctx, refs), item),
         item => ~Compound(l) /\ ~Compound(compileOperand(o, ctx, refs)),
         ~(op = "!~" /\ o.kind = "literal" /\ Pattern(compileOperand(o, ctx, refs)))
  PROVE  typedCmp(l, op, o, ctx, refs, typed)
<1> DEFINE r == compileOperand(o, ctx, refs)
<1>1. CASE op \in Likes
  <2>1. contains(SqlValue(l), SqlValue(r)) <=> op = "~"
    BY <1>1 DEF compareScalar, SqlValue
  <2> QED BY <1>1, <2>1, LikesAgree DEF typedCmp
<1>2. CASE op \notin Likes
  <2>1. /\ Known(SqlValue(l), SqlValue(r)) /\ Compare(SqlValue(l), op, SqlValue(r))
        /\ item => SameType(SqlValue(l), SqlValue(r))
    BY <1>2 DEF compareScalar, SqlValue, Known
  <2>2. item => SameType(l, r)
    BY <2>1, StoredAsItIs, TypeOfNumbers
  <2> QED BY <1>2, <2>1, <2>2 DEF typedCmp, sqlCmp
<1> QED BY <1>1, <1>2

\* An element of a list, of the type of what it is compared with.
LEMMA ElementsAgree ==
  ASSUME NEW v, NEW op, NEW o, NEW ctx, NEW refs, SameType(v, compileOperand(o, ctx, refs)),
         compareElement(v, op, compileOperand(o, ctx, refs)),
         ~(op = "!~" /\ o.kind = "literal" /\ Pattern(compileOperand(o, ctx, refs)))
  PROVE  typedCmp(v, op, o, ctx, refs, FALSE)
<1> DEFINE r == compileOperand(o, ctx, refs)
<1>1. /\ SqlValue(v) = Number(v) /\ SqlValue(r) = Number(r)
      /\ v # Null /\ r # Null /\ SqlValue(v) # Null /\ SqlValue(r) # Null
  BY TypedValue, StoredAsItIs
<1>2. CASE op \in Likes
  <2>1. contains(SqlValue(v), SqlValue(r)) <=> op = "~"
    <3>1. contains(Number(v), Number(r)) <=> contains(v, r)
      BY SameContent DEF contains
    <3> QED BY <1>1, <1>2, <3>1 DEF compareElement, Likes
  <2> QED BY <1>2, <2>1, LikesAgree DEF typedCmp
<1>3. CASE op \notin Likes
  <2>1. Compare(SqlValue(v), op, SqlValue(r))
    BY <1>1, <1>3 DEF compareElement, looseEq, cmp, Compare, Likes
  <2> QED BY <1>1, <1>3, <2>1 DEF typedCmp, sqlCmp, Known
<1> QED BY <1>2, <1>3

\* A missing value compares true with nothing, and like nothing.
LEMMA MissingComparesFalse ==
  ASSUME NEW l, NEW op, NEW r, NEW item \in BOOLEAN, l = Null \/ r = Null
  PROVE  compareScalar(l, op, r, item) => op = "!~"
<1>1. ~Compound(Null) /\ Number(Stored(Null)) = Null
  BY DEF Compound, Is, Null, Number, Stored
<1>2. ~contains(Number(Stored(l)), Number(Stored(r)))
  BY <1>1 DEF contains
<1> QED BY <1>1, <1>2 DEF compareScalar, Likes

\* In a comparison that both take, the length of nothing isn't compared.
LEMMA LengthIsThere ==
  ASSUME NEW c, NEW ctx, NEW o \in {c.left, c.right}, ~DecidedDifferently(c, ctx),
         NEW l, NEW r, NEW item \in BOOLEAN, compareScalar(l, c.op, r, item),
         resolveOperand(o, ctx) \in {l, r}
  PROVE  ~LengthOfNothing(o, ctx)
<1> SUFFICES ASSUME LengthOfNothing(o, ctx) PROVE FALSE
  OBVIOUS
<1>1. c.op = "!~"
  BY NothingIsMissing, MissingComparesFalse
<1> QED BY <1>1 DEF DecidedDifferently, LengthOfNothing

\* What is asked of the request, compared with something of the record.
LEMMA AskedAgrees ==
  ASSUME NEW c, NEW ctx, NEW refs, ~c.any, c.op \notin Likes, AsksRequest(c),
         ~Unauth(c.left, ctx), ~Unauth(c.right, ctx), ~DecidedDifferently(c, ctx),
         NEW item \in BOOLEAN, compareScalar(resolveOperand(c.left, ctx), c.op, resolveOperand(c.right, ctx), item)
  PROVE  compileAsked(c, ctx, refs)
<1> DEFINE sides == {c.left, c.right}
           question == IF \E o \in sides : o.kind = "requestMap" /\ o.modifier = "isset" THEN "isset" ELSE "changed"
           read(o) == IF o.kind = "requestMap" /\ o.modifier = question THEN requestAnswer(o, ctx)
                      ELSE compileOperand(o, ctx, refs)
<1>1. ASSUME NEW o \in sides PROVE read(o) = resolveOperand(o, ctx)
  <2>1. ~AskedDifferently(c) /\ ~ReadDifferently(o, ctx)
    BY <1>1 DEF DecidedDifferently
  <2>2. \A p \in sides : Asked(p) /\ o.kind = "requestMap" /\ o.modifier \in {"isset", "changed"}
                           => Asked(o) /\ o.modifier = p.modifier
    BY <1>1, <2>1 DEF AskedDifferently
  <2>3. CASE Asked(o)
    <3>1. o.kind = "requestMap" /\ o.modifier \in {"isset", "changed"}
      BY <2>3 DEF Asked
    <3>2. \A p \in sides : p.kind = "requestMap" /\ p.modifier = "isset" => Asked(p)
      BY DEF Asked
    <3>3. \A p \in sides : p.kind = "requestMap" /\ p.modifier = "isset" => o.modifier = "isset"
      BY <2>2, <3>1, <3>2
    <3>4. o.modifier = question
      BY <1>1, <3>1, <3>3
    <3> QED BY <2>3, <3>1, <3>4 DEF resolveOperand
  <2>4. CASE ~Asked(o)
    <3>1. PICK p \in sides : Asked(p)
      BY DEF AsksRequest
    <3>2. ~(o.kind = "requestMap" /\ o.modifier = question)
      BY <2>2, <2>4, <3>1
    <3>3. ~Elsewhere(o)
      BY <1>1 DEF Unauth
    <3>4. ~LengthOfNothing(o, ctx)
      BY <1>1, LengthIsThere
    <3> QED BY <2>1, <2>4, <3>2, <3>3, <3>4, OperandsAgree
  <2> QED BY <2>3, <2>4
<1>2. /\ Known(SqlValue(resolveOperand(c.left, ctx)), SqlValue(resolveOperand(c.right, ctx)))
      /\ Compare(SqlValue(resolveOperand(c.left, ctx)), c.op, SqlValue(resolveOperand(c.right, ctx)))
  BY DEF compareScalar, SqlValue, Known
<1>3. read(c.left) = resolveOperand(c.left, ctx) /\ read(c.right) = resolveOperand(c.right, ctx)
  BY <1>1
<1> HIDE DEF read
<1>4. /\ Known(SqlValue(read(c.left)), SqlValue(read(c.right)))
      /\ Compare(SqlValue(read(c.left)), c.op, SqlValue(read(c.right)))
  BY <1>2, <1>3
<1> QED BY <1>4 DEF compileAsked, sqlCmp, read

LEMMA PlainAgrees ==
  ASSUME NEW c, NEW ctx, NEW refs, ~c.any, ~Each(c.left), ~Each(c.right),
         evaluatePlain(c, ctx), ~DecidedDifferently(c, ctx), ~Refused(c)
  PROVE  compileCmp(c, ctx, refs)
<1> DEFINE l == resolveOperand(c.left, ctx)
           r == resolveOperand(c.right, ctx)
<1>1. ~ReadDifferently(c.left, ctx) /\ ~ReadDifferently(c.right, ctx)
  BY DEF DecidedDifferently
<1>2. CASE c.op \in {"=", "!="} /\ (NullLiteral(c.left) \/ NullLiteral(c.right))
  <2>1. ~NullDifferently(c.left) /\ ~NullDifferently(c.right)
    BY <1>2 DEF DecidedDifferently
  <2>2. ASSUME NEW o \in {c.left, c.right} PROVE compileOperand(o, ctx, refs) = resolveOperand(o, ctx)
    <3>1. ~Elsewhere(o) /\ ~Asked(o) /\ ~LengthOfNothing(o, ctx) /\ ~ReadDifferently(o, ctx)
      BY <1>1, <2>1, <2>2 DEF NullDifferently, Asked, LengthOfNothing
    <3> QED BY <3>1, OperandsAgree
  <2>3. \A o : NullLiteral(o) => resolveOperand(o, ctx) = Null
    BY DEF NullLiteral, resolveOperand
  <2>4. (IF NullLiteral(c.left) THEN r ELSE l) = Null <=> c.op = "="
    BY <1>2 DEF evaluatePlain
  <2>5. compileOperand(c.left, ctx, refs) = l /\ compileOperand(c.right, ctx, refs) = r
    BY <2>2
  <2> QED BY <1>2, <2>3, <2>4, <2>5 DEF compileCmp
<1>3. CASE ~(c.op \in {"=", "!="} /\ (NullLiteral(c.left) \/ NullLiteral(c.right))) /\ AsksRequest(c)
  <2>1. c.op \notin Likes
    BY <1>3 DEF Refused
  <2>2. ~Unauth(c.left, ctx) /\ ~Unauth(c.right, ctx) /\ compareScalar(l, c.op, r, ctx.item # Null)
    BY <1>3, <2>1 DEF evaluatePlain
  <2>3. (ctx.item # Null) \in BOOLEAN
    OBVIOUS
  <2>4. compileAsked(c, ctx, refs)
    BY <1>3, <2>1, <2>2, <2>3, AskedAgrees
  <2> QED BY <1>3, <2>4 DEF compileCmp
<1>4. CASE ~(c.op \in {"=", "!="} /\ (NullLiteral(c.left) \/ NullLiteral(c.right))) /\ ~AsksRequest(c)
  <2>1. ~Unauth(c.left, ctx) /\ ~Unauth(c.right, ctx)
    BY <1>4 DEF evaluatePlain
  <2>2. ~Elsewhere(c.left) /\ ~Elsewhere(c.right)
    BY <2>1 DEF Unauth
  <2> DEFINE typed == ctx.item # Null /\ lineUp(c.left, ctx) /\ lineUp(c.right, ctx)
  <2>3. SUFFICES typedCmp(compileOperand(c.left, ctx, refs), c.op, c.right, ctx, refs, typed)
    BY <1>4, <2>2 DEF compileCmp, MatchesRows, ViaSide, Elsewhere, Negated, OneSided
  <2>4. CASE c.op \in Likes /\ c.right.kind = "literal" /\ Pattern(r)
    <3>1. likeMatch(Stored(l), Stored(r)) <=> c.op = "~"
      BY <1>4, <2>4 DEF evaluatePlain
    <3>2. ~LengthOfNothing(c.left, ctx)
      <4> SUFFICES ASSUME LengthOfNothing(c.left, ctx) PROVE FALSE
        OBVIOUS
      <4>1. l = Null /\ Stored(Null) = Null
        BY NothingIsMissing DEF Stored, Compound, Is, Null
      <4>2. c.op = "!~"
        BY <2>4, <3>1, <4>1 DEF likeMatch, Likes
      <4> QED BY <4>2 DEF DecidedDifferently, LengthOfNothing
    <3>3. ~LengthOfNothing(c.right, ctx)
      BY <2>4 DEF LengthOfNothing
    <3>4. compileOperand(c.left, ctx, refs) = l /\ compileOperand(c.right, ctx, refs) = r
      BY <1>1, <1>4, <2>2, <3>2, <3>3, OperandsAgree DEF AsksRequest
    <3>5. likeSql(l, c.op, c.right, ctx, refs)
      BY <2>4, <3>1, <3>4, PatternsAgree
    <3> QED BY <2>4, <3>4, <3>5 DEF typedCmp
  <2>5. CASE ~(c.op \in Likes /\ c.right.kind = "literal" /\ Pattern(r))
    <3>1. compareScalar(l, c.op, r, ctx.item # Null)
      BY <1>4, <2>5 DEF evaluatePlain
    <3>2. ~LengthOfNothing(c.left, ctx) /\ ~LengthOfNothing(c.right, ctx)
      BY <3>1, LengthIsThere
    <3>3. compileOperand(c.left, ctx, refs) = l /\ compileOperand(c.right, ctx, refs) = r
      BY <1>1, <1>4, <2>2, <3>2, OperandsAgree DEF AsksRequest
    <3>4. ctx.item # Null => ~Compound(l) /\ ~Compound(r)
      BY DEF DecidedDifferently
    <3>5. ~(c.op = "!~" /\ c.right.kind = "literal" /\ Pattern(r))
      BY <2>5 DEF Likes
    <3>6. (ctx.item # Null) \in BOOLEAN /\ typed \in BOOLEAN /\ (typed => ctx.item # Null)
      OBVIOUS
    <3> HIDE DEF typed
    <3> QED BY <3>1, <3>3, <3>4, <3>5, <3>6, ScalarsAgree
  <2> QED BY <2>4, <2>5
<1> QED BY <1>2, <1>3, <1>4

-----------------------------------------------------------------------------
(* Lists: some element, and every element. *)

LEMMA Sides ==
  ASSUME NEW c, NEW o \in {c.left, c.right}
  PROVE  OtherSide(c, o) \in {c.left, c.right} /\ {c.left, c.right} = {o, OtherSide(c, o)}
  BY DEF OtherSide

\* What an element or an item is compared with, when it is compared.
LEMMA TargetAgrees ==
  ASSUME NEW c, NEW ctx, NEW refs, NEW o \in {c.left, c.right}, ~DecidedDifferently(c, ctx), ~Elsewhere(o),
         ~AsksRequest(c), NEW v, compareScalar(v, c.op, resolveOperand(o, ctx), TRUE) \/ SameType(v, resolveOperand(o, ctx))
  PROVE  compileOperand(o, ctx, refs) = resolveOperand(o, ctx)
<1>1. ~ReadDifferently(o, ctx) /\ ~Asked(o)
  BY DEF DecidedDifferently, AsksRequest
<1>2. CASE SameType(v, resolveOperand(o, ctx))
  <2>1. ~LengthOfNothing(o, ctx)
    BY <1>2, NothingIsMissing, TypedValue
  <2> QED BY <1>1, <2>1, OperandsAgree
<1>3. CASE compareScalar(v, c.op, resolveOperand(o, ctx), TRUE)
  <2>1. ~LengthOfNothing(o, ctx)
    BY <1>3, LengthIsThere
  <2> QED BY <1>1, <2>1, OperandsAgree
<1> QED BY <1>2, <1>3

\* The element v of a list at o, in both programs.
LEMMA ElementAgrees ==
  ASSUME NEW c, NEW ctx, NEW refs, NEW o \in {c.left, c.right}, NEW v,
         ~DecidedDifferently(c, ctx), ~AsksRequest(c), ~Elsewhere(OtherSide(c, o)),
         ctx.item = Null => SameType(v, resolveOperand(OtherSide(c, o), ctx)),
         ctx.item # Null => ~Compound(v) /\ ~Compound(resolveOperand(OtherSide(c, o), ctx)),
         ~(c.op = "!~" /\ OtherSide(c, o).kind = "literal" /\ Pattern(resolveOperand(OtherSide(c, o), ctx))),
         compareIn(ctx, v, c.op, resolveOperand(OtherSide(c, o), ctx))
  PROVE  elementCmp(v, c.op, OtherSide(c, o), ctx, refs)
<1> DEFINE other == OtherSide(c, o)
           target == resolveOperand(other, ctx)
           typed == ctx.item # Null /\ isBound(other)
<1>1. other \in {c.left, c.right}
  BY Sides
<1>2. SUFFICES typedCmp(v, c.op, other, ctx, refs, typed)
  BY DEF elementCmp
<1>3. CASE ctx.item = Null
  <2>1. compareElement(v, c.op, target) /\ SameType(v, target)
    BY <1>3 DEF compareIn
  <2>2. compileOperand(other, ctx, refs) = target
    BY <1>1, <2>1, TargetAgrees
  <2>3. typedCmp(v, c.op, other, ctx, refs, FALSE)
    BY <2>1, <2>2, ElementsAgree
  <2>4. typed = FALSE
    BY <1>3
  <2> QED BY <2>3, <2>4
<1>4. CASE ctx.item # Null
  <2>1. compareScalar(v, c.op, target, TRUE)
    BY <1>4 DEF compareIn
  <2>2. compileOperand(other, ctx, refs) = target
    BY <1>1, <2>1, TargetAgrees
  <2>3. typed \in BOOLEAN /\ (typed => TRUE)
    OBVIOUS
  <2> HIDE DEF typed
  <2> QED BY <1>4, <2>1, <2>2, <2>3, ScalarsAgree
<1> QED BY <1>3, <1>4

\* The item i of a list at o, whose key is compared.
LEMMA ItemsAgree ==
  ASSUME NEW c, NEW ctx, NEW refs, NEW o \in {c.left, c.right}, NEW i,
         ~DecidedDifferently(c, ctx), ~AsksRequest(c), ~Elsewhere(OtherSide(c, o)),
         ~Compound(walkPath(i, o.path)), ~Compound(resolveOperand(OtherSide(c, o), ctx)),
         ~(c.op = "!~" /\ OtherSide(c, o).kind = "literal" /\ Pattern(resolveOperand(OtherSide(c, o), ctx))),
         compareItem(i, c, o, resolveOperand(OtherSide(c, o), ctx))
  PROVE  itemCmp(i, c, o, ctx, refs)
<1> DEFINE other == OtherSide(c, o)
           target == resolveOperand(other, ctx)
           typed == lineUp(other, ctx)
           v == walkPath(i, o.path)
<1>1. other \in {c.left, c.right}
  BY Sides
<1>2. Is("obj", i) /\ compareScalar(v, c.op, target, TRUE)
  BY DEF compareItem
<1>3. compileOperand(other, ctx, refs) = target
  BY <1>1, <1>2, TargetAgrees
<1>4. typed \in BOOLEAN /\ (typed => TRUE)
  BY DEF lineUp
<1>5. typedCmp(v, c.op, other, ctx, refs, typed)
  <2> HIDE DEF typed, v
  <2> QED BY <1>2, <1>3, <1>4, ScalarsAgree DEF v
<1> QED BY <1>2, <1>5 DEF itemCmp

LEMMA NoElements == Elements(Null) = {}
  BY DEF Elements, Is, Null

LEMMA ArrayAgrees ==
  ASSUME NEW c, NEW ctx, NEW refs, c.any, evaluateArrayCmp(c, ctx), ~DecidedDifferently(c, ctx), ~Refused(c)
  PROVE  compileCmp(c, ctx, refs)
<1> DEFINE o == ListSide(c)
           other == OtherSide(c, o)
           target == resolveOperand(other, ctx)
<1>1. o \in {c.left, c.right} /\ {c.left, c.right} = {o, other}
  BY Sides DEF ListSide
<1>2. ~Elsewhere(other)
  BY DEF evaluateArrayCmp, Unauth
<1>3. ~Elsewhere(o)
  BY NoElements DEF evaluateArrayCmp, Elsewhere, resolveOperand, itemPath
<1>4. ~ListDifferently(c, o, ctx) /\ ~ReadDifferently(o, ctx) /\ o.kind = "field"
  <2>1. o.kind = "field"
    BY <1>1, <1>2, <1>3 DEF Refused, ListSide, Elsewhere
  <2> QED BY <1>1, <2>1 DEF DecidedDifferently
<1>5. ~(c.op = "!~" /\ other.kind = "literal" /\ Pattern(target))
  BY <1>4 DEF ListDifferently
<1> ~AsksRequest(c)
  BY DEF Refused
<1>6. SUFFICES compileArrayCmp(c, ctx, refs)
  <2>1. ~MatchesRows(c)
    BY <1>1, <1>2, <1>3 DEF MatchesRows, ViaSide, Elsewhere
  <2> QED BY <2>1 DEF compileCmp
<1>7. CASE itemPath(o) /\ \E i \in Items(o, ctx) : compareItem(i, c, o, target)
  <2>1. PICK i \in Items(o, ctx) : compareItem(i, c, o, target)
    BY <1>7
  <2>2. Is("obj", i)
    BY <2>1 DEF compareItem
  <2>3. ~Compound(walkPath(i, o.path)) /\ ~Compound(target)
    BY <1>4, <1>7, <2>2 DEF ListDifferently
  <2>4. itemCmp(i, c, o, ctx, refs)
    BY <1>1, <1>2, <1>5, <2>1, <2>3, ItemsAgree
  <2> QED BY <1>4, <1>7, <2>4 DEF compileArrayCmp
<1>8. CASE \E v \in Elements(resolveOperand(o, ctx)) : compareIn(ctx, v, c.op, target)
  <2>1. PICK v \in Elements(resolveOperand(o, ctx)) : compareIn(ctx, v, c.op, target)
    BY <1>8
  <2>2. compileOperand(o, ctx, refs) = resolveOperand(o, ctx)
    <3>1. ~LengthOfNothing(o, ctx)
      BY <2>1, NoElements, NothingIsMissing
    <3> QED BY <1>1, <1>3, <1>4, <3>1, OperandsAgree DEF AsksRequest
  <2>3. /\ ctx.item = Null => SameType(v, target)
        /\ ctx.item # Null => ~Compound(v) /\ ~Compound(target)
    BY <1>4, <2>1 DEF ListDifferently
  <2>4. elementCmp(v, c.op, other, ctx, refs)
    BY <1>1, <1>2, <1>5, <2>1, <2>3, ElementAgrees
  <2> QED BY <1>4, <2>1, <2>2, <2>4 DEF compileArrayCmp
<1> QED BY <1>7, <1>8 DEF evaluateArrayCmp

LEMMA HoldsNotRefuted ==
  ASSUME NEW v, NEW op, NEW o, NEW ctx, NEW refs, elementCmp(v, op, o, ctx, refs)
  PROVE  ~Refutes(v, op, o, ctx, refs)
<1>1. CASE op \in Likes \/ ctx.item # Null
  BY <1>1 DEF Refutes
<1>2. CASE op \notin Likes /\ ctx.item = Null
  <2>1. Compare(SqlValue(v), op, SqlValue(compileOperand(o, ctx, refs)))
    BY <1>2 DEF elementCmp, typedCmp, sqlCmp
  <2> QED BY <1>2, <2>1 DEF Refutes
<1> QED BY <1>1, <1>2

LEMMA EachAgrees ==
  ASSUME NEW c, NEW ctx, NEW refs, ~c.any, Each(c.left) \/ Each(c.right),
         evaluateEach(c, ctx), ~DecidedDifferently(c, ctx)
  PROVE  compileCmp(c, ctx, refs)
<1> DEFINE o == EachSide(c)
           other == OtherSide(c, o)
           target == resolveOperand(other, ctx)
           values == Elements(readField(o, ctx))
<1>1. o \in {c.left, c.right} /\ {c.left, c.right} = {o, other}
  BY Sides DEF EachSide
<1>2. o.kind = "field" /\ ~Elsewhere(o) /\ ~Elsewhere(other)
  BY DEF evaluateEach, Unauth, Elsewhere
<1> ~AsksRequest(c)
  BY DEF DecidedDifferently, AskedDifferently
<1>3. ~ListDifferently(c, o, ctx)
  BY <1>2 DEF DecidedDifferently
<1>4. ~(c.op = "!~" /\ other.kind = "literal" /\ Pattern(target))
  BY <1>3 DEF ListDifferently
<1>5. ASSUME NEW v \in values
      PROVE  /\ ctx.item = Null => SameType(v, target)
             /\ ctx.item # Null => ~Compound(v) /\ ~Compound(target)
  BY <1>3, <1>5 DEF ListDifferently
<1>6. compileEach(c, ctx, refs)
  <2>1. CASE itemPath(o) /\ Items(o, ctx) # {} /\ \A i \in Items(o, ctx) : compareItem(i, c, o, target)
    <3>1. ASSUME NEW i \in Items(o, ctx) PROVE itemCmp(i, c, o, ctx, refs)
      <4>1. compareItem(i, c, o, target) /\ Is("obj", i)
        BY <2>1, <3>1 DEF compareItem
      <4>2. ~Compound(walkPath(i, o.path)) /\ ~Compound(target)
        BY <1>3, <2>1, <3>1, <4>1 DEF ListDifferently
      <4> QED BY <1>1, <1>2, <1>4, <4>1, <4>2, ItemsAgree
    <3> QED BY <2>1, <3>1 DEF compileEach
  <2>2. CASE values # {} /\ \A v \in values : compareIn(ctx, v, c.op, target)
    <3>1. ASSUME NEW v \in values PROVE ~Refutes(v, c.op, other, ctx, refs)
      <4>1. elementCmp(v, c.op, other, ctx, refs)
        BY <1>1, <1>2, <1>4, <1>5, <2>2, <3>1, ElementAgrees
      <4> QED BY <4>1, HoldsNotRefuted
    <3> QED BY <1>2, <2>2, <3>1 DEF compileEach
  <2> QED BY <2>1, <2>2 DEF evaluateEach
<1>7. ~(c.op \in {"=", "!="} /\ (NullLiteral(c.left) \/ NullLiteral(c.right)))
  <2> SUFFICES ASSUME c.op \in {"=", "!="}, NullLiteral(c.left) \/ NullLiteral(c.right) PROVE FALSE
    OBVIOUS
  <2>1. target = Null
    BY <1>1, <1>2 DEF NullLiteral, resolveOperand
  <2>2. ASSUME NEW v PROVE ~compareScalar(v, c.op, target, TRUE)
    BY <2>1, MissingComparesFalse
  <2>3. ASSUME NEW v PROVE ~SameType(v, target)
    BY <2>1, TypedValue
  <2>4. values = {} \/ ~\A v \in values : compareIn(ctx, v, c.op, target)
    BY <1>5, <2>2, <2>3 DEF compareIn
  <2>5. Items(o, ctx) = {} \/ ~\A i \in Items(o, ctx) : compareItem(i, c, o, target)
    BY <2>2 DEF compareItem
  <2> QED BY <2>4, <2>5 DEF evaluateEach
<1>8. ~MatchesRows(c)
  BY <1>1, <1>2 DEF MatchesRows, ViaSide, Elsewhere
<1> QED BY <1>6, <1>7, <1>8 DEF compileCmp

-----------------------------------------------------------------------------
(* Whole expressions. *)

\* A comparison that rules.ts finds true of one record holds in SQL, of
\* whichever rows of another collection.
LEMMA CmpAgrees ==
  ASSUME NEW c, NEW ctx, NEW refs, evaluateCmp(c, ctx), ~DecidedDifferently(c, ctx), ~Refused(c)
  PROVE  compileCmp(c, ctx, refs)
<1>1. CASE c.any
  BY <1>1, ArrayAgrees DEF evaluateCmp
<1>2. CASE ~c.any /\ (Each(c.left) \/ Each(c.right))
  BY <1>2, EachAgrees DEF evaluateCmp
<1>3. CASE ~c.any /\ ~Each(c.left) /\ ~Each(c.right)
  BY <1>3, PlainAgrees DEF evaluateCmp
<1> QED BY <1>1, <1>2, <1>3

LEMMA AnyAgrees ==
  ASSUME NEW c, NEW ctx, NEW refs, evaluateAny(c, ctx), ~AnyDifferently(c, ctx),
         \A d \in UNION c.where : ~Refused(d)
  PROVE  compileAny(c, ctx, refs)
<1>1. PICK i \in Elements(resolveOperand(c.target, ctx)) :
        /\ Is("obj", i)
        /\ \E alternative \in c.where : \A d \in alternative : evaluateCmp(d, InItem(ctx, i))
  BY DEF evaluateAny
<1>2. PICK alternative \in c.where : \A d \in alternative : evaluateCmp(d, InItem(ctx, i))
  BY <1>1
<1>3. ASSUME NEW d \in alternative PROVE compileCmp(d, InItem(ctx, i), refs)
  <2>1. d \in UNION c.where
    BY <1>2, <1>3
  <2>2. ~DecidedDifferently(d, InItem(ctx, i))
    BY <1>1, <2>1 DEF AnyDifferently
  <2> QED BY <1>2, <1>3, <2>1, <2>2, CmpAgrees
<1>4. compileOperand(c.target, ctx, refs) = resolveOperand(c.target, ctx)
  <2>1. resolveOperand(c.target, ctx) # Null
    BY <1>1, NoElements
  <2>2. ~Elsewhere(c.target) /\ ~LengthOfNothing(c.target, ctx)
    BY <2>1, NothingIsMissing DEF Elsewhere, resolveOperand
  <2>4. ~Asked(c.target)
    BY <1>1, NoElements DEF Asked, resolveOperand, requestAnswer, Elements, Is, Truth
  <2>3. ~ReadDifferently(c.target, ctx)
    BY DEF AnyDifferently
  <2> QED BY <2>2, <2>3, <2>4, OperandsAgree
<1> QED BY <1>1, <1>2, <1>3, <1>4 DEF compileAny

\* The comparisons of an expression are those of its conditions.
LEMMA ComparisonsOf ==
  ASSUME NEW e, NEW c \in UNION e
  PROVE  /\ c.kind # "any" => c \in Comparisons(e)
         /\ c.kind = "any" => \A d \in UNION c.where : d \in Comparisons(e)
<1>1. CASE c.kind # "any"
  BY <1>1 DEF Comparisons
<1>2. CASE c.kind = "any"
  <2>1. UNION c.where \in {UNION x.where : x \in {y \in UNION e : y.kind = "any"}}
    BY <1>2
  <2> QED BY <1>2, <2>1 DEF Comparisons
<1> QED BY <1>1, <1>2

LEMMA NodesAgree ==
  ASSUME NEW e, NEW ctx, NEW refs, evaluateExpr(e, ctx), \A c \in Comparisons(e) : ~Refused(c),
         \A c \in UNION e : IF c.kind = "any" THEN ~AnyDifferently(c, ctx) ELSE ~DecidedDifferently(c, ctx)
  PROVE  compileNode(e, ctx, refs)
<1>1. PICK alternative \in e : \A c \in alternative : evaluateCondition(c, ctx)
  BY DEF evaluateExpr
<1>2. ASSUME NEW c \in alternative
      PROVE  IF c.kind = "any" THEN compileAny(c, ctx, refs) ELSE compileCmp(c, ctx, refs)
  <2>1. evaluateCondition(c, ctx) /\ c \in UNION e
    BY <1>1, <1>2
  <2>2. CASE c.kind = "any"
    BY <2>1, <2>2, AnyAgrees, ComparisonsOf DEF evaluateCondition
  <2>3. CASE c.kind # "any"
    BY <2>1, <2>3, CmpAgrees, ComparisonsOf DEF evaluateCondition
  <2> QED BY <2>2, <2>3
<1> QED BY <1>1, <1>2 DEF compileNode

LEMMA ScopedAgrees ==
  ASSUME NEW e, NEW ctx, NEW view, NEW seen, evaluateExpr(e, ctx), \A c \in Comparisons(e) : ~Refused(c),
         \A c \in UNION e : IF c.kind = "any" THEN ~AnyDifferently(c, ctx) ELSE ~DecidedDifferently(c, ctx)
  PROVE  compileScoped(e, ctx, view, seen)
<1> DEFINE targets == IF seen = {} THEN {NoRow} ELSE seen
           joined == [alias \in Aliases(e) |-> CHOOSE x \in targets : TRUE]
<1>1. joined \in [Aliases(e) -> targets]
  OBVIOUS
<1>2. compileNode(e, ctx, [joined |-> joined, seen |-> seen, view |-> view])
  BY NodesAgree
<1> QED BY <1>1, <1>2 DEF compileScoped

\* Whoever a rule admits to a record by its id, the rule's WHERE clause
\* admits to it (rules.ts against filter.ts).
LEMMA ByIdIsListed ==
  ASSUME NEW a, NEW record, SameInBoth(a, record), GetShows(a, record), a.filter = NoFilter
  PROVE  ListShows(a, record)
<1> DEFINE ctx == Context(a, record, NoBody, record)
<1>1. ctx.auth = a.auth
  BY DEF Context
<1>2. RuleShows(a, record, a.others.rows)
  <2>1. CASE a.rule = Public \/ IsAdmin(a.auth)
    BY <2>1 DEF RuleShows
  <2>2. CASE a.rule # Public /\ ~IsAdmin(a.auth)
    <3>1. a.rule \notin {Public, AdminOnly} /\ evaluateExpr(a.rule, ctx)
      BY <1>1, <2>2 DEF GetShows, evaluateRule
    <3>2. /\ \A c \in Comparisons(a.rule) : ~Refused(c)
          /\ \A c \in UNION a.rule :
                IF c.kind = "any" THEN ~AnyDifferently(c, ctx) ELSE ~DecidedDifferently(c, ctx)
      BY <3>1 DEF SameInBoth
    <3>3. Shows(a.rule, a, record, a.others.rows, FALSE)
      <4> HIDE DEF ctx
      <4>1. compileScoped(a.rule, ctx, a.others.view, joinedCollectionGuard(a, a.others.rows, FALSE))
        BY <3>1, <3>2, ScopedAgrees
      <4> QED BY <4>1 DEF Shows, ctx
    <3> QED BY <3>1, <3>3 DEF RuleShows
  <2> QED BY <2>1, <2>2
<1> QED BY <1>2 DEF ListShows, FilterShows

-----------------------------------------------------------------------------
(* A rule that doesn't read the body says the same with and without one.   *)

\* Two contexts that differ in the request's body only.
SameReading(x, y) == x.auth = y.auth /\ x.query = y.query /\ x.record = y.record /\ x.item = y.item

\* The operand doesn't read the body.
NoBodyIn(o) == ~(o.kind = "requestMap" /\ o.map = "body")

LEMMA ReadsAgree ==
  ASSUME NEW o, NEW x, NEW y, SameReading(x, y), NoBodyIn(o)
  PROVE  /\ resolveOperand(o, x) = resolveOperand(o, y)
         /\ Unauth(o, x) <=> Unauth(o, y)
<1>1. fieldValue(x, o.name) = fieldValue(y, o.name)
  BY DEF SameReading, fieldValue
<1>2. readField(o, x) = readField(o, y)
  BY <1>1 DEF readField
<1>3. CASE o.kind = "requestMap"
  <2>1. RequestMap(o, x) = RequestMap(o, y) /\ (Asked(o) => requestAnswer(o, x) = requestAnswer(o, y))
    BY <1>3 DEF NoBodyIn, SameReading, RequestMap, Asked, requestAnswer
  <2> QED BY <1>3, <2>1 DEF resolveOperand, Unauth, Elsewhere
<1>4. CASE o.kind # "requestMap"
  BY <1>2, <1>4 DEF resolveOperand, Unauth, SameReading
<1> QED BY <1>3, <1>4

LEMMA ComparesAgree ==
  ASSUME NEW c, NEW x, NEW y, SameReading(x, y), NoBodyIn(c.left), NoBodyIn(c.right)
  PROVE  evaluateCmp(c, x) <=> evaluateCmp(c, y)
<1>1. \A o \in {c.left, c.right} :
        /\ resolveOperand(o, x) = resolveOperand(o, y)
        /\ Unauth(o, x) <=> Unauth(o, y)
  BY ReadsAgree
<1>2. \A o : readField(o, x) = readField(o, y) /\ Items(o, x) = Items(o, y)
  BY DEF SameReading, readField, fieldValue, Items
<1>3. x.item = y.item /\ \A v, op, t : compareIn(x, v, op, t) <=> compareIn(y, v, op, t)
  BY DEF SameReading, compareIn
<1>4. ListSide(c) \in {c.left, c.right} /\ EachSide(c) \in {c.left, c.right}
  BY DEF ListSide, EachSide
<1>5. OtherSide(c, ListSide(c)) \in {c.left, c.right} /\ OtherSide(c, EachSide(c)) \in {c.left, c.right}
  BY DEF OtherSide
<1>6. evaluateArrayCmp(c, x) <=> evaluateArrayCmp(c, y)
  BY <1>1, <1>2, <1>3, <1>4, <1>5 DEF evaluateArrayCmp
<1>7. evaluateEach(c, x) <=> evaluateEach(c, y)
  BY <1>1, <1>2, <1>3, <1>4, <1>5 DEF evaluateEach
<1>8. evaluatePlain(c, x) <=> evaluatePlain(c, y)
  BY <1>1, <1>3 DEF evaluatePlain
<1> QED BY <1>6, <1>7, <1>8 DEF evaluateCmp

\* What an expression has of operands, it has of its conditions.
LEMMA OperandsOfExpression ==
  ASSUME NEW e, ~ReadsBody(e), NEW c \in UNION e
  PROVE  /\ c.kind # "any" => NoBodyIn(c.left) /\ NoBodyIn(c.right)
         /\ c.kind = "any" => /\ NoBodyIn(c.target)
                              /\ \A d \in UNION c.where : NoBodyIn(d.left) /\ NoBodyIn(d.right)
<1>1. \A o \in Operands(e) : NoBodyIn(o)
  BY DEF ReadsBody, NoBodyIn
<1>2. ASSUME NEW d \in Comparisons(e) PROVE NoBodyIn(d.left) /\ NoBodyIn(d.right)
  <2>1. {d.left, d.right} \in {{x.left, x.right} : x \in Comparisons(e)}
    BY <1>2
  <2>2. {d.left, d.right} \subseteq Operands(e)
    BY <2>1 DEF Operands
  <2> QED BY <1>1, <2>2
<1>3. CASE c.kind # "any"
  BY <1>2, <1>3, ComparisonsOf
<1>4. CASE c.kind = "any"
  <2>1. NoBodyIn(c.target)
    BY <1>1, <1>4 DEF Operands
  <2> QED BY <1>2, <1>4, <2>1, ComparisonsOf
<1> QED BY <1>3, <1>4

LEMMA ItemReading ==
  ASSUME NEW a, NEW record, NEW b1, NEW b2, NEW before, NEW i
  PROVE  SameReading(InItem(Context(a, record, b1, before), i), InItem(Context(a, record, b2, record), i))
  BY DEF SameReading, InItem, Context

LEMMA BodyDoesntDecide ==
  ASSUME NEW a, NEW record, NEW body, NEW before, NEW e, ~ReadsBody(e)
  PROVE  evaluateExpr(e, Context(a, record, body, before)) <=> evaluateExpr(e, Context(a, record, NoBody, record))
<1> DEFINE x == Context(a, record, body, before)
           y == Context(a, record, NoBody, record)
<1>1. SameReading(x, y)
  BY DEF SameReading, Context
<1>2. ASSUME NEW c \in UNION e PROVE evaluateCondition(c, x) <=> evaluateCondition(c, y)
  <2>1. CASE c.kind # "any"
    <3>1. NoBodyIn(c.left) /\ NoBodyIn(c.right)
      BY <1>2, <2>1, OperandsOfExpression
    <3> HIDE DEF x, y
    <3>2. evaluateCmp(c, x) <=> evaluateCmp(c, y)
      BY <1>1, <3>1, ComparesAgree
    <3> QED BY <2>1, <3>2 DEF evaluateCondition
  <2>2. CASE c.kind = "any"
    <3>1. NoBodyIn(c.target) /\ \A d \in UNION c.where : NoBodyIn(d.left) /\ NoBodyIn(d.right)
      BY <1>2, <2>2, OperandsOfExpression
    <3>2. resolveOperand(c.target, x) = resolveOperand(c.target, y)
      <4> HIDE DEF x, y
      <4> QED BY <1>1, <3>1, ReadsAgree
    <3>3. ASSUME NEW d \in UNION c.where, NEW i PROVE evaluateCmp(d, InItem(x, i)) <=> evaluateCmp(d, InItem(y, i))
      <4>1. SameReading(InItem(x, i), InItem(y, i))
        BY ItemReading
      <4> HIDE DEF x, y
      <4> QED BY <3>1, <3>3, <4>1, ComparesAgree
    <3> HIDE DEF x, y
    <3>4. evaluateAny(c, x) <=> evaluateAny(c, y)
      BY <3>2, <3>3 DEF evaluateAny
    <3> QED BY <2>2, <3>4 DEF evaluateCondition
  <2> QED BY <2>1, <2>2
<1> HIDE DEF x, y
<1> QED BY <1>2 DEF evaluateExpr, x, y

-----------------------------------------------------------------------------
(* The rows of another collection that the caller may see. *)

LEMMA SeenOnce ==
  ASSUME NEW a, NEW rows, NEW client
  PROVE  joinedCollectionGuard(a, joinedCollectionGuard(a, rows, client), client) = joinedCollectionGuard(a, rows, client)
  BY DEF joinedCollectionGuard

LEMMA PublicHidesNothing ==
  ASSUME NEW a, NEW rows, a.others.view = Public
  PROVE  joinedCollectionGuard(a, rows, FALSE) = rows
  BY DEF joinedCollectionGuard

\* What a list shows, it shows of the rows that the caller may see.
LEMMA HiddenDontDecide ==
  ASSUME NEW a, NEW record
  PROVE  ListShows(a, record) <=>
            /\ RuleShows(a, record, joinedCollectionGuard(a, a.others.rows, FALSE))
            /\ FilterShows(a, record, joinedCollectionGuard(a, a.others.rows, ~IsAdmin(a.auth)))
<1> DEFINE rows == a.others.rows
           client == ~IsAdmin(a.auth)
<1>1. RuleShows(a, record, rows) <=> RuleShows(a, record, joinedCollectionGuard(a, rows, FALSE))
  BY SeenOnce DEF RuleShows, Shows
<1>2. FilterShows(a, record, rows) <=> FilterShows(a, record, joinedCollectionGuard(a, rows, client))
  BY SeenOnce DEF FilterShows, Shows
<1> QED BY <1>1, <1>2 DEF ListShows

\* Which row a negated reference means doesn't depend on what others are seen.
LEMMA MatchedAlone ==
  ASSUME NEW c, NEW x, NEW ctx, NEW r1, NEW r2, ~Elsewhere(OtherSide(c, CollectionSide(c)))
  PROVE  MatchesRow(c, x, ctx, r1) <=> MatchesRow(c, x, ctx, r2)
<1> DEFINE other == OtherSide(c, CollectionSide(c))
<1>1. compileOperand(other, ctx, r1) = compileOperand(other, ctx, r2)
  BY DEF compileOperand, Elsewhere
<1>2. \A v, op, typed : typedCmp(v, op, other, ctx, r1, typed) <=> typedCmp(v, op, other, ctx, r2, typed)
  BY <1>1 DEF typedCmp, sqlCmp, likeSql, sqlLike
<1> QED BY <1>1, <1>2 DEF MatchesRow

\* A negated reference that holds for a caller who isn't an admin: no row of
\* the other collection matches, and none is hidden.
LEMMA DeniedOfAll ==
  ASSUME NEW c, NEW a, NEW record, NEW refs, ~IsAdmin(a.auth), Negated(c),
         ~Elsewhere(OtherSide(c, CollectionSide(c))),
         refs.view = a.others.view, refs.seen = joinedCollectionGuard(a, a.others.rows, FALSE),
         compileCmp(c, Context(a, record, NoBody, record), refs),
         NEW r2, NEW x \in a.others.rows
  PROVE  ~MatchesRow(c, x, Context(a, record, NoBody, record), r2)
<1> DEFINE ctx == Context(a, record, NoBody, record)
<1>1. ctx.auth = a.auth
  BY DEF Context
<1> HIDE DEF ctx
<1>2. ~MatchesRows(c) /\ ~AsksRequest(c)
  BY DEF Negated
<1>3. compileCollectionRef(c, ctx, refs)
  BY <1>2 DEF Negated, compileCmp, ctx
<1>4. a.others.view = Public
  BY <1>1, <1>3 DEF compileCollectionRef
<1>5. x \in refs.seen
  BY <1>4, PublicHidesNothing
<1>6. ~MatchesRow(c, x, ctx, refs)
  BY <1>3, <1>5 DEF compileCollectionRef
<1> QED BY <1>6, MatchedAlone DEF ctx

-----------------------------------------------------------------------------
(* Requests. *)

\* An answer is what the rule says of the record as it is now; and the record
\* is as its changes left it, which the rule, unless it reads the body, admits.
AnswersRight ==
    /\ got # "unasked" => (got = "shown" <=> GetShows(ask, row))
    /\ listed \in {"unasked", "shown", "hidden"}
    /\ listed # "unasked" => (listed = "shown" <=> ListShows(ask, row))
    /\ patched /\ (ask.rule \in {Public, AdminOnly} \/ ~ReadsBody(ask.rule)) => GetShows(ask, row)

\* A change that is let through leaves a record that the rule admits.
LEMMA PatchedIsAdmitted ==
  ASSUME NEW a, NEW record, checkUpdateRule(a, record), a.rule \in {Public, AdminOnly} \/ ~ReadsBody(a.rule)
  PROVE  GetShows(a, Merged(record, a.body))
<1> DEFINE after == Merged(record, a.body)
           x == Context(a, after, a.body, record)
           y == Context(a, after, NoBody, after)
<1>1. evaluateRule(a.rule, x)
  BY DEF checkUpdateRule
<1>2. x.auth = a.auth /\ y.auth = a.auth
  BY DEF Context
<1>3. ASSUME a.rule \notin {Public, AdminOnly}, evaluateExpr(a.rule, x) PROVE evaluateExpr(a.rule, y)
  BY <1>3, BodyDoesntDecide
<1> HIDE DEF x, y
<1>4. evaluateRule(a.rule, y)
  BY <1>1, <1>2, <1>3 DEF evaluateRule
<1> QED BY <1>4 DEF GetShows, y

\* What a list or a read by id has answered, the rule still says of the record:
\* an answer doesn't outlive the record it was about.
THEOREM RulesAnswers == RulesSpec => []AnswersRight
<1>1. InitRules => AnswersRight
  BY DEF InitRules, AnswersRight
<1>2. AnswersRight /\ [RulesStep]_ruleVars => AnswersRight'
  <2> SUFFICES ASSUME AnswersRight, [RulesStep]_ruleVars PROVE AnswersRight'
    OBVIOUS
  <2>1. CASE ListRecords
    BY <2>1 DEF AnswersRight, ListRecords
  <2>2. CASE GetRecord
    BY <2>2 DEF AnswersRight, GetRecord
  <2>3. CASE PatchRecord
    <3>1. ask' = ask /\ row' = Merged(row, ask.body) /\ listed' = "unasked" /\ got' = "unasked"
      BY <2>3 DEF PatchRecord
    <3>2. checkUpdateRule(ask, row)
      BY <2>3 DEF PatchRecord
    <3>3. ask.rule \in {Public, AdminOnly} \/ ~ReadsBody(ask.rule) => GetShows(ask, Merged(row, ask.body))
      BY <3>2, PatchedIsAdmitted
    <3> QED BY <3>1, <3>3 DEF AnswersRight
  <2>4. CASE UNCHANGED ruleVars
    BY <2>4 DEF AnswersRight, ruleVars
  <2> QED BY <2>1, <2>2, <2>3, <2>4 DEF RulesStep
<1> QED BY <1>1, <1>2, PTL DEF RulesSpec

\* A record that one may read by its id is in the list under the same rule,
\* where both programs decide the conditions of the rule the same way.
THEOREM RulesByIdOnlyListed == RulesSpec => []ByIdOnlyWhatIsListed
<1>1. AnswersRight => ByIdOnlyWhatIsListed
  BY ByIdIsListed DEF AnswersRight, ByIdOnlyWhatIsListed
<1> QED BY <1>1, RulesAnswers, PTL

\* Under a rule that doesn't read the body, nobody changes a record out of
\* their own sight.
THEOREM RulesPatchKeepsVisible == RulesSpec => []PatchKeepsItVisible
<1>1. AnswersRight => PatchKeepsItVisible
  <2> SUFFICES ASSUME AnswersRight, patched, SameInBoth(ask, row), ask.filter = NoFilter,
                      ask.rule \in {Public, AdminOnly} \/ ~ReadsBody(ask.rule)
               PROVE  got # "hidden" /\ listed # "hidden"
    BY DEF PatchKeepsItVisible
  <2>1. GetShows(ask, row)
    BY DEF AnswersRight
  <2>2. ListShows(ask, row)
    BY <2>1, ByIdIsListed
  <2> QED BY <2>1, <2>2 DEF AnswersRight
<1> QED BY <1>1, RulesAnswers, PTL

\* Hidden rows of another collection neither add to nor take from a list, and
\* what is shown because no row says otherwise, no hidden row says.
THEOREM RulesHiddenRows == RulesSpec => []HiddenRowsDontDecide
<1>1. AnswersRight => HiddenRowsDontDecide
  <2> SUFFICES ASSUME AnswersRight PROVE HiddenRowsDontDecide
    OBVIOUS
  <2>1. ListShows(ask, row) <=> RuleShows(ask, row, SeenByRule) /\ FilterShows(ask, row, SeenByFilter)
    BY HiddenDontDecide DEF SeenByRule, SeenByFilter
  <2>2. ASSUME listed = "shown", ~IsAdmin(ask.auth), ask.rule \notin {Public, AdminOnly}
        PROVE  \E alternative \in ask.rule :
                 \A c \in alternative :
                   c.kind # "any" /\ Negated(c) /\ ~Elsewhere(OtherSide(c, CollectionSide(c))) => NoSuchRow(c)
    <3> DEFINE ctx == Context(ask, row, NoBody, row)
               seen == joinedCollectionGuard(ask, ask.others.rows, FALSE)
    <3>1. Shows(ask.rule, ask, row, ask.others.rows, FALSE)
      BY <2>2 DEF AnswersRight, ListShows, RuleShows
    <3>2. \E refs : /\ refs.view = ask.others.view /\ refs.seen = seen
                    /\ compileNode(ask.rule, ctx, refs)
      BY <3>1 DEF Shows, compileScoped
    <3>3. PICK refs : /\ refs.view = ask.others.view /\ refs.seen = seen
                      /\ compileNode(ask.rule, ctx, refs)
      BY <3>2
    <3>4. PICK alternative \in ask.rule :
            \A c \in alternative : IF c.kind = "any" THEN compileAny(c, ctx, refs) ELSE compileCmp(c, ctx, refs)
      BY <3>3 DEF compileNode
    <3>5. ASSUME NEW c \in alternative, c.kind # "any", Negated(c), ~Elsewhere(OtherSide(c, CollectionSide(c)))
          PROVE  NoSuchRow(c)
      BY <2>2, <3>3, <3>4, <3>5, DeniedOfAll DEF NoSuchRow
    <3> QED BY <3>4, <3>5
  <2> QED BY <2>1, <2>2 DEF AnswersRight, HiddenRowsDontDecide
<1> QED BY <1>1, RulesAnswers, PTL

\* The rules' part of Collections is RulesSpec: what the schema does leaves a
\* request alone.
THEOREM CollectionsImplementRules == SpecCollections => RulesSpec
<1>1. InitCollections => InitRules
  BY DEF InitCollections
<1>2. [NextCollections]_collectionsVars => [RulesStep]_ruleVars
  BY DEF NextCollections, Request, Change, collectionsVars, ruleVars
<1> QED BY <1>1, <1>2, PTL DEF SpecCollections, RulesSpec

\* And the schema's part is SchemaSpec: a request leaves it alone.
THEOREM CollectionsImplementSchema == SpecCollections => SchemaSpec
<1>1. InitCollections => InitSchema
  BY DEF InitCollections
<1>2. [NextCollections]_collectionsVars => [SchemaStep]_schemaVars
  BY DEF NextCollections, Request, Change, collectionsVars, schemaVars
<1> QED BY <1>1, <1>2, PTL DEF SpecCollections, SchemaSpec

\* What holds of the rules and of the stored counts alone holds of both.
THEOREM CollectionsSafe ==
  SpecCollections => [](ByIdOnlyWhatIsListed /\ PatchKeepsItVisible /\ HiddenRowsDontDecide /\ RowCountsRight)
BY RulesByIdOnlyListed, RulesPatchKeepsVisible, RulesHiddenRows, StoredRowCounts,
   CollectionsImplementRules, CollectionsImplementSchema, PTL

=============================================================================
