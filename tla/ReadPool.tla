------------------------------- MODULE ReadPool -------------------------------
(***************************************************************************)
(* The read workers (src/src/core/read-pool.ts): record reads go to worker *)
(* threads that each hold a connection to the database file of their own.  *)
(* A worker that errs, or is slow to answer, is dropped and replaced after *)
(* a while; a restore of the database suspends the pool and starts it      *)
(* again (module Restore).                                                 *)
(*                                                                         *)
(* Time is a choice: a timer that runs may fire.  So is whether a worker   *)
(* whose answer did not come in time had answered anything else meanwhile, *)
(* which is what progressAt tells.  Left out: statistics, listening on the *)
(* public port, and how long the backoff is.                               *)
(***************************************************************************)
EXTENDS Naturals, FiniteSets

CONSTANTS Workers,   \* threads, numbered; one that is gone may be spawned again
          Size,      \* how many the pool is meant to keep running
          Requests   \* record reads

ASSUME PoolAssumption == /\ IsFiniteSet(Workers)
                         /\ Workers \subseteq Nat \ {0}
                         /\ Size \in Nat \ {0}
                         /\ 1 .. Size \subseteq Workers

\* A request that is not with a worker.
Nobody == 0

VARIABLES spec,         \* whether the pool has a PoolSpec
          slots,        \* the workers in service
          thread,       \* each worker: "off", "booting", "open" (its database
                        \* is), "up", "dead"
          launching,    \* those startReadPool waits for
          respawning,   \* those respawnOne waits for: `starting` counts them
          stale,        \* those of them started for a PoolSpec that is gone
          respawnTimer, \* whether it runs
          asked,        \* pending: the worker each read waits for
          old           \* workers whose connection is to a file since replaced

pool == <<spec, slots, thread, launching, respawning, stale, respawnTimer, asked, old>>

InitPool == /\ spec = TRUE
            /\ slots = {w \in Workers : w <= Size}
            /\ thread = [w \in Workers |-> IF w <= Size THEN "up" ELSE "off"]
            /\ launching = {}
            /\ respawning = {}
            /\ stale = {}
            /\ respawnTimer = FALSE
            /\ asked = [r \in Requests |-> Nobody]
            /\ old = {}

-----------------------------------------------------------------------------

Off == {w \in Workers : thread[w] = "off"}

inflight(w) == Cardinality({r \in Requests : asked[r] = w})

\* Mutant: the pool is looked at before a start that ended is uncounted.
ShortBefore == Cardinality(slots') + Cardinality(respawning) < Size

\* The pool, as it will be, is short of a worker.
Short == Cardinality(slots') + Cardinality(respawning') < Size

armRespawn == respawnTimer' = (respawnTimer \/ (spec /\ Short))

\* Threads that end, and the reads they owe an answer fail.
Ends(S) == /\ thread' = [w \in Workers |-> IF w \in S THEN "off" ELSE thread[w]]
           /\ old' = old \ S
           /\ asked' = [r \in Requests |-> IF asked[r] \in S THEN Nobody ELSE asked[r]]

dropWorker(w) == /\ slots' = slots \ {w}
                 /\ Ends({w})
                 /\ UNCHANGED <<spec, launching, respawning, stale>>
                 /\ armRespawn

-----------------------------------------------------------------------------
(* Reads. *)

\* serveForwardedRead: with no worker the main thread serves the read.
forwardRead(r) ==
    /\ asked[r] = Nobody
    /\ \E w \in slots : /\ \A v \in slots : inflight(w) <= inflight(v)
                        /\ asked' = [asked EXCEPT ![r] = w]
    /\ UNCHANGED <<spec, slots, thread, launching, respawning, stale, respawnTimer, old>>

onReply(r) ==
    /\ asked[r] \in Workers
    /\ thread[asked[r]] = "up"
    /\ asked' = [asked EXCEPT ![r] = Nobody]
    /\ UNCHANGED <<spec, slots, thread, launching, respawning, stale, respawnTimer, old>>

\* The read fails; its worker is dropped if it answered nothing meanwhile.
TimesOut(r) ==
    /\ asked[r] \in Workers
    /\ \/ asked[r] \in slots /\ dropWorker(asked[r])
       \/ /\ asked' = [asked EXCEPT ![r] = Nobody]
          /\ UNCHANGED <<spec, slots, thread, launching, respawning, stale,
                         respawnTimer, old>>

-----------------------------------------------------------------------------
(* Workers. *)

\* new Worker(...): the thread starts.
spawnSlots(S) == thread' = [w \in Workers |-> IF w \in S THEN "booting" ELSE thread[w]]

\* The timer fires: respawnOne starts a replacement, if one is still needed.
respawnOne ==
    /\ respawnTimer
    /\ respawnTimer' = FALSE
    /\ IF spec /\ Cardinality(slots) + Cardinality(respawning) < Size
       THEN \E w \in Off : /\ \A v \in Off : w <= v
                           /\ respawning' = respawning \cup {w}
                           /\ spawnSlots({w})
       ELSE UNCHANGED <<respawning, thread>>
    /\ UNCHANGED <<spec, slots, launching, stale, asked, old>>

\* The worker opens the database file that is in place.
Opens(w) == /\ thread[w] = "booting"
            /\ thread' = [thread EXCEPT ![w] = "open"]
            /\ UNCHANGED <<spec, slots, launching, respawning, stale, respawnTimer,
                           asked, old>>

\* Mutant: the pool is looked at, but not which start of it this is.
OfSomePool(w) == spec

\* The PoolSpec the replacement was started for is still the pool's.
OfThisPool(w) == spec /\ w \notin stale

\* "ready": the replacement joins the pool, or is ended.
Joins(w) ==
    /\ w \in respawning
    /\ thread[w] = "open"
    /\ IF OfThisPool(w)
       THEN /\ slots' = slots \cup {w}
            /\ thread' = [thread EXCEPT ![w] = "up"]
            /\ UNCHANGED <<asked, old>>
       ELSE UNCHANGED slots /\ Ends({w})
    /\ respawning' = respawning \ {w}
    /\ stale' = stale \ {w}
    /\ armRespawn
    /\ UNCHANGED <<spec, launching>>

\* "error", an error in the thread, or START_TIMEOUT_MS.
RestartFails(w) ==
    /\ w \in respawning
    /\ Ends({w})
    /\ respawning' = respawning \ {w}
    /\ stale' = stale \ {w}
    /\ UNCHANGED slots
    /\ armRespawn
    /\ UNCHANGED <<spec, launching>>

\* worker.onerror.
Errs(w) == w \in slots /\ thread[w] = "up" /\ dropWorker(w)

-----------------------------------------------------------------------------
(* Starting and suspending the pool. *)

\* Size threads that are off; they are all alike.
Fresh == {S \in SUBSET Off : /\ Cardinality(S) = Size
                             /\ \A w \in S : \A v \in Off \ S : w < v}

startReadPool ==
    /\ launching' \in Fresh
    /\ spawnSlots(launching')
    /\ UNCHANGED <<spec, slots, respawning, stale, respawnTimer, asked, old>>

Ready(w) == /\ w \in launching
            /\ thread[w] = "open"
            /\ thread' = [thread EXCEPT ![w] = "up"]
            /\ UNCHANGED <<spec, slots, launching, respawning, stale, respawnTimer,
                           asked, old>>

\* A worker that fails: one that was ready already and errs is ended, but its
\* promise is kept, and startReadPool counts on it.
StartFails(w) ==
    /\ w \in launching
    /\ thread[w] \in {"booting", "open", "up"}
    /\ thread' = [thread EXCEPT ![w] = IF thread[w] = "up" THEN "dead" ELSE "off"]
    /\ UNCHANGED <<spec, slots, launching, respawning, stale, respawnTimer, asked, old>>

\* Promise.allSettled: the pool is those that were ready, or nobody.
Launched ==
    /\ launching # {}
    /\ \A w \in launching : thread[w] \in {"up", "dead", "off"}
    /\ IF \E w \in launching : thread[w] = "off"
       THEN Ends(launching) /\ UNCHANGED <<spec, slots>>
       ELSE spec' = TRUE /\ slots' = launching /\ UNCHANGED <<thread, asked, old>>
    /\ launching' = {}
    /\ UNCHANGED <<respawning, stale, respawnTimer>>

\* suspendReadPool, up to its first wait: no more replacements.
suspendReadPool == /\ spec
                   /\ spec' = FALSE
                   /\ respawnTimer' = FALSE
                   /\ stale' = respawning
                   /\ UNCHANGED <<slots, thread, launching, respawning, asked, old>>

\* No read is with a worker.
Drained == \A r \in Requests : asked[r] \notin slots

stopReadPool == /\ slots' = {}
                /\ Ends(slots)
                /\ UNCHANGED <<spec, launching, respawning, stale, respawnTimer>>

\* Another file is put in the database's place.
FileReplaced == /\ old' = {w \in Workers : thread[w] \in {"open", "up", "dead"}}
                /\ UNCHANGED <<spec, slots, thread, launching, respawning, stale,
                               respawnTimer, asked>>

PoolStep == \/ \E r \in Requests : forwardRead(r) \/ onReply(r) \/ TimesOut(r)
            \/ respawnOne
            \/ \E w \in Workers : \/ Opens(w) \/ Joins(w) \/ RestartFails(w) \/ Errs(w)
                                  \/ Ready(w) \/ StartFails(w)

-----------------------------------------------------------------------------

\* The pool never grows past its size, and when it is short of a worker a
\* replacement is being started or due (read-pool.ts:19-23): whichever order
\* workers die, restarts fail and restores suspend the pool in, no failure is
\* the last one.
PoolKept == spec => /\ Cardinality(slots) <= Size
                    /\ Cardinality(slots) < Size => respawnTimer \/ respawning # {}

\* Every worker in service reads the database file that is in place
\* (read-pool.ts:389-390), one whose start a restore overtook too.
NoOldReads == slots \cap old = {}

=============================================================================
