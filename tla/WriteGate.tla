------------------------------ MODULE WriteGate ------------------------------
(***************************************************************************)
(* The write gate (src/src/core/write-gate.ts): record writes enter it in  *)
(* shared mode, batches in exclusive mode.  One JavaScript thread runs all *)
(* callers, so an action is what a caller does between two awaits.         *)
(*                                                                         *)
(* A caller that finds the gate closed parks on a promise kept in waiters. *)
(* Whoever leaves resolves all of them (wakeAll); each woken caller looks  *)
(* at the gate again when it resumes, in any order, and newly arrived      *)
(* callers may get there first.                                            *)
(***************************************************************************)
EXTENDS Naturals, FiniteSets

CONSTANTS Writers,  \* callers of withSharedWrite
          Batches   \* callers of withExclusiveWrite

ASSUME CallersAssumption == /\ IsFiniteSet(Writers)
                            /\ IsFiniteSet(Batches)
                            /\ Writers \cap Batches = {}

Callers == Writers \cup Batches

VARIABLES sharedHolders,     \* how many record writes are inside
          exclusiveHeld,     \* whether a batch is inside
          exclusiveWaiting,  \* how many batches have asked and not entered
          waiters,           \* callers parked on an unresolved promise
          gate               \* where each caller is: "out", "waiting", "in"

gateVars == <<sharedHolders, exclusiveHeld, exclusiveWaiting, waiters, gate>>

GateInit == /\ sharedHolders = 0
            /\ exclusiveHeld = FALSE
            /\ exclusiveWaiting = 0
            /\ waiters = {}
            /\ gate = [c \in Callers |-> "out"]

-----------------------------------------------------------------------------

\* A caller runs its loop test when it calls, and again after each wake-up.
Runs(c) == \/ gate[c] = "out"
           \/ gate[c] = "waiting" /\ c \notin waiters

\* Mutants: no priority for batches; a batch that ignores writes, or batches.
NoPriority == exclusiveHeld
IgnoresWrites == exclusiveHeld
IgnoresBatches == sharedHolders > 0

\* Batches that wait go first, so a steady stream of writes can't starve one.
ClosedToWrites == exclusiveHeld \/ exclusiveWaiting > 0

ClosedToBatches == exclusiveHeld \/ sharedHolders > 0

wakeAll == waiters' = {}

nextWake(c) == /\ waiters' = waiters \cup {c}
               /\ gate' = [gate EXCEPT ![c] = "waiting"]

ParkShared(w) == /\ Runs(w)
                 /\ ClosedToWrites
                 /\ nextWake(w)
                 /\ UNCHANGED <<sharedHolders, exclusiveHeld, exclusiveWaiting>>

AcquireShared(w) == /\ Runs(w)
                    /\ ~ClosedToWrites
                    /\ sharedHolders' = sharedHolders + 1
                    /\ gate' = [gate EXCEPT ![w] = "in"]
                    /\ UNCHANGED <<exclusiveHeld, exclusiveWaiting, waiters>>

ReleaseShared(w) == /\ gate[w] = "in"
                    /\ sharedHolders' = sharedHolders - 1
                    /\ wakeAll
                    /\ gate' = [gate EXCEPT ![w] = "out"]
                    /\ UNCHANGED <<exclusiveHeld, exclusiveWaiting>>

\* The call counts itself as waiting before it looks at the gate.
ParkExclusive(b) ==
    /\ Runs(b)
    /\ ClosedToBatches
    /\ exclusiveWaiting' = IF gate[b] = "out" THEN exclusiveWaiting + 1
                                              ELSE exclusiveWaiting
    /\ nextWake(b)
    /\ UNCHANGED <<sharedHolders, exclusiveHeld>>

AcquireExclusive(b) ==
    /\ Runs(b)
    /\ ~ClosedToBatches
    /\ exclusiveWaiting' = IF gate[b] = "waiting" THEN exclusiveWaiting - 1
                                                  ELSE exclusiveWaiting
    /\ exclusiveHeld' = TRUE
    /\ gate' = [gate EXCEPT ![b] = "in"]
    /\ UNCHANGED <<sharedHolders, waiters>>

ReleaseExclusive(b) == /\ gate[b] = "in"
                       /\ exclusiveHeld' = FALSE
                       /\ wakeAll
                       /\ gate' = [gate EXCEPT ![b] = "out"]
                       /\ UNCHANGED <<sharedHolders, exclusiveWaiting>>

GateNext ==
    \/ \E w \in Writers : ParkShared(w) \/ AcquireShared(w) \/ ReleaseShared(w)
    \/ \E b \in Batches : \/ ParkExclusive(b)
                          \/ AcquireExclusive(b)
                          \/ ReleaseExclusive(b)

GateSpec == GateInit /\ [][GateNext]_gateVars

\* What the event loop owes a caller that is already under way: a resolved
\* promise resumes it, and what it does inside the gate ends (requests and
\* hooks have time limits).  Nobody owes a new call.
Resume(c) == gate[c] = "waiting" /\ (\/ c \in Writers /\ (ParkShared(c) \/ AcquireShared(c))
                                     \/ c \in Batches /\ (ParkExclusive(c) \/ AcquireExclusive(c)))

Leave(c) == \/ c \in Writers /\ ReleaseShared(c)
            \/ c \in Batches /\ ReleaseExclusive(c)

FairGateSpec == /\ GateSpec
                /\ \A c \in Callers : WF_gateVars(Resume(c)) /\ WF_gateVars(Leave(c))

-----------------------------------------------------------------------------

\* Every variable holds a value of its type.
GateTypeOK == /\ sharedHolders \in Nat
              /\ exclusiveHeld \in BOOLEAN
              /\ exclusiveWaiting \in Nat
              /\ waiters \subseteq {c \in Callers : gate[c] = "waiting"}
              /\ gate \in [Callers -> {"out", "waiting", "in"}]

Inside(S) == {c \in S : gate[c] = "in"}

\* A batch has the shared connection to itself: while one is inside, no record
\* write and no other batch is (write-gate.ts:9-12).
Exclusion == /\ Inside(Batches) # {} => Inside(Writers) = {}
             /\ \A a, b \in Inside(Batches) : a = b

\* No wake-up is lost: a caller is parked only while somebody is inside the
\* gate, or a batch has been woken and will look again.  wakeAll runs on every
\* way out and nothing else resolves the promises (write-gate.ts:64-72).
NoLostWakeup ==
    waiters # {} => \/ Inside(Callers) # {}
                    \/ \E b \in Batches : gate[b] = "waiting" /\ b \notin waiters

\* A batch that waits is not starved by record writes, however many arrive: some
\* waiting batch gets in (write-gate.ts:81).
BatchGetsIn == (exclusiveWaiting > 0) ~> exclusiveHeld

\* The gate implements the lock: the callers inside are the lock's holders.
Lock == INSTANCE GateLock WITH writing <- Inside(Writers), batching <- Inside(Batches)

ImplementsLock == Lock!LockSpec

=============================================================================
