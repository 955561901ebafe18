--------------------------- MODULE WriteGateProofs ---------------------------
(***************************************************************************)
(* Proofs about the write gate, for any finite sets of writers and batches.*)
(*                                                                         *)
(* The gate decides by three variables (two counters and a flag); what it  *)
(* promises is about the callers themselves.  The invariant below says that *)
(* the counters count the callers, and everything follows from it.         *)
(***************************************************************************)
EXTENDS WriteGate, FiniteSetTheorems, TLAPS

WaitingBatches == {b \in Batches : gate[b] = "waiting"}

\* The counters say what the callers are doing.
CountersAgree == /\ sharedHolders = Cardinality(Inside(Writers))
                 /\ exclusiveWaiting = Cardinality(WaitingBatches)
                 /\ exclusiveHeld <=> Inside(Batches) # {}

GateInv == GateTypeOK /\ CountersAgree /\ Exclusion /\ NoLostWakeup

-----------------------------------------------------------------------------

LEMMA InsideFinite ==
    ASSUME NEW S \in {Writers, Batches}
    PROVE  IsFiniteSet(Inside(S)) /\ IsFiniteSet(WaitingBatches)
  BY CallersAssumption, FS_Subset DEF Inside, WaitingBatches

LEMMA EmptyIffZero ==
    ASSUME NEW S, IsFiniteSet(S)
    PROVE  Cardinality(S) \in Nat /\ (Cardinality(S) > 0 <=> S # {})
  BY FS_EmptySet, FS_CardinalityType

LEMMA OneMore ==
    ASSUME NEW S, NEW x, IsFiniteSet(S), x \notin S
    PROVE  Cardinality(S \cup {x}) = Cardinality(S) + 1 /\ Cardinality(S) \in Nat
  BY FS_AddElement, FS_CardinalityType

LEMMA OneLess ==
    ASSUME NEW S, NEW x, IsFiniteSet(S), x \in S
    PROVE  Cardinality(S \ {x}) = Cardinality(S) - 1 /\ Cardinality(S) - 1 \in Nat
  <1>1. Cardinality(S) \in Nat /\ Cardinality(S) > 0
    BY EmptyIffZero
  <1>2. Cardinality(S \ {x}) = Cardinality(S) - 1
    BY FS_RemoveElement
  <1> QED
    BY <1>1, <1>2

LEMMA InitInv == GateInit => GateInv
  <1> SUFFICES ASSUME GateInit PROVE GateInv
    OBVIOUS
  <1>1. Inside(Writers) = {} /\ Inside(Batches) = {} /\ WaitingBatches = {}
    BY DEF GateInit, Inside, WaitingBatches, Callers
  <1> QED
    BY <1>1, FS_EmptySet
    DEF GateInit, GateInv, GateTypeOK, CountersAgree, Exclusion, NoLostWakeup

\* What one caller's move does to the three sets the counters count.
LEMMA MoveIn ==
    ASSUME GateTypeOK, NEW c \in Callers, gate' = [gate EXCEPT ![c] = "in"],
           gate[c] # "in"
    PROVE  /\ \A S \in {Writers, Batches, Callers} :
                 Inside(S)' = IF c \in S THEN Inside(S) \cup {c} ELSE Inside(S)
           /\ WaitingBatches' = WaitingBatches \ {c}
           /\ c \notin Inside(Callers)
  BY DEF GateTypeOK, Inside, WaitingBatches, Callers

LEMMA MoveOut ==
    ASSUME GateTypeOK, NEW c \in Callers, gate' = [gate EXCEPT ![c] = "out"],
           gate[c] = "in"
    PROVE  /\ \A S \in {Writers, Batches, Callers} : Inside(S)' = Inside(S) \ {c}
           /\ WaitingBatches' = WaitingBatches
           /\ c \in Inside(Callers)
  BY DEF GateTypeOK, Inside, WaitingBatches, Callers

LEMMA MoveWait ==
    ASSUME GateTypeOK, NEW c \in Callers, gate' = [gate EXCEPT ![c] = "waiting"],
           gate[c] # "in"
    PROVE  /\ \A S \in {Writers, Batches, Callers} : Inside(S)' = Inside(S)
           /\ WaitingBatches' = IF c \in Batches THEN WaitingBatches \cup {c}
                                                 ELSE WaitingBatches
  BY DEF GateTypeOK, Inside, WaitingBatches, Callers

LEMMA ParkSharedInv ==
    ASSUME GateInv, NEW w \in Writers, ParkShared(w)
    PROVE  GateInv'
  <1>1. w \in Callers /\ w \notin Batches /\ gate[w] # "in"
    BY CallersAssumption DEF Callers, ParkShared, Runs
  <1>2. /\ \A S \in {Writers, Batches, Callers} : Inside(S)' = Inside(S)
        /\ WaitingBatches' = WaitingBatches
    BY <1>1, MoveWait DEF GateInv, ParkShared, nextWake
  <1>3. GateTypeOK'
    BY <1>1 DEF GateInv, GateTypeOK, ParkShared, nextWake, Runs
  <1>4. CountersAgree' /\ Exclusion'
    BY <1>2 DEF GateInv, CountersAgree, Exclusion, ParkShared
  <1>5. NoLostWakeup'
    <2>1. CASE exclusiveHeld
      BY <2>1, <1>2 DEF GateInv, CountersAgree, NoLostWakeup, Callers, Inside
    <2>2. CASE waiters # {}
      BY <2>2, <1>1, <1>2 DEF GateInv, GateTypeOK, NoLostWakeup, ParkShared, nextWake, Callers
    <2>3. CASE waiters = {} /\ ~exclusiveHeld
      <3>1. exclusiveWaiting > 0
        BY <2>3 DEF ParkShared, ClosedToWrites
      <3>2. WaitingBatches # {}
        BY <3>1, InsideFinite, EmptyIffZero DEF GateInv, CountersAgree
      <3>3. PICK b \in Batches : gate[b] = "waiting"
        BY <3>2 DEF WaitingBatches
      <3>4. gate'[b] = "waiting" /\ b \notin waiters'
        BY <3>3, <2>3, <1>1 DEF GateInv, GateTypeOK, ParkShared, nextWake, Callers
      <3> QED
        BY <3>4 DEF NoLostWakeup
    <2> QED
      BY <2>1, <2>2, <2>3
  <1> QED
    BY <1>3, <1>4, <1>5 DEF GateInv

LEMMA AcquireSharedInv ==
    ASSUME GateInv, NEW w \in Writers, AcquireShared(w)
    PROVE  GateInv'
  <1>1. w \in Callers /\ w \notin Batches /\ gate[w] # "in"
    BY CallersAssumption DEF Callers, AcquireShared, Runs
  <1>2. /\ Inside(Writers)' = Inside(Writers) \cup {w}
        /\ Inside(Batches)' = Inside(Batches)
        /\ w \in Inside(Callers)'
        /\ w \notin Inside(Writers)
        /\ WaitingBatches' = WaitingBatches
    BY <1>1, MoveIn DEF GateInv, AcquireShared, Callers, Inside, WaitingBatches
  <1>3. GateTypeOK'
    BY <1>1 DEF GateInv, GateTypeOK, AcquireShared, Runs
  <1>4. CountersAgree'
    BY <1>2, InsideFinite, OneMore DEF GateInv, CountersAgree, AcquireShared
  <1>5. Exclusion'
    BY <1>2 DEF GateInv, CountersAgree, Exclusion, AcquireShared, ClosedToWrites
  <1>6. NoLostWakeup'
    BY <1>2 DEF NoLostWakeup
  <1> QED
    BY <1>3, <1>4, <1>5, <1>6 DEF GateInv

LEMMA ReleaseSharedInv ==
    ASSUME GateInv, NEW w \in Writers, ReleaseShared(w)
    PROVE  GateInv'
  <1>1. w \in Callers /\ w \notin Batches
    BY CallersAssumption DEF Callers
  <1>2. /\ Inside(Writers)' = Inside(Writers) \ {w}
        /\ Inside(Batches)' = Inside(Batches) \ {w}
        /\ w \in Inside(Writers)
        /\ WaitingBatches' = WaitingBatches
    BY <1>1, MoveOut DEF GateInv, ReleaseShared, Inside
  <1>3. Inside(Batches)' = Inside(Batches)
    BY <1>1, <1>2 DEF Inside
  <1>4. /\ sharedHolders' = Cardinality(Inside(Writers)')
        /\ sharedHolders' \in Nat
    BY <1>2, InsideFinite, OneLess
    DEF GateInv, CountersAgree, GateTypeOK, ReleaseShared
  <1>5. GateTypeOK'
    BY <1>1, <1>4 DEF GateInv, GateTypeOK, ReleaseShared, wakeAll
  <1>6. CountersAgree'
    BY <1>2, <1>3, <1>4 DEF GateInv, CountersAgree, ReleaseShared
  <1>7. Exclusion'
    BY <1>2, <1>3 DEF GateInv, Exclusion
  <1>8. NoLostWakeup'
    BY DEF NoLostWakeup, ReleaseShared, wakeAll
  <1> QED
    BY <1>5, <1>6, <1>7, <1>8 DEF GateInv

LEMMA ParkExclusiveInv ==
    ASSUME GateInv, NEW b \in Batches, ParkExclusive(b)
    PROVE  GateInv'
  <1>1. b \in Callers /\ gate[b] # "in"
    BY DEF Callers, ParkExclusive, Runs
  <1>2. /\ \A S \in {Writers, Batches, Callers} : Inside(S)' = Inside(S)
        /\ WaitingBatches' = WaitingBatches \cup {b}
    BY <1>1, MoveWait DEF GateInv, ParkExclusive, nextWake
  <1>3. /\ exclusiveWaiting' = Cardinality(WaitingBatches')
        /\ exclusiveWaiting' \in Nat
    <2>1. CASE gate[b] = "out"
      <3>1. b \notin WaitingBatches
        BY <2>1 DEF WaitingBatches
      <3> QED
        BY <2>1, <3>1, <1>2, InsideFinite, OneMore
        DEF GateInv, CountersAgree, ParkExclusive
    <2>2. CASE gate[b] = "waiting"
      <3>1. WaitingBatches' = WaitingBatches
        BY <2>2, <1>2 DEF WaitingBatches
      <3> QED
        BY <2>2, <3>1 DEF GateInv, GateTypeOK, CountersAgree, ParkExclusive
    <2> QED
      BY <2>1, <2>2 DEF ParkExclusive, Runs
  <1>4. GateTypeOK'
    BY <1>1, <1>3 DEF GateInv, GateTypeOK, ParkExclusive, nextWake
  <1>5. CountersAgree' /\ Exclusion'
    BY <1>2, <1>3 DEF GateInv, CountersAgree, Exclusion, ParkExclusive
  <1>6. Inside(Callers)' # {}
    <2>1. CASE exclusiveHeld
      BY <2>1, <1>2 DEF GateInv, CountersAgree, Callers, Inside
    <2>2. CASE sharedHolders > 0
      <3>1. Inside(Writers) # {}
        BY <2>2, InsideFinite, EmptyIffZero DEF GateInv, CountersAgree
      <3> QED
        BY <3>1, <1>2 DEF Callers, Inside
    <2> QED
      BY <2>1, <2>2 DEF ParkExclusive, ClosedToBatches
  <1> QED
    BY <1>4, <1>5, <1>6 DEF GateInv, NoLostWakeup

LEMMA AcquireExclusiveInv ==
    ASSUME GateInv, NEW b \in Batches, AcquireExclusive(b)
    PROVE  GateInv'
  <1>1. b \in Callers /\ b \notin Writers /\ gate[b] # "in"
    BY CallersAssumption DEF Callers, AcquireExclusive, Runs
  <1>2. Inside(Writers) = {} /\ Inside(Batches) = {}
    BY InsideFinite, EmptyIffZero
    DEF GateInv, CountersAgree, AcquireExclusive, ClosedToBatches
  <1>3. /\ Inside(Writers)' = {}
        /\ Inside(Batches)' = {b}
        /\ b \in Inside(Callers)'
        /\ WaitingBatches' = WaitingBatches \ {b}
    BY <1>1, <1>2, MoveIn DEF GateInv, AcquireExclusive, Callers, Inside
  <1>4. /\ exclusiveWaiting' = Cardinality(WaitingBatches')
        /\ exclusiveWaiting' \in Nat
    <2>1. CASE gate[b] = "waiting"
      <3>1. b \in WaitingBatches
        BY <2>1 DEF WaitingBatches
      <3> QED
        BY <2>1, <3>1, <1>3, InsideFinite, OneLess
        DEF GateInv, CountersAgree, AcquireExclusive
    <2>2. CASE gate[b] = "out"
      <3>1. WaitingBatches' = WaitingBatches
        BY <2>2, <1>3 DEF WaitingBatches
      <3> QED
        BY <2>2, <3>1 DEF GateInv, GateTypeOK, CountersAgree, AcquireExclusive
    <2> QED
      BY <2>1, <2>2 DEF AcquireExclusive, Runs
  <1>5. GateTypeOK'
    BY <1>1, <1>4 DEF GateInv, GateTypeOK, AcquireExclusive, Runs
  <1>6. CountersAgree'
    BY <1>2, <1>3, <1>4 DEF GateInv, CountersAgree, AcquireExclusive
  <1> QED
    BY <1>3, <1>5, <1>6 DEF GateInv, Exclusion, NoLostWakeup

LEMMA ReleaseExclusiveInv ==
    ASSUME GateInv, NEW b \in Batches, ReleaseExclusive(b)
    PROVE  GateInv'
  <1>1. b \in Callers /\ b \notin Writers
    BY CallersAssumption DEF Callers
  <1>2. /\ \A S \in {Writers, Batches, Callers} : Inside(S)' = Inside(S) \ {b}
        /\ WaitingBatches' = WaitingBatches
        /\ b \in Inside(Batches)
    BY <1>1, MoveOut DEF GateInv, ReleaseExclusive, Inside
  <1>3. Inside(Writers)' = Inside(Writers) /\ Inside(Batches)' = {}
    BY <1>1, <1>2 DEF GateInv, Exclusion, Inside
  <1>4. GateTypeOK'
    BY <1>1 DEF GateInv, GateTypeOK, ReleaseExclusive, wakeAll
  <1>5. CountersAgree'
    BY <1>2, <1>3 DEF GateInv, CountersAgree, ReleaseExclusive
  <1> QED
    BY <1>3, <1>4, <1>5
    DEF GateInv, Exclusion, NoLostWakeup, ReleaseExclusive, wakeAll

LEMMA NextInv == GateInv /\ [GateNext]_gateVars => GateInv'
  <1> SUFFICES ASSUME GateInv, [GateNext]_gateVars PROVE GateInv'
    OBVIOUS
  <1>1. ASSUME NEW w \in Writers, ParkShared(w) PROVE GateInv'
    BY <1>1, ParkSharedInv
  <1>2. ASSUME NEW w \in Writers, AcquireShared(w) PROVE GateInv'
    BY <1>2, AcquireSharedInv
  <1>3. ASSUME NEW w \in Writers, ReleaseShared(w) PROVE GateInv'
    BY <1>3, ReleaseSharedInv
  <1>4. ASSUME NEW b \in Batches, ParkExclusive(b) PROVE GateInv'
    BY <1>4, ParkExclusiveInv
  <1>5. ASSUME NEW b \in Batches, AcquireExclusive(b) PROVE GateInv'
    BY <1>5, AcquireExclusiveInv
  <1>6. ASSUME NEW b \in Batches, ReleaseExclusive(b) PROVE GateInv'
    BY <1>6, ReleaseExclusiveInv
  <1>7. CASE UNCHANGED gateVars
    BY <1>7 DEF gateVars, GateInv, GateTypeOK, CountersAgree, Exclusion,
                NoLostWakeup, Inside, WaitingBatches
  <1> QED
    BY <1>1, <1>2, <1>3, <1>4, <1>5, <1>6, <1>7 DEF GateNext

\* The counters always agree with the callers, a batch is always alone inside
\* the gate, and no caller is ever parked with nobody left to wake it.
THEOREM GateInvariant == GateSpec => []GateInv
  <1>1. GateInit => GateInv
    BY InitInv
  <1>2. GateInv /\ [GateNext]_gateVars => GateInv'
    BY NextInv
  <1> QED
    BY <1>1, <1>2, PTL DEF GateSpec

\* A batch inside the write gate is alone: no record write shares the
\* connection with its transaction (withSharedWrite, withExclusiveWrite).
THEOREM GateExclusion == GateSpec => []Exclusion
  <1>1. GateInv => Exclusion
    BY DEF GateInv
  <1> QED
    BY <1>1, GateInvariant, PTL

\* Nobody sleeps on a gate that no one will open again (nextWake, wakeAll).
THEOREM GateNoLostWakeup == GateSpec => []NoLostWakeup
  <1>1. GateInv => NoLostWakeup
    BY DEF GateInv
  <1> QED
    BY <1>1, GateInvariant, PTL

-----------------------------------------------------------------------------

LEMMA LockStep == GateInv /\ [GateNext]_gateVars => [Lock!LockNext]_(Lock!lockVars)
  <1> SUFFICES ASSUME GateInv, [GateNext]_gateVars
               PROVE  [Lock!LockNext]_(Lock!lockVars)
    OBVIOUS
  <1> USE DEF Lock!LockNext, Lock!lockVars
  <1>1. ASSUME NEW w \in Writers, ParkShared(w) PROVE UNCHANGED Lock!lockVars
    <2>1. w \in Callers /\ gate[w] # "in"
      BY <1>1 DEF Callers, ParkShared, Runs
    <2> QED
      BY <1>1, <2>1, MoveWait DEF GateInv, ParkShared, nextWake
  <1>2. ASSUME NEW w \in Writers, AcquireShared(w) PROVE Lock!EnterWrite(w)
    <2>1. w \in Callers /\ w \notin Batches /\ gate[w] # "in"
      BY <1>2, CallersAssumption DEF Callers, AcquireShared, Runs
    <2>2. Inside(Batches) = {}
      BY <1>2 DEF GateInv, CountersAgree, AcquireShared, ClosedToWrites
    <2>3. Inside(Writers)' = Inside(Writers) \cup {w} /\ Inside(Batches)' = Inside(Batches)
      BY <1>2, <2>1, MoveIn DEF GateInv, AcquireShared
    <2> QED
      BY <2>1, <2>2, <2>3 DEF Lock!EnterWrite, Inside
  <1>3. ASSUME NEW w \in Writers, ReleaseShared(w) PROVE Lock!LeaveWrite(w)
    <2>1. w \in Callers /\ w \notin Batches /\ gate[w] = "in"
      BY <1>3, CallersAssumption DEF Callers, ReleaseShared
    <2>2. Inside(Writers)' = Inside(Writers) \ {w} /\ Inside(Batches)' = Inside(Batches)
      BY <1>3, <2>1, MoveOut DEF GateInv, ReleaseShared, Inside
    <2> QED
      BY <2>1, <2>2 DEF Lock!LeaveWrite, Inside
  <1>4. ASSUME NEW b \in Batches, ParkExclusive(b) PROVE UNCHANGED Lock!lockVars
    <2>1. b \in Callers /\ gate[b] # "in"
      BY <1>4 DEF Callers, ParkExclusive, Runs
    <2> QED
      BY <1>4, <2>1, MoveWait DEF GateInv, ParkExclusive, nextWake
  <1>5. ASSUME NEW b \in Batches, AcquireExclusive(b) PROVE Lock!EnterBatch(b)
    <2>1. b \in Callers /\ b \notin Writers /\ gate[b] # "in"
      BY <1>5, CallersAssumption DEF Callers, AcquireExclusive, Runs
    <2>2. Inside(Writers) = {} /\ Inside(Batches) = {}
      BY <1>5, InsideFinite, EmptyIffZero
      DEF GateInv, CountersAgree, AcquireExclusive, ClosedToBatches
    <2>3. Inside(Writers)' = {} /\ Inside(Batches)' = {b}
      BY <1>5, <2>1, <2>2, MoveIn DEF GateInv, AcquireExclusive
    <2> QED
      BY <2>2, <2>3 DEF Lock!EnterBatch
  <1>6. ASSUME NEW b \in Batches, ReleaseExclusive(b) PROVE Lock!LeaveBatch(b)
    <2>1. b \in Callers /\ b \notin Writers /\ gate[b] = "in"
      BY <1>6, CallersAssumption DEF Callers, ReleaseExclusive
    <2>2. Inside(Batches)' = Inside(Batches) \ {b} /\ Inside(Writers)' = Inside(Writers)
      BY <1>6, <2>1, MoveOut DEF GateInv, ReleaseExclusive, Inside
    <2> QED
      BY <2>1, <2>2 DEF Lock!LeaveBatch, Inside
  <1>7. CASE UNCHANGED gateVars
    BY <1>7 DEF gateVars, Inside
  <1> QED
    BY <1>1, <1>2, <1>3, <1>4, <1>5, <1>6, <1>7 DEF GateNext

\* The counters, flag and wake-ups of write-gate.ts implement the lock: any
\* number of record writes, or one batch and nothing else.
THEOREM GateImplementsLock == GateSpec => ImplementsLock
  <1>1. GateInit => Lock!LockInit
    BY DEF GateInit, Lock!LockInit, Inside, Callers
  <1>2. GateInv /\ [GateNext]_gateVars => [Lock!LockNext]_(Lock!lockVars)
    BY LockStep
  <1> QED
    BY <1>1, <1>2, GateInvariant, PTL DEF GateSpec, ImplementsLock, Lock!LockSpec

=============================================================================
