-------------------------- MODULE RecordLocksProofs --------------------------
(***************************************************************************)
(* Proofs about record locks, for any finite sets of callers and children  *)
(* and whatever they ask for.                                              *)
(*                                                                         *)
(* A caller's stack says which locks it holds: a write that is past taking *)
(* its lock has it, and exactly the lowest of a request's writes of one    *)
(* record will release it.  So two requests are never past their checks of *)
(* one record, and a lock is only ever held from inside the gate.          *)
(***************************************************************************)
EXTENDS RecordLocks, WriteGateProofs, SequenceTheorems

-----------------------------------------------------------------------------
(* The gate's part of every step. *)

LEMMA StepsUseGate == [Next]_vars => [GateNext]_gateVars
  <1> SUFFICES ASSUME [Next]_vars PROVE [GateNext]_gateVars
    OBVIOUS
  <1>1. CASE UNCHANGED vars
    BY <1>1 DEF vars
  <1>2. ASSUME NEW c \in Callers, Asked(c) PROVE UNCHANGED gateVars
    BY <1>2 DEF Asked
  <1>3. ASSUME NEW c \in Callers, Park(c) \/ Enter(c) \/ Answer(c) PROVE GateNext
    BY <1>3 DEF Park, Enter, Answer, GateNext
  <1>4. ASSUME NEW c \in Callers,
               \/ lockRecord(c) \/ waitForRecordLock(c) \/ Busy(c)
               \/ Check(c) \/ checkRestrict(c) \/ runBeforeHook(c) \/ validateRecord(c)
        PROVE  UNCHANGED gateVars
    BY <1>4 DEF lockRecord, waitForRecordLock, Busy, Check, checkRestrict,
                runBeforeHook, validateRecord
  <1>5. ASSUME NEW c \in Callers,
               \/ WriteRow(c) \/ ReadRows(c) \/ SetNull(c) \/ ReadIds(c) \/ DeleteChild(c)
               \/ ChildrenGone(c) \/ Forbidden(c) \/ Return(c)
        PROVE  UNCHANGED gateVars
    BY <1>5 DEF WriteRow, ReadRows, SetNull, ReadIds, DeleteChild, ChildrenGone,
                Forbidden, Return
  <1> QED
    BY <1>1, <1>2, <1>3, <1>4, <1>5 DEF Next, Step

\* Updates and deletes with everything they do inside take the gate only in the
\* ways WriteGate allows, and so the gate keeps its promise to them.
THEOREM RecordWritesUseGate == Spec => GateSpec
  <1>1. Init => GateInit
    BY DEF Init
  <1> QED
    BY <1>1, StepsUseGate, PTL DEF Spec, GateSpec

\* So what runs in the gate is any number of updates and deletes, or one batch.
THEOREM RecordWritesImplementLock == Spec => ImplementsLock
  BY RecordWritesUseGate, GateImplementsLock, PTL

\* The gate's counters agree with who is inside, whatever updates and deletes do
\* there.
THEOREM RecordGateInv == Spec => []GateInv
  BY RecordWritesUseGate, GateInvariant, PTL

-----------------------------------------------------------------------------
(* What a stack of writes holds. *)

Places == {"lock", "check", "restrict", "hook", "validate", "read rows", "wait",
           "read ids", "children", "write", "done", "failed"}

Frame == [op : {"update", "point", "delete"}, rec : Records, at : Places,
          locked : BOOLEAN, left : SUBSET Records]

\* Nothing is locked for this write: it has not got its lock, or it never did.
Lockless(f) == f.at \in {"lock", "failed"}

\* Among the writes s of caller c, with the locks L: those past their lock hold
\* it, and every lock is the business of exactly one of them, the lowest.
Holds(c, s, L) ==
    /\ \A i \in DOMAIN s : s[i].locked => s[i].at # "lock"
    /\ \A i \in DOMAIN s : s[i].locked \/ ~Lockless(s[i]) => L[s[i].rec] = c
    /\ \A i, j \in DOMAIN s : s[i].locked /\ j < i /\ s[j].rec = s[i].rec => Lockless(s[j]) /\ ~s[j].locked
    /\ \A r \in Records : L[r] = c => \E i \in DOMAIN s : s[i].locked /\ s[i].rec = r

\* Who writes is inside the gate, and its first write is the one it came for.
Inside1(c) == Running(c) => /\ gate[c] = "in"
                            /\ ask[c] # None
                            /\ stack[c][1].rec = ask[c].write.rec

StackInv == /\ locks \in [Records -> Callers \cup {None}]
            /\ stack \in [Callers -> Seq(Frame)]
            /\ \A c \in Callers : Holds(c, stack[c], locks)
            /\ \A c \in Callers : Inside1(c)

DataInv == /\ ask \in [Callers -> Request \cup {None}]
           /\ there \subseteq Records
           /\ points \subseteq Records
           /\ changed \subseteq Callers
           /\ undo \in [there : SUBSET Records, points : SUBSET Records,
                       changed : SUBSET Callers, wrote : SUBSET Records]

LockInv == StackInv /\ DataInv /\ IfMatchHolds

-----------------------------------------------------------------------------
(* What a change of one stack does. *)

LEMMA FrameFields ==
    ASSUME NEW f \in Frame
    PROVE  /\ f.rec \in Records
           /\ f.op \in {"update", "point", "delete"}
           /\ f.left \subseteq Records
  BY DEF Frame

LEMMA BegunFrame ==
    ASSUME NEW w, w.rec \in Records, w.op \in {"update", "point", "delete"}
    PROVE  /\ Begun(w) \in Frame
           /\ Begun(w).rec = w.rec
           /\ Begun(w).at = "lock"
           /\ ~Begun(w).locked
  <1>1. Begun(w).rec = w.rec /\ Begun(w).at = "lock" /\ ~Begun(w).locked
    BY Zenon DEF Begun
  <1>2. "lock" \in Places
    BY DEF Places
  <1>3. FALSE \in BOOLEAN /\ {} \in SUBSET Records
    BY Zenon
  <1>4. Begun(w) \in Frame
    BY <1>2, <1>3, Zenon DEF Begun, Frame
  <1> QED
    BY <1>1, <1>4

\* The top write becomes f, which has the same record and is no less locked.
LEMMA ReplaceTop ==
    ASSUME NEW c \in Callers, NEW s \in Seq(Frame), s # <<>>, NEW L, NEW f \in Frame,
           Holds(c, s, L), f.rec = s[Len(s)].rec, f.locked <=> s[Len(s)].locked,
           f.at # "lock", Lockless(f) \/ ~Lockless(s[Len(s)])
    PROVE  /\ [s EXCEPT ![Len(s)] = f] \in Seq(Frame)
           /\ [s EXCEPT ![Len(s)] = f] # <<>>
           /\ Holds(c, [s EXCEPT ![Len(s)] = f], L)
  <1> DEFINE t == [s EXCEPT ![Len(s)] = f]
  <1>1. Len(s) \in 1 .. Len(s) /\ DOMAIN s = 1 .. Len(s) /\ Len(s) \in Nat
    OBVIOUS
  <1>2. t \in Seq(Frame) /\ Len(t) = Len(s) /\ DOMAIN t = DOMAIN s /\ t # <<>>
    BY <1>1
  <1>3. t[Len(s)] = f /\ \A i \in DOMAIN s : i # Len(s) => t[i] = s[i]
    BY <1>1
  <1>4. \A i \in DOMAIN s : t[i].rec = s[i].rec /\ (t[i].locked <=> s[i].locked)
    BY <1>1, <1>3
  <1>5. \A i \in DOMAIN s : ~Lockless(t[i]) => ~Lockless(s[i])
    BY <1>1, <1>3
  <1>6. \A i, j \in DOMAIN s : j < i => t[j] = s[j]
    BY <1>1, <1>3
  <1>7. \A i \in DOMAIN s : t[i].at = "lock" => t[i] = s[i]
    BY <1>1, <1>3
  <1> HIDE DEF t
  <1>8. Holds(c, t, L)
    BY <1>2, <1>4, <1>5, <1>6, <1>7 DEF Holds
  <1> QED
    BY <1>2, <1>8 DEF t


\* A write is put on top, with nothing locked.
LEMMA Push ==
    ASSUME NEW c \in Callers, NEW s \in Seq(Frame), NEW L, NEW w, w.rec \in Records,
           w.op \in {"update", "point", "delete"}, Holds(c, s, L)
    PROVE  /\ Append(s, Begun(w)) \in Seq(Frame)
           /\ Append(s, Begun(w)) # <<>>
           /\ Holds(c, Append(s, Begun(w)), L)
           /\ s # <<>> => Append(s, Begun(w))[1] = s[1]
  <1> DEFINE t == Append(s, Begun(w))
             n == Len(s) + 1
  <1>1. Begun(w) \in Frame /\ ~Begun(w).locked /\ Begun(w).at = "lock"
    BY BegunFrame
  <1>2. Len(s) \in Nat /\ DOMAIN s = 1 .. Len(s)
    OBVIOUS
  <1>3. t \in Seq(Frame) /\ DOMAIN t = 1 .. n /\ Len(t) = n /\ t[n] = Begun(w)
    BY <1>1, <1>2
  <1>4. \A i \in DOMAIN s : t[i] = s[i] /\ i \in DOMAIN t
    BY <1>1, <1>2
  <1>5. t # <<>>
    BY <1>2, <1>3
  <1>6. \A i \in DOMAIN t : i \in DOMAIN s \/ i = n
    BY <1>2, <1>3
  <1>7. \A j \in DOMAIN t : ~(n < j)
    BY <1>2, <1>3
  <1>8. s # <<>> => 1 \in DOMAIN s
    BY <1>2
  <1> HIDE DEF t, n
  <1>9. \A i \in DOMAIN t : t[i].locked \/ ~Lockless(t[i]) => L[t[i].rec] = c
    BY <1>1, <1>3, <1>4, <1>6 DEF Holds, Lockless
  <1>10. \A i, j \in DOMAIN t : t[i].locked /\ j < i /\ t[j].rec = t[i].rec
                                => Lockless(t[j]) /\ ~t[j].locked
    BY <1>1, <1>3, <1>4, <1>6, <1>7 DEF Holds, Lockless
  <1>11. \A r \in Records : L[r] = c => \E i \in DOMAIN t : t[i].locked /\ t[i].rec = r
    BY <1>4 DEF Holds
  <1>12. \A i \in DOMAIN t : t[i].locked => t[i].at # "lock"
    BY <1>1, <1>3, <1>4, <1>6 DEF Holds
  <1>13. Holds(c, t, L)
    BY <1>9, <1>10, <1>11, <1>12 DEF Holds
  <1> QED
    BY <1>3, <1>4, <1>5, <1>8, <1>13 DEF t

\* The top write takes its lock, or passes through.
LEMMA Take ==
    ASSUME NEW c \in Callers, NEW s \in Seq(Frame), s # <<>>,
           NEW L \in [Records -> Callers \cup {None}], NEW f \in Frame, NEW r \in Records,
           Holds(c, s, L), f.rec = s[Len(s)].rec, r = f.rec, s[Len(s)].at = "lock",
           L[r] \in {None, c}, f.at = "check", f.locked <=> L[r] = None
    PROVE  /\ [s EXCEPT ![Len(s)] = f] \in Seq(Frame)
           /\ [s EXCEPT ![Len(s)] = f] # <<>>
           /\ Holds(c, [s EXCEPT ![Len(s)] = f], [L EXCEPT ![r] = c])
  <1> DEFINE t == [s EXCEPT ![Len(s)] = f]
             M == [L EXCEPT ![r] = c]
             n == Len(s)
  <1>0. None \notin Callers
    BY RecordsAssumption
  <1>1. n \in DOMAIN s /\ DOMAIN s = 1 .. n /\ n \in Nat
    OBVIOUS
  <1>2. t \in Seq(Frame) /\ DOMAIN t = DOMAIN s /\ t # <<>>
    BY <1>1
  <1>3. t[n] = f /\ \A i \in DOMAIN s : i # n => t[i] = s[i]
    BY <1>1
  <1>4. M[r] = c /\ \A q \in Records : q # r => M[q] = L[q]
    OBVIOUS
  <1>5. \A i \in DOMAIN s : s[i].rec \in Records
    BY FrameFields
  <1>6. \A j \in DOMAIN t : ~(n < j)
    BY <1>1, <1>2
  <1> HIDE DEF t, M, n
  <1>7. \A i \in DOMAIN t : t[i].locked \/ ~Lockless(t[i]) => M[t[i].rec] = c
    BY <1>2, <1>3, <1>4, <1>5 DEF Holds
  <1>8. ASSUME NEW i \in DOMAIN t, NEW j \in DOMAIN t,
               t[i].locked, j < i, t[j].rec = t[i].rec
        PROVE  Lockless(t[j]) /\ ~t[j].locked
    <2>1. j # n /\ t[j] = s[j]
      BY <1>2, <1>3, <1>6, <1>8
    <2>2. CASE i = n
      <3>1. L[r] # c /\ s[j].rec = r
        BY <1>0, <1>3, <1>8, <2>1, <2>2
      <3> QED
        BY <1>2, <2>1, <3>1 DEF Holds
    <2>3. CASE i # n
      BY <1>2, <1>3, <1>8, <2>1, <2>3 DEF Holds
    <2> QED
      BY <2>2, <2>3
  <1>9. ASSUME NEW q \in Records, M[q] = c
        PROVE  \E i \in DOMAIN t : t[i].locked /\ t[i].rec = q
    <2>1. CASE q = r /\ L[r] = None
      BY <1>1, <1>2, <1>3, <2>1
    <2>2. CASE ~(q = r /\ L[r] = None)
      <3>1. L[q] = c
        BY <1>4, <1>9, <2>2
      <3>2. PICK i \in DOMAIN s : s[i].locked /\ s[i].rec = q
        BY <3>1 DEF Holds
      <3>3. i # n
        BY <3>2 DEF Holds, n
      <3> QED
        BY <1>2, <1>3, <3>2, <3>3
    <2> QED
      BY <2>1, <2>2
  <1>10. \A i \in DOMAIN t : t[i].locked => t[i].at # "lock"
    BY <1>2, <1>3 DEF Holds
  <1>11. Holds(c, t, M)
    BY <1>7, <1>8, <1>9, <1>10 DEF Holds
  <1> QED
    BY <1>2, <1>11 DEF t, M

\* The lock of another request changes.
LEMMA Others ==
    ASSUME NEW d \in Callers, NEW s \in Seq(Frame), NEW L \in [Records -> Callers \cup {None}],
           NEW r \in Records, NEW x, x # d, L[r] # d, Holds(d, s, L)
    PROVE  Holds(d, s, [L EXCEPT ![r] = x])
  <1> DEFINE M == [L EXCEPT ![r] = x]
  <1>1. \A q \in Records : M[q] = d <=> L[q] = d
    OBVIOUS
  <1>2. \A i \in DOMAIN s : s[i].rec \in Records
    BY FrameFields
  <1> HIDE DEF M
  <1>3. Holds(d, s, M)
    BY <1>1, <1>2 DEF Holds
  <1> QED
    BY <1>3 DEF M

LEMMA FrontOf ==
    ASSUME NEW s \in Seq(Frame), s # <<>>
    PROVE  /\ Front(s) \in Seq(Frame)
           /\ DOMAIN Front(s) = 1 .. Len(s) - 1
           /\ Len(Front(s)) = Len(s) - 1
           /\ \A i \in DOMAIN Front(s) : Front(s)[i] = s[i]
  <1> DEFINE n == Len(s) - 1
             t == SubSeq(s, 1, n)
  <1>1. n \in Nat /\ 1 \in Int /\ n \in Int /\ \A i \in 1 .. n : s[i] \in Frame
    OBVIOUS
  <1>2. /\ t \in Seq(Frame)
        /\ Len(t) = IF 1 <= n THEN n - 1 + 1 ELSE 0
        /\ \A i \in 1 .. n - 1 + 1 : t[i] = s[1 + i - 1]
    BY <1>1, SubSeqProperties
  <1>3. Front(s) = t
    BY DEF Front
  <1>0. n - 1 + 1 = n
    OBVIOUS
  <1> HIDE DEF t, n
  <1>4. Len(t) = n
    <2>1. CASE 1 <= n
      BY <1>0, <1>2, <2>1
    <2>2. CASE ~(1 <= n)
      <3>1. Len(t) = 0
        BY <1>2, <2>2
      <3>2. n = 0
        BY <1>1, <2>2
      <3> QED
        BY <3>1, <3>2
    <2> QED
      BY <2>1, <2>2
  <1>5. DOMAIN t = 1 .. n
    BY <1>2, <1>4
  <1>6. \A i \in 1 .. n : i \in 1 .. n - 1 + 1 /\ 1 + i - 1 = i
    BY <1>1
  <1>7. \A i \in 1 .. n : t[i] = s[i]
    BY <1>2, <1>6
  <1> QED
    BY <1>2, <1>3, <1>4, <1>5, <1>7 DEF n

\* The top write, which is over, is taken off, and its lock given back.
LEMMA Pop ==
    ASSUME NEW c \in Callers, NEW s \in Seq(Frame), s # <<>>,
           NEW L \in [Records -> Callers \cup {None}], NEW M,
           s[Len(s)].locked => M = [L EXCEPT ![s[Len(s)].rec] = None],
           ~s[Len(s)].locked => M = L,
           Holds(c, s, L)
    PROVE  Holds(c, Front(s), M)
  <1> DEFINE t == Front(s)
             n == Len(s)
  <1>0. None \notin Callers
    BY RecordsAssumption
  <1>1. n \in DOMAIN s /\ DOMAIN s = 1 .. n /\ n \in Nat
    OBVIOUS
  <1>2. /\ \A i \in DOMAIN t : i \in DOMAIN s /\ i < n /\ t[i] = s[i]
        /\ \A i \in DOMAIN s : i # n => i \in DOMAIN t
    BY <1>1, FrontOf
  <1>3. \A i \in DOMAIN s : s[i].rec \in Records
    BY FrameFields
  <1>4. \A q \in Records : M[q] = c => L[q] = c
    BY <1>0
  <1>5. \A q \in Records : L[q] = c /\ ~(s[n].locked /\ q = s[n].rec) => M[q] = c
    BY <1>1, <1>3
  <1>6. ASSUME NEW q \in Records, M[q] = c PROVE ~(s[n].locked /\ q = s[n].rec)
    BY <1>0, <1>1, <1>6
  <1> HIDE DEF t, n
  <1>7. \A i \in DOMAIN t : t[i].locked => t[i].at # "lock"
    BY <1>2 DEF Holds
  <1>8. \A i \in DOMAIN t : t[i].locked \/ ~Lockless(t[i]) => M[t[i].rec] = c
    BY <1>1, <1>2, <1>3, <1>5 DEF Holds
  <1>9. \A i, j \in DOMAIN t : t[i].locked /\ j < i /\ t[j].rec = t[i].rec
                               => Lockless(t[j]) /\ ~t[j].locked
    BY <1>2 DEF Holds
  <1>10. ASSUME NEW q \in Records, M[q] = c
         PROVE  \E i \in DOMAIN t : t[i].locked /\ t[i].rec = q
    <2>1. PICK i \in DOMAIN s : s[i].locked /\ s[i].rec = q
      BY <1>4, <1>10 DEF Holds
    <2>2. i # n
      BY <1>6, <1>10, <2>1
    <2> QED
      BY <1>2, <2>1, <2>2
  <1>11. Holds(c, t, M)
    BY <1>7, <1>8, <1>9, <1>10 DEF Holds
  <1> QED
    BY <1>11 DEF t

-----------------------------------------------------------------------------
(* What the steps of a write do to the stacks. *)

Early == {"lock", "check", "done", "failed"}

LEMMA Moved ==
    ASSUME NEW f \in Frame, NEW p \in Places
    PROVE  /\ [f EXCEPT !.at = p] \in Frame
           /\ [f EXCEPT !.at = p].at = p
           /\ [f EXCEPT !.at = p].rec = f.rec
           /\ [f EXCEPT !.at = p].op = f.op
           /\ [f EXCEPT !.at = p].locked <=> f.locked
  <1>1. [f EXCEPT !.at = p] \in Frame
    BY DEF Frame
  <1>2. /\ [f EXCEPT !.at = p].at = p
        /\ [f EXCEPT !.at = p].rec = f.rec
        /\ [f EXCEPT !.at = p].op = f.op
    BY DEF Frame
  <1>3. [f EXCEPT !.at = p].locked <=> f.locked
    BY Zenon DEF Frame
  <1> QED
    BY <1>1, <1>2, <1>3

LEMMA Reduced ==
    ASSUME NEW f \in Frame, NEW R \in SUBSET Records
    PROVE  /\ [f EXCEPT !.left = R] \in Frame
           /\ [f EXCEPT !.left = R].at = f.at
           /\ [f EXCEPT !.left = R].rec = f.rec
           /\ [f EXCEPT !.left = R].locked <=> f.locked
  <1>1. [f EXCEPT !.left = R] \in Frame
    BY DEF Frame
  <1>2. [f EXCEPT !.left = R].at = f.at /\ [f EXCEPT !.left = R].rec = f.rec
    BY DEF Frame
  <1>3. [f EXCEPT !.left = R].locked <=> f.locked
    BY Zenon DEF Frame
  <1> QED
    BY <1>1, <1>2, <1>3

LEMMA TopFrame ==
    ASSUME StackInv, NEW c \in Callers, Running(c)
    PROVE  /\ top(c) \in Frame
           /\ stack[c] \in Seq(Frame) /\ stack[c] # <<>>
           /\ Len(stack[c]) \in DOMAIN stack[c] /\ 1 \in DOMAIN stack[c]
           /\ gate[c] = "in" /\ ask[c] # None
           /\ Len(stack[c]) = 1 => top(c) = stack[c][1]
  <1>1. stack[c] \in Seq(Frame) /\ stack[c] # <<>>
    BY DEF StackInv, Running
  <1>2. Len(stack[c]) \in DOMAIN stack[c] /\ 1 \in DOMAIN stack[c]
    BY <1>1
  <1>3. top(c) \in Frame /\ (Len(stack[c]) = 1 => top(c) = stack[c][1])
    BY <1>1, <1>2 DEF top
  <1>4. gate[c] = "in" /\ ask[c] # None
    BY DEF StackInv, Inside1
  <1> QED
    BY <1>1, <1>2, <1>3, <1>4

\* The stack of c becomes s, with the same first write.
LEMMA StackStep ==
    ASSUME StackInv, NEW c \in Callers, Running(c), NEW s \in Seq(Frame),
           stack' = [stack EXCEPT ![c] = s], Holds(c, s, locks'),
           s # <<>> => s[1].rec = stack[c][1].rec,
           locks' \in [Records -> Callers \cup {None}],
           \A d \in Callers \ {c} : Holds(d, stack[d], locks'),
           UNCHANGED <<gate, ask>>
    PROVE  StackInv'
  <1>1. stack' \in [Callers -> Seq(Frame)] /\ stack'[c] = s
        /\ \A d \in Callers \ {c} : stack'[d] = stack[d]
    BY DEF StackInv
  <1>2. \A d \in Callers : Holds(d, stack'[d], locks')
    BY <1>1
  <1>3. \A d \in Callers : Inside1(d)'
    <2> SUFFICES ASSUME NEW d \in Callers, Running(d)'
                 PROVE  /\ gate[d] = "in"
                        /\ ask[d] # None
                        /\ stack'[d][1].rec = ask[d].write.rec
      BY DEF Inside1
    <2>1. CASE d = c
      BY <1>1, <2>1 DEF StackInv, Inside1, Running
    <2>2. CASE d # c
      BY <1>1, <2>2 DEF StackInv, Inside1, Running
    <2> QED
      BY <2>1, <2>2
  <1> QED
    BY <1>1, <1>2, <1>3 DEF StackInv, Holds, Lockless

\* Who is past the check stays there, and c gets there only by its only write.
LEMMA PastStep ==
    ASSUME StackInv, NEW c \in Callers, Running(c), NEW f, NEW s \in Seq(Frame),
           stack' = [stack EXCEPT ![c] = s], s # <<>>,
           Len(stack[c]) = 1 => s[1] = f, Len(stack[c]) # 1 => s[1] = stack[c][1]
    PROVE  \A d \in Callers : PastCheck(d)' =>
             PastCheck(d) \/ (d = c /\ Len(stack[c]) = 1 /\ f.at \notin Early)
  <1>1. stack'[c] = s /\ \A d \in Callers \ {c} : stack'[d] = stack[d]
    BY DEF StackInv
  <1> QED
    BY <1>1 DEF PastCheck, Running, Early

\* The write on top goes on, with its locks as they are.
LEMMA TopStep ==
    ASSUME StackInv, NEW c \in Callers, Running(c), NEW f \in Frame,
           f.rec = top(c).rec, f.locked <=> top(c).locked, f.at # "lock",
           Lockless(f) \/ ~Lockless(top(c)),
           Top(c, f), UNCHANGED <<gateVars, locks, ask>>
    PROVE  /\ StackInv'
           /\ \A d \in Callers : PastCheck(d)' =>
                PastCheck(d) \/ (d = c /\ Len(stack[c]) = 1 /\ f.at \notin Early)
           /\ top(c).at \notin Early => \A d \in Callers : PastCheck(d)' => PastCheck(d)
  <1> DEFINE n == Len(stack[c])
             s == [stack[c] EXCEPT ![n] = f]
  <1>1. /\ stack[c] \in Seq(Frame) /\ stack[c] # <<>>
        /\ n \in DOMAIN stack[c] /\ 1 \in DOMAIN stack[c]
        /\ top(c) = stack[c][n]
        /\ n = 1 => top(c) = stack[c][1]
    BY TopFrame DEF top
  <1>2. stack' = [stack EXCEPT ![c] = s]
    BY DEF Top
  <1>3. Holds(c, stack[c], locks)
    BY DEF StackInv
  <1>4. s \in Seq(Frame) /\ s # <<>> /\ Holds(c, s, locks)
    BY <1>1, <1>3, ReplaceTop
  <1>5. (n = 1 => s[1] = f) /\ (n # 1 => s[1] = stack[c][1])
    BY <1>1
  <1> HIDE DEF s
  <1>6. s[1].rec = stack[c][1].rec
    BY <1>1, <1>5
  <1>7. UNCHANGED <<gate, ask, locks>>
    BY DEF gateVars
  <1>8. Holds(c, s, locks')
    BY <1>4, <1>7
  <1>9. /\ locks' \in [Records -> Callers \cup {None}]
        /\ \A d \in Callers \ {c} : Holds(d, stack[d], locks')
    BY <1>7 DEF StackInv
  <1>10. StackInv'
    BY <1>2, <1>4, <1>6, <1>7, <1>8, <1>9, StackStep
  <1>11. \A d \in Callers : PastCheck(d)' =>
           PastCheck(d) \/ (d = c /\ Len(stack[c]) = 1 /\ f.at \notin Early)
    BY <1>2, <1>4, <1>5, PastStep
  <1>12. ASSUME top(c).at \notin Early PROVE n = 1 => PastCheck(c)
    BY <1>1, <1>12 DEF PastCheck, Early
  <1> QED
    BY <1>10, <1>11, <1>12

LEMMA GotoStep ==
    ASSUME StackInv, NEW c \in Callers, Running(c), NEW p \in Places, p # "lock",
           p = "failed" \/ ~Lockless(top(c)),
           Goto(c, p), UNCHANGED <<gateVars, locks, ask>>
    PROVE  /\ StackInv'
           /\ \A d \in Callers : PastCheck(d)' =>
                PastCheck(d) \/ (d = c /\ Len(stack[c]) = 1 /\ p \notin Early)
           /\ top(c).at \notin Early => \A d \in Callers : PastCheck(d)' => PastCheck(d)
  <1> DEFINE f == [top(c) EXCEPT !.at = p]
  <1>1. top(c) \in Frame
    BY TopFrame
  <1>2. f \in Frame /\ f.rec = top(c).rec /\ f.at = p /\ (f.locked <=> top(c).locked)
    BY <1>1, Moved
  <1>3. Top(c, f)
    BY DEF Goto
  <1> HIDE DEF f
  <1>4. Lockless(f) \/ ~Lockless(top(c))
    BY <1>2 DEF Lockless
  <1> QED
    BY <1>2, <1>3, <1>4, TopStep

\* The write on top waits for a new one, of w.
LEMMA CallStep ==
    ASSUME StackInv, NEW c \in Callers, Running(c), NEW f \in Frame,
           f.rec = top(c).rec, f.locked <=> top(c).locked, f.at # "lock",
           ~Lockless(top(c)), top(c).at \notin Early,
           NEW w, w.rec \in Records, w.op \in {"update", "point", "delete"},
           Call(c, f, w), UNCHANGED <<gateVars, locks, ask>>
    PROVE  StackInv' /\ \A d \in Callers : PastCheck(d)' => PastCheck(d)
  <1> DEFINE n == Len(stack[c])
             s == [stack[c] EXCEPT ![n] = f]
             t == Append(s, Begun(w))
  <1>1. /\ stack[c] \in Seq(Frame) /\ stack[c] # <<>>
        /\ n \in DOMAIN stack[c] /\ 1 \in DOMAIN stack[c]
        /\ top(c) = stack[c][n]
        /\ n = 1 => top(c) = stack[c][1]
    BY TopFrame DEF top
  <1>2. stack' = [stack EXCEPT ![c] = t]
    BY DEF Call
  <1>3. Holds(c, stack[c], locks)
    BY DEF StackInv
  <1>4. s \in Seq(Frame) /\ s # <<>> /\ Holds(c, s, locks)
    BY <1>1, <1>3, ReplaceTop
  <1>5. (n = 1 => s[1] = f) /\ (n # 1 => s[1] = stack[c][1])
    BY <1>1
  <1> HIDE DEF s
  <1>6. t \in Seq(Frame) /\ t # <<>> /\ Holds(c, t, locks) /\ t[1] = s[1]
    BY <1>4, Push
  <1> HIDE DEF t
  <1>7. t[1].rec = stack[c][1].rec
    BY <1>1, <1>5, <1>6
  <1>8. UNCHANGED <<gate, ask, locks>>
    BY DEF gateVars
  <1>9. /\ Holds(c, t, locks')
        /\ locks' \in [Records -> Callers \cup {None}]
        /\ \A d \in Callers \ {c} : Holds(d, stack[d], locks')
    BY <1>6, <1>8 DEF StackInv
  <1>10. StackInv'
    BY <1>2, <1>6, <1>7, <1>8, <1>9, StackStep
  <1>11. \A d \in Callers : PastCheck(d)' =>
           PastCheck(d) \/ (d = c /\ Len(stack[c]) = 1 /\ f.at \notin Early)
    BY <1>2, <1>5, <1>6, PastStep
  <1>12. n = 1 => PastCheck(c)
    BY <1>1 DEF PastCheck, Early
  <1> QED
    BY <1>10, <1>11, <1>12

LEMMA TakeStep ==
    ASSUME StackInv, NEW c \in Callers, lockRecord(c)
    PROVE  StackInv' /\ \A d \in Callers : PastCheck(d)' => PastCheck(d)
  <1> DEFINE r == top(c).rec
  <1> DEFINE n == Len(stack[c])
             f == [top(c) EXCEPT !.at = "check", !.locked = (locks[r] = None)]
             s == [stack[c] EXCEPT ![n] = f]
  <1>0. None \notin Callers
    BY RecordsAssumption
  <1>1. Running(c) /\ top(c).at = "lock" /\ locks[r] \in {None, c}
    BY DEF lockRecord, At, Free
  <1>2. /\ stack[c] \in Seq(Frame) /\ stack[c] # <<>>
        /\ n \in DOMAIN stack[c] /\ 1 \in DOMAIN stack[c]
        /\ top(c) = stack[c][n] /\ top(c) \in Frame
    BY <1>1, TopFrame DEF top
  <1>3. r \in Records
    BY <1>2, FrameFields
  <1>4. stack' = [stack EXCEPT ![c] = s] /\ locks' = [locks EXCEPT ![r] = c]
    BY DEF lockRecord, Top
  <1>5. f.rec = r /\ f.at = "check"
    BY <1>2 DEF Frame
  <1>6. f.locked <=> locks[r] = None
    BY <1>2, Zenon DEF Frame
  <1>7. f \in Frame
    <2>1. "check" \in Places /\ (locks[r] = None) \in BOOLEAN
      BY DEF Places
    <2> QED
      BY <1>2, <2>1, Zenon DEF Frame
  <1>8. locks \in [Records -> Callers \cup {None}] /\ Holds(c, stack[c], locks)
    BY DEF StackInv
  <1> HIDE DEF f, r
  <1>9. s \in Seq(Frame) /\ s # <<>> /\ Holds(c, s, [locks EXCEPT ![r] = c])
    <2>1. f.rec = stack[c][n].rec /\ r = f.rec /\ stack[c][n].at = "lock"
      BY <1>1, <1>2, <1>5 DEF r
    <2>2. stack[c] \in Seq(Frame) /\ stack[c] # <<>> /\ locks[r] \in {None, c}
      BY <1>1, <1>2 DEF r
    <2>3. /\ stack[c][Len(stack[c])].at = "lock"
          /\ f.rec = stack[c][Len(stack[c])].rec
      BY <2>1
    <2>4. /\ [stack[c] EXCEPT ![Len(stack[c])] = f] \in Seq(Frame)
          /\ [stack[c] EXCEPT ![Len(stack[c])] = f] # <<>>
          /\ Holds(c, [stack[c] EXCEPT ![Len(stack[c])] = f], [locks EXCEPT ![r] = c])
      <3> HIDE DEF n, s
      <3> QED
        BY <1>3, <1>5, <1>6, <1>7, <1>8, <2>1, <2>2, <2>3, Take
    <2> QED
      BY <2>4
  <1>10. (n = 1 => s[1] = f) /\ (n # 1 => s[1] = stack[c][1])
    BY <1>2
  <1> HIDE DEF s
  <1>11. s[1].rec = stack[c][1].rec
    BY <1>2, <1>5, <1>10 DEF r
  <1>12. UNCHANGED <<gate, ask>>
    BY DEF lockRecord, gateVars
  <1>13. locks' \in [Records -> Callers \cup {None}]
    BY <1>4, <1>8
  <1>14. ASSUME NEW d \in Callers \ {c} PROVE Holds(d, stack[d], locks')
    <2>1. stack[d] \in Seq(Frame) /\ Holds(d, stack[d], locks) /\ locks[r] # d
      BY <1>0, <1>1 DEF StackInv
    <2> QED
      BY <1>3, <1>4, <1>8, <2>1, Others
  <1>15. StackInv'
    BY <1>1, <1>4, <1>9, <1>11, <1>12, <1>13, <1>14, StackStep
  <1>16. \A d \in Callers : PastCheck(d)' =>
           PastCheck(d) \/ (d = c /\ Len(stack[c]) = 1 /\ f.at \notin Early)
    BY <1>1, <1>4, <1>9, <1>10, PastStep
  <1> QED
    BY <1>5, <1>15, <1>16 DEF Early

LEMMA ReturnStep ==
    ASSUME StackInv, NEW c \in Callers, Return(c)
    PROVE  StackInv' /\ \A d \in Callers : PastCheck(d)' => PastCheck(d)
  <1> DEFINE n == Len(stack[c])
             rest == Front(stack[c])
             f == [rest[Len(rest)] EXCEPT !.at = "failed"]
             s == [rest EXCEPT ![Len(rest)] = f]
  <1>0. None \notin Callers
    BY RecordsAssumption
  <1>1. Running(c) /\ locks' = Unlocked(c) /\ UNCHANGED <<gate, ask>>
    BY DEF Return, gateVars
  <1>2. /\ stack[c] \in Seq(Frame) /\ stack[c] # <<>>
        /\ n \in DOMAIN stack[c] /\ 1 \in DOMAIN stack[c]
        /\ top(c) = stack[c][n] /\ top(c) \in Frame
    BY <1>1, TopFrame DEF top
  <1>3. /\ top(c).locked => locks' = [locks EXCEPT ![top(c).rec] = None]
        /\ ~top(c).locked => locks' = locks
    BY <1>1 DEF Unlocked
  <1>4. /\ locks \in [Records -> Callers \cup {None}]
        /\ stack \in [Callers -> Seq(Frame)]
        /\ \A d \in Callers : Holds(d, stack[d], locks)
    BY DEF StackInv
  <1>5. top(c).rec \in Records
    BY <1>2, FrameFields
  <1>6. locks' \in [Records -> Callers \cup {None}]
    BY <1>3, <1>4
  <1>7. ASSUME NEW d \in Callers \ {c} PROVE Holds(d, stack[d], locks')
    <2>1. stack[d] \in Seq(Frame) /\ Holds(d, stack[d], locks)
      BY <1>4
    <2>2. CASE top(c).locked
      <3>1. locks[top(c).rec] = c
        BY <1>2, <1>4, <2>2 DEF Holds
      <3>2. d \in Callers /\ None # d /\ locks[top(c).rec] # d
        BY <1>0, <3>1
      <3>3. Holds(d, stack[d], [locks EXCEPT ![top(c).rec] = None])
        BY <1>4, <1>5, <2>1, <3>2, Others
      <3> QED
        BY <1>3, <2>2, <3>3
    <2>3. CASE ~top(c).locked
      BY <1>3, <2>1, <2>3
    <2> QED
      BY <2>2, <2>3
  <1>8. Holds(c, rest, locks')
    BY <1>2, <1>3, <1>4, Pop
  <1>9. /\ rest \in Seq(Frame)
        /\ rest # <<>> => rest[1] = stack[c][1] /\ n # 1
    <2>1. /\ rest \in Seq(Frame) /\ DOMAIN rest = 1 .. n - 1 /\ Len(rest) = n - 1
          /\ \A i \in DOMAIN rest : rest[i] = stack[c][i]
      BY <1>2, FrontOf
    <2> HIDE DEF rest
    <2>2. rest # <<>> => 1 \in DOMAIN rest /\ n # 1
      BY <1>2, <2>1
    <2> QED
      BY <2>1, <2>2
  <1>10. CASE stack' = [stack EXCEPT ![c] = rest]
    <2> HIDE DEF rest
    <2>1. StackInv'
      BY <1>1, <1>6, <1>7, <1>8, <1>9, <1>10, StackStep
    <2>2. \A d \in Callers : PastCheck(d)' => PastCheck(d)
      <3>1. stack'[c] = rest /\ \A d \in Callers \ {c} : stack'[d] = stack[d]
        BY <1>4, <1>10
      <3>2. PastCheck(c)' => PastCheck(c)
        BY <1>1, <1>9, <3>1 DEF PastCheck, Running
      <3>3. \A d \in Callers \ {c} : PastCheck(d)' => PastCheck(d)
        BY <3>1 DEF PastCheck, Running
      <3> QED
        BY <3>2, <3>3
    <2> QED
      BY <2>1, <2>2
  <1>11. CASE rest # <<>> /\ stack' = [stack EXCEPT ![c] = [rest EXCEPT ![Len(rest)].at = "failed"]]
    <2>1. Len(rest) \in DOMAIN rest /\ rest[Len(rest)] \in Frame
      <3> HIDE DEF rest
      <3> QED
        BY <1>9, <1>11
    <2>2. stack' = [stack EXCEPT ![c] = s]
      BY <1>11
    <2>3. /\ f \in Frame /\ f.at = "failed" /\ f.rec = rest[Len(rest)].rec
          /\ f.locked <=> rest[Len(rest)].locked
      BY <2>1, Moved DEF Places
    <2> HIDE DEF rest, f
    <2>4. s \in Seq(Frame) /\ s # <<>> /\ Holds(c, s, locks')
      BY <1>8, <1>9, <1>11, <2>3, ReplaceTop DEF Lockless
    <2>5. s[1] = f \/ s[1] = rest[1]
      BY <1>9, <1>11
    <2>6. s[1].rec = rest[1].rec
      BY <1>9, <1>11, <2>1, <2>3
    <2> HIDE DEF s
    <2>7. StackInv'
      BY <1>1, <1>6, <1>7, <1>9, <1>11, <2>2, <2>4, <2>6, StackStep
    <2>8. \A d \in Callers : PastCheck(d)' => PastCheck(d)
      <3>1. stack'[c] = s /\ \A d \in Callers \ {c} : stack'[d] = stack[d]
        BY <1>4, <2>2
      <3> QED
        BY <1>2, <1>9, <1>11, <2>3, <2>5, <3>1 DEF PastCheck, Running
    <2> QED
      BY <2>7, <2>8
  <1>12. \/ stack' = [stack EXCEPT ![c] = rest]
         \/ rest # <<>> /\ stack' = [stack EXCEPT ![c] = [rest EXCEPT ![Len(rest)].at = "failed"]]
    <2> HIDE DEF f, s
    <2> QED
      BY Zenon DEF Return
  <1> QED
    BY <1>10, <1>11, <1>12

LEMMA Alone ==
    ASSUME GateInv, StackInv, NEW c \in Batches, Running(c), NEW d \in Callers, Running(d)
    PROVE  d = c
  <1>1. gate[c] = "in" /\ gate[d] = "in"
    BY TopFrame DEF Callers
  <1> QED
    BY <1>1 DEF GateInv, Exclusion, Inside, Callers

\* A step that changes no record and answers nobody.
LEMMA QuietStep ==
    ASSUME LockInv, StackInv', \A d \in Callers : PastCheck(d)' => PastCheck(d),
           UNCHANGED <<there, points, ask, changed, undo>>
    PROVE  LockInv'
  BY DEF LockInv, DataInv, IfMatchHolds

-----------------------------------------------------------------------------
(* Calls come, enter and leave. *)

\* The request of c comes, or is answered, while c has no write.
LEMMA AskStep ==
    ASSUME StackInv, NEW c \in Callers, ~Running(c), NEW a, ask' = [ask EXCEPT ![c] = a],
           UNCHANGED <<locks, stack>>, DataInv,
           \A d \in Callers \ {c} : gate'[d] = gate[d]
    PROVE  /\ StackInv'
           /\ \A d \in Callers \ {c} : ask'[d] = ask[d]
           /\ \A d \in Callers : PastCheck(d)' => PastCheck(d) /\ d # c
  <1>1. \A d \in Callers \ {c} : ask'[d] = ask[d]
    BY DEF DataInv
  <1>2. \A d \in Callers : Inside1(d)'
    BY <1>1 DEF StackInv, Inside1, Running
  <1>3. \A d \in Callers : Holds(d, stack'[d], locks')
    BY DEF StackInv
  <1>4. locks' \in [Records -> Callers \cup {None}] /\ stack' \in [Callers -> Seq(Frame)]
    BY DEF StackInv
  <1>5. StackInv'
    BY <1>2, <1>3, <1>4 DEF StackInv, Holds, Lockless
  <1> QED
    BY <1>1, <1>5 DEF PastCheck, Running

LEMMA AskedInv ==
    ASSUME LockInv, NEW c \in Callers, Asked(c)
    PROVE  LockInv'
  <1>1. PICK a \in Asks[c] : ask' = [ask EXCEPT ![c] = a]
    BY DEF Asked
  <1>2. ask[c] = None /\ UNCHANGED <<locks, stack, gate, there, points, changed>>
    BY DEF Asked, gateVars
  <1>3. StackInv /\ DataInv /\ IfMatchHolds
    BY DEF LockInv
  <1>4. ~Running(c)
    BY <1>2, <1>3 DEF StackInv, Inside1
  <1>5. a \in Request
    BY RecordsAssumption
  <1>6. \A d \in Callers \ {c} : gate'[d] = gate[d]
    BY <1>2
  <1>7. /\ StackInv'
        /\ \A d \in Callers \ {c} : ask'[d] = ask[d]
        /\ \A d \in Callers : PastCheck(d)' => PastCheck(d) /\ d # c
    BY <1>1, <1>2, <1>3, <1>4, <1>6, AskStep
  <1>8. undo' = undo \/ undo' = [undo EXCEPT !.changed = @ \cup {c}]
    BY DEF Asked
  <1>9. DataInv'
    BY <1>1, <1>2, <1>3, <1>5, <1>8 DEF DataInv
  <1>10. IfMatchHolds'
    BY <1>2, <1>3, <1>7 DEF IfMatchHolds
  <1> QED
    BY <1>7, <1>9, <1>10 DEF LockInv

LEMMA GateMoves ==
    ASSUME GateInv, NEW c \in Callers
    PROVE  /\ Park(c) => gate[c] # "in" /\ \A d \in Callers \ {c} : gate'[d] = gate[d]
           /\ Enter(c) => /\ gate[c] # "in" /\ gate'[c] = "in"
                          /\ \A d \in Callers \ {c} : gate'[d] = gate[d]
           /\ Answer(c) => \A d \in Callers \ {c} : gate'[d] = gate[d]
  <1>1. gate \in [Callers -> {"out", "waiting", "in"}]
    BY DEF GateInv, GateTypeOK
  <1>2. Park(c) => gate[c] # "in" /\ gate' = [gate EXCEPT ![c] = "waiting"]
    BY DEF Park, ParkShared, ParkExclusive, Runs, nextWake
  <1>3. Enter(c) => gate[c] # "in" /\ gate' = [gate EXCEPT ![c] = "in"]
    BY DEF Enter, AcquireShared, AcquireExclusive, Runs
  <1>4. Answer(c) => gate' = [gate EXCEPT ![c] = "out"]
    BY DEF Answer, ReleaseShared, ReleaseExclusive
  <1> QED
    BY <1>1, <1>2, <1>3, <1>4

LEMMA ParkInv ==
    ASSUME GateInv, LockInv, NEW c \in Callers, Park(c)
    PROVE  LockInv'
  <1>1. gate[c] # "in" /\ \A d \in Callers \ {c} : gate'[d] = gate[d]
    BY GateMoves
  <1>2. UNCHANGED <<there, points, locks, ask, stack, changed, undo>>
    BY DEF Park, recordVars
  <1>3. StackInv
    BY DEF LockInv
  <1>4. \A d \in Callers : Inside1(d)'
    BY <1>1, <1>2, <1>3 DEF StackInv, Inside1, Running
  <1>5. StackInv'
    BY <1>2, <1>3, <1>4 DEF StackInv, Holds, Lockless
  <1>6. \A d \in Callers : PastCheck(d)' => PastCheck(d)
    BY <1>2 DEF PastCheck, Running
  <1> QED
    BY <1>2, <1>5, <1>6, QuietStep

LEMMA EnterInv ==
    ASSUME GateInv, LockInv, NEW c \in Callers, Enter(c)
    PROVE  LockInv'
  <1> DEFINE w == ask[c].write
  <1>1. /\ gate[c] # "in" /\ gate'[c] = "in"
        /\ \A d \in Callers \ {c} : gate'[d] = gate[d]
    BY GateMoves
  <1>2. /\ UNCHANGED <<there, points, locks, ask, changed>>
        /\ ask[c] # None
        /\ stack' = [stack EXCEPT ![c] = <<Begun(w)>>]
    BY DEF Enter
  <1>3. StackInv /\ DataInv /\ IfMatchHolds
    BY DEF LockInv
  <1>4. w.rec \in Records /\ w.op \in {"update", "point", "delete"}
    BY <1>2, <1>3 DEF DataInv, Request, Write
  <1>5. stack[c] = <<>>
    BY <1>1, <1>3 DEF StackInv, Inside1, Running
  <1>6. Begun(w) \in Frame /\ Begun(w).rec = w.rec /\ Begun(w).at = "lock"
    BY <1>4, BegunFrame
  <1>7. Append(stack[c], Begun(w)) = <<Begun(w)>>
    BY <1>5
  <1>8. stack[c] \in Seq(Frame) /\ Holds(c, stack[c], locks)
    BY <1>3 DEF StackInv
  <1>9. /\ Append(stack[c], Begun(w)) \in Seq(Frame)
        /\ Holds(c, Append(stack[c], Begun(w)), locks)
    BY <1>4, <1>8, Push
  <1> HIDE DEF w
  <1>10. /\ stack' \in [Callers -> Seq(Frame)]
         /\ stack'[c] = <<Begun(w)>>
         /\ \A d \in Callers \ {c} : stack'[d] = stack[d]
    BY <1>2, <1>3, <1>7, <1>9 DEF StackInv
  <1>11. \A d \in Callers : Holds(d, stack'[d], locks')
    BY <1>2, <1>3, <1>7, <1>9, <1>10 DEF StackInv
  <1>12. Inside1(c)'
    BY <1>1, <1>2, <1>6, <1>10 DEF Inside1, w
  <1>13. \A d \in Callers \ {c} : Inside1(d)'
    BY <1>1, <1>2, <1>3, <1>10 DEF StackInv, Inside1, Running
  <1>14. StackInv'
    BY <1>2, <1>3, <1>10, <1>11, <1>12, <1>13 DEF StackInv, Holds, Lockless
  <1>15. \A d \in Callers : PastCheck(d)' => PastCheck(d)
    BY <1>6, <1>10 DEF PastCheck, Running
  <1>16. \/ undo' = undo
         \/ undo' = [there |-> there, points |-> points, changed |-> changed, wrote |-> {}]
    BY DEF Enter
  <1>17. DataInv'
    BY <1>2, <1>3, <1>16 DEF DataInv
  <1>18. IfMatchHolds'
    BY <1>2, <1>3, <1>15 DEF IfMatchHolds
  <1> QED
    BY <1>14, <1>17, <1>18 DEF LockInv

LEMMA AnswerInv ==
    ASSUME GateInv, LockInv, NEW c \in Callers, Answer(c)
    PROVE  LockInv'
  <1>1. \A d \in Callers \ {c} : gate'[d] = gate[d]
    BY GateMoves
  <1>2. /\ ~Running(c)
        /\ UNCHANGED <<there, points, locks, stack>>
        /\ ask' = [ask EXCEPT ![c] = None]
        /\ changed' = changed \ {c}
        /\ undo' = undo \/ undo' = NoUndo
    BY DEF Answer
  <1>3. StackInv /\ DataInv /\ IfMatchHolds
    BY DEF LockInv
  <1>4. /\ StackInv'
        /\ \A d \in Callers \ {c} : ask'[d] = ask[d]
        /\ \A d \in Callers : PastCheck(d)' => PastCheck(d) /\ d # c
    BY <1>1, <1>2, <1>3, AskStep
  <1>5. DataInv'
    BY <1>2, <1>3 DEF DataInv, NoUndo
  <1>6. IfMatchHolds'
    BY <1>2, <1>3, <1>4 DEF IfMatchHolds
  <1> QED
    BY <1>4, <1>5, <1>6 DEF LockInv

-----------------------------------------------------------------------------
(* The steps that read or write records. *)

LEMMA CheckInv ==
    ASSUME LockInv, NEW c \in Callers, Check(c)
    PROVE  LockInv'
  <1>1. StackInv /\ DataInv /\ IfMatchHolds
    BY DEF LockInv
  <1>2. Running(c) /\ top(c).at = "check" /\ UNCHANGED <<gateVars, there, points, locks, ask, changed, undo>>
    BY DEF Check, At
  <1>3. PICK p \in Places : /\ Goto(c, p) /\ p # "lock"
                            /\ Guarded(c) /\ c \in changed => p = "failed"
    <2>1. AtHook(c) \in Places \ {"lock"}
      BY DEF AtHook, AfterHook, Places
    <2>2. CASE Guarded(c) /\ c \in changed
      <3>1. Goto(c, "failed")
        BY <2>2 DEF Check, Fail
      <3> QED
        BY <3>1 DEF Places
    <2>3. CASE ~(Guarded(c) /\ c \in changed)
      <3>1. \/ Goto(c, "done") \/ Goto(c, "failed")
            \/ Goto(c, "restrict") \/ Goto(c, AtHook(c))
        BY <2>3 DEF Check, Fail
      <3> QED
        BY <2>1, <2>3, <3>1 DEF Places
    <2> QED
      BY <2>2, <2>3
  <1>4. /\ StackInv'
        /\ \A d \in Callers : PastCheck(d)' =>
             PastCheck(d) \/ (d = c /\ Len(stack[c]) = 1 /\ p \notin Early)
    BY <1>1, <1>2, <1>3, GotoStep DEF Lockless
  <1>5. IfMatchHolds'
    BY <1>1, <1>2, <1>3, <1>4 DEF IfMatchHolds, Guarded, Early
  <1>6. DataInv'
    BY <1>1, <1>2 DEF DataInv
  <1> QED
    BY <1>4, <1>5, <1>6 DEF LockInv

LEMMA WriteRowInv ==
    ASSUME LockInv, NEW c \in Callers, WriteRow(c)
    PROVE  LockInv'
  <1> DEFINE r == top(c).rec
  <1>1. StackInv /\ DataInv /\ IfMatchHolds
    BY DEF LockInv
  <1>2. /\ Running(c) /\ top(c).at = "write"
        /\ UNCHANGED <<gateVars, locks, ask>>
        /\ Goto(c, "done") \/ Goto(c, "failed")
        /\ Touches(c, {r}, Readers(c, {r}))
    BY DEF WriteRow, At, Fail
  <1>3. StackInv' /\ \A d \in Callers : PastCheck(d)' => PastCheck(d)
    BY <1>1, <1>2, GotoStep DEF Lockless, Places, Early
  <1>4. top(c) \in Frame /\ Len(stack[c]) \in DOMAIN stack[c]
    BY <1>1, <1>2, TopFrame
  <1>5. r \in Records
    BY <1>4, FrameFields
  <1>6. locks[r] = c
    BY <1>1, <1>2, <1>4 DEF StackInv, Holds, Lockless, top
  <1>7. ASSUME NEW d \in Callers, PastCheck(d) PROVE d \notin Readers(c, {r})
    <2>1. 1 \in DOMAIN stack[d] /\ Running(d)
      BY <1>1, <1>7, TopFrame DEF PastCheck
    <2>2. locks[stack[d][1].rec] = d
      BY <1>1, <1>7, <2>1 DEF StackInv, Holds, Lockless, PastCheck
    <2>3. stack[d][1].rec = ask[d].write.rec
      BY <1>1, <2>1 DEF StackInv, Inside1
    <2> QED
      BY <1>6, <2>2, <2>3 DEF Readers
  <1> HIDE DEF r
  <1>8. changed' = changed \cup Readers(c, {r}) /\ Readers(c, {r}) \subseteq Callers
    BY <1>2 DEF Touches, Readers
  <1>9. IfMatchHolds'
    BY <1>1, <1>2, <1>3, <1>7, <1>8 DEF IfMatchHolds
  <1>10. there' \subseteq Records /\ points' \subseteq Records
    BY <1>1, <1>5 DEF WriteRow, DataInv, r
  <1>11. undo' = undo \/ undo' = [undo EXCEPT !.wrote = @ \cup {r}]
    BY <1>2 DEF Touches
  <1>12. DataInv'
    BY <1>1, <1>2, <1>5, <1>8, <1>10, <1>11 DEF DataInv
  <1> QED
    BY <1>3, <1>9, <1>12 DEF LockInv

LEMMA SetNullInv ==
    ASSUME GateInv, LockInv, NEW c \in Callers, SetNull(c)
    PROVE  LockInv'
  <1> DEFINE R == Referring("setNull")
             D == Readers(c, R)
             E == IF c \in Batches THEN D ELSE {d \in D : ~PastCheck(d)}
  <1>1. StackInv /\ DataInv /\ IfMatchHolds
    BY DEF LockInv
  <1>2. /\ Running(c) /\ top(c).at = "wait"
        /\ UNCHANGED <<gateVars, there, locks, ask>>
        /\ Goto(c, "read ids")
        /\ Touches(c, R, E)
        /\ points' = points \ R
    BY DEF SetNull, At
  <1>3. StackInv' /\ \A d \in Callers : PastCheck(d)' => PastCheck(d)
    BY <1>1, <1>2, GotoStep DEF Lockless, Places, Early
  <1>4. R \subseteq Records /\ D \subseteq Callers \ {c}
    BY <1>1 DEF Referring, Readers, DataInv
  <1>5. ASSUME NEW d \in Callers, PastCheck(d) PROVE d \notin E
    <2>1. CASE c \in Batches
      <3>1. d = c
        BY <1>1, <1>2, <1>5, <2>1, Alone DEF PastCheck
      <3> QED
        BY <1>4, <2>1, <3>1
    <2>2. CASE c \notin Batches
      BY <1>5, <2>2
    <2> QED
      BY <2>1, <2>2
  <1>6. E \subseteq Callers
    BY <1>4
  <1> HIDE DEF R, D, E
  <1>7. changed' = changed \cup E
    BY <1>2 DEF Touches
  <1>8. IfMatchHolds'
    BY <1>1, <1>2, <1>3, <1>5, <1>7 DEF IfMatchHolds
  <1>9. undo' = undo \/ undo' = [undo EXCEPT !.wrote = @ \cup R]
    BY <1>2 DEF Touches
  <1>10. DataInv'
    BY <1>1, <1>2, <1>4, <1>6, <1>7, <1>9 DEF DataInv
  <1> QED
    BY <1>3, <1>8, <1>10 DEF LockInv

LEMMA ReturnInv ==
    ASSUME GateInv, LockInv, NEW c \in Callers, Return(c)
    PROVE  LockInv'
  <1>1. StackInv /\ DataInv /\ IfMatchHolds
    BY DEF LockInv
  <1>2. StackInv' /\ \A d \in Callers : PastCheck(d)' => PastCheck(d)
    BY <1>1, ReturnStep
  <1>3. UNCHANGED <<ask, undo>>
    BY DEF Return
  <1>4. CASE UNCHANGED <<there, points, changed>>
    BY <1>2, <1>3, <1>4, QuietStep
  <1>5. CASE /\ c \in Batches /\ Front(stack[c]) = <<>> /\ stack' = [stack EXCEPT ![c] = <<>>]
             /\ there' = undo.there /\ points' = undo.points /\ changed' = undo.changed
    <2>1. Running(c)
      BY DEF Return
    <2>2. \A d \in Callers : ~PastCheck(d)'
      <3> SUFFICES ASSUME NEW d \in Callers, PastCheck(d)' PROVE FALSE
        OBVIOUS
      <3>1. Running(d)
        BY <1>2 DEF PastCheck
      <3>2. d = c
        BY <1>1, <1>5, <2>1, <3>1, Alone
      <3> QED
        BY <1>1, <1>5, <3>2 DEF PastCheck, Running, StackInv
    <2>3. DataInv'
      BY <1>1, <1>3, <1>5 DEF DataInv
    <2> QED
      BY <1>2, <2>2, <2>3 DEF LockInv, IfMatchHolds
  <1>6. \/ UNCHANGED <<there, points, changed>>
        \/ /\ c \in Batches /\ Front(stack[c]) = <<>> /\ stack' = [stack EXCEPT ![c] = <<>>]
           /\ there' = undo.there /\ points' = undo.points /\ changed' = undo.changed
    BY Zenon DEF Return
  <1> QED
    BY <1>4, <1>5, <1>6

LEMMA WithinInv ==
    ASSUME LockInv, NEW c \in Callers,
           \/ lockRecord(c) \/ waitForRecordLock(c) \/ Busy(c)
           \/ checkRestrict(c) \/ runBeforeHook(c) \/ validateRecord(c)
           \/ ReadRows(c) \/ ReadIds(c) \/ DeleteChild(c) \/ ChildrenGone(c) \/ Forbidden(c)
    PROVE  LockInv'
  <1>1. StackInv /\ DataInv
    BY DEF LockInv
  <1>2. Running(c) /\ UNCHANGED <<gateVars, there, points, ask, changed, undo>>
    BY DEF lockRecord, waitForRecordLock, Busy, checkRestrict, runBeforeHook, validateRecord,
           ReadRows, ReadIds, DeleteChild, ChildrenGone, Forbidden, At
  <1>3. top(c) \in Frame
    BY <1>1, <1>2, TopFrame
  <1> SUFFICES StackInv' /\ \A d \in Callers : PastCheck(d)' => PastCheck(d)
    BY <1>2, QuietStep
  <1>4. CASE lockRecord(c)
    BY <1>1, <1>4, TakeStep
  <1>5. CASE waitForRecordLock(c)
    <2>1. /\ top(c).at = "wait"
          /\ UNCHANGED locks
          /\ \E k \in top(c).left : Top(c, [top(c) EXCEPT !.left = @ \ {k}])
      BY <1>5 DEF waitForRecordLock, At
    <2>2. PICK k \in top(c).left : Top(c, [top(c) EXCEPT !.left = @ \ {k}])
      BY <2>1
    <2> DEFINE R == top(c).left \ {k}
               f == [top(c) EXCEPT !.left = R]
    <2>3. Top(c, f)
      BY <2>2
    <2>4. R \in SUBSET Records
      BY <1>3, FrameFields
    <2> HIDE DEF R
    <2>5. /\ f \in Frame /\ f.at = "wait" /\ f.rec = top(c).rec
          /\ f.locked <=> top(c).locked
      BY <1>3, <2>1, <2>4, Reduced
    <2> HIDE DEF f
    <2> QED
      BY <1>1, <1>2, <2>1, <2>3, <2>5, TopStep DEF Lockless, Early
  <1>6. CASE Busy(c)
    <2>1. Goto(c, "failed") /\ UNCHANGED locks /\ "failed" \in Places /\ "failed" \in Early
      BY <1>6 DEF Busy, Fail, Places, Early
    <2> QED
      BY <1>1, <1>2, <2>1, GotoStep
  <1>7. CASE checkRestrict(c)
    <2>1. AtHook(c) \in Places \ {"lock"}
      BY DEF AtHook, AfterHook, Places
    <2>2. top(c).at = "restrict" /\ UNCHANGED locks /\ (Goto(c, "failed") \/ Goto(c, AtHook(c)))
      BY <1>7 DEF checkRestrict, At, Fail
    <2>3. PICK p \in Places \ {"lock"} : Goto(c, p)
      BY <2>1, <2>2 DEF Places
    <2> QED
      BY <1>1, <1>2, <2>2, <2>3, GotoStep DEF Lockless, Early
  <1>8. CASE runBeforeHook(c)
    <2>1. /\ top(c).at = "hook" /\ Hooked(c) /\ UNCHANGED locks
          /\ \/ Call(c, [top(c) EXCEPT !.at = AfterHook(top(c))], ask[c].hook)
             \/ Goto(c, "failed")
      BY <1>8 DEF runBeforeHook, At, Fail
    <2>2. CASE Goto(c, "failed")
      BY <1>1, <1>2, <2>1, <2>2, GotoStep DEF Places, Early
    <2>3. CASE Call(c, [top(c) EXCEPT !.at = AfterHook(top(c))], ask[c].hook)
      <3> DEFINE p == AfterHook(top(c))
                 f == [top(c) EXCEPT !.at = p]
                 w == ask[c].hook
      <3>1. p \in Places \ {"lock"}
        BY DEF AfterHook, Places
      <3>2. Call(c, f, w)
        BY <2>3
      <3>3. w.rec \in Records /\ w.op \in {"update", "point", "delete"}
        <4>1. ask[c] # None /\ w # None
          BY <1>1, <1>2, <2>1, TopFrame DEF Hooked
        <4>2. w \in Write
          BY <1>1, <4>1 DEF DataInv, Request
        <4> QED
          BY <4>2 DEF Write
      <3> HIDE DEF p, w
      <3>4. /\ f \in Frame /\ f.at = p /\ f.rec = top(c).rec
            /\ f.locked <=> top(c).locked
        BY <1>3, <3>1, Moved
      <3> HIDE DEF f
      <3>5. ~Lockless(top(c)) /\ top(c).at \notin Early
        BY <2>1 DEF Lockless, Early
      <3> QED
        BY <1>1, <1>2, <2>1, <3>1, <3>2, <3>3, <3>4, <3>5, CallStep
    <2> QED
      BY <2>1, <2>2, <2>3
  <1>9. CASE validateRecord(c)
    <2>1. top(c).at = "validate" /\ UNCHANGED locks /\ (Goto(c, "write") \/ Goto(c, "failed"))
      BY <1>9 DEF validateRecord, At, Fail
    <2> QED
      BY <1>1, <1>2, <2>1, GotoStep DEF Lockless, Places, Early
  <1>10. CASE ReadRows(c) \/ ReadIds(c)
    <2>1. \E R \in SUBSET Records, p \in {"read ids", "wait", "children"} :
            \/ Top(c, [top(c) EXCEPT !.at = p])
            \/ Top(c, [top(c) EXCEPT !.at = p, !.left = R])
      <3>1. Referring("setNull") \in SUBSET Records /\ Referring("cascade") \in SUBSET Records
        BY <1>1 DEF DataInv, Referring
      <3> QED
        BY <1>10, <3>1 DEF ReadRows, ReadIds
    <2>2. PICK R \in SUBSET Records, p \in {"read ids", "wait", "children"} :
            \/ Top(c, [top(c) EXCEPT !.at = p])
            \/ Top(c, [top(c) EXCEPT !.at = p, !.left = R])
      BY <2>1
    <2>3. /\ top(c).at \in {"read rows", "read ids"} /\ UNCHANGED locks
      BY <1>10 DEF ReadRows, ReadIds, At
    <2>4. p \in Places /\ p # "lock" /\ p # "failed"
      BY DEF Places
    <2> DEFINE e == [top(c) EXCEPT !.at = p]
               f == [e EXCEPT !.left = R]
    <2>5. /\ e \in Frame /\ e.at = p /\ e.rec = top(c).rec
          /\ e.locked <=> top(c).locked
      BY <1>3, <2>4, Moved
    <2>6. Top(c, e) \/ Top(c, f)
      BY <1>3, <2>2 DEF Frame
    <2> HIDE DEF e
    <2>7. /\ f \in Frame /\ f.at = p /\ f.rec = top(c).rec
          /\ f.locked <=> e.locked
      BY <2>5, Reduced
    <2> HIDE DEF f
    <2> QED
      BY <1>1, <1>2, <2>3, <2>4, <2>5, <2>6, <2>7, TopStep DEF Lockless, Early
  <1>11. CASE DeleteChild(c)
    <2>1. top(c).at = "children" /\ UNCHANGED locks
      BY <1>11 DEF DeleteChild, At
    <2>2. PICK k \in top(c).left :
            Call(c, [top(c) EXCEPT !.left = @ \ {k}], [op |-> "delete", rec |-> k])
      BY <1>11 DEF DeleteChild
    <2> DEFINE R == top(c).left \ {k}
               f == [top(c) EXCEPT !.left = R]
               w == [op |-> "delete", rec |-> k]
    <2>3. Call(c, f, w)
      BY <2>2
    <2>4. k \in Records /\ R \in SUBSET Records
      BY <1>3, FrameFields
    <2>5. w.rec \in Records /\ w.op \in {"update", "point", "delete"}
      BY <2>4
    <2> HIDE DEF R, w
    <2>6. /\ f \in Frame /\ f.at = "children" /\ f.rec = top(c).rec
          /\ f.locked <=> top(c).locked
      BY <1>3, <2>1, <2>4, Reduced
    <2> HIDE DEF f
    <2> QED
      BY <1>1, <1>2, <2>1, <2>3, <2>5, <2>6, CallStep DEF Lockless, Early
  <1>12. CASE ChildrenGone(c) \/ Forbidden(c)
    <2>1. top(c).at = "children" /\ UNCHANGED locks /\ (Goto(c, "write") \/ Goto(c, "failed"))
      BY <1>12 DEF ChildrenGone, Forbidden, At, Fail
    <2> QED
      BY <1>1, <1>2, <2>1, GotoStep DEF Lockless, Places, Early
  <1> QED
    BY <1>4, <1>5, <1>6, <1>7, <1>8, <1>9, <1>10, <1>11, <1>12

-----------------------------------------------------------------------------

LEMMA LockInvInit == Init => LockInv
  <1> SUFFICES ASSUME Init PROVE LockInv
    OBVIOUS
  <1>1. /\ there = Records /\ points \subseteq Children /\ changed = {} /\ undo = NoUndo
        /\ locks = [r \in Records |-> None]
        /\ ask = [c \in Callers |-> None]
        /\ stack = [c \in Callers |-> <<>>]
    BY DEF Init
  <1>2. DataInv
    BY <1>1 DEF DataInv, NoUndo, Records
  <1>3. \A c \in Callers : stack[c] = <<>> /\ ~Running(c) /\ ~PastCheck(c)
    BY <1>1 DEF Running, PastCheck
  <1>4. \A c \in Callers : Holds(c, stack[c], locks)
    BY <1>1, RecordsAssumption DEF Holds
  <1>5. stack \in [Callers -> Seq(Frame)] /\ locks \in [Records -> Callers \cup {None}]
    BY <1>1
  <1>6. StackInv
    BY <1>3, <1>4, <1>5 DEF StackInv, Inside1
  <1> QED
    BY <1>2, <1>3, <1>6 DEF LockInv, IfMatchHolds

LEMMA LockInvNext == GateInv /\ LockInv /\ [Next]_vars => LockInv'
  <1> SUFFICES ASSUME GateInv, LockInv, [Next]_vars PROVE LockInv'
    OBVIOUS
  <1>1. CASE UNCHANGED vars
    BY <1>1 DEF vars, gateVars, recordVars, LockInv, StackInv, DataInv, IfMatchHolds,
                Inside1, Running, PastCheck, Holds, Lockless
  <1>2. ASSUME NEW c \in Callers, Asked(c) PROVE LockInv'
    BY <1>2, AskedInv
  <1>3. ASSUME NEW c \in Callers, Park(c) \/ Enter(c) \/ Answer(c) PROVE LockInv'
    BY <1>3, ParkInv, EnterInv, AnswerInv
  <1>4. ASSUME NEW c \in Callers,
               Check(c) \/ WriteRow(c) \/ SetNull(c) \/ Return(c)
        PROVE  LockInv'
    BY <1>4, CheckInv, WriteRowInv, SetNullInv, ReturnInv
  <1>5. ASSUME NEW c \in Callers,
               \/ lockRecord(c) \/ waitForRecordLock(c) \/ Busy(c)
               \/ checkRestrict(c) \/ runBeforeHook(c) \/ validateRecord(c)
               \/ ReadRows(c) \/ ReadIds(c) \/ DeleteChild(c) \/ ChildrenGone(c) \/ Forbidden(c)
        PROVE  LockInv'
    BY <1>5, WithinInv
  <1> QED
    BY <1>1, <1>2, <1>3, <1>4, <1>5 DEF Next, Step

\* Every write past its lock holds it, each lock is the business of the lowest
\* write of its record, and what a write has checked still stands.
THEOREM RecordLockInv == Spec => []LockInv
  BY LockInvInit, LockInvNext, RecordGateInv, PTL DEF Spec

\* From an If-Match's check to its write no other request changes the record,
\* whatever the callers ask for.
THEOREM RecordIfMatch == Spec => []IfMatchHolds
  <1>1. LockInv => IfMatchHolds
    BY DEF LockInv
  <1> QED
    BY <1>1, RecordLockInv, PTL

LEMMA InvGivesBack == GateInv /\ LockInv => LocksGivenBack
  <1> SUFFICES ASSUME GateInv, LockInv PROVE LocksGivenBack
    OBVIOUS
  <1>1. ASSUME NEW r \in Records, locks[r] # None
        PROVE  locks[r] \in Callers /\ gate[locks[r]] = "in"
    <2>1. locks[r] \in Callers
      BY <1>1 DEF LockInv, StackInv
    <2>2. PICK c \in Callers : c = locks[r]
      BY <2>1
    <2>3. \E i \in DOMAIN stack[c] : stack[c][i].locked /\ stack[c][i].rec = r
      BY <2>2 DEF LockInv, StackInv, Holds
    <2>4. Running(c)
      BY <2>3 DEF Running
    <2> QED
      BY <2>1, <2>2, <2>4 DEF LockInv, StackInv, Inside1
  <1>2. ASSUME NEW b \in Inside(Batches), NEW r \in Records
        PROVE  Free(b, r)
    BY <1>1, <1>2 DEF Free, GateInv, Exclusion, Inside, Callers
  <1> QED
    BY <1>1, <1>2 DEF LocksGivenBack

\* Locks are held from inside the gate only, and none stands in a batch's way.
THEOREM RecordLocksGivenBack == Spec => []LocksGivenBack
  BY InvGivesBack, RecordLockInv, RecordGateInv, PTL


-----------------------------------------------------------------------------
(* What a delete that cascades has still to clear. *)

\* A write w, or what is left of it, is a delete of the parent.
Dying(w) == w.op = "delete" /\ w.rec = Parent

Refers(mode, P) == \E k \in P : Cascade[k] = mode

\* Where only deletes of the parent come by.
ToClear == {"restrict", "read rows", "wait", "read ids", "children"}

\* How far the write f of a batch may be when P point at the parent.  F: its
\* hook may have made a reference that forbids the delete.
Ripe(f, P, F) ==
    /\ f.left \subseteq Children
    /\ f.at = "validate" => f.op = "point"
    /\ f.at \in ToClear \cup {"hook"} => Dying(f)
    /\ Dying(f) /\ f.at \in {"hook", "read rows", "wait", "read ids", "children", "write"}
         => F \/ ~Refers("restrict", P)
    /\ Dying(f) /\ f.at \in {"read ids", "children", "write"} => ~Refers("setNull", P)
    /\ Dying(f) /\ f.at = "write" => ~Refers("cascade", P)
    /\ f.op = "delete" /\ f.at = "done" => f.rec \notin P

\* The write s[i] waits for one above it: its hook, or the delete of a child.
Waits(s, i) == /\ Dying(s[i])
               /\ s[i].at = "children" \/ (i = 1 /\ s[i].at = "read rows")

\* Only the hook makes a reference, before the rows that refer are read.
HooksPoint(s, F) ==
    \A i \in DOMAIN s : s[i].op = "point" => /\ i = 2
                                             /\ s[1].at = "read rows"
                                             /\ Cascade[s[i].rec] = "restrict" => F

\* The children s[i] has still to delete are left to it, or deleted above it.
Minds(s, P) == \A i, j \in DOMAIN s : j = i + 1 /\ s[i].at = "children" =>
                 /\ s[j].op = "delete" /\ s[j].rec \in Children
                 /\ \A k \in P : Cascade[k] = "cascade" => k \in s[i].left \/ s[j].rec = k

\* The writes s of a batch, when P point at the parent.
Standing(s, P, F) == /\ 1 \in DOMAIN s => Dying(s[1])
                     /\ \A i \in DOMAIN s : Ripe(s[i], P, F)
                     /\ \A i, j \in DOMAIN s : i < j => Waits(s, i)
                     /\ HooksPoint(s, F)
                     /\ Minds(s, P)

\* f has all children to delete before it that it must.
Complete(f, P) == f.at = "children" => \A k \in P : Cascade[k] = "cascade" => k \in f.left

Clears(s, P, F) == Standing(s, P, F) /\ (s # <<>> => Complete(s[Len(s)], P))

\* A write f that points at the parent is a child's, and finds it (found).
Aimed(f, found) == f.op = "point" => /\ f.rec \in Children
                                     /\ f.at \notin ToClear
                                     /\ f.at = "write" => found

Aims(s, found) == \A i \in DOMAIN s : Aimed(s[i], found)

\* Who points at the parent exists, and a write that will point at it has found
\* it there, unless it was deleted loosely since.
Pointing ==
    /\ points \subseteq Children \cap there
    /\ undo.points \subseteq Children \cap undo.there
    /\ Parent \in undo.there \/ loose \/ undo.points = {}
    /\ \A c \in Callers : Aims(stack[c], Parent \in there \/ loose)

Clearing ==
    /\ \A b \in Batches : ask[b] # None => Dying(ask[b].write)
    /\ \A b \in Batches : Clears(stack[b], points, ForbidsAfterCheck(b))

CleanInv == Pointing /\ Clearing /\ NoDangling

LEMMA StandingLess ==
    ASSUME NEW s, NEW P, NEW Q, Q \subseteq P, NEW F \in BOOLEAN, Standing(s, P, F)
    PROVE  Standing(s, Q, F)
  <1>1. \A i \in DOMAIN s : Ripe(s[i], P, F) => Ripe(s[i], Q, F)
    BY DEF Ripe, Refers
  <1>2. Minds(s, P) => Minds(s, Q)
    BY DEF Minds
  <1> QED
    BY <1>1, <1>2 DEF Standing

\* The write on top goes on.
LEMMA StandingTop ==
    ASSUME NEW s \in Seq(Frame), s # <<>>, NEW P, NEW F \in BOOLEAN, Standing(s, P, F),
           NEW f, f.op = s[Len(s)].op, f.rec = s[Len(s)].rec, Ripe(f, P, F)
    PROVE  Standing([s EXCEPT ![Len(s)] = f], P, F)
  <1> DEFINE n == Len(s)
             t == [s EXCEPT ![n] = f]
  <1>1. n \in Nat /\ n \in DOMAIN s /\ DOMAIN s = 1 .. n
    OBVIOUS
  <1>2. /\ DOMAIN t = DOMAIN s /\ t[n] = f
        /\ \A i \in DOMAIN s : i # n => t[i] = s[i]
    BY <1>1
  <1>3. \A i \in DOMAIN s : t[i].op = s[i].op /\ t[i].rec = s[i].rec
    BY <1>2
  <1>4. /\ \A i, j \in DOMAIN s : i < j \/ j = i + 1 => t[i] = s[i]
        /\ 2 \in DOMAIN s => 1 \in DOMAIN s /\ t[1] = s[1]
    BY <1>1, <1>2
  <1> HIDE DEF t, n
  <1>5. 1 \in DOMAIN s => Dying(t[1])
    BY <1>3 DEF Standing, Dying
  <1>6. \A i \in DOMAIN s : Ripe(t[i], P, F)
    BY <1>2 DEF Standing
  <1>7. \A i, j \in DOMAIN s : i < j => Waits(t, i)
    BY <1>4 DEF Standing, Waits
  <1>8. HooksPoint(t, F)
    <2> SUFFICES ASSUME NEW i \in DOMAIN s, t[i].op = "point"
                 PROVE  i = 2 /\ t[1].at = "read rows" /\ (Cascade[t[i].rec] = "restrict" => F)
      BY <1>2 DEF HooksPoint
    <2>1. i = 2 /\ s[1].at = "read rows" /\ (Cascade[s[i].rec] = "restrict" => F)
      BY <1>3 DEF Standing, HooksPoint
    <2> QED
      BY <1>3, <1>4, <2>1
  <1>9. Minds(t, P)
    <2> SUFFICES ASSUME NEW i \in DOMAIN s, NEW j \in DOMAIN s, j = i + 1, t[i].at = "children"
                 PROVE  /\ t[j].op = "delete" /\ t[j].rec \in Children
                        /\ \A k \in P : Cascade[k] = "cascade" => k \in t[i].left \/ t[j].rec = k
      BY <1>2 DEF Minds
    <2>1. t[i] = s[i] /\ t[j].op = s[j].op /\ t[j].rec = s[j].rec
      BY <1>3, <1>4
    <2>2. /\ s[j].op = "delete" /\ s[j].rec \in Children
          /\ \A k \in P : Cascade[k] = "cascade" => k \in s[i].left \/ s[j].rec = k
      BY <2>1 DEF Standing, Minds
    <2> QED
      BY <2>1, <2>2
  <1>10. Standing(t, P, F)
    BY <1>2, <1>5, <1>6, <1>7, <1>8, <1>9 DEF Standing
  <1> QED
    BY <1>10 DEF t, n


\* The write f, with P pointing at the parent, may wait for a write w.
Suits(w, f, P, F) ==
    /\ w.op = "point" => f.at = "read rows" /\ (Cascade[w.rec] = "restrict" => F)
    /\ f.at = "children" =>
         /\ w.op = "delete" /\ w.rec \in Children
         /\ \A k \in P : Cascade[k] = "cascade" => k \in f.left \/ w.rec = k

\* The write on top waits for a new one, of w.
LEMMA StandingPush ==
    ASSUME NEW s \in Seq(Frame), s # <<>>, NEW P, NEW F \in BOOLEAN, Standing(s, P, F), NEW w,
           Waits(s, Len(s)), Suits(w, s[Len(s)], P, F)
    PROVE  Clears(Append(s, Begun(w)), P, F)
  <1> DEFINE n == Len(s)
             t == Append(s, Begun(w))
             m == n + 1
  <1>1. n \in Nat /\ n \in DOMAIN s /\ DOMAIN s = 1 .. n /\ 1 \in DOMAIN s
    OBVIOUS
  <1>2. /\ DOMAIN t = 1 .. m /\ t[m] = Begun(w) /\ t # <<>> /\ Len(t) = m
        /\ \A i \in DOMAIN s : t[i] = s[i] /\ i # m
    BY <1>1
  <1>3. /\ Begun(w).op = w.op /\ Begun(w).rec = w.rec /\ Begun(w).at = "lock"
        /\ Begun(w).left = {}
    BY Zenon DEF Begun
  <1>4. \A i \in DOMAIN t : i = m \/ i \in DOMAIN s
    BY <1>1, <1>2
  <1>5. \A i, j \in DOMAIN t : i < j => i \in DOMAIN s /\ (j \in DOMAIN s \/ i = n \/ i < n)
    BY <1>1, <1>2
  <1>6. \A i, j \in DOMAIN t : j = i + 1 => \/ i \in DOMAIN s /\ j \in DOMAIN s
                                            \/ i = n /\ j = m
    BY <1>1, <1>2
  <1>7. ASSUME s[n].at = "read rows" PROVE n = 1
    <2>1. Waits(s, n)
      OBVIOUS
    <2> HIDE DEF n
    <2> QED
      BY <1>7, <2>1 DEF Waits
  <1> HIDE DEF t, n, m
  <1>8. Dying(t[1])
    BY <1>1, <1>2 DEF Standing
  <1>9. \A i \in DOMAIN t : Ripe(t[i], P, F)
    <2>1. Ripe(Begun(w), P, F)
      BY <1>3 DEF Ripe, ToClear
    <2> QED
      BY <1>2, <1>4, <2>1 DEF Standing
  <1>10. \A i, j \in DOMAIN t : i < j => Waits(t, i)
    <2>1. \A i \in DOMAIN s : Waits(s, i) => Waits(t, i)
      BY <1>2 DEF Waits
    <2>2. \A i \in DOMAIN s : i < n => Waits(s, i)
      BY <1>1 DEF Standing
    <2>3. \A i, j \in DOMAIN s : i < j => Waits(s, i)
      BY DEF Standing
    <2>4. Waits(s, n)
      BY DEF n
    <2> QED
      BY <1>5, <2>1, <2>2, <2>3, <2>4
  <1>11. HooksPoint(t, F)
    <2> SUFFICES ASSUME NEW i \in DOMAIN t, t[i].op = "point"
                 PROVE  i = 2 /\ t[1].at = "read rows" /\ (Cascade[t[i].rec] = "restrict" => F)
      BY DEF HooksPoint
    <2>1. CASE i = m
      <3>0. w.op = "point" /\ Suits(w, s[n], P, F)
        BY <1>2, <1>3, <2>1 DEF n
      <3>1. s[n].at = "read rows"
        BY <3>0, Zenon DEF Suits
      <3>2. Cascade[w.rec] = "restrict" => F
        BY <3>0, Zenon DEF Suits
      <3>3. n = 1
        BY <1>7, <3>1
      <3>4. m = 2
        BY <3>3 DEF m
      <3> QED
        BY <1>1, <1>2, <1>3, <2>1, <3>1, <3>2, <3>3, <3>4
    <2>2. CASE i \in DOMAIN s
      <3>1. i = 2 /\ s[1].at = "read rows" /\ (Cascade[s[i].rec] = "restrict" => F)
        BY <1>2, <2>2 DEF Standing, HooksPoint
      <3> QED
        BY <1>1, <1>2, <2>2, <3>1
    <2> QED
      BY <1>4, <2>1, <2>2
  <1>12. Minds(t, P)
    <2> SUFFICES ASSUME NEW i \in DOMAIN t, NEW j \in DOMAIN t, j = i + 1, t[i].at = "children"
                 PROVE  /\ t[j].op = "delete" /\ t[j].rec \in Children
                        /\ \A k \in P : Cascade[k] = "cascade" => k \in t[i].left \/ t[j].rec = k
      BY DEF Minds
    <2>1. CASE i \in DOMAIN s /\ j \in DOMAIN s
      <3>1. t[i] = s[i] /\ t[j] = s[j]
        BY <1>2, <2>1
      <3>2. /\ s[j].op = "delete" /\ s[j].rec \in Children
            /\ \A k \in P : Cascade[k] = "cascade" => k \in s[i].left \/ s[j].rec = k
        BY <2>1, <3>1 DEF Standing, Minds
      <3> QED
        BY <3>1, <3>2
    <2>2. CASE i = n /\ j = m
      <3>1. t[i] = s[n] /\ t[j] = Begun(w)
        BY <1>1, <1>2, <2>2
      <3>2. /\ w.op = "delete" /\ w.rec \in Children
            /\ \A k \in P : Cascade[k] = "cascade" => k \in s[n].left \/ w.rec = k
        BY <3>1 DEF n, Suits
      <3> QED
        BY <1>3, <3>1, <3>2
    <2> QED
      BY <1>6, <2>1, <2>2
  <1>13. Standing(t, P, F)
    BY <1>8, <1>9, <1>10, <1>11, <1>12 DEF Standing
  <1>14. Complete(t[Len(t)], P)
    BY <1>2, <1>3 DEF Complete
  <1>15. Clears(t, P, F)
    BY <1>13, <1>14 DEF Clears
  <1> QED
    BY <1>15 DEF t

\* The write on top, which is over, is taken off; what waited for it still has
\* what it is to delete, unless the write failed.
LEMMA StandingPop ==
    ASSUME NEW s \in Seq(Frame), s # <<>>, NEW P, NEW F \in BOOLEAN, Standing(s, P, F)
    PROVE  /\ Standing(Front(s), P, F)
           /\ \/ s[Len(s)].op = "delete" => s[Len(s)].rec \notin P
              \/ Front(s) # <<>> /\ Last(Front(s)).at # "children"
              => Clears(Front(s), P, F)
  <1> DEFINE n == Len(s)
             t == Front(s)
             m == n - 1
  <1>1. n \in Nat /\ n \in DOMAIN s /\ DOMAIN s = 1 .. n /\ m \in Nat /\ m # n
    OBVIOUS
  <1>2. DOMAIN t = 1 .. m /\ Len(t) = m /\ t \in Seq(Frame)
    BY FrontOf
  <1>3. \A i \in DOMAIN t : t[i] = s[i] /\ i \in DOMAIN s
    <2>1. \A i \in DOMAIN t : t[i] = s[i]
      BY FrontOf
    <2> HIDE DEF t, n
    <2>2. 1 .. m \subseteq 1 .. n
      BY <1>1
    <2> QED
      BY <1>1, <1>2, <2>1, <2>2
  <1>4. 2 \in DOMAIN t => 1 \in DOMAIN t
    BY <1>2
  <1>5. t # <<>> => m \in DOMAIN t /\ n = m + 1 /\ Last(t) = t[m]
    <2>1. Last(t) = t[m]
      BY <1>2 DEF Last
    <2> HIDE DEF t, n
    <2>2. n = m + 1
      BY <1>1
    <2>3. t # <<>> => Len(t) # 0
      BY <1>2
    <2> QED
      BY <1>1, <1>2, <2>1, <2>2, <2>3
  <1> HIDE DEF t, n, m
  <1>6. \A i, j \in DOMAIN t : i < j => Waits(t, i)
    BY <1>3 DEF Standing, Waits
  <1>7. HooksPoint(t, F)
    <2> SUFFICES ASSUME NEW i \in DOMAIN t, t[i].op = "point"
                 PROVE  i = 2 /\ t[1].at = "read rows" /\ (Cascade[t[i].rec] = "restrict" => F)
      BY DEF HooksPoint
    <2>1. i = 2 /\ s[1].at = "read rows" /\ (Cascade[s[i].rec] = "restrict" => F)
      BY <1>3 DEF Standing, HooksPoint
    <2> QED
      BY <1>3, <1>4, <2>1
  <1>8. Minds(t, P)
    BY <1>3 DEF Standing, Minds
  <1>9. Standing(t, P, F)
    BY <1>3, <1>6, <1>7, <1>8 DEF Standing
  <1>10. ASSUME s[n].op = "delete" => s[n].rec \notin P, t # <<>>
         PROVE  Complete(t[m], P)
    <2>1. t[m] = s[m] /\ m \in DOMAIN s /\ n \in DOMAIN s /\ n = m + 1
      BY <1>1, <1>3, <1>5, <1>10
    <2>2. s[m].at = "children" =>
            /\ s[n].op = "delete"
            /\ \A k \in P : Cascade[k] = "cascade" => k \in s[m].left \/ s[n].rec = k
      BY <2>1 DEF Standing, Minds
    <2> QED
      BY <1>10, <2>1, <2>2 DEF Complete
  <1>11. ASSUME t # <<>>, Last(t).at # "children" PROVE Complete(t[m], P)
    BY <1>5, <1>11 DEF Complete
  <1>12. \/ s[n].op = "delete" => s[n].rec \notin P
         \/ t # <<>> /\ Last(t).at # "children"
         => Clears(t, P, F)
    BY <1>2, <1>9, <1>10, <1>11 DEF Clears
  <1> QED
    BY <1>9, <1>12 DEF t, n


-----------------------------------------------------------------------------
(* What the steps of a write leave to be cleared. *)

LEMMA ForbidsOrNot == \A c \in Callers : ForbidsAfterCheck(c) \in BOOLEAN
  BY DEF ForbidsAfterCheck

LEMMA NothingStands ==
    ASSUME NEW P, NEW F, NEW found
    PROVE  Clears(<<>>, P, F) /\ Aims(<<>>, found)
  BY DEF Clears, Standing, HooksPoint, Minds, Aims

\* The stack of c becomes s.
LEMMA FramesStep ==
    ASSUME GateInv, StackInv, CleanInv, NEW c \in Callers, Running(c), NEW s,
           stack' = [stack EXCEPT ![c] = s], UNCHANGED ask,
           c \in Batches => Clears(s, points', ForbidsAfterCheck(c)),
           Aims(s, Parent \in there' \/ loose'),
           c \in Batches \/ (Parent \in there \/ loose => Parent \in there' \/ loose')
    PROVE  /\ Clearing'
           /\ \A d \in Callers : Aims(stack'[d], Parent \in there' \/ loose')
  <1>1. stack'[c] = s /\ \A d \in Callers \ {c} : stack'[d] = stack[d]
    BY DEF StackInv
  <1>2. \A b \in Batches : b \in Callers
    BY DEF Callers
  <1>3. ASSUME NEW d \in Callers, d # c, d \in Batches \/ c \in Batches
        PROVE  stack'[d] = <<>>
    <2>1. ~Running(d)
      BY <1>3, Alone
    <2> QED
      BY <1>1, <1>3, <2>1 DEF Running
  <1>4. \A b \in Batches : Clears(stack'[b], points', ForbidsAfterCheck(b))
    <2> TAKE b \in Batches
    <2>1. CASE b = c
      BY <1>1, <2>1
    <2>2. CASE b # c
      BY <1>2, <1>3, <2>2, NothingStands
    <2> QED
      BY <2>1, <2>2
  <1>5. \A b \in Batches : ForbidsAfterCheck(b)' = ForbidsAfterCheck(b)
    BY DEF ForbidsAfterCheck
  <1>6. Clearing'
    <2>1. (\A b \in Batches : ask[b] # None => Dying(ask[b].write))'
      BY DEF CleanInv, Clearing, Dying
    <2>2. \A b \in Batches : Clears(stack[b], points, ForbidsAfterCheck(b))'
      BY <1>4, <1>5, Zenon
    <2> QED
      BY <2>1, <2>2 DEF Clearing
  <1>7. ASSUME NEW d \in Callers
        PROVE  Aims(stack'[d], Parent \in there' \/ loose')
    <2>1. CASE d = c
      BY <1>1, <2>1
    <2>2. CASE d # c /\ c \in Batches
      BY <1>3, <2>2, NothingStands
    <2>3. CASE d # c /\ c \notin Batches
      <3>1. Aims(stack[d], Parent \in there \/ loose) /\ stack'[d] = stack[d]
        BY <1>1, <2>3 DEF CleanInv, Pointing
      <3> QED
        BY <2>3, <3>1 DEF Aims, Aimed
    <2> QED
      BY <2>1, <2>2, <2>3
  <1> QED
    BY <1>6, <1>7

\* The write on top goes on as f.
LEMMA TopClears ==
    ASSUME GateInv, StackInv, CleanInv, NEW c \in Callers, Running(c), NEW f,
           f.op = top(c).op, f.rec = top(c).rec, Top(c, f), UNCHANGED ask,
           c \in Batches => /\ Standing(stack[c], points', ForbidsAfterCheck(c))
                            /\ Ripe(f, points', ForbidsAfterCheck(c))
                            /\ Complete(f, points'),
           f.op = "point" => f.at \notin ToClear /\ (f.at = "write" => Parent \in there' \/ loose'),
           c \in Batches \/ (Parent \in there \/ loose => Parent \in there' \/ loose')
    PROVE  /\ Clearing'
           /\ \A d \in Callers : Aims(stack'[d], Parent \in there' \/ loose')
  <1> DEFINE n == Len(stack[c])
             s == [stack[c] EXCEPT ![n] = f]
  <1>1. /\ stack[c] \in Seq(Frame) /\ stack[c] # <<>>
        /\ n \in DOMAIN stack[c] /\ top(c) = stack[c][n]
    BY TopFrame DEF top
  <1>2. stack' = [stack EXCEPT ![c] = s]
    BY DEF Top
  <1>3. /\ DOMAIN s = DOMAIN stack[c] /\ s[n] = f /\ Len(s) = n
        /\ \A i \in DOMAIN s : i # n => s[i] = stack[c][i]
        /\ \A i \in DOMAIN s : i # n => i < n
    BY <1>1
  <1>4. ASSUME c \in Batches PROVE Clears(s, points', ForbidsAfterCheck(c))
    <2>1. ForbidsAfterCheck(c) \in BOOLEAN
      BY ForbidsOrNot
    <2>2. Standing(s, points', ForbidsAfterCheck(c))
      BY <1>1, <1>4, <2>1, StandingTop
    <2>3. Complete(s[Len(s)], points')
      BY <1>3, <1>4
    <2> QED
      BY <2>2, <2>3 DEF Clears
  <1>5. Aims(stack[c], Parent \in there \/ loose)
    BY DEF CleanInv, Pointing
  <1> HIDE DEF s, n
  <1>6. Aims(s, Parent \in there' \/ loose')
    <2> SUFFICES ASSUME NEW i \in DOMAIN s
                 PROVE  Aimed(s[i], Parent \in there' \/ loose')
      BY DEF Aims
    <2>1. CASE i = n
      <3>1. s[i] = f /\ stack[c][n].op = f.op /\ stack[c][n].rec = f.rec
        BY <1>1, <1>3, <2>1
      <3>2. f.op = "point" => f.rec \in Children
        BY <1>1, <1>5, <3>1 DEF Aims, Aimed
      <3> QED
        BY <3>1, <3>2 DEF Aimed
    <2>2. CASE i # n /\ c \in Batches
      <3>1. Waits(stack[c], i)
        BY <1>1, <1>3, <2>2 DEF Standing
      <3>2. s[i] = stack[c][i]
        BY <1>3, <2>2
      <3> QED
        BY <3>1, <3>2 DEF Waits, Dying, Aimed
    <2>3. CASE i # n /\ c \notin Batches
      <3>1. s[i] = stack[c][i] /\ i \in DOMAIN stack[c]
        BY <1>3, <2>3
      <3> QED
        BY <1>5, <2>3, <3>1 DEF Aims, Aimed
    <2> QED
      BY <2>1, <2>2, <2>3
  <1> QED
    BY <1>2, <1>4, <1>6, FramesStep

\* A step that changes no record keeps who points at the parent.
LEMMA QuietClean ==
    ASSUME CleanInv, UNCHANGED <<there, points, loose>>, Clearing',
           undo'.there = undo.there, undo'.points = undo.points,
           \A d \in Callers : Aims(stack'[d], Parent \in there' \/ loose')
    PROVE  CleanInv'
  BY DEF CleanInv, Pointing, NoDangling

\* The write on top goes to the place p, and changes nothing.
LEMMA GotoClean ==
    ASSUME GateInv, StackInv, CleanInv, NEW c \in Callers, Running(c), NEW p \in Places,
           Goto(c, p), UNCHANGED <<there, points, ask, undo, loose>>,
           c \in Batches => /\ Ripe([top(c) EXCEPT !.at = p], points, ForbidsAfterCheck(c))
                            /\ p # "children",
           top(c).op = "point" => p \notin ToClear /\ (p = "write" => Parent \in there)
    PROVE  CleanInv'
  <1> DEFINE f == [top(c) EXCEPT !.at = p]
  <1>1. top(c) \in Frame
    BY TopFrame
  <1>2. f.op = top(c).op /\ f.rec = top(c).rec /\ f.at = p
    BY <1>1, Moved
  <1>3. Top(c, f)
    BY DEF Goto
  <1>4. c \in Batches => Standing(stack[c], points', ForbidsAfterCheck(c))
    BY DEF CleanInv, Clearing, Clears
  <1>5. c \in Batches => Ripe(f, points', ForbidsAfterCheck(c)) /\ p # "children"
    OBVIOUS
  <1> HIDE DEF f
  <1>6. c \in Batches => Complete(f, points')
    BY <1>2, <1>5 DEF Complete
  <1>7. f.op = "point" => f.at \notin ToClear /\ (f.at = "write" => Parent \in there' \/ loose')
    BY <1>2
  <1>8. /\ Clearing'
        /\ \A d \in Callers : Aims(stack'[d], Parent \in there' \/ loose')
    BY <1>2, <1>3, <1>4, <1>5, <1>6, <1>7, TopClears
  <1> QED
    BY <1>8, QuietClean


\* The write on top becomes f, with the same to do, and changes nothing.
LEMMA SameClean ==
    ASSUME GateInv, StackInv, CleanInv, NEW c \in Callers, Running(c), NEW f,
           f.op = top(c).op, f.rec = top(c).rec, Top(c, f), f.at \notin {"write", "children"},
           f.op = "point" => f.at \notin ToClear,
           UNCHANGED <<there, points, ask, undo, loose>>,
           c \in Batches => Ripe(f, points, ForbidsAfterCheck(c))
    PROVE  CleanInv'
  <1>1. c \in Batches => Standing(stack[c], points', ForbidsAfterCheck(c))
    BY DEF CleanInv, Clearing, Clears
  <1>2. c \in Batches => Ripe(f, points', ForbidsAfterCheck(c)) /\ Complete(f, points')
    BY DEF Complete
  <1>3. /\ Clearing'
        /\ \A d \in Callers : Aims(stack'[d], Parent \in there' \/ loose')
    BY <1>1, <1>2, TopClears
  <1> QED
    BY <1>3, QuietClean

\* What CleanInv says of the write on top.
LEMMA TopRipe ==
    ASSUME StackInv, CleanInv, NEW c \in Batches, Running(c)
    PROVE  /\ Ripe(top(c), points, ForbidsAfterCheck(c))
           /\ Complete(top(c), points)
           /\ Standing(stack[c], points, ForbidsAfterCheck(c))
           /\ Len(stack[c]) = 1 => Dying(top(c))
  <1>1. c \in Callers
    BY DEF Callers
  <1>2. /\ stack[c] \in Seq(Frame) /\ stack[c] # <<>>
        /\ Len(stack[c]) \in DOMAIN stack[c] /\ 1 \in DOMAIN stack[c]
        /\ Len(stack[c]) = 1 => top(c) = stack[c][1]
    BY <1>1, TopFrame
  <1>3. Clears(stack[c], points, ForbidsAfterCheck(c))
    BY DEF CleanInv, Clearing
  <1>4. /\ Standing(stack[c], points, ForbidsAfterCheck(c))
        /\ Complete(stack[c][Len(stack[c])], points)
    BY <1>2, <1>3 DEF Clears
  <1>5. Ripe(stack[c][Len(stack[c])], points, ForbidsAfterCheck(c)) /\ Dying(stack[c][1])
    BY <1>2, <1>4 DEF Standing
  <1> QED
    BY <1>2, <1>4, <1>5 DEF top

LEMMA TopAimed ==
    ASSUME StackInv, CleanInv, NEW c \in Callers, Running(c)
    PROVE  Aimed(top(c), Parent \in there \/ loose)
  BY TopFrame DEF top, CleanInv, Pointing, Aims

LEMMA LockClean ==
    ASSUME GateInv, LockInv, CleanInv, NEW c \in Callers,
           lockRecord(c) \/ waitForRecordLock(c) \/ Busy(c)
    PROVE  CleanInv'
  <1>1. StackInv /\ Running(c) /\ UNCHANGED <<there, points, ask, undo, loose>>
    BY DEF LockInv, lockRecord, waitForRecordLock, Busy, At
  <1>2. top(c) \in Frame
    BY <1>1, TopFrame
  <1>3. c \in Batches => Ripe(top(c), points, ForbidsAfterCheck(c))
    BY <1>1, TopRipe
  <1>4. CASE lockRecord(c)
    <2> DEFINE e == [top(c) EXCEPT !.at = "check"]
               f == [e EXCEPT !.locked = (locks[top(c).rec] = None)]
    <2>1. top(c).at = "lock"
      BY <1>4 DEF lockRecord, At
    <2>2. /\ f.op = top(c).op /\ f.rec = top(c).rec /\ f.at = "check" /\ f.left = top(c).left
          /\ f = [top(c) EXCEPT !.at = "check", !.locked = (locks[top(c).rec] = None)]
      BY <1>2 DEF Frame
    <2>3. Top(c, f)
      BY <1>4, <2>2 DEF lockRecord
    <2> HIDE DEF f
    <2>4. c \in Batches => Ripe(f, points, ForbidsAfterCheck(c))
      BY <1>3, <2>2 DEF Ripe, ToClear
    <2>5. f.at \notin ToClear
      BY <2>2 DEF ToClear
    <2> QED
      BY <1>1, <2>2, <2>3, <2>4, <2>5, SameClean
  <1>5. CASE waitForRecordLock(c)
    <2>1. top(c).at = "wait" /\ \E k \in top(c).left : Top(c, [top(c) EXCEPT !.left = @ \ {k}])
      BY <1>5 DEF waitForRecordLock, At
    <2>2. PICK k \in top(c).left : Top(c, [top(c) EXCEPT !.left = @ \ {k}])
      BY <2>1
    <2> DEFINE f == [top(c) EXCEPT !.left = top(c).left \ {k}]
    <2>3. Top(c, f)
      BY <2>2
    <2>4. /\ f.op = top(c).op /\ f.rec = top(c).rec /\ f.at = "wait"
          /\ f.left \subseteq top(c).left
      BY <1>2, <2>1 DEF Frame
    <2> HIDE DEF f
    <2>5. c \in Batches => Ripe(f, points, ForbidsAfterCheck(c))
      BY <1>3, <2>1, <2>4 DEF Ripe, Dying, ToClear
    <2>6. f.op = "point" => f.at \notin ToClear
      BY <1>1, <2>1, <2>4, TopAimed DEF Aimed
    <2> QED
      BY <1>1, <2>3, <2>4, <2>5, <2>6, SameClean
  <1>6. CASE Busy(c)
    <2>1. Goto(c, "failed") /\ "failed" \in Places
      BY <1>6 DEF Busy, Fail, Places
    <2>2. c \in Batches => Ripe([top(c) EXCEPT !.at = "failed"], points, ForbidsAfterCheck(c))
      BY <1>2, <1>3 DEF Ripe, Frame, ToClear
    <2> QED
      BY <1>1, <2>1, <2>2, GotoClean DEF ToClear
  <1> QED
    BY <1>4, <1>5, <1>6


LEMMA CheckClean ==
    ASSUME GateInv, LockInv, CleanInv, NEW c \in Callers, Check(c)
    PROVE  CleanInv'
  <1>1. /\ StackInv /\ Running(c) /\ UNCHANGED <<there, points, ask, undo, loose>>
        /\ top(c).at = "check"
    BY DEF LockInv, Check, At
  <1>2. top(c) \in Frame
    BY <1>1, TopFrame
  <1>3. c \in Batches => /\ Ripe(top(c), points, ForbidsAfterCheck(c))
                         /\ Len(stack[c]) = 1 => Dying(top(c))
    BY <1>1, TopRipe
  <1>4. PICK p \in Places :
          /\ Goto(c, p)
          /\ p = "restrict" => Dying(top(c))
          /\ p = "done" => top(c).rec \notin there
          /\ p \in {"failed", "done", "restrict"} \/ (p = AtHook(c) /\ ~Dying(top(c)))
    BY <1>1 DEF Check, Fail, AtHook, AfterHook, Places, Dying
  <1>5. \/ p \in {"failed", "restrict"}
        \/ p = "done" /\ top(c).rec \notin points
        \/ /\ ~Dying(top(c)) /\ Hooked(c) /\ p = "hook"
        \/ /\ ~Dying(top(c)) /\ top(c).op = "point" /\ p = "validate"
        \/ /\ ~Dying(top(c)) /\ top(c).op # "point" /\ p = "write"
    BY <1>4 DEF AtHook, AfterHook, Dying, CleanInv, Pointing
  <1> DEFINE f == [top(c) EXCEPT !.at = p]
  <1>6. f.op = top(c).op /\ f.rec = top(c).rec /\ f.at = p /\ f.left = top(c).left
    BY <1>2 DEF Frame
  <1>7. Dying(f) <=> Dying(top(c))
    BY <1>6 DEF Dying
  <1> HIDE DEF f
  <1>8. c \in Batches => Ripe(f, points, ForbidsAfterCheck(c)) /\ p # "children"
    <2> SUFFICES ASSUME c \in Batches
                 PROVE  Ripe(f, points, ForbidsAfterCheck(c)) /\ p # "children"
      OBVIOUS
    <2>1. ~(Hooked(c) /\ ~Dying(top(c)))
      BY <1>3 DEF Hooked
    <2>2. f.left \subseteq Children
      BY <1>3, <1>6 DEF Ripe
    <2> QED
      BY <1>4, <1>5, <1>6, <1>7, <2>1, <2>2 DEF Ripe, ToClear
  <1>9. top(c).op = "point" => p \notin ToClear /\ p # "write"
    BY <1>4, <1>5 DEF Dying, ToClear
  <1> QED
    BY <1>1, <1>4, <1>8, <1>9, GotoClean DEF f

LEMMA RestrictClean ==
    ASSUME GateInv, LockInv, CleanInv, NEW c \in Callers, checkRestrict(c)
    PROVE  CleanInv'
  <1>1. /\ StackInv /\ Running(c) /\ UNCHANGED <<there, points, ask, undo, loose>>
        /\ top(c).at = "restrict"
    BY DEF LockInv, checkRestrict, At
  <1>2. top(c) \in Frame
    BY <1>1, TopFrame
  <1>3. c \in Batches => Ripe(top(c), points, ForbidsAfterCheck(c))
    BY <1>1, TopRipe
  <1>4. PICK p \in Places : /\ Goto(c, p)
                            /\ \/ p = "failed"
                               \/ p = AtHook(c) /\ ~Refers("restrict", points)
    BY DEF checkRestrict, Fail, AtHook, AfterHook, Places, Refers
  <1>5. \/ p = "failed"
        \/ /\ p \in {"hook", AfterHook(top(c))}
           /\ ~Refers("restrict", points)
    BY <1>4 DEF AtHook
  <1> DEFINE f == [top(c) EXCEPT !.at = p]
  <1>6. f.op = top(c).op /\ f.rec = top(c).rec /\ f.at = p /\ f.left = top(c).left
    BY <1>2 DEF Frame
  <1>7. Dying(f) <=> Dying(top(c))
    BY <1>6 DEF Dying
  <1> HIDE DEF f
  <1>8. c \in Batches => Ripe(f, points, ForbidsAfterCheck(c)) /\ p # "children"
    <2> SUFFICES ASSUME c \in Batches
                 PROVE  Ripe(f, points, ForbidsAfterCheck(c)) /\ p # "children"
      OBVIOUS
    <2>1. Dying(top(c)) /\ f.left \subseteq Children
      BY <1>1, <1>3, <1>6 DEF Ripe, ToClear
    <2>2. p = "failed" \/ (p \in {"hook", "read rows"} /\ ~Refers("restrict", points))
      BY <1>5, <2>1 DEF AfterHook, Dying
    <2> QED
      BY <1>6, <1>7, <2>1, <2>2 DEF Ripe, ToClear
  <1>9. top(c).op # "point"
    BY <1>1, TopAimed DEF Aimed, ToClear
  <1> QED
    BY <1>1, <1>4, <1>8, <1>9, GotoClean DEF f

LEMMA ValidateClean ==
    ASSUME GateInv, LockInv, CleanInv, NEW c \in Callers, validateRecord(c)
    PROVE  CleanInv'
  <1>1. /\ StackInv /\ Running(c) /\ UNCHANGED <<there, points, ask, undo, loose>>
        /\ top(c).at = "validate"
    BY DEF LockInv, validateRecord, At
  <1>2. top(c) \in Frame
    BY <1>1, TopFrame
  <1>3. c \in Batches => Ripe(top(c), points, ForbidsAfterCheck(c))
    BY <1>1, TopRipe
  <1>4. PICK p \in Places : Goto(c, p) /\ (p = "failed" \/ (p = "write" /\ Parent \in there))
    BY DEF validateRecord, Fail, Places
  <1> DEFINE f == [top(c) EXCEPT !.at = p]
  <1>6. f.op = top(c).op /\ f.rec = top(c).rec /\ f.at = p /\ f.left = top(c).left
    BY <1>2 DEF Frame
  <1> HIDE DEF f
  <1>8. c \in Batches => Ripe(f, points, ForbidsAfterCheck(c)) /\ p # "children"
    <2> SUFFICES ASSUME c \in Batches
                 PROVE  Ripe(f, points, ForbidsAfterCheck(c)) /\ p # "children"
      OBVIOUS
    <2>1. f.op = "point" /\ f.left \subseteq Children
      BY <1>1, <1>3, <1>6 DEF Ripe
    <2> QED
      BY <1>4, <1>6, <2>1 DEF Ripe, Dying, ToClear
  <1>9. p \notin ToClear /\ (p = "write" => Parent \in there)
    BY <1>4 DEF ToClear
  <1> QED
    BY <1>1, <1>4, <1>8, <1>9, GotoClean DEF f

LEMMA RowsClean ==
    ASSUME GateInv, LockInv, CleanInv, NEW c \in Callers,
           ReadRows(c) \/ ReadIds(c) \/ ChildrenGone(c) \/ Forbidden(c)
    PROVE  CleanInv'
  <1>1. StackInv /\ Running(c) /\ UNCHANGED <<there, points, ask, undo, loose>>
    BY DEF LockInv, ReadRows, ReadIds, ChildrenGone, Forbidden, At
  <1>2. top(c) \in Frame /\ top(c).op # "point"
    <2>1. top(c).at \in ToClear
      BY DEF ReadRows, ReadIds, ChildrenGone, Forbidden, At, ToClear
    <2> QED
      BY <1>1, <2>1, TopFrame, TopAimed DEF Aimed
  <1>3. c \in Batches => /\ Ripe(top(c), points, ForbidsAfterCheck(c))
                         /\ Complete(top(c), points)
                         /\ Standing(stack[c], points, ForbidsAfterCheck(c))
    BY <1>1, TopRipe
  <1>4. \A mode : Referring(mode) \subseteq Children /\ Referring(mode) \subseteq points
    BY DEF Referring, CleanInv, Pointing
  <1>5. CASE ReadRows(c)
    <2>1. top(c).at = "read rows"
      BY <1>5 DEF ReadRows, At
    <2>2. CASE Referring("setNull") = {}
      <3> DEFINE f == [top(c) EXCEPT !.at = "read ids"]
      <3>1. Top(c, f)
        BY <1>5, <2>2 DEF ReadRows
      <3>2. f.op = top(c).op /\ f.rec = top(c).rec /\ f.at = "read ids" /\ f.left = top(c).left
        BY <1>2 DEF Frame
      <3> HIDE DEF f
      <3>3. ~Refers("setNull", points)
        BY <2>2 DEF Refers, Referring
      <3>4. c \in Batches => Ripe(f, points, ForbidsAfterCheck(c))
        BY <1>3, <2>1, <3>2, <3>3 DEF Ripe, Dying, ToClear
      <3> QED
        BY <1>1, <1>2, <3>1, <3>2, <3>4, SameClean
    <2>3. CASE Referring("setNull") # {}
      <3> DEFINE e == [top(c) EXCEPT !.at = "wait"]
                 f == [e EXCEPT !.left = Referring("setNull")]
      <3>1. /\ f.op = top(c).op /\ f.rec = top(c).rec /\ f.at = "wait"
            /\ f.left = Referring("setNull")
            /\ f = [top(c) EXCEPT !.at = "wait", !.left = Referring("setNull")]
        BY <1>2 DEF Frame
      <3>2. Top(c, f)
        BY <1>5, <2>3, <3>1 DEF ReadRows
      <3> HIDE DEF f
      <3>3. c \in Batches => Ripe(f, points, ForbidsAfterCheck(c))
        BY <1>3, <1>4, <2>1, <3>1 DEF Ripe, Dying, ToClear
      <3> QED
        BY <1>1, <1>2, <3>1, <3>2, <3>3, SameClean
    <2> QED
      BY <2>2, <2>3
  <1>6. CASE ReadIds(c)
    <2> DEFINE e == [top(c) EXCEPT !.at = "children"]
               f == [e EXCEPT !.left = Referring("cascade")]
    <2>1. top(c).at = "read ids"
      BY <1>6 DEF ReadIds, At
    <2>2. /\ f.op = top(c).op /\ f.rec = top(c).rec /\ f.at = "children"
          /\ f.left = Referring("cascade")
          /\ f = [top(c) EXCEPT !.at = "children", !.left = Referring("cascade")]
      BY <1>2 DEF Frame
    <2>3. Top(c, f)
      BY <1>6, <2>2 DEF ReadIds
    <2> HIDE DEF f
    <2>4. c \in Batches => /\ Standing(stack[c], points', ForbidsAfterCheck(c))
                           /\ Ripe(f, points', ForbidsAfterCheck(c))
                           /\ Complete(f, points')
      <3>1. Complete(f, points)
        BY <2>2 DEF Complete, Referring
      <3>2. c \in Batches => Ripe(f, points, ForbidsAfterCheck(c))
        BY <1>3, <1>4, <2>1, <2>2 DEF Ripe, Dying, ToClear
      <3> QED
        BY <1>1, <1>3, <3>1, <3>2
    <2>5. /\ Clearing'
          /\ \A d \in Callers : Aims(stack'[d], Parent \in there' \/ loose')
      BY <1>1, <1>2, <2>2, <2>3, <2>4, TopClears
    <2> QED
      BY <1>1, <2>5, QuietClean
  <1>7. CASE ChildrenGone(c) \/ Forbidden(c)
    <2>1. top(c).at = "children"
      BY <1>7 DEF ChildrenGone, Forbidden, At
    <2>2. PICK p \in Places : Goto(c, p) /\ (p = "failed" \/ (p = "write" /\ top(c).left = {}))
      BY <1>7 DEF ChildrenGone, Forbidden, Fail, Places
    <2> DEFINE f == [top(c) EXCEPT !.at = p]
    <2>3. f.op = top(c).op /\ f.rec = top(c).rec /\ f.at = p /\ f.left = top(c).left
      BY <1>2 DEF Frame
    <2> HIDE DEF f
    <2>4. c \in Batches => Ripe(f, points, ForbidsAfterCheck(c)) /\ p # "children"
      <3>1. c \in Batches /\ p = "write" => ~Refers("cascade", points)
        BY <1>3, <2>1, <2>2 DEF Complete, Refers
      <3> QED
        BY <1>3, <2>1, <2>2, <2>3, <3>1 DEF Ripe, Dying, ToClear
    <2> QED
      BY <1>1, <1>2, <2>2, <2>4, GotoClean DEF f
  <1> QED
    BY <1>5, <1>6, <1>7


LEMMA Replaced ==
    ASSUME NEW s \in Seq(Frame), s # <<>>, NEW f \in Frame
    PROVE  LET t == [s EXCEPT ![Len(s)] = f]
           IN  /\ t \in Seq(Frame) /\ t # <<>> /\ DOMAIN t = DOMAIN s /\ Len(t) = Len(s)
               /\ t[Len(s)] = f
               /\ \A i \in DOMAIN t : i # Len(s) => t[i] = s[i]
  <1>1. Len(s) \in DOMAIN s /\ DOMAIN s = 1 .. Len(s) /\ Len(s) \in Nat
    OBVIOUS
  <1> QED
    BY <1>1

LEMMA Added ==
    ASSUME NEW s \in Seq(Frame), NEW e
    PROVE  LET t == Append(s, e)
           IN  \A i \in DOMAIN t : t[i] = e \/ (i \in DOMAIN s /\ t[i] = s[i])
  <1> DEFINE t == Append(s, e)
             m == Len(s) + 1
  <1>1. DOMAIN t = 1 .. m /\ t[m] = e /\ DOMAIN s = 1 .. Len(s) /\ Len(s) \in Nat
    OBVIOUS
  <1>2. \A i \in DOMAIN s : t[i] = s[i]
    OBVIOUS
  <1>3. \A i \in 1 .. m : i = m \/ i \in 1 .. Len(s)
    BY <1>1
  <1> QED
    BY <1>1, <1>2, <1>3

\* The write on top becomes f and waits for a new one, of w.
LEMMA CallClean ==
    ASSUME GateInv, StackInv, CleanInv, NEW c \in Callers, Running(c), NEW f \in Frame,
           f.op = top(c).op, f.rec = top(c).rec, NEW w, Call(c, f, w),
           UNCHANGED <<there, points, ask, undo, loose>>,
           c \in Batches => /\ Ripe(f, points, ForbidsAfterCheck(c))
                            /\ Dying(f)
                            /\ f.at = "children" \/ (Len(stack[c]) = 1 /\ f.at = "read rows")
                            /\ Suits(w, f, points, ForbidsAfterCheck(c)),
           f.op = "point" => f.at \notin ToClear \cup {"write"},
           w.op = "point" => w.rec \in Children
    PROVE  CleanInv'
  <1> DEFINE n == Len(stack[c])
             s == [stack[c] EXCEPT ![n] = f]
             t == Append(s, Begun(w))
  <1>1. /\ stack[c] \in Seq(Frame) /\ stack[c] # <<>>
        /\ n \in DOMAIN stack[c] /\ top(c) = stack[c][n]
    BY TopFrame DEF top
  <1>2. stack' = [stack EXCEPT ![c] = t]
    BY DEF Call
  <1>3. /\ s \in Seq(Frame) /\ s # <<>> /\ DOMAIN s = DOMAIN stack[c] /\ s[n] = f
        /\ Len(s) = n
        /\ \A i \in DOMAIN s : i # n => s[i] = stack[c][i]
    BY <1>1, Replaced
  <1>4. ASSUME c \in Batches PROVE Clears(t, points', ForbidsAfterCheck(c))
    <2>1. ForbidsAfterCheck(c) \in BOOLEAN
      BY ForbidsOrNot
    <2>2. Standing(stack[c], points, ForbidsAfterCheck(c))
      BY <1>4 DEF CleanInv, Clearing, Clears
    <2>3. Standing(s, points, ForbidsAfterCheck(c))
      BY <1>1, <1>4, <2>1, <2>2, StandingTop
    <2>4. Waits(s, Len(s))
      BY <1>3, <1>4 DEF Waits
    <2>5. Suits(w, s[Len(s)], points, ForbidsAfterCheck(c))
      BY <1>3, <1>4
    <2> HIDE DEF s
    <2>6. Clears(t, points, ForbidsAfterCheck(c))
      BY <1>3, <2>1, <2>3, <2>4, <2>5, StandingPush
    <2> QED
      BY <2>6
  <1>5. Aims(t, Parent \in there' \/ loose')
    <2>1. Aims(stack[c], Parent \in there \/ loose)
      BY DEF CleanInv, Pointing
    <2> HIDE DEF s
    <2>3. \A i \in DOMAIN t : t[i] = Begun(w) \/ (i \in DOMAIN s /\ t[i] = s[i])
      BY <1>3, Added
    <2>4. /\ Begun(w).op = w.op /\ Begun(w).rec = w.rec /\ Begun(w).at = "lock"
      BY Zenon DEF Begun
    <2>5. Aimed(Begun(w), Parent \in there' \/ loose')
      BY <2>4 DEF Aimed, ToClear
    <2>6. Aimed(f, Parent \in there' \/ loose')
      <3>1. f.op = "point" => f.rec \in Children
        BY <1>1, TopAimed DEF Aimed
      <3> QED
        BY <3>1 DEF Aimed
    <2>7. \A i \in DOMAIN s : i # n => Aimed(stack[c][i], Parent \in there' \/ loose')
      BY <1>3, <2>1 DEF Aims
    <2> HIDE DEF t, n
    <2> SUFFICES ASSUME NEW i \in DOMAIN t
                 PROVE  Aimed(t[i], Parent \in there' \/ loose')
      BY DEF Aims
    <2>8. CASE t[i] = Begun(w)
      BY <2>5, <2>8
    <2>9. CASE i \in DOMAIN s /\ t[i] = s[i]
      BY <1>3, <2>6, <2>7, <2>9
    <2> QED
      BY <2>3, <2>8, <2>9
  <1> HIDE DEF t
  <1>6. /\ Clearing'
        /\ \A d \in Callers : Aims(stack'[d], Parent \in there' \/ loose')
    BY <1>2, <1>4, <1>5, FramesStep
  <1> QED
    BY <1>6, QuietClean

LEMMA HookClean ==
    ASSUME GateInv, LockInv, CleanInv, NEW c \in Callers, runBeforeHook(c)
    PROVE  CleanInv'
  <1>1. /\ StackInv /\ DataInv /\ Running(c) /\ UNCHANGED <<there, points, ask, undo, loose>>
        /\ top(c).at = "hook" /\ Hooked(c)
    BY DEF LockInv, runBeforeHook, At
  <1>2. top(c) \in Frame
    BY <1>1, TopFrame
  <1>3. c \in Batches => Ripe(top(c), points, ForbidsAfterCheck(c))
    BY <1>1, TopRipe
  <1>4. CASE Goto(c, "failed")
    <2>1. c \in Batches => Ripe([top(c) EXCEPT !.at = "failed"], points, ForbidsAfterCheck(c))
      BY <1>2, <1>3 DEF Ripe, Frame, ToClear
    <2> QED
      BY <1>1, <1>4, <2>1, GotoClean DEF ToClear, Places
  <1>5. CASE Call(c, [top(c) EXCEPT !.at = AfterHook(top(c))], ask[c].hook)
    <2> DEFINE p == AfterHook(top(c))
               f == [top(c) EXCEPT !.at = p]
               w == ask[c].hook
    <2>1. p \in Places
      BY DEF AfterHook, Places
    <2>2. Call(c, f, w)
      BY <1>5
    <2>3. w # None /\ w \in Write
      <3>1. ask[c] # None /\ w # None
        BY <1>1, TopFrame DEF Hooked
      <3> QED
        BY <1>1, <3>1 DEF DataInv, Request
    <2>4. w.op = "point" => w.rec \in Children
      BY <2>3 DEF Write
    <2>5. c \in Batches => Dying(top(c)) /\ Len(stack[c]) = 1
      BY <1>1, TopRipe DEF Hooked
    <2>6. c \in Batches => p = "read rows"
      BY <2>5 DEF AfterHook, Dying
    <2>7. top(c).op = "point" => p = "validate"
      BY DEF AfterHook
    <2>8. w.op = "point" /\ Cascade[w.rec] = "restrict" => ForbidsAfterCheck(c)
      BY <2>3 DEF ForbidsAfterCheck
    <2> HIDE DEF p, w
    <2>9. f \in Frame /\ f.op = top(c).op /\ f.rec = top(c).rec /\ f.at = p /\ f.left = top(c).left
      BY <1>2, <2>1 DEF Frame
    <2> HIDE DEF f
    <2>10. ASSUME c \in Batches
           PROVE  /\ Ripe(f, points, ForbidsAfterCheck(c))
                  /\ Dying(f)
                  /\ Suits(w, f, points, ForbidsAfterCheck(c))
      <3>1. f.at = "read rows" /\ Dying(f)
        BY <2>5, <2>6, <2>9, <2>10 DEF Dying
      <3>2. Ripe(f, points, ForbidsAfterCheck(c))
        BY <1>1, <1>3, <2>5, <2>9, <2>10, <3>1 DEF Ripe
      <3>3. Suits(w, f, points, ForbidsAfterCheck(c))
        BY <2>8, <3>1 DEF Suits
      <3> QED
        BY <3>1, <3>2, <3>3
    <2>11. f.op = "point" => f.at \notin ToClear \cup {"write"}
      BY <2>7, <2>9 DEF ToClear
    <2> QED
      BY <1>1, <2>2, <2>4, <2>5, <2>6, <2>9, <2>10, <2>11, CallClean
  <1> QED
    BY <1>4, <1>5 DEF runBeforeHook, Fail

LEMMA ChildClean ==
    ASSUME GateInv, LockInv, CleanInv, NEW c \in Callers, DeleteChild(c)
    PROVE  CleanInv'
  <1>1. /\ StackInv /\ Running(c) /\ UNCHANGED <<there, points, ask, undo, loose>>
        /\ top(c).at = "children"
    BY DEF LockInv, DeleteChild, At
  <1>2. top(c) \in Frame
    BY <1>1, TopFrame
  <1>3. c \in Batches => /\ Ripe(top(c), points, ForbidsAfterCheck(c))
                         /\ Complete(top(c), points)
    BY <1>1, TopRipe
  <1>4. PICK k \in top(c).left :
          Call(c, [top(c) EXCEPT !.left = @ \ {k}], [op |-> "delete", rec |-> k])
    BY DEF DeleteChild
  <1> DEFINE R == top(c).left \ {k}
             f == [top(c) EXCEPT !.left = R]
             w == [op |-> "delete", rec |-> k]
  <1>5. Call(c, f, w) /\ w.op = "delete" /\ w.rec = k
    BY <1>4
  <1>6. R \in SUBSET Records
    BY <1>2, FrameFields
  <1> HIDE DEF w
  <1>7. /\ f \in Frame /\ f.op = top(c).op /\ f.rec = top(c).rec /\ f.at = "children"
        /\ f.left = top(c).left \ {k}
    BY <1>1, <1>2, <1>6 DEF Frame
  <1> HIDE DEF f, R
  <1>8. ASSUME c \in Batches
        PROVE  /\ Ripe(f, points, ForbidsAfterCheck(c))
               /\ Dying(f)
               /\ Suits(w, f, points, ForbidsAfterCheck(c))
    <2>1. Dying(f)
      BY <1>1, <1>3, <1>7, <1>8 DEF Ripe, Dying, ToClear
    <2>2. Ripe(f, points, ForbidsAfterCheck(c))
      BY <1>1, <1>3, <1>7, <1>8, <2>1 DEF Ripe, Dying
    <2>3. k \in Children
      BY <1>3, <1>8 DEF Ripe
    <2>4. \A q \in points : Cascade[q] = "cascade" => q \in f.left \/ w.rec = q
      BY <1>1, <1>3, <1>5, <1>7, <1>8 DEF Complete
    <2>5. Suits(w, f, points, ForbidsAfterCheck(c))
      BY <1>5, <2>3, <2>4 DEF Suits
    <2> QED
      BY <2>1, <2>2, <2>5
  <1>9. f.op # "point"
    BY <1>1, <1>7, TopAimed DEF Aimed, ToClear
  <1> QED
    BY <1>1, <1>5, <1>7, <1>8, <1>9, CallClean


\* The hook of a batch points the record r at the parent.
LEMMA StandingPoints ==
    ASSUME NEW s \in Seq(Frame), s # <<>>, NEW P, NEW F \in BOOLEAN, Standing(s, P, F),
           s[Len(s)].op = "point", NEW r, r = s[Len(s)].rec
    PROVE  Standing(s, P \cup {r}, F)
  <1> DEFINE n == Len(s)
             Q == P \cup {r}
  <1>1. n \in Nat /\ n \in DOMAIN s /\ DOMAIN s = 1 .. n
    OBVIOUS
  <1>2. HooksPoint(s, F) /\ s[n].op = "point" /\ s[n].rec = r
    BY DEF Standing
  <1> HIDE DEF n
  <1>3. n = 2 /\ s[1].at = "read rows"
    BY <1>1, <1>2, Zenon DEF HooksPoint
  <1>4. Cascade[r] = "restrict" => F
    BY <1>1, <1>2, Zenon DEF HooksPoint
  <1>0. DOMAIN s = 1 .. 2
    BY <1>1, <1>3, Zenon
  <1>5. \A i \in DOMAIN s : i = 1 \/ i = n
    <2>1. \A i \in 1 .. 2 : i = 1 \/ i = 2
      OBVIOUS
    <2> QED
      BY <1>0, <1>3, <2>1, Zenon
  <1>6. 1 \in DOMAIN s
    <2>1. 1 \in 1 .. 2
      OBVIOUS
    <2> QED
      BY <1>0, <2>1, Zenon
  <1>7. Ripe(s[1], Q, F)
    <2>1. Ripe(s[1], P, F)
      BY <1>6 DEF Standing
    <2>2. F \/ ~Refers("restrict", P) => F \/ ~Refers("restrict", Q)
      BY <1>4 DEF Refers
    <2>3. s[1].at \notin {"read ids", "children", "write", "done", "validate"}
      BY <1>3
    <2> HIDE DEF Q
    <2> QED
      BY <2>1, <2>2, <2>3, Zenon DEF Ripe
  <1>8. Ripe(s[n], Q, F)
    <2>1. Ripe(s[n], P, F)
      BY <1>1 DEF Standing
    <2>2. ~Dying(s[n]) /\ s[n].op # "delete"
      BY <1>2 DEF Dying
    <2> QED
      BY <2>1, <2>2, Zenon DEF Ripe
  <1>9. Minds(s, Q)
    <2> SUFFICES ASSUME NEW i \in DOMAIN s, NEW j \in DOMAIN s, j = i + 1, s[i].at = "children"
                 PROVE  FALSE
      BY DEF Minds
    <2>1. \A x, y \in 1 .. 2 : y = x + 1 => x = 1
      OBVIOUS
    <2>2. i = 1
      BY <1>0, <2>1, Zenon
    <2> QED
      BY <1>3, <2>2, Zenon
  <1>10. \A i \in DOMAIN s : Ripe(s[i], Q, F)
    BY <1>5, <1>7, <1>8
  <1>11. /\ 1 \in DOMAIN s => Dying(s[1])
         /\ \A i, j \in DOMAIN s : i < j => Waits(s, i)
    BY DEF Standing
  <1> HIDE DEF Q
  <1>12. Standing(s, Q, F)
    BY <1>2, <1>9, <1>10, <1>11 DEF Standing
  <1> QED
    BY <1>12 DEF Q

LEMMA SetNullClean ==
    ASSUME GateInv, LockInv, CleanInv, NEW c \in Callers, SetNull(c)
    PROVE  CleanInv'
  <1>1. /\ StackInv /\ DataInv /\ Running(c) /\ UNCHANGED <<there, ask, loose>>
        /\ top(c).at = "wait" /\ points' = points \ Referring("setNull")
        /\ Goto(c, "read ids")
    BY DEF LockInv, SetNull, At
  <1>2. top(c) \in Frame
    BY <1>1, TopFrame
  <1>3. c \in Batches => /\ Ripe(top(c), points, ForbidsAfterCheck(c))
                         /\ Standing(stack[c], points, ForbidsAfterCheck(c))
    BY <1>1, TopRipe
  <1> DEFINE f == [top(c) EXCEPT !.at = "read ids"]
  <1>4. Top(c, f)
    BY <1>1 DEF Goto
  <1>5. f.op = top(c).op /\ f.rec = top(c).rec /\ f.at = "read ids" /\ f.left = top(c).left
    BY <1>2 DEF Frame
  <1> HIDE DEF f
  <1>6. points' \subseteq points /\ ~Refers("setNull", points')
    BY <1>1 DEF Refers, Referring
  <1>7. Refers("restrict", points') => Refers("restrict", points)
    BY <1>6 DEF Refers
  <1>8. ASSUME c \in Batches
        PROVE  /\ Standing(stack[c], points', ForbidsAfterCheck(c))
               /\ Ripe(f, points', ForbidsAfterCheck(c))
               /\ Complete(f, points')
    <2>1. Standing(stack[c], points', ForbidsAfterCheck(c))
      BY <1>3, <1>6, <1>8, StandingLess, ForbidsOrNot
    <2>2. Ripe(f, points', ForbidsAfterCheck(c))
      BY <1>1, <1>3, <1>5, <1>6, <1>7, <1>8 DEF Ripe, Dying, ToClear
    <2> QED
      BY <1>5, <2>1, <2>2 DEF Complete
  <1>9. f.op # "point"
    BY <1>1, <1>5, TopAimed DEF Aimed, ToClear
  <1>10. /\ Clearing'
         /\ \A d \in Callers : Aims(stack'[d], Parent \in there' \/ loose')
    BY <1>1, <1>4, <1>5, <1>8, <1>9, TopClears
  <1>11. undo'.there = undo.there /\ undo'.points = undo.points
    BY <1>1 DEF SetNull, Touches, DataInv
  <1> QED
    BY <1>1, <1>6, <1>10, <1>11 DEF CleanInv, Pointing, NoDangling

LEMMA WriteRowClean ==
    ASSUME GateInv, LockInv, CleanInv, NEW c \in Callers, WriteRow(c)
    PROVE  CleanInv'
  <1> DEFINE r == top(c).rec
  <1>1. /\ StackInv /\ DataInv /\ Running(c) /\ UNCHANGED ask
        /\ top(c).at = "write"
    BY DEF LockInv, WriteRow, At
  <1>2. top(c) \in Frame /\ stack[c] \in Seq(Frame) /\ stack[c] # <<>>
    BY <1>1, TopFrame
  <1>3. c \in Batches => /\ Ripe(top(c), points, ForbidsAfterCheck(c))
                         /\ Standing(stack[c], points, ForbidsAfterCheck(c))
    BY <1>1, TopRipe
  <1>4. Aimed(top(c), Parent \in there \/ loose)
    BY <1>1, TopAimed
  <1>5. undo'.there = undo.there /\ undo'.points = undo.points
    BY <1>1 DEF WriteRow, Touches, DataInv
  <1>6. /\ top(c).op = "delete" => there' = there \ {r} /\ points' = points \ {r}
        /\ top(c).op = "point" => points' = points \cup ({r} \cap there) /\ there' = there
        /\ top(c).op = "update" => there' = there /\ points' = points
    BY DEF WriteRow
  <1>7. loose' <=> (loose \/ (/\ top(c).op = "delete" /\ r = Parent
                              /\ c \in Writers \/ ForbidsAfterCheck(c)))
    BY DEF WriteRow
  <1>8. PICK p \in {"done", "failed"} : Goto(c, p)
    BY DEF WriteRow, Fail
  <1> DEFINE f == [top(c) EXCEPT !.at = p]
  <1>9. Top(c, f)
    BY <1>8 DEF Goto
  <1>10. f.op = top(c).op /\ f.rec = r /\ f.at = p /\ f.left = top(c).left
    BY <1>2 DEF Frame
  <1>11. top(c).op \in {"update", "point", "delete"}
    BY <1>2, FrameFields
  <1> HIDE DEF f, r
  <1>12. points' \subseteq Children \cap there'
    BY <1>4, <1>6, <1>11 DEF CleanInv, Pointing, Aimed, r
  <1>13. NoDangling'
    <2>1. CASE top(c).op = "delete" /\ r = Parent /\ ~loose'
      <3>1. c \in Batches /\ ~ForbidsAfterCheck(c) /\ Dying(top(c))
        BY <1>7, <2>1 DEF Dying, r, Callers
      <3>2. ~Refers("restrict", points) /\ ~Refers("setNull", points) /\ ~Refers("cascade", points)
        BY <1>1, <1>3, <3>1 DEF Ripe
      <3>3. points \subseteq Children
        BY DEF CleanInv, Pointing
      <3>4. \A k \in Children : Cascade[k] \in {"setNull", "cascade", "restrict"}
        BY RecordsAssumption
      <3>5. points = {}
        BY <3>2, <3>3, <3>4 DEF Refers
      <3> QED
        BY <1>6, <2>1, <3>5 DEF NoDangling
    <2>2. CASE top(c).op = "delete" /\ r # Parent
      BY <1>6, <1>7, <2>2 DEF CleanInv, NoDangling
    <2>3. CASE top(c).op = "point"
      BY <1>1, <1>4, <1>6, <1>7, <2>3 DEF Aimed, NoDangling
    <2>4. CASE top(c).op = "update"
      BY <1>6, <1>7, <2>4 DEF CleanInv, NoDangling
    <2> QED
      BY <1>11, <2>1, <2>2, <2>3, <2>4 DEF NoDangling
  <1>14. ASSUME c \in Batches
         PROVE  /\ Standing(stack[c], points', ForbidsAfterCheck(c))
                /\ Ripe(f, points', ForbidsAfterCheck(c))
                /\ Complete(f, points')
    <2>1. ForbidsAfterCheck(c) \in BOOLEAN
      BY ForbidsOrNot
    <2>2. Standing(stack[c], points', ForbidsAfterCheck(c))
      <3>1. CASE points' \subseteq points
        BY <1>3, <1>14, <2>1, <3>1, StandingLess
      <3>2. CASE top(c).op = "point" /\ points' = points \cup {r}
        <4>1. r = stack[c][Len(stack[c])].rec /\ stack[c][Len(stack[c])].op = "point"
          BY <3>2 DEF top, r
        <4> QED
          BY <1>2, <1>3, <1>14, <2>1, <3>2, <4>1, StandingPoints
      <3> QED
        BY <1>6, <1>11, <3>1, <3>2
    <2>3. Ripe(f, points', ForbidsAfterCheck(c))
      <3>1. f.op = "delete" => f.rec \notin points'
        BY <1>6, <1>10
      <3>2. f.left \subseteq Children
        BY <1>3, <1>10, <1>14 DEF Ripe
      <3> QED
        BY <1>10, <3>1, <3>2 DEF Ripe, ToClear
    <2> QED
      BY <1>10, <2>2, <2>3 DEF Complete
  <1>15. f.op = "point" => f.at \notin ToClear /\ (f.at = "write" => Parent \in there' \/ loose')
    BY <1>10 DEF ToClear
  <1>16. c \in Batches \/ (Parent \in there \/ loose => Parent \in there' \/ loose')
    <2> SUFFICES ASSUME c \notin Batches PROVE Parent \in there \/ loose => Parent \in there' \/ loose'
      OBVIOUS
    <2>1. c \in Writers
      BY DEF Callers
    <2> QED
      BY <1>6, <1>7, <1>11, <2>1
  <1>17. /\ Clearing'
         /\ \A d \in Callers : Aims(stack'[d], Parent \in there' \/ loose')
    BY <1>1, <1>9, <1>10, <1>14, <1>15, <1>16, TopClears DEF r
  <1>18. /\ undo'.points \subseteq Children \cap undo'.there
         /\ Parent \in undo'.there \/ loose' \/ undo'.points = {}
    BY <1>5, <1>7 DEF CleanInv, Pointing
  <1> QED
    BY <1>12, <1>13, <1>17, <1>18 DEF CleanInv, Pointing


\* A write ends: what waited for it goes on, or fails too.
LEMMA ReturnClean ==
    ASSUME GateInv, LockInv, CleanInv, NEW c \in Callers, Return(c)
    PROVE  CleanInv'
  <1> DEFINE s == stack[c]
             rest == Front(s)
             F == ForbidsAfterCheck(c)
  <1>1. /\ StackInv /\ DataInv /\ Running(c) /\ UNCHANGED <<ask, undo, loose>>
        /\ top(c).at \in {"done", "failed"}
    BY DEF LockInv, Return
  <1>2. s \in Seq(Frame) /\ s # <<>> /\ top(c) = s[Len(s)]
    BY <1>1, TopFrame DEF top
  <1>3. c \in Batches => Ripe(top(c), points, F) /\ Standing(s, points, F)
    BY <1>1, TopRipe
  <1>4. Aims(s, Parent \in there \/ loose)
    BY DEF CleanInv, Pointing
  <1>5. /\ rest \in Seq(Frame)
        /\ \A i \in DOMAIN rest : rest[i] = s[i] /\ i \in DOMAIN s
    <2>1. /\ rest \in Seq(Frame) /\ DOMAIN rest = 1 .. Len(s) - 1
          /\ \A i \in DOMAIN rest : rest[i] = s[i]
      BY <1>2, FrontOf
    <2>2. 1 .. Len(s) - 1 \subseteq DOMAIN s
      BY <1>2
    <2> HIDE DEF rest, s
    <2> QED
      BY <2>1, <2>2
  <1>6. Aims(rest, Parent \in there \/ loose)
    BY <1>4, <1>5 DEF Aims
  <1>7. F \in BOOLEAN
    BY ForbidsOrNot
  <1>8. ASSUME c \in Batches
        PROVE  /\ Standing(rest, points, F)
               /\ \/ top(c).at = "done"
                  \/ rest # <<>> /\ Last(rest).at # "children"
                  => Clears(rest, points, F)
    <2>1. top(c).at = "done" => (top(c).op = "delete" => top(c).rec \notin points)
      BY <1>3, <1>8 DEF Ripe
    <2> HIDE DEF F
    <2> QED
      BY <1>2, <1>3, <1>7, <1>8, <2>1, StandingPop
  <1>9. CASE stack' = [stack EXCEPT ![c] = rest] /\ UNCHANGED <<there, points>>
             /\ (top(c).at = "done" \/ rest = <<>> \/ Last(rest).at # "children")
    <2>1. c \in Batches => Clears(rest, points', F)
      BY <1>8, <1>9, NothingStands
    <2>2. Aims(rest, Parent \in there' \/ loose')
      BY <1>1, <1>6, <1>9
    <2>3. /\ Clearing'
          /\ \A d \in Callers : Aims(stack'[d], Parent \in there' \/ loose')
      BY <1>1, <1>9, <2>1, <2>2, FramesStep
    <2> QED
      BY <1>1, <1>9, <2>3, QuietClean
  <1>10. CASE /\ rest # <<>> /\ UNCHANGED <<there, points>>
              /\ stack' = [stack EXCEPT ![c] = [rest EXCEPT ![Len(rest)].at = "failed"]]
    <2> DEFINE f == [rest[Len(rest)] EXCEPT !.at = "failed"]
               u == [rest EXCEPT ![Len(rest)] = f]
    <2>1. Len(rest) \in DOMAIN rest /\ rest[Len(rest)] \in Frame
      <3> HIDE DEF rest
      <3> QED
        BY <1>5, <1>10
    <2>2. stack' = [stack EXCEPT ![c] = u]
      BY <1>10
    <2> HIDE DEF rest, F
    <2>3. /\ f \in Frame /\ f.at = "failed" /\ f.op = rest[Len(rest)].op
          /\ f.rec = rest[Len(rest)].rec /\ f.left = rest[Len(rest)].left
      BY <2>1 DEF Frame, Places
    <2> HIDE DEF f
    <2>4. /\ Len(u) = Len(rest) /\ u[Len(rest)] = f /\ u # <<>>
          /\ DOMAIN u = DOMAIN rest
          /\ \A i \in DOMAIN u : i # Len(rest) => u[i] = rest[i]
      BY <1>5, <1>10, <2>3, Replaced
    <2>5. ASSUME c \in Batches PROVE Clears(u, points', F)
      <3>1. Ripe(rest[Len(rest)], points, F)
        BY <1>8, <2>1, <2>5 DEF Standing
      <3>2. Ripe(f, points, F)
        BY <2>3, <3>1 DEF Ripe, ToClear
      <3>3. Standing(u, points, F)
        BY <1>5, <1>7, <1>8, <1>10, <2>3, <2>5, <3>2, StandingTop
      <3>4. Complete(u[Len(u)], points)
        BY <2>3, <2>4 DEF Complete
      <3> HIDE DEF u
      <3> QED
        BY <1>10, <3>3, <3>4 DEF Clears
    <2> HIDE DEF u
    <2>6. Aims(u, Parent \in there' \/ loose')
      <3>1. Aimed(f, Parent \in there \/ loose)
        BY <1>6, <2>1, <2>3 DEF Aims, Aimed, ToClear
      <3>2. Aims(u, Parent \in there \/ loose)
        BY <1>6, <2>4, <3>1 DEF Aims
      <3> QED
        BY <1>1, <1>10, <3>2
    <2>7. /\ Clearing'
          /\ \A d \in Callers : Aims(stack'[d], Parent \in there' \/ loose')
      BY <1>1, <1>10, <2>2, <2>5, <2>6, FramesStep DEF F
    <2> QED
      BY <1>1, <1>10, <2>7, QuietClean
  <1>11. CASE /\ c \in Batches /\ rest = <<>> /\ stack' = [stack EXCEPT ![c] = <<>>]
              /\ there' = undo.there /\ points' = undo.points
    <2>1. c \in Batches => Clears(<<>>, points', F)
      BY NothingStands
    <2>2. Aims(<<>>, Parent \in there' \/ loose')
      BY NothingStands
    <2>3. /\ Clearing'
          /\ \A d \in Callers : Aims(stack'[d], Parent \in there' \/ loose')
      BY <1>1, <1>11, <2>1, <2>2, FramesStep
    <2> QED
      BY <1>1, <1>11, <2>3 DEF CleanInv, Pointing, NoDangling
  <1>12. \/ /\ stack' = [stack EXCEPT ![c] = rest] /\ UNCHANGED <<there, points>>
            /\ top(c).at = "done" \/ rest = <<>> \/ Last(rest).at # "children"
         \/ /\ rest # <<>> /\ UNCHANGED <<there, points>>
            /\ stack' = [stack EXCEPT ![c] = [rest EXCEPT ![Len(rest)].at = "failed"]]
         \/ /\ c \in Batches /\ rest = <<>> /\ stack' = [stack EXCEPT ![c] = <<>>]
            /\ there' = undo.there /\ points' = undo.points
    <2> HIDE DEF F
    <2> QED
      BY <1>1, Zenon DEF Return
  <1> QED
    BY <1>9, <1>10, <1>11, <1>12

\* Who has no write comes, waits or is answered.
LEMMA AskClean ==
    ASSUME LockInv, CleanInv, NEW c \in Callers, ~Running(c), UNCHANGED <<there, points, stack, loose>>,
           \A d \in Callers \ {c} : ask'[d] = ask[d],
           c \in Batches /\ ask'[c] # None => Dying(ask'[c].write),
           \/ undo'.there = undo.there /\ undo'.points = undo.points
           \/ undo'.points = {}
    PROVE  CleanInv'
  <1>1. stack[c] = <<>>
    BY DEF Running
  <1>2. \A b \in Batches : b \in Callers
    BY DEF Callers
  <1>3. (\A b \in Batches : ask[b] # None => Dying(ask[b].write))'
    <2> SUFFICES ASSUME NEW b \in Batches, ask'[b] # None PROVE Dying(ask'[b].write)
      BY DEF Dying
    <2>1. CASE b = c
      BY <2>1
    <2>2. CASE b # c
      <3>1. ask'[b] = ask[b] /\ (ask[b] # None => Dying(ask[b].write))
        BY <1>2, <2>2 DEF CleanInv, Clearing
      <3> QED
        BY <3>1
    <2> QED
      BY <2>1, <2>2
  <1>4. \A b \in Batches : Clears(stack[b], points, ForbidsAfterCheck(b)')
    <2> TAKE b \in Batches
    <2>1. CASE b = c
      BY <1>1, <2>1, NothingStands
    <2>2. CASE b # c
      <3>1. ForbidsAfterCheck(b)' = ForbidsAfterCheck(b)
        BY <1>2, <2>2 DEF ForbidsAfterCheck
      <3>2. Clears(stack[b], points, ForbidsAfterCheck(b))
        BY DEF CleanInv, Clearing
      <3> QED
        BY <3>1, <3>2, Zenon
    <2> QED
      BY <2>1, <2>2
  <1>5. stack' = stack /\ points' = points
    OBVIOUS
  <1>6. \A b \in Batches : Clears(stack[b], points, ForbidsAfterCheck(b))'
    BY <1>4, <1>5, Zenon
  <1>7. Clearing'
    BY <1>3, <1>6 DEF Clearing
  <1>8. \A d \in Callers : Aims(stack'[d], Parent \in there' \/ loose')
    BY DEF CleanInv, Pointing
  <1> QED
    BY <1>7, <1>8 DEF CleanInv, Pointing, NoDangling

LEMMA CallsClean ==
    ASSUME GateInv, LockInv, CleanInv, NEW c \in Callers, Asked(c) \/ Park(c) \/ Answer(c)
    PROVE  CleanInv'
  <1>1. /\ UNCHANGED <<there, points, stack, loose>>
        /\ StackInv /\ DataInv
    BY DEF LockInv, Asked, Park, Answer, recordVars
  <1>2. CASE Asked(c)
    <2>1. ask[c] = None /\ ~Running(c)
      BY <1>1, <1>2 DEF Asked, StackInv, Inside1
    <2>2. PICK a \in Asks[c] : ask' = [ask EXCEPT ![c] = a]
      BY <1>2 DEF Asked
    <2>3. ask'[c] = a /\ \A d \in Callers \ {c} : ask'[d] = ask[d]
      BY <1>1, <2>2 DEF DataInv
    <2>4. c \in Batches => Dying(a.write)
      BY RecordsAssumption DEF Cascades, Dying
    <2>5. undo'.there = undo.there /\ undo'.points = undo.points
      BY <1>1, <1>2 DEF Asked, DataInv
    <2> QED
      BY <1>1, <2>1, <2>3, <2>4, <2>5, AskClean
  <1>3. CASE Park(c)
    <2>1. ~Running(c) /\ UNCHANGED <<ask, undo>>
      BY <1>1, <1>3, GateMoves DEF Park, recordVars, StackInv, Inside1
    <2>2. c \in Batches /\ ask'[c] # None => Dying(ask'[c].write)
      <3>1. ask' = ask /\ (c \in Batches /\ ask[c] # None => Dying(ask[c].write))
        BY <2>1 DEF CleanInv, Clearing
      <3> QED
        BY <3>1
    <2> QED
      BY <1>1, <2>1, <2>2, AskClean
  <1>4. CASE Answer(c)
    <2>1. ~Running(c) /\ ask' = [ask EXCEPT ![c] = None] /\ (undo' = undo \/ undo' = NoUndo)
      BY <1>4 DEF Answer
    <2>2. ask'[c] = None /\ \A d \in Callers \ {c} : ask'[d] = ask[d]
      BY <1>1, <2>1 DEF DataInv
    <2>3. undo' = undo \/ undo'.points = {}
      BY <2>1 DEF NoUndo
    <2> QED
      BY <1>1, <2>1, <2>2, <2>3, AskClean
  <1> QED
    BY <1>2, <1>3, <1>4


LEMMA EnterClean ==
    ASSUME GateInv, LockInv, CleanInv, NEW c \in Callers, Enter(c)
    PROVE  CleanInv'
  <1> DEFINE w == ask[c].write
             s == <<Begun(w)>>
             F == ForbidsAfterCheck(c)
  <1>1. /\ StackInv /\ DataInv /\ UNCHANGED <<there, points, ask, loose>>
        /\ ask[c] # None /\ stack' = [stack EXCEPT ![c] = s]
    BY DEF LockInv, Enter
  <1>2. stack'[c] = s /\ \A d \in Callers \ {c} : stack'[d] = stack[d]
    BY <1>1 DEF StackInv
  <1>3. w \in Write
    BY <1>1 DEF DataInv, Request
  <1>4. w.op = "point" => w.rec \in Children
    BY <1>3 DEF Write
  <1>5. c \in Batches => Dying(w)
    BY <1>1 DEF CleanInv, Clearing
  <1>6. /\ Begun(w).op = w.op /\ Begun(w).rec = w.rec /\ Begun(w).at = "lock"
        /\ Begun(w).left = {}
    BY Zenon DEF Begun
  <1>7. DOMAIN s = {1} /\ s[1] = Begun(w) /\ Len(s) = 1 /\ s # <<>>
    OBVIOUS
  <1> HIDE DEF w, s
  <1>8. ASSUME c \in Batches PROVE Clears(s, points, F)
    <2>1. Dying(s[1]) /\ s[1].at = "lock" /\ s[1].op = "delete" /\ s[1].left = {}
      BY <1>5, <1>6, <1>7, <1>8 DEF Dying
    <2>2. \A i \in DOMAIN s : i = 1
      BY <1>7
    <2>3. \A i \in DOMAIN s : Ripe(s[i], points, F)
      <3>1. Ripe(s[1], points, F)
        BY <2>1 DEF Ripe, ToClear
      <3> QED
        BY <2>2, <3>1, Zenon
    <2>4. \A i, j \in DOMAIN s : ~(i < j) /\ j # i + 1
      BY <2>2
    <2>5. HooksPoint(s, F)
      BY <2>1, <2>2 DEF HooksPoint
    <2>6. Minds(s, points)
      BY <2>4 DEF Minds
    <2>7. Standing(s, points, F)
      BY <2>1, <2>3, <2>4, <2>5, <2>6 DEF Standing
    <2>8. Complete(s[Len(s)], points)
      BY <1>7, <2>1 DEF Complete
    <2> QED
      BY <2>7, <2>8 DEF Clears
  <1>9. Aims(s, Parent \in there \/ loose)
    BY <1>4, <1>6, <1>7 DEF Aims, Aimed, ToClear
  <1>10. ask' = ask /\ points' = points
    BY <1>1
  <1>11. \A b \in Batches : Clears(stack'[b], points, ForbidsAfterCheck(b))
    <2> TAKE b \in Batches
    <2>1. CASE b = c
      BY <1>2, <1>8, <2>1
    <2>2. CASE b # c
      <3>1. stack'[b] = stack[b]
        BY <1>2, <2>2 DEF Callers
      <3>2. Clears(stack[b], points, ForbidsAfterCheck(b))
        BY DEF CleanInv, Clearing
      <3> QED
        BY <3>1, <3>2, Zenon
    <2> QED
      BY <2>1, <2>2
  <1>12. \A b \in Batches : ForbidsAfterCheck(b)' = ForbidsAfterCheck(b)
    BY <1>10 DEF ForbidsAfterCheck
  <1>13. Clearing'
    <2>1. (\A b \in Batches : ask[b] # None => Dying(ask[b].write))'
      BY <1>10 DEF CleanInv, Clearing, Dying
    <2>2. \A b \in Batches : Clears(stack[b], points, ForbidsAfterCheck(b))'
      BY <1>10, <1>11, <1>12, Zenon
    <2> QED
      BY <2>1, <2>2 DEF Clearing
  <1>14. \A d \in Callers : Aims(stack'[d], Parent \in there' \/ loose')
    <2> TAKE d \in Callers
    <2>1. there' = there /\ loose' = loose /\ Aims(stack[d], Parent \in there \/ loose)
      BY <1>1 DEF CleanInv, Pointing
    <2> QED
      BY <1>2, <1>9, <2>1
  <1>15. undo' = undo \/ (undo'.there = there /\ undo'.points = points)
    BY DEF Enter
  <1> QED
    BY <1>1, <1>13, <1>14, <1>15 DEF CleanInv, Pointing, NoDangling

LEMMA CleanInit == Init => CleanInv
  <1> SUFFICES ASSUME Init PROVE CleanInv
    OBVIOUS
  <1>1. /\ there = Records /\ points \subseteq Children /\ undo = NoUndo
        /\ ask = [c \in Callers |-> None]
        /\ stack = [c \in Callers |-> <<>>]
    BY DEF Init
  <1>2. Parent \in there /\ Children \subseteq there /\ undo.points = {}
    BY <1>1 DEF Records, NoUndo
  <1>3. \A c \in Callers : stack[c] = <<>> /\ ask[c] = None
    BY <1>1
  <1>4. \A b \in Batches : b \in Callers
    BY DEF Callers
  <1>5. Clearing
    <2>1. \A b \in Batches : Clears(stack[b], points, ForbidsAfterCheck(b))
      BY <1>3, <1>4, NothingStands
    <2> QED
      BY <1>3, <1>4, <2>1 DEF Clearing
  <1>6. \A c \in Callers : Aims(stack[c], Parent \in there \/ loose)
    BY <1>3, NothingStands
  <1> QED
    BY <1>1, <1>2, <1>5, <1>6 DEF CleanInv, Pointing, NoDangling

LEMMA CleanNext == GateInv /\ LockInv /\ CleanInv /\ [Next]_vars => CleanInv'
  <1> SUFFICES ASSUME GateInv, LockInv, CleanInv, [Next]_vars PROVE CleanInv'
    OBVIOUS
  <1>1. CASE UNCHANGED vars
    <2>1. UNCHANGED <<there, points, ask, stack, undo, loose>>
      BY <1>1 DEF vars, recordVars
    <2>2. \A d \in Callers : Aims(stack'[d], Parent \in there' \/ loose')
      BY <2>1 DEF CleanInv, Pointing
    <2>3. \A b \in Batches : ForbidsAfterCheck(b)' = ForbidsAfterCheck(b)
      BY <2>1 DEF ForbidsAfterCheck
    <2>4. stack' = stack /\ points' = points /\ \A b \in Batches : Clears(stack[b], points, ForbidsAfterCheck(b))
      BY <2>1 DEF CleanInv, Clearing
    <2>5. \A b \in Batches : Clears(stack[b], points, ForbidsAfterCheck(b))'
      BY <2>3, <2>4, Zenon
    <2>6. (\A b \in Batches : ask[b] # None => Dying(ask[b].write))'
      BY <2>1 DEF CleanInv, Clearing, Dying
    <2>7. Clearing'
      BY <2>5, <2>6 DEF Clearing
    <2> QED
      BY <2>1, <2>2, <2>7, QuietClean
  <1>2. ASSUME NEW c \in Callers, Asked(c) \/ Park(c) \/ Answer(c) \/ Enter(c) PROVE CleanInv'
    BY <1>2, CallsClean, EnterClean
  <1>3. ASSUME NEW c \in Callers,
               \/ lockRecord(c) \/ waitForRecordLock(c) \/ Busy(c)
               \/ Check(c) \/ checkRestrict(c) \/ runBeforeHook(c) \/ validateRecord(c)
        PROVE  CleanInv'
    BY <1>3, LockClean, CheckClean, RestrictClean, HookClean, ValidateClean
  <1>4. ASSUME NEW c \in Callers,
               \/ WriteRow(c) \/ ReadRows(c) \/ SetNull(c) \/ ReadIds(c) \/ DeleteChild(c)
               \/ ChildrenGone(c) \/ Forbidden(c) \/ Return(c)
        PROVE  CleanInv'
    BY <1>4, WriteRowClean, RowsClean, SetNullClean, ChildClean, ReturnClean
  <1> QED
    BY <1>1, <1>2, <1>3, <1>4 DEF Next, Step

\* A delete that cascades leaves no reference to its record behind, whatever
\* hooks write on the way and wherever an attempt before it stopped.
THEOREM RecordNoDangling == Spec => []NoDangling
  <1>1. CleanInv => NoDangling
    BY DEF CleanInv
  <1> QED
    BY <1>1, CleanInit, CleanNext, RecordLockInv, RecordGateInv, PTL DEF Spec

=============================================================================
