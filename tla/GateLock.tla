------------------------------ MODULE GateLock ------------------------------
(***************************************************************************)
(* What the write gate promises its callers, without the counters and the  *)
(* wake-ups it is made of: any number of record writes at a time, or one   *)
(* batch and nothing else.                                                 *)
(***************************************************************************)

CONSTANTS Writers,  \* callers of withSharedWrite
          Batches   \* callers of withExclusiveWrite

VARIABLES writing,  \* the record writes inside the gate
          batching  \* the batches inside the gate

lockVars == <<writing, batching>>

LockInit == /\ writing = {}
            /\ batching = {}

EnterWrite(w) == /\ w \notin writing
                 /\ batching = {}
                 /\ writing' = writing \cup {w}
                 /\ UNCHANGED batching

LeaveWrite(w) == /\ w \in writing
                 /\ writing' = writing \ {w}
                 /\ UNCHANGED batching

EnterBatch(b) == /\ writing = {}
                 /\ batching = {}
                 /\ batching' = {b}
                 /\ UNCHANGED writing

LeaveBatch(b) == /\ b \in batching
                 /\ batching' = batching \ {b}
                 /\ UNCHANGED writing

LockNext == \/ \E w \in Writers : EnterWrite(w) \/ LeaveWrite(w)
            \/ \E b \in Batches : EnterBatch(b) \/ LeaveBatch(b)

LockSpec == LockInit /\ [][LockNext]_lockVars

=============================================================================
