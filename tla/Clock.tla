-------------------------------- MODULE Clock --------------------------------
(***************************************************************************)
(* The time the servers share, which Deliveries and CronJobs schedule by,  *)
(* and FileSweep dates uploads by: unix seconds there, ticks here.  The    *)
(* servers' clocks are taken to agree.                                     *)
(***************************************************************************)
EXTENDS Naturals

CONSTANTS Procs,       \* the server processes
          MaxTime      \* bound: the model's clock stops here

ASSUME ClockAssumption == MaxTime \in Nat

VARIABLE now

Pass == now < MaxTime /\ now' = now + 1

=============================================================================
