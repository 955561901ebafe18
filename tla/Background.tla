------------------------------ MODULE Background ------------------------------
(***************************************************************************)
(* What the servers do by timers: webhook deliveries, cron jobs, the sweep *)
(* of orphaned files and the settings' reload.  They share the clock and   *)
(* the processes, which may die with work under way; what is in the        *)
(* database stays.  None reads what another writes, so a behaviour has     *)
(* work of one kind.                                                       *)
(***************************************************************************)
EXTENDS Deliveries, CronJobs, FileSweep, SettingsStore

vars == <<now, delivery, cron, stored, settings>>

Init == now = 0 /\ InitDeliveries /\ InitJobs /\ InitFiles /\ InitSettings

\* The kinds of work there has been.
Kinds == {k \in {"delivery", "job", "file", "setting"} :
            \/ k = "delivery" /\ (webhook # "enabled" \/ \E d \in Deliveries : row[d].status # "none")
            \/ k = "job" /\ Created # {}
            \/ k = "file" /\ (Uploaded # {} \/ changes > 0)
            \/ k = "setting" /\ (sets > 0 \/ calls # {})}

Only(kind) == Kinds \subseteq {kind}

\* Settings have no dates.
Passes == Kinds # {"setting"} /\ Pass /\ UNCHANGED <<delivery, cron, stored, settings>>

Deliver == /\ Only("delivery")
           /\ (\E d \in Deliveries : Dispatch(d)) \/ DeliveryStep
           /\ UNCHANGED <<now, cron, stored, settings>>

Schedule == /\ Only("job")
            /\ (\E j \in Jobs : CreateJob(j)) \/ JobStep
            /\ UNCHANGED <<now, delivery, stored, settings>>

Store == /\ Only("file")
         /\ (\E f \in Files : Upload(f)) \/ FileStep
         /\ UNCHANGED <<now, delivery, cron, settings>>

Configure == /\ Only("setting")
             /\ SettingsStep
             /\ UNCHANGED <<now, delivery, cron, stored>>

Crash(p) == /\ StopDeliveries(p) /\ StopJobs(p) /\ StopSweep(p)
            /\ UNCHANGED <<now, settings>>

Next == \/ Passes \/ Deliver \/ Schedule \/ Store \/ Configure
        \/ \E p \in Procs : Crash(p)

Spec == Init /\ [][Next]_vars

=============================================================================
