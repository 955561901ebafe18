------------------------------ MODULE Deliveries ------------------------------
(***************************************************************************)
(* Webhook deliveries (src/src/core/webhooks.ts): the rows of              *)
(* vaultbase_webhook_deliveries, and the servers whose ticks claim the due *)
(* ones, send them and record the answer.                                  *)
(*                                                                         *)
(* A tick reads the due rows, then claims them one statement at a time;    *)
(* ticks of one server may overlap, since the timer does not wait.  A      *)
(* claim moves scheduled_at on by a lease longer than any request is meant *)
(* to take, and a server may die at any point: the row is due again when   *)
(* the lease has run out.  Left out: maintenance mode (a tick that does    *)
(* nothing), the webhook's event patterns, CLAIM_LIMIT (a second bound on  *)
(* the same SELECT) and the purge of rows that have ended.                 *)
(***************************************************************************)
EXTENDS Clock, Integers, FiniteSets

CONSTANTS Deliveries,    \* the rows
          RetryMax,      \* the webhook's retry_max
          Delays,        \* what its back-off may come to, in ticks
          Lease,         \* CLAIM_LEASE_SECONDS, in ticks
          MaxInFlight    \* MAX_IN_FLIGHT

ASSUME DeliveriesAssumption == /\ Delays \subseteq Int
                               /\ Lease \in Nat \ {0}
                               /\ MaxInFlight \in Nat

VARIABLES row,       \* the rows
          webhook,   \* "enabled", "disabled" or "deleted"
          picked,    \* rows a tick has read as due and not yet tried to claim
          sends,     \* deliveries between their claim and their result
          atOnce     \* deliveries that were due again as soon as they were answered

delivery == <<row, webhook, picked, sends, atOnce>>

Statuses == {"none", "pending", "succeeded", "dead"}

InitDeliveries == /\ row = [d \in Deliveries |-> [status |-> "none", attempt |-> 1, scheduled_at |-> 0]]
                  /\ webhook = "enabled"
                  /\ picked = {}
                  /\ sends = {}
                  /\ atOnce = {}

\* dispatchEvent, and /redeliver; the list of webhooks it goes by is cached,
\* so a webhook just switched off still gets a row.
Dispatch(d) ==
    /\ row[d].status = "none"
    /\ row' = [row EXCEPT ![d] = [status |-> "pending", attempt |-> 1, scheduled_at |-> now]]
    /\ UNCHANGED <<webhook, picked, sends, atOnce>>

Due == {d \in Deliveries : row[d].status = "pending" /\ row[d].scheduled_at <= now}

inFlight(p) == Cardinality({s \in sends : s.proc = p})

\* The due rows, as many as there is room for.
Tick(p) ==
    \E S \in SUBSET Due :
       /\ S # {}
       /\ Cardinality(S) <= MaxInFlight - inFlight(p)
       /\ S = Due \/ Cardinality(S) = MaxInFlight - inFlight(p)
       /\ picked' = picked \cup {[proc |-> p, id |-> d, attempt |-> row[d].attempt,
                                  seen |-> row[d].scheduled_at, lease |-> now + Lease] : d \in S}
       /\ UNCHANGED <<row, webhook, sends, atOnce>>

Claims(c) == /\ row' = [row EXCEPT ![c.id].scheduled_at = c.lease]
             /\ sends' = sends \cup {[proc |-> c.proc, id |-> c.id, attempt |-> c.attempt,
                                      lease |-> c.lease, stage |-> "look"]}

\* Mutant: any pending row is claimed, whoever claimed it since it was read.
ClaimPending(c) == /\ picked' = picked \ {c}
                   /\ IF row[c.id].status = "pending" THEN Claims(c) ELSE UNCHANGED <<row, sends>>
                   /\ UNCHANGED <<webhook, atOnce>>

\* The conditional UPDATE: pending still, and due when it was due.
Claim(c) ==
    /\ picked' = picked \ {c}
    /\ IF row[c.id].status = "pending" /\ row[c.id].scheduled_at = c.seen
       THEN Claims(c) ELSE UNCHANGED <<row, sends>>
    /\ UNCHANGED <<webhook, atOnce>>

\* deliverOne's condition on every result: this claim holds the row.
Held(s) == /\ row[s.id].status = "pending"
           /\ row[s.id].attempt = s.attempt
           /\ row[s.id].scheduled_at = s.lease

Records(s, result) ==
    /\ row' = IF Held(s) THEN [row EXCEPT ![s.id] = result] ELSE row
    /\ sends' = sends \ {s}
    /\ atOnce' = IF Held(s) /\ result.status = "pending" /\ result.scheduled_at <= now
                 THEN atOnce \cup {s.id} ELSE atOnce
    /\ UNCHANGED <<webhook, picked>>

Ended(s, status) == [row[s.id] EXCEPT !.status = status]

\* The webhook is read; the request goes out if it is there and enabled.
Look(s) ==
    /\ s.stage = "look"
    /\ IF webhook = "enabled"
       THEN /\ sends' = (sends \ {s}) \cup {[s EXCEPT !.stage = "sent"]}
            /\ UNCHANGED <<row, webhook, picked, atOnce>>
       ELSE Records(s, Ended(s, "dead"))

\* The receiver's answer, or none in time; a blocked address is not retried.
Answered(s) ==
    /\ s.stage = "sent"
    /\ \/ Records(s, Ended(s, "succeeded"))
       \/ Records(s, Ended(s, "dead"))           \* EgressBlockedError
       \/ /\ s.attempt >= RetryMax
          /\ Records(s, Ended(s, "dead"))
       \/ /\ s.attempt < RetryMax
          /\ \E delay \in Delays :
               Records(s, [status |-> "pending", attempt |-> s.attempt + 1, scheduled_at |-> now + delay])

\* PATCH and DELETE /admin/webhooks/:id.
EditWebhook == /\ webhook # "deleted"
               /\ webhook' \in {"enabled", "disabled", "deleted"} \ {webhook}
               /\ UNCHANGED <<row, picked, sends, atOnce>>

StopDeliveries(p) == /\ picked' = {c \in picked : c.proc # p}
                     /\ sends' = {s \in sends : s.proc # p}
                     /\ UNCHANGED <<row, webhook, atOnce>>

DeliveryStep == \/ \E p \in Procs : Tick(p)
                \/ \E c \in picked : Claim(c)
                \/ \E s \in sends : Look(s) \/ Answered(s)
                \/ EditWebhook

-----------------------------------------------------------------------------
(* Properties *)

\* While its lease runs, a claim is the row's: no other send of the delivery
\* is under way with a lease that runs, whatever other ticks and servers read
\* before, and whatever answer comes late of an earlier claim; the answer that
\* comes in time is recorded.  Not of a delivery that was retried with no delay
\* (retry_delay_ms may be 0 or less): a tick may have read that time before.
\* (tick and deliverOne, core/webhooks.ts)
HeldWhileLeased ==
    \A s \in sends : now < s.lease => Held(s) \/ s.id \in atOnce

=============================================================================
