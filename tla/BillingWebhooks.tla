-------------------------- MODULE BillingWebhooks --------------------------
(***************************************************************************)
(* The payment provider's webhooks in packages/modules/billing: the route  *)
(* that records a delivery once and hands it to the queue, and the job     *)
(* that applies it to the customer.  The provider delivers an event again  *)
(* until it is acknowledged, and in any order; the API dies between the    *)
(* insert and the enqueue; workers run several jobs at once and die.       *)
(*                                                                         *)
(* The events are those of one customer: every handler writes its row.     *)
(***************************************************************************)
EXTENDS JobQueue, FiniteSets

CONSTANTS
    NumEvents,         \* provider event ids are 1..NumEvents; event e occurs at time e
    Kinds,             \* the kinds of events that occur
    Deliveries,        \* POSTs to the webhook route that may be in flight
    Runs,              \* jobs that may be processed at once
    MaxStallings       \* bound: times a worker dies or loses a job's lock

Events == 1..NumEvents
NoEvent == 0

\* checkout: sets active; active and canceled: subscription.created, .updated
\* and .cancelled; past_due: payment.failed; paid: payment.succeeded.
AllKinds == {"checkout", "active", "canceled", "past_due", "paid"}

ASSUME SizesAssumption == NumEvents \in Nat \ {0} /\ MaxStallings \in Nat
ASSUME KindsAssumption == Kinds \subseteq AllKinds

VARIABLES
    kind,         \* what the events are
    clock,        \* wall clock
    stamp,        \* occurredAt of the normalized event in the job's data
    stallings,    \* how often a worker died or lost a lock
    event,        \* webhook_events: status by provider_event_id
    job,          \* the job whose id is the provider's event id
    delivery,     \* locals of the route's handlers
    run,          \* locals of the job's runs
    customer,     \* billing_customers: status and last_event_at
    acked,        \* events the provider has been told are received
    applied       \* history: events whose handler has run

vars == <<kind, clock, stamp, stallings, event, job, delivery, run, customer, acked, applied>>
world == <<kind>>     \* fixed from the start

IdleDelivery == [pc |-> "idle", event |-> NoEvent, occurredAt |-> 0]
IdleRun == [pc |-> "idle", event |-> NoEvent, locked |-> FALSE]

\* Neither mapper has the event's own time: Stripe's adapter passes none on, and
\* Pagar.me's mapper does not take the one it is given.
OccurredAt(e) == clock

Init ==
    /\ kind \in [Events -> Kinds]
    /\ clock = 1
    /\ stamp = [e \in Events |-> 0]
    /\ stallings = 0
    /\ event = [e \in Events |-> "none"]
    /\ job = [e \in Events |-> NoJob]
    /\ delivery = [d \in Deliveries |-> IdleDelivery]
    /\ run = [r \in Runs |-> IdleRun]
    /\ customer = [status |-> "inactive", last |-> 0]
    /\ acked = {}
    /\ applied = {}

Advance ==
    /\ clock < NumEvents
    /\ clock' = clock + 1
    /\ UNCHANGED <<world, stamp, stallings, event, job, delivery, run, customer, acked, applied>>

-----------------------------------------------------------------------------
(***************************************************************************)
(* POST /api/billing/webhooks.  Without a queue it answers 503 before it   *)
(* changes anything, so a delivery that gets further has one.              *)
(***************************************************************************)
\* Mutant: an event that is already recorded is acknowledged, pending or not.
Receive_AcksPending(d, e) ==
    /\ delivery[d].pc = "idle"
    /\ e <= clock
    /\ event' = [event EXCEPT ![e] = IF @ = "none" THEN "pending" ELSE @]
    /\ delivery' = [delivery EXCEPT ![d] =
         [pc |-> IF event[e] = "none" THEN "enqueue" ELSE "ack", event |-> e,
          occurredAt |-> OccurredAt(e)]]
    /\ UNCHANGED <<world, clock, stamp, stallings, job, run, customer, acked, applied>>

\* INSERT ... ON CONFLICT DO NOTHING; a conflict reads the status, and only a
\* pending event is enqueued again.
Receive(d, e) ==
    /\ delivery[d].pc = "idle"
    /\ e <= clock
    /\ event' = [event EXCEPT ![e] = IF @ = "none" THEN "pending" ELSE @]
    /\ delivery' = [delivery EXCEPT ![d] =
         [pc |-> IF event'[e] = "pending" THEN "enqueue" ELSE "ack", event |-> e,
          occurredAt |-> OccurredAt(e)]]
    /\ UNCHANGED <<world, clock, stamp, stallings, job, run, customer, acked, applied>>

\* queue.add with the event's id: a job that exists, whatever became of it,
\* is left alone.
Enqueue(d) ==
    /\ delivery[d].pc = "enqueue"
    /\ LET e == delivery[d].event
       IN IF job[e] = NoJob
          THEN /\ job' = [job EXCEPT ![e] = AddedJob]
               /\ stamp' = [stamp EXCEPT ![e] = delivery[d].occurredAt]
          ELSE UNCHANGED <<job, stamp>>
    /\ delivery' = [delivery EXCEPT ![d].pc = "ack"]
    /\ UNCHANGED <<world, clock, stallings, event, run, customer, acked, applied>>

\* The provider gets its 200.
Ack(d) ==
    /\ delivery[d].pc = "ack"
    /\ acked' = acked \cup {delivery[d].event}
    /\ delivery' = [delivery EXCEPT ![d] = IdleDelivery]
    /\ UNCHANGED <<world, clock, stamp, stallings, event, job, run, customer, applied>>

\* The API dies, or Redis does not answer: the provider gets an error or none.
DeliveryFails(d) ==
    /\ delivery[d].pc # "idle"
    /\ delivery' = [delivery EXCEPT ![d] = IdleDelivery]
    /\ UNCHANGED <<world, clock, stamp, stallings, event, job, run, customer, acked, applied>>

-----------------------------------------------------------------------------
(***************************************************************************)
(* The job: load the event, apply it to the customer, mark it.             *)
(***************************************************************************)
EndRun(r, Outcome(_)) ==
    /\ run' = [run EXCEPT ![r] = IdleRun]
    /\ job' = IF run[r].locked THEN [job EXCEPT ![run[r].event] = Outcome(@)] ELSE job

StartRun(r, e) ==
    /\ run[r].pc = "idle"
    /\ job[e].state = "waiting"
    /\ job' = [job EXCEPT ![e] = Taken(@)]
    /\ run' = [run EXCEPT ![r] = [pc |-> "load", event |-> e, locked |-> TRUE]]
    /\ UNCHANGED <<world, clock, stamp, stallings, event, delivery, customer, acked, applied>>

LoadProcessed(r) ==
    /\ run[r].pc = "load"
    /\ event[run[r].event] = "processed"
    /\ EndRun(r, Returned)
    /\ UNCHANGED <<world, clock, stamp, stallings, event, delivery, customer, acked, applied>>

\* Mutant: the event is marked as processed before it is applied.
Load_MarksFirst(r) ==
    /\ run[r].pc = "load"
    /\ event[run[r].event] # "processed"
    /\ event' = [event EXCEPT ![run[r].event] = "processed"]
    /\ run' = [run EXCEPT ![r].pc = "apply"]
    /\ UNCHANGED <<world, clock, stamp, stallings, job, delivery, customer, acked, applied>>

Load(r) ==
    /\ run[r].pc = "load"
    /\ event[run[r].event] # "processed"
    /\ run' = [run EXCEPT ![r].pc = "apply"]
    /\ UNCHANGED <<world, clock, stamp, stallings, event, job, delivery, customer, acked, applied>>

\* Mutant: the UPDATE has no last_event_at predicate.
Applied_Unguarded(e) ==
    CASE kind[e] = "checkout" -> [status |-> "active", last |-> clock]
      [] kind[e] = "paid" -> customer
      [] OTHER -> [status |-> kind[e], last |-> stamp[e]]

\* Mutant: the handler keeps the time of processing instead of the event's.
Applied_KeepsClock(e) ==
    CASE kind[e] = "checkout" -> [status |-> "active", last |-> clock]
      [] kind[e] \in {"active", "canceled", "past_due"} /\ customer.last < stamp[e] ->
            [status |-> kind[e], last |-> clock]
      [] OTHER -> customer

\* Mutant: every kind goes through the handler that writes the event's status.
Applied_WritesKind(e) ==
    IF customer.last < stamp[e] THEN [status |-> kind[e], last |-> stamp[e]] ELSE customer

\* The customer's row after the handler of an event: payment.succeeded only
\* logs, checkout writes whatever there is, the others write over older state.
Applied(e) ==
    CASE kind[e] = "checkout" -> [status |-> "active", last |-> clock]
      [] kind[e] = "paid" -> customer
      [] kind[e] \in {"active", "canceled", "past_due"} /\ customer.last < stamp[e] ->
            [status |-> kind[e], last |-> stamp[e]]
      [] OTHER -> customer

Apply(r) ==
    /\ run[r].pc = "apply"
    /\ customer' = Applied(run[r].event)
    /\ applied' = applied \cup {run[r].event}
    /\ run' = [run EXCEPT ![r].pc = "mark"]
    /\ UNCHANGED <<world, clock, stamp, stallings, event, job, delivery, acked>>

Mark(r) ==
    /\ run[r].pc = "mark"
    /\ event' = [event EXCEPT ![run[r].event] = "processed"]
    /\ EndRun(r, Returned)
    /\ UNCHANGED <<world, clock, stamp, stallings, delivery, customer, acked, applied>>

\* The load throws before the try; the handler or the mark within it, and the
\* catch marks the event as failed, if it can.  The queue was made without
\* options.
Throw(r) ==
    /\ run[r].pc \in {"load", "apply", "mark"}
    /\ \/ UNCHANGED event
       \/ run[r].pc # "load" /\ event' = [event EXCEPT ![run[r].event] = "failed"]
    /\ EndRun(r, LAMBDA j : Thrown(j, DefaultAttempts))
    /\ UNCHANGED <<world, clock, stamp, stallings, delivery, customer, acked, applied>>

\* The lock of an active job runs out, its run dead or alive.
Stall(e) ==
    /\ job[e].state = "active"
    /\ stallings < MaxStallings
    /\ stallings' = stallings + 1
    /\ job' = [job EXCEPT ![e] = Stalled(@)]
    /\ run' \in {[r \in Runs |-> IF run[r].event = e THEN [run[r] EXCEPT !.locked = FALSE] ELSE run[r]],
                 [r \in Runs |-> IF run[r].event = e THEN IdleRun ELSE run[r]]}
    /\ UNCHANGED <<world, clock, stamp, event, delivery, customer, acked, applied>>

-----------------------------------------------------------------------------
RunStep(r) == LoadProcessed(r) \/ Load(r) \/ Apply(r) \/ Mark(r)

Next ==
    \/ Advance
    \/ \E d \in Deliveries, e \in Events : Receive(d, e)
    \/ \E d \in Deliveries : Enqueue(d) \/ Ack(d) \/ DeliveryFails(d)
    \/ \E r \in Runs, e \in Events : StartRun(r, e)
    \/ \E r \in Runs : RunStep(r) \/ Throw(r)
    \/ \E e \in Events : Stall(e)

Spec == Init /\ [][Next]_vars

(***************************************************************************)
(* The provider delivers an event until a delivery of it is acknowledged,  *)
(* and not every one of them fails; workers run.                           *)
(***************************************************************************)
Fairness ==
    /\ WF_vars(Advance)
    /\ \A e \in Events :
          /\ SF_vars(e \notin acked /\ \E d \in Deliveries : Receive(d, e))
          /\ SF_vars(\E d \in Deliveries : delivery[d].event = e /\ Enqueue(d))
          /\ WF_vars(\E r \in Runs : StartRun(r, e))
    /\ \A d \in Deliveries : WF_vars(Enqueue(d) \/ Ack(d) \/ DeliveryFails(d))
    /\ \A r \in Runs : WF_vars(RunStep(r) \/ Throw(r))

FairSpec == Spec /\ Fairness

-----------------------------------------------------------------------------
TypeOK ==
    /\ kind \in [Events -> Kinds]
    /\ clock \in Events /\ stallings \in 0..MaxStallings
    /\ stamp \in [Events -> 0..NumEvents]
    /\ event \in [Events -> {"none", "pending", "processed", "failed"}]
    /\ job \in [Events -> Job]
    /\ delivery \in [Deliveries -> [pc : {"idle", "enqueue", "ack"}, event : Events \cup {NoEvent},
                                    occurredAt : 0..NumEvents]]
    /\ run \in [Runs -> [pc : {"idle", "load", "apply", "mark"}, event : Events \cup {NoEvent},
                         locked : BOOLEAN]]
    /\ customer \in [status : {"inactive", "active", "canceled", "past_due"}, last : 0..NumEvents]
    /\ acked \subseteq Events /\ applied \subseteq Events

\* The customer has the state of the event that arrived last of those applied so far,
\* in whatever order, how often and by how many workers at once they were applied
\* (process-webhook.ts: "Only updates billing_customers if the event timestamp is
\* newer than the stored lastEventAt").  Not so after a checkout, whose handler has
\* no such guard.
FollowsLatest ==
    LET telling == {e \in applied : kind[e] # "paid"}
        latest == {e \in telling : \A o \in telling : stamp[o] <= stamp[e]}
    IN (\A e \in applied : kind[e] # "checkout")
         => IF telling = {} THEN customer.status = "inactive"
                            ELSE \E e \in latest : customer.status = kind[e]

\* The customer has the state of the event that occurred last, whatever order they
\* arrive in (pagarme-adapter.ts: "so the normalizer can order events by provider
\* time rather than ingestion time").
FollowsOccurrence ==
    LET telling == {e \in applied : kind[e] # "paid"}
        latest == CHOOSE e \in telling : \A o \in telling : o <= e
    IN (\A e \in applied : kind[e] # "checkout")
         => telling = {} \/ customer.status = kind[latest]

\* last_event_at never goes back: what was newer once is not taken for old
\* later.
NeverBackwards == [][customer'.last >= customer.last]_customer

\* An event the provider will not send again is in the queue, also when the
\* API died between the insert and the enqueue of an earlier delivery
\* (routes.ts: "it may have crashed between insert and enqueue").
AckedHasJob == \A e \in acked : job[e] # NoJob

\* What was acknowledged has its job, and the subscription's row says what the latest
\* of the applied events says (process-webhook.ts).
EventsApplied == TypeOK /\ FollowsLatest /\ AckedHasJob

\* Every event is applied some day, or has a failed job that says otherwise:
\* no delivery that fails and no worker that dies makes it disappear.
NoEventLost == <>(\A e \in Events : e \in applied \/ job[e].state = "failed")

=============================================================================
