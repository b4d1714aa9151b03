-------------------------- MODULE WebhookEndpoints --------------------------
(***************************************************************************)
(* A tenant's outgoing webhook in packages/modules/notifications: the      *)
(* endpoint, whose status is written by its tenant, by a platform admin    *)
(* and by the delivery job, and the deliveries to it, rows that notify()   *)
(* or a redelivery inserts and then hands to the queue in a second step.   *)
(*                                                                         *)
(* Each statement and each transaction is one action, except that the      *)
(* tenant's commands read the endpoint and write it in two statements of a *)
(* READ COMMITTED transaction, between which others may commit.            *)
(***************************************************************************)
EXTENDS JobQueue, FiniteSets

CONSTANTS
    Deliveries,      \* ids of delivery rows
    Runs,            \* jobs that may be processed at once
    Commands,        \* what the tenant does with its endpoint; edits of its data and
                     \* a new secret go the same way and change nothing that is modelled
    MaxAttempts,     \* WEBHOOK_MAX_ATTEMPTS, and the attempts of createQueue
    Threshold        \* WEBHOOK_AUTO_DISABLE_THRESHOLD

ASSUME AttemptsAssumption == MaxAttempts \in 1..CreateQueueAttempts
ASSUME CommandsAssumption == Commands \subseteq {"enable", "disable", "delete"}
ASSUME ThresholdAssumption == Threshold \in Nat \ {0}

VARIABLES
    endpoint,    \* the notification_webhook row: status and consecutive_failures
    row,         \* notification_webhook_delivery: status and attempts
    sender,      \* who inserted the row, until it comes back from queue.add or dies
    job,         \* the delivery's job
    run,         \* locals of the job's runs
    request,     \* the tenant's command on the endpoint that is under way
    exhausted,   \* history: deliveries that were counted as failures since the last reset
    raced        \* history: one of the races below has happened

vars == <<endpoint, row, sender, job, run, request, exhausted, raced>>

\* The races that the properties except: a job is given to a second run while
\* its first one is alive; the endpoint is force-disabled after a tenant's command
\* or a delivery has read it as active.
NotesRace(happens) == raced' = (raced \/ happens)

NoDelivery == "none"
ASSUME NoDeliveryAssumption == NoDelivery \notin Deliveries

NoRow == [status |-> "absent", attempts |-> 0]
GoneRow == [status |-> "gone", attempts |-> 0]
InTable(d) == row[d].status \notin {"absent", "gone"}

IdleRun == [pc |-> "idle", delivery |-> NoDelivery, locked |-> FALSE, attempt |-> 0]
Idle == "idle"

Exists == endpoint.status \notin {"absent", "deleted"}
WorkedOn(d) == \E r \in Runs : run[r].delivery = d

\* UPDATE or DELETE of a delivery by id: nothing happens to a row that is gone.
SetRow(d, new) == row' = IF InTable(d) THEN [row EXCEPT ![d] = new] ELSE row

Init ==
    /\ endpoint = [status |-> "absent", failures |-> 0]
    /\ row = [d \in Deliveries |-> NoRow]
    /\ sender = [d \in Deliveries |-> "none"]
    /\ job = [d \in Deliveries |-> NoJob]
    /\ run = [r \in Runs |-> IdleRun]
    /\ request = Idle
    /\ exhausted = {}
    /\ raced = FALSE

-----------------------------------------------------------------------------
(***************************************************************************)
(* The tenant's and the admin's commands.                                  *)
(***************************************************************************)
CreateWebhook ==
    /\ endpoint.status = "absent"
    /\ endpoint' = [status |-> "active", failures |-> 0]
    /\ UNCHANGED <<row, sender, job, run, request, exhausted, raced>>

\* Mutant: the lock is not looked at.
RequestRead_IgnoresLock(command) ==
    /\ request = Idle /\ Exists
    /\ request' = command
    /\ UNCHANGED <<endpoint, row, sender, job, run, exhausted, raced>>

\* The SELECT: the command goes on unless an admin has locked the endpoint.
RequestRead(command) ==
    /\ request = Idle /\ Exists
    /\ endpoint.status # "admin_disabled"
    /\ request' = command
    /\ UNCHANGED <<endpoint, row, sender, job, run, exhausted, raced>>

\* The UPDATE, or the DELETEs of the endpoint and its deliveries, by id alone.
RequestWrite ==
    /\ request # Idle
    /\ request' = Idle
    /\ endpoint' = CASE request = "enable"  -> [status |-> "active", failures |-> 0]
                     [] request = "disable" -> [endpoint EXCEPT !.status = "disabled"]
                     [] request = "delete"  -> [status |-> "deleted", failures |-> 0]
    /\ row' = IF request = "delete"
              THEN [d \in Deliveries |-> IF InTable(d) THEN GoneRow ELSE row[d]] ELSE row
    /\ exhausted' = IF request = "disable" THEN exhausted ELSE {}
    /\ UNCHANGED <<sender, job, run, raced>>

RequestFails ==
    /\ request # Idle
    /\ request' = Idle
    /\ UNCHANGED <<endpoint, row, sender, job, run, exhausted, raced>>

ForceDisable ==
    /\ Exists
    /\ endpoint' = [endpoint EXCEPT !.status = "admin_disabled"]
    /\ NotesRace(request # Idle \/ \E r \in Runs : run[r].pc \in {"post", "bump"})
    /\ UNCHANGED <<row, sender, job, run, request, exhausted>>

Reenable ==
    /\ Exists
    /\ endpoint' = [status |-> "active", failures |-> 0]
    /\ exhausted' = {}
    /\ UNCHANGED <<row, sender, job, run, request, raced>>

-----------------------------------------------------------------------------
(***************************************************************************)
(* A delivery: its row is committed first, its job added afterwards.       *)
(***************************************************************************)
\* notify(): a pending row for an active endpoint.
Dispatch(d) ==
    /\ row[d] = NoRow
    /\ endpoint.status = "active"
    /\ row' = [row EXCEPT ![d].status = "pending"]
    /\ sender' = [sender EXCEPT ![d] = "notify"]
    /\ UNCHANGED <<endpoint, job, run, request, exhausted, raced>>

\* Mutant: the delivery's own row is used again.
Redeliver_SameRow(d) ==
    /\ InTable(d) /\ job[d].state = "failed" /\ sender[d] = "none"
    /\ sender' = [sender EXCEPT ![d] = "redeliver"]
    /\ UNCHANGED <<endpoint, row, job, run, request, exhausted, raced>>

\* redeliver-webhook: a pending row with the payload of an earlier one.
Redeliver(d) ==
    /\ row[d] = NoRow
    /\ \E src \in Deliveries : InTable(src)
    /\ row' = [row EXCEPT ![d].status = "pending"]
    /\ sender' = [sender EXCEPT ![d] = "redeliver"]
    /\ UNCHANGED <<endpoint, job, run, request, exhausted, raced>>

Enqueue(d) ==
    /\ sender[d] \in {"notify", "redeliver"}
    /\ job' = [job EXCEPT ![d] = AddedJob]
    /\ sender' = [sender EXCEPT ![d] = "none"]
    /\ UNCHANGED <<endpoint, row, run, request, exhausted, raced>>

\* Mutant: the redelivery reports the error and leaves its row.
EnqueueFails_KeepsRow(d) ==
    /\ sender[d] \in {"notify", "redeliver"}
    /\ sender' = [sender EXCEPT ![d] = IF @ = "notify" THEN "died" ELSE "none"]
    /\ job' \in {job, [job EXCEPT ![d] = AddedJob]}
    /\ UNCHANGED <<endpoint, row, run, request, exhausted, raced>>

\* queue.add throws, with or without having added the job.  notify() throws on;
\* a redelivery removes its row again.
EnqueueFails(d) ==
    /\ sender[d] \in {"notify", "redeliver"}
    /\ sender' = [sender EXCEPT ![d] = IF @ = "redeliver" THEN "undo" ELSE "died"]
    /\ job' \in {job, [job EXCEPT ![d] = AddedJob]}
    /\ UNCHANGED <<endpoint, row, run, request, exhausted, raced>>

UndoRedelivery(d) ==
    /\ sender[d] = "undo"
    /\ sender' = [sender EXCEPT ![d] = "none"]
    /\ SetRow(d, GoneRow)
    /\ UNCHANGED <<endpoint, job, run, request, exhausted, raced>>

\* The API dies before queue.add, or the compensating DELETE fails.
SenderDies(d) ==
    /\ sender[d] \in {"notify", "redeliver", "undo"}
    /\ sender' = [sender EXCEPT ![d] = "died"]
    /\ UNCHANGED <<endpoint, row, job, run, request, exhausted, raced>>

\* prune-webhook-deliveries: a row older than the retention, which is counted
\* in days; its job has ended by then.
Prune(d) ==
    /\ InTable(d) /\ sender[d] \in {"none", "died"} /\ ~WorkedOn(d)
    /\ job[d].state \in {"none", "completed", "failed"}
    /\ row' = [row EXCEPT ![d] = GoneRow]
    /\ UNCHANGED <<endpoint, sender, job, run, request, exhausted, raced>>

-----------------------------------------------------------------------------
(***************************************************************************)
(* deliverWebhook.                                                         *)
(***************************************************************************)
\* What a job has been through does not matter once it has ended.
Settled(j) == IF j.state \in {"completed", "failed"} THEN [NoJob EXCEPT !.state = j.state] ELSE j

EndRun(r, Outcome(_)) ==
    /\ run' = [run EXCEPT ![r] = IdleRun]
    /\ job' = IF run[r].locked THEN [job EXCEPT ![run[r].delivery] = Settled(Outcome(@))] ELSE job

StartRun(r, d) ==
    /\ run[r].pc = "idle"
    /\ job[d].state = "waiting"
    /\ job' = [job EXCEPT ![d] = Taken(@)]
    /\ run' = [run EXCEPT ![r] = [IdleRun EXCEPT !.pc = "load", !.delivery = d, !.locked = TRUE]]
    /\ UNCHANGED <<endpoint, row, sender, request, exhausted, raced>>

\* The delivery and its endpoint are loaded.  The attempts made so far come from
\* the delivery's row; a row that is gone is not delivered.
Load(r) ==
    /\ run[r].pc = "load"
    /\ LET d == run[r].delivery
       IN IF InTable(d)
          THEN /\ run' = IF endpoint.status = "active"
                         THEN [run EXCEPT ![r].pc = "post", ![r].attempt = row[d].attempts + 1]
                         ELSE [run EXCEPT ![r].pc = "skip"]
               /\ UNCHANGED job
          ELSE EndRun(r, Returned)
    /\ UNCHANGED <<endpoint, row, sender, request, exhausted, raced>>

Skip(r) ==
    /\ run[r].pc = "skip"
    /\ SetRow(run[r].delivery, [row[run[r].delivery] EXCEPT !.status = "skipped"])
    /\ EndRun(r, Returned)
    /\ UNCHANGED <<endpoint, sender, request, exhausted, raced>>

\* Mutant: every attempt from the last one on is counted.
RecordFailure_FromLast(r) ==
    /\ run[r].pc = "post"
    /\ SetRow(run[r].delivery, [status |-> "failed", attempts |-> run[r].attempt])
    /\ LET last == run[r].attempt >= MaxAttempts
       IN run' = [run EXCEPT ![r].pc = IF last THEN "bump" ELSE "throw", ![r].attempt = 0]
    /\ UNCHANGED <<endpoint, sender, job, request, exhausted, raced>>

\* The POST gets no answer or not a 2xx one, and recordFailure updates the
\* delivery, then, only for the last attempt, the endpoint.
RecordFailure(r) ==
    /\ run[r].pc = "post"
    /\ SetRow(run[r].delivery, [status |-> "failed", attempts |-> run[r].attempt])
    /\ LET last == run[r].attempt = MaxAttempts
       IN run' = [run EXCEPT ![r].pc = IF last THEN "bump" ELSE "throw", ![r].attempt = 0]
    /\ UNCHANGED <<endpoint, sender, job, request, exhausted, raced>>

\* Mutant: the endpoint is disabled one failure late.
Bump_OneLate(r) ==
    /\ run[r].pc = "bump"
    /\ endpoint' = IF Exists
                   THEN [status |-> IF endpoint.failures >= Threshold THEN "auto_disabled" ELSE endpoint.status,
                         failures |-> endpoint.failures + 1]
                   ELSE endpoint
    /\ exhausted' = IF Exists THEN exhausted \cup {run[r].delivery} ELSE {}
    /\ run' = [run EXCEPT ![r].pc = "throw"]
    /\ UNCHANGED <<row, sender, job, request, raced>>

\* One UPDATE counts the failure and disables the endpoint at the threshold,
\* whatever its status is by now.
Bump(r) ==
    /\ run[r].pc = "bump"
    /\ LET next == endpoint.failures + 1
       IN endpoint' = IF Exists
                      THEN [status |-> IF next >= Threshold THEN "auto_disabled" ELSE endpoint.status,
                            failures |-> next]
                      ELSE endpoint
    /\ exhausted' = IF Exists THEN exhausted \cup {run[r].delivery} ELSE {}
    /\ run' = [run EXCEPT ![r].pc = "throw"]
    /\ UNCHANGED <<row, sender, job, request, raced>>

\* The handler throws after a recorded failure, or a statement of it does.
Throw(r) ==
    /\ run[r].pc # "idle"
    /\ EndRun(r, LAMBDA j : Thrown(j, MaxAttempts))
    /\ UNCHANGED <<endpoint, row, sender, request, exhausted, raced>>

\* The POST gets a 2xx answer.
RecordSuccess(r) ==
    /\ run[r].pc = "post"
    /\ SetRow(run[r].delivery, [status |-> "success", attempts |-> run[r].attempt])
    /\ run' = [run EXCEPT ![r].pc = "reset", ![r].attempt = 0]
    /\ UNCHANGED <<endpoint, sender, job, request, exhausted, raced>>

\* A success ends the row of consecutive failures.
ResetFailures(r) ==
    /\ run[r].pc = "reset"
    /\ endpoint' = IF Exists THEN [endpoint EXCEPT !.failures = 0] ELSE endpoint
    /\ exhausted' = {}
    /\ EndRun(r, Returned)
    /\ UNCHANGED <<row, sender, request, raced>>

\* The worker dies; its job is active until its lock runs out.
Die(r) ==
    /\ run[r].pc # "idle"
    /\ run' = [run EXCEPT ![r] = IdleRun]
    /\ UNCHANGED <<endpoint, row, sender, job, request, exhausted, raced>>

\* The lock runs out: the run is dead, or too busy to renew it.
Stall(d) ==
    /\ job[d].state = "active"
    /\ job' = [job EXCEPT ![d] = Settled(Stalled(@))]
    /\ run' = [r \in Runs |-> IF run[r].delivery = d THEN [run[r] EXCEPT !.locked = FALSE] ELSE run[r]]
    /\ NotesRace(WorkedOn(d))
    /\ UNCHANGED <<endpoint, row, sender, request, exhausted>>

-----------------------------------------------------------------------------
RunStep(r) ==
    \/ Load(r) \/ Skip(r) \/ RecordFailure(r) \/ Bump(r)
    \/ RecordSuccess(r) \/ ResetFailures(r)

SenderStep(d) == Enqueue(d) \/ EnqueueFails(d) \/ UndoRedelivery(d)

Next ==
    \/ CreateWebhook \/ ForceDisable \/ Reenable
    \/ (\E command \in Commands : RequestRead(command)) \/ RequestWrite \/ RequestFails
    \/ \E d \in Deliveries : Dispatch(d) \/ Redeliver(d) \/ SenderStep(d) \/ SenderDies(d)
                             \/ Prune(d) \/ Stall(d)
    \/ \E r \in Runs, d \in Deliveries : StartRun(r, d)
    \/ \E r \in Runs : RunStep(r) \/ Throw(r) \/ Die(r)

Spec == Init /\ [][Next]_vars

-----------------------------------------------------------------------------
\* A delivery is tried once for every attempt of its job, and for the stalls
\* BullMQ forgives.
TypeOK ==
    /\ endpoint \in [status : {"absent", "active", "disabled", "auto_disabled", "admin_disabled", "deleted"},
                     failures : Nat]
    /\ row \in [Deliveries ->
                 [status : {"absent", "pending", "skipped", "failed", "success", "gone"},
                  attempts : 0..(MaxAttempts + MaxStalls)]]
    /\ sender \in [Deliveries -> {"none", "notify", "redeliver", "undo", "died"}]
    /\ job \in [Deliveries -> Job]
    /\ run \in [Runs -> [pc : {"idle", "load", "skip", "post", "bump", "throw", "reset"},
                         delivery : Deliveries \cup {NoDelivery}, locked : BOOLEAN,
                         attempt : 0..(MaxAttempts + MaxStalls)]]
    /\ request \in Commands \cup {Idle}
    /\ exhausted \subseteq Deliveries /\ raced \in BOOLEAN

\* An endpoint that an admin has locked stays locked until an admin lifts it,
\* whatever its tenant and its deliveries do -- unless one of them had read it
\* before the lock.  (update-webhook.ts: "only a platform admin can lift the
\* lock".)
LockHolds ==
    [][endpoint.status = "admin_disabled" /\ ~raced
          => endpoint'.status = "admin_disabled" \/ Reenable]_vars

\* Deliveries that fail for good, one after the other or at once, disable the
\* endpoint: no update is lost to another worker (deliver-webhook.ts, "a
\* read-modify-write would lose updates").
AutoDisableFires == Cardinality(exhausted) >= Threshold => endpoint.status # "active"

\* A delivery counts once as a failure of its endpoint, also when its job
\* stalls and is run again (deliver-webhook.ts: "=== not >=").
CountedOnce ==
    [][\A r \in Runs : Bump(r) /\ ~raced => run[r].delivery \notin exhausted]_vars

\* A delivery is not left pending: it has a sender or a job that is still going
\* on, or the job failed; only a sender that died leaves it without
\* (redeliver-webhook.ts: no "perpetually-pending delivery").
PendingHasJob ==
    \A d \in Deliveries : row[d].status = "pending" =>
        sender[d] # "none" \/ job[d].state \in {"waiting", "active", "failed"}

\* A delivery row that is pending has its sender or its job (webhook-dispatch.ts,
\* redeliver-webhook.ts).
DeliveriesHold == TypeOK /\ PendingHasJob

\* deliver-webhook.ts: a terminal failure counts once against its endpoint, and an
\* endpoint an admin has locked stays so until an admin lifts it.
FailuresCountAndLock == CountedOnce /\ LockHolds

\* A tenant's command never undoes an admin's lock (update-webhook.ts: "a tenant
\* can't race past a concurrent force-disable").
TenantKeepsLock ==
    [][endpoint.status = "admin_disabled" /\ RequestWrite => endpoint'.status = "admin_disabled"]_vars

=============================================================================
