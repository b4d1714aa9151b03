# Baseworks in TLA+

Specifications, model-checking runs and proofs for the parts of Baseworks whose
correctness depends on the order of events: files with their quota, transforms and
owners; payments, webhooks and notifications; the processes that serve them, from boot
to exit; the tenant that a request carries; and the pages of the two front ends that
keep state between two requests. The code is the reference: every definition that
stands for code is listed, with the lines it stands for, under `map` in `PROJECT.json`.

## 1. The system

Baseworks is a multi-tenant SaaS starter in TypeScript: one or more API processes
(`apps/api`, Elysia on Bun) behind a supervisor, worker processes that take BullMQ
jobs from Redis, PostgreSQL through Drizzle, an object store, and two front ends
(`apps/web`, `apps/admin`, React over TanStack Query). Modules (`packages/modules/*`)
contribute commands, queries, jobs, event hooks and routes to a registry. State that
outlives a request lives in five places: PostgreSQL rows, objects in the store, jobs and
keys in Redis, the memory of a process, and the query cache of a browser. No transaction
spans two of them, and that is where most of what can go wrong is.

| Component | State | Operations | Interacts with | Hard behaviour |
|---|---|---|---|---|
| Upload life cycle and quota (`modules/files`) | `files` rows, `tenant_storage_usage`, objects | sign, PUT, complete or reject, delete, admin variants, reap-pending, reap-soft-deleted | object store, event bus, transform queue | calls racing on a stale read; commit and object delete in separate steps; multi-statement admin path with an undo |
| Image transform | row status and manifest, variant objects, BullMQ job, `bytes_used` | enqueue, run (load, flag, work, commit, throw), reconcile | quota, delete, worker | minutes between read and write; retries, stalls, overlapping runs; snapshot-then-write reconcile |
| File ownership | `owner_record_id`, tombstones | attach (replaces siblings), cascade on owner deletion, reap-orphan-files | auth's owner records, event bus | READ COMMITTED scans and row locks; a lost cascade event; memoized existence answers |
| Billing webhooks (`modules/billing`) | `webhook_events`, `billing_customers`, jobs | receive, enqueue, process | provider, worker | duplicate, concurrent and out-of-order deliveries; crash between insert and enqueue |
| Billing account and usage | `billing_customers`, `usage_records`, the provider's customer, subscriptions and remembered keys | provision, checkout, change, cancel, portal, record, sync-usage | provider, worker | an external call before or after the local record of it; idempotency keys that are too coarse or too fine |
| Notification fan-out (`modules/notifications`) | `notification`, `notification_delivery`, preferences, jobs | notify, deliver, set preferences, mark read | queue, e-mail provider, SSE | a transaction a recipient, jobs added after all of them; swallowed errors |
| Webhook endpoints | `notification_webhook`, `notification_webhook_delivery`, jobs | create, update, delete, rotate, force-disable, re-enable, dispatch, deliver, redeliver, prune | tenant's server, worker | three writers of one status; attempts spread over jobs |
| SSE bridge | a Map from channel to a Set of emitters; Redis' subscription | subscribe, unsubscribe, message | Redis, the bell | streams that come and go while SUBSCRIBE is awaited |
| Auth (`modules/auth`) | organizations, members, invitations, sessions (better-auth's) | create, resend, cancel, accept invitation; choose the tenant; impersonate | e-mail, front ends | cancel-then-create with a compensation; several writers of one session |
| API process | registry, frame of a request, pooled connections | load modules, serve, emit, shut down | supervisor, Redis, PostgreSQL | a tenant that outlives its request; connections closed under work in progress |
| Supervisor (`apps/api`) | children, timers, flags | start, tick, exit, timers, shutdown | OS processes | timers armed in one state fire in another |
| Health and observability | heartbeat keys, aggregator's cache, ring of errors | publish, expire, probe, aggregate, capture | Redis, the admin's health page | a dead worker that looks alive, a cache that renews itself |
| Queue package | BullMQ jobs | createQueue, createWorker | Redis | attempts, stalls, job ids that stay taken |
| Front ends | query cache, dialogs, mutations, uploads in flight | click, ask, answer, settle, invalidate | routes of the API | an answer read before a write arrives after it; clicks between two steps |
| Storage adapters, templates, shared packages | (objects) | put, stat, delete; formatting | | atomic steps of the other models, or no state |

What makes the components correct, in a sentence each:

* the two quota counters are what the rows say they are, and never exceed the limit;
* a row that is live and counted has its object; a tombstone stays one;
* a manifest names objects that exist, and is charged once;
* an owner has at most one live file, keeps it while it lives, and leaves none behind;
* the subscription state is that of the latest event, and no event disappears;
* the provider has one customer for a tenant, what it was asked is done once, and usage
  that is marked as synced was reported once;
* no mail of a notification is left pending by a call that ended;
* an endpoint that an admin disabled stays disabled, and a delivery is neither lost
  nor tried without end;
* a stream that is open hears what is published, and nothing is held for closed ones;
* a request reads and writes the rows of its own tenant, and so do the jobs it causes;
* the pool serves with CLUSTER_MIN to CLUSTER_MAX processes, except while a crash loop
  is paused; a shutdown takes nothing away from work in progress, and ends;
* what the health page says of a worker, an error or a dependency is so, or becomes so;
* an invited address can accept until someone says no; a session is of the tenant its
  user chose last; an impersonation can be left by nobody but the operator who began it;
* a page that has settled shows what its user was told, and a file is handed over once.

## 2. Modules

| Module | Models | Role |
|---|---|---|
| `StorageQuota` | `files/lib/quota.ts`: the counters as records, one operator per UPDATE; sums of byte weights | extended by all files modules |
| `QuotaLedger` | what the counters promise: who owns which bytes | abstract specification, refined by `FilesUpload` |
| `FilesUpload` | sign, complete, delete, reap, admin variants | component |
| `JobQueue` | the life of a BullMQ job | extended by the modules with jobs |
| `FilesTransform` | `transform-image.ts`, `reconcile-tenant-usage.ts` | component |
| `FilesOwnership` | `attach-file.ts`, `cascade.ts`, `reap-orphan-files.ts` | component |
| `BillingWebhooks` | `billing/routes.ts`, `process-webhook.ts` | component |
| `BillingAccount` | `provision-customer.ts`, the commands of billing over the Stripe adapter | component |
| `UsageSync` | `record-usage.ts`, `sync-usage.ts`, the adapter's `reportUsage` | component |
| `NotificationFanout` | `notify.ts`, `deliver.ts`, `send-transactional-email.ts` | component |
| `WebhookEndpoints` | `notifications/commands/*-webhook*.ts`, `webhook-dispatch.ts`, `deliver-webhook.ts`, `prune-webhook-deliveries.ts` | component |
| `LiveNotifications` | `sse/bridge.ts`, the `/stream` route, `notification-bell.tsx`, mark-read | component |
| `RequestScope` | the frame of a request, `tenantMiddleware`'s answer, `withTenant`, the example module's create and list, its event, its job | component |
| `Supervisor` | `supervisor-core.ts` | component |
| `ProcessLife` | the registry's loading, the shutdown of `index.ts` and `worker.ts`, the orphan guard | component |
| `WorkerHealth` | `heartbeat.ts`, the keys as `/health/detailed` reads them | component |
| `HealthReport` | `health-aggregator.ts`, the route and the page that shows it | component |
| `ErrorWindow` | `ring-buffer-error-tracker.ts` and what reports to it | component |
| `QueryCache` | the life of a TanStack query: asked, answered, settled, invalidated, fresh | extended by the pages |
| `UploadHook` | `use-file-upload.ts` with the widget's clicks and its pages' attach | page |
| `Invitations` | the invitation routes with the resend's compensation; pending list, invite dialog, invite, sign-up and log-in pages | page and server |
| `TenantSession` | `tenant.ts`, `tenant-provider.tsx`, `tenant-switcher.tsx`, `members-list.tsx` | page and server |
| `AdminConsole` | the operator's tenants, users, webhooks, roles and files pages with the routes of `admin.ts` | page and server |
| `NotificationPreferences` | the switches with their optimistic update, `set-preferences.ts` | page and server |
| `WebhooksPanel` | `webhooks-manager.tsx` and its dialogs | page |
| `SubscriptionPage` | the billing page | page |
| `OperatorSession` | the admin's login, guard, impersonation banner, `bootstrap-admins.ts` | page and server |
| `MCFilesUpload`, `MCFilesOwnership`, `MCBillingWebhooks`, `MCWebhookEndpoints` | instances for TLC | |
| `Services` | what stands behind the routes side by side: `RequestScope`, `NotificationFanout`, `LiveNotifications`, `BillingAccount`, `UsageSync`, `ErrorWindow`, `WorkerHealth`, `HealthReport` | composition |
| `MCServices` | `Services` for TLC | |
| `Processes` | the processes that serve: `Supervisor` and `ProcessLife` | composition |
| `MCProcesses` | `Processes`, `WorkerHealth` and `HealthReport` side by side, for TLC | |
| `Pages` | the stateful pages of the two apps: `UploadHook`, `Invitations`, `TenantSession`, `OperatorSession`, `AdminConsole`, `NotificationPreferences`, `WebhooksPanel`, `LiveNotifications`, `SubscriptionPage` | composition |
| `MCPages` | `Pages` for TLC, one page at a time | |
| `MCFilesLife` | several components side by side, for TLC | |
| `StorageQuota_proofs` | lemmas on the sums and the counters | extended by the files' proofs |
| `Components_proofs`, `FilesUpload_proofs`, `FilesTransform_proofs`, `FilesOwnership_proofs`, `WebhookEndpoints_proofs`, `Pages_proofs`, `Supervisor_proofs` | theorems | section 5 |

A definition named `X_Something` just above a definition `X` is X with a plausible
programming error. It is used by nothing; `PROJECT.json` pairs it with the property
that notices it, so that no property is listed that the code could not break.

**Side by side.** The components of `MCFilesLife`, `MCProcesses`, `MCServices` and
`MCPages` share no row, key or variable, so interleaving their steps would only multiply
their states. Each of them (for `MCServices` it is `Services`, for `MCPages` it is `Pages`) INSTANCEs its components and has one
variable more, `focus`, which names the component that a behaviour is of; the others keep still. One
run of it is the sum of the runs of its components, each with its own constants (in the
INSTANCE) and its own fairness (repeated there with `focus`, since fairness of a
component that keeps still would be false). Where components do share state they are
one module: upload and quota, transform and delete, receipt and processing of a webhook,
a page and the rows it shows.

### How state and actions correspond to the code

**One action is one atomic step of the code**: a committed transaction or a single
statement, one call of the object store, one BullMQ or Redis operation, or, on a single
thread, one callback: the code between two awaits. The locals a handler keeps between two
steps (`call`, `admin`, `run`, `attach`, `delivery`, ...) are state, with a `pc` or `at`
that names the next step. A handler that can die has an action for it; a `catch` is an
action with the guard "a step of the `try` has been reached".

*FilesUpload.* `row[f]` is the row of file `f`: `absent` and `gone` stand for no row
before and after its life, `deleted` for a tombstone (`deleted_at` set). `usage` is
the row of `tenant_storage_usage`. `object[f]` is what the store has at the file's
key: a size and whether the bytes pass the magic-byte check. `age` is coarse time: URL
still valid, URL expired, older than the reapers' horizon. `erasing` is the set of best-effort
`storage.delete` calls that follow a commit; each either happens or is lost.
`signUpload` is one transaction (`SignUpload`, `SignUploadFails`), `adminSignUpload` a
sequence of commits (`AdminReserve`, `AdminInsert`, `AdminSigned`, and the undo).
`completeUpload` and `adminCompleteUpload` are `CompleteLoad`, `CompleteStat`,
`CompleteVerify`, and `CompleteCommit` or `RejectObject`/`RejectRow`.
`stranded` and `leaked` are history: bytes in `bytes_pending` whose row was tombstoned
while pending, or whose admin-sign died; no code releases them.

*FilesTransform.* A run is a worker executing the job of a file; `locked` says whether
BullMQ still counts it as the job's owner. A stall gives the job to another run while
the first may go on. `variants` are the files whose derived objects exist (keys are
deterministic, so all runs write the same ones). `kept` is history: bytes still
charged for a row that failed. `races` is history too, see section 4.

*FilesOwnership.* Transactions are cut into statements. A scan sees the rows committed
when it starts; `SELECT ... FOR UPDATE` then waits for each row (`Free`) and looks at
it again once it has the lock, as PostgreSQL does in READ COMMITTED. A link that is
not committed is invisible, but its row is locked.

*BillingWebhooks.* Event `e` occurs at time `e`; `stamp[e]` is the `occurredAt` in
the job's data, the time of arrival with both providers (section 4). The job's id is the
event's id, so a job that exists is never added again.

*BillingAccount.* `session` and `sub` are the provider's checkout sessions and
subscriptions, `keys` the requests whose answers Stripe remembers. `row` is the tenant's
`billing_customers` row, which only events write after provisioning; `call` is a command
between its read of the row and the provider's answer. `wish` is history: what the last
answer promised for a subscription; `again` the subscriptions of a request that repeated
an earlier one.

*UsageSync.* `job[j]` has the groups that the SELECT returned and the one that is being
reported; `keys` is what Stripe remembers under each second's key. `counted` and
`answered` are the reports that were added to the bill and those that got an answer.

*NotificationFanout.* A call goes through the gate (preferences), one transaction a
recipient, and the jobs; `run` is a run of `deliver`, cut between the provider's answer
and the record of it. `firmly` and `ever` are history: who had e-mail off all the time,
and at some time, before the gate.

*WebhookEndpoints.* `endpoint` is one `notification_webhook` row, `row[d]` a delivery
and `job[d]` its BullMQ job. `sender[d]` is the call of `notify` or
`redeliver-webhook` between the commit of the row and the return of `queue.add`
(`undo`: it is about to remove the row again; `died`: it never will). The tenant's
commands are a SELECT (`RequestRead`) and a write by id (`RequestWrite`).
`run[r].attempt` is the attempt that `deliverWebhook` computes from the row, and is
reset when it is no longer used. `exhausted` is history: deliveries counted as failures since
the endpoint's counter was last reset.

*LiveNotifications.* A Set of emitters is named by the connection that created it, as two
Sets may exist for one channel while a SUBSCRIBE is awaited. `wire` is the sequence of
commands on the subscriber connection. The signal of a notification is published before
its transaction commits.

*RequestScope.* A request's frame (AsyncLocalStorage), the connection it borrowed with
that connection's tenant setting, the carrier that a job takes along, and the slot of a
worker that runs it. Row-level security is `Visible`: what the policy lets a statement
read under the connection's setting.

*Supervisor.* Children are a sequence in spawn order with what the code tracks of each
(young, draining, kill timer, last signal). Timers are counters of armed timers. Time
is what thresholds tell apart.

*ProcessLife.* `call[s]` is a run of the shutdown, one for each signal; `watched` is the
parent that the orphan guard saw when it was set up. `faulty` is history: the deadline
or an error ended the shutdown.

*WorkerHealth, HealthReport.* Time is ticks of one publish interval, and coarse ticks of a probe. A
key has its remaining life and the age of what it says; `sent` are commands on their way
to Redis. A probe is a contributor's check in one request, which may hang; `wait` counts
towards its timeout.

*ErrorWindow.* The buffer as the sequence it is, and the index from key to position.

*Pages.* `QueryCache` has a query's data and whether a fetch is asked, answered (with what
the server held when it read) or settled. What a user was told by a toast or a dialog is
history (`told`, `withdrawn`, `chosen`), and the properties compare the two. Rows are
changed by other people and processes at any time (`Others...`), which tells the page
nothing. A request that the page has given up ("adrift", `adrift`, or as a call of another
operator) may still be carried out, which tells it nothing either; a toast of success after
a refusal tells the user what is not so (`misled`).


## 3. Runs

| Run | Module | Properties | Shows |
|---|---|---|---|
| `FilesUpload_serial` | `MCFilesUpload` | `QuotaExact`, `WithinLimit`, `StoredHaveObject`, `UploadedEndsInTombstone`, `ImplementsLedger` | Two uploads, signed by users and by an admin, one completing call per file at a time, with crashes and failing calls: the counters equal what the rows say in every state, the limit holds, a stored file has its object and leaves only through a tombstone, and every step is a step of the abstract quota ledger. |
| `FilesUpload_racing` | `MCFilesUpload` | `TypeOK`, `UsedCoversStored`, `NoResurrection` | Two completing calls of the same file, statements that fail and crashes: bytes_used still covers what is stored, and a deleted or rejected file never becomes live again. |
| `FilesUpload_reject` (violation) | `MCFilesUpload` | `UploadedEndsInTombstone` | Two completing calls of one file: the one that rejects removes the row and the object that the other has just made a real file. |
| `FilesLife` | `MCFilesLife` | `ManifestsHold`, `TransformDriftHeals`, `OrphansReaped`, `PendingDrains` | A file's transform through failures, retries, worker deaths and overlapping runs; an owner's files through lost cascades; uploads that nobody completes: manifests name objects that exist and are counted once, and under the schedules of the jobs drift is healed, orphans are reaped and reservations are given back. |
| `FilesOwnership` | `MCFilesOwnership` | `OneFilePerOwner`, `BytesCharged`, `FilesStayWithOwners` | Two attach requests, deletes, cascades and the orphan reaper interleaved statement by statement: outside the races it names, one live file per owner, refunds that match the tombstones, no owner left without the file just attached, and no file of a living owner reaped. |
| `WebhookEndpoints` | `MCWebhookEndpoints` | `AutoDisableFires`, `DeliveriesHold`, `FailuresCountAndLock` | An endpoint and two deliveries, the second perhaps a redelivery of the first, with failing and dying senders, retries, stalls, two workers, and a tenant who enables or deletes the endpoint while an admin locks it: consecutive failures disable it, none counts twice, no delivery is left pending without a job, and the lock holds outside the race it names. |
| `WebhookEndpoints_lock` (violation) | `MCWebhookEndpoints` | `TenantKeepsLock` | A tenant's update that read the endpoint before an admin's force-disable makes it active again. |
| `BillingWebhooks` | `MCBillingWebhooks` | `EventsApplied`, `NeverBackwards`, `NoEventLost` | Two events of three kinds, delivered again and in any order, processed by two workers that die, stall and throw, while the API dies between insert and enqueue: the customer follows the guarded event that arrived last, last_event_at never goes back, what is acknowledged is queued, and no event disappears. |
| `Processes` | `MCProcesses` | `PoolWithinMax`, `ProcessWhole`, `PoolKeepsLimits`, `FloorRestored`, `ShutdownEnds`, `ShutdownExits`, `HealthFresh` | The supervisor with its children, timers and signal; one API process and one worker from their modules' loading to their exit; two workers' heartbeats: the pool keeps its limits and comes back to its floor, nothing is closed under a request that is still served, every shutdown ends, and a worker that died is reported as gone. |
| `Services` | `MCServices` | `OwnRows`, `ScopeHolds`, `MailsHold`, `BridgeExact`, `AccountHolds`, `UsageReported`, `ObservedIsTrue` | What stands behind the routes, one component at a time: requests of two tenants on two pooled connections with the events and jobs they cause, the mails of a notification, the SSE bridge with three streams, a tenant's account at the provider with its idempotency keys, the usage job, and the three sources of the health page. |
| `Pages` | `MCPages` | `UploadsShown`, `InvitationsHold`, `SessionHolds`, `PagesAsTold`, `HandedOverOnce` | The stateful pages of the two apps, each with its query cache and its server and one at a time: clicks between any two steps of a request, answers that come late, fail or are lost, requests carried out after the page gave them up, other people's writes in between; what a page shows once it has settled is what its user was told, and what was refused, replaced or cancelled does not come back. |
| `UsageSync_metric` (violation) | `UsageSync` | `SyncedIsCounted` | Two metrics of one subscription reported in the same second with the same sum: the provider answers the second from its idempotency key, and its rows are marked as synced without having been counted. |

What a property of several parts says, and of which module:

| Property | Parts |
|---|---|
| `ManifestsHold` | `FilesTransform`: `ManifestHasObjects`, `OneManifest`, `UsedExact` |
| `BytesCharged`, `FilesStayWithOwners` | `FilesOwnership`: `ChargedExactly`; `AttachLeavesAFile`, `LivingOwnersKeepFiles`, `UnattachedKept` |
| `DeliveriesHold`, `FailuresCountAndLock` | `WebhookEndpoints`: `PendingHasJob`; `CountedOnce`, `LockHolds` |
| `EventsApplied` | `BillingWebhooks`: `FollowsLatest`, `AckedHasJob` |
| `PoolWithinMax`, `PoolKeepsLimits` | `Supervisor`: `LiveWithinMax`; `NoSpawnInShutdown`, `PauseHaltsRespawns`, `ScaleDownKeepsFloor` |
| `ProcessWhole` | `ProcessLife`: `ServesWhole`, `DrainsFirst` |
| `HealthFresh` | `WorkerHealth!KilledFades`, `HealthReport!HealthAnswers` |
| `ScopeHolds` | `RequestScope`: `PoolClean`, `JobsOfRows` |
| `MailsHold` | `NotificationFanout`: `NoMailForgotten`, `GateHonoured` |
| `AccountHolds` | `BillingAccount`: `OneCustomer`, `AnswersHold` |
| `ObservedIsTrue` | `ErrorWindow!WindowExact`, `WorkerHealth!KeysTellLife`, `HealthReport!OutageShows` |
| `UploadsShown` | `UploadHook`: `InFlightShown`, `PickedLastWins` |
| `InvitationsHold` | `Invitations`: `NeverStranded`, `ResendKeysExact`, `CancelShown`, `DeclinedIsClosed` |
| `SessionHolds` | `TenantSession`: `SwitchHolds`, `OneWorkspace`, `ListOfChosen`, `MembersAsTold`; `OperatorSession!Returnable` |
| `PagesAsTold` | `AdminConsole`: `FlagAsTold`, `RolesAsTold`, `RolesWithinLimit`, `FilesAsTold`; `NotificationPreferences!SwitchesTrue`; `WebhooksPanel!PanelTrue`; `LiveNotifications!BellTrue`; `SubscriptionPage!CardSince` |

Each of these also has its modules' type invariants, but for those of action properties.

Bounds and why they are enough. The counters are sums and every action touches one or
two files, so an error in them shows with two files: one whose bytes are lost, one that
takes them. `MaxBytes = 2` with `Limit = 3` lets two uploads fit singly but not both at
full size, and lets an object be smaller or larger than claimed. Two completing calls
are the smallest race between calls; one admin-sign at a time is all a race with users
needs. The transform needs one file (its counters are additive and the other files are
left alone) and two runs, so that a redelivered job overlaps its first run. Ownership
needs two files (one replaces the other), two owners (a file moves) and two attach
requests, each made once (a further race, "move" in section 4, needs three files and four
requests and was found by the proof: it is beyond the instance, not beyond the theorem);
for liveness one owner and one attach, since the reaper looks
at each owner by itself. Billing's events need two for one to overtake the other and
two runs for a job to be processed twice at a time; one delivery at a time, repeated as
often as the provider likes, is enough because the insert decides in one statement.
Webhook endpoints need two deliveries, one to be redelivered as the other and both to
fail at a threshold of two, two attempts, so that a failure is retried before the last
one, and two workers, so that a stalled job overlaps its first run. Of the tenant's
commands `enable` and `delete` are enough: what could undo a lock, and what takes rows
away from under a delivery; the violation run has all three.
The supervisor has `CLUSTER_MIN = 1` and `CLUSTER_MAX = 2`, up to two children draining
and two timers of each kind armed, so that a crash limit of six is reached, exceeded and
forgotten. A process has lists of modules with a good, a repeated and a clashing one, a
request that ends and a stream that does not, and two signals.
`Services` has two requests that create and one that lists for two tenants on two
connections, so that a connection is handed from one tenant to the other while a third
request waits; two users of whom one has the role, so that one call has a recipient
muted and one not, and one worker for their mails, or two for mails to an address alone
(`OneKindOfMail`, a bound in the guard); preferences that change until the call has passed its
gate, after which nothing reads them (`MutedBeforeGate`); three streams, so that one subscribes
while another leaves and a third finds what they left; two checkouts of one plan, which share their price's key; three
usage rows in two metrics and two runs; four errors in a window of three, so that an
eviction shifts two; two workers and two requests that share a cache.
`Pages` has two rows and two flows of an upload, two invitations of which one can replace
the other, two tenants, one row of each kind that an operator changes, two preferences
saved at once, one endpoint with two requests at once, or with one and a secret that may be
rotated; the subscription's status changes twice. The bounds are operators in the guards of
`MCPages`. A request of these pages is answered, refused, or given up: then it was carried
out, is lost, or is still on its way and carried out at any later time. `InOrder` loses nothing: it adds the two rows of the widget, which are
interchangeable, in one order. `WithdrawsFirst` lets the list withdraw one of the two
invitations and resend both. `ResendIsSecond`: two calls of any kind run at once while nobody is
invited, and a call beside a resend while the person invited acts. `EditsOne` reads and edits the members
of one tenant while the user switches between two, and `EditsHeard` leaves the switches that go
unheard to the other screens; an open list is that of a user with a tenant. Of the edits that
were given up, the last is followed (`EditLost`). `OneSwitchAdrift` and `SecondAdrift` give up
one of two switches' saves and one of two requests of the webhooks' page. `EachGrantsOne` tells the permission that the
page's operator grants from the other operator's, so that a stale list differs from a fresh one.
`NoneRotates` and `AdminDisables` have two requests at once, among them an admin's lock;
`OneRequest` has every status and the rotated secret with one request at a time.
All named bounds are constants: `Limit`, `MaxObject`, `MaxStallings`, `MaxStalls`, `StallBound`,
`MaxDraining`, `MaxBackoffs`, `MaxPauses`, `ScanLimit`, `MaxAttempts`, `Threshold`,
`MaxSecond`, `MaxQuantity`, `MaxEvents`, `MaxSent`, `MaxCount`, `MaxRoles`, `MaxSecret`,
`MaxTold`.

Symmetry (files, calls, owners, attachers, deliveries, workers) is used in the runs without liveness only.
`CHECK_DEADLOCK FALSE` is in the runs whose system ends: every file id is used once,
every event is one of a finite number, a process exits, requests are used up.

Fairness. A handler or a worker that runs goes on or fails (weak fairness of its
steps); jobs scheduled by BullMQ fire again and again (weak fairness of the reapers
and of reconcile); timers that are armed fire, ticks of a publisher and of a timeout
among them; locks of dead workers run out. Strong
fairness is assumed where a step may be disabled again and again but not for ever by
failures: the reaper's query and transaction (it may fail on a day, not on all of
them), a provider's delivery, which it repeats until one is acknowledged, and its
enqueue. Nothing is assumed of clients: nobody has to complete, delete or attach, and
an owner's deletion event may be lost; no client, Redis or PostgreSQL need ever answer a
process that shuts down.

`UploadHook!ActiveEnds` (no row stays busy) and `AdminConsole!ReadyShown` (the card polls
until an image is ready) are checked on their modules alone, under their `FairSpec`, and
in no run of the list.

## 4. What does not hold, and how the models say so

Some guarantees that comments in the code give do not hold in all interleavings. Three of
them are runs of their own, with a counterexample and a finding in `PROJECT.json`:
`FilesUpload_reject`, `WebhookEndpoints_lock` and `UsageSync_metric`. For others the
model records the race that breaks the guarantee in a history variable (`races`, `raced`, `overtaken`, ...), and the property states the
guarantee for every behaviour without it:

| Property | except after | Where |
|---|---|---|
| `FilesTransform!UsedExact` | a delete while a run works: the final UPDATE is by id and charges a tombstone's variants ("delete") | `transform-image.ts:203-214` |
| | two runs of one job at a time: both add the whole of their bytes ("overlap") | `transform-image.ts:123` |
| | a change committed between reconcile's snapshot and its write ("reconcile") | `reconcile-tenant-usage.ts:58` |
| `FilesOwnership!OneFilePerOwner` | two attach requests for one owner: neither sees the other's link ("attach") | `attach-file.ts:118-130` |
| `FilesOwnership!AttachLeavesAFile` | the file is deleted between attach's load and its link ("delete"), or any other race | `attach-file.ts:114` |
| | another file is attached to the owner that a file is being taken from ("move"): it may replace that file first, whose request then links a tombstone, by id alone, and replaces the live file of the new owner | `attach-file.ts:111-130` |
| `FilesOwnership!ChargedExactly` | a file attached between the cascade's SELECT and its UPDATE ("cascade") | `cascade.ts:73` |
| `FilesOwnership!LivingOwnersKeepFiles` | a candidate attached elsewhere after the scan ("reaper") | `reap-orphan-files.ts:99` |
| `BillingWebhooks!FollowsLatest` | a checkout, whose handler has no ordering guard | `process-webhook.ts:140` |
| `BillingAccount!AnswersHold` | a request that repeats an earlier one: Stripe answers it from the key (`again`) | `stripe-adapter.ts:116, 139` |
| `UsageSync!UsageReported` | a run that broke off between report and mark, two runs at once: a row may be in two sums | `sync-usage.ts:70-92` |
| `NotificationFanout!NoMailForgotten` | a call that broke off: mails committed before have no job | `notify.ts:150` |
| `WebhookEndpoints!LockHolds` | a force-disable after a tenant's command, or a delivery about to fail for good, has read the endpoint as active: the first may enable it, the second's UPDATE sets `auto_disabled`, which the tenant can lift | `update-webhook.ts:61`, `deliver-webhook.ts:143` |
| `WebhookEndpoints!CountedOnce` | a job given to a second worker while its first one is alive: both read the same attempts | `deliver-webhook.ts:122` |
| `LiveNotifications!BridgeExact` | a stream that ends while it, or another one of its user, still awaits SUBSCRIBE | `bridge.ts:33-39`, `notifications/routes.ts:60-70` |
| `UploadHook!InFlightShown`, `HandedOverOnce`, `PickedLastWins` | a cancel, remove or replacement while a row is completed or attached; a retry after a cancel in the middle of sign, which makes a second flow of the row | `use-file-upload.ts:269-298` |
| `TenantSession!SwitchHolds`, `OneWorkspace`, `ListOfChosen` | a request without an active tenant that began before the switch, or a switch whose answer was lost; two such requests at once; a first fetch under way during a switch | `tenant.ts:60-100`, `tenant-provider.tsx:61-68` |
| `TenantSession!MembersAsTold` | an edit that the service refused: its `{error}` is not looked at and the page says that it is done (`misled`) | `members-list.tsx:77-87, 106-117` |
| | an edit that ended in an error though it was carried out, or will be: nothing is read again (`told` is "unheard") | `members-list.tsx:89-92, 118-120` |
| | a list of members whose `{error}` is taken for nobody ("blank"); a list that was being read while another tenant was shown ("late") | `members-list.tsx:69-73` |
| `AdminConsole!FlagAsTold`, `RolesAsTold` | a change that was carried out and whose answer was lost: the operator is told of an error, and what he was told before is no longer so (`told` is "nothing"); another operator's change | `tenants/detail.tsx:309-311` |
| `NotificationPreferences!SwitchesTrue` | a save that was given up, rolled back and carried out after the page had read (`late`) | `use-notification-preferences.ts:43-48` |
| `WebhooksPanel!PanelTrue` | a command without an answer, carried out before or after the page gave it up (`untold`, `left`) | `use-webhooks.ts:35-67` |
| `LiveNotifications!BellTrue` | a mark without an answer, carried out before or after the bell gave it up (`missed`) | `use-notifications.ts:19-42` |
| `AdminConsole!RolesWithinLimit` | two operators whose requests counted the roles at the same time | `admin.ts:283` |

`TransformDriftHeals` shows that the drift of the first group is repaired by the daily job.

These are stated in their modules, are false, and are in no run of the list; TLC finds
each of them violated on its module's instance:

| Formula | Said by | What the code does |
|---|---|---|
| `FilesTransform!RetryRegenerates` | `transform-image.ts:26-28`: a retry regenerates all variants | the catch marks the row failed (:223), the retry's gate (:106) returns |
| `BillingWebhooks!FollowsOccurrence` | `pagarme-adapter.ts:247-249`: events are ordered by provider time | `pagarme-webhook-mapper.ts:54` stamps `new Date()`, and so does Stripe's mapper, which is given no `occurredAt` (`stripe-webhook-mapper.ts:56`) |
| `BillingAccount!LinkedSubscription` | `process-webhook.ts:121`: link the subscription to the customer | `stripe-webhook-mapper.ts:47` takes the checkout session's own id first |
| `LiveNotifications!RefcountEmpties` | `notifications/routes.ts:33-34`: the refcount returns to empty on disconnect | a stream cancelled before `start` has its unsubscribe leaves its emitter (:60, :69-70), and a leaked emitter throws in the loop of the others |
| `WebhooksPanel!SecretShown` | `webhook-endpoint.ts:18`, `rotate-webhook-secret.ts:11`: shown to the tenant once | `webhooks-manager.tsx:101` and `use-webhooks.ts:60-67` drop the rotated secret |
| `WorkerHealth!KilledIsReported` | `env.ts:73-74`, `docs/runbooks/queue-backing-up.md:12`: a worker that stops beating turns stale, then dead | the key lives two intervals, the threshold of "stale" is two intervals: it is gone before it is stale |
| `ErrorWindow!HttpErrorsSurface` | `docs/runbooks/high-error-rate.md:63`, `index.ts:71-75`: recent errors are in the window | `error.ts:97` reports to the tracker inside the window's decorator |
| `ProcessLife!OrphanEnds` | `index.ts:524-528`: a child whose supervisor died self-terminates | a parent that dies during the boot is already replaced when :530 reads `ppid` |
| `Invitations!OnlyPendingListed` | `queries/list-invitations.ts:12-13`: all statuses, "filtered to pending in the UI" | `pending-invitations.tsx:106-109` filters none out |
| `AdminConsole!BanShown` | `docs/superpowers/plans/2026-06-21-v1.5-authorization-overhaul.md:1346` | `admin.ts:532-541` does not select `banned`, so a user's page never shows it |
| `OperatorSession!LoginMirrorsGuard` | `login.tsx:59`: "Resolve the owner role the same way AuthGuard does" | the login asks for the owner of a workspace, `auth-guard.tsx:15-18` for the platform role |
| `UploadHook!RetryHeard` | `use-file-upload.ts:102`: a cancelled row is retryable | a row cancelled while its bytes were sent resumes (:369) with its status still `canceled`, and :269 returns |

Further divergences met while modelling, which no formula states:

* Files. A pending upload deleted by its user keeps its reservation for ever:
  `delete-file.ts:12-14` leaves it to the cleanup job, which selects live pending rows
  only. `PendingDrains` therefore counts `stranded`. `reap-pending-uploads.ts:77` says a
  leftover object is swept on the next run; sweeps start from rows, and the row is gone.
  `reap-orphan-files.ts:39` says a backlog is drained over consecutive runs; the scan
  takes the oldest `SCAN_LIMIT` attached files, and those of living owners stay at its
  head. `OrphansReaped` is checked with a limit that takes every file.
* Tenants. `tenant.created` is emitted by `auth:create-tenant` only, which no route calls:
  provisioning and the seeding of storage usage hang on it. The sign-up page reads
  `organizationId` from the envelope of the answer, so the accepted tenant is not made
  active (`signup/page.tsx:88-97`). The client SDK answers `{error}` instead of throwing,
  which the invite page, the members list and the tenant provider do not look at: a
  refused removal or change of role is toasted as done (`members-list.tsx:79, 108`), and a
  refused list of members is shown as an empty one (:72).
  Signing out from the sidebar keeps the query cache.
* Billing. `process-webhook.ts:42` and `:110` say BullMQ retries a failed event. The queue
  is made without attempts (`routes.ts:51`), so a job that throws once has failed, and a
  later delivery finds the event `failed` and is acknowledged; `NoEventLost` accepts a
  failed job. The queue hands job data over as JSON, so `occurredAt` and
  `currentPeriodEnd` are strings at run time (`process-webhook.ts:70`), which the
  timestamp columns of the guarded updates do not take: `Throw`, possible in the model at
  any step, stands for it. An event type without a mapping is answered with a 500, so the
  provider sends it again. An event that arrives before provisioning updates no row and is
  marked as processed. Cancelling, resuming in the portal and cancelling again within the
  key's life is answered as done and does nothing (`again`); nothing stops a second
  subscription's checkout; Pagar.me gives a retried provisioning a second customer
  (`provision-customer.ts:24-26`), cancels at once although the answer says
  `period_end`, and throws in checkout and one-time payment.
* Usage. A run that broke off after the report is followed by one in another second, with
  another key: counted twice, where `stripe-adapter.ts:311` has a retried sync reuse the
  key. Nothing schedules `billing-sync-usage`.
* Notifications. A mail may be sent twice when a worker dies before `deliver.ts:128`; a job
  that is failed by stalls leaves its row pending. Marks made in another tab send no signal.
  The bell reopens its EventSource on every render and does not fetch when it does.
* Supervisor. `supervisor-core.ts:46` calls `crashBackoffMs` the respawn backoff after a
  crash; the next tick, or any settled child's exit, respawns without it. The crash-loop
  limit is `max * 3` crashes in 60 s: with a floor of one process there is at most one
  crash per second of backoff, so above `CLUSTER_MAX = 20` a loop is never recognised. A
  child's own drain is `max(1000, drainMs - 3000)`, for a drain of up to 4 s not 3 s less.
* Processes. A second signal makes the worker's shutdown quit Redis twice, and the
  rejection ends it with 1; it has no deadline. A health probe after the shared connection
  was closed opens a new one. An open SSE stream always takes the API's deadline.
* Observability. `tags.source` is never set, so every entry's source is "global"; an
  untyped error of a command is reported by the bus and again by the middleware. Workers
  that share an instance id share a key. A cleanup job that never ran has no row and is
  never stale (`storage-health.ts:14-15`).
* Console. `metadata.deactivated` is enforced nowhere; a PATCH of a tenant replaces its
  metadata (`admin.ts:200-203`); `bootstrap-admins.ts:9` has operators managed in the UI,
  which never calls setRole, and stored sessions keep the role they began with. After a
  failed refetch an uploaded file stays unshown (`tenants/detail.tsx:87-91`).
* Billing page. "inactive" is truthy, so that the card for a tenant without a plan is never
  shown; its query keys have no tenant; a cancellation at the period's end is not stored,
  so that the card goes on offering it.
* Example. There is no outbox: a crash between commit and `queue.add`, or a COMMIT whose
  answer is lost, leaves a row without its follow-up.

## 5. Proofs

`tlapm` checks all theorems; nothing is assumed beyond the ASSUMEs of the modules, which
the runs evaluate on their instances, and the premises named here. Each theorem is for
every value of the module's constants: any set of files, owners, runs and requests, and
any limit, threshold or bound. Where a property names races that break it (section 4), so
does its theorem, by the same history variable.

* `StorageQuota_proofs`: lemmas on `Total`, the sum of byte weights. It is defined as the
  number of pairs `<<f, i>>` with `i <= w[f]`, so that it needs no recursion: it is a
  natural, changes by the difference when one weight changes, splits over disjoint
  weights, and bounds each weight.
* `Components_proofs`: the abstract ledger, and the components of `Services`. The latter are
  instances, so that each is first proved about by itself, under its `NamesAssumption`
  (`None` is not one of the names, bounds are numbers), which `Services` assumes of its
  instances and the runs evaluate. `EachBehaves` says that the composition implements each
  of the eight specifications, its other components being stuttering steps, and carries the
  results over; they hold whether or not the component is in focus.
  * `LedgerTypeCorrect`, `LedgerNeverExceedsLimit`: the ledger is well typed and never exceeds
    its limit, for any set of files and any limit (`LimitIsNat` is a hypothesis, since the
    module is instantiated with another module's limit). Types and bound are inductive
    together.
  * `RequestScope`: `ScopeAlwaysHolds`, `ListsOwnRows`. `PoolOK`: a connection runs the
    transaction of one request, a request is in one, and the transaction-local setting is
    that request's tenant once it is set and none otherwise. `FramesOK`: from the middleware
    on a frame is its request's, the carrier of a created row is a copy made after the
    commit, and a job runs in its carrier's frame.
  * `UsageSync`: `UsageAlwaysReported`, with the types: the sum that a report carries is a
    cardinality, as the ledger's sums are, and bounded by that of all rows. What a run is about to mark was answered
    (`AnsweredOK`) holds however runs overlap. That a row is on the bill once needs that the
    run is alone: then it has each metric once and nobody else marks the rows it is
    reporting (`AloneOK`), and a row on the bill is marked or is one that this run marks
    next (`CountedOK`). The two are guarded by the history of overlapping and broken-off
    runs, as the property is.
  * `BillingAccount`: `AccountAlwaysHolds`. `MadeOK`: with the provider's key the first
    customer made is the only one, as every later attempt finds the key. `KeysOK`: what a
    subscription's key answers was answered as done before, so that a repeated call falls
    under `again`; with `SubsOK`, that nothing was asked of a subscription before its session
    was paid, this makes `AnswersHold` inductive. That the type invariant's bound on events
    holds (`SendingOK`) is an argument about cardinalities of what was sent.
  * `NotificationFanout`: `MailsAlwaysHold`. At most one run has a job's lock, and the
    rows of what runs send are there (`RunsOK`); a delivery's job is added after its row and
    only once its call has written all of them (`JobsOK`); what the gate saw lies between those who had opted out
    throughout and those who ever had, and the recipients still to come have no rows
    (`CallsOK`).
  * `LiveNotifications`: `BridgeAlwaysExact`. The Map has a Set exactly while Redis is, or
    will be, subscribed; the Set has each open connection, and is empty only while the
    `start()` that made it awaits SUBSCRIBE (`MapOK`, guarded by the race as the property
    is). What holds in every race is that a connection joins one Set, once (`JoinedOnce`),
    and has at most one command on its way to Redis (`WireOK`), so that no emitter is
    counted twice and one removal is enough.
  * `ErrorWindow`, `WorkerHealth`, `HealthReport`: `ObservedAlwaysTrue`. An eviction shifts
    every place, so the index and the buffer are inductive only as inverses of each other
    (`PlacesOK`). The commands of a worker are taken in order and only its timer makes
    another, which a stop clears first: its last one is the deletion (`WorkerOK`). What a
    probe says may be as old as the probe (`ProbesRecent`), and a cached result as old as
    the longest fan-out and the cache's life together (`CacheRecent`), however many fan-outs
    overwrite each other's results.
* `FilesUpload_proofs`:
  * `TypeCorrect`, `TombstonesStay` and `UsedAlwaysCovers` hold with every race, failure
    and crash in the model. The last rests on what each transaction decides anew from the
    row it changes: bytes are added with the row's turning `uploaded`, and taken off only
    for a row that was counted and is so no more.
  * `SerialQuotaExact`, `SerialWithinLimit`, `SerialUploadsKept`, `SerialStoredHaveObject`
    and `SerialImplementsLedger` hold under
    `Serial == OneCompletePerFile /\ ~StatementsMayFail`: no two requests complete the same
    file at once, and the DELETE whose failure admin-sign swallows does not fail. Without
    the first the properties are false (`FilesUpload_reject`); without the second, bytes
    are released that a row still holds. The limit and the refinement also need
    `PutsWithinClaim`: the store bounds a PUT by the signed size. The local adapter
    does (`storage/adapters/local/signing.ts`); the S3 adapters do not use
    `maxByteSize` (`shared-s3.ts:119-133`), so with S3 an object larger than its claim,
    but within its relation's maximum, is charged at its own size and can take a tenant
    past its limit.
  * The inductive invariant is `Shape == TypeInv /\ InsertsOnce /\ RowsOK /\ CallsOK /\
    CallsDisjoint /\ AdminOK`. `QuotaExact` alone is not inductive: that a completing call
    may move `reserved` bytes from pending to used needs that the row still has the size
    the call read (`CallsOK`), that no other call holds the same file (`CallsDisjoint`),
    and that the admin's undo releases bytes that are its own (`AdminOK`). `ClaimsOK`
    adds that what a call is about to charge is at most what it holds, which is what
    keeps the limit. `ObjectInv` is for the objects: an object is only erased for a row that
    has left (`ErasingOK`), and what a call verified is there when it commits
    (`VerifiedOK`).
  * `SerialImplementsLedger` is the refinement, action by action: sign is the ledger's
    `Grant` (of an admin `GrantUnowned`, then `Assign`), a completion `Settle`, a reject or a
    reaper's run `Release`, a tombstone `Refund` or `Disown`, and the rest stutter.
    An admin's rollback after a failed insert and a reject of a tombstone are
    `ReleaseUnowned`. `QuotaExact` is what turns the arithmetic of the counters into the
    ledger's sums of holdings.
* `FilesTransform_proofs`, `ManifestsAlwaysHold`: `ManifestHasObjects` and `OneManifest`
  need that what a manifest names was put by a run that has not ended (`ManifestsOK`).
  `UsedExact` needs more: a run adds the difference to the manifest it read minutes ago,
  which is right if it is the only run (`OneRun`, from the job's lock) and the row is as it
  left it (`RowAsLeft`). Each part is guarded by the races that end it.
* `FilesOwnership_proofs`, `OneFileAlways`, `BytesAlwaysCharged`, `FilesAlwaysStay`: the
  part of the invariant about locks (`LocksOK`, `AttachOK`, `CascadeOK`) holds in every
  interleaving, since what is locked stays as it was. `OneAttach` says that
  what an attach has locked or will still look at are all the siblings there are, and
  `AloneCascade` the same of a cascade; both are false once a row that was linked after
  the scan may exist, so each is guarded by its race. `AloneAttach` did not go through at
  first: a file on its way to another owner may be replaced where it is. That is the
  race "move", which the model now records.
* `WebhookEndpoints_proofs`:
  * `DeliveriesAlwaysHold`: `attempts` in a row stays in its range although a stalled job's
    two runs compute it from the same read. `Bounded` counts the runs that still may write
    it against the starts of the job. No step leaves a pending row without a sender or a
    job.
  * `AutoDisableAlwaysFires`: the counted deliveries are at most `failures`, and an active
    endpoint has fewer than the threshold (`FailuresOK`), since count and comparison are one
    UPDATE.
  * `FailuresAlwaysCountAndLock`: until a race, a run holds its job's lock (`AloneOK`), a
    counted delivery has no attempts left (`CountedOK`, `ExhaustedOK`), and nobody who read
    the endpoint before its lock is still at work (`LockAlone`).
* `Pages_proofs`. The pages are instances too, and `Pages` assumes each one's
  `NamesAssumption`. The theorems are of each page's own specification; a behaviour of the
  run is one of these with the other pages at rest.
  Four lemmas say what a query of the cache does at a question, an answer, a read and an
  invalidation; what each page's invariant adds is which writes an answer under way, or data
  shown for fresh, may not be older than.
  * `UploadHook`: `UploadsAlwaysShown`, `FilesHandedOverOnce`. A request that can be aborted
    is that of a call that sends its row's bytes (`FlowsOK`), so an abort ends that call and
    no other. Unless a click came too late or a row got a second call, a row has one call at a
    time, and where that call is tells what the row's status may be (`CalmOK`, `FlowAt`): a
    row whose bytes are being sent is shown as uploading, and one whose call has come to hand
    the file over is done and was not handed over before. The widget
    for one file shows the newest row only (`NewestOK`), and once that row is done its file is
    the owner's or its call has only to attach it (`LinkedOK`).
  * `Invitations`: `InvitationsAlwaysHold`, with all parties at once (the run has them one or
    two at a time). No row becomes pending or unused again and none changes its kind
    (`RowsKeep`), so a resend's mode, read once, stays right (`InviteCallOK`). That each
    resend has a key of its own (`ResendsOK`) is what makes giving back *its* key leave the
    others' alone. An answer to the list that is still to come names no withdrawn invitation
    as pending, since invalidation asks anew (`ListOK`).
  * `TenantSession`, `OperatorSession`: `SessionAlwaysHolds`. `SwitchHolds` rests on what a
    session that has a tenant does to a request: it is never completed again, so whoever
    still completes one is older than the choice (`SwitchInv`). One workspace is made because
    the request that creates it found none and nobody else makes one (`WorkspaceInv`). Fresh
    data, and answers to come, are of after the switch or the edit (`LstInv`, `MembersInv`):
    an edit that arrives after it was given up undoes what the page is about to say, and leaves
    nothing promised of that tenant (`EditArrivesStep`).
    An impersonation has no platform role, so it cannot be left for another impersonation
    (`OperatorInv`).
  * The pages of `PagesAsTold`: `PagesAlwaysAsTold`, from the types and one invariant each.
    `SwitchesInv`: a switch whose save nothing overlaps is as the user has set it and no fetch
    is under way, for a save cancels it; without saves the page holds what is stored, but for what
    a save has set that arrived since the page, or its answer, was read (`late`). `PlanInv`: what the card shows for fresh is of what
    was stored when the last cancellation was answered, or later; that cancellation began on
    a card that had data, so its invalidation drops the answer under way. `PanelInv`: an
    endpoint that no successful request has still to report is in the list as it is stored
    (`HooksListed`), and its first secret was shown or is in the answer of a creation whose
    dialog is still open (`SecretsShown`), unless the user left that dialog or was not told. `BellInv`: what the bell shows for fresh are the unread,
    with those that a request has marked whose answer is still to come and without those whose
    signal is (`BellTold`); what is marked was shown, so the query has data and
    its invalidation asks anew (`BellOK`). `ConsoleInv` is of the three screens: `FlagsOK` for the
    tenants', users' and webhooks' flags, which a list and a detail page show with a query
    each: what the operator was told holds until the next call is carried out, no answer
    was read before it, and a call that ends in an error after that leaves nothing told; `RolesCounted`: unless two creations overlapped, only one call is about
    to create a role, and there is room for it, which keeps the roles within their limit;
    `FilesOK`: no answer under way lists a file that the operator was told is deleted.
  * `EventsAlwaysApplied`, `TimeNeverBackwards`, of `BillingWebhooks`: the customer's row
    is that of one of the latest events applied (`CustomerOK`), as the guarded UPDATE compares
    with the row and not with what a run has read; what it compares is fixed when the job is
    added (`JobsOK`). The second theorem needs that times are of the past, for a checkout
    writes the present one.
* `Supervisor_proofs`, `PoolAlwaysWithinMax`, `PoolAlwaysKeepsLimits`: for every
  `CLUSTER_MIN <= CLUSTER_MAX`. The properties are nearly inductive; the work is in the
  lemmas about the counts of serving and draining children for each thing that is done to
  the list (spawn, remove, drain the youngest, raise to the floor).
  `ProcessAlwaysWhole`, of `ProcessLife`: a key that a loaded module declares is answered by
  it, since a later one that declares it too fails the boot (`LoadOK`). The API has one run
  of its shutdown, and where that run is tells what is closed; past the drain no request
  is open (`ApiOK`). The worker may have one for each signal, and what any of them has
  reached past the drain still says that no job is active (`WorkerOK`).

Only model-checked:

* liveness, which is out of the prover's reach as ENABLED is: `TransformDriftHeals`,
  `OrphansReaped`, `PendingDrains`, `NoEventLost`, `FloorRestored`, `ShutdownEnds`,
  `ShutdownExits`, `HealthFresh`;
* the findings' counterexamples, which are of finite behaviours.

Every other property of a passing run is a theorem of section 5, for every value of the
constants, under the premises its cfg has too (`Serial`, `PutsWithinClaim`).

Induction over data is out of reach with the provers at hand, so nothing is proved by it:
sums are cardinalities, and the supervisor's list is counted by its set of indices.

## 6. Not modelled

Read-only queries and presentation; formatting and validation; rendering of e-mails,
catalog and categories; signing and the address checks of webhook targets; the storage
adapters (they appear as atomic put, stat, get and delete); `ScopedDb`'s WHERE clauses,
which repeat what the row policy in `RequestScope` says; one-time payments and Pagar.me's
own API; updates of profiles and tenants; the tenant's role editor, layouts, navigation
and the sidebar; the better-auth library, whose state machine is not in the repository and
appears as the external operators of `Invitations`, `TenantSession` and `OperatorSession`;
logging and tracing.

## 7. Plan

Done: the modules of section 2 and the theorems of section 5, which state every safety and
action property of the passing runs. What is left, most important first:

1. The liveness properties by proof, once a prover takes ENABLED: `FloorRestored` and
   `ShutdownEnds` first, whose measures (children still to spawn, children still to exit) are
   the cardinalities that `Supervisor_proofs` already counts.
2. The parts of the components marked "partly" that keep state: the tenant's role editor,
   updates of profiles and tenants, one-time payments.
