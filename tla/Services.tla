------------------------------ MODULE Services ------------------------------
(***************************************************************************)
(* What the API and the workers do behind the routes: the tenant that a    *)
(* request carries to its statements, events and jobs (RequestScope), the  *)
(* mails of notifications (NotificationFanout), the Redis bridge of their  *)
(* live signal (LiveNotifications), a tenant's account at the payment      *)
(* provider (BillingAccount), its usage (UsageSync), and what an operator  *)
(* reads: the window of errors (ErrorWindow), the workers' keys            *)
(* (WorkerHealth), the report (HealthReport).  They have no table or key   *)
(* in common, so that what holds of each alone holds of them side by side. *)
(* A behaviour moves one of them, the one in focus: a run for all of them  *)
(* is the sum of their runs.                                               *)
(***************************************************************************)
EXTENDS Naturals

CONSTANTS
    Requests, Creates, TenantOf, Ticks, Conns, Slots, Page, StallBound,  \* RequestScope
    Users, Holders, Calls, Addressed, Runs, MaxAttempts,                 \* NotificationFanout
    Notes, Streams, All,                                                 \* LiveNotifications
    Sessions, Prices, Commands, MaxTries, MaxEvents,                     \* BillingAccount
    Records, Metrics, Syncs, MaxQuantity, MaxSecond,                     \* UsageSync
    Keys, Capacity, MaxCount,                                            \* ErrorWindow
    Workers, MaxSent,                                                    \* WorkerHealth
    Contributors, Timeout, Cache, Readers, ReportPage,                   \* HealthReport
    None

VARIABLES
    focus,
    at, frame, conn, rows, listed, carrier, job, slot,
    optedOut, call, mailRow, mailJob, run, firmly, ever,
    note, signal, stream, current, members, wire, listens, tab, bell, marking, missed, raced,
    provider, made, provisioning, customer, session, sub, keys, sent, inbox, arrivals, request,
    done, again, wish,
    metering, second, subscribed, usage, sync, reportKeys, counted, answered, overlapped, broken,
    running, buffer, index, reports, carried, latest,
    life, timer, due, commands, key, lost, gone,
    state, since, cached, handling, probe, wait, value, shown

Scope == INSTANCE RequestScope WITH MaxStalls <- StallBound
Fan == INSTANCE NotificationFanout WITH row <- mailRow, job <- mailJob
Bridge == INSTANCE LiveNotifications WITH Conns <- Streams, conn <- stream, page <- tab
Account == INSTANCE BillingAccount WITH
    Calls <- Commands, MaxAttempts <- MaxTries, job <- provisioning, row <- customer, call <- request
Sync == INSTANCE UsageSync WITH Jobs <- Syncs, job <- sync, keys <- reportKeys
Errors == INSTANCE ErrorWindow
Beats == INSTANCE WorkerHealth WITH sent <- commands
Report == INSTANCE HealthReport WITH Requests <- Readers, Page <- ReportPage, at <- handling

\* What the components take their names and bounds for.
ASSUME NamesAssumption ==
    /\ Scope!NamesAssumption /\ Fan!NamesAssumption /\ Bridge!NamesAssumption
    /\ Account!NamesAssumption /\ Sync!NamesAssumption
    /\ Errors!NamesAssumption /\ Beats!NamesAssumption /\ Report!NamesAssumption

scopeVars == <<at, frame, conn, rows, listed, carrier, job, slot>>
fanVars == <<optedOut, call, mailRow, mailJob, run, firmly, ever>>
bridgeVars == <<note, signal, stream, current, members, wire, listens, tab, bell, marking, missed,
                raced>>
accountVars == <<provider, made, provisioning, customer, session, sub, keys, sent, inbox, arrivals,
                 request, done, again, wish>>
usageVars == <<metering, second, subscribed, usage, sync, reportKeys, counted, answered, overlapped,
               broken>>
errorVars == <<running, buffer, index, reports, carried, latest>>
beatVars == <<life, timer, due, commands, key, lost, gone>>
reportVars == <<state, since, cached, handling, probe, wait, value, shown>>
vars == <<focus, scopeVars, fanVars, bridgeVars, accountVars, usageVars, errorVars, beatVars,
          reportVars>>

Components == {"scope", "mail", "bridge", "account", "usage", "errors", "beats", "report"}

\* Everything but the component c is as it was.
Others(c) ==
    /\ UNCHANGED focus
    /\ IF c = "scope" THEN TRUE ELSE UNCHANGED scopeVars
    /\ IF c = "mail" THEN TRUE ELSE UNCHANGED fanVars
    /\ IF c = "bridge" THEN TRUE ELSE UNCHANGED bridgeVars
    /\ IF c = "account" THEN TRUE ELSE UNCHANGED accountVars
    /\ IF c = "usage" THEN TRUE ELSE UNCHANGED usageVars
    /\ IF c = "errors" THEN TRUE ELSE UNCHANGED errorVars
    /\ IF c = "beats" THEN TRUE ELSE UNCHANGED beatVars
    /\ IF c = "report" THEN TRUE ELSE UNCHANGED reportVars

Init ==
    /\ focus \in Components
    /\ Scope!Init /\ Fan!Init /\ Bridge!Init /\ Account!Init
    /\ Sync!Init /\ Errors!Init /\ Beats!Init /\ Report!Init

Next ==
    \/ focus = "scope" /\ Scope!Next /\ Others("scope")
    \/ focus = "mail" /\ Fan!Next /\ Others("mail")
    \/ focus = "bridge" /\ Bridge!Next /\ Others("bridge")
    \/ focus = "account" /\ Account!Next /\ Others("account")
    \/ focus = "usage" /\ Sync!Next /\ Others("usage")
    \/ focus = "errors" /\ Errors!Next /\ Others("errors")
    \/ focus = "beats" /\ Beats!Next /\ Others("beats")
    \/ focus = "report" /\ Report!Next /\ Others("report")

Spec == Init /\ [][Next]_vars

-----------------------------------------------------------------------------
\* RequestScope: a list answers its own tenant's committed rows.
OwnRows == Scope!OwnRows

\* RequestScope: pooled connections carry no tenant over, answers and jobs follow
\* committed rows, and a job runs in the frame of the request that caused it.
ScopeHolds == focus = "scope" => Scope!ScopeHolds

\* NotificationFanout: no mail is left pending by a call that ended, and the opt-out
\* is honoured as it was around the gate.
MailsHold == focus = "mail" => Fan!MailsHold

\* LiveNotifications: open streams hear what is published, and nothing is held for
\* closed ones.
BridgeExact == focus = "bridge" => Bridge!TypeOK /\ Bridge!BridgeExact

\* BillingAccount: one Stripe customer, and what was answered as done is done.
AccountHolds == focus = "account" => Account!AccountHolds

\* UsageSync: a marked row was in a reported sum, and in one only.
UsageReported == focus = "usage" => Sync!TypeOK /\ Sync!UsageReported

\* ErrorWindow, WorkerHealth, HealthReport: what an operator reads is so: the window
\* and its index agree, a key tells its worker's life, and the cached report does not
\* outlive what it says.
ObservedIsTrue ==
    /\ focus = "errors" => Errors!TypeOK /\ Errors!WindowExact
    /\ focus = "beats" => Beats!TypeOK /\ Beats!KeysTellLife
    /\ focus = "report" => Report!TypeOK /\ Report!OutageShows
=============================================================================
