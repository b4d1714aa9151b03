---------------------------- MODULE MCServices -----------------------------
(***************************************************************************)
(* Services for TLC.  Two requests that create and one that lists, for two *)
(* tenants on two connections, and a scheduled job.  Two users, one of     *)
(* whom may have the role, and two mails to an address alone.  Two         *)
(* checkouts of one plan.  Three connections to the stream.  Two workers,  *)
(* and two requests that share the report's cache.                         *)
(***************************************************************************)
EXTENDS Services, TLC

CONSTANTS r1, r2, r3, t1, t2, tick, k1, k2, slot1,   \* RequestScope
          u1, u2, n1, a1, a2, run1, run2,  \* NotificationFanout
          e1, e2, e3,                      \* LiveNotifications
          s1, s2, p1, b1,                  \* BillingAccount
          m1, m2, j1, j2,                  \* UsageSync
          x1, x2, x3, x4,                  \* ErrorWindow
          w1, w2,                          \* WorkerHealth
          c1, c2, page, curl               \* HealthReport

TenantOfRequest == (r1 :> t1) @@ (r2 :> t2) @@ (r3 :> t1)
TimeoutOfProbe == (c1 :> 1) @@ (c2 :> 2)

\* Bound: a behaviour has notifications, whose mails one worker sends, or it has mails to
\* an address alone, which two runs may send at once.
OneKindOfMail ==
    \/ (\A m \in Addressed : mailJob[m] = Fan!NoJob) /\ run[run2] = Fan!IdleRun
    \/ optedOut = {} /\ \A c \in Calls : call[c] = Fan!NoCall

\* Bound: who mutes a category does so before the gate of the one call has been passed;
\* nothing reads it later.
MutedBeforeGate == optedOut' = optedOut \/ \E c \in Calls : call[c].pc \in {"idle", "gate"}

\* Where a component has several initial states, one of them will do while it is
\* not in focus.
MCInit ==
    /\ Init
    /\ focus # "account" => provider = "stripe"
    /\ focus # "usage" => metering /\ subscribed

MCNext == Next /\ OneKindOfMail' /\ MutedBeforeGate

MCSpec == MCInit /\ [][MCNext]_vars
=============================================================================
