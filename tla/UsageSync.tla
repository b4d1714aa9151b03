----------------------------- MODULE UsageSync -----------------------------
(***************************************************************************)
(* Metered usage in packages/modules/billing: record-usage writes rows,    *)
(* the billing-sync-usage job sums the unsynced rows by metric, reports    *)
(* each sum to the payment provider and marks the rows.  The report and    *)
(* the mark are two steps with nothing around them; rows are inserted all  *)
(* the while, jobs overlap, break off and are run again.                   *)
(*                                                                         *)
(* The rows are those of one tenant.  The provider is Stripe, modelled by  *)
(* what it does with an idempotency key, or one that has no reportUsage.   *)
(***************************************************************************)
EXTENDS Integers, FiniteSets

CONSTANTS
    Records,       \* ids of usage rows
    Metrics,       \* what is metered
    Jobs,          \* runs of the job, each of them once
    MaxQuantity,   \* bound: a row's quantity
    MaxSecond,     \* bound: seconds that pass
    None           \* no row, no metric

VARIABLES
    metering,      \* the provider's adapter has a reportUsage
    second,        \* the clock, at the resolution of a report's timestamp
    subscribed,    \* the customer's row has a subscription id
    usage,         \* usage_records
    job,           \* locals of the job's runs
    keys,          \* Stripe: the quantity first sent under each idempotency key
    counted,       \* Stripe: the reports that were added to the bill
    answered,      \* history: the reports that were answered with a usage record
    overlapped,    \* history: two runs have been at work at once
    broken         \* history: a counted report was not marked by its run

vars == <<metering, second, subscribed, usage, job, keys, counted, answered, overlapped, broken>>
provider == <<keys, counted>>
history == <<answered, overlapped, broken>>

\* What names and bounds are taken for: theorems need it, the instances have it.
NamesAssumption ==
    /\ None \notin Metrics /\ IsFiniteSet(Records)
    /\ MaxQuantity \in Nat \ {0} /\ MaxSecond \in Nat \ {0}

NoUsage == [metric |-> None, quantity |-> 0, synced |-> FALSE]
NewJob == [at |-> "new", groups |-> {}, metric |-> None, ids |-> {}, timestamp |-> 0]
Working(j) == job[j].at \notin {"new", "ended"}

Init ==
    /\ metering \in BOOLEAN
    /\ second = 1
    /\ subscribed \in BOOLEAN
    /\ usage = [r \in Records |-> NoUsage]
    /\ job = [j \in Jobs |-> NewJob]
    /\ keys = [s \in 1..MaxSecond |-> 0]
    /\ counted = {} /\ answered = {}
    /\ overlapped = FALSE /\ broken = FALSE

Tick ==
    /\ second < MaxSecond
    /\ second' = second + 1
    /\ UNCHANGED <<metering, subscribed, usage, job, provider, history>>

RecordUsage(r, m, q) ==
    /\ usage[r] = NoUsage
    /\ usage' = [usage EXCEPT ![r] = [metric |-> m, quantity |-> q, synced |-> FALSE]]
    /\ UNCHANGED <<metering, second, subscribed, job, provider, history>>

\* A webhook of the provider's stores the subscription's id.
Subscribes ==
    /\ ~subscribed
    /\ subscribed' = TRUE
    /\ UNCHANGED <<metering, second, usage, job, provider, history>>

-----------------------------------------------------------------------------
Unsynced(m) == {r \in Records : usage[r].metric = m /\ ~usage[r].synced}
Groups == {[metric |-> m, ids |-> Unsynced(m)] : m \in {m \in Metrics : Unsynced(m) # {}}}
\* The sum, as the number of pairs <<r, i>> with i up to the row's quantity.
Quantity(ids) == Cardinality({p \in ids \X (1..MaxQuantity) : p[2] <= usage[p[1]].quantity})

Ended(j) == [job EXCEPT ![j] = [NewJob EXCEPT !.at = "ended"]]
NextGroup(j) == [job EXCEPT ![j].at = "grouping", ![j].metric = None, ![j].ids = {}, ![j].timestamp = 0]

\* The SELECT sums the rows and collects their ids.  No groups, or no reportUsage:
\* the job returns.
Start(j) ==
    /\ job[j].at = "new"
    /\ job' = IF Groups = {} \/ ~metering THEN Ended(j)
              ELSE [job EXCEPT ![j].at = "grouping", ![j].groups = Groups]
    /\ overlapped' = (overlapped \/ \E i \in Jobs \ {j} : Working(i))
    /\ UNCHANGED <<metering, second, subscribed, usage, provider, answered, broken>>

\* The next group, in whatever order they were returned: without a subscription it
\* is passed over, else the report is under way, with this second's timestamp.
LookUp(j) ==
    /\ job[j].at = "grouping"
    /\ \E g \in job[j].groups :
          job' = [job EXCEPT ![j] =
                    [at |-> IF subscribed THEN "reporting" ELSE "grouping",
                     groups |-> job[j].groups \ {g},
                     metric |-> IF subscribed THEN g.metric ELSE None,
                     ids |-> IF subscribed THEN g.ids ELSE {},
                     timestamp |-> IF subscribed THEN second ELSE 0]]
    /\ UNCHANGED <<metering, second, subscribed, usage, provider, history>>

\* The error of one group is logged, and the next one taken.
GroupFails(j) ==
    /\ job[j].at \in {"reporting", "reported"}
    /\ job' = NextGroup(j)
    /\ broken' = (broken \/ job[j].at = "reported")
    /\ UNCHANGED <<metering, second, subscribed, usage, provider, answered, overlapped>>

Report(j) == [job |-> j, ids |-> job[j].ids]

\* createUsageRecord.  The key is the subscription, its first item and the
\* timestamp: whatever the metric, a second report of that second with the same
\* quantity is answered as the first was, and adds nothing.
StripeCounts(j) ==
    LET key == job[j].timestamp
        quantity == Quantity(job[j].ids)
    IN /\ job[j].at = "reporting"
       /\ keys[key] \in {0, quantity}
       /\ counted' = IF keys[key] = 0 THEN counted \cup {Report(j)} ELSE counted
       /\ keys' = [keys EXCEPT ![key] = quantity]
       /\ answered' = answered \cup {Report(j)}
       /\ job' = [job EXCEPT ![j].at = "reported"]
       /\ UNCHANGED <<metering, second, subscribed, usage, overlapped, broken>>

\* A key used again with another quantity is an error.
StripeRefuses(j) ==
    /\ job[j].at = "reporting"
    /\ keys[job[j].timestamp] \notin {0, Quantity(job[j].ids)}
    /\ job' = NextGroup(j)
    /\ UNCHANGED <<metering, second, subscribed, usage, provider, history>>

\* Mutant: the UPDATE takes the rows by metric, whichever were summed.
Mark_ByMetric(j) ==
    /\ job[j].at = "reported"
    /\ usage' = [r \in Records |-> IF r \in Unsynced(job[j].metric)
                                   THEN [usage[r] EXCEPT !.synced = TRUE] ELSE usage[r]]
    /\ job' = NextGroup(j)
    /\ UNCHANGED <<metering, second, subscribed, provider, history>>

\* Mutant: only one of the rows summed is marked.
Mark_OneRow(j) ==
    /\ job[j].at = "reported"
    /\ usage' = [usage EXCEPT ![CHOOSE r \in job[j].ids : TRUE].synced = TRUE]
    /\ job' = NextGroup(j)
    /\ UNCHANGED <<metering, second, subscribed, provider, history>>

\* The UPDATE takes exactly the rows that were summed.
Mark(j) ==
    /\ job[j].at = "reported"
    /\ usage' = [r \in Records |-> IF r \in job[j].ids THEN [usage[r] EXCEPT !.synced = TRUE] ELSE usage[r]]
    /\ job' = NextGroup(j)
    /\ UNCHANGED <<metering, second, subscribed, provider, history>>

Finish(j) ==
    /\ job[j].at = "grouping" /\ job[j].groups = {}
    /\ job' = Ended(j)
    /\ UNCHANGED <<metering, second, subscribed, usage, provider, history>>

\* The worker dies; another of the runs is the job's next attempt.
Break(j) ==
    /\ Working(j)
    /\ job' = Ended(j)
    /\ broken' = (broken \/ job[j].at = "reported")
    /\ UNCHANGED <<metering, second, subscribed, usage, provider, answered, overlapped>>

-----------------------------------------------------------------------------
Next ==
    \/ Tick \/ Subscribes
    \/ \E r \in Records, m \in Metrics, q \in 1..MaxQuantity : RecordUsage(r, m, q)
    \/ \E j \in Jobs : \/ Start(j) \/ LookUp(j) \/ StripeCounts(j) \/ StripeRefuses(j)
                       \/ Mark(j) \/ GroupFails(j) \/ Finish(j) \/ Break(j)

Spec == Init /\ [][Next]_vars

-----------------------------------------------------------------------------
Reports == [job : Jobs, ids : SUBSET Records]

TypeOK ==
    /\ metering \in BOOLEAN /\ second \in 1..MaxSecond /\ subscribed \in BOOLEAN
    /\ usage \in [Records -> [metric : Metrics \cup {None}, quantity : 0..MaxQuantity, synced : BOOLEAN]]
    /\ \A j \in Jobs :
          /\ job[j].at \in {"new", "grouping", "reporting", "reported", "ended"}
          /\ job[j].groups \subseteq [metric : Metrics, ids : SUBSET Records]
          /\ job[j].metric \in Metrics \cup {None}
          /\ job[j].ids \subseteq Records
          /\ job[j].timestamp \in 0..MaxSecond
    /\ keys \in [1..MaxSecond -> 0..(Cardinality(Records) * MaxQuantity)]
    /\ counted \subseteq Reports /\ answered \subseteq Reports
    /\ overlapped \in BOOLEAN /\ broken \in BOOLEAN

\* A row is marked only if it was in a sum that the provider answered, however the
\* inserts fall between the read and the write (sync-usage.ts: "otherwise silently
\* drop their usage from billing"); and it is in two sums on the bill only if a run
\* broke off between its report and its mark, or two runs overlapped.
UsageReported ==
    /\ \A r \in Records : usage[r].synced => \E a \in answered : r \in a.ids
    /\ ~broken /\ ~overlapped =>
          \A a, b \in counted : a # b => a.ids \cap b.ids = {}

\* What is marked as synced is on the bill (sync-usage.ts: "For each group, reports
\* metered usage").
SyncedIsCounted ==
    \A r \in Records : usage[r].synced => \E c \in counted : r \in c.ids

=============================================================================
