---------------------------- MODULE HealthReport ----------------------------
(***************************************************************************)
(* GET /health/detailed: the aggregator that runs every contributor under  *)
(* a timeout and keeps the rollup for a few seconds, requests that find    *)
(* it or run the probes at the same time, and the operator's page that     *)
(* asks again and again.  A contributor that hangs is one whose database,  *)
(* Redis or object store does not answer; one that does not hang finishes  *)
(* within its timeout.                                                     *)
(***************************************************************************)
EXTENDS Naturals, FiniteSets

CONSTANTS
    Contributors,   \* the built-in ones and those the modules declare
    Timeout,        \* [Contributors -> Nat], in units of time
    Cache,          \* CACHE_TTL_MS, in the same units
    Requests,       \* requests to the endpoint
    Page,           \* the one of them that the operator's page sends
    None

VARIABLES
    state,      \* what a contributor's check would find: "healthy", "unhealthy" or "hung"
    since,      \* for how long that has been so
    cached,     \* the aggregator's cache: the results, units until it expires
    at,         \* a request: "idle", "probing" or "composing"
    probe,      \* the results of its own fan-out; "running" until one is there
    wait,       \* for how long the fan-out has run
    value,      \* the results it answers with
    shown       \* what the page shows

vars == <<state, since, cached, at, probe, wait, value, shown>>

Longest == CHOOSE t \in {Timeout[c] : c \in Contributors} : \A c \in Contributors : Timeout[c] <= t
Bound == Longest + Cache

\* What names and bounds are taken for: theorems need it, the instance has it.
NamesAssumption ==
    /\ Timeout \in [Contributors -> Nat] /\ Cache \in Nat \ {0}
    /\ \E c \in Contributors : \A d \in Contributors : Timeout[d] <= Timeout[c]

Results == [Contributors -> {"healthy", "unhealthy"}]
Idle == [c \in Contributors |-> "none"]

Init ==
    /\ state = [c \in Contributors |-> "healthy"]
    /\ since = [c \in Contributors |-> 0]
    /\ cached = None
    /\ at = [q \in Requests |-> "idle"]
    /\ probe = [q \in Requests |-> Idle]
    /\ wait = [q \in Requests |-> 0]
    /\ value = [q \in Requests |-> None]
    /\ shown = "loading"

Rollup(r) == IF \E c \in Contributors : r[c] = "unhealthy" THEN "unhealthy" ELSE "healthy"
Running(q, c) == at[q] = "probing" /\ probe[q][c] = "running"
AllIn(q) == at[q] = "probing" /\ \A c \in Contributors : ~Running(q, c)

-----------------------------------------------------------------------------
\* aggregate(): a live cache is the answer ...
Hit_Renews(q) ==
    /\ at[q] = "idle" /\ cached # None
    /\ at' = [at EXCEPT ![q] = "composing"]
    /\ value' = [value EXCEPT ![q] = cached.value]
    /\ cached' = [cached EXCEPT !.left = Cache]
    /\ UNCHANGED <<state, since, probe, wait, shown>>
Hit(q) ==
    /\ at[q] = "idle" /\ cached # None
    /\ at' = [at EXCEPT ![q] = "composing"]
    /\ value' = [value EXCEPT ![q] = cached.value]
    /\ UNCHANGED <<state, since, cached, probe, wait, shown>>

\* ... otherwise the request runs all the checks, also when another one does.
Miss(q) ==
    /\ at[q] = "idle" /\ cached = None
    /\ at' = [at EXCEPT ![q] = "probing"]
    /\ probe' = [probe EXCEPT ![q] = [c \in Contributors |-> "running"]]
    /\ wait' = [wait EXCEPT ![q] = 0]
    /\ UNCHANGED <<state, since, cached, value, shown>>

CheckDone(q, c) ==
    /\ Running(q, c) /\ state[c] # "hung"
    /\ probe' = [probe EXCEPT ![q][c] = state[c]]
    /\ UNCHANGED <<state, since, cached, at, wait, value, shown>>

\* runWithTimeout: the race resolves to a result, and a late one is ignored.
\* A check that was started while the dependency hung may never come back.
TimesOut_Never(q, c) == FALSE /\ Running(q, c) /\ UNCHANGED vars
TimesOut(q, c) ==
    /\ Running(q, c) /\ wait[q] = Timeout[c]
    /\ state[c] = "hung" \/ since[c] <= wait[q]
    /\ probe' = [probe EXCEPT ![q][c] = "unhealthy"]
    /\ UNCHANGED <<state, since, cached, at, wait, value, shown>>

Settle(q) ==
    /\ AllIn(q)
    /\ cached' = [value |-> probe[q], left |-> Cache]
    /\ value' = [value EXCEPT ![q] = probe[q]]
    /\ at' = [at EXCEPT ![q] = "composing"]
    /\ probe' = [probe EXCEPT ![q] = Idle] /\ wait' = [wait EXCEPT ![q] = 0]
    /\ UNCHANGED <<state, since, shown>>

\* The rest of the handler reads queues, heartbeats and recent errors now.
Answer(q) ==
    /\ at[q] = "composing"
    /\ at' = [at EXCEPT ![q] = "idle"]
    /\ value' = [value EXCEPT ![q] = None]
    /\ shown' = IF q = Page THEN Rollup(value[q]) ELSE shown
    /\ UNCHANGED <<state, since, cached, probe, wait>>

\* The page's request is refused or does not reach the server.
PageFails ==
    /\ at[Page] = "idle" /\ shown # "error"
    /\ shown' = "error"
    /\ UNCHANGED <<state, since, cached, at, probe, wait, value>>

Changes(c) ==
    /\ \E s \in {"healthy", "unhealthy", "hung"} \ {state[c]} : state' = [state EXCEPT ![c] = s]
    /\ since' = [since EXCEPT ![c] = 0]
    /\ UNCHANGED <<cached, at, probe, wait, value, shown>>

\* Timers fire on time, and what is only computation takes none.
Tick ==
    /\ \A q \in Requests : ~AllIn(q) /\ \A c \in Contributors : ~(Running(q, c) /\ wait[q] >= Timeout[c])
    /\ since' = [c \in Contributors |-> IF since[c] = Bound THEN Bound ELSE since[c] + 1]
    /\ wait' = [q \in Requests |-> IF at[q] = "probing" THEN wait[q] + 1 ELSE 0]
    /\ cached' = IF cached = None \/ cached.left = 1 THEN None ELSE [cached EXCEPT !.left = @ - 1]
    /\ UNCHANGED <<state, at, probe, value, shown>>

Handles(q) ==
    \/ Hit(q) \/ Miss(q) \/ Settle(q) \/ Answer(q)
    \/ \E c \in Contributors : CheckDone(q, c) \/ TimesOut(q, c)
Next ==
    \/ Tick \/ PageFails
    \/ \E c \in Contributors : Changes(c)
    \/ \E q \in Requests : Handles(q)
Spec == Init /\ [][Next]_vars

\* Time passes, timers fire and handlers run on; a check that hangs need not end.
Fairness ==
    /\ WF_vars(Tick)
    /\ \A q \in Requests :
         /\ WF_vars(Settle(q)) /\ WF_vars(Answer(q))
         /\ \A c \in Contributors : WF_vars(TimesOut(q, c)) /\ WF_vars(CheckDone(q, c))
FairSpec == Spec /\ Fairness

-----------------------------------------------------------------------------
TypeOK ==
    /\ state \in [Contributors -> {"healthy", "unhealthy", "hung"}]
    /\ since \in [Contributors -> 0..Bound]
    /\ cached = None \/ cached \in [value : Results, left : 1..Cache]
    /\ at \in [Requests -> {"idle", "probing", "composing"}]
    /\ probe \in [Requests -> [Contributors -> {"none", "running", "healthy", "unhealthy"}]]
    /\ wait \in [Requests -> 0..Longest]
    /\ \A q \in Requests : value[q] = None \/ value[q] \in Results
    /\ shown \in {"loading", "error", "healthy", "unhealthy"}

(* The cache answers for a bounded time only: when a dependency has been   *)
(* down, or up, for as long as the longest timeout and the cache's life    *)
(* together, the report in the cache says so, however requests that ran    *)
(* the probes side by side have overwritten it.                            *)
OutageShows ==
    cached # None =>
      \A c \in Contributors :
        since[c] = Bound => cached.value[c] = (IF state[c] = "healthy" THEN "healthy" ELSE "unhealthy")

(* Every request to the endpoint is answered, also while a dependency      *)
(* hangs for good.                                                         *)
HealthAnswers == \A q \in Requests : at[q] # "idle" ~> at[q] = "idle"
=============================================================================
