----------------------------- MODULE Supervisor -----------------------------
(***************************************************************************)
(* The API cluster supervisor of apps/api (core/supervisor-core.ts): it    *)
(* keeps between ClusterMin and ClusterMax processes serving, drains one   *)
(* when the CPU idles, respawns the ones that crash, with a backoff and a  *)
(* pause against crash loops, and drains them all on shutdown.  The class  *)
(* runs on one thread; what interleaves are its timers, the exits of its   *)
(* children, the sampling tick and the signal.                             *)
(*                                                                         *)
(* Time is what the timers and thresholds tell apart: a child is young for *)
(* crashFastMs, a scale action is cooled down after cooldownMs, a crash    *)
(* leaves the sliding window after crashWindowMs.                          *)
(***************************************************************************)
EXTENDS Naturals, SequencesExt

CONSTANTS
    ClusterMin, ClusterMax,        \* CLUSTER_MIN and CLUSTER_MAX
    MaxDraining,     \* bound: children draining at once
    MaxBackoffs,     \* bound: backoff timers armed at once
    MaxPauses        \* bound: pause timers armed at once

ASSUME LimitsAssumption == ClusterMin \in Nat \ {0} /\ ClusterMax \in Nat /\ ClusterMin <= ClusterMax
ASSUME BoundsAssumption == {MaxDraining, MaxBackoffs, MaxPauses} \subseteq Nat \ {0}

VARIABLES
    children,      \* the tracked children, in spawn order
    started,       \* start() has run
    paused,
    shuttingDown,
    cooled,        \* cooldownMs have passed since lastScaleAt
    crashes,       \* crashTimes within the window
    backoffs,      \* armed timers of crashBackoffMs
    pauses,        \* armed timers of crashPauseMs
    deadline,      \* the shutdown timer is armed
    done           \* onShutdownComplete has been called: the process exits

vars == <<children, started, paused, shuttingDown, cooled, crashes, backoffs, pauses, deadline, done>>

\* A draining child has been told so; its kill timer is armed then.
Child == {c \in [young : BOOLEAN, draining : BOOLEAN, killTimer : BOOLEAN,
                 signal : {"none", "SIGTERM", "SIGKILL"}] :
            (c.killTimer => c.draining) /\ (c.draining => c.signal # "none")}
NewChild == [young |-> TRUE, draining |-> FALSE, killTimer |-> FALSE, signal |-> "none"]

\* liveCount: the children that accept traffic.
Live(cs) == {i \in DOMAIN cs : ~cs[i].draining}
LiveCount(cs) == Cardinality(Live(cs))
Draining(cs) == Len(cs) - LiveCount(cs)

CrashLimit == ClusterMax * 3

Init ==
    /\ children = <<>>
    /\ started = FALSE /\ paused = FALSE /\ shuttingDown = FALSE
    /\ cooled = TRUE
    /\ crashes = 0 /\ backoffs = 0 /\ pauses = 0
    /\ deadline = FALSE /\ done = FALSE

\* Mutant: the shutdown flag is not looked at.
EnsureFloor_AlwaysSpawns(cs, isPaused) ==
    IF isPaused \/ LiveCount(cs) >= ClusterMin THEN cs
    ELSE cs \o [i \in 1..(ClusterMin - LiveCount(cs)) |-> NewChild]

\* Mutant: one respawn per call, wanted or not.
EnsureFloor_OnePerCall(cs, isPaused) ==
    IF shuttingDown \/ isPaused THEN cs ELSE Append(cs, NewChild)

\* Mutant: the pause is not looked at.
EnsureFloor_IgnoresPause(cs, isPaused) ==
    IF shuttingDown \/ LiveCount(cs) >= ClusterMin THEN cs
    ELSE cs \o [i \in 1..(ClusterMin - LiveCount(cs)) |-> NewChild]

\* ensureFloor: spawn until ClusterMin children are live.
EnsureFloor(cs, isPaused) ==
    IF shuttingDown \/ isPaused \/ LiveCount(cs) >= ClusterMin THEN cs
    ELSE cs \o [i \in 1..(ClusterMin - LiveCount(cs)) |-> NewChild]

-----------------------------------------------------------------------------
Start ==
    /\ ~started
    /\ started' = TRUE
    /\ children' = [i \in 1..ClusterMin |-> NewChild]
    /\ UNCHANGED <<paused, shuttingDown, cooled, crashes, backoffs, pauses, deadline, done>>

\* A child exits while the supervisor shuts down; the last one completes it.
ExitInShutdown(i) ==
    /\ shuttingDown
    /\ children' = RemoveAt(children, i)
    /\ done' = (children' = <<>>)
    /\ UNCHANGED <<started, paused, shuttingDown, cooled, crashes, backoffs, pauses, deadline>>

\* A drained child exits, its kill timer is cleared with it.
ExitDrained(i) ==
    /\ ~shuttingDown /\ children[i].draining
    /\ children' = RemoveAt(children, i)
    /\ UNCHANGED <<started, paused, shuttingDown, cooled, crashes, backoffs, pauses, deadline, done>>

\* A young child crashes: respawn after a backoff, or pause when there have
\* been too many.
Crash(i) ==
    /\ ~shuttingDown /\ ~children[i].draining /\ children[i].young
    /\ crashes < CrashLimit + ClusterMax
    /\ crashes' = crashes + 1
    /\ children' = RemoveAt(children, i)
    /\ IF crashes' >= CrashLimit
       THEN /\ pauses < MaxPauses
            /\ paused' = TRUE
            /\ pauses' = pauses + 1
            /\ UNCHANGED backoffs
       ELSE /\ backoffs < MaxBackoffs
            /\ backoffs' = backoffs + 1
            /\ UNCHANGED <<paused, pauses>>
    /\ UNCHANGED <<started, shuttingDown, cooled, deadline, done>>

\* A settled child exits unexpectedly: respawn at once.
ExitSettled(i) ==
    /\ ~shuttingDown /\ ~children[i].draining /\ ~children[i].young
    /\ children' = EnsureFloor(RemoveAt(children, i), paused)
    /\ UNCHANGED <<started, paused, shuttingDown, cooled, crashes, backoffs, pauses, deadline, done>>

Exit(i) == ExitInShutdown(i) \/ ExitDrained(i) \/ Crash(i) \/ ExitSettled(i)

-----------------------------------------------------------------------------
BackoffFires ==
    /\ backoffs > 0
    /\ backoffs' = backoffs - 1
    /\ children' = EnsureFloor(children, paused)
    /\ UNCHANGED <<started, paused, shuttingDown, cooled, crashes, pauses, deadline, done>>

\* Mutant: the timer forgets the crashes but not the pause.
PauseFires_StaysPaused ==
    /\ pauses > 0
    /\ pauses' = pauses - 1
    /\ crashes' = 0
    /\ children' = EnsureFloor(children, paused)
    /\ UNCHANGED <<started, paused, shuttingDown, cooled, backoffs, deadline, done>>

PauseFires ==
    /\ pauses > 0
    /\ pauses' = pauses - 1
    /\ paused' = FALSE
    /\ crashes' = 0
    /\ children' = EnsureFloor(children, FALSE)
    /\ UNCHANGED <<started, shuttingDown, cooled, backoffs, deadline, done>>

\* The drain has timed out.
KillTimerFires(i) ==
    /\ children[i].killTimer
    /\ children' = [children EXCEPT ![i].killTimer = FALSE, ![i].signal = "SIGKILL"]
    /\ UNCHANGED <<started, paused, shuttingDown, cooled, crashes, backoffs, pauses, deadline, done>>

\* Mutant: the kill timer is armed, the SIGTERM not sent.
DrainOne_NoSignal(cs) ==
    LET newest == SelectLastInSeq(cs, LAMBDA c : ~c.draining)
    IN [cs EXCEPT ![newest].draining = TRUE, ![newest].killTimer = TRUE]

\* drainOne: the newest live child.
DrainOne(cs) ==
    LET newest == SelectLastInSeq(cs, LAMBDA c : ~c.draining)
    IN [cs EXCEPT ![newest].draining = TRUE, ![newest].killTimer = TRUE, ![newest].signal = "SIGTERM"]

\* Mutant: the decision counts the draining children as well.
Tick_CountsDraining(util) ==
    /\ started /\ ~shuttingDown /\ ~paused
    /\ LET cs == EnsureFloor(children, FALSE)
           live == Len(cs)
       IN \/ /\ util = "high" /\ live < ClusterMax /\ cooled
             /\ children' = Append(cs, NewChild)
             /\ cooled' = FALSE
          \/ /\ util = "low" /\ live > ClusterMin /\ cooled /\ LiveCount(cs) > 0
             /\ Draining(cs) < MaxDraining
             /\ children' = DrainOne(cs)
             /\ cooled' = FALSE
          \/ /\ ~(util = "high" /\ live < ClusterMax /\ cooled)
             /\ ~(util = "low" /\ live > ClusterMin /\ cooled)
             /\ children' = cs
             /\ UNCHANGED cooled
    /\ UNCHANGED <<started, paused, shuttingDown, crashes, backoffs, pauses, deadline, done>>

\* One autoscale decision: restore the floor, then scale by at most one.
Tick(util) ==
    /\ started /\ ~shuttingDown /\ ~paused
    /\ LET cs == EnsureFloor(children, FALSE)
           live == LiveCount(cs)
       IN \/ /\ util = "high" /\ live < ClusterMax /\ cooled
             /\ children' = Append(cs, NewChild)
             /\ cooled' = FALSE
          \/ /\ util = "low" /\ live > ClusterMin /\ cooled
             /\ Draining(cs) < MaxDraining
             /\ children' = DrainOne(cs)
             /\ cooled' = FALSE
          \/ /\ ~(util = "high" /\ live < ClusterMax /\ cooled)
             /\ ~(util = "low" /\ live > ClusterMin /\ cooled)
             /\ children' = cs
             /\ UNCHANGED cooled
    /\ UNCHANGED <<started, paused, shuttingDown, crashes, backoffs, pauses, deadline, done>>

-----------------------------------------------------------------------------
\* Mutant: nothing is done about a child that does not drain.
Shutdown_NoDeadline ==
    /\ started /\ ~shuttingDown
    /\ shuttingDown' = TRUE
    /\ children' = [i \in DOMAIN children |->
                      [children[i] EXCEPT !.signal = IF @ = "none" THEN "SIGTERM" ELSE @]]
    /\ done' = (children = <<>>)
    /\ deadline' = FALSE
    /\ UNCHANGED <<started, paused, cooled, crashes, backoffs, pauses>>

\* SIGTERM or SIGINT: every child is told to drain.
Shutdown ==
    /\ started /\ ~shuttingDown
    /\ shuttingDown' = TRUE
    /\ children' = [i \in DOMAIN children |->
                      [children[i] EXCEPT !.signal = IF @ = "none" THEN "SIGTERM" ELSE @]]
    /\ done' = (children = <<>>)
    /\ deadline' = (children # <<>>)
    /\ UNCHANGED <<started, paused, cooled, crashes, backoffs, pauses>>

ShutdownDeadline ==
    /\ deadline
    /\ deadline' = FALSE
    /\ children' = [i \in DOMAIN children |-> [children[i] EXCEPT !.signal = "SIGKILL"]]
    /\ done' = TRUE
    /\ UNCHANGED <<started, paused, shuttingDown, cooled, crashes, backoffs, pauses>>

\* Time passes.
Settle(i) ==
    /\ children[i].young
    /\ children' = [children EXCEPT ![i].young = FALSE]
    /\ UNCHANGED <<started, paused, shuttingDown, cooled, crashes, backoffs, pauses, deadline, done>>

CoolDown ==
    /\ ~cooled
    /\ cooled' = TRUE
    /\ UNCHANGED <<children, started, paused, shuttingDown, crashes, backoffs, pauses, deadline, done>>

CrashLeavesWindow ==
    /\ crashes > 0
    /\ crashes' = crashes - 1
    /\ UNCHANGED <<children, started, paused, shuttingDown, cooled, backoffs, pauses, deadline, done>>

-----------------------------------------------------------------------------
Utilizations == {"high", "low", "between"}

TickStep == \E util \in Utilizations : Tick(util)

Timers == BackoffFires \/ PauseFires \/ ShutdownDeadline
Killed(i) == children[i].signal = "SIGKILL"

\* The process exits when the shutdown has completed.
Next ==
    /\ ~done
    /\ \/ Start \/ TickStep \/ Timers \/ Shutdown
       \/ \E i \in DOMAIN children : Exit(i) \/ KillTimerFires(i) \/ Settle(i)
       \/ CoolDown \/ CrashLeavesWindow

Spec == Init /\ [][Next]_vars

\* setInterval ticks, armed timers fire, and a child that got SIGKILL exits.
Fairness ==
    /\ WF_vars(~done /\ Start) /\ WF_vars(~done /\ TickStep)
    /\ WF_vars(~done /\ BackoffFires) /\ WF_vars(~done /\ PauseFires)
    /\ WF_vars(~done /\ ShutdownDeadline)
    /\ WF_vars(~done /\ \E i \in DOMAIN children : KillTimerFires(i))
    /\ WF_vars(~done /\ \E i \in DOMAIN children : Killed(i) /\ Exit(i))

FairSpec == Spec /\ Fairness

-----------------------------------------------------------------------------
TypeOK ==
    /\ children \in Seq(Child)
    /\ {started, paused, shuttingDown, cooled, deadline, done} \subseteq BOOLEAN
    /\ crashes \in 0..(CrashLimit + ClusterMax)
    /\ backoffs \in 0..MaxBackoffs
    /\ pauses \in 0..MaxPauses

\* The pool never serves with more than CLUSTER_MAX processes, however ticks,
\* backoff timers, pause timers and exits that respawn meet (supervisor.ts:
\* "within [CLUSTER_MIN, CLUSTER_MAX]").
LiveWithinMax == LiveCount(children) <= ClusterMax

\* Nothing is spawned once the supervisor shuts down: no timer armed before
\* the signal brings a process back (supervisor-core.ts, shutdown).
NoSpawnInShutdown == [][shuttingDown => Len(children') <= Len(children)]_vars

\* Scaling down never takes the serving pool below CLUSTER_MIN, even while
\* earlier ones still drain (tick: "decide on live count").
ScaleDownKeepsFloor ==
    [][Draining(children') > Draining(children) => LiveCount(children') >= ClusterMin]_vars

\* While a crash loop is paused nothing is spawned, by whichever path.
PauseHaltsRespawns ==
    [][paused /\ paused' => Len(children') <= Len(children)]_vars

\* The tracked children are well-formed, and never more than CLUSTER_MAX of them
\* serve, however ticks, timers and exits that respawn meet.
PoolWithinMax == TypeOK /\ LiveWithinMax

\* Nothing is spawned in a shutdown or during a crash loop's pause, and a scale-down
\* leaves CLUSTER_MIN children that serve.
PoolKeepsLimits == NoSpawnInShutdown /\ PauseHaltsRespawns /\ ScaleDownKeepsFloor

\* The floor comes back: after any crashes, and after a crash loop's pause, which
\* only a timer can end (ticks return early while paused).
FloorRestored == started /\ LiveCount(children) < ClusterMin ~> LiveCount(children) >= ClusterMin \/ shuttingDown

\* A shutdown ends, whether or not the children drain.
ShutdownEnds == shuttingDown ~> done

=============================================================================
