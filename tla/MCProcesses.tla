---------------------------- MODULE MCProcesses ----------------------------
(***************************************************************************)
(* The processes of a deployment, for TLC: Processes, the keys by which a  *)
(* worker is seen (WorkerHealth) and the report an operator reads          *)
(* (HealthReport).  They meet only through signals, Redis and HTTP, which  *)
(* each module has at its border; a behaviour is of one of them, the one   *)
(* in focus, and one run for the four is the sum of four runs.             *)
(*                                                                         *)
(* ProcessLife: lists of modules with a good, a repeated and a clashing    *)
(* one, a request and a stream, one job, two signals.  WorkerHealth: one   *)
(* worker, whose key no other one touches.  HealthReport: a check that may *)
(* hang beside one with a shorter timeout.                                 *)
(***************************************************************************)
EXTENDS Processes, TLC

CONSTANTS stream, request, j1, w1, c1, c2, page, None

VARIABLES
    focus,
    life, timer, due, sent, key, lost, gone,
    state, since, cached, at, probe, wait, value, shown

ListsOfModules == {<<"auth", "files">>, <<"auth", "files", "auth">>, <<"auth", "clash">>}
KeysOfModules == [auth |-> {"a"}, files |-> {"f"}, clash |-> {"a", "c"}]

Beats == INSTANCE WorkerHealth WITH Workers <- {w1}, MaxSent <- 2
Report == INSTANCE HealthReport WITH
    Contributors <- {c1, c2}, Timeout <- (c1 :> 1) @@ (c2 :> 2), Cache <- 2,
    Requests <- {page}, Page <- page

procVars == <<modules, loaded, handler, api, parent, watched, req, redis, db, call, faulty,
              worker, job, wredis, wcall>>
beatVars == <<life, timer, due, sent, key, lost, gone>>
reportVars == <<state, since, cached, at, probe, wait, value, shown>>
allVars == <<focus, vars, procVars, beatVars, reportVars>>

AllInit == /\ focus \in {"pool", "process", "beats", "report"}
           \* the process has several initial states; one of them will do elsewhere
           /\ Proc!Init /\ (focus # "process" => modules = <<"auth", "files">> /\ parent = "none")
           /\ Init /\ Beats!Init /\ Report!Init

AllNext == \/ /\ focus = "pool" /\ Next
              /\ UNCHANGED <<focus, procVars, beatVars, reportVars>>
           \/ /\ focus = "process" /\ Proc!Next
              /\ UNCHANGED <<focus, vars, beatVars, reportVars>>
           \/ /\ focus = "beats" /\ Beats!Next
              /\ UNCHANGED <<focus, vars, procVars, reportVars>>
           \/ /\ focus = "report" /\ Report!Next
              /\ UNCHANGED <<focus, vars, procVars, beatVars>>

(***************************************************************************)
(* Each module's own fairness, asked while that module is in focus.        *)
(***************************************************************************)
PoolFairness ==
    /\ WF_vars(focus = "pool" /\ ~done /\ Start)
    /\ WF_vars(focus = "pool" /\ ~done /\ TickStep)
    /\ WF_vars(focus = "pool" /\ ~done /\ BackoffFires)
    /\ WF_vars(focus = "pool" /\ ~done /\ PauseFires)
    /\ WF_vars(focus = "pool" /\ ~done /\ ShutdownDeadline)
    /\ WF_vars(focus = "pool" /\ ~done /\ \E i \in DOMAIN children : KillTimerFires(i))
    /\ WF_vars(focus = "pool" /\ ~done /\ \E i \in DOMAIN children : Killed(i) /\ Exit(i))

ProcFairness ==
    /\ WF_procVars(focus = "process" /\ (Proc!LoadModule \/ Proc!BootFails))
    /\ WF_procVars(focus = "process" /\ Proc!Listen)
    /\ WF_procVars(focus = "process" /\ \E s \in {1, 2} : Proc!OrphanSeen(s))
    /\ WF_procVars(focus = "process" /\ Proc!Deadline)

BeatFairness ==
    /\ WF_beatVars(focus = "beats" /\ Beats!Tick)
    /\ WF_beatVars(focus = "beats" /\ Beats!Publish(w1))
    /\ WF_beatVars(focus = "beats" /\ (Beats!Executed(w1) \/ Beats!Fails(w1)))

ReportFairness ==
    /\ WF_reportVars(focus = "report" /\ Report!Tick)
    /\ WF_reportVars(focus = "report" /\ Report!Settle(page))
    /\ WF_reportVars(focus = "report" /\ Report!Answer(page))
    /\ \A c \in {c1, c2} : /\ WF_reportVars(focus = "report" /\ Report!TimesOut(page, c))
                           /\ WF_reportVars(focus = "report" /\ Report!CheckDone(page, c))

AllSpec == /\ AllInit /\ [][AllNext]_allVars
           /\ PoolFairness /\ ProcFairness /\ BeatFairness /\ ReportFairness

-----------------------------------------------------------------------------
\* ProcessLife: an API shutdown that has begun ends, whoever does not answer.
ShutdownExits == focus = "process" => Proc!ShutdownExits

\* WorkerHealth and HealthReport: the page that shows the workers and the checks
\* is always answered, and a worker that was killed disappears from it.
HealthFresh == /\ focus = "beats" => Beats!KilledFades
               /\ focus = "report" => Report!HealthAnswers
=============================================================================
