---------------------------- MODULE WorkerHealth ----------------------------
(***************************************************************************)
(* How an operator learns which workers live: every worker writes its      *)
(* heartbeat to a Redis key that expires, and the API reads the keys.      *)
(* Time is counted in heartbeat intervals and kept as ages that stop       *)
(* growing at Dead, so that it need not be bounded.                        *)
(***************************************************************************)
EXTENDS Naturals, Sequences

CONSTANTS
    Workers,    \* worker processes, each with an instance id of its own
    MaxSent,    \* bound: commands of one worker on their way to Redis
    None        \* no key

VARIABLES
    life,       \* "off", "up", "stopping", "draining", "stopped" or "killed"
    timer,      \* the interval timer is set
    due,        \* ... and has not published in this interval
    sent,       \* the commands a worker's connection has not had answered, in order
    key,        \* what Redis holds: intervals until it expires, age of the beat
    lost,       \* the last command of the worker failed
    gone        \* history: intervals since the process was killed

vars == <<life, timer, due, sent, key, lost, gone>>

TTL == 2        \* ttlSec, in intervals
Stale == 2
Dead == 5
Older(n) == IF n = Dead THEN Dead ELSE n + 1
Entry == [left : 1..TTL, age : 0..Dead]
\* What names are taken for: theorems need it, the instance has it.
NamesAssumption == None \notin Entry

Beat == [op : {"set"}, age : 0..Dead]
Del == [op |-> "del", age |-> 0]

Init ==
    /\ life = [w \in Workers |-> "off"]
    /\ timer = [w \in Workers |-> FALSE]
    /\ due = [w \in Workers |-> FALSE]
    /\ sent = [w \in Workers |-> <<>>]
    /\ key = [w \in Workers |-> None]
    /\ lost = [w \in Workers |-> FALSE]
    /\ gone = [w \in Workers |-> 0]

-----------------------------------------------------------------------------
Sends(w, c) ==
    /\ Len(sent[w]) < MaxSent
    /\ sent' = [sent EXCEPT ![w] = Append(@, c)]

\* startHeartbeatPublisher, after the workers have attached: one beat at once.
Start(w) ==
    /\ life[w] \in {"off", "stopped", "killed"} /\ sent[w] = <<>>
    /\ life' = [life EXCEPT ![w] = "up"]
    /\ timer' = [timer EXCEPT ![w] = TRUE]
    /\ Sends(w, [op |-> "set", age |-> 0])
    /\ gone' = [gone EXCEPT ![w] = 0]
    /\ lost' = [lost EXCEPT ![w] = FALSE]
    /\ UNCHANGED <<due, key>>

Publish(w) ==
    /\ timer[w] /\ due[w]
    /\ Sends(w, [op |-> "set", age |-> 0])
    /\ due' = [due EXCEPT ![w] = FALSE]
    /\ UNCHANGED <<life, timer, key, lost, gone>>

\* Redis executes the commands of one connection in the order they were sent.
Executed(w) ==
    /\ sent[w] # <<>>
    /\ key' = [key EXCEPT ![w] = IF Head(sent[w]).op = "set"
                                 THEN [left |-> TTL, age |-> Head(sent[w]).age] ELSE None]
    /\ sent' = [sent EXCEPT ![w] = Tail(@)]
    /\ lost' = [lost EXCEPT ![w] = FALSE]
    /\ UNCHANGED <<life, timer, due, gone>>

\* Both the publisher and stop() catch what Redis throws and go on.
Fails(w) ==
    /\ sent[w] # <<>>
    /\ sent' = [sent EXCEPT ![w] = Tail(@)]
    /\ lost' = [lost EXCEPT ![w] = TRUE]
    /\ UNCHANGED <<life, timer, due, key, gone>>

\* stop(): clear the interval, then delete the key and wait for the answer.
Stop_KeepsTimer(w) ==
    /\ life[w] = "up"
    /\ life' = [life EXCEPT ![w] = "stopping"]
    /\ Sends(w, Del)
    /\ UNCHANGED <<timer, due, key, lost, gone>>
Stop(w) ==
    /\ life[w] = "up"
    /\ life' = [life EXCEPT ![w] = "stopping"]
    /\ timer' = [timer EXCEPT ![w] = FALSE]
    /\ due' = [due EXCEPT ![w] = FALSE]
    /\ Sends(w, Del)
    /\ UNCHANGED <<key, lost, gone>>

\* The key's deletion has been answered; the workers close while jobs finish.
StopAnswered(w) ==
    /\ life[w] = "stopping" /\ sent[w] = <<>>
    /\ life' = [life EXCEPT ![w] = "draining"]
    /\ UNCHANGED <<timer, due, sent, key, lost, gone>>

Exit(w) ==
    /\ life[w] = "draining"
    /\ life' = [life EXCEPT ![w] = "stopped"]
    /\ timer' = [timer EXCEPT ![w] = FALSE] /\ due' = [due EXCEPT ![w] = FALSE]
    /\ UNCHANGED <<sent, key, lost, gone>>

\* SIGKILL, or a crash: what had left the process still reaches Redis.
Kill(w) ==
    /\ life[w] \in {"up", "stopping", "draining"}
    /\ life' = [life EXCEPT ![w] = "killed"]
    /\ timer' = [timer EXCEPT ![w] = FALSE] /\ due' = [due EXCEPT ![w] = FALSE]
    /\ \E n \in 0..Len(sent[w]) : sent' = [sent EXCEPT ![w] = SubSeq(@, 1, n)]
    /\ UNCHANGED <<key, lost, gone>>

\* The key one interval later; it was set to expire.
Later_NoExpiry(k) == IF k = None THEN None ELSE [left |-> k.left, age |-> Older(k.age)]
Later(k) ==
    IF k = None \/ k.left = 1 THEN None ELSE [left |-> k.left - 1, age |-> Older(k.age)]

\* An interval passes, once every timer that is set has fired.
Tick ==
    /\ \A w \in Workers : ~due[w]
    /\ due' = timer
    /\ sent' = [w \in Workers |->
                  [i \in DOMAIN sent[w] |-> [sent[w][i] EXCEPT !.age = Older(@)]]]
    /\ key' = [w \in Workers |-> Later(key[w])]
    /\ gone' = [w \in Workers |-> IF life[w] = "killed" THEN Older(gone[w]) ELSE 0]
    /\ UNCHANGED <<life, timer, lost>>

Step(w) ==
    Start(w) \/ Publish(w) \/ Executed(w) \/ Fails(w) \/ Stop(w) \/ StopAnswered(w)
    \/ Exit(w) \/ Kill(w)
Next == Tick \/ \E w \in Workers : Step(w)
Spec == Init /\ [][Next]_vars

\* The timers fire, the connections deliver or fail, and time passes.
Fairness ==
    /\ WF_vars(Tick)
    /\ \A w \in Workers : WF_vars(Publish(w)) /\ WF_vars(Executed(w) \/ Fails(w))
FairSpec == Spec /\ Fairness

-----------------------------------------------------------------------------
\* readHeartbeats and the bands that the report and its contributor use.
Listed == {w \in Workers : key[w] # None}
Band(w) ==
    IF key[w].age < Stale THEN "healthy" ELSE IF key[w].age < Dead THEN "stale" ELSE "dead"
WorkerHeartbeat ==
    IF Listed = {} \/ \E w \in Listed : Band(w) = "dead" THEN "unhealthy"
    ELSE IF \E w \in Listed : Band(w) = "stale" THEN "degraded" ELSE "healthy"

-----------------------------------------------------------------------------
TypeOK ==
    /\ life \in [Workers -> {"off", "up", "stopping", "draining", "stopped", "killed"}]
    /\ timer \in [Workers -> BOOLEAN] /\ due \in [Workers -> BOOLEAN]
    /\ lost \in [Workers -> BOOLEAN] /\ gone \in [Workers -> 0..Dead]
    /\ \A w \in Workers : key[w] = None \/ key[w] \in Entry
    /\ \A w \in Workers : \A i \in DOMAIN sent[w] : sent[w][i] \in Beat \cup [op : {"del"}, age : 0..Dead]

(* What the keys say of a process is true of it: one that stopped          *)
(* gracefully and whose deletion Redis answered is absent from then on,    *)
(* while it still drains its jobs too, and one that runs is listed unless  *)
(* a command of it is on its way or was lost.                              *)
KeysTellLife ==
    \A w \in Workers :
      /\ life[w] \in {"draining", "stopped"} /\ ~lost[w] => key[w] = None
      /\ life[w] = "up" /\ sent[w] = <<>> /\ ~lost[w] => key[w] # None

(* A process that was killed disappears from the list, unless it is        *)
(* started again.                                                          *)
KilledFades == \A w \in Workers : life[w] = "killed" ~> key[w] = None \/ life[w] = "up"

(* Five intervals after a worker was killed the health report does not     *)
(* call the workers healthy.                                               *)
KilledIsReported ==
    (\E w \in Workers : gone[w] = Dead) => WorkerHeartbeat # "healthy"
=============================================================================
