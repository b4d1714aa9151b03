----------------------------- MODULE ProcessLife -----------------------------
(***************************************************************************)
(* The life of one API process and of one worker process: the modules are  *)
(* loaded one by one, the API accepts requests, the worker runs jobs, and  *)
(* a signal (for a child of the supervisor also the parent's death) starts *)
(* the shutdown: drain, close Redis, close the database pools, exit.       *)
(***************************************************************************)
EXTENDS Naturals, Sequences, FiniteSets, SequencesExt

CONSTANTS
    Lists,      \* the lists of modules that may be configured
    Declares,   \* module -> the keys of its commands and queries
    Requests,   \* requests to the API
    Jobs,       \* jobs of the worker
    Signals     \* signals a process may get, and so the runs of its shutdown

VARIABLES
    modules,    \* the configured list
    loaded,     \* the modules loaded so far, in order
    handler,    \* key -> the module whose handler answers it
    api,        \* "booting", "up", "exited" or "crashed"
    parent,     \* the supervisor: "none", "alive" or "dead"
    watched,    \* the parent the orphan guard compares with; "no" guard yet
    req,        \* a request: "new", "open", "done" or "cut"
    redis, db,  \* the API's connections: "open", "quitting" (Redis only) or "closed"
    call,       \* a run of the API's shutdown: "no", or what it waits for
    faulty,     \* history: closing a connection failed, or the deadline passed
    worker,     \* the worker: "up", "exited" or "crashed"
    job,        \* a job: "waiting", "active" or "done"
    wredis,     \* the worker's connection
    wcall       \* a run of the worker's shutdown

apiVars == <<modules, loaded, handler, api, parent, watched, req, redis, db, call, faulty>>
workerVars == <<worker, job, wredis, wcall>>
vars == <<apiVars, workerVars>>

\* A list names modules; theorems need it, the instance has it.
ListsAssumption == Lists \subseteq Seq(DOMAIN Declares)

Keys == UNION {Declares[m] : m \in DOMAIN Declares}

Init ==
    /\ modules \in Lists
    /\ loaded = <<>> /\ handler = [k \in {} |-> k]
    /\ api = "booting"
    /\ parent \in {"none", "alive"} /\ watched = "no"
    /\ req = [r \in Requests |-> "new"]
    /\ redis = "open" /\ db = "open"
    /\ call = [s \in Signals |-> "no"]
    /\ faulty = FALSE
    /\ worker = "up"
    /\ job = [j \in Jobs |-> "waiting"]
    /\ wredis = "open"
    /\ wcall = [s \in Signals |-> "no"]

-----------------------------------------------------------------------------
\* ModuleRegistry.loadAll: in the order of the list, each module once.
NextModule == modules[Len(loaded) + 1]
Collides(m) == Declares[m] \cap DOMAIN handler # {}

LoadModule_Overwrites ==
    /\ api = "booting" /\ Len(loaded) < Len(modules)
    /\ loaded' = Append(loaded, NextModule)
    /\ handler' = [k \in DOMAIN handler \cup Declares[NextModule] |->
                     IF k \in Declares[NextModule] THEN NextModule ELSE handler[k]]
    /\ UNCHANGED <<modules, api, parent, watched, req, redis, db, call, faulty, workerVars>>
LoadModule ==
    /\ api = "booting" /\ Len(loaded) < Len(modules)
    /\ loaded' = Append(loaded, NextModule)
    /\ IF Contains(loaded, NextModule) THEN UNCHANGED handler
       ELSE /\ ~Collides(NextModule)
            /\ handler' = [k \in DOMAIN handler \cup Declares[NextModule] |->
                             IF k \in Declares[NextModule] THEN NextModule ELSE handler[k]]
    /\ UNCHANGED <<modules, api, parent, watched, req, redis, db, call, faulty, workerVars>>

\* A key that is taken, or a module that cannot be imported, fails the boot.
BootFails ==
    /\ api = "booting"
    /\ api' = "crashed"
    /\ UNCHANGED <<modules, loaded, handler, parent, watched, req, redis, db, call, faulty, workerVars>>

\* Bun.serve, the signal handlers and, for a child, the orphan guard, which
\* takes the parent it finds at this moment.
Listen ==
    /\ api = "booting" /\ Len(loaded) = Len(modules)
    /\ api' = "up"
    /\ watched' = IF parent = "none" THEN "no" ELSE parent
    /\ UNCHANGED <<modules, loaded, handler, parent, req, redis, db, call, faulty, workerVars>>

-----------------------------------------------------------------------------
Stopping == \E s \in Signals : call[s] # "no"
Open == {r \in Requests : req[r] = "open"}

Accept(r) ==
    /\ api = "up" /\ ~Stopping /\ req[r] = "new"
    /\ req' = [req EXCEPT ![r] = "open"]
    /\ UNCHANGED <<modules, loaded, handler, api, parent, watched, redis, db, call, faulty, workerVars>>

\* A request uses the connections until it is answered.
Finish(r) ==
    /\ api = "up" /\ req[r] = "open"
    /\ req' = [req EXCEPT ![r] = IF redis = "open" /\ db = "open" THEN "done" ELSE "cut"]
    /\ UNCHANGED <<modules, loaded, handler, api, parent, watched, redis, db, call, faulty, workerVars>>

\* shutdown() of the API: a second signal returns at once.
Begins_Always(s) ==
    /\ api = "up" /\ call[s] = "no"
    /\ call' = [call EXCEPT ![s] = "drain"]
Begins(s) ==
    /\ api = "up" /\ call[s] = "no" /\ ~Stopping
    /\ call' = [call EXCEPT ![s] = "drain"]
Signal(s) ==
    /\ Begins(s)
    /\ UNCHANGED <<modules, loaded, handler, api, parent, watched, req, redis, db, faulty, workerVars>>

\* The orphan guard: every two seconds a child looks who its parent is.
OrphanSeen(s) ==
    /\ watched # "no" /\ parent # watched
    /\ Begins(s)
    /\ UNCHANGED <<modules, loaded, handler, api, parent, watched, req, redis, db, faulty, workerVars>>

ParentDies ==
    /\ parent = "alive" /\ api \in {"booting", "up"}
    /\ parent' = "dead"
    /\ UNCHANGED <<modules, loaded, handler, api, watched, req, redis, db, call, faulty, workerVars>>

\* server.stop() resolves when no request is left.
Drained(s) ==
    /\ api = "up" /\ call[s] = "drain" /\ Open = {}
    /\ call' = [call EXCEPT ![s] = "redis"]
    /\ UNCHANGED <<modules, loaded, handler, api, parent, watched, req, redis, db, faulty, workerVars>>
\* closeConnection: nothing to do, or QUIT and wait.
Quit(s) ==
    /\ api = "up" /\ call[s] = "redis"
    /\ call' = [call EXCEPT ![s] = IF redis = "closed" THEN "db" ELSE "quit"]
    /\ redis' = IF redis = "open" THEN "quitting" ELSE redis
    /\ UNCHANGED <<modules, loaded, handler, api, parent, watched, req, db, faulty, workerVars>>
QuitAnswered(s) ==
    /\ api = "up" /\ call[s] = "quit" /\ redis = "quitting"
    /\ redis' = "closed"
    /\ call' = [call EXCEPT ![s] = "db"]
    /\ UNCHANGED <<modules, loaded, handler, api, parent, watched, req, db, faulty, workerVars>>

Exits == /\ api' = "exited" /\ req' = [r \in Requests |-> IF req[r] = "open" THEN "cut" ELSE req[r]]

\* A QUIT behind another on a connection that closes is rejected: catch, exit(0).
QuitRejected(s) ==
    /\ api = "up" /\ call[s] = "quit" /\ redis = "closed"
    /\ Exits
    /\ UNCHANGED <<modules, loaded, handler, parent, watched, redis, db, call, faulty, workerVars>>

\* Redis or Postgres fails while it is closed: the same way out.
CloseFails(s) ==
    /\ api = "up" /\ call[s] \in {"quit", "db"}
    /\ faulty' = TRUE
    /\ Exits
    /\ UNCHANGED <<modules, loaded, handler, parent, watched, redis, db, call, workerVars>>

CloseDb(s) ==
    /\ api = "up" /\ call[s] = "db"
    /\ db' = "closed"
    /\ Exits
    /\ UNCHANGED <<modules, loaded, handler, parent, watched, redis, call, faulty, workerVars>>

\* The drain takes longer than SHUTDOWN_DRAIN_MS.
Deadline_Drains ==
    /\ api = "up" /\ Stopping /\ Open = {}
    /\ faulty' = TRUE
    /\ Exits
    /\ UNCHANGED <<modules, loaded, handler, parent, watched, redis, db, call, workerVars>>
Deadline ==
    /\ api = "up" /\ Stopping
    /\ faulty' = TRUE
    /\ Exits
    /\ UNCHANGED <<modules, loaded, handler, parent, watched, redis, db, call, workerVars>>

-----------------------------------------------------------------------------
Active == {j \in Jobs : job[j] = "active"}

Take(j) ==
    /\ worker = "up" /\ job[j] = "waiting"
    /\ \A s \in Signals : wcall[s] \in {"no", "heartbeat"}
    /\ job' = [job EXCEPT ![j] = "active"]
    /\ UNCHANGED <<apiVars, worker, wredis, wcall>>
Complete(j) ==
    /\ worker = "up" /\ job[j] = "active"
    /\ job' = [job EXCEPT ![j] = "done"]
    /\ UNCHANGED <<apiVars, worker, wredis, wcall>>

\* The worker's shutdown has no guard: every signal starts it once more.
WorkerSignal(s) ==
    /\ worker = "up" /\ wcall[s] = "no"
    /\ wcall' = [wcall EXCEPT ![s] = "heartbeat"]
    /\ UNCHANGED <<apiVars, worker, job, wredis>>

\* The heartbeat's key is deleted; the health server stops, the workers close.
HeartbeatStopped(s) ==
    /\ worker = "up" /\ wcall[s] = "heartbeat"
    /\ wcall' = [wcall EXCEPT ![s] = "drain"]
    /\ UNCHANGED <<apiVars, worker, job, wredis>>

WorkersClosed(s) ==
    /\ worker = "up" /\ wcall[s] = "drain" /\ Active = {}
    /\ wcall' = [wcall EXCEPT ![s] = "redis"]
    /\ UNCHANGED <<apiVars, worker, job, wredis>>

WorkerQuit(s) ==
    /\ worker = "up" /\ wcall[s] = "redis"
    /\ wcall' = [wcall EXCEPT ![s] = IF wredis = "closed" THEN "db" ELSE "quit"]
    /\ wredis' = IF wredis = "open" THEN "quitting" ELSE wredis
    /\ UNCHANGED <<apiVars, worker, job>>
WorkerQuitAnswered(s) ==
    /\ worker = "up" /\ wcall[s] = "quit" /\ wredis = "quitting"
    /\ wredis' = "closed"
    /\ wcall' = [wcall EXCEPT ![s] = "db"]
    /\ UNCHANGED <<apiVars, worker, job>>

\* A rejection is nobody's here: unhandledRejection, exit(1).
WorkerRejected(s) ==
    /\ worker = "up" /\ wcall[s] \in {"quit", "db"}
    /\ worker' = "crashed"
    /\ UNCHANGED <<apiVars, job, wredis, wcall>>
WorkerExits(s) ==
    /\ worker = "up" /\ wcall[s] = "db"
    /\ worker' = "exited"
    /\ UNCHANGED <<apiVars, job, wredis, wcall>>

-----------------------------------------------------------------------------
Closes(s) == Drained(s) \/ Quit(s) \/ QuitAnswered(s) \/ QuitRejected(s) \/ CloseFails(s) \/ CloseDb(s)
ApiNext ==
    \/ LoadModule \/ BootFails \/ Listen \/ ParentDies \/ Deadline
    \/ \E r \in Requests : Accept(r) \/ Finish(r)
    \/ \E s \in Signals : Signal(s) \/ OrphanSeen(s) \/ Closes(s)
WorkerNext ==
    \/ \E j \in Jobs : Take(j) \/ Complete(j)
    \/ \E s \in Signals :
         \/ WorkerSignal(s) \/ HeartbeatStopped(s) \/ WorkersClosed(s) \/ WorkerQuit(s)
         \/ WorkerQuitAnswered(s) \/ WorkerRejected(s) \/ WorkerExits(s)
Next == ApiNext \/ WorkerNext
Spec == Init /\ [][Next]_vars

\* The boot goes on and timers fire; no client, no Redis and no Postgres need
\* ever answer a process that closes.
Fairness ==
    /\ WF_vars(LoadModule \/ BootFails) /\ WF_vars(Listen)
    /\ WF_vars(\E s \in Signals : OrphanSeen(s))
    /\ WF_vars(Deadline)
FairSpec == Spec /\ Fairness

-----------------------------------------------------------------------------
TypeOK ==
    /\ modules \in Lists
    /\ Len(loaded) <= Len(modules) /\ loaded = SubSeq(modules, 1, Len(loaded))
    /\ handler \in [DOMAIN handler -> DOMAIN Declares] /\ DOMAIN handler \subseteq Keys
    /\ api \in {"booting", "up", "exited", "crashed"}
    /\ parent \in {"none", "alive", "dead"} /\ watched \in {"no", "alive", "dead"}
    /\ req \in [Requests -> {"new", "open", "done", "cut"}]
    /\ redis \in {"open", "quitting", "closed"} /\ db \in {"open", "closed"}
    /\ call \in [Signals -> {"no", "drain", "redis", "quit", "db"}]
    /\ faulty \in BOOLEAN
    /\ worker \in {"up", "exited", "crashed"} /\ wredis \in {"open", "quitting", "closed"}
    /\ job \in [Jobs -> {"waiting", "active", "done"}]
    /\ wcall \in [Signals -> {"no", "heartbeat", "drain", "redis", "quit", "db"}]

(* No module is half there in a process that serves: every key of every    *)
(* configured module is answered by the only module that declares it.      *)
ServesWhole ==
    api \in {"up", "exited"} =>
      \A i \in DOMAIN modules : \A k \in Declares[modules[i]] :
        k \in DOMAIN handler /\ handler[k] = modules[i]

(* A shutdown takes nothing away from work in progress: connections are    *)
(* closed when no request and no job is left, Redis before the database,   *)
(* and a process whose shutdown met neither its deadline nor an error      *)
(* has answered every request it accepted and has closed everything,       *)
(* however many signals it got.                                            *)
DrainsFirst ==
    /\ api = "up" /\ (redis # "open" \/ db # "open") => Open = {}
    /\ db = "closed" => redis = "closed"
    /\ api = "exited" /\ ~faulty => db = "closed" /\ \A r \in Requests : req[r] # "cut"
    /\ worker = "up" /\ wredis # "open" => Active = {}

(* A shutdown that has begun ends, also when a client keeps a stream open  *)
(* or a connection does not close.                                         *)
ShutdownExits == Stopping ~> api = "exited"

(* A child of a supervisor that has died does not stay.                    *)
OrphanEnds == parent = "dead" ~> api \in {"exited", "crashed"}
=============================================================================
