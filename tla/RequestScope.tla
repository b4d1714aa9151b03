---------------------------- MODULE RequestScope ----------------------------
(***************************************************************************)
(* One tenant request of the API process, from the frame it is given at    *)
(* the door to the job its event leaves behind: the AsyncLocalStorage      *)
(* frame of Bun.serve's fetch (apps/api/src/index.ts), the tenant that the *)
(* tenant middleware publishes into it, withTenant's transaction on the    *)
(* pool of the RLS role, the event a command emits when its transaction    *)
(* has committed, the listener that enqueues a follow-up job, the carrier  *)
(* wrapQueue puts on the job and the frame wrapProcessorWithAls seeds from *)
(* it in the worker.  The requests are those of the example module, the    *)
(* template of the repository's modules: create inserts one row and emits, *)
(* list reads a page.  Requests share the connections and interleave at    *)
(* every await; the process may crash between any two of them.             *)
(*                                                                         *)
(* A request is its own request id.  How the session yields a tenant is    *)
(* TenantSession's; a crashed process is restarted at once.                *)
(***************************************************************************)
EXTENDS Naturals, FiniteSets

CONSTANTS Requests,   \* tenant requests, each sent once
          Creates,    \* those of them that create; the others list
          TenantOf,   \* the active tenant of each request's session
          Ticks,      \* jobs of a repeatable schedule: no request enqueues them
          Conns,      \* DB_POOL_MAX connections of the RLS pool
          Slots,      \* processor runs a worker has at a time
          Page,       \* the page size listExamples asks for, capped
          MaxStalls,  \* times BullMQ gives a stalled job back
          None

VARIABLES at,         \* how far each request has come
          frame,      \* its frame: the request id and the tenant published
          conn,       \* per connection: the request it runs a transaction of,
                      \* app.tenant_id as set for the transaction and for the
                      \* session
          rows,       \* committed examples: the create and its tenant, one
                      \* per tenant from before
          listed,     \* what a list answered
          carrier,    \* frames of the listeners that are awaiting queue.add
          job,        \* the follow-up job of each create, the job of each tick
          slot        \* per slot: the job it runs and the frame it runs in

vars == <<at, frame, conn, rows, listed, carrier, job, slot>>

Jobs == Creates \cup Ticks

\* What names are taken for: theorems need it, the instance has it.
NamesAssumption ==
    /\ Creates \subseteq Requests /\ Creates \cap Ticks = {} /\ MaxStalls \in Nat
    /\ None \notin Requests \cup Jobs /\ \A r \in Requests : TenantOf[r] # None
Frame(r, t) == [request |-> r, tenant |-> t]
NoFrame == Frame(None, None)

\* handlerCtx.tenantId, which the derive closes over: not read from the frame.
CtxTenant(r) == TenantOf[r]
Row(r) == [by |-> r, tenant |-> CtxTenant(r)]
Earlier == {[by |-> None, tenant |-> TenantOf[r]] : r \in Requests}

FreeConn == [by |-> None, local |-> None, session |-> None]
FreeSlot == [job |-> None, frame |-> NoFrame]

Init == /\ at = [r \in Requests |-> "new"]
        /\ frame = [r \in Requests |-> NoFrame]
        /\ conn = [c \in Conns |-> FreeConn]
        /\ rows = Earlier
        /\ listed = [r \in Requests \ Creates |-> {}]
        /\ carrier = [r \in Creates |-> NoFrame]
        /\ job = [j \in Jobs |->
                    [state |-> "none", carrier |-> NoFrame, stalls |-> 0]]
        /\ slot = [s \in Slots |-> FreeSlot]

-----------------------------------------------------------------------------
(* The database: current_setting of a connection, and what the policy of   *)
(* the tenant tables lets its statements see and write.                    *)

Setting(c) == IF conn[c].local # None THEN conn[c].local ELSE conn[c].session
Visible(c) == {x \in rows : x.tenant = Setting(c)}

\* A transaction ends, committed or not: its local setting is gone.
Ended(c) == [conn EXCEPT ![c].by = None, ![c].local = None]

-----------------------------------------------------------------------------
(* The request *)

\* fetch: a frame of its own, no tenant yet.
Enter(r) == /\ at[r] = "new"
            /\ at' = [at EXCEPT ![r] = "framed"]
            /\ frame' = [frame EXCEPT ![r] = Frame(r, None)]
            /\ UNCHANGED <<conn, rows, listed, carrier, job, slot>>

\* The tenant middleware has the session's tenant, or throws.
Resolve(r) ==
    /\ at[r] = "framed"
    /\ \/ /\ at' = [at EXCEPT ![r] = "scoped"]
          /\ frame' = [frame EXCEPT ![r].tenant = TenantOf[r]]
       \/ at' = [at EXCEPT ![r] = "failed"] /\ UNCHANGED frame
    /\ UNCHANGED <<conn, rows, listed, carrier, job, slot>>

\* withTenant: db.transaction waits for a free connection of the pool.
Begin(r, c) == /\ at[r] = "scoped" /\ conn[c].by = None
               /\ at' = [at EXCEPT ![r] = "begun"]
               /\ conn' = [conn EXCEPT ![c].by = r]
               /\ UNCHANGED <<frame, rows, listed, carrier, job, slot>>

SetTenant_Session(r, c) ==
    /\ at[r] = "begun" /\ conn[c].by = r
    /\ at' = [at EXCEPT ![r] = "set"]
    /\ conn' = [conn EXCEPT ![c].session = CtxTenant(r)]
    /\ UNCHANGED <<frame, rows, listed, carrier, job, slot>>

SetTenant_OnPool(r, c) ==
    /\ at[r] = "begun" /\ conn[c].by = r
    /\ at' = [at EXCEPT ![r] = "set"]
    /\ UNCHANGED <<frame, conn, rows, listed, carrier, job, slot>>

\* set_config(..., true) on the transaction's own connection.
SetTenant(r, c) == /\ at[r] = "begun" /\ conn[c].by = r
                   /\ at' = [at EXCEPT ![r] = "set"]
                   /\ conn' = [conn EXCEPT ![c].local = CtxTenant(r)]
                   /\ UNCHANGED <<frame, rows, listed, carrier, job, slot>>

\* createExample's insert, which WITH CHECK admits.
Insert(r, c) == /\ at[r] = "set" /\ conn[c].by = r /\ r \in Creates
                /\ Setting(c) = CtxTenant(r)
                /\ at' = [at EXCEPT ![r] = "ran"]
                /\ UNCHANGED <<frame, conn, rows, listed, carrier, job, slot>>

\* listExamples' select: both the policy and the WHERE, one page, no order.
Select(r, c) ==
    LET own == {x \in Visible(c) : x.tenant = CtxTenant(r)} IN
    /\ at[r] = "set" /\ conn[c].by = r /\ r \notin Creates
    /\ at' = [at EXCEPT ![r] = "ran"]
    /\ \E page \in SUBSET own :
          /\ \/ Cardinality(page) = Page
             \/ page = own /\ Cardinality(own) < Page
          /\ listed' = [listed EXCEPT ![r] = page]
    /\ UNCHANGED <<frame, conn, rows, carrier, job, slot>>

Stored(r) == IF r \in Creates THEN {Row(r)} ELSE {}

Commit(r, c) == /\ at[r] = "ran" /\ conn[c].by = r
                /\ at' = [at EXCEPT ![r] = "committed"]
                /\ conn' = Ended(c)
                /\ rows' = rows \cup Stored(r)
                /\ UNCHANGED <<frame, listed, carrier, job, slot>>

\* A statement fails or the connection is lost: rolled back, and the handler
\* throws.  Of a lost COMMIT nobody tells whether it was carried out.
Breaks(r, c) ==
    /\ at[r] \in {"begun", "set", "ran"} /\ conn[c].by = r
    /\ at' = [at EXCEPT ![r] = "failed"]
    /\ conn' = Ended(c)
    /\ rows' \in {rows} \cup IF at[r] = "ran" THEN {rows \cup Stored(r)} ELSE {}
    /\ UNCHANGED <<frame, listed, carrier, job, slot>>

\* wrapQueue: the fields a job takes from the frame queue.add is called in.
Carried(r) == frame[r]

\* The emit of a command: the listener runs in the emitter's frame, up to its
\* await of queue.add.
Emitted(r) == IF r \in Creates THEN [carrier EXCEPT ![r] = Carried(r)]
              ELSE carrier

\* A command that emits as soon as its insert has run.
Answer_Early(r) ==
    /\ at[r] = "committed" \/ (r \in Creates /\ at[r] = "ran")
    /\ carrier' = Emitted(r)
    /\ at' = [at EXCEPT ![r] = IF at[r] = "committed" THEN "answered" ELSE "ran"]
    /\ UNCHANGED <<frame, conn, rows, listed, job, slot>>

\* The transaction has resolved: create emits, the request is answered.
Answer(r) == /\ at[r] = "committed"
             /\ at' = [at EXCEPT ![r] = "answered"]
             /\ carrier' = Emitted(r)
             /\ UNCHANGED <<frame, conn, rows, listed, job, slot>>

\* queue.add reaches Redis, or fails and is logged.
Enqueue(r) ==
    /\ carrier[r] # NoFrame
    /\ carrier' = [carrier EXCEPT ![r] = NoFrame]
    /\ \/ job' = [job EXCEPT ![r].state = "waiting", ![r].carrier = carrier[r]]
       \/ UNCHANGED job
    /\ UNCHANGED <<at, frame, conn, rows, listed, slot>>

\* The API process dies: its requests, transactions and listeners with it.
Crash == /\ at' = [r \in Requests |-> IF at[r] \in {"new", "answered"}
                                      THEN at[r] ELSE "failed"]
         /\ conn' = [c \in Conns |-> FreeConn]
         /\ carrier' = [r \in Creates |-> NoFrame]
         /\ UNCHANGED <<frame, rows, listed, job, slot>>

-----------------------------------------------------------------------------
(* The worker *)

\* A repeatable schedule fires: BullMQ makes the job, no producer wraps it.
Schedule(t) == /\ job[t].state = "none"
               /\ job' = [job EXCEPT ![t].state = "waiting"]
               /\ UNCHANGED <<at, frame, conn, rows, listed, carrier, slot>>

Take_KeepsFrame(s, j) ==
    /\ slot[s].job = None /\ job[j].state = "waiting"
    /\ job' = [job EXCEPT ![j].state = "active"]
    /\ slot' = [slot EXCEPT ![s] =
                  [job |-> j, frame |-> IF job[j].carrier = NoFrame
                                        THEN slot[s].frame ELSE job[j].carrier]]
    /\ UNCHANGED <<at, frame, conn, rows, listed, carrier>>

\* wrapProcessorWithAls: a frame of the carrier's fields, fresh without them.
Take(s, j) == /\ slot[s].job = None /\ job[j].state = "waiting"
              /\ job' = [job EXCEPT ![j].state = "active"]
              /\ slot' = [slot EXCEPT ![s] =
                            [job |-> j, frame |-> job[j].carrier]]
              /\ UNCHANGED <<at, frame, conn, rows, listed, carrier>>

Done(s) == /\ slot[s].job # None
           /\ job' = [job EXCEPT ![slot[s].job].state = "completed"]
           /\ slot' = [slot EXCEPT ![s].job = None]
           /\ UNCHANGED <<at, frame, conn, rows, listed, carrier>>

\* The worker dies in the run: the stalled job is given back, or given up.
Stalls(s) ==
    LET j == slot[s].job IN
    /\ j # None
    /\ job' = IF job[j].stalls < MaxStalls
              THEN [job EXCEPT ![j].state = "waiting", ![j].stalls = @ + 1]
              ELSE [job EXCEPT ![j].state = "failed"]
    /\ slot' = [slot EXCEPT ![s] = FreeSlot]
    /\ UNCHANGED <<at, frame, conn, rows, listed, carrier>>

-----------------------------------------------------------------------------
Next == \/ \E r \in Requests : Enter(r) \/ Resolve(r) \/ Answer(r)
        \/ \E r \in Requests, c \in Conns :
              \/ Begin(r, c) \/ SetTenant(r, c) \/ Insert(r, c)
              \/ Select(r, c) \/ Commit(r, c) \/ Breaks(r, c)
        \/ \E r \in Creates : Enqueue(r)
        \/ Crash
        \/ \E t \in Ticks : Schedule(t)
        \/ \E s \in Slots : Done(s) \/ Stalls(s)
        \/ \E s \in Slots, j \in Jobs : Take(s, j)

Spec == Init /\ [][Next]_vars

-----------------------------------------------------------------------------
Frames == [request : Requests \cup {None},
           tenant : {TenantOf[r] : r \in Requests} \cup {None}]

TypeOK ==
    /\ at \in [Requests -> {"new", "framed", "scoped", "begun", "set", "ran",
                            "committed", "answered", "failed"}]
    /\ frame \in [Requests -> Frames]
    /\ \A c \in Conns : conn[c].by \in Requests \cup {None}
    /\ rows \subseteq Earlier \cup {Row(r) : r \in Creates}
    /\ \A r \in Requests \ Creates : listed[r] \subseteq rows
    /\ carrier \in [Creates -> Frames]
    /\ \A j \in Jobs : /\ job[j].carrier \in Frames
                       /\ job[j].stalls \in 0..MaxStalls
    /\ \A s \in Slots : /\ slot[s].job \in Jobs \cup {None}
                        /\ slot[s].frame \in Frames

\* The pool of with-tenant.ts hands connections from tenant to tenant: one
\* that runs no transaction carries no tenant's setting, whatever crashed,
\* failed or committed on it, and a transaction only ever its own tenant's.
PoolClean == \A c \in Conns :
    IF conn[c].by = None THEN Setting(c) = None
                         ELSE Setting(c) \in {None, TenantOf[conn[c].by]}

\* A list answers the rows of its own tenant that were committed when it was
\* read, as many as the page holds, whichever connection the pool gave it and
\* whoever had it before.
OwnRows == [][\A r \in Requests \ Creates :
    at[r] = "set" /\ at'[r] = "ran" =>
        LET own == {x \in rows : x.tenant = TenantOf[r]} IN
        /\ listed'[r] \subseteq own
        /\ \/ Cardinality(listed'[r]) = Page
           \/ listed'[r] = own /\ Cardinality(own) < Page]_vars

\* A create is answered, and followed by a job, only once its row is stored,
\* and each run of that job, the one after a stall included, is in a frame
\* with the creating request and its tenant; a job of no request runs in
\* nobody's frame.
JobsOfRows ==
    /\ \A r \in Creates :
          at[r] = "answered" \/ job[r].state # "none" => Row(r) \in rows
    /\ \A s \in Slots :
          /\ slot[s].job \in Creates =>
                slot[s].frame = Frame(slot[s].job, TenantOf[slot[s].job])
          /\ slot[s].job \in Ticks => slot[s].frame = NoFrame

\* What the pool, the answers and the jobs keep to the tenant of their request.
ScopeHolds == TypeOK /\ PoolClean /\ JobsOfRows

=============================================================================
