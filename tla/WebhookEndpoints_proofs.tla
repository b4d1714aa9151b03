----------------------- MODULE WebhookEndpoints_proofs -----------------------
(***************************************************************************)
(* Theorems of WebhookEndpoints for every set of deliveries, runs and      *)
(* commands, every number of attempts and every threshold.  They rest on   *)
(* one invariant: who has the lock of a job (LocksOK), that a job is added *)
(* once (JobsOK), and that the attempts a row has counted never exceed the *)
(* starts of its job (AttemptsOK), however runs of it overlap.             *)
(* To it come, for what the endpoint counts, that the counted deliveries   *)
(* are among its failures (FailuresOK), and, until one of the races has    *)
(* happened, that a delivery has one run, that none is counted twice and   *)
(* that nobody who read the endpoint before its lock is still at work      *)
(* (Undisturbed).                                                          *)
(***************************************************************************)
EXTENDS WebhookEndpoints, FiniteSetTheorems, TLAPS

USE AttemptsAssumption, CommandsAssumption, ThresholdAssumption, NoDeliveryAssumption

-----------------------------------------------------------------------------
\* A run knows its delivery, and idles as it began.
RunsOK == \A r \in Runs :
    IF run[r].pc = "idle" THEN run[r] = IdleRun ELSE run[r].delivery \in Deliveries

\* The lock of a job is one run's, and the job is active as long.
LocksOK == \A r \in Runs : run[r].locked =>
    /\ run[r].pc # "idle"
    /\ job[run[r].delivery].state = "active"
    /\ \A s \in Runs : run[s].locked /\ run[s].delivery = run[r].delivery => s = r

\* A job is added once, by the sender of its row, before any run of it.
JobsOK == \A d \in Deliveries :
    /\ job[d].state = "none" => job[d] = NoJob /\ ~WorkedOn(d)
    /\ job[d].state \in {"waiting", "active"} => job[d].made < MaxAttempts
    /\ row[d].status = "absent" => sender[d] = "none" /\ job[d].state = "none"
    /\ sender[d] \in {"notify", "redeliver"} => job[d].state = "none"

\* How often a job may have been started ...
Starts(j) ==
    IF j.state \in {"none", "waiting"} THEN j.made + j.stalls
    ELSE IF j.state = "active" THEN j.made + j.stalls + 1
    ELSE MaxAttempts + MaxStalls

\* ... is more than the attempts its row has counted and its runs still may count.
Trying(d) == {r \in Runs : run[r].delivery = d /\ run[r].pc \in {"load", "post"}}
Bounded(d) ==
    /\ IsFiniteSet(Trying(d))
    /\ row[d].attempts + Cardinality(Trying(d)) <= Starts(job[d])
    /\ \A r \in Trying(d) :
          run[r].pc = "post" => run[r].attempt + Cardinality(Trying(d)) <= Starts(job[d]) + 1

AttemptsOK == \A d \in Deliveries : Bounded(d)

Inv == TypeOK /\ RunsOK /\ LocksOK /\ JobsOK /\ AttemptsOK

\* A job that has an end or another start before it, and that no stall has set back.
GoesOn(j, k) ==
    /\ k \in Job
    /\ k.state \in {"waiting", "completed", "failed"}
    /\ k.state = "waiting" => k.made < MaxAttempts
    /\ Starts(k) >= Starts(j)

\* However a run leaves the handler, it gives the lock back with the job settled.
RunEnds(r) ==
    /\ run' = [run EXCEPT ![r] = IdleRun]
    /\ job' \in [Deliveries -> Job]
    /\ \A d \in Deliveries :
          \/ job'[d] = job[d]
          \/ run[r].locked /\ run[r].delivery = d /\ GoesOn(job[d], job'[d])

LEMMA JobOutcomes ==
    ASSUME NEW j \in Job, j.state = "active", j.made < MaxAttempts
    PROVE  /\ GoesOn(j, Settled(Returned(j))) /\ Settled(Returned(j)).state = "completed"
           /\ GoesOn(j, Settled(Thrown(j, MaxAttempts)))
           /\ Settled(Thrown(j, MaxAttempts)).state \in {"waiting", "failed"}
           /\ GoesOn(j, Settled(Stalled(j))) /\ Settled(Stalled(j)).state \in {"waiting", "failed"}
<1>0. j = [state |-> "active", made |-> j.made, stalls |-> j.stalls]
      /\ j.made \in 0..CreateQueueAttempts /\ j.stalls \in 0..MaxStalls
  BY DEF Job
<1>t. /\ j.made + 1 < MaxAttempts => Thrown(j, MaxAttempts) =
             [state |-> "waiting", made |-> j.made + 1, stalls |-> j.stalls]
      /\ ~(j.made + 1 < MaxAttempts) => Thrown(j, MaxAttempts) =
             [state |-> "failed", made |-> j.made + 1, stalls |-> j.stalls]
  <2>. DEFINE k == [j EXCEPT !.made = j.made + 1]
  <2>1. k = [state |-> "active", made |-> j.made + 1, stalls |-> j.stalls]
    BY <1>0
  <2>2. Thrown(j, MaxAttempts) =
          [k EXCEPT !.state = IF j.made + 1 < MaxAttempts THEN "waiting" ELSE "failed"]
    BY DEF Thrown
  <2>. HIDE DEF k
  <2>. QED  BY <2>1, <2>2
<1>. USE DEF Job, GoesOn, Starts, Settled, NoJob, CreateQueueAttempts, MaxStalls
<1>1. GoesOn(j, Settled(Returned(j))) /\ Settled(Returned(j)).state = "completed"
  BY DEF Returned
<1>2. GoesOn(j, Settled(Thrown(j, MaxAttempts)))
      /\ Settled(Thrown(j, MaxAttempts)).state \in {"waiting", "failed"}
  <2>1. CASE j.made + 1 < MaxAttempts
    <3>1. Thrown(j, MaxAttempts) = [state |-> "waiting", made |-> j.made + 1, stalls |-> j.stalls]
      BY <1>0, <1>t, <2>1
    <3>. QED  BY <2>1, <3>1
  <2>2. CASE ~(j.made + 1 < MaxAttempts)
    <3>1. Thrown(j, MaxAttempts) = [state |-> "failed", made |-> j.made + 1, stalls |-> j.stalls]
      BY <1>0, <1>t, <2>2
    <3>. QED  BY <2>2, <3>1
  <2>. QED  BY <2>1, <2>2
<1>3. GoesOn(j, Settled(Stalled(j))) /\ Settled(Stalled(j)).state \in {"waiting", "failed"}
  <2>1. CASE j.stalls < MaxStalls
    <3>1. Stalled(j) = [state |-> "waiting", made |-> j.made, stalls |-> j.stalls + 1]
      BY <2>1 DEF Stalled
    <3>. QED  BY <2>1, <3>1
  <2>2. CASE ~(j.stalls < MaxStalls)
    <3>1. Stalled(j) = [state |-> "failed", made |-> j.made, stalls |-> j.stalls]
      BY <2>2 DEF Stalled
    <3>. QED  BY <2>2, <3>1
  <2>. QED  BY <2>1, <2>2
<1>. QED  BY <1>1, <1>2, <1>3

LEMMA RunReturns ==
    ASSUME Inv, NEW r \in Runs, run[r].pc # "idle", EndRun(r, Returned)
    PROVE  /\ RunEnds(r)
           /\ run[r].locked => job'[run[r].delivery].state = "completed"
<1>. DEFINE d == run[r].delivery
<1>1. d \in Deliveries
  BY DEF Inv, RunsOK
<1>2. CASE run[r].locked
  <2>1. job[d] \in Job /\ job[d].state = "active" /\ job[d].made < MaxAttempts
    BY <1>1, <1>2 DEF Inv, TypeOK, LocksOK, JobsOK
  <2>2. job' = [job EXCEPT ![d] = Settled(Returned(job[d]))]
    BY <1>2 DEF EndRun
  <2>3. /\ GoesOn(job[d], Settled(Returned(job[d])))
        /\ Settled(Returned(job[d])).state = "completed"
    BY <2>1, JobOutcomes
  <2>4. Settled(Returned(job[d])) \in Job
    BY <2>3 DEF GoesOn
  <2>. QED  BY <1>1, <1>2, <2>2, <2>3, <2>4 DEF RunEnds, EndRun, Inv, TypeOK
<1>3. CASE ~run[r].locked
  BY <1>3 DEF EndRun, RunEnds, Inv, TypeOK
<1>. QED  BY <1>2, <1>3

LEMMA RunThrows ==
    ASSUME Inv, NEW r \in Runs, Throw(r)
    PROVE  /\ RunEnds(r)
           /\ run[r].locked => job'[run[r].delivery].state \in {"waiting", "failed"}
<1>. DEFINE d == run[r].delivery
<1>1. d \in Deliveries /\ run' = [run EXCEPT ![r] = IdleRun]
  BY DEF Throw, EndRun, Inv, RunsOK
<1>2. CASE run[r].locked
  <2>1. job[d] \in Job /\ job[d].state = "active" /\ job[d].made < MaxAttempts
    BY <1>1, <1>2 DEF Inv, TypeOK, LocksOK, JobsOK
  <2>. DEFINE k == Settled(Thrown(job[d], MaxAttempts))
  <2>2. job' = [job EXCEPT ![d] = k]
    BY <1>2 DEF Throw, EndRun
  <2>3. GoesOn(job[d], k) /\ k.state \in {"waiting", "failed"}
    BY <2>1, JobOutcomes
  <2>. HIDE DEF k
  <2>4. k \in Job
    BY <2>3 DEF GoesOn
  <2>. QED  BY <1>1, <1>2, <2>2, <2>3, <2>4 DEF RunEnds, Inv, TypeOK
<1>3. CASE ~run[r].locked
  BY <1>1, <1>3 DEF Throw, EndRun, RunEnds, Inv, TypeOK
<1>. QED  BY <1>2, <1>3

-----------------------------------------------------------------------------
(***************************************************************************)
(* The attempts.                                                           *)
(***************************************************************************)
\* Fewer runs that still may count, no more counted, and no start taken back.
LEMMA BoundKept ==
    ASSUME NEW d \in Deliveries, Bounded(d),
           Trying(d)' \subseteq Trying(d),
           row[d].attempts \in Nat, row'[d].attempts \in Nat,
           row'[d].attempts <= row[d].attempts,
           Starts(job[d]) \in Nat, Starts(job'[d]) \in Nat,
           Starts(job'[d]) >= Starts(job[d]),
           \A r \in Runs : run[r].attempt \in Nat,
           \A r \in Runs : run'[r].pc = "post" =>
               run[r].pc = "post" /\ run'[r].attempt = run[r].attempt
    PROVE  Bounded(d)'
<1>1. /\ IsFiniteSet(Trying(d)')
      /\ Cardinality(Trying(d)') <= Cardinality(Trying(d))
      /\ Cardinality(Trying(d)) \in Nat /\ Cardinality(Trying(d)') \in Nat
  BY FS_Subset, FS_CardinalityType DEF Bounded
<1>2. \A r \in Trying(d)' : run'[r].pc = "post" =>
        run'[r].attempt + Cardinality(Trying(d)') <= Starts(job'[d]) + 1
  <2>. SUFFICES ASSUME NEW r \in Trying(d)', run'[r].pc = "post"
                PROVE  run'[r].attempt + Cardinality(Trying(d)') <= Starts(job'[d]) + 1
    OBVIOUS
  <2>1. r \in Trying(d) /\ r \in Runs
    BY DEF Trying
  <2>2. run[r].attempt + Cardinality(Trying(d)) <= Starts(job[d]) + 1
        /\ run'[r].attempt = run[r].attempt /\ run[r].attempt \in Nat
    BY <2>1 DEF Bounded
  <2>. QED  BY <1>1, <2>2
<1>3. row'[d].attempts + Cardinality(Trying(d)') <= Starts(job'[d])
  BY <1>1 DEF Bounded
<1>. QED  BY <1>1, <1>2, <1>3 DEF Bounded

LEMMA StartsType ==
    ASSUME NEW j \in Job
    PROVE  Starts(j) \in Nat
BY DEF Job, Starts, MaxStalls, CreateQueueAttempts

\* No job is started more often than its attempts and the forgiven stall.
LEMMA StartsBound ==
    ASSUME Inv, NEW d \in Deliveries
    PROVE  Starts(job[d]) <= MaxAttempts + MaxStalls
<1>1. job[d] \in Job /\ (job[d].state \in {"waiting", "active"} => job[d].made < MaxAttempts)
      /\ (job[d].state = "none" => job[d] = NoJob)
  BY DEF Inv, TypeOK, JobsOK
<1>. QED  BY <1>1 DEF Job, Starts, MaxStalls, CreateQueueAttempts, NoJob

LEMMA AttemptsStep == Inv /\ [Next]_vars => AttemptsOK'
<1>. SUFFICES ASSUME Inv, [Next]_vars, NEW d \in Deliveries
              PROVE  Bounded(d)'
  BY DEF AttemptsOK
<1>0. /\ Bounded(d)
      /\ row[d].attempts \in Nat
      /\ \A r \in Runs : run[r].attempt \in Nat
      /\ job[d] \in Job /\ Starts(job[d]) \in Nat
  BY StartsType DEF Inv, AttemptsOK, TypeOK, MaxStalls
<1>. DEFINE Calm == /\ row'[d].attempts = row[d].attempts \/ row'[d].attempts = 0
                    /\ job'[d] \in Job /\ Starts(job'[d]) >= Starts(job[d])
            Older == /\ Trying(d)' \subseteq Trying(d)
                     /\ \A r \in Runs : run'[r].pc = "post" =>
                            run[r].pc = "post" /\ run'[r].attempt = run[r].attempt
<1>1. ASSUME Calm, Older
      PROVE  Bounded(d)'
  <2>1. /\ row'[d].attempts \in Nat /\ row'[d].attempts <= row[d].attempts
        /\ Starts(job'[d]) \in Nat
    BY <1>0, <1>1, StartsType
  <2>. QED  BY <1>0, <1>1, <2>1, BoundKept
<1>2. ASSUME UNCHANGED run
      PROVE  Older
  BY <1>2 DEF Trying
<1>3. ASSUME NEW r \in Runs, run' = [run EXCEPT ![r] = IdleRun]
      PROVE  Older
  BY <1>3 DEF Trying, IdleRun, Inv, TypeOK
<1>4. ASSUME NEW r \in Runs, NEW k, run' = [run EXCEPT ![r] = k], k.pc \notin {"load", "post"}
      PROVE  Older
  BY <1>4 DEF Trying, Inv, TypeOK
<1>5. ASSUME UNCHANGED <<row, job>>
      PROVE  Calm
  BY <1>0, <1>5
<1>6. ASSUME NEW r \in Runs, RunEnds(r)
      PROVE  /\ Older
             /\ job'[d] \in Job /\ Starts(job'[d]) >= Starts(job[d])
  <2>1. Older
    BY <1>3, <1>6 DEF RunEnds
  <2>2. job'[d] = job[d] \/ GoesOn(job[d], job'[d])
    BY <1>6 DEF RunEnds
  <2>3. job'[d] \in Job /\ Starts(job'[d]) >= Starts(job[d])
    BY <1>0, <2>2 DEF GoesOn
  <2>. QED  BY <2>1, <2>3
<1>7. CASE UNCHANGED <<row, job, run>>
  BY <1>1, <1>2, <1>5, <1>7
<1>8. CASE RequestWrite
  BY <1>0, <1>1, <1>2, <1>8 DEF RequestWrite, GoneRow, Inv, TypeOK
<1>9. ASSUME NEW e \in Deliveries, Dispatch(e) \/ Redeliver(e) \/ UndoRedelivery(e) \/ Prune(e)
      PROVE  Bounded(d)'
  BY <1>0, <1>1, <1>2, <1>9
  DEF Dispatch, Redeliver, UndoRedelivery, Prune, SetRow, GoneRow, Inv, TypeOK
<1>10. ASSUME NEW e \in Deliveries, Enqueue(e) \/ EnqueueFails(e)
       PROVE  Bounded(d)'
  <2>1. job'[d] = job[d] \/ (job[d] = NoJob /\ job'[d] = AddedJob)
    BY <1>10 DEF Enqueue, EnqueueFails, Inv, JobsOK, TypeOK
  <2>2. Starts(AddedJob) = Starts(NoJob) /\ AddedJob \in Job /\ Starts(NoJob) = 0
    BY DEF Starts, AddedJob, NoJob, Job, CreateQueueAttempts, MaxStalls
  <2>3. UNCHANGED <<row, run>>
    BY <1>10 DEF Enqueue, EnqueueFails
  <2>. QED  BY <1>0, <1>1, <1>2, <2>1, <2>2, <2>3
<1>11. ASSUME NEW e \in Deliveries, Stall(e)
       PROVE  Bounded(d)'
  <2>1. Older /\ UNCHANGED row
    BY <1>11 DEF Stall, Trying, Inv, TypeOK
  <2>2. CASE e # d
    BY <1>0, <1>1, <1>11, <2>1, <2>2 DEF Stall, Inv, TypeOK
  <2>3. CASE e = d
    <3>1. job'[d] = Settled(Stalled(job[d])) /\ job[d].state = "active"
      BY <1>11, <2>3 DEF Stall, Inv, TypeOK
    <3>2. job[d].made < MaxAttempts
      BY <3>1 DEF Inv, JobsOK
    <3>3. GoesOn(job[d], job'[d])
      BY <1>0, <3>1, <3>2, JobOutcomes
    <3>. QED  BY <1>0, <1>1, <2>1, <3>3 DEF GoesOn
  <2>. QED  BY <2>2, <2>3
<1>12. ASSUME NEW r \in Runs, NEW e \in Deliveries, StartRun(r, e)
       PROVE  Bounded(d)'
  <2>0. UNCHANGED row /\ run[r].pc = "idle" /\ run[r] = IdleRun
    BY <1>12 DEF StartRun, Inv, RunsOK
  <2>1. CASE e # d
    <3>1. Older /\ Calm
      BY <1>0, <1>12, <2>0, <2>1 DEF StartRun, Trying, IdleRun, Inv, TypeOK
    <3>. QED  BY <1>1, <3>1
  <2>2. CASE e = d
    <3>1. /\ job[d].state = "waiting" /\ job'[d] = [job[d] EXCEPT !.state = "active"]
          /\ run'[r].pc = "load" /\ run'[r].delivery = d
          /\ \A s \in Runs : s # r => run'[s] = run[s]
      BY <1>12, <2>2 DEF StartRun, Taken, IdleRun, Inv, TypeOK
    <3>2. Starts(job'[d]) = Starts(job[d]) + 1
      BY <1>0, <3>1 DEF Starts, Job
    <3>3. Trying(d)' = Trying(d) \cup {r} /\ r \notin Trying(d)
      BY <2>0, <3>1 DEF Trying
    <3>4. /\ IsFiniteSet(Trying(d)')
          /\ Cardinality(Trying(d)') = Cardinality(Trying(d)) + 1
          /\ Cardinality(Trying(d)) \in Nat
      BY <1>0, <3>3, FS_AddElement, FS_CardinalityType DEF Bounded
    <3>5. \A s \in Trying(d)' : run'[s].pc = "post" =>
            run'[s].attempt + Cardinality(Trying(d)') <= Starts(job'[d]) + 1
      <4>. SUFFICES ASSUME NEW s \in Trying(d)', run'[s].pc = "post"
                    PROVE  run'[s].attempt + Cardinality(Trying(d)') <= Starts(job'[d]) + 1
        OBVIOUS
      <4>1. s \in Runs /\ s \in Trying(d) /\ run'[s] = run[s]
        BY <3>1, <3>3 DEF Trying
      <4>2. run[s].attempt + Cardinality(Trying(d)) <= Starts(job[d]) + 1
        BY <1>0, <4>1 DEF Bounded
      <4>. QED  BY <1>0, <3>2, <3>4, <4>1, <4>2
    <3>6. row'[d].attempts + Cardinality(Trying(d)') <= Starts(job'[d])
      BY <1>0, <2>0, <3>2, <3>4 DEF Bounded
    <3>. QED  BY <3>4, <3>5, <3>6 DEF Bounded
  <2>. QED  BY <2>1, <2>2
<1>13. ASSUME NEW r \in Runs, Load(r)
       PROVE  Bounded(d)'
  <2>0. UNCHANGED row /\ run[r].pc = "load" /\ run[r].delivery \in Deliveries
    BY <1>13 DEF Load, Inv, RunsOK
  <2>1. CASE ~InTable(run[r].delivery)
    <3>1. RunEnds(r)
      BY <1>13, <2>0, <2>1, RunReturns DEF Load
    <3>. QED  BY <1>1, <1>6, <2>0, <3>1
  <2>2. CASE InTable(run[r].delivery) /\ endpoint.status # "active"
    <3>1. run' = [run EXCEPT ![r] = [run[r] EXCEPT !.pc = "skip"]] /\ UNCHANGED job
      BY <1>13, <2>2 DEF Load
    <3>2. [run[r] EXCEPT !.pc = "skip"].pc \notin {"load", "post"}
      BY DEF Inv, TypeOK
    <3>. QED  BY <1>1, <1>4, <1>5, <2>0, <3>1, <3>2
  <2>3. CASE InTable(run[r].delivery) /\ endpoint.status = "active"
    <3>1. /\ UNCHANGED job
          /\ run'[r].pc = "post" /\ run'[r].attempt = row[run[r].delivery].attempts + 1
          /\ run'[r].delivery = run[r].delivery
          /\ \A s \in Runs : s # r => run'[s] = run[s]
      BY <1>13, <2>3 DEF Load, Inv, TypeOK
    <3>2. Trying(d)' = Trying(d)
      BY <2>0, <3>1 DEF Trying
    <3>3. \A s \in Trying(d) : run'[s].pc = "post" =>
            run'[s].attempt + Cardinality(Trying(d)) <= Starts(job[d]) + 1
      <4>. SUFFICES ASSUME NEW s \in Trying(d), run'[s].pc = "post"
                    PROVE  run'[s].attempt + Cardinality(Trying(d)) <= Starts(job[d]) + 1
        OBVIOUS
      <4>1. CASE s = r
        <5>1. run'[s].attempt = row[d].attempts + 1
          BY <3>1, <4>1 DEF Trying
        <5>2. Cardinality(Trying(d)) \in Nat
          BY <1>0, FS_CardinalityType DEF Bounded
        <5>. QED  BY <1>0, <5>1, <5>2 DEF Bounded
      <4>2. CASE s # r
        <5>1. run'[s] = run[s]
          BY <3>1, <4>2 DEF Trying
        <5>. QED  BY <1>0, <5>1 DEF Bounded
      <4>. QED  BY <4>1, <4>2
    <3>. QED  BY <1>0, <2>0, <3>1, <3>2, <3>3 DEF Bounded
  <2>. QED  BY <2>1, <2>2, <2>3
<1>14. ASSUME NEW r \in Runs, Skip(r)
       PROVE  Bounded(d)'
  <2>1. RunEnds(r)
    BY <1>14, RunReturns DEF Skip
  <2>2. row'[d].attempts = row[d].attempts
    BY <1>14 DEF Skip, SetRow, Inv, TypeOK
  <2>. QED  BY <1>1, <1>6, <2>1, <2>2
<1>15. ASSUME NEW r \in Runs, RecordFailure(r) \/ RecordSuccess(r)
       PROVE  Bounded(d)'
  <2>. DEFINE e == run[r].delivery
  <2>1. /\ UNCHANGED job /\ e \in Deliveries /\ run[r].pc = "post"
        /\ run'[r].pc \in {"bump", "throw", "reset"}
        /\ \A s \in Runs : s # r => run'[s] = run[s]
    BY <1>15 DEF RecordFailure, RecordSuccess, Inv, TypeOK, RunsOK
  <2>2. \/ row'[d].attempts = row[d].attempts
        \/ e = d /\ row'[d].attempts = run[r].attempt
    <3>1. PICK k \in {"failed", "success"} :
            SetRow(e, [status |-> k, attempts |-> run[r].attempt])
      BY <1>15 DEF RecordFailure, RecordSuccess
    <3>2. row' = row \/ row' = [row EXCEPT ![e] = [status |-> k, attempts |-> run[r].attempt]]
      BY <3>1 DEF SetRow
    <3>3. CASE row' = row
      BY <3>3
    <3>4. CASE row' = [row EXCEPT ![e] = [status |-> k, attempts |-> run[r].attempt]]
      <4>1. row'[d] = IF d = e THEN [status |-> k, attempts |-> run[r].attempt] ELSE row[d]
        BY <2>1, <3>4 DEF Inv, TypeOK
      <4>. QED  BY <4>1
    <3>. QED  BY <3>2, <3>3, <3>4
  <2>3. Older
    BY <2>1 DEF Trying
  <2>4. CASE row'[d].attempts = row[d].attempts
    BY <1>0, <1>1, <2>1, <2>3, <2>4
  <2>5. CASE e = d /\ row'[d].attempts = run[r].attempt
    <3>1. Trying(d)' = Trying(d) \ {r} /\ r \in Trying(d)
      BY <2>1, <2>5 DEF Trying
    <3>2. /\ IsFiniteSet(Trying(d)')
          /\ Cardinality(Trying(d)') = Cardinality(Trying(d)) - 1
          /\ Cardinality(Trying(d)) \in Nat /\ Cardinality(Trying(d)') \in Nat
      BY <1>0, <3>1, FS_RemoveElement, FS_CardinalityType DEF Bounded
    <3>3. row'[d].attempts + Cardinality(Trying(d)') <= Starts(job'[d])
      BY <1>0, <2>1, <2>5, <3>1, <3>2 DEF Bounded
    <3>4. \A s \in Trying(d)' : run'[s].pc = "post" =>
            run'[s].attempt + Cardinality(Trying(d)') <= Starts(job'[d]) + 1
      <4>. SUFFICES ASSUME NEW s \in Trying(d)', run'[s].pc = "post"
                    PROVE  run'[s].attempt + Cardinality(Trying(d)') <= Starts(job'[d]) + 1
        OBVIOUS
      <4>1. s \in Runs /\ s \in Trying(d) /\ run'[s] = run[s]
        BY <2>1, <3>1 DEF Trying
      <4>2. run[s].attempt + Cardinality(Trying(d)) <= Starts(job[d]) + 1
        BY <1>0, <4>1 DEF Bounded
      <4>. QED  BY <1>0, <2>1, <3>2, <4>1, <4>2
    <3>. QED  BY <3>2, <3>3, <3>4 DEF Bounded
  <2>. QED  BY <2>2, <2>4, <2>5
<1>16. ASSUME NEW r \in Runs, Bump(r)
       PROVE  Bounded(d)'
  <2>1. run' = [run EXCEPT ![r] = [run[r] EXCEPT !.pc = "throw"]] /\ UNCHANGED <<row, job>>
    BY <1>16 DEF Bump
  <2>2. [run[r] EXCEPT !.pc = "throw"].pc \notin {"load", "post"}
    BY DEF Inv, TypeOK
  <2>. QED  BY <1>1, <1>4, <1>5, <2>1, <2>2
<1>17. ASSUME NEW r \in Runs, ResetFailures(r) \/ Throw(r)
       PROVE  Bounded(d)'
  <2>1. RunEnds(r) /\ UNCHANGED row
    BY <1>17, RunReturns, RunThrows DEF ResetFailures, Throw
  <2>. QED  BY <1>1, <1>6, <2>1
<1>18. ASSUME NEW r \in Runs, Die(r)
       PROVE  Bounded(d)'
  BY <1>1, <1>3, <1>5, <1>18 DEF Die
<1>. QED
  BY <1>7, <1>8, <1>9, <1>10, <1>11, <1>12, <1>13, <1>14, <1>15, <1>16, <1>17, <1>18
  DEF Next, SenderStep, RunStep, vars, CreateWebhook, ForceDisable, Reenable, RequestRead,
      RequestFails, SenderDies

-----------------------------------------------------------------------------
(***************************************************************************)
(* Types, locks and jobs.                                                  *)
(***************************************************************************)
LEMMA InitialInv == Init => Inv
<1>. SUFFICES ASSUME Init
              PROVE  Inv
  OBVIOUS
<1>1. TypeOK
  <2>1. NoJob \in Job
    BY DEF NoJob, Job, CreateQueueAttempts, MaxStalls
  <2>2. 0 \in 0..(MaxAttempts + MaxStalls)
    BY DEF MaxStalls, CreateQueueAttempts
  <2>. QED  BY <2>1, <2>2 DEF Init, TypeOK, NoRow, IdleRun, Idle
<1>2. RunsOK /\ LocksOK
  BY DEF Init, RunsOK, LocksOK, IdleRun
<1>3. JobsOK
  BY DEF Init, JobsOK, WorkedOn, IdleRun, NoJob
<1>4. AttemptsOK
  <2>. SUFFICES ASSUME NEW d \in Deliveries
                PROVE  Bounded(d)
    BY DEF AttemptsOK
  <2>1. Trying(d) = {}
    BY DEF Init, Trying, IdleRun
  <2>2. IsFiniteSet(Trying(d)) /\ Cardinality(Trying(d)) = 0
    BY <2>1, FS_EmptySet
  <2>3. row[d].attempts = 0 /\ Starts(job[d]) = 0
    BY DEF Init, NoRow, NoJob, Starts
  <2>. QED  BY <2>1, <2>2, <2>3 DEF Bounded
<1>. QED  BY <1>1, <1>2, <1>3, <1>4 DEF Inv

RunType == [pc : {"idle", "load", "skip", "post", "bump", "throw", "reset"},
            delivery : Deliveries \cup {NoDelivery}, locked : BOOLEAN,
            attempt : 0..(MaxAttempts + MaxStalls)]

LEMMA RunEdits ==
    ASSUME NEW k \in RunType, NEW p \in {"bump", "throw", "reset"}
    PROVE  /\ [k EXCEPT !.locked = FALSE] \in RunType
           /\ [k EXCEPT !.pc = p, !.attempt = 0] \in RunType
<1>1. 0 \in 0..(MaxAttempts + MaxStalls)
  BY DEF CreateQueueAttempts, MaxStalls
<1>. QED  BY <1>1 DEF RunType

LEMMA TypeStep == Inv /\ [Next]_vars => TypeOK'
<1>. SUFFICES ASSUME Inv, [Next]_vars
              PROVE  TypeOK'
  OBVIOUS
<1>0. TypeOK
  BY DEF Inv
<1>. USE DEF TypeOK, MaxStalls
<1>1. CASE CreateWebhook \/ ForceDisable \/ Reenable
  <2>1. raced' \in BOOLEAN
    BY <1>0, <1>1, Zenon DEF CreateWebhook, ForceDisable, Reenable, NotesRace
  <2>2. UNCHANGED <<row, sender, job, run, request>> /\ exhausted' \subseteq Deliveries
        /\ endpoint' \in [status : {"absent", "active", "disabled", "auto_disabled", "admin_disabled", "deleted"},
                     failures : Nat]
    BY <1>0, <1>1 DEF CreateWebhook, ForceDisable, Reenable
  <2>. QED  BY <1>0, <2>1, <2>2
<1>2. ASSUME NEW command \in Commands, RequestRead(command)
      PROVE  TypeOK'
  BY <1>0, <1>2 DEF RequestRead
<1>3. CASE RequestWrite
  <2>1. request \in {"enable", "disable", "delete"}
    BY <1>0, <1>3 DEF RequestWrite
  <2>2. endpoint' \in [status : {"absent", "active", "disabled", "auto_disabled", "admin_disabled", "deleted"},
                     failures : Nat]
    BY <1>0, <1>3, <2>1 DEF RequestWrite
  <2>3. row' \in [Deliveries ->
                 [status : {"absent", "pending", "skipped", "failed", "success", "gone"},
                  attempts : 0..(MaxAttempts + MaxStalls)]]
    BY <1>0, <1>3 DEF RequestWrite, GoneRow
  <2>. QED  BY <1>0, <1>3, <2>2, <2>3 DEF RequestWrite, Idle
<1>4. CASE RequestFails
  BY <1>0, <1>4 DEF RequestFails, Idle
<1>5. ASSUME NEW d \in Deliveries, Dispatch(d) \/ Redeliver(d) \/ UndoRedelivery(d) \/ Prune(d)
      PROVE  TypeOK'
  BY <1>0, <1>5 DEF Dispatch, Redeliver, UndoRedelivery, Prune, SetRow, GoneRow
<1>6. ASSUME NEW d \in Deliveries, Enqueue(d) \/ EnqueueFails(d) \/ SenderDies(d)
      PROVE  TypeOK'
  <2>1. AddedJob \in Job
    BY DEF AddedJob, NoJob, Job, CreateQueueAttempts
  <2>. QED  BY <1>0, <1>6, <2>1 DEF Enqueue, EnqueueFails, SenderDies
<1>7. ASSUME NEW d \in Deliveries, Stall(d)
      PROVE  TypeOK'
  <2>1. Settled(Stalled(job[d])) \in Job
    BY <1>0, <1>7, JobOutcomes DEF Stall, GoesOn, Inv, JobsOK
  <2>2. job' \in [Deliveries -> Job]
    BY <1>0, <1>7, <2>1 DEF Stall
  <2>3. raced' \in BOOLEAN
    BY <1>0, <1>7, Zenon DEF Stall, NotesRace
  <2>4. run' \in [Runs -> [pc : {"idle", "load", "skip", "post", "bump", "throw", "reset"},
                         delivery : Deliveries \cup {NoDelivery}, locked : BOOLEAN,
                         attempt : 0..(MaxAttempts + MaxStalls)]]
    <3>1. ASSUME NEW r \in Runs
          PROVE  run[r] \in RunType /\ [run[r] EXCEPT !.locked = FALSE] \in RunType
      <4>1. run[r] \in RunType
        BY <1>0 DEF RunType
      <4>. QED  BY <4>1, RunEdits
    <3>2. run' \in [Runs -> RunType]
      BY <1>7, <3>1 DEF Stall
    <3>. QED  BY <3>2 DEF RunType
  <2>. QED  BY <1>0, <1>7, <2>2, <2>3, <2>4 DEF Stall
<1>8. ASSUME NEW r \in Runs, NEW d \in Deliveries, StartRun(r, d)
      PROVE  TypeOK'
  <2>1. Taken(job[d]) \in Job
    BY <1>0 DEF Taken, Job
  <2>2. job' \in [Deliveries -> Job]
    BY <1>0, <1>8, <2>1 DEF StartRun
  <2>3. run' \in [Runs -> [pc : {"idle", "load", "skip", "post", "bump", "throw", "reset"},
                         delivery : Deliveries \cup {NoDelivery}, locked : BOOLEAN,
                         attempt : 0..(MaxAttempts + MaxStalls)]]
    <3>1. 0 \in 0..(MaxAttempts + MaxStalls)
      BY DEF CreateQueueAttempts
    <3>. QED  BY <1>0, <1>8, <3>1 DEF StartRun, IdleRun
  <2>. QED  BY <1>0, <1>8, <2>2, <2>3 DEF StartRun
<1>9. ASSUME NEW r \in Runs, RunEnds(r), UNCHANGED <<sender, request, raced>>,
             endpoint' \in [status : {"absent", "active", "disabled", "auto_disabled", "admin_disabled", "deleted"},
                            failures : Nat],
             row' \in [Deliveries ->
                 [status : {"absent", "pending", "skipped", "failed", "success", "gone"},
                  attempts : 0..(MaxAttempts + MaxStalls)]],
             exhausted' \subseteq Deliveries
      PROVE  TypeOK'
  BY <1>0, <1>9 DEF RunEnds, IdleRun
<1>10. ASSUME NEW r \in Runs, Load(r)
       PROVE  TypeOK'
  <2>. DEFINE d == run[r].delivery
  <2>1. run[r].pc = "load" /\ d \in Deliveries
    BY <1>10 DEF Load, Inv, RunsOK
  <2>2. CASE InTable(d)
    <3>1. row[d].attempts + 1 \in 0..(MaxAttempts + MaxStalls)
      <4>1. IsFiniteSet(Trying(d)) /\ r \in Trying(d)
            /\ row[d].attempts + Cardinality(Trying(d)) <= Starts(job[d])
        BY <2>1 DEF Inv, AttemptsOK, Bounded, Trying
      <4>2. Cardinality(Trying(d)) \in Nat /\ Cardinality(Trying(d)) # 0
        BY <4>1, FS_CardinalityType, FS_EmptySet
      <4>3. Starts(job[d]) <= MaxAttempts + MaxStalls /\ Starts(job[d]) \in Nat
        BY <1>0, <2>1, StartsBound, StartsType
      <4>4. row[d].attempts \in Nat /\ MaxAttempts \in Nat
        BY <1>0, <2>1 DEF CreateQueueAttempts
      <4>. HIDE DEF TypeOK
      <4>. QED  BY <4>1, <4>2, <4>3, <4>4
    <3>. QED  BY <1>0, <1>10, <2>1, <2>2, <3>1 DEF Load
  <2>3. CASE ~InTable(d)
    <3>1. RunEnds(r)
      BY <1>10, <2>1, <2>3, RunReturns DEF Load
    <3>. QED  BY <1>0, <1>9, <1>10, <3>1 DEF Load
  <2>. QED  BY <2>2, <2>3
<1>11. ASSUME NEW r \in Runs, Skip(r)
       PROVE  TypeOK'
  <2>1. RunEnds(r)
    BY <1>11, RunReturns DEF Skip
  <2>2. row' \in [Deliveries ->
                 [status : {"absent", "pending", "skipped", "failed", "success", "gone"},
                  attempts : 0..(MaxAttempts + MaxStalls)]]
    BY <1>0, <1>11 DEF Skip, SetRow, Inv, RunsOK
  <2>. QED  BY <1>0, <1>9, <1>11, <2>1, <2>2 DEF Skip
<1>12. ASSUME NEW r \in Runs, RecordFailure(r) \/ RecordSuccess(r)
       PROVE  TypeOK'
  <2>1. row' \in [Deliveries ->
                 [status : {"absent", "pending", "skipped", "failed", "success", "gone"},
                  attempts : 0..(MaxAttempts + MaxStalls)]]
    <3>1. PICK s \in {"failed", "success"} :
             SetRow(run[r].delivery, [status |-> s, attempts |-> run[r].attempt])
      BY <1>12 DEF RecordFailure, RecordSuccess
    <3>2. run[r].attempt \in 0..(MaxAttempts + MaxStalls)
      BY <1>0
    <3>. QED  BY <1>0, <3>1, <3>2 DEF SetRow
  <2>2. run' \in [Runs -> [pc : {"idle", "load", "skip", "post", "bump", "throw", "reset"},
                         delivery : Deliveries \cup {NoDelivery}, locked : BOOLEAN,
                         attempt : 0..(MaxAttempts + MaxStalls)]]
    <3>1. run \in [Runs -> RunType]
      BY <1>0 DEF RunType
    <3>2. PICK p \in {"bump", "throw", "reset"} :
            run' = [run EXCEPT ![r] = [run[r] EXCEPT !.pc = p, !.attempt = 0]]
      BY <1>12 DEF RecordFailure, RecordSuccess
    <3>3. [run[r] EXCEPT !.pc = p, !.attempt = 0] \in RunType
      BY <3>1, RunEdits
    <3>4. run' \in [Runs -> RunType]
      BY <3>1, <3>2, <3>3
    <3>. QED  BY <3>4 DEF RunType
  <2>. QED  BY <1>0, <1>12, <2>1, <2>2 DEF RecordFailure, RecordSuccess
<1>13. ASSUME NEW r \in Runs, Bump(r)
       PROVE  TypeOK'
  <2>1. endpoint' \in [status : {"absent", "active", "disabled", "auto_disabled", "admin_disabled", "deleted"},
                     failures : Nat]
    BY <1>0, <1>13 DEF Bump
  <2>2. exhausted' \subseteq Deliveries
    BY <1>0, <1>13 DEF Bump, Inv, RunsOK
  <2>. QED  BY <1>0, <1>13, <2>1, <2>2 DEF Bump
<1>14. ASSUME NEW r \in Runs, Throw(r)
       PROVE  TypeOK'
  <2>1. RunEnds(r)
    BY <1>14, RunThrows
  <2>. QED  BY <1>0, <1>9, <1>14, <2>1 DEF Throw
<1>15. ASSUME NEW r \in Runs, ResetFailures(r)
       PROVE  TypeOK'
  <2>1. RunEnds(r)
    BY <1>15, RunReturns DEF ResetFailures
  <2>2. endpoint' \in [status : {"absent", "active", "disabled", "auto_disabled", "admin_disabled", "deleted"},
                     failures : Nat]
    BY <1>0, <1>15 DEF ResetFailures
  <2>. QED  BY <1>0, <1>9, <1>15, <2>1, <2>2 DEF ResetFailures
<1>16. ASSUME NEW r \in Runs, Die(r)
       PROVE  TypeOK'
  BY <1>0, <1>16 DEF Die, IdleRun
<1>17. CASE UNCHANGED vars
  BY <1>0, <1>17 DEF vars
<1>. QED
  BY <1>1, <1>2, <1>3, <1>4, <1>5, <1>6, <1>7, <1>8, <1>10, <1>11, <1>12, <1>13, <1>14,
     <1>15, <1>16, <1>17
  DEF Next, SenderStep, RunStep

\* What a step may do to the runs and to the jobs.
LEMMA LocksStep == Inv /\ [Next]_vars => RunsOK' /\ LocksOK'
<1>. SUFFICES ASSUME Inv, [Next]_vars
              PROVE  RunsOK' /\ LocksOK'
  OBVIOUS
<1>0. TypeOK /\ RunsOK /\ LocksOK
  BY DEF Inv
<1>. USE DEF RunsOK, LocksOK
<1>1. CASE UNCHANGED <<run, job>>
  BY <1>0, <1>1
<1>2. ASSUME NEW r \in Runs, RunEnds(r)
      PROVE  RunsOK' /\ LocksOK'
  <2>1. /\ run'[r] = IdleRun /\ run'[r].locked = FALSE /\ run'[r].pc = "idle"
        /\ \A s \in Runs : s # r => run'[s] = run[s]
    BY <1>0, <1>2 DEF RunEnds, TypeOK, IdleRun
  <2>2. RunsOK'
    BY <1>0, <2>1
  <2>3. ASSUME NEW s \in Runs, run[s].locked, s # r
        PROVE  job'[run[s].delivery] = job[run[s].delivery]
    BY <1>0, <1>2, <2>3 DEF RunEnds
  <2>4. LocksOK'
    BY <1>0, <2>1, <2>3
  <2>. QED  BY <2>2, <2>4
<1>3. ASSUME NEW r \in Runs, NEW p \in {"skip", "post", "bump", "throw", "reset"},
             run[r].pc # "idle", UNCHANGED job,
             run'[r].pc = p, run'[r].delivery = run[r].delivery, run'[r].locked = run[r].locked,
             \A s \in Runs : s # r => run'[s] = run[s]
      PROVE  RunsOK' /\ LocksOK'
  BY <1>0, <1>3
<1>4. ASSUME NEW d \in Deliveries, Enqueue(d) \/ EnqueueFails(d)
      PROVE  RunsOK' /\ LocksOK'
  <2>1. \A r \in Runs : run[r].locked => run[r].delivery # d
    BY <1>0, <1>4 DEF Enqueue, EnqueueFails, Inv, JobsOK
  <2>2. UNCHANGED run /\ \A e \in Deliveries : e # d => job'[e] = job[e]
    BY <1>0, <1>4 DEF Enqueue, EnqueueFails, TypeOK
  <2>. QED  BY <1>0, <2>1, <2>2
<1>5. ASSUME NEW d \in Deliveries, Stall(d)
      PROVE  RunsOK' /\ LocksOK'
  <2>1. /\ \A e \in Deliveries : e # d => job'[e] = job[e]
        /\ \A r \in Runs : run'[r] = IF run[r].delivery = d
                                     THEN [run[r] EXCEPT !.locked = FALSE] ELSE run[r]
    BY <1>0, <1>5 DEF Stall, TypeOK
  <2>2. \A r \in Runs : /\ run'[r].pc = run[r].pc
                        /\ run'[r].delivery = run[r].delivery
                        /\ run'[r].locked <=> run[r].locked /\ run[r].delivery # d
    <3>. SUFFICES ASSUME NEW r \in Runs
                  PROVE  /\ run'[r].pc = run[r].pc
                         /\ run'[r].delivery = run[r].delivery
                         /\ run'[r].locked <=> run[r].locked /\ run[r].delivery # d
      OBVIOUS
    <3>1. run[r] \in [pc : {"idle", "load", "skip", "post", "bump", "throw", "reset"},
                         delivery : Deliveries \cup {NoDelivery}, locked : BOOLEAN,
                         attempt : 0..(MaxAttempts + MaxStalls)]
      BY <1>0 DEF TypeOK
    <3>2. CASE run[r].delivery = d
      BY <2>1, <3>1, <3>2
    <3>3. CASE run[r].delivery # d
      BY <2>1, <3>3
    <3>. QED  BY <3>2, <3>3
  <2>3. RunsOK'
    <3>1. \A r \in Runs : run[r].pc = "idle" => run'[r] = run[r]
      BY <1>0, <2>1 DEF IdleRun
    <3>. QED  BY <1>0, <2>2, <3>1
  <2>4. LocksOK'
    BY <1>0, <2>1, <2>2
  <2>. QED  BY <2>3, <2>4
<1>6. ASSUME NEW r \in Runs, NEW d \in Deliveries, StartRun(r, d)
      PROVE  RunsOK' /\ LocksOK'
  <2>1. /\ run[r].pc = "idle" /\ job[d].state = "waiting"
        /\ run'[r].pc = "load" /\ run'[r].delivery = d /\ job'[d].state = "active"
        /\ \A s \in Runs : s # r => run'[s] = run[s]
        /\ \A e \in Deliveries : e # d => job'[e] = job[e]
    BY <1>0, <1>6 DEF StartRun, Taken, IdleRun, TypeOK, Job
  <2>2. \A s \in Runs : run[s].locked => run[s].delivery # d
    BY <1>0, <2>1
  <2>. QED  BY <1>0, <2>1, <2>2
<1>7. ASSUME NEW r \in Runs, Load(r)
      PROVE  RunsOK' /\ LocksOK'
  <2>1. run[r].pc = "load"
    BY <1>7 DEF Load
  <2>2. CASE InTable(run[r].delivery)
    <3>. DEFINE p == IF endpoint.status = "active" THEN "post" ELSE "skip"
    <3>1. /\ UNCHANGED job
          /\ run'[r].pc = p /\ run'[r].delivery = run[r].delivery
          /\ run'[r].locked = run[r].locked
          /\ \A s \in Runs : s # r => run'[s] = run[s]
      BY <1>0, <1>7, <2>2 DEF Load, TypeOK
    <3>. QED  BY <1>3, <2>1, <3>1
  <2>3. CASE ~InTable(run[r].delivery)
    BY <1>2, <1>7, <2>1, <2>3, RunReturns DEF Load
  <2>. QED  BY <2>2, <2>3
<1>8. ASSUME NEW r \in Runs, RecordFailure(r) \/ RecordSuccess(r) \/ Bump(r)
      PROVE  RunsOK' /\ LocksOK'
  <2>1. /\ run[r].pc # "idle" /\ UNCHANGED job
        /\ run'[r].pc \in {"bump", "throw", "reset"}
        /\ run'[r].delivery = run[r].delivery /\ run'[r].locked = run[r].locked
        /\ \A s \in Runs : s # r => run'[s] = run[s]
    BY <1>0, <1>8 DEF RecordFailure, RecordSuccess, Bump, TypeOK
  <2>. QED  BY <1>3, <2>1
<1>9. ASSUME NEW r \in Runs, Skip(r) \/ ResetFailures(r) \/ Throw(r)
      PROVE  RunsOK' /\ LocksOK'
  <2>1. RunEnds(r)
    BY <1>9, RunReturns, RunThrows DEF Skip, ResetFailures
  <2>. QED  BY <1>2, <2>1
<1>10. ASSUME NEW r \in Runs, Die(r)
       PROVE  RunsOK' /\ LocksOK'
  <2>1. /\ run'[r] = IdleRun /\ run'[r].locked = FALSE /\ run'[r].pc = "idle" /\ UNCHANGED job
        /\ \A s \in Runs : s # r => run'[s] = run[s]
    BY <1>0, <1>10 DEF Die, TypeOK, IdleRun
  <2>. QED  BY <1>0, <2>1
<1>. QED
  BY <1>1, <1>4, <1>5, <1>6, <1>7, <1>8, <1>9, <1>10
  DEF Next, SenderStep, RunStep, vars, CreateWebhook, ForceDisable, Reenable, RequestRead,
      RequestWrite, RequestFails, SenderDies, Dispatch, Redeliver, UndoRedelivery, Prune

LEMMA JobsStep == Inv /\ [Next]_vars => JobsOK'
<1>. SUFFICES ASSUME Inv, [Next]_vars
              PROVE  JobsOK'
  OBVIOUS
<1>0. TypeOK /\ RunsOK /\ LocksOK /\ JobsOK
  BY DEF Inv
<1>. USE DEF JobsOK
<1>W. ASSUME \A r \in Runs : run'[r].pc # "idle" => run'[r].delivery = run[r].delivery /\ run[r].pc # "idle",
             RunsOK'
      PROVE  \A d \in Deliveries : ~WorkedOn(d) => ~WorkedOn(d)'
  BY <1>0, <1>W DEF WorkedOn, RunsOK, IdleRun
<1>V. RunsOK'
  BY LocksStep
<1>1. CASE UNCHANGED <<row, sender, run, job>>
  BY <1>0, <1>1 DEF WorkedOn
<1>2. ASSUME NEW r \in Runs, RunEnds(r), UNCHANGED sender,
             \A d \in Deliveries : row'[d].status = "absent" => row[d].status = "absent"
      PROVE  JobsOK'
  <2>1. \A d \in Deliveries : ~WorkedOn(d) => ~WorkedOn(d)'
    BY <1>0, <1>2, <1>V, <1>W DEF RunEnds, TypeOK, IdleRun
  <2>2. ASSUME NEW d \in Deliveries
        PROVE  \/ job'[d] = job[d]
               \/ job[d].state = "active" /\ job'[d].state # "none"
                  /\ job'[d].state # "active"
                  /\ (job'[d].state = "waiting" => job'[d].made < MaxAttempts)
    BY <1>0, <1>2 DEF RunEnds, GoesOn, LocksOK
  <2>. QED  BY <1>0, <1>2, <2>1, <2>2
<1>3. ASSUME NEW d \in Deliveries, Dispatch(d) \/ Redeliver(d)
      PROVE  JobsOK'
  <2>1. /\ row[d].status = "absent" /\ row'[d].status = "pending" /\ UNCHANGED <<run, job>>
        /\ \A e \in Deliveries : e # d => row'[e] = row[e] /\ sender'[e] = sender[e]
    BY <1>0, <1>3 DEF Dispatch, Redeliver, NoRow, TypeOK
  <2>. QED  BY <1>0, <2>1 DEF WorkedOn
<1>4. ASSUME NEW d \in Deliveries, UndoRedelivery(d) \/ Prune(d) \/ SenderDies(d)
      PROVE  JobsOK'
  <2>1. /\ UNCHANGED <<run, job>>
        /\ \A e \in Deliveries : row'[e].status = "absent" => row[e].status = "absent"
        /\ \A e \in Deliveries : e # d => sender'[e] = sender[e]
        /\ sender'[d] \in {"none", "died"} \/ sender'[d] = sender[d]
        /\ row[d].status = "absent" => sender'[d] = sender[d]
    BY <1>0, <1>4 DEF UndoRedelivery, Prune, SenderDies, SetRow, GoneRow, InTable, TypeOK
  <2>. QED  BY <1>0, <2>1 DEF WorkedOn
<1>5. ASSUME NEW d \in Deliveries, Enqueue(d) \/ EnqueueFails(d)
      PROVE  JobsOK'
  <2>1. /\ UNCHANGED <<run, row>> /\ sender'[d] \notin {"notify", "redeliver"}
        /\ row[d].status # "absent"
        /\ job'[d] = job[d] \/ job'[d] = AddedJob
        /\ \A e \in Deliveries : e # d => sender'[e] = sender[e] /\ job'[e] = job[e]
    BY <1>0, <1>5 DEF Enqueue, EnqueueFails, TypeOK
  <2>2. AddedJob.state = "waiting" /\ AddedJob.made < MaxAttempts
    BY DEF AddedJob, NoJob
  <2>. QED  BY <1>0, <2>1, <2>2 DEF WorkedOn
<1>6. ASSUME NEW d \in Deliveries, Stall(d)
      PROVE  JobsOK'
  <2>1. /\ \A e \in Deliveries : e # d => job'[e] = job[e]
        /\ job[d].state = "active" /\ GoesOn(job[d], job'[d]) /\ UNCHANGED <<row, sender>>
    BY <1>0, <1>6, JobOutcomes DEF Stall, TypeOK
  <2>2. \A e \in Deliveries : ~WorkedOn(e) => ~WorkedOn(e)'
    BY <1>0, <1>6 DEF Stall, WorkedOn, TypeOK
  <2>. QED  BY <1>0, <2>1, <2>2 DEF GoesOn
<1>7. ASSUME NEW r \in Runs, NEW d \in Deliveries, StartRun(r, d)
      PROVE  JobsOK'
  <2>1. /\ job[d].state = "waiting" /\ job'[d].state = "active" /\ job'[d].made = job[d].made
        /\ \A e \in Deliveries : e # d => job'[e] = job[e]
        /\ UNCHANGED <<row, sender>>
    BY <1>0, <1>7 DEF StartRun, Taken, TypeOK, Job
  <2>2. \A e \in Deliveries : e # d /\ ~WorkedOn(e) => ~WorkedOn(e)'
    BY <1>0, <1>7 DEF StartRun, WorkedOn, TypeOK, IdleRun
  <2>. QED  BY <1>0, <2>1, <2>2
<1>8. ASSUME NEW r \in Runs, Load(r)
      PROVE  JobsOK'
  <2>1. CASE InTable(run[r].delivery)
    <3>1. \A d \in Deliveries : ~WorkedOn(d) => ~WorkedOn(d)'
      <4>1. \A s \in Runs : run'[s].delivery = run[s].delivery
        <5>1. CASE endpoint.status = "active"
          BY <1>0, <1>8, <2>1, <5>1 DEF Load, TypeOK
        <5>2. CASE endpoint.status # "active"
          BY <1>0, <1>8, <2>1, <5>2 DEF Load, TypeOK
        <5>. QED  BY <5>1, <5>2
      <4>. QED  BY <4>1 DEF WorkedOn
    <3>2. UNCHANGED <<job, row, sender>>
      BY <1>8, <2>1 DEF Load
    <3>. QED  BY <1>0, <3>1, <3>2
  <2>2. CASE ~InTable(run[r].delivery)
    BY <1>2, <1>8, <2>2, RunReturns DEF Load
  <2>. QED  BY <2>1, <2>2
<1>9. ASSUME NEW r \in Runs, RecordFailure(r) \/ RecordSuccess(r) \/ Bump(r)
      PROVE  JobsOK'
  <2>1. \A d \in Deliveries : ~WorkedOn(d) => ~WorkedOn(d)'
    BY <1>0, <1>9 DEF RecordFailure, RecordSuccess, Bump, WorkedOn, TypeOK
  <2>2. UNCHANGED <<job, sender>>
        /\ \A d \in Deliveries : row'[d].status = "absent" => row[d].status = "absent"
    <3>1. UNCHANGED <<job, sender>>
      BY <1>9 DEF RecordFailure, RecordSuccess, Bump
    <3>2. \/ UNCHANGED row
          \/ \E k \in {"failed", "success"} :
                row' = [row EXCEPT ![run[r].delivery] = [status |-> k, attempts |-> run[r].attempt]]
      BY <1>9 DEF RecordFailure, RecordSuccess, Bump, SetRow
    <3>. QED  BY <1>0, <3>1, <3>2 DEF TypeOK
  <2>. QED  BY <1>0, <2>1, <2>2
<1>10. ASSUME NEW r \in Runs, Skip(r)
       PROVE  JobsOK'
  <2>1. \A d \in Deliveries : row'[d].status = "absent" => row[d].status = "absent"
    BY <1>0, <1>10 DEF Skip, SetRow, TypeOK, InTable
  <2>. QED  BY <1>2, <1>10, <2>1, RunReturns DEF Skip
<1>11. ASSUME NEW r \in Runs, ResetFailures(r) \/ Throw(r)
       PROVE  JobsOK'
  <2>1. RunEnds(r) /\ UNCHANGED <<row, sender>>
    BY <1>11, RunReturns, RunThrows DEF ResetFailures, Throw
  <2>. QED  BY <1>2, <2>1
<1>12. ASSUME NEW r \in Runs, Die(r)
       PROVE  JobsOK'
  <2>1. \A d \in Deliveries : ~WorkedOn(d) => ~WorkedOn(d)'
    BY <1>0, <1>12, <1>V, <1>W DEF Die, TypeOK, IdleRun
  <2>. QED  BY <1>0, <1>12, <2>1 DEF Die
<1>13. CASE RequestWrite
  <2>1. \A d \in Deliveries : row'[d].status = "absent" => row[d].status = "absent"
    BY <1>0, <1>13 DEF RequestWrite, GoneRow, TypeOK
  <2>. QED  BY <1>0, <1>13, <2>1 DEF RequestWrite, WorkedOn
<1>. QED
  BY <1>1, <1>3, <1>4, <1>5, <1>6, <1>7, <1>8, <1>9, <1>10, <1>11, <1>12, <1>13
  DEF Next, SenderStep, RunStep, vars, CreateWebhook, ForceDisable, Reenable, RequestRead,
      RequestFails

LEMMA InvStep == Inv /\ [Next]_vars => Inv'
BY TypeStep, LocksStep, JobsStep, AttemptsStep DEF Inv

-----------------------------------------------------------------------------
(***************************************************************************)
(* No delivery is left pending.                                            *)
(***************************************************************************)
\* What a run recorded stays recorded: no delivery becomes pending again.
RecordsOK == \A r \in Runs :
    run[r].pc \in {"bump", "throw", "reset"} => row[run[r].delivery].status # "pending"

\* No step but the insert of a row makes a delivery pending.
LEMMA PendingIsNew ==
    ASSUME Inv, [Next]_vars, NEW d \in Deliveries, row'[d].status = "pending"
    PROVE  row[d].status = "pending" \/ Dispatch(d) \/ Redeliver(d)
<1>0. TypeOK
  BY DEF Inv
<1>1. CASE UNCHANGED row
  BY <1>1
<1>2. CASE RequestWrite
  BY <1>0, <1>2 DEF RequestWrite, GoneRow, TypeOK
<1>3. ASSUME NEW e \in Deliveries, Dispatch(e) \/ Redeliver(e)
      PROVE  row[d].status = "pending" \/ Dispatch(d) \/ Redeliver(d)
  BY <1>0, <1>3 DEF Dispatch, Redeliver, TypeOK
<1>4. ASSUME NEW e, NEW k, SetRow(e, k), k.status # "pending"
      PROVE  row[d].status = "pending"
  <2>1. row' = row \/ row' = [row EXCEPT ![e] = k]
    BY <1>4 DEF SetRow
  <2>. QED  BY <1>0, <1>4, <2>1 DEF TypeOK
<1>5. ASSUME NEW e \in Deliveries, UndoRedelivery(e)
      PROVE  row[d].status = "pending"
  BY <1>4, <1>5 DEF UndoRedelivery, GoneRow
<1>6. ASSUME NEW e \in Deliveries, Prune(e)
      PROVE  row[d].status = "pending"
  BY <1>0, <1>6 DEF Prune, GoneRow, TypeOK
<1>7. ASSUME NEW r \in Runs, Skip(r)
      PROVE  row[d].status = "pending"
  <2>. DEFINE k == [row[run[r].delivery] EXCEPT !.status = "skipped"]
  <2>1. run[r].delivery \in Deliveries /\ SetRow(run[r].delivery, k)
    BY <1>7 DEF Skip, Inv, RunsOK
  <2>2. k.status # "pending"
    BY <1>0, <2>1 DEF TypeOK
  <2>. HIDE DEF k
  <2>. QED  BY <1>4, <2>1, <2>2
<1>8. ASSUME NEW r \in Runs, RecordFailure(r)
      PROVE  row[d].status = "pending"
  <2>. DEFINE k == [status |-> "failed", attempts |-> run[r].attempt]
  <2>1. SetRow(run[r].delivery, k) /\ k.status # "pending"
    BY <1>8 DEF RecordFailure
  <2>. HIDE DEF k
  <2>. QED  BY <1>4, <2>1
<1>9. ASSUME NEW r \in Runs, RecordSuccess(r)
      PROVE  row[d].status = "pending"
  <2>. DEFINE k == [status |-> "success", attempts |-> run[r].attempt]
  <2>1. SetRow(run[r].delivery, k) /\ k.status # "pending"
    BY <1>9 DEF RecordSuccess
  <2>. HIDE DEF k
  <2>. QED  BY <1>4, <2>1
<1>. QED
  BY <1>1, <1>2, <1>3, <1>5, <1>6, <1>7, <1>8, <1>9
  DEF Next, SenderStep, RunStep, vars, CreateWebhook, ForceDisable, Reenable, RequestRead,
      RequestFails, Enqueue, EnqueueFails, SenderDies, Stall, StartRun, Load, Bump, Throw,
      ResetFailures, Die

\* A row is set to what a run records, unless it is gone.
LEMMA RowSet ==
    ASSUME TypeOK, NEW d \in Deliveries, NEW k, SetRow(d, k), k.status # "pending"
    PROVE  row'[d].status # "pending"
<1>1. CASE InTable(d)
  BY <1>1 DEF SetRow, TypeOK
<1>2. CASE ~InTable(d)
  BY <1>2 DEF SetRow, InTable
<1>. QED  BY <1>1, <1>2

LEMMA RecordsStep == Inv /\ RecordsOK /\ [Next]_vars => RecordsOK'
<1>. SUFFICES ASSUME Inv, RecordsOK, [Next]_vars, NEW r \in Runs,
                     run'[r].pc \in {"bump", "throw", "reset"}
              PROVE  row'[run'[r].delivery].status # "pending"
  BY DEF RecordsOK
<1>0. TypeOK /\ RunsOK
  BY DEF Inv
<1>. DEFINE d == run[r].delivery
<1>1. ASSUME run[r].pc \in {"bump", "throw", "reset"}, run'[r].delivery = d
      PROVE  row'[run'[r].delivery].status # "pending"
  <2>1. d \in Deliveries /\ row[d].status # "pending"
    BY <1>0, <1>1 DEF RecordsOK, RunsOK
  <2>2. row[d].status # "absent"
    BY <1>1, <2>1 DEF Inv, JobsOK, WorkedOn
  <2>3. ~Dispatch(d) /\ ~Redeliver(d)
    BY <2>2 DEF Dispatch, Redeliver, NoRow
  <2>. QED  BY <1>1, <2>1, <2>3, PendingIsNew
<1>2. CASE UNCHANGED run
  BY <1>1, <1>2
<1>3. ASSUME NEW s \in Runs, run' = [run EXCEPT ![s] = IdleRun]
      PROVE  row'[run'[r].delivery].status # "pending"
  <2>1. r # s /\ run'[r] = run[r]
    BY <1>0, <1>3 DEF IdleRun, TypeOK
  <2>. QED  BY <1>1, <2>1
<1>4. ASSUME NEW s \in Runs, NEW e \in Deliveries, StartRun(s, e)
      PROVE  row'[run'[r].delivery].status # "pending"
  <2>1. r # s /\ run'[r] = run[r]
    BY <1>0, <1>4 DEF StartRun, IdleRun, TypeOK
  <2>. QED  BY <1>1, <2>1
<1>5. ASSUME NEW s \in Runs, Load(s)
      PROVE  row'[run'[r].delivery].status # "pending"
  <2>1. CASE InTable(run[s].delivery)
    <3>1. r # s /\ run'[r] = run[r]
      <4>1. CASE endpoint.status = "active"
        BY <1>0, <1>5, <2>1, <4>1 DEF Load, TypeOK
      <4>2. CASE endpoint.status # "active"
        BY <1>0, <1>5, <2>1, <4>2 DEF Load, TypeOK
      <4>. QED  BY <4>1, <4>2
    <3>. QED  BY <1>1, <3>1
  <2>2. CASE ~InTable(run[s].delivery)
    BY <1>3, <1>5, <2>2 DEF Load, EndRun
  <2>. QED  BY <2>1, <2>2
<1>6. ASSUME NEW s \in Runs, RecordFailure(s) \/ RecordSuccess(s)
      PROVE  row'[run'[r].delivery].status # "pending"
  <2>1. CASE r # s
    <3>1. run'[r] = run[r]
      BY <1>0, <1>6, <2>1 DEF RecordFailure, RecordSuccess, TypeOK
    <3>. QED  BY <1>1, <3>1
  <2>2. CASE r = s
    <3>1. d \in Deliveries /\ run'[r].delivery = d
      BY <1>0, <1>6, <2>2 DEF RecordFailure, RecordSuccess, TypeOK, RunsOK
    <3>2. PICK k \in {"failed", "success"} :
            SetRow(d, [status |-> k, attempts |-> run[r].attempt])
      BY <1>6, <2>2 DEF RecordFailure, RecordSuccess
    <3>3. [status |-> k, attempts |-> run[r].attempt].status # "pending"
      OBVIOUS
    <3>. QED  BY <1>0, <3>1, <3>2, <3>3, RowSet
  <2>. QED  BY <2>1, <2>2
<1>7. ASSUME NEW s \in Runs, Bump(s)
      PROVE  row'[run'[r].delivery].status # "pending"
  <2>1. run[r].pc \in {"bump", "throw", "reset"} /\ run'[r].delivery = d
    BY <1>0, <1>7 DEF Bump, TypeOK
  <2>. QED  BY <1>1, <2>1
<1>8. ASSUME NEW s \in Runs, Skip(s) \/ ResetFailures(s) \/ Throw(s) \/ Die(s)
      PROVE  row'[run'[r].delivery].status # "pending"
  BY <1>3, <1>8 DEF Skip, ResetFailures, Throw, Die, EndRun
<1>9. ASSUME NEW e \in Deliveries, Stall(e)
      PROVE  row'[run'[r].delivery].status # "pending"
  <2>1. run'[r].pc = run[r].pc /\ run'[r].delivery = d
    BY <1>0, <1>9 DEF Stall, TypeOK
  <2>. QED  BY <1>1, <2>1
<1>. QED
  BY <1>2, <1>4, <1>5, <1>6, <1>7, <1>8, <1>9
  DEF Next, SenderStep, RunStep, vars, CreateWebhook, ForceDisable, Reenable, RequestRead,
      RequestWrite, RequestFails, SenderDies, Dispatch, Redeliver, UndoRedelivery, Prune,
      Enqueue, EnqueueFails

LEMMA PendingStep == Inv /\ RecordsOK /\ PendingHasJob /\ [Next]_vars => PendingHasJob'
<1>. SUFFICES ASSUME Inv, RecordsOK, PendingHasJob, [Next]_vars, NEW d \in Deliveries,
                     row'[d].status = "pending"
              PROVE  sender'[d] # "none" \/ job'[d].state \in {"waiting", "active", "failed"}
  BY DEF PendingHasJob
<1>0. TypeOK /\ RunsOK
  BY DEF Inv
<1>1. CASE Dispatch(d) \/ Redeliver(d)
  BY <1>0, <1>1 DEF Dispatch, Redeliver, TypeOK
<1>. SUFFICES ASSUME row[d].status = "pending"
              PROVE  sender'[d] # "none" \/ job'[d].state \in {"waiting", "active", "failed"}
  BY <1>1, PendingIsNew
<1>2. sender[d] # "none" \/ job[d].state \in {"waiting", "active", "failed"}
  BY DEF PendingHasJob
<1>3. CASE sender'[d] = sender[d] /\ job'[d] = job[d]
  BY <1>2, <1>3
<1>4. ASSUME NEW e \in Deliveries, Dispatch(e) \/ Redeliver(e) \/ SenderDies(e)
      PROVE  sender'[d] # "none" \/ job'[d].state \in {"waiting", "active", "failed"}
  BY <1>0, <1>2, <1>4 DEF Dispatch, Redeliver, SenderDies, TypeOK
<1>5. ASSUME NEW e \in Deliveries, Enqueue(e) \/ EnqueueFails(e)
      PROVE  sender'[d] # "none" \/ job'[d].state \in {"waiting", "active", "failed"}
  <2>1. AddedJob.state = "waiting"
    BY DEF AddedJob, NoJob
  <2>2. CASE e = d
    BY <1>0, <1>5, <2>1, <2>2 DEF Enqueue, EnqueueFails, TypeOK
  <2>3. CASE e # d
    BY <1>0, <1>3, <1>5, <2>3 DEF Enqueue, EnqueueFails, TypeOK
  <2>. QED  BY <2>2, <2>3
<1>6. ASSUME NEW e \in Deliveries, UndoRedelivery(e)
      PROVE  sender'[d] # "none" \/ job'[d].state \in {"waiting", "active", "failed"}
  <2>1. e # d
    BY <1>0, <1>6, RowSet DEF UndoRedelivery, GoneRow
  <2>. QED  BY <1>0, <1>3, <1>6, <2>1 DEF UndoRedelivery, TypeOK
<1>7. ASSUME NEW e \in Deliveries, Stall(e)
      PROVE  sender'[d] # "none" \/ job'[d].state \in {"waiting", "active", "failed"}
  <2>1. CASE e = d
    <3>1. job'[d] = Settled(Stalled(job[d])) /\ job[d] \in Job
          /\ job[d].state = "active" /\ job[d].made < MaxAttempts
      BY <1>0, <1>7, <2>1 DEF Stall, TypeOK, Inv, JobsOK
    <3>. QED  BY <3>1, JobOutcomes
  <2>2. CASE e # d
    BY <1>0, <1>3, <1>7, <2>2 DEF Stall, TypeOK
  <2>. QED  BY <2>1, <2>2
<1>8. ASSUME NEW r \in Runs, NEW e \in Deliveries, StartRun(r, e)
      PROVE  sender'[d] # "none" \/ job'[d].state \in {"waiting", "active", "failed"}
  BY <1>0, <1>2, <1>8 DEF StartRun, Taken, TypeOK, Job
<1>9. ASSUME NEW r \in Runs, RunEnds(r), UNCHANGED sender,
             run[r].locked => run[r].delivery # d
      PROVE  sender'[d] # "none" \/ job'[d].state \in {"waiting", "active", "failed"}
  BY <1>3, <1>9 DEF RunEnds
<1>10. ASSUME NEW r \in Runs, Load(r)
       PROVE  sender'[d] # "none" \/ job'[d].state \in {"waiting", "active", "failed"}
  <2>1. CASE InTable(run[r].delivery)
    BY <1>3, <1>10, <2>1 DEF Load
  <2>2. CASE ~InTable(run[r].delivery)
    <3>1. run[r].delivery # d
      BY <2>2 DEF InTable
    <3>. QED  BY <1>9, <1>10, <2>2, <3>1, RunReturns DEF Load
  <2>. QED  BY <2>1, <2>2
<1>11. ASSUME NEW r \in Runs, Skip(r)
       PROVE  sender'[d] # "none" \/ job'[d].state \in {"waiting", "active", "failed"}
  <2>. DEFINE k == [row[run[r].delivery] EXCEPT !.status = "skipped"]
  <2>1. run[r].delivery \in Deliveries /\ SetRow(run[r].delivery, k)
    BY <1>0, <1>11 DEF Skip, RunsOK
  <2>2. k.status # "pending"
    BY <1>0, <2>1 DEF TypeOK
  <2>. HIDE DEF k
  <2>3. run[r].delivery # d
    BY <1>0, <2>1, <2>2, RowSet
  <2>. QED  BY <1>9, <1>11, <2>3, RunReturns DEF Skip
<1>12. ASSUME NEW r \in Runs, ResetFailures(r)
       PROVE  sender'[d] # "none" \/ job'[d].state \in {"waiting", "active", "failed"}
  <2>1. run[r].delivery # d
    BY <1>12 DEF ResetFailures, RecordsOK
  <2>. QED  BY <1>9, <1>12, <2>1, RunReturns DEF ResetFailures
<1>13. ASSUME NEW r \in Runs, Throw(r)
       PROVE  sender'[d] # "none" \/ job'[d].state \in {"waiting", "active", "failed"}
  <2>1. CASE run[r].locked /\ run[r].delivery = d
    BY <1>13, <2>1, RunThrows
  <2>2. CASE ~(run[r].locked /\ run[r].delivery = d)
    BY <1>9, <1>13, <2>2, RunThrows DEF Throw
  <2>. QED  BY <2>1, <2>2
<1>. QED
  BY <1>3, <1>4, <1>5, <1>6, <1>7, <1>8, <1>10, <1>11, <1>12, <1>13
  DEF Next, SenderStep, RunStep, vars, CreateWebhook, ForceDisable, Reenable, RequestRead,
      RequestWrite, RequestFails, Prune, RecordFailure, RecordSuccess, Bump, Die

\* Every state is well typed -- no delivery is tried more often than its job's attempts
\* and the forgiven stall -- and a pending delivery has a sender or a job, whatever
\* stalls, dies, fails to enqueue or races.
THEOREM DeliveriesAlwaysHold == Spec => []DeliveriesHold
<1>1. Init => Inv /\ RecordsOK /\ PendingHasJob
  <2>1. Init => RecordsOK /\ PendingHasJob
    BY DEF Init, RecordsOK, PendingHasJob, IdleRun, NoRow
  <2>. QED  BY <2>1, InitialInv
<1>2. Inv /\ RecordsOK /\ PendingHasJob /\ [Next]_vars => (Inv /\ RecordsOK /\ PendingHasJob)'
  BY InvStep, RecordsStep, PendingStep
<1>3. Inv /\ RecordsOK /\ PendingHasJob => DeliveriesHold
  BY DEF Inv, DeliveriesHold
<1>. QED  BY <1>1, <1>2, <1>3, PTL DEF Spec

-----------------------------------------------------------------------------
(***************************************************************************)
(* The endpoint's failures and its lock.                                   *)
(***************************************************************************)
\* The deliveries counted as failures are among the failures of the endpoint, and
\* an active endpoint has fewer than the threshold.
FailuresOK ==
    /\ IsFiniteSet(exhausted)
    /\ Cardinality(exhausted) <= endpoint.failures
    /\ endpoint.status = "active" => endpoint.failures < Threshold
    /\ endpoint.status = "absent" => exhausted = {}

\* One more member: at most one more to count.
LEMMA CountOneMore ==
    ASSUME NEW S, IsFiniteSet(S), NEW d
    PROVE  /\ IsFiniteSet(S \cup {d})
           /\ Cardinality(S) \in Nat /\ Cardinality(S \cup {d}) \in Nat
           /\ Cardinality(S \cup {d}) <= Cardinality(S) + 1
<1>1. IsFiniteSet(S \cup {d})
  BY FS_AddElement
<1>2. Cardinality(S \cup {d}) = IF d \in S THEN Cardinality(S) ELSE Cardinality(S) + 1
  BY FS_AddElement
<1>3. Cardinality(S) \in Nat /\ Cardinality(S \cup {d}) \in Nat
  BY <1>1, FS_CardinalityType
<1>4. CASE d \in S
  <2>1. Cardinality(S \cup {d}) = Cardinality(S)
    BY <1>2, <1>4
  <2>. QED  BY <1>1, <1>3, <2>1
<1>5. CASE d \notin S
  <2>1. Cardinality(S \cup {d}) = Cardinality(S) + 1
    BY <1>2, <1>5
  <2>. QED  BY <1>1, <1>3, <2>1
<1>. QED  BY <1>4, <1>5

LEMMA FailuresStep == Inv /\ FailuresOK /\ [Next]_vars => FailuresOK'
<1>. SUFFICES ASSUME Inv, FailuresOK, [Next]_vars
              PROVE  FailuresOK'
  OBVIOUS
<1>0. TypeOK
  BY DEF Inv
<1>1. IsFiniteSet({}) /\ Cardinality({}) = 0
  BY FS_EmptySet
<1>. USE DEF FailuresOK
<1>2. CASE UNCHANGED <<endpoint, exhausted>>
  BY <1>2
<1>3. ASSUME exhausted' = {}, endpoint'.failures = 0
      PROVE  FailuresOK'
  BY <1>1, <1>3
<1>4. CASE CreateWebhook
  BY <1>3, <1>4 DEF CreateWebhook
<1>5. CASE Reenable
  BY <1>3, <1>5 DEF Reenable
<1>6. CASE ForceDisable
  BY <1>0, <1>6 DEF ForceDisable, TypeOK
<1>7. CASE RequestWrite
  <2>1. request \in {"enable", "disable", "delete"}
    BY <1>0, <1>7 DEF RequestWrite, TypeOK
  <2>2. CASE request = "disable"
    BY <1>0, <1>7, <2>2 DEF RequestWrite, TypeOK
  <2>3. CASE request # "disable"
    BY <1>3, <1>7, <2>1, <2>3 DEF RequestWrite
  <2>. QED  BY <2>2, <2>3
<1>8. ASSUME NEW r \in Runs, Bump(r)
      PROVE  FailuresOK'
  <2>1. CASE Exists
    <3>1. /\ exhausted' = exhausted \cup {run[r].delivery}
          /\ endpoint'.failures = endpoint.failures + 1
          /\ endpoint'.status = "active" => endpoint.failures + 1 < Threshold
          /\ endpoint'.status # "absent"
      <4>1. /\ exhausted' = exhausted \cup {run[r].delivery}
            /\ endpoint' = [status |-> IF endpoint.failures + 1 >= Threshold
                                       THEN "auto_disabled" ELSE endpoint.status,
                            failures |-> endpoint.failures + 1]
        BY <1>8, <2>1 DEF Bump
      <4>2. endpoint.failures \in Nat /\ endpoint.status # "absent"
        BY <1>0, <2>1 DEF TypeOK, Exists
      <4>3. endpoint'.failures = endpoint.failures + 1
        BY <4>1
      <4>4. endpoint'.status = IF endpoint.failures + 1 >= Threshold
                               THEN "auto_disabled" ELSE endpoint.status
        BY <4>1
      <4>. QED  BY <4>1, <4>2, <4>3, <4>4
    <3>2. IsFiniteSet(exhausted') /\ Cardinality(exhausted') <= Cardinality(exhausted) + 1
          /\ Cardinality(exhausted) \in Nat /\ Cardinality(exhausted') \in Nat
      <4>1. IsFiniteSet(exhausted)
        BY DEF FailuresOK
      <4>2. PICK d : d = run[r].delivery
        OBVIOUS
      <4>3. exhausted' = exhausted \cup {d}
        BY <3>1, <4>2
      <4>. QED  BY <4>1, <4>3, CountOneMore
    <3>3. endpoint.failures \in Nat
      BY <1>0 DEF TypeOK
    <3>. QED  BY <3>1, <3>2, <3>3
  <2>2. CASE ~Exists
    <3>1. exhausted' = {} /\ endpoint' = endpoint /\ endpoint.status # "active"
      BY <1>8, <2>2 DEF Bump, Exists
    <3>2. endpoint.failures \in Nat
      BY <1>0 DEF TypeOK
    <3>. QED  BY <1>1, <3>1, <3>2
  <2>. QED  BY <2>1, <2>2
<1>9. ASSUME NEW r \in Runs, ResetFailures(r)
      PROVE  FailuresOK'
  <2>1. CASE Exists
    <3>1. endpoint'.failures = 0 /\ exhausted' = {}
      BY <1>0, <1>9, <2>1 DEF ResetFailures, TypeOK
    <3>. QED  BY <1>3, <3>1
  <2>2. CASE ~Exists
    <3>1. endpoint' = endpoint /\ exhausted' = {} /\ endpoint.failures \in Nat
      BY <1>0, <1>9, <2>2 DEF ResetFailures, TypeOK
    <3>. QED  BY <1>1, <2>2, <3>1 DEF Exists
  <2>. QED  BY <2>1, <2>2
<1>. QED
  BY <1>2, <1>4, <1>5, <1>6, <1>7, <1>8, <1>9
  DEF Next, SenderStep, RunStep, vars, RequestRead, RequestFails, Dispatch, Redeliver,
      UndoRedelivery, Prune, Enqueue, EnqueueFails, SenderDies, Stall, StartRun, Load, Skip,
      RecordFailure, RecordSuccess, Throw, Die

\* As many deliveries as the threshold, failed since the last success or reset, have
\* disabled the endpoint, whatever the order in which the workers counted them.
THEOREM AutoDisableAlwaysFires == Spec => []AutoDisableFires
<1>1. Init => Inv /\ FailuresOK
  <2>. SUFFICES ASSUME Init
                PROVE  Inv /\ FailuresOK
    OBVIOUS
  <2>1. IsFiniteSet({}) /\ Cardinality({}) = 0
    BY FS_EmptySet
  <2>2. FailuresOK
    BY <2>1 DEF Init, FailuresOK
  <2>. QED  BY <2>2, InitialInv
<1>2. Inv /\ FailuresOK /\ [Next]_vars => (Inv /\ FailuresOK)'
  BY InvStep, FailuresStep
<1>3. Inv /\ FailuresOK => AutoDisableFires
  <2>. SUFFICES ASSUME Inv, FailuresOK, Cardinality(exhausted) >= Threshold
                PROVE  endpoint.status # "active"
    BY DEF AutoDisableFires
  <2>1. Cardinality(exhausted) \in Nat /\ endpoint.failures \in Nat
    BY FS_CardinalityType DEF FailuresOK, Inv, TypeOK
  <2>. QED  BY <2>1 DEF FailuresOK
<1>. QED  BY <1>1, <1>2, <1>3, PTL DEF Spec
-----------------------------------------------------------------------------
(***************************************************************************)
(* Until one of the races has happened.                                    *)
(***************************************************************************)
\* Until a race, a delivery is worked on by the run that has the lock of its job.
AloneOK == ~raced => \A r \in Runs : run[r].pc # "idle" => run[r].locked

\* Until a race, a delivery that was counted has no attempt left to be counted.
CountedOK == ~raced => \A r \in Runs :
    /\ run[r].pc = "bump" /\ InTable(run[r].delivery) => row[run[r].delivery].attempts >= MaxAttempts
    /\ run[r].delivery \in exhausted =>
          run[r].pc # "bump" /\ (run[r].pc = "post" => run[r].attempt > MaxAttempts)

ExhaustedOK == ~raced => \A d \in exhausted :
    /\ row[d].status # "absent"
    /\ InTable(d) => row[d].attempts >= MaxAttempts

\* Until a race, nobody who read the endpoint before its lock is still at work.
LockAlone ==
    endpoint.status = "admin_disabled" /\ ~raced =>
        request = Idle /\ \A r \in Runs : run[r].pc \notin {"post", "bump"}

Undisturbed == AloneOK /\ CountedOK /\ ExhaustedOK /\ LockAlone

\* Until a race, the runs of one delivery are one run.
LEMMA OneRunPerDelivery ==
    ASSUME Inv, AloneOK, ~raced, NEW r \in Runs, NEW s \in Runs,
           run[r].pc # "idle", run[s].pc # "idle", run[r].delivery = run[s].delivery
    PROVE  r = s
BY DEF Inv, AloneOK, LocksOK

\* What happens to a row that is still there: it counts the attempts of the run that
\* records, and otherwise keeps them.
LEMMA RowAttempts ==
    ASSUME Inv, [Next]_vars, NEW d \in Deliveries, InTable(d)'
    PROVE  \/ row[d] = NoRow
           \/ InTable(d) /\ row'[d].attempts = row[d].attempts
           \/ \E r \in Runs : /\ RecordFailure(r) \/ RecordSuccess(r)
                              /\ run[r].delivery = d /\ row'[d].attempts = run[r].attempt
<1>0. TypeOK
  BY DEF Inv
<1>. DEFINE P == \/ row[d] = NoRow
                 \/ InTable(d) /\ row'[d].attempts = row[d].attempts
                 \/ \E r \in Runs : /\ RecordFailure(r) \/ RecordSuccess(r)
                                    /\ run[r].delivery = d /\ row'[d].attempts = run[r].attempt
<1>1. CASE row'[d] = row[d]
  BY <1>1 DEF InTable
<1>2. CASE RequestWrite
  BY <1>0, <1>2 DEF RequestWrite, GoneRow, InTable, TypeOK
<1>3. ASSUME NEW e \in Deliveries, Dispatch(e) \/ Redeliver(e)
      PROVE  P
  BY <1>0, <1>1, <1>3 DEF Dispatch, Redeliver, TypeOK
<1>4. ASSUME NEW e \in Deliveries, UndoRedelivery(e) \/ Prune(e)
      PROVE  P
  BY <1>0, <1>1, <1>4 DEF UndoRedelivery, Prune, SetRow, GoneRow, InTable, TypeOK
<1>5. ASSUME NEW r \in Runs, Skip(r)
      PROVE  P
  <2>1. row'[d] = row[d] \/ (InTable(d) /\ row'[d].attempts = row[d].attempts)
    BY <1>0, <1>5 DEF Skip, SetRow, TypeOK, InTable
  <2>. QED  BY <1>1, <2>1
<1>6. ASSUME NEW r \in Runs, RecordFailure(r) \/ RecordSuccess(r)
      PROVE  P
  <2>1. PICK k \in {"failed", "success"} :
          row' = row \/ row' = [row EXCEPT ![run[r].delivery] = [status |-> k, attempts |-> run[r].attempt]]
    BY <1>6 DEF RecordFailure, RecordSuccess, SetRow
  <2>2. row'[d] = row[d] \/ (run[r].delivery = d /\ row'[d].attempts = run[r].attempt)
    <3>0. DOMAIN row = Deliveries
      BY <1>0 DEF TypeOK
    <3>1. CASE run[r].delivery = d
      BY <2>1, <3>0, <3>1
    <3>2. CASE run[r].delivery # d
      BY <2>1, <3>0, <3>2
    <3>. QED  BY <3>1, <3>2
  <2>. QED  BY <1>1, <1>6, <2>2
<1>. QED
  BY <1>1, <1>2, <1>3, <1>4, <1>5, <1>6
  DEF Next, SenderStep, RunStep, vars, CreateWebhook, ForceDisable, Reenable, RequestRead,
      RequestFails, Enqueue, EnqueueFails, SenderDies, Stall, StartRun, Load, Bump, Throw,
      ResetFailures, Die

LEMMA StartedRun ==
    ASSUME TypeOK, NEW r \in Runs, NEW d \in Deliveries, StartRun(r, d)
    PROVE  run'[r].pc = "load"
<1>. DEFINE started == [IdleRun EXCEPT !.pc = "load", !.delivery = d, !.locked = TRUE]
<1>1. started.pc = "load"
  BY DEF IdleRun
<1>2. run' = [run EXCEPT ![r] = started]
  BY DEF StartRun
<1>. HIDE DEF started
<1>. QED  BY <1>1, <1>2 DEF TypeOK

\* A run goes on by one of these steps, or is not affected.
RunMoves(r) ==
    \/ run'[r] = run[r]
    \/ run'[r] = IdleRun
    \/ \E d \in Deliveries : StartRun(r, d)
    \/ Load(r) /\ InTable(run[r].delivery)
    \/ RecordFailure(r) \/ RecordSuccess(r) \/ Bump(r)
    \/ run'[r] = [run[r] EXCEPT !.locked = FALSE] /\ raced'

LEMMA RunMovesOrNot ==
    ASSUME Inv, [Next]_vars, NEW r \in Runs
    PROVE  RunMoves(r)
<1>0. TypeOK
  BY DEF Inv
<1>1. CASE UNCHANGED run
  BY <1>1 DEF RunMoves
<1>2. ASSUME NEW s \in Runs, run' = [run EXCEPT ![s] = IdleRun]
      PROVE  RunMoves(r)
  <2>1. run'[r] = run[r] \/ run'[r] = IdleRun
    BY <1>0, <1>2 DEF TypeOK
  <2>. QED  BY <2>1 DEF RunMoves
<1>3. ASSUME NEW s \in Runs, NEW k, run' = [run EXCEPT ![s] = k], s # r
      PROVE  RunMoves(r)
  <2>1. run'[r] = run[r]
    BY <1>0, <1>3 DEF TypeOK
  <2>. QED  BY <2>1 DEF RunMoves
<1>4. ASSUME NEW s \in Runs, NEW e \in Deliveries, StartRun(s, e)
      PROVE  RunMoves(r)
  BY <1>3, <1>4 DEF StartRun, RunMoves
<1>5. ASSUME NEW s \in Runs, Load(s)
      PROVE  RunMoves(r)
  <2>1. CASE ~InTable(run[s].delivery)
    BY <1>2, <1>5, <2>1 DEF Load, EndRun
  <2>2. CASE InTable(run[s].delivery) /\ s # r
    <3>1. run'[r] = run[r]
      BY <1>0, <1>5, <2>2 DEF Load, TypeOK
    <3>. QED  BY <3>1 DEF RunMoves
  <2>. QED  BY <1>5, <2>1, <2>2 DEF RunMoves
<1>6. ASSUME NEW s \in Runs, RecordFailure(s) \/ RecordSuccess(s) \/ Bump(s)
      PROVE  RunMoves(r)
  <2>1. CASE s # r
    <3>1. run'[r] = run[r]
      BY <1>0, <1>6, <2>1 DEF RecordFailure, RecordSuccess, Bump, TypeOK
    <3>. QED  BY <3>1 DEF RunMoves
  <2>. QED  BY <1>6, <2>1 DEF RunMoves
<1>7. ASSUME NEW s \in Runs, Skip(s) \/ ResetFailures(s) \/ Throw(s) \/ Die(s)
      PROVE  RunMoves(r)
  BY <1>2, <1>7 DEF Skip, ResetFailures, Throw, Die, EndRun
<1>8. ASSUME NEW e \in Deliveries, Stall(e)
      PROVE  RunMoves(r)
  <2>1. CASE run[r].delivery = e
    <3>1. run'[r] = [run[r] EXCEPT !.locked = FALSE] /\ raced'
      BY <1>8, <2>1 DEF Stall, NotesRace, WorkedOn
    <3>. QED  BY <3>1 DEF RunMoves
  <2>2. CASE run[r].delivery # e
    BY <1>8, <2>2 DEF Stall, RunMoves
  <2>. QED  BY <2>1, <2>2
<1>. QED
  BY <1>1, <1>4, <1>5, <1>6, <1>7, <1>8
  DEF Next, SenderStep, RunStep, vars, CreateWebhook, ForceDisable, Reenable, RequestRead,
      RequestWrite, RequestFails, SenderDies, Dispatch, Redeliver, UndoRedelivery, Prune,
      Enqueue, EnqueueFails

\* A race, once noted, stays noted.
LEMMA RacedStays == Inv /\ [Next]_vars /\ ~raced' => ~raced
<1>. SUFFICES ASSUME Inv, [Next]_vars, ~raced'
              PROVE  ~raced
  OBVIOUS
<1>1. CASE UNCHANGED raced
  BY <1>1
<1>2. ASSUME NEW b, NotesRace(b)
      PROVE  ~raced
  BY <1>2 DEF NotesRace
<1>. QED
  BY <1>1, <1>2, Zenon
  DEF Next, SenderStep, RunStep, vars, CreateWebhook, ForceDisable, Reenable, RequestRead,
      RequestWrite, RequestFails, SenderDies, Dispatch, Redeliver, UndoRedelivery, Prune,
      Enqueue, EnqueueFails, Stall, StartRun, Load, Skip, RecordFailure, RecordSuccess, Bump,
      Throw, ResetFailures, Die

LEMMA AloneStep == Inv /\ AloneOK /\ [Next]_vars => AloneOK'
<1>. SUFFICES ASSUME Inv, AloneOK, [Next]_vars, ~raced', NEW r \in Runs, run'[r].pc # "idle"
              PROVE  run'[r].locked
  BY DEF AloneOK
<1>0. TypeOK /\ ~raced /\ (run[r].pc # "idle" => run[r].locked)
  BY RacedStays DEF Inv, AloneOK
<1>1. CASE run'[r] = run[r]
  BY <1>0, <1>1
<1>2. CASE \E d \in Deliveries : StartRun(r, d)
  BY <1>0, <1>2 DEF StartRun, TypeOK
<1>3. CASE Load(r) /\ InTable(run[r].delivery)
  <2>1. run'[r].locked = run[r].locked /\ run[r].pc # "idle"
    BY <1>0, <1>3 DEF Load, TypeOK
  <2>. QED  BY <1>0, <2>1
<1>4. CASE RecordFailure(r) \/ RecordSuccess(r) \/ Bump(r)
  <2>1. run'[r].locked = run[r].locked /\ run[r].pc # "idle"
    BY <1>0, <1>4 DEF RecordFailure, RecordSuccess, Bump, TypeOK
  <2>. QED  BY <1>0, <2>1
<1>5. run'[r] # IdleRun
  BY DEF IdleRun
<1>. QED  BY <1>1, <1>2, <1>3, <1>4, <1>5, RunMovesOrNot, Zenon DEF RunMoves

\* A row that was inserted is not uninserted.
LEMMA RowsStay ==
    ASSUME Inv, [Next]_vars, NEW d \in Deliveries, row'[d].status = "absent"
    PROVE  row[d].status = "absent"
<1>0. TypeOK
  BY DEF Inv
<1>1. CASE row' = row
  BY <1>1
<1>2. CASE RequestWrite
  BY <1>0, <1>2 DEF RequestWrite, GoneRow, InTable, TypeOK
<1>3. ASSUME NEW e \in Deliveries, NEW k, row' = [row EXCEPT ![e] = k], k.status # "absent"
      PROVE  row[d].status = "absent"
  BY <1>0, <1>3 DEF TypeOK
<1>4. ASSUME NEW e \in Deliveries, Dispatch(e) \/ Redeliver(e)
      PROVE  row[d].status = "absent"
  <2>1. e = d => row[d] = NoRow
    BY <1>4 DEF Dispatch, Redeliver
  <2>2. e # d => row'[d] = row[d]
    BY <1>0, <1>4 DEF Dispatch, Redeliver, TypeOK
  <2>. QED  BY <2>1, <2>2 DEF NoRow
<1>5. ASSUME NEW e \in Deliveries, UndoRedelivery(e) \/ Prune(e)
      PROVE  row[d].status = "absent"
  BY <1>1, <1>3, <1>5 DEF UndoRedelivery, Prune, SetRow, GoneRow
<1>6. ASSUME NEW r \in Runs, Skip(r)
      PROVE  row[d].status = "absent"
  BY <1>0, <1>1, <1>6 DEF Skip, SetRow, InTable, TypeOK
<1>7. ASSUME NEW r \in Runs, RecordFailure(r) \/ RecordSuccess(r)
      PROVE  row[d].status = "absent"
  <2>1. PICK k \in {"failed", "success"} :
          \/ row' = row
          \/ /\ row' = [row EXCEPT ![run[r].delivery] = [status |-> k, attempts |-> run[r].attempt]]
             /\ InTable(run[r].delivery)
    BY <1>7 DEF RecordFailure, RecordSuccess, SetRow
  <2>2. CASE run[r].delivery = d
    BY <1>0, <1>1, <2>1, <2>2 DEF TypeOK
  <2>3. CASE run[r].delivery # d
    BY <1>0, <1>1, <2>1, <2>3 DEF TypeOK
  <2>. QED  BY <2>2, <2>3
<1>. QED
  BY <1>1, <1>2, <1>4, <1>5, <1>6, <1>7
  DEF Next, SenderStep, RunStep, vars, CreateWebhook, ForceDisable, Reenable, RequestRead,
      RequestFails, Enqueue, EnqueueFails, SenderDies, Stall, StartRun, Load, Bump, Throw,
      ResetFailures, Die

\* Only the count of a failure adds to the exhausted deliveries.
LEMMA ExhaustedGrows ==
    ASSUME Inv, [Next]_vars, NEW d \in exhausted'
    PROVE  d \in exhausted \/ \E r \in Runs : Bump(r) /\ run[r].delivery = d
<1>1. CASE exhausted' \subseteq exhausted
  BY <1>1
<1>2. ASSUME NEW r \in Runs, Bump(r)
      PROVE  d \in exhausted \/ \E s \in Runs : Bump(s) /\ run[s].delivery = d
  <2>1. d \in exhausted \/ run[r].delivery = d
    BY <1>2 DEF Bump
  <2>. QED  BY <1>2, <2>1
<1>. QED
  BY <1>1, <1>2
  DEF Next, SenderStep, RunStep, vars, CreateWebhook, ForceDisable, Reenable, RequestRead,
      RequestWrite, RequestFails, SenderDies, Dispatch, Redeliver, UndoRedelivery, Prune,
      Enqueue, EnqueueFails, Stall, StartRun, Load, Skip, RecordFailure, RecordSuccess,
      Throw, ResetFailures, Die

LEMMA CountedStep == Inv /\ Undisturbed /\ [Next]_vars => CountedOK' /\ ExhaustedOK'
<1>. SUFFICES ASSUME Inv, Undisturbed, [Next]_vars, ~raced'
              PROVE  CountedOK' /\ ExhaustedOK'
  BY DEF CountedOK, ExhaustedOK
<1>0. TypeOK /\ RunsOK /\ ~raced /\ AloneOK
  BY RacedStays DEF Inv, Undisturbed
<1>1. /\ \A r \in Runs : run[r].pc = "bump" /\ InTable(run[r].delivery)
              => row[run[r].delivery].attempts >= MaxAttempts
      /\ \A r \in Runs : run[r].delivery \in exhausted =>
              run[r].pc # "bump" /\ (run[r].pc = "post" => run[r].attempt > MaxAttempts)
      /\ \A d \in exhausted : row[d].status # "absent"
                              /\ (InTable(d) => row[d].attempts >= MaxAttempts)
  BY <1>0 DEF Undisturbed, CountedOK, ExhaustedOK
<1>2. MaxAttempts \in Nat /\ \A r \in Runs : run[r].attempt \in Nat
  BY <1>0 DEF TypeOK, CreateQueueAttempts, MaxStalls
<1>3. ASSUME NEW r \in Runs, run'[r].pc = "bump"
      PROVE  \/ run'[r] = run[r]
             \/ RecordFailure(r) /\ run[r].attempt = MaxAttempts /\ run'[r].delivery = run[r].delivery
  <2>1. ~Load(r) \/ ~InTable(run[r].delivery)
    BY <1>0, <1>3 DEF Load, TypeOK
  <2>2. ~RecordSuccess(r) /\ ~Bump(r)
    BY <1>0, <1>3 DEF RecordSuccess, Bump, TypeOK
  <2>5. ~(\E d \in Deliveries : StartRun(r, d))
    BY <1>0, <1>3, StartedRun
  <2>3. run'[r] # IdleRun
    BY <1>3 DEF IdleRun
  <2>4. RecordFailure(r) => run[r].attempt = MaxAttempts /\ run'[r].delivery = run[r].delivery
    BY <1>0, <1>3 DEF RecordFailure, TypeOK
  <2>. QED  BY <2>1, <2>2, <2>3, <2>4, <2>5, RunMovesOrNot, Zenon DEF RunMoves
<1>4. ASSUME NEW r \in Runs, run'[r].pc = "post"
      PROVE  \/ run'[r] = run[r]
             \/ Load(r) /\ InTable(run[r].delivery) /\ run'[r].delivery = run[r].delivery
                /\ run'[r].attempt = row[run[r].delivery].attempts + 1
  <2>1. ~RecordFailure(r)
    BY <1>0, <1>4 DEF RecordFailure, TypeOK
  <2>4. ~RecordSuccess(r) /\ ~Bump(r)
    BY <1>0, <1>4 DEF RecordSuccess, Bump, TypeOK
  <2>5. ~(\E d \in Deliveries : StartRun(r, d))
    BY <1>0, <1>4, StartedRun
  <2>2. run'[r] # IdleRun
    BY <1>4 DEF IdleRun
  <2>3. Load(r) /\ InTable(run[r].delivery) => run'[r].delivery = run[r].delivery
                /\ run'[r].attempt = row[run[r].delivery].attempts + 1
    BY <1>0, <1>4 DEF Load, TypeOK
  <2>. QED  BY <2>1, <2>2, <2>3, <2>4, <2>5, RunMovesOrNot, Zenon DEF RunMoves
\* A row that is still there has not lost attempts to another run.
<1>5. ASSUME NEW d \in Deliveries, InTable(d)', InTable(d), row[d].attempts >= MaxAttempts,
             \A r \in Runs : run[r].delivery = d /\ run[r].pc = "post" => run[r].attempt >= MaxAttempts
      PROVE  row'[d].attempts >= MaxAttempts
  <2>1. row[d] # NoRow
    BY <1>5 DEF InTable, NoRow
  <2>2. \A r \in Runs : RecordFailure(r) \/ RecordSuccess(r) => run[r].pc = "post"
    BY DEF RecordFailure, RecordSuccess
  <2>. QED  BY <1>5, <2>1, <2>2, RowAttempts
<1>6. ASSUME NEW d \in Deliveries, row[d].status # "absent", InTable(d)'
      PROVE  InTable(d)
  <2>1. \A r \in Runs : (RecordFailure(r) \/ RecordSuccess(r)) /\ run[r].delivery = d
                        => InTable(d) \/ row' = row
    BY DEF RecordFailure, RecordSuccess, SetRow
  <2>2. row[d] # NoRow
    BY <1>6 DEF NoRow
  <2>. QED  BY <1>6, <2>1, <2>2, RowAttempts DEF InTable
<1>7. ASSUME NEW r \in Runs, NEW d, run'[r].pc = "bump", run'[r].delivery = d, InTable(d)'
      PROVE  row'[d].attempts >= MaxAttempts
  <2>1. run[r].delivery = d /\ run[r].pc # "idle" /\ d \in Deliveries
    BY <1>0, <1>3, <1>7 DEF RunsOK, RecordFailure
  <2>2. CASE run'[r] = run[r]
    <3>1. row[d].status # "absent"
      BY <2>1 DEF Inv, JobsOK, WorkedOn
    <3>2. InTable(d)
      BY <1>6, <1>7, <2>1, <3>1
    <3>3. row[d].attempts >= MaxAttempts
      BY <1>1, <1>7, <2>1, <2>2, <3>2
    <3>4. \A s \in Runs : run[s].delivery = d => run[s].pc # "post"
      BY <1>0, <1>7, <2>1, <2>2, OneRunPerDelivery
    <3>. QED  BY <1>5, <1>7, <2>1, <3>2, <3>3, <3>4
  <2>3. CASE RecordFailure(r) /\ run[r].attempt = MaxAttempts
    <3>1. InTable(d)
      <4>1. CASE ~InTable(d)
        BY <1>7, <2>1, <2>3, <4>1 DEF RecordFailure, SetRow, InTable
      <4>. QED  BY <4>1
    <3>2. row'[d].attempts = MaxAttempts
      BY <1>0, <2>1, <2>3, <3>1 DEF RecordFailure, SetRow, TypeOK
    <3>. QED  BY <1>2, <2>1, <3>2
  <2>. QED  BY <1>3, <1>7, <2>2, <2>3
<1>8. ASSUME NEW r \in Runs, run'[r].pc \in {"bump", "post"}, run'[r].delivery \in exhausted'
      PROVE  run'[r].pc # "bump" /\ run'[r].attempt > MaxAttempts
  <2>. DEFINE d == run[r].delivery
  <2>1. run'[r].delivery = d /\ run[r].pc # "idle" /\ d \in Deliveries
    BY <1>0, <1>3, <1>4, <1>8 DEF RunsOK, RecordFailure, Load
  <2>2. d \in exhausted
    <3>1. ASSUME NEW s \in Runs, Bump(s), run[s].delivery = d
          PROVE  FALSE
      <4>1. s = r
        BY <1>0, <2>1, <3>1, OneRunPerDelivery DEF Bump
      <4>2. run'[r].pc = "throw"
        BY <1>0, <3>1, <4>1 DEF Bump, TypeOK
      <4>. QED  BY <1>8, <4>2
    <3>. QED  BY <1>8, <2>1, <3>1, ExhaustedGrows
  <2>3. run[r].pc # "bump" /\ (run[r].pc = "post" => run[r].attempt > MaxAttempts)
    BY <1>1, <2>2
  <2>4. run'[r].pc # "bump"
    <3>1. RecordFailure(r) => run[r].attempt # MaxAttempts
      BY <1>2, <2>3 DEF RecordFailure
    <3>. QED  BY <1>3, <2>3, <3>1
  <2>5. CASE run'[r] = run[r]
    BY <1>8, <2>3, <2>4, <2>5
  <2>6. CASE InTable(d) /\ run'[r].attempt = row[d].attempts + 1
    <3>1. row[d].attempts >= MaxAttempts /\ row[d].attempts \in Nat
      BY <1>0, <1>1, <2>1, <2>2, <2>6 DEF TypeOK, CreateQueueAttempts, MaxStalls
    <3>. QED  BY <1>2, <2>4, <2>6, <3>1
  <2>. QED  BY <1>4, <1>8, <2>4, <2>5, <2>6
<1>9. ASSUME NEW d \in exhausted'
      PROVE  row'[d].status # "absent" /\ (InTable(d)' => row'[d].attempts >= MaxAttempts)
  <2>0. d \in Deliveries
    <3>1. exhausted' \subseteq Deliveries
      BY TypeStep DEF TypeOK
    <3>. QED  BY <1>9, <3>1
  <2>1. CASE d \in exhausted
    <3>1. row'[d].status # "absent"
      BY <1>1, <2>0, <2>1, RowsStay
    <3>2. ASSUME InTable(d)'
          PROVE  row'[d].attempts >= MaxAttempts
      <4>1. InTable(d) /\ row[d].attempts >= MaxAttempts
        BY <1>1, <1>6, <2>0, <2>1, <3>2
      <4>2. \A s \in Runs : run[s].delivery = d /\ run[s].pc = "post" => run[s].attempt >= MaxAttempts
        BY <1>1, <1>2, <2>1
      <4>. QED  BY <1>5, <2>0, <3>2, <4>1, <4>2
    <3>. QED  BY <3>1, <3>2
  <2>2. ASSUME NEW s \in Runs, Bump(s), run[s].delivery = d
        PROVE  row'[d].status # "absent" /\ (InTable(d)' => row'[d].attempts >= MaxAttempts)
    <3>1. row' = row /\ run[s].pc = "bump"
      BY <2>2 DEF Bump
    <3>2. row[d].status # "absent"
      BY <2>0, <2>2 DEF Inv, JobsOK, WorkedOn
    <3>. QED  BY <1>1, <2>2, <3>1, <3>2 DEF InTable
  <2>. QED  BY <1>9, <2>1, <2>2, ExhaustedGrows
<1>10. ExhaustedOK'
  BY <1>9 DEF ExhaustedOK
<1>11. CountedOK'
  BY <1>7, <1>8 DEF CountedOK
<1>. QED  BY <1>10, <1>11

LEMMA LockedByAdmin ==
    ASSUME Inv, [Next]_vars, endpoint'.status = "admin_disabled",
           endpoint.status # "admin_disabled"
    PROVE  ForceDisable
<1>0. TypeOK
  BY DEF Inv
<1>1. CASE endpoint' = endpoint
  BY <1>1
<1>2. CASE CreateWebhook \/ Reenable
  BY <1>2 DEF CreateWebhook, Reenable
<1>3. ~RequestWrite
  BY <1>0 DEF RequestWrite, TypeOK
<1>4. ASSUME NEW r \in Runs
      PROVE  ~Bump(r) /\ ~ResetFailures(r)
  <2>1. ~Bump(r)
    BY <1>0 DEF Bump, TypeOK
  <2>2. ~ResetFailures(r)
    BY <1>0 DEF ResetFailures, TypeOK
  <2>. QED  BY <2>1, <2>2
<1>. QED
  BY <1>1, <1>2, <1>3, <1>4
  DEF Next, SenderStep, RunStep, vars, RequestRead, RequestFails, SenderDies, Dispatch,
      Redeliver, UndoRedelivery, Prune, Enqueue, EnqueueFails, Stall, StartRun, Load, Skip,
      RecordFailure, RecordSuccess, Throw, Die

LEMMA LockAloneStep == Inv /\ Undisturbed /\ [Next]_vars => LockAlone'
<1>. SUFFICES ASSUME Inv, LockAlone, [Next]_vars, endpoint'.status = "admin_disabled", ~raced'
              PROVE  request' = Idle /\ \A r \in Runs : run'[r].pc \notin {"post", "bump"}
  BY DEF LockAlone, Undisturbed
<1>0. TypeOK /\ ~raced
  BY RacedStays DEF Inv
<1>1. CASE ForceDisable
  BY <1>1 DEF ForceDisable, NotesRace
<1>2. CASE endpoint.status = "admin_disabled"
  <2>1. request = Idle /\ \A r \in Runs : run[r].pc \notin {"post", "bump"}
    BY <1>0, <1>2 DEF LockAlone
  <2>2. request' = Idle
    BY <1>2, <2>1
    DEF Next, SenderStep, RunStep, vars, CreateWebhook, ForceDisable, Reenable, RequestRead,
        RequestWrite, RequestFails, SenderDies, Dispatch, Redeliver, UndoRedelivery, Prune,
        Enqueue, EnqueueFails, Stall, StartRun, Load, Skip, RecordFailure, RecordSuccess,
        Bump, Throw, ResetFailures, Die
  <2>3. ASSUME NEW r \in Runs
        PROVE  run'[r].pc \notin {"post", "bump"}
    <3>1. CASE Load(r) /\ InTable(run[r].delivery)
      <4>1. run'[r].pc = "skip"
        BY <1>0, <1>2, <3>1 DEF Load, TypeOK
      <4>. QED  BY <4>1
    <3>2. CASE \E d \in Deliveries : StartRun(r, d)
      BY <1>0, <3>2 DEF StartRun, TypeOK
    <3>3. ~RecordFailure(r) /\ ~RecordSuccess(r) /\ ~Bump(r)
      BY <2>1 DEF RecordFailure, RecordSuccess, Bump
    <3>4. CASE run'[r] = run[r] \/ run'[r] = IdleRun
      BY <2>1, <3>4 DEF IdleRun
    <3>5. ~raced'
      OBVIOUS
    <3>. QED  BY <3>1, <3>2, <3>3, <3>4, <3>5, RunMovesOrNot DEF RunMoves
  <2>. QED  BY <2>2, <2>3
<1>. QED  BY <1>1, <1>2, LockedByAdmin

\* Unless a job is run twice at once or the endpoint is locked under somebody's hands,
\* a delivery counts once against its endpoint, and an admin's lock ends with the
\* admin who lifts it.
THEOREM FailuresAlwaysCountAndLock == Spec => FailuresCountAndLock
<1>. DEFINE A == \A r \in Runs : Bump(r) /\ ~raced => run[r].delivery \notin exhausted
            B == endpoint.status = "admin_disabled" /\ ~raced
                    => endpoint'.status = "admin_disabled" \/ Reenable
<1>1. Init => Inv /\ Undisturbed
  <2>1. Init => Undisturbed
    BY DEF Init, Undisturbed, AloneOK, CountedOK, ExhaustedOK, LockAlone, IdleRun, NoDelivery
  <2>. QED  BY <2>1, InitialInv
<1>2. Inv /\ Undisturbed /\ [Next]_vars => (Inv /\ Undisturbed)'
  BY InvStep, AloneStep, CountedStep, LockAloneStep DEF Undisturbed
<1>3. Undisturbed => A
  BY DEF Undisturbed, CountedOK, Bump
<1>4. Inv /\ Undisturbed /\ [Next]_vars => B \/ UNCHANGED vars
  <2>. SUFFICES ASSUME Inv, Undisturbed, Next, endpoint.status = "admin_disabled", ~raced,
                       endpoint'.status # "admin_disabled", ~Reenable
                PROVE  FALSE
    BY DEF vars
  <2>0. TypeOK
    BY DEF Inv
  <2>1. request = Idle /\ \A r \in Runs : run[r].pc \notin {"post", "bump"}
    BY DEF Undisturbed, LockAlone
  <2>2. ~CreateWebhook /\ ~ForceDisable /\ ~RequestWrite
    BY <2>0, <2>1 DEF CreateWebhook, ForceDisable, RequestWrite, TypeOK
  <2>3. ASSUME NEW r \in Runs
        PROVE  ~Bump(r) /\ ~ResetFailures(r)
    BY <2>0, <2>1 DEF Bump, ResetFailures, TypeOK
  <2>. QED
    BY <2>2, <2>3
    DEF Next, SenderStep, RunStep, RequestRead, RequestFails, SenderDies, Dispatch,
        Redeliver, UndoRedelivery, Prune, Enqueue, EnqueueFails, Stall, StartRun, Load,
        Skip, RecordFailure, RecordSuccess, Throw, Die
<1>5. Spec => [][A]_vars
  BY <1>1, <1>2, <1>3, PTL DEF Spec
<1>6. Spec => [][B]_vars
  BY <1>1, <1>2, <1>4, PTL DEF Spec
<1>. QED  BY <1>5, <1>6 DEF FailuresCountAndLock, CountedOnce, LockHolds

=============================================================================
