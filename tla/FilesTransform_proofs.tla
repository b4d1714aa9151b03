----------------------- MODULE FilesTransform_proofs -----------------------
(***************************************************************************)
(* Theorems of FilesTransform for every set of files and runs and every    *)
(* size.  The invariant is in two halves: what holds however runs overlap  *)
(* (who holds a job, that a manifest is written once and names objects     *)
(* that were put, that bytes are kept only for rows that are not counted), *)
(* and what holds until a race happens: a file has one run, the run finds  *)
(* the row as it left it, and so the delta it adds at the end is what the  *)
(* manifest grows by (OneRun, RowAsLeft, UsedExact).                       *)
(***************************************************************************)
EXTENDS FilesTransform, StorageQuota_proofs

USE MaxBytesPositive, RunsAssumption, VariantsAssumption

-----------------------------------------------------------------------------
\* A job that waits or runs has attempts left, and a run that holds a job's lock has
\* the job active; no two runs hold the lock of one job.
JobsOK ==
    /\ \A f \in Files : job[f].state \in {"waiting", "active"} => job[f].made < CreateQueueAttempts
    /\ \A r \in Runs : run[r].locked => run[r].file \in Files /\ job[run[r].file].state = "active"
    /\ \A r, q \in Runs : run[r].locked /\ run[q].locked /\ run[r].file = run[q].file => r = q
    /\ \A r \in Runs : IF run[r].pc = "idle" THEN run[r] = IdleRun ELSE run[r].file \in Files

\* A manifest is not written before the row is ready, and what it names has been put by
\* then; the reaper that takes objects takes the row with them.
ManifestsOK ==
    /\ \A f \in Files : row[f].status \in {"uploaded", "transforming"} => row[f].manifest = 0
    /\ \A f \in Files : InTable(f) /\ row[f].manifest > 0 => f \in variants
    /\ \A r \in Runs : run[r].pc = "commit" => run[r].file \in variants \/ row[run[r].file] = GoneRow
    /\ \A r \in Runs : run[r].old = 0
    /\ \A r \in Runs : run[r].pc # "idle" => row[run[r].file] # NoRow
    /\ \A f \in Files : job[f] # NoJob => row[f] # NoRow

\* A tombstone is not live.
LiveOK == \A f \in Files : row[f].live => row[f].status # "deleted"

\* Bytes are kept for a row that failed, and only while it is not counted.
KeptOK == \A f \in Files : kept[f] \in 0..MaxBytes /\ (kept[f] > 0 => Counted[f] = 0 /\ row[f] # NoRow)

\* Without an overlap the run of a file is the one that holds its job.
OneRun == "overlap" \notin races =>
    \A r \in Runs : run[r].pc # "idle" => run[r].locked

\* Then, and without a delete, the row is the way the run has left it.
RowAsLeft == races \cap {"overlap", "delete"} = {} =>
    \A r \in Runs :
       /\ run[r].pc \in {"flag", "work", "commit"} => row[run[r].file].live
       /\ run[r].pc = "flag" => row[run[r].file].status \in {"uploaded", "transforming"}
       /\ run[r].pc \in {"work", "commit"} => row[run[r].file].status = "transforming"

Inv == TypeOK /\ JobsOK /\ ManifestsOK /\ LiveOK /\ KeptOK /\ OneRun /\ RowAsLeft /\ UsedExact

-----------------------------------------------------------------------------
(***************************************************************************)
(* What a step does to runs and jobs.                                      *)
(***************************************************************************)
RunType == [pc : {"idle", "load", "flag", "work", "commit"}, file : Files \cup {NoFile},
            locked : BOOLEAN, old : 0..MaxVariants, new : 0..MaxVariants]

LEMMA IdleTyped ==
    /\ IdleRun \in RunType
    /\ NoJob \in Job /\ NoJob.state = "none" /\ AddedJob \in Job
    /\ AddedJob.state = "waiting" /\ AddedJob.made = 0
<1>1. NoJob = [state |-> "none", made |-> 0, stalls |-> 0]
  BY DEF NoJob
<1>2. AddedJob = [state |-> "waiting", made |-> 0, stalls |-> 0]
  BY <1>1 DEF AddedJob
<1>3. IdleRun \in RunType
  BY DEF IdleRun, RunType
<1>. QED  BY <1>1, <1>2, <1>3 DEF Job, CreateQueueAttempts, MaxStalls

\* The locals of one run, or the job of one file, after a step of it.
RunBecomes(r, pc, file, locked, old, new) ==
    /\ run'[r].pc = pc /\ run'[r].file = file /\ run'[r].locked = locked
    /\ run'[r].old = old /\ run'[r].new = new
    /\ \A q \in Runs \ {r} : run'[q] = run[q]

JobBecomes(f, states) ==
    /\ job'[f].state \in states
    /\ job'[f].state \in {"waiting", "active"} => job'[f].made < CreateQueueAttempts
    /\ \A g \in Files \ {f} : job'[g] = job[g]

Enqueues(f) == EnqueueTransform(f) /\ run' = run /\ JobBecomes(f, {"waiting"})
Starts(r, f) ==
    StartRun(r, f) /\ RunBecomes(r, "load", f, TRUE, 0, 0) /\ JobBecomes(f, {"active"})
Goes(r) ==
    /\ job' = job /\ run[r].pc # "idle"
    /\ \/ Load(r) /\ RunBecomes(r, "flag", run[r].file, run[r].locked, row[run[r].file].manifest, run[r].new)
       \/ Flag(r) /\ RunBecomes(r, "work", run[r].file, run[r].locked, run[r].old, run[r].new)
       \/ \E n \in 1..MaxVariants :
             PutVariants(r, n) /\ RunBecomes(r, "commit", run[r].file, run[r].locked, run[r].old, n)
Ends(r) ==
    /\ run[r].pc # "idle"
    /\ run'[r] = IdleRun /\ \A q \in Runs \ {r} : run'[q] = run[q]
    /\ \/ Die(r) /\ job' = job
       \/ /\ LoadDone(r) \/ LoadNoVariants(r) \/ RejectSource(r) \/ Commit(r) \/ Throw(r)
          /\ IF run[r].locked THEN JobBecomes(run[r].file, {"waiting", "completed", "failed"})
             ELSE job' = job
Stalls(f) ==
    /\ Stall(f) /\ job[f].state = "active" /\ JobBecomes(f, {"waiting", "failed"})
    /\ \A r \in Runs :
          /\ run[r].file # f => run'[r] = run[r]
          /\ run[r].file = f => /\ run'[r].pc = run[r].pc /\ run'[r].file = f /\ ~run'[r].locked
                                /\ run'[r].old = run[r].old /\ run'[r].new = run[r].new

LEMMA OutcomeTyped ==
    ASSUME TypeOK, JobsOK, NEW f \in Files, job[f].state = "active"
    PROVE  /\ Returned(job[f]) \in Job /\ Returned(job[f]).state = "completed"
           /\ Thrown(job[f], CreateQueueAttempts) \in Job
           /\ Thrown(job[f], CreateQueueAttempts).state \in {"waiting", "failed"}
           /\ Thrown(job[f], CreateQueueAttempts).state = "waiting" =>
                 Thrown(job[f], CreateQueueAttempts).made < CreateQueueAttempts
           /\ Stalled(job[f]) \in Job
           /\ Stalled(job[f]).state \in {"waiting", "failed"}
           /\ Stalled(job[f]).made < CreateQueueAttempts
<1>1. job[f] \in Job /\ job[f].made < CreateQueueAttempts
  BY DEF TypeOK, JobsOK
<1>2. /\ Returned(job[f]) \in Job /\ Returned(job[f]).state = "completed"
  BY <1>1 DEF Job, Returned
<1>3. Thrown(job[f], CreateQueueAttempts) =
        [state |-> IF job[f].made + 1 < CreateQueueAttempts THEN "waiting" ELSE "failed",
         made |-> job[f].made + 1, stalls |-> job[f].stalls]
  <2>. DEFINE m == [job[f] EXCEPT !.made = job[f].made + 1]
  <2>1. m = [state |-> job[f].state, made |-> job[f].made + 1, stalls |-> job[f].stalls]
    BY <1>1 DEF Job
  <2>2. Thrown(job[f], CreateQueueAttempts) =
          [m EXCEPT !.state = IF job[f].made + 1 < CreateQueueAttempts THEN "waiting" ELSE "failed"]
    BY <1>1 DEF Thrown
  <2>. HIDE DEF m
  <2>. QED  BY <2>1, <2>2
<1>4. /\ Stalled(job[f]) \in Job
      /\ Stalled(job[f]).state \in {"waiting", "failed"}
      /\ Stalled(job[f]).made = job[f].made
  <2>1. CASE job[f].stalls < MaxStalls
    <3>. DEFINE m == [job[f] EXCEPT !.state = "waiting"]
    <3>1. m = [state |-> "waiting", made |-> job[f].made, stalls |-> job[f].stalls]
      BY <1>1 DEF Job
    <3>2. Stalled(job[f]) = [m EXCEPT !.stalls = job[f].stalls + 1]
      BY <1>1, <2>1 DEF Stalled, Job
    <3>. HIDE DEF m
    <3>3. Stalled(job[f]) = [state |-> "waiting", made |-> job[f].made, stalls |-> job[f].stalls + 1]
      BY <3>1, <3>2
    <3>. QED  BY <1>1, <2>1, <3>3 DEF Job, MaxStalls
  <2>2. CASE ~(job[f].stalls < MaxStalls)
    BY <1>1, <2>2 DEF Stalled, Job
  <2>. QED  BY <2>1, <2>2
<1>. QED  BY <1>1, <1>2, <1>3, <1>4 DEF Job, CreateQueueAttempts

LEMMA RunEnded ==
    ASSUME TypeOK, JobsOK, NEW r \in Runs,
           LoadDone(r) \/ LoadNoVariants(r) \/ RejectSource(r) \/ Commit(r) \/ Throw(r) \/ Die(r)
    PROVE  run' \in [Runs -> RunType] /\ job' \in [Files -> Job] /\ Ends(r)
<1>. DEFINE f == run[r].file
<1>1. /\ run \in [Runs -> RunType] /\ job \in [Files -> Job]
      /\ run[r].locked => f \in Files /\ job[f].state = "active"
  BY DEF TypeOK, RunType, JobsOK
<1>2. run' = [run EXCEPT ![r] = IdleRun] /\ run[r].pc # "idle"
  BY DEF LoadDone, LoadNoVariants, RejectSource, Commit, Throw, Die, EndRun
<1>3. /\ run' \in [Runs -> RunType]
      /\ run'[r] = IdleRun /\ \A q \in Runs \ {r} : run'[q] = run[q]
  BY <1>1, <1>2, IdleTyped
<1>4. CASE Die(r)
  BY <1>1, <1>2, <1>3, <1>4 DEF Die, Ends
<1>5. CASE LoadDone(r) \/ LoadNoVariants(r) \/ RejectSource(r) \/ Commit(r) \/ Throw(r)
  <2>1. \/ job' = IF run[r].locked THEN [job EXCEPT ![f] = Returned(job[f])] ELSE job
        \/ job' = IF run[r].locked THEN [job EXCEPT ![f] = Thrown(job[f], CreateQueueAttempts)] ELSE job
    BY <1>1, <1>5 DEF LoadDone, LoadNoVariants, RejectSource, Commit, Throw, EndRun
  <2>2. CASE run[r].locked
    <3>1. PICK v \in Job :
             /\ job' = [job EXCEPT ![f] = v]
             /\ v.state \in {"waiting", "completed", "failed"}
             /\ v.state = "waiting" => v.made < CreateQueueAttempts
      BY <1>1, <2>1, <2>2, OutcomeTyped
    <3>2. job' \in [Files -> Job] /\ JobBecomes(f, {"waiting", "completed", "failed"})
      BY <1>1, <2>2, <3>1 DEF JobBecomes
    <3>. QED  BY <1>2, <1>3, <1>5, <2>2, <3>2 DEF Ends
  <2>3. CASE ~run[r].locked
    BY <1>1, <1>2, <1>3, <1>5, <2>1, <2>3 DEF Ends
  <2>. QED  BY <2>2, <2>3
<1>. QED  BY <1>4, <1>5

LEMMA RunStarted ==
    ASSUME TypeOK, JobsOK, NEW r \in Runs, NEW f \in Files, StartRun(r, f)
    PROVE  run' \in [Runs -> RunType] /\ job' \in [Files -> Job] /\ Starts(r, f)
<1>1. run \in [Runs -> RunType] /\ job \in [Files -> Job]
  BY DEF TypeOK, RunType
<1>. DEFINE m == [IdleRun EXCEPT !.pc = "load"]
            k == [m EXCEPT !.file = f]
            n == [k EXCEPT !.locked = TRUE]
<1>2. m \in RunType /\ m.pc = "load" /\ m.old = 0 /\ m.new = 0
  BY IdleTyped DEF IdleRun, RunType
<1>3. run' = [run EXCEPT ![r] = n] /\ job' = [job EXCEPT ![f] = Taken(job[f])]
  BY <1>1 DEF StartRun
<1>. HIDE DEF m
<1>4. k \in RunType /\ k.pc = "load" /\ k.file = f /\ k.old = 0 /\ k.new = 0
  BY <1>2 DEF RunType
<1>. HIDE DEF k
<1>5. /\ n \in RunType
      /\ n.pc = "load" /\ n.file = f /\ n.locked = TRUE /\ n.old = 0 /\ n.new = 0
  BY <1>4 DEF RunType
<1>. HIDE DEF n
<1>7. run' \in [Runs -> RunType] /\ RunBecomes(r, "load", f, TRUE, 0, 0)
  BY <1>1, <1>3, <1>5 DEF RunBecomes
<1>8. /\ Taken(job[f]) \in Job /\ Taken(job[f]).state = "active"
      /\ Taken(job[f]).made < CreateQueueAttempts
  BY <1>1 DEF JobsOK, StartRun, Taken, Job
<1>9. job' \in [Files -> Job] /\ JobBecomes(f, {"active"})
  BY <1>1, <1>3, <1>8 DEF JobBecomes
<1>. QED  BY <1>7, <1>9 DEF Starts

LEMMA RunGoes ==
    ASSUME TypeOK, JobsOK, NEW r \in Runs,
           Load(r) \/ Flag(r) \/ \E n \in 1..MaxVariants : PutVariants(r, n)
    PROVE  run' \in [Runs -> RunType] /\ job' = job /\ Goes(r)
<1>1. run \in [Runs -> RunType]
  BY DEF TypeOK, RunType
<1>2. CASE Load(r)
  <2>1. run[r].file \in Files /\ row[run[r].file].manifest \in 0..MaxVariants
    BY <1>2 DEF Load, JobsOK, TypeOK, NoRow, GoneRow
  <2>. DEFINE m == [run EXCEPT ![r].old = row[run[r].file].manifest]
  <2>2. run' = [m EXCEPT ![r].pc = "flag"]
    BY <1>1, <1>2 DEF Load
  <2>3. /\ m \in [Runs -> RunType]
        /\ m[r].file = run[r].file /\ m[r].locked = run[r].locked
        /\ m[r].old = row[run[r].file].manifest /\ m[r].new = run[r].new
        /\ \A q \in Runs \ {r} : m[q] = run[q]
    BY <1>1, <2>1 DEF RunType
  <2>. HIDE DEF m
  <2>4. /\ run' \in [Runs -> RunType]
        /\ RunBecomes(r, "flag", run[r].file, run[r].locked, row[run[r].file].manifest, run[r].new)
    BY <2>2, <2>3 DEF RunType, RunBecomes
  <2>. QED  BY <1>2, <2>4 DEF Goes, Load
<1>3. CASE Flag(r)
  <2>1. /\ run' \in [Runs -> RunType]
        /\ RunBecomes(r, "work", run[r].file, run[r].locked, run[r].old, run[r].new)
    BY <1>1, <1>3 DEF Flag, RunType, RunBecomes
  <2>. QED  BY <1>3, <2>1 DEF Goes, Flag
<1>4. ASSUME NEW n \in 1..MaxVariants, PutVariants(r, n)
      PROVE  run' \in [Runs -> RunType] /\ job' = job /\ Goes(r)
  <2>. DEFINE m == [run EXCEPT ![r].new = n]
  <2>1. run' = [m EXCEPT ![r].pc = "commit"]
    BY <1>1, <1>4 DEF PutVariants
  <2>2. /\ m \in [Runs -> RunType]
        /\ m[r].file = run[r].file /\ m[r].locked = run[r].locked
        /\ m[r].old = run[r].old /\ m[r].new = n
        /\ \A q \in Runs \ {r} : m[q] = run[q]
    BY <1>1 DEF RunType
  <2>. HIDE DEF m
  <2>3. /\ run' \in [Runs -> RunType]
        /\ RunBecomes(r, "commit", run[r].file, run[r].locked, run[r].old, n)
    BY <2>1, <2>2 DEF RunType, RunBecomes
  <2>. QED  BY <1>4, <2>3 DEF Goes, PutVariants
<1>. QED  BY <1>2, <1>3, <1>4

LEMMA RunStalled ==
    ASSUME TypeOK, JobsOK, NEW f \in Files, Stall(f)
    PROVE  run' \in [Runs -> RunType] /\ job' \in [Files -> Job] /\ Stalls(f)
<1>1. run \in [Runs -> RunType] /\ job \in [Files -> Job] /\ job[f].state = "active"
  BY DEF TypeOK, RunType, Stall
<1>2. job' = [job EXCEPT ![f] = Stalled(job[f])]
  BY <1>1 DEF Stall
<1>3. job' \in [Files -> Job] /\ JobBecomes(f, {"waiting", "failed"})
  BY <1>1, <1>2, OutcomeTyped DEF JobBecomes
<1>4. run' = [r \in Runs |-> IF run[r].file = f THEN [run[r] EXCEPT !.locked = FALSE] ELSE run[r]]
  BY DEF Stall
<1>5. run' \in [Runs -> RunType]
  BY <1>1, <1>4 DEF RunType
<1>6. \A r \in Runs :
          /\ run[r].file # f => run'[r] = run[r]
          /\ run[r].file = f => /\ run'[r].pc = run[r].pc /\ run'[r].file = f /\ ~run'[r].locked
                                /\ run'[r].old = run[r].old /\ run'[r].new = run[r].new
  BY <1>1, <1>4 DEF RunType
<1>. QED  BY <1>1, <1>3, <1>5, <1>6 DEF Stalls

\* Every step, by what becomes of runs and jobs.
LEMMA RunSteps ==
    ASSUME TypeOK, JobsOK, [Next]_vars
    PROVE  /\ run' \in [Runs -> RunType] /\ job' \in [Files -> Job]
           /\ \/ UNCHANGED <<run, job>>
              \/ \E f \in Files : Enqueues(f) \/ Stalls(f)
              \/ \E r \in Runs, f \in Files : Starts(r, f)
              \/ \E r \in Runs : Goes(r) \/ Ends(r)
<1>1. run \in [Runs -> RunType] /\ job \in [Files -> Job]
  BY DEF TypeOK, RunType
<1>2. CASE UNCHANGED <<run, job>>
  BY <1>1, <1>2
<1>3. ASSUME NEW f \in Files, EnqueueTransform(f)
      PROVE  run' \in [Runs -> RunType] /\ job' \in [Files -> Job] /\ Enqueues(f)
  <2>1. job' \in [Files -> Job] /\ JobBecomes(f, {"waiting"})
    BY <1>1, <1>3, IdleTyped DEF EnqueueTransform, JobBecomes, CreateQueueAttempts
  <2>. QED  BY <1>1, <1>3, <2>1 DEF EnqueueTransform, Enqueues
<1>4. ASSUME \/ \E f \in Files, n \in 1..(MaxBytes - MaxVariants) : Uploaded(f, n)
             \/ \E f \in Files : DeleteFile(f) \/ ReapSoftDeleted(f)
             \/ ReconcileRead \/ ReconcileWrite \/ UNCHANGED vars
      PROVE  UNCHANGED <<run, job>>
  BY <1>4 DEF Uploaded, DeleteFile, ReapSoftDeleted, ReconcileRead, ReconcileWrite, vars
<1>. QED  BY <1>2, <1>3, <1>4, RunEnded, RunStarted, RunGoes, RunStalled, <1>1 DEF Next, RunStep

-----------------------------------------------------------------------------
(***************************************************************************)
(* What a step does to a row.                                              *)
(***************************************************************************)
TableRow == [status : Statuses, size : 1..(MaxBytes - MaxVariants),
             manifest : 0..MaxVariants, live : BOOLEAN]
Rows == {NoRow, GoneRow} \cup TableRow

LEMMA RowTyped ==
    ASSUME TypeOK, NEW f \in Files
    PROVE  /\ row \in [Files -> Rows]
           /\ InTable(f) => row[f] \in TableRow
           /\ ~InTable(f) => /\ row[f] \in {NoRow, GoneRow} /\ ~row[f].live
                             /\ row[f].status \in {"none", "gone"}
           /\ row[f].live \in BOOLEAN
           /\ GoneRow.status = "gone" /\ NoRow.status = "none"
<1>1. row \in [Files -> Rows]
  BY DEF TypeOK, Rows, TableRow
<1>2. /\ NoRow.status = "none" /\ NoRow.live = FALSE
      /\ GoneRow.status = "gone" /\ GoneRow.live = FALSE
  BY DEF NoRow, GoneRow
<1>. QED  BY <1>1, <1>2 DEF Rows, TableRow, InTable, Statuses, COUNTED_STATUSES

\* A row in the table after a step that writes it.
RowBecomes(f, status, manifest, live) ==
    /\ row'[f] \in TableRow
    /\ row'[f].status = status /\ row'[f].manifest = manifest /\ row'[f].live = live
    /\ row'[f].size = row[f].size
    /\ \A g \in Files \ {f} : row'[g] = row[g]

LEMMA RowWritten ==
    ASSUME TypeOK, NEW f \in Files, InTable(f), NEW s \in Statuses, NEW n \in 0..MaxVariants
    PROVE  /\ row' = [row EXCEPT ![f].status = s] =>
                row' \in [Files -> Rows] /\ RowBecomes(f, s, row[f].manifest, row[f].live)
           /\ row' = [row EXCEPT ![f].live = FALSE, ![f].status = s] =>
                row' \in [Files -> Rows] /\ RowBecomes(f, s, row[f].manifest, FALSE)
           /\ row' = [row EXCEPT ![f].manifest = n, ![f].status = s] =>
                row' \in [Files -> Rows] /\ RowBecomes(f, s, n, row[f].live)
<1>1. row \in [Files -> Rows] /\ row[f] \in TableRow
  BY RowTyped
<1>2. ASSUME NEW w, w \in [Files -> Rows], w[f] \in TableRow,
             w[f].size = row[f].size, \A g \in Files \ {f} : w[g] = row[g],
             row' = [w EXCEPT ![f].status = s]
      PROVE  row' \in [Files -> Rows] /\ RowBecomes(f, s, w[f].manifest, w[f].live)
  <2>1. row'[f] \in TableRow /\ \A g \in Files \ {f} : row'[g] = row[g]
    BY <1>2 DEF TableRow
  <2>2. row' \in [Files -> Rows]
    BY <1>1, <1>2, <2>1 DEF Rows
  <2>3. /\ row'[f].status = s /\ row'[f].manifest = w[f].manifest /\ row'[f].live = w[f].live
        /\ row'[f].size = row[f].size
    BY <1>2 DEF TableRow
  <2>. QED  BY <2>1, <2>2, <2>3 DEF RowBecomes
<1>3. ASSUME row' = [row EXCEPT ![f].status = s]
      PROVE  row' \in [Files -> Rows] /\ RowBecomes(f, s, row[f].manifest, row[f].live)
  BY <1>1, <1>2, <1>3
<1>4. ASSUME row' = [row EXCEPT ![f].live = FALSE, ![f].status = s]
      PROVE  row' \in [Files -> Rows] /\ RowBecomes(f, s, row[f].manifest, FALSE)
  <2>. DEFINE w == [row EXCEPT ![f].live = FALSE]
  <2>1. row' = [w EXCEPT ![f].status = s]
    BY <1>1, <1>4
  <2>2. /\ w[f] \in TableRow /\ w[f].live = FALSE /\ w[f].manifest = row[f].manifest
        /\ w[f].size = row[f].size /\ \A g \in Files \ {f} : w[g] = row[g]
        /\ w \in [Files -> Rows]
    BY <1>1 DEF TableRow, Rows
  <2>. HIDE DEF w
  <2>. QED  BY <1>2, <2>1, <2>2
<1>5. ASSUME row' = [row EXCEPT ![f].manifest = n, ![f].status = s]
      PROVE  row' \in [Files -> Rows] /\ RowBecomes(f, s, n, row[f].live)
  <2>. DEFINE w == [row EXCEPT ![f].manifest = n]
  <2>1. row' = [w EXCEPT ![f].status = s]
    BY <1>1, <1>5
  <2>2. /\ w[f] \in TableRow /\ w[f].live = row[f].live /\ w[f].manifest = n
        /\ w[f].size = row[f].size /\ \A g \in Files \ {f} : w[g] = row[g]
        /\ w \in [Files -> Rows]
    BY <1>1 DEF TableRow, Rows
  <2>. HIDE DEF w
  <2>. QED  BY <1>2, <2>1, <2>2
<1>. QED  BY <1>3, <1>4, <1>5

\* The writes there are.
Inserts(f) ==
    /\ \E n \in 1..(MaxBytes - MaxVariants) :
          /\ Uploaded(f, n)
          /\ row'[f] = [status |-> "uploaded", size |-> n, manifest |-> 0, live |-> TRUE]
    /\ row[f] = NoRow
    /\ \A g \in Files \ {f} : row'[g] = row[g]
Deletes(f) == DeleteFile(f) /\ row[f].live /\ InTable(f) /\ RowBecomes(f, "deleted", row[f].manifest, FALSE)
Purges(f) ==
    /\ ReapSoftDeleted(f) /\ InTable(f) /\ ~row[f].live
    /\ row'[f] = GoneRow /\ \A g \in Files \ {f} : row'[g] = row[g]
Readies(f, r) ==
    /\ LoadNoVariants(r) /\ row[f].live /\ row[f].status = "uploaded" /\ InTable(f)
    /\ RowBecomes(f, "ready", row[f].manifest, TRUE)
Flags(f, r) ==
    /\ Flag(r) /\ row[f].status = "uploaded" /\ InTable(f)
    /\ RowBecomes(f, "transforming", row[f].manifest, row[f].live)
Fails(f, r) ==
    /\ RejectSource(r) \/ Throw(r)
    /\ SetFailed(f) /\ InTable(f) /\ RowBecomes(f, "failed", row[f].manifest, row[f].live)
Commits(f, r) ==
    /\ Commit(r) /\ InTable(f) /\ RowBecomes(f, "ready", run[r].new, row[f].live)

RowWrites(f) ==
    \/ Inserts(f) \/ Deletes(f) \/ Purges(f)
    \/ \E r \in Runs : /\ run[r].pc # "idle" /\ run[r].file = f
                       /\ Readies(f, r) \/ Flags(f, r) \/ Fails(f, r) \/ Commits(f, r)

\* What a write makes of a row, without the reasons.
LEMMA RowCases ==
    ASSUME NEW f \in Files, RowWrites(f)
    PROVE  /\ \A g \in Files \ {f} : row'[g] = row[g]
           /\ row[f] = NoRow \/ InTable(f)
           /\ \/ /\ row'[f].status = "uploaded" /\ row'[f].manifest = 0
                 /\ row[f] = NoRow
              \/ row'[f] = GoneRow /\ ~row[f].live
              \/ /\ row'[f].status = "deleted" /\ row'[f].live = FALSE
                 /\ row'[f].manifest = row[f].manifest
              \/ row'[f].status \in {"ready", "failed"}
              \/ /\ row'[f].status = "transforming" /\ row[f].status = "uploaded"
                 /\ row'[f].manifest = row[f].manifest
<1>1. CASE Inserts(f)
  BY <1>1 DEF Inserts
<1>2. CASE Deletes(f)
  BY <1>2 DEF Deletes, RowBecomes
<1>3. CASE Purges(f)
  BY <1>3 DEF Purges
<1>4. ASSUME NEW r \in Runs, Readies(f, r) \/ Fails(f, r) \/ Commits(f, r)
      PROVE  /\ InTable(f) /\ \A g \in Files \ {f} : row'[g] = row[g]
             /\ row'[f].status \in {"ready", "failed"}
  BY <1>4 DEF Readies, Fails, Commits, RowBecomes
<1>5. ASSUME NEW r \in Runs, Flags(f, r)
      PROVE  /\ InTable(f) /\ \A g \in Files \ {f} : row'[g] = row[g]
             /\ row'[f].status = "transforming" /\ row[f].status = "uploaded"
             /\ row'[f].manifest = row[f].manifest
  BY <1>5 DEF Flags, RowBecomes
<1>. QED  BY <1>1, <1>2, <1>3, <1>4, <1>5 DEF RowWrites

LEMMA RowSteps ==
    ASSUME TypeOK, JobsOK, [Next]_vars
    PROVE  /\ row' \in [Files -> Rows]
           /\ row' = row \/ \E f \in Files : RowWrites(f)
<1>1. /\ row \in [Files -> Rows] /\ 0 \in 0..MaxVariants
      /\ {"deleted", "ready", "transforming", "failed"} \subseteq Statuses
  BY DEF TypeOK, Rows, TableRow, Statuses, COUNTED_STATUSES
<1>2. CASE row' = row
  BY <1>1, <1>2
<1>3. ASSUME NEW f \in Files, NEW n \in 1..(MaxBytes - MaxVariants), Uploaded(f, n)
      PROVE  row' \in [Files -> Rows] /\ RowWrites(f)
  <2>. DEFINE v == [status |-> "uploaded", size |-> n, manifest |-> 0, live |-> TRUE]
  <2>1. v \in Rows
    BY DEF Rows, TableRow, Statuses, COUNTED_STATUSES
  <2>2. row' = [row EXCEPT ![f] = v] /\ row[f] = NoRow
    BY <1>3 DEF Uploaded
  <2>. HIDE DEF v
  <2>3. row' \in [Files -> Rows] /\ row'[f] = v /\ \A g \in Files \ {f} : row'[g] = row[g]
    BY <1>1, <2>1, <2>2
  <2>. QED  BY <1>3, <2>2, <2>3 DEF v, Inserts, RowWrites
<1>4. ASSUME NEW f \in Files, DeleteFile(f)
      PROVE  row' \in [Files -> Rows] /\ RowWrites(f)
  <2>1. row[f].live /\ InTable(f) /\ row' = [row EXCEPT ![f].live = FALSE, ![f].status = "deleted"]
    BY <1>4, RowTyped DEF DeleteFile
  <2>. QED  BY <1>1, <1>4, <2>1, RowWritten DEF Deletes, RowWrites
<1>5. ASSUME NEW f \in Files, ReapSoftDeleted(f)
      PROVE  row' \in [Files -> Rows] /\ RowWrites(f)
  BY <1>1, <1>5 DEF ReapSoftDeleted, Rows, Purges, RowWrites
<1>6. ASSUME NEW r \in Runs, run[r].pc # "idle",
             LoadNoVariants(r) \/ Flag(r) \/ RejectSource(r) \/ Throw(r) \/ Commit(r)
      PROVE  row' \in [Files -> Rows] /\ (row' = row \/ RowWrites(run[r].file))
  <2>. DEFINE f == run[r].file
  <2>0. f \in Files
    BY <1>6 DEF JobsOK
  <2>1. CASE LoadNoVariants(r)
    <3>1. CASE row[f].status = "uploaded"
      <4>1. InTable(f) /\ row[f].live /\ row' = [row EXCEPT ![f].status = "ready"]
        BY <2>1, <3>1 DEF LoadNoVariants, InTable, Statuses, COUNTED_STATUSES
      <4>2. row' \in [Files -> Rows] /\ RowBecomes(f, "ready", row[f].manifest, row[f].live)
        BY <1>1, <2>0, <4>1, RowWritten
      <4>3. row[f].live = TRUE
        BY <2>0, <4>1, RowTyped
      <4>. QED  BY <1>6, <2>1, <3>1, <4>1, <4>2, <4>3 DEF Readies, RowWrites
    <3>2. CASE row[f].status # "uploaded"
      BY <1>1, <2>1, <3>2 DEF LoadNoVariants
    <3>. QED  BY <3>1, <3>2
  <2>2. CASE Flag(r)
    <3>1. CASE row[f].status = "uploaded"
      <4>1. InTable(f) /\ row' = [row EXCEPT ![f].status = "transforming"]
        BY <2>2, <3>1 DEF Flag, InTable, Statuses, COUNTED_STATUSES
      <4>2. row' \in [Files -> Rows] /\ RowBecomes(f, "transforming", row[f].manifest, row[f].live)
        BY <1>1, <2>0, <4>1, RowWritten
      <4>. QED  BY <1>6, <2>2, <3>1, <4>1, <4>2 DEF Flags, RowWrites
    <3>2. CASE row[f].status # "uploaded"
      BY <1>1, <2>2, <3>2 DEF Flag
    <3>. QED  BY <3>1, <3>2
  <2>3. CASE (RejectSource(r) \/ Throw(r)) /\ row' # row
    <3>1. SetFailed(f)
      BY <2>3 DEF RejectSource, Throw
    <3>2. InTable(f) /\ row' = [row EXCEPT ![f].status = "failed"]
      BY <2>3, <3>1 DEF SetFailed
    <3>3. row' \in [Files -> Rows] /\ RowBecomes(f, "failed", row[f].manifest, row[f].live)
      BY <1>1, <2>0, <3>2, RowWritten
    <3>. QED  BY <1>6, <2>3, <3>1, <3>2, <3>3 DEF Fails, RowWrites
  <2>4. CASE Commit(r)
    <3>1. CASE InTable(f)
      <4>1. row' = [row EXCEPT ![f].manifest = run[r].new, ![f].status = "ready"]
        BY <2>4, <3>1 DEF Commit
      <4>2. run[r].new \in 0..MaxVariants
        BY DEF TypeOK
      <4>3. row' \in [Files -> Rows] /\ RowBecomes(f, "ready", run[r].new, row[f].live)
        BY <1>1, <2>0, <3>1, <4>1, <4>2, RowWritten
      <4>. QED  BY <1>6, <2>4, <3>1, <4>3 DEF Commits, RowWrites
    <3>2. CASE ~InTable(f)
      BY <1>1, <2>4, <3>2 DEF Commit
    <3>. QED  BY <3>1, <3>2
  <2>. QED  BY <1>1, <1>6, <2>1, <2>2, <2>3, <2>4
<1>7. ASSUME NEW r \in Runs, LoadNoVariants(r) \/ Flag(r) \/ RejectSource(r) \/ Throw(r) \/ Commit(r)
      PROVE  run[r].pc # "idle" /\ run[r].file \in Files
  BY <1>7 DEF LoadNoVariants, Flag, RejectSource, Throw, Commit, JobsOK
<1>8. ASSUME \/ \E f \in Files : EnqueueTransform(f) \/ Stall(f)
             \/ \E r \in Runs, f \in Files : StartRun(r, f)
             \/ \E r \in Runs : LoadDone(r) \/ Load(r) \/ Die(r) \/ \E n \in 1..MaxVariants : PutVariants(r, n)
             \/ ReconcileRead \/ ReconcileWrite \/ UNCHANGED vars
      PROVE  row' = row
  BY <1>8 DEF EnqueueTransform, Stall, StartRun, LoadDone, Load, Die, PutVariants, ReconcileRead,
              ReconcileWrite, vars
<1>. QED  BY <1>2, <1>3, <1>4, <1>5, <1>6, <1>7, <1>8 DEF Next, RunStep

-----------------------------------------------------------------------------
(***************************************************************************)
(* The first half of the invariant, which no race disturbs.                *)
(***************************************************************************)
LEMMA RacesGrow ==
    ASSUME [Next]_vars
    PROVE  races \subseteq races'
<1>1. ASSUME NEW r \in Runs, RunStep(r) \/ Throw(r) \/ Die(r) PROVE races' = races
  BY <1>1 DEF RunStep, LoadDone, LoadNoVariants, Load, Flag, RejectSource, PutVariants, Commit,
              Throw, Die
<1>2. ASSUME \/ \E f \in Files, n \in 1..(MaxBytes - MaxVariants) : Uploaded(f, n)
             \/ \E f \in Files : EnqueueTransform(f) \/ ReapSoftDeleted(f)
             \/ \E r \in Runs, f \in Files : StartRun(r, f)
             \/ ReconcileRead \/ UNCHANGED vars
      PROVE  races' = races
  BY <1>2 DEF Uploaded, EnqueueTransform, ReapSoftDeleted, StartRun, ReconcileRead, vars
<1>3. ASSUME (\E f \in Files : DeleteFile(f) \/ Stall(f)) \/ ReconcileWrite
      PROVE  races \subseteq races'
  BY <1>3 DEF DeleteFile, Stall, ReconcileWrite, Raced
<1>. QED  BY <1>1, <1>2, <1>3 DEF Next

LEMMA JobsStep ==
    ASSUME TypeOK, JobsOK, [Next]_vars
    PROVE  JobsOK'
<1>1. /\ run' \in [Runs -> RunType] /\ job' \in [Files -> Job]
      /\ \A f \in Files : job[f].state \in {"waiting", "active"} => job[f].made < CreateQueueAttempts
      /\ \A r \in Runs : run[r].locked => run[r].file \in Files /\ job[run[r].file].state = "active"
      /\ \A r, q \in Runs : run[r].locked /\ run[q].locked /\ run[r].file = run[q].file => r = q
      /\ \A r \in Runs : run[r].pc = "idle" => run[r] = IdleRun
      /\ \A r \in Runs : run[r].pc # "idle" => run[r].file \in Files
  BY RunSteps DEF JobsOK
<1>2. /\ IdleRun.pc = "idle" /\ ~IdleRun.locked /\ IdleRun.file = NoFile
  BY DEF IdleRun
<1>3. SUFFICES
        /\ \A f \in Files : job'[f].state \in {"waiting", "active"} => job'[f].made < CreateQueueAttempts
        /\ \A r \in Runs : run'[r].locked => run'[r].file \in Files /\ job'[run'[r].file].state = "active"
        /\ \A r, q \in Runs : run'[r].locked /\ run'[q].locked /\ run'[r].file = run'[q].file => r = q
        /\ \A r \in Runs : run'[r].pc = "idle" => run'[r] = IdleRun
        /\ \A r \in Runs : run'[r].pc # "idle" => run'[r].file \in Files
  BY DEF JobsOK
<1>4. CASE UNCHANGED <<run, job>>
  BY <1>1, <1>4
<1>5. ASSUME NEW f \in Files, Enqueues(f) PROVE JobsOK'
  <2>1. job[f].state = "none"
    BY <1>5, IdleTyped DEF Enqueues, EnqueueTransform
  <2>. QED  BY <1>1, <1>5, <2>1 DEF Enqueues, JobBecomes, JobsOK
<1>6. ASSUME NEW f \in Files, Stalls(f) PROVE JobsOK'
  <2>1. /\ \A r \in Runs : run'[r].pc = run[r].pc /\ run'[r].file = run[r].file
        /\ \A r \in Runs : run'[r].locked => run[r].locked /\ run[r].file # f
    BY <1>6 DEF Stalls
  <2>2. \A r \in Runs : run[r].file # f => run'[r] = run[r]
    BY <1>6 DEF Stalls
  <2>3. \A r \in Runs : run[r].pc = "idle" => run'[r] = IdleRun
    BY <1>1, <1>2, <2>2
  <2>. QED  BY <1>1, <1>6, <2>1, <2>3 DEF Stalls, JobBecomes, JobsOK
<1>7. ASSUME NEW r \in Runs, NEW f \in Files, Starts(r, f) PROVE JobsOK'
  <2>1. job[f].state = "waiting"
    BY <1>7 DEF Starts, StartRun
  <2>2. \A q \in Runs : run[q].locked => run[q].file # f
    BY <1>1, <2>1
  <2>. QED  BY <1>1, <1>7, <2>2 DEF Starts, RunBecomes, JobBecomes, JobsOK
<1>8. ASSUME NEW r \in Runs, Goes(r) PROVE JobsOK'
  <2>1. /\ job' = job /\ run[r].pc # "idle" /\ run'[r].pc # "idle"
        /\ run'[r].file = run[r].file /\ run'[r].locked = run[r].locked
        /\ \A q \in Runs \ {r} : run'[q] = run[q]
    BY <1>8 DEF Goes, RunBecomes
  <2>. QED  BY <1>1, <2>1 DEF JobsOK
<1>9. ASSUME NEW r \in Runs, Ends(r) PROVE JobsOK'
  <2>1. /\ run[r].pc # "idle" /\ run'[r] = IdleRun /\ \A q \in Runs \ {r} : run'[q] = run[q]
        /\ \/ job' = job
           \/ run[r].locked /\ JobBecomes(run[r].file, {"waiting", "completed", "failed"})
    BY <1>9 DEF Ends
  <2>2. CASE job' = job
    BY <1>1, <1>2, <2>1, <2>2 DEF JobsOK
  <2>3. CASE run[r].locked /\ JobBecomes(run[r].file, {"waiting", "completed", "failed"})
    <3>1. \A q \in Runs \ {r} : run[q].locked => run[q].file # run[r].file
      BY <1>1, <2>3
    <3>. QED  BY <1>1, <1>2, <2>1, <2>3, <3>1 DEF JobBecomes, JobsOK
  <2>. QED  BY <2>1, <2>2, <2>3
<1>. QED  BY <1>4, <1>5, <1>6, <1>7, <1>8, <1>9, RunSteps DEF JobsOK

LEMMA LiveStep ==
    ASSUME TypeOK, JobsOK, LiveOK, [Next]_vars
    PROVE  LiveOK'
<1>1. \A f \in Files : row[f].live => row[f].status # "deleted"
  BY DEF LiveOK
<1>2. GoneRow.status = "gone"
  BY DEF GoneRow
<1>3. ASSUME NEW f \in Files, RowWrites(f) PROVE \A g \in Files : row'[g].live => row'[g].status # "deleted"
  BY <1>1, <1>2, <1>3, RowCases
<1>. QED  BY <1>1, <1>3, RowSteps DEF LiveOK

LEMMA ManifestsStep ==
    ASSUME TypeOK, JobsOK, ManifestsOK, [Next]_vars
    PROVE  ManifestsOK'
<1>1. /\ \A f \in Files : row[f].status \in {"uploaded", "transforming"} => row[f].manifest = 0
      /\ \A f \in Files : InTable(f) /\ row[f].manifest > 0 => f \in variants
      /\ \A r \in Runs : run[r].pc = "commit" => run[r].file \in variants \/ row[run[r].file] = GoneRow
      /\ \A r \in Runs : run[r].old = 0
      /\ \A r \in Runs : run[r].pc # "idle" => row[run[r].file] # NoRow
      /\ \A f \in Files : job[f] # NoJob => row[f] # NoRow
  BY DEF ManifestsOK
<1>2. /\ \A r \in Runs : run[r].pc = "idle" => run[r] = IdleRun
      /\ \A r \in Runs : run[r].pc # "idle" => run[r].file \in Files
      /\ run \in [Runs -> RunType]
  BY DEF JobsOK, TypeOK, RunType
<1>3. /\ GoneRow.status = "gone" /\ NoRow.status = "none" /\ GoneRow # NoRow
      /\ GoneRow.manifest = 0
      /\ IdleRun.pc = "idle" /\ IdleRun.old = 0
  BY DEF GoneRow, NoRow, IdleRun
<1>4. /\ \A f \in Files : row'[f].status \in {"uploaded", "transforming"} => row'[f].manifest = 0
      /\ \A f \in Files : row[f] # NoRow => row'[f] # NoRow
      /\ \A f \in Files : row[f] = GoneRow => row'[f] = GoneRow
  <2>1. ASSUME NEW f \in Files, RowWrites(f)
        PROVE  /\ \A g \in Files \ {f} : row'[g] = row[g]
               /\ row'[f].status \in {"uploaded", "transforming"} => row'[f].manifest = 0
               /\ row[f] # GoneRow
               /\ row'[f] # NoRow
    <3>1. row[f] # GoneRow
      BY <1>3, <2>1, RowCases DEF InTable, Statuses, COUNTED_STATUSES
    <3>2. row'[f].status # "none"
      BY <1>3, <2>1, RowCases
    <3>. QED  BY <1>1, <1>3, <2>1, <3>1, <3>2, RowCases
  <2>. QED  BY <1>1, <2>1, RowSteps
<1>5. \A f \in Files : f \in variants => f \in variants' \/ row'[f] = GoneRow
  <2>1. ASSUME NEW f \in Files, ReapSoftDeleted(f) PROVE \A g \in Files : g \in variants => g \in variants' \/ row'[g] = GoneRow
    BY <2>1 DEF ReapSoftDeleted, TypeOK
  <2>2. ASSUME ~\E f \in Files : ReapSoftDeleted(f) PROVE variants \subseteq variants'
    <3>1. ASSUME NEW r \in Runs, RunStep(r) \/ Throw(r) \/ Die(r) PROVE variants \subseteq variants'
      BY <3>1 DEF RunStep, LoadDone, LoadNoVariants, Load, Flag, RejectSource, PutVariants, Commit,
                  Throw, Die
    <3>2. ASSUME \/ \E f \in Files, n \in 1..(MaxBytes - MaxVariants) : Uploaded(f, n)
                 \/ \E f \in Files : EnqueueTransform(f) \/ DeleteFile(f) \/ Stall(f)
                 \/ \E r \in Runs, f \in Files : StartRun(r, f)
                 \/ ReconcileRead \/ ReconcileWrite \/ UNCHANGED vars
          PROVE  variants' = variants
      BY <3>2 DEF Uploaded, EnqueueTransform, DeleteFile, Stall, StartRun, ReconcileRead,
                  ReconcileWrite, vars
    <3>. QED  BY <2>2, <3>1, <3>2 DEF Next
  <2>. QED  BY <2>1, <2>2
<1>6. \A f \in Files : row'[f].status \in Statuses /\ row'[f].manifest > 0 => f \in variants'
  <2>1. ASSUME NEW f \in Files, row'[f].status \in Statuses, row'[f].manifest > 0 PROVE f \in variants
    <3>1. CASE row'[f] = row[f]
      BY <1>1, <2>1, <3>1 DEF InTable
    <3>2. CASE InTable(f) /\ row'[f].manifest = row[f].manifest
      BY <1>1, <2>1, <3>2
    <3>3. ASSUME NEW r \in Runs, run[r].file = f, Commits(f, r) PROVE f \in variants
      BY <1>1, <1>3, <3>3 DEF Commits, Commit, InTable, Statuses, COUNTED_STATUSES
    <3>4. CASE Inserts(f)
      BY <2>1, <3>4 DEF Inserts
    <3>5. CASE Purges(f)
      BY <1>3, <2>1, <3>5 DEF Purges
    <3>6. CASE RowWrites(f)
      BY <3>2, <3>3, <3>4, <3>5, <3>6 DEF RowWrites, Deletes, Readies, Flags, Fails, RowBecomes
    <3>7. ASSUME NEW g \in Files, RowWrites(g), g # f PROVE row'[f] = row[f]
      BY <3>7 DEF RowWrites, Inserts, Deletes, Purges, Readies, Flags, Fails, Commits, RowBecomes
    <3>. QED  BY <3>1, <3>6, <3>7, RowSteps
  <2>. QED  BY <1>3, <1>5, <2>1 DEF Statuses, COUNTED_STATUSES
<1>7. \A r \in Runs : run'[r].pc = "commit" => run'[r].file \in variants' \/ row'[run'[r].file] = GoneRow
  <2>1. ASSUME NEW r \in Runs, run'[r].pc = "commit", run[r].pc = "commit", run'[r].file = run[r].file
        PROVE  run'[r].file \in variants' \/ row'[run'[r].file] = GoneRow
    BY <1>1, <1>2, <1>4, <1>5, <2>1
  <2>2. ASSUME NEW r \in Runs, NEW n \in 1..MaxVariants, PutVariants(r, n)
        PROVE  run[r].file \in variants'
    BY <2>2 DEF PutVariants
  <2>3. ASSUME NEW r \in Runs, run'[r].pc = "commit"
        PROVE  \/ run[r].pc = "commit" /\ run'[r].file = run[r].file
               \/ run'[r].file = run[r].file /\ \E n \in 1..MaxVariants : PutVariants(r, n)
    BY <1>3, <2>3, RunSteps DEF Enqueues, Stalls, Starts, Goes, Ends, RunBecomes
  <2>. QED  BY <2>1, <2>2, <2>3
<1>8. \A r \in Runs : run'[r].old = 0
  <2>1. ASSUME NEW r \in Runs, Load(r) PROVE row[run[r].file].manifest = 0
    BY <1>1, <1>2, <2>1 DEF Load
  <2>2. ASSUME NEW r \in Runs
        PROVE  run'[r].old \in {0, run[r].old} \/ (Load(r) /\ run'[r].old = row[run[r].file].manifest)
    BY <1>3, RunSteps DEF Enqueues, Stalls, Starts, Goes, Ends, RunBecomes, IdleRun
  <2>. QED  BY <1>1, <2>1, <2>2
<1>9. /\ \A r \in Runs : run'[r].pc # "idle" => row'[run'[r].file] # NoRow
      /\ \A f \in Files : job'[f] # NoJob => row'[f] # NoRow
  <2>1. ASSUME NEW r \in Runs, NEW f \in Files, Starts(r, f) PROVE row[f] # NoRow
    <3>1. job[f].state = "waiting"
      BY <2>1 DEF Starts, StartRun
    <3>. QED  BY <1>1, <3>1, IdleTyped
  <2>2. ASSUME NEW f \in Files, Enqueues(f) PROVE row[f] # NoRow
    BY <2>2 DEF Enqueues, EnqueueTransform, NoRow
  <2>3. ASSUME NEW f \in Files, Stalls(f) PROVE row[f] # NoRow
    BY <1>1, <2>3, IdleTyped DEF Stalls
  <2>4. ASSUME NEW r \in Runs, run'[r].pc # "idle"
        PROVE  run'[r].file \in Files /\ row[run'[r].file] # NoRow
    <3>1. CASE run'[r].file = run[r].file /\ run[r].pc # "idle"
      BY <1>1, <1>2, <3>1
    <3>2. ASSUME NEW f \in Files, Starts(r, f) PROVE run'[r].file = f
      BY <3>2 DEF Starts, RunBecomes
    <3>3. ASSUME NEW q \in Runs, NEW f \in Files, Starts(q, f), q # r PROVE run'[r] = run[r]
      BY <3>3 DEF Starts, RunBecomes
    <3>4. ASSUME NEW f \in Files, Stalls(f) PROVE run'[r].file = run[r].file /\ run'[r].pc = run[r].pc
      BY <3>4 DEF Stalls
    <3>5. ASSUME NEW q \in Runs, Goes(q) \/ Ends(q) PROVE run'[r].file = run[r].file /\ run[r].pc # "idle"
      BY <1>3, <2>4, <3>5 DEF Goes, Ends, RunBecomes
    <3>. QED  BY <2>1, <2>4, <3>1, <3>2, <3>3, <3>4, <3>5, RunSteps DEF Enqueues
  <2>5. ASSUME NEW f \in Files, job'[f] # NoJob PROVE row[f] # NoRow
    <3>1. ASSUME NEW r \in Runs, Ends(r), job'[f] # job[f] PROVE f = run[r].file /\ run[r].pc # "idle"
      BY <3>1 DEF Ends, JobBecomes
    <3>2. ASSUME NEW g \in Files, g # f, Enqueues(g) \/ Stalls(g) \/ \E r \in Runs : Starts(r, g)
          PROVE  job'[f] = job[f]
      BY <3>2 DEF Enqueues, Stalls, Starts, JobBecomes
    <3>3. ASSUME NEW r \in Runs, Goes(r) PROVE job'[f] = job[f]
      BY <3>3 DEF Goes
    <3>. QED  BY <1>1, <2>1, <2>2, <2>3, <2>5, <3>1, <3>2, <3>3, RunSteps
  <2>. QED  BY <1>4, <2>4, <2>5
<1>. QED  BY <1>4, <1>6, <1>7, <1>8, <1>9 DEF ManifestsOK, InTable

-----------------------------------------------------------------------------
(***************************************************************************)
(* What is counted.                                                        *)
(***************************************************************************)
Weight(t) == IF t.live /\ t.status \in COUNTED_STATUSES THEN t.size + t.manifest ELSE 0

LEMMA WeightTyped ==
    ASSUME NEW t \in Rows
    PROVE  Weight(t) \in 0..MaxBytes
<1>1. CASE t \in TableRow
  BY <1>1 DEF Weight, TableRow
<1>2. CASE t \in {NoRow, GoneRow}
  BY <1>2 DEF Weight, NoRow, GoneRow
<1>. QED  BY <1>1, <1>2 DEF Rows

LEMMA CountedIs ==
    ASSUME row \in [Files -> Rows]
    PROVE  /\ Counted \in Weights
           /\ \A f \in Files : Counted[f] = Weight(row[f])
BY WeightTyped DEF Counted, Weights, Weight

\* What counts for a file changes when its row is written, and not otherwise.
LEMMA CountedChanges ==
    ASSUME row \in [Files -> Rows], row' \in [Files -> Rows],
           NEW f \in Files, \A g \in Files \ {f} : row'[g] = row[g]
    PROVE  /\ Counted' = [Counted EXCEPT ![f] = Weight(row'[f])]
           /\ Total(Counted)' = Total(Counted) - Weight(row[f]) + Weight(row'[f])
           /\ Weight(row[f]) <= Total(Counted)
           /\ Weight(row[f]) \in 0..MaxBytes /\ Weight(row'[f]) \in 0..MaxBytes
<1>. DEFINE n == Weight(row'[f])
            w == Counted
<1>1. w \in Weights /\ w[f] = Weight(row[f]) /\ w[f] \in 0..MaxBytes
  BY CountedIs, WeightTyped
<1>2. n \in 0..MaxBytes
  BY WeightTyped
<1>3. Counted' = [w EXCEPT ![f] = n]
  <2>1. w = [g \in Files |-> Weight(row[g])] /\ Counted' = [g \in Files |-> Weight(row'[g])]
    BY DEF Counted, Weight
  <2>. HIDE DEF w
  <2>. QED  BY <2>1
<1>4. Total(Counted)' = Total(Counted')
  BY DEF Total, BytesOf, Sizes
<1>. HIDE DEF n, w
<1>5. Total([w EXCEPT ![f] = n]) = Total(w) - w[f] + n /\ w[f] <= Total(w)
  BY <1>1, <1>2, TotalUpdate
<1>. QED  BY <1>1, <1>2, <1>3, <1>4, <1>5 DEF n, w

LEMMA CountedSame ==
    ASSUME row \in [Files -> Rows], row' \in [Files -> Rows],
           \A f \in Files : Weight(row'[f]) = Weight(row[f])
    PROVE  Counted' = Counted
BY DEF Counted, Weight

LEMMA UsageOps ==
    ASSUME NEW u \in Usage, NEW m \in Nat, NEW d \in Int
    PROVE  /\ MarkUploaded(u, 0, m) \in Usage /\ MarkUploaded(u, 0, m).used = u.used + m
           /\ DecrementUsed(u, m) \in Usage
           /\ m <= u.used => DecrementUsed(u, m).used = u.used - m
           /\ AddUsed(u, d) \in Usage
           /\ u.used + d >= 0 => AddUsed(u, d).used = u.used + d
           /\ [u EXCEPT !.used = m] \in Usage /\ [u EXCEPT !.used = m].used = m
           /\ u.used \in Nat
BY DEF Usage, MarkUploaded, DecrementUsed, AddUsed, Floor

\* What becomes of the history of kept bytes.
LEMMA KeptSteps ==
    ASSUME TypeOK, JobsOK, [Next]_vars
    PROVE  \/ kept' = kept
           \/ \E r \in Runs : /\ RejectSource(r) \/ Throw(r)
                              /\ run[r].pc # "idle" /\ run[r].file \in Files
                              /\ SetFailed(run[r].file)
           \/ \E r \in Runs : /\ Commit(r) /\ run[r].file \in Files
                              /\ row[run[r].file].live /\ row[run[r].file].status = "failed"
                              /\ kept' = [kept EXCEPT ![run[r].file] = 0]
           \/ ReconcileWrite
<1>1. ASSUME NEW r \in Runs, RejectSource(r) \/ Throw(r) \/ Commit(r) PROVE run[r].pc # "idle" /\ run[r].file \in Files
  BY <1>1 DEF RejectSource, Throw, Commit, JobsOK
<1>2. ASSUME NEW r \in Runs,
             LoadDone(r) \/ LoadNoVariants(r) \/ Load(r) \/ Flag(r) \/ Die(r)
             \/ \E n \in 1..MaxVariants : PutVariants(r, n)
      PROVE  kept' = kept
  BY <1>2 DEF LoadDone, LoadNoVariants, Load, Flag, Die, PutVariants
<1>3. ASSUME NEW r \in Runs, RejectSource(r) \/ Throw(r) PROVE SetFailed(run[r].file) \/ kept' = kept
  BY <1>3 DEF RejectSource, Throw
<1>4. ASSUME NEW r \in Runs, Commit(r)
      PROVE  \/ kept' = kept
             \/ /\ row[run[r].file].live /\ row[run[r].file].status = "failed"
                /\ kept' = [kept EXCEPT ![run[r].file] = 0]
  BY <1>4 DEF Commit
<1>5. ASSUME \/ \E f \in Files, n \in 1..(MaxBytes - MaxVariants) : Uploaded(f, n)
             \/ \E f \in Files : EnqueueTransform(f) \/ DeleteFile(f) \/ ReapSoftDeleted(f) \/ Stall(f)
             \/ \E r \in Runs, f \in Files : StartRun(r, f)
             \/ ReconcileRead \/ UNCHANGED vars
      PROVE  kept' = kept
  BY <1>5 DEF Uploaded, EnqueueTransform, DeleteFile, ReapSoftDeleted, Stall, StartRun,
              ReconcileRead, vars
<1>. QED  BY <1>1, <1>2, <1>3, <1>4, <1>5 DEF Next, RunStep

LEMMA TypeStep ==
    ASSUME TypeOK, JobsOK, [Next]_vars
    PROVE  TypeOK'
<1>1. row \in [Files -> Rows] /\ row' \in [Files -> Rows]
  BY RowSteps DEF TypeOK, Rows, TableRow
<1>2. /\ usage \in Usage /\ variants \subseteq Files /\ snapshot \in Nat \cup {NoSnapshot}
      /\ kept \in [Files -> Nat] /\ races \subseteq Races
      /\ \A r \in Runs : run[r].pc # "idle" => run[r].file \in Files
      /\ \A r \in Runs : run[r].old \in 0..MaxVariants /\ run[r].new \in 0..MaxVariants
  BY DEF TypeOK, JobsOK
<1>3. usage' \in Usage
  <2>1. ASSUME NEW f \in Files, NEW n \in 1..(MaxBytes - MaxVariants), Uploaded(f, n) PROVE usage' \in Usage
    <3>1. n \in Nat /\ 0 \in Int
      OBVIOUS
    <3>. QED  BY <1>2, <2>1, <3>1, UsageOps DEF Uploaded
  <2>2. ASSUME NEW f \in Files, DeleteFile(f) PROVE usage' \in Usage
    <3>1. row[f] \in TableRow
      BY <2>2, RowTyped DEF DeleteFile
    <3>2. row[f].size + row[f].manifest \in Nat /\ 0 \in Int
      BY <3>1 DEF TableRow
    <3>. QED  BY <1>2, <2>2, <3>2, UsageOps DEF DeleteFile
  <2>3. ASSUME NEW r \in Runs, Commit(r) PROVE usage' \in Usage
    <3>1. run[r].new - run[r].old \in Int
      BY <1>2
    <3>. QED  BY <1>2, <2>3, <3>1, UsageOps DEF Commit
  <2>4. CASE ReconcileWrite
    BY <1>2, <2>4, UsageOps DEF ReconcileWrite
  <2>5. ASSUME NEW r \in Runs, RunStep(r) \/ Throw(r) \/ Die(r), ~Commit(r) PROVE usage' \in Usage
    BY <1>2, <2>5 DEF RunStep, LoadDone, LoadNoVariants, Load, Flag, RejectSource, PutVariants, Throw, Die
  <2>6. ASSUME \/ \E f \in Files : EnqueueTransform(f) \/ ReapSoftDeleted(f) \/ Stall(f)
               \/ \E r \in Runs, f \in Files : StartRun(r, f)
               \/ ReconcileRead \/ UNCHANGED vars
        PROVE  usage' \in Usage
    BY <1>2, <2>6 DEF EnqueueTransform, ReapSoftDeleted, Stall, StartRun, ReconcileRead, vars
  <2>. QED  BY <2>1, <2>2, <2>3, <2>4, <2>5, <2>6 DEF Next, RunStep
<1>4. variants' \subseteq Files
  <2>1. ASSUME NEW r \in Runs, RunStep(r) \/ Throw(r) \/ Die(r) PROVE variants' \subseteq Files
    BY <1>2, <2>1 DEF RunStep, LoadDone, LoadNoVariants, Load, Flag, RejectSource, PutVariants, Commit, Throw, Die
  <2>2. ASSUME \/ \E f \in Files, n \in 1..(MaxBytes - MaxVariants) : Uploaded(f, n)
               \/ \E f \in Files : EnqueueTransform(f) \/ DeleteFile(f) \/ ReapSoftDeleted(f) \/ Stall(f)
               \/ \E r \in Runs, f \in Files : StartRun(r, f)
               \/ ReconcileRead \/ ReconcileWrite \/ UNCHANGED vars
        PROVE  variants' \subseteq Files
    BY <1>2, <2>2 DEF Uploaded, EnqueueTransform, DeleteFile, ReapSoftDeleted, Stall, StartRun,
                      ReconcileRead, ReconcileWrite, vars
  <2>. QED  BY <2>1, <2>2 DEF Next
<1>5. snapshot' \in Nat \cup {NoSnapshot}
  <2>1. ASSUME NEW r \in Runs, RunStep(r) \/ Throw(r) \/ Die(r) PROVE snapshot' = snapshot
    BY <2>1 DEF RunStep, LoadDone, LoadNoVariants, Load, Flag, RejectSource, PutVariants, Commit, Throw, Die
  <2>2. ASSUME \/ \E f \in Files, n \in 1..(MaxBytes - MaxVariants) : Uploaded(f, n)
               \/ \E f \in Files : EnqueueTransform(f) \/ DeleteFile(f) \/ ReapSoftDeleted(f) \/ Stall(f)
               \/ \E r \in Runs, f \in Files : StartRun(r, f)
               \/ UNCHANGED vars
        PROVE  snapshot' = snapshot
    BY <2>2 DEF Uploaded, EnqueueTransform, DeleteFile, ReapSoftDeleted, Stall, StartRun, vars
  <2>3. CASE ReconcileRead \/ ReconcileWrite
    <3>1. Total(Counted) \in Nat
      BY TotalType
    <3>. QED  BY <2>3, <3>1 DEF ReconcileRead, ReconcileWrite
  <2>. QED  BY <1>2, <2>1, <2>2, <2>3 DEF Next
<1>6. kept' \in [Files -> Nat]
  <2>1. ASSUME NEW f \in Files, SetFailed(f) PROVE kept' \in [Files -> Nat]
    <3>1. Counted[f] \in Nat
      BY <1>1, CountedIs DEF Weights
    <3>. QED  BY <1>2, <2>1, <3>1 DEF SetFailed
  <2>2. CASE ReconcileWrite
    BY <2>2 DEF ReconcileWrite
  <2>3. ASSUME NEW f \in Files, kept' = [kept EXCEPT ![f] = 0] PROVE kept' \in [Files -> Nat]
    BY <1>2, <2>3
  <2>. QED  BY <1>2, <2>1, <2>2, <2>3, KeptSteps
<1>7. races' \subseteq Races
  <2>1. ASSUME NEW r \in Runs, RunStep(r) \/ Throw(r) \/ Die(r) PROVE races' = races
    BY <2>1 DEF RunStep, LoadDone, LoadNoVariants, Load, Flag, RejectSource, PutVariants, Commit, Throw, Die
  <2>2. ASSUME \/ \E f \in Files, n \in 1..(MaxBytes - MaxVariants) : Uploaded(f, n)
               \/ \E f \in Files : EnqueueTransform(f) \/ ReapSoftDeleted(f)
               \/ \E r \in Runs, f \in Files : StartRun(r, f)
               \/ ReconcileRead \/ UNCHANGED vars
        PROVE  races' = races
    BY <2>2 DEF Uploaded, EnqueueTransform, ReapSoftDeleted, StartRun, ReconcileRead, vars
  <2>3. ASSUME (\E f \in Files : DeleteFile(f) \/ Stall(f)) \/ ReconcileWrite
        PROVE  races' \subseteq Races
    BY <1>2, <2>3 DEF DeleteFile, Stall, ReconcileWrite, Raced, Races
  <2>. QED  BY <1>2, <2>1, <2>2, <2>3 DEF Next
<1>. QED  BY <1>1, <1>3, <1>4, <1>5, <1>6, <1>7, RunSteps DEF TypeOK, Rows, TableRow, RunType

-----------------------------------------------------------------------------
\* A row that counts for nothing goes on counting for nothing, unless a run that was
\* given up commits after all.
LEMMA KeptRow ==
    ASSUME TypeOK, LiveOK, NEW f \in Files, RowWrites(f), Weight(row[f]) = 0, row[f] # NoRow,
           row' \in [Files -> Rows]
    PROVE  /\ row'[f] # NoRow
           /\ \/ Weight(row'[f]) = 0
              \/ \E r \in Runs : /\ run[r].file = f /\ Commit(r)
                                 /\ row[f].live /\ row[f].status = "failed"
<1>1. InTable(f) /\ row[f] \in TableRow
  BY RowCases, RowTyped
<1>2. row[f].live => row[f].status = "failed"
  <2>1. row[f].live => row[f].status \notin COUNTED_STATUSES
    BY <1>1 DEF Weight, TableRow
  <2>2. row[f].live => row[f].status # "deleted"
    BY DEF LiveOK
  <2>. QED  BY <1>1, <2>1, <2>2 DEF TableRow, Statuses
<1>3. Weight(GoneRow) = 0 /\ NoRow.status = "none" /\ GoneRow.status = "gone"
  BY DEF Weight, GoneRow, NoRow
<1>4. row'[f] # NoRow
  BY <1>1, <1>3, RowCases DEF InTable, Statuses, COUNTED_STATUSES
<1>5. CASE Inserts(f)
  BY <1>5 DEF Inserts
<1>6. CASE Deletes(f)
  BY <1>4, <1>6 DEF Deletes, RowBecomes, Weight
<1>7. CASE Purges(f)
  BY <1>3, <1>4, <1>7 DEF Purges
<1>8. ASSUME NEW r \in Runs, run[r].file = f,
             Readies(f, r) \/ Flags(f, r) \/ Fails(f, r) \/ Commits(f, r)
      PROVE  \/ Weight(row'[f]) = 0
             \/ /\ run[r].file = f /\ Commit(r)
                /\ row[f].live /\ row[f].status = "failed"
  <2>1. CASE Readies(f, r)
    BY <1>2, <2>1 DEF Readies
  <2>2. CASE Flags(f, r)
    BY <1>1, <1>2, <2>2 DEF Flags, RowBecomes, Weight, TableRow
  <2>3. CASE Fails(f, r)
    BY <2>3 DEF Fails, RowBecomes, Weight, COUNTED_STATUSES
  <2>4. CASE Commits(f, r)
    BY <1>1, <1>2, <1>8, <2>4 DEF Commits, RowBecomes, Weight, TableRow
  <2>. QED  BY <1>8, <2>1, <2>2, <2>3, <2>4
<1>. QED  BY <1>4, <1>5, <1>6, <1>7, <1>8 DEF RowWrites

\* Marking a row as failed moves what it counted for to the history.
LEMMA FailedRow ==
    ASSUME TypeOK, NEW f \in Files, SetFailed(f)
    PROVE  /\ \A g \in Files \ {f} : row'[g] = row[g]
           /\ row' \in [Files -> Rows]
           /\ Weight(row'[f]) = 0
           /\ kept' = [kept EXCEPT ![f] = kept[f] + Weight(row[f])]
           /\ row[f] # NoRow => row'[f] # NoRow
<1>1. row \in [Files -> Rows] /\ kept \in [Files -> Nat]
  BY RowTyped DEF TypeOK
<1>2. kept' = [kept EXCEPT ![f] = kept[f] + Weight(row[f])]
  BY <1>1, CountedIs DEF SetFailed
<1>3. CASE InTable(f)
  <2>1. row' = [row EXCEPT ![f].status = "failed"] /\ "failed" \in Statuses /\ 0 \in 0..MaxVariants
    BY <1>3 DEF SetFailed, Statuses
  <2>2. row' \in [Files -> Rows] /\ RowBecomes(f, "failed", row[f].manifest, row[f].live)
    BY <1>3, <2>1, RowWritten
  <2>3. NoRow.status = "none"
    BY DEF NoRow
  <2>. QED  BY <1>2, <2>2, <2>3 DEF RowBecomes, Weight, COUNTED_STATUSES
<1>4. CASE ~InTable(f)
  <2>1. row' = row /\ ~row[f].live
    BY <1>4, RowTyped DEF SetFailed
  <2>. QED  BY <1>1, <1>2, <2>1 DEF Weight
<1>. QED  BY <1>3, <1>4

LEMMA KeptStep ==
    ASSUME TypeOK, JobsOK, ManifestsOK, LiveOK, KeptOK, [Next]_vars
    PROVE  KeptOK'
<1>1. /\ row \in [Files -> Rows] /\ row' \in [Files -> Rows] /\ kept \in [Files -> Nat]
      /\ \A f \in Files : Counted[f] = Weight(row[f])
  BY RowSteps, CountedIs DEF TypeOK, Rows, TableRow
<1>2. \A f \in Files : kept[f] \in 0..MaxBytes /\ (kept[f] > 0 => Weight(row[f]) = 0 /\ row[f] # NoRow)
  BY <1>1 DEF KeptOK
<1>3. \A f \in Files : Counted'[f] = Weight(row'[f])
  BY <1>1 DEF Counted, Weight
<1>4. SUFFICES \A f \in Files : /\ kept'[f] \in 0..MaxBytes
                                /\ kept'[f] > 0 => Weight(row'[f]) = 0 /\ row'[f] # NoRow
  BY <1>3 DEF KeptOK
<1>5. CASE kept' = kept
  <2>1. ASSUME NEW f \in Files, kept[f] > 0, RowWrites(f)
        PROVE  Weight(row'[f]) = 0 /\ row'[f] # NoRow
    <3>1. ASSUME NEW r \in Runs, run[r].file = f, Commit(r), row[f].live, row[f].status = "failed"
          PROVE  FALSE
      <4>1. kept' = [kept EXCEPT ![f] = 0]
        BY <3>1 DEF Commit
      <4>. QED  BY <1>1, <1>5, <2>1, <4>1
    <3>. QED  BY <1>1, <1>2, <2>1, <3>1, KeptRow
  <2>2. ASSUME NEW f \in Files, NEW g \in Files, RowWrites(g), g # f PROVE row'[f] = row[f]
    BY <2>2, RowCases
  <2>. QED  BY <1>2, <1>5, <2>1, <2>2, RowSteps
<1>6. ASSUME NEW r \in Runs, run[r].pc # "idle", run[r].file \in Files, SetFailed(run[r].file)
      PROVE  \A f \in Files : /\ kept'[f] \in 0..MaxBytes
                              /\ kept'[f] > 0 => Weight(row'[f]) = 0 /\ row'[f] # NoRow
  <2>. DEFINE f == run[r].file
  <2>1. row[f] # NoRow
    BY <1>6 DEF ManifestsOK
  <2>2. Weight(row[f]) \in 0..MaxBytes
    BY <1>1, <1>6, WeightTyped
  <2>3. /\ kept'[f] = kept[f] + Weight(row[f]) /\ Weight(row'[f]) = 0 /\ row'[f] # NoRow
        /\ \A g \in Files \ {f} : kept'[g] = kept[g] /\ row'[g] = row[g]
    BY <1>1, <1>6, <2>1, FailedRow
  <2>4. kept'[f] \in 0..MaxBytes
    BY <1>2, <1>6, <2>2, <2>3
  <2>. QED  BY <1>2, <2>3, <2>4
<1>7. ASSUME NEW r \in Runs, Commit(r), run[r].file \in Files, kept' = [kept EXCEPT ![run[r].file] = 0]
      PROVE  \A f \in Files : /\ kept'[f] \in 0..MaxBytes
                              /\ kept'[f] > 0 => Weight(row'[f]) = 0 /\ row'[f] # NoRow
  <2>1. \A g \in Files \ {run[r].file} : row'[g] = row[g]
    <3>1. row' = row \/ row' = [row EXCEPT ![run[r].file].manifest = run[r].new, ![run[r].file].status = "ready"]
      BY <1>7 DEF Commit
    <3>. QED  BY <1>1, <3>1
  <2>. QED  BY <1>1, <1>2, <1>7, <2>1
<1>8. CASE ReconcileWrite
  BY <1>8 DEF ReconcileWrite
<1>. QED  BY <1>5, <1>6, <1>7, <1>8, KeptSteps

-----------------------------------------------------------------------------
(***************************************************************************)
(* The second half, which holds until a race happens.                      *)
(***************************************************************************)
LEMMA OneRunStep ==
    ASSUME TypeOK, JobsOK, OneRun, [Next]_vars
    PROVE  OneRun'
<1>1. SUFFICES ASSUME "overlap" \notin races', NEW r \in Runs, run'[r].pc # "idle"
               PROVE  run'[r].locked
  BY DEF OneRun
<1>2. \A q \in Runs : run[q].pc # "idle" => run[q].locked
  BY <1>1, RacesGrow DEF OneRun
<1>3. ASSUME NEW f \in Files, Stalls(f) PROVE run'[r] = run[r]
  <2>1. ~WorkedOn(f)
    BY <1>1, <1>3 DEF Stalls, Stall, Raced
  <2>. QED  BY <1>3, <2>1 DEF Stalls, WorkedOn
<1>4. ASSUME NEW q \in Runs, NEW f \in Files, Starts(q, f) PROVE run'[r].locked
  <2>1. CASE q = r
    BY <1>4, <2>1 DEF Starts, RunBecomes
  <2>2. CASE q # r
    BY <1>1, <1>2, <1>4, <2>2 DEF Starts, RunBecomes
  <2>. QED  BY <2>1, <2>2
<1>5. ASSUME NEW q \in Runs, Goes(q) PROVE run'[r].locked
  <2>1. run[r].pc # "idle" /\ run'[r].locked = run[r].locked
    BY <1>1, <1>5 DEF Goes, RunBecomes
  <2>. QED  BY <1>2, <2>1
<1>6. ASSUME NEW q \in Runs, Ends(q) PROVE run'[r].locked
  BY <1>1, <1>2, <1>6 DEF Ends, IdleRun
<1>. QED  BY <1>1, <1>2, <1>3, <1>4, <1>5, <1>6, RunSteps DEF Enqueues

\* The row a run has loaded is written by that run alone: a second run of the file
\* would need an overlap, and the API only deletes.
LEMMA RowsOwnRun ==
    ASSUME TypeOK, JobsOK, OneRun, RowAsLeft, [Next]_vars,
           races' \cap {"overlap", "delete"} = {},
           NEW r \in Runs, run[r].pc \in {"flag", "work", "commit"},
           row'[run[r].file] # row[run[r].file]
    PROVE  Flags(run[r].file, r) \/ run'[r] = IdleRun
<1>. DEFINE f == run[r].file
<1>1. /\ run[r].pc # "idle" /\ f \in Files /\ run[r].locked
      /\ row[f].live /\ WorkedOn(f)
  BY RacesGrow DEF OneRun, RowAsLeft, JobsOK, WorkedOn
<1>2. RowWrites(f)
  <2>1. PICK g \in Files : RowWrites(g)
    BY RowSteps
  <2>2. g = f
    BY <1>1, <2>1, RowCases
  <2>. QED  BY <2>1, <2>2
<1>3. ~Inserts(f)
  BY <1>1 DEF Inserts, NoRow
<1>4. ~Deletes(f)
  BY <1>1 DEF Deletes, DeleteFile, Raced
<1>5. ~Purges(f)
  BY <1>1 DEF Purges
<1>6. PICK q \in Runs : /\ run[q].pc # "idle" /\ run[q].file = f
                        /\ Readies(f, q) \/ Flags(f, q) \/ Fails(f, q) \/ Commits(f, q)
  BY <1>2, <1>3, <1>4, <1>5 DEF RowWrites
<1>7. q = r
  <2>1. run[q].locked
    BY <1>6, RacesGrow DEF OneRun
  <2>. QED  BY <1>1, <1>6, <2>1 DEF JobsOK
<1>8. ~Readies(f, r)
  BY DEF Readies, LoadNoVariants
<1>9. ASSUME Fails(f, r) \/ Commits(f, r) PROVE run'[r] = IdleRun
  <2>1. RejectSource(r) \/ Throw(r) \/ Commit(r)
    BY <1>9 DEF Fails, Commits
  <2>. QED  BY <2>1, RunEnded DEF Ends
<1>. QED  BY <1>6, <1>7, <1>8, <1>9

LEMMA RowAsLeftStep ==
    ASSUME TypeOK, JobsOK, OneRun, RowAsLeft, [Next]_vars
    PROVE  RowAsLeft'
<1>. DEFINE Left(s, pc) == /\ s.live
                           /\ pc = "flag" => s.status \in {"uploaded", "transforming"}
                           /\ pc \in {"work", "commit"} => s.status = "transforming"
<1>1. SUFFICES ASSUME races' \cap {"overlap", "delete"} = {},
                      NEW r \in Runs, run'[r].pc \in {"flag", "work", "commit"}
               PROVE  Left(row'[run'[r].file], run'[r].pc)
  BY DEF RowAsLeft
<1>2. ASSUME NEW q \in Runs, run[q].pc \in {"flag", "work", "commit"}
      PROVE  Left(row[run[q].file], run[q].pc)
  BY <1>1, <1>2, RacesGrow DEF RowAsLeft
<1>3. IdleRun.pc = "idle" /\ row \in [Files -> Rows]
  BY DEF IdleRun, TypeOK, Rows, TableRow
<1>4. CASE run'[r].pc = run[r].pc /\ run'[r].file = run[r].file
  <2>1. ~Flags(run[r].file, r)
    <3>1. ASSUME Flag(r) PROVE run[r].pc = "flag" /\ run'[r].pc = "work"
      <4>1. run[r].pc = "flag" /\ Goes(r)
        BY <3>1, RunGoes DEF Flag
      <4>. QED  BY <3>1, <4>1 DEF Goes, Load, PutVariants, RunBecomes
    <3>. QED  BY <1>4, <3>1 DEF Flags
  <2>2. row'[run[r].file] = row[run[r].file]
    BY <1>1, <1>3, <1>4, <2>1, RowsOwnRun
  <2>. QED  BY <1>1, <1>2, <1>4, <2>2
<1>5. ASSUME Load(r), run'[r].pc = "flag", run'[r].file = run[r].file
      PROVE  Left(row'[run'[r].file], run'[r].pc)
  BY <1>5 DEF Load
<1>6. ASSUME Flag(r), run'[r].pc = "work", run'[r].file = run[r].file
      PROVE  Left(row'[run'[r].file], run'[r].pc)
  <2>. DEFINE f == run[r].file
  <2>1. f \in Files /\ Left(row[f], "flag")
    BY <1>2, <1>6 DEF Flag, JobsOK
  <2>2. CASE row[f].status = "uploaded"
    <3>1. /\ InTable(f) /\ row' = [row EXCEPT ![f].status = "transforming"]
          /\ "transforming" \in Statuses /\ 0 \in 0..MaxVariants
      BY <1>6, <2>2 DEF Flag, InTable, Statuses, COUNTED_STATUSES
    <3>2. RowBecomes(f, "transforming", row[f].manifest, row[f].live)
      BY <2>1, <3>1, RowWritten
    <3>. QED  BY <1>6, <2>1, <3>2 DEF RowBecomes
  <2>3. CASE row[f].status # "uploaded"
    BY <1>6, <2>1, <2>3 DEF Flag
  <2>. QED  BY <2>2, <2>3
<1>7. ASSUME NEW n \in 1..MaxVariants, PutVariants(r, n), run'[r].pc = "commit", run'[r].file = run[r].file
      PROVE  Left(row'[run'[r].file], run'[r].pc)
  BY <1>2, <1>7 DEF PutVariants
<1>8. \/ run'[r].pc = run[r].pc /\ run'[r].file = run[r].file
      \/ /\ run'[r].file = run[r].file
         /\ \/ Load(r) /\ run'[r].pc = "flag"
            \/ Flag(r) /\ run'[r].pc = "work"
            \/ \E n \in 1..MaxVariants : PutVariants(r, n) /\ run'[r].pc = "commit"
  BY <1>1, <1>3, RunSteps DEF Enqueues, Stalls, Starts, Goes, Ends, RunBecomes
<1>. QED  BY <1>4, <1>5, <1>6, <1>7, <1>8

\* The counter after a step that changes what one file counts for, or is kept for.
LEMMA KeptChanges ==
    ASSUME KeptOK, kept \in [Files -> Nat], NEW f \in Files, NEW n \in 0..MaxBytes,
           kept' = [kept EXCEPT ![f] = n]
    PROVE  Total(kept)' = Total(kept) - kept[f] + n /\ Total(kept) \in Nat
<1>1. kept \in Weights
  BY DEF KeptOK, Weights
<1>2. Total(kept)' = Total(kept')
  BY DEF Total, BytesOf, Sizes
<1>3. Total([kept EXCEPT ![f] = n]) = Total(kept) - kept[f] + n
  BY <1>1, TotalUpdate
<1>. QED  BY <1>2, <1>3, TotalType

LEMMA UsedStep ==
    ASSUME TypeOK, JobsOK, ManifestsOK, LiveOK, KeptOK, RowAsLeft, UsedExact, [Next]_vars
    PROVE  UsedExact'
<1>1. SUFFICES ASSUME races' = {}
               PROVE  usage'.used = Total(Counted)' + Total(kept)'
  BY DEF UsedExact
<1>2. /\ usage.used = Total(Counted) + Total(kept)
      /\ Total(Counted) \in Nat /\ Total(kept) \in Nat
      /\ usage \in Usage
      /\ row \in [Files -> Rows] /\ row' \in [Files -> Rows] /\ kept \in [Files -> Nat]
      /\ \A f \in Files : row[f].live \in BOOLEAN
  BY <1>1, RacesGrow, RowSteps, RowTyped, TotalType DEF UsedExact, TypeOK, Rows, TableRow
<1>3. kept' = kept => Total(kept)' = Total(kept)
  BY DEF Total, BytesOf, Sizes
<1>4. Counted' = Counted => Total(Counted)' = Total(Counted)
  BY DEF Total, BytesOf, Sizes
<1>5. ASSUME usage' = usage, kept' = kept, \A f \in Files : Weight(row'[f]) = Weight(row[f])
      PROVE  usage'.used = Total(Counted)' + Total(kept)'
  BY <1>2, <1>3, <1>4, <1>5, CountedSame
<1>6. ASSUME NEW f \in Files, NEW n \in 1..(MaxBytes - MaxVariants), Uploaded(f, n)
      PROVE  usage'.used = Total(Counted)' + Total(kept)'
  <2>1. kept' = kept /\ usage' = MarkUploaded(usage, 0, n) /\ row[f] = NoRow
    BY <1>6 DEF Uploaded
  <2>2. row'[f] = [status |-> "uploaded", size |-> n, manifest |-> 0, live |-> TRUE]
    BY <1>2, <1>6 DEF Uploaded
  <2>3. Weight(row[f]) = 0 /\ Weight(row'[f]) = n
    BY <2>1, <2>2 DEF Weight, NoRow, COUNTED_STATUSES
  <2>4. \A g \in Files \ {f} : row'[g] = row[g]
    BY <1>2, <1>6 DEF Uploaded
  <2>5. Total(Counted)' = Total(Counted) - 0 + n
    BY <1>2, <2>3, <2>4, CountedChanges
  <2>6. n \in Nat /\ 0 \in Int
    OBVIOUS
  <2>7. usage'.used = usage.used + n
    BY <1>2, <2>1, <2>6, UsageOps
  <2>. QED  BY <1>2, <1>3, <2>1, <2>5, <2>6, <2>7
<1>7. ASSUME NEW f \in Files, DeleteFile(f)
      PROVE  usage'.used = Total(Counted)' + Total(kept)'
  <2>1. row[f].live /\ InTable(f) /\ row[f] \in TableRow /\ kept' = kept
    BY <1>7, RowTyped DEF DeleteFile
  <2>2. row' = [row EXCEPT ![f].live = FALSE, ![f].status = "deleted"]
        /\ "deleted" \in Statuses /\ 0 \in 0..MaxVariants
    BY <1>7 DEF DeleteFile, Statuses
  <2>3. RowBecomes(f, "deleted", row[f].manifest, FALSE)
    BY <2>1, <2>2, RowWritten
  <2>4. Weight(row'[f]) = 0 /\ \A g \in Files \ {f} : row'[g] = row[g]
    BY <2>3 DEF RowBecomes, Weight
  <2>5. /\ Total(Counted)' = Total(Counted) - Weight(row[f]) + 0
        /\ Weight(row[f]) <= Total(Counted) /\ Weight(row[f]) \in 0..MaxBytes
    BY <1>2, <2>4, CountedChanges
  <2>6. \/ usage' = DecrementUsed(usage, Weight(row[f]))
        \/ usage' = usage /\ Weight(row[f]) = 0
    BY <1>7, <2>1 DEF DeleteFile, Weight
  <2>7. Weight(row[f]) \in Nat /\ 0 \in Int /\ Weight(row[f]) <= usage.used
    BY <1>2, <2>5
  <2>8. usage'.used = usage.used - Weight(row[f])
    <3>1. usage.used \in Nat
      BY <1>2 DEF Usage
    <3>2. DecrementUsed(usage, Weight(row[f])).used = usage.used - Weight(row[f])
      BY <1>2, <2>7, UsageOps
    <3>. QED  BY <2>6, <3>1, <3>2
  <2>. QED  BY <1>2, <1>3, <2>1, <2>5, <2>8
<1>8. ASSUME NEW f \in Files, ReapSoftDeleted(f)
      PROVE  usage'.used = Total(Counted)' + Total(kept)'
  <2>1. /\ usage' = usage /\ kept' = kept /\ ~row[f].live
        /\ row'[f] = GoneRow /\ \A g \in Files \ {f} : row'[g] = row[g]
    BY <1>2, <1>8 DEF ReapSoftDeleted
  <2>2. Weight(row[f]) = 0 /\ Weight(row'[f]) = 0
    BY <2>1 DEF Weight, GoneRow, NoRow
  <2>. QED  BY <1>5, <2>1, <2>2
<1>9. ASSUME NEW r \in Runs, LoadNoVariants(r) \/ Flag(r)
       PROVE  usage'.used = Total(Counted)' + Total(kept)'
  <2>. DEFINE f == run[r].file
  <2>1. usage' = usage /\ kept' = kept /\ f \in Files
    BY <1>9 DEF LoadNoVariants, Flag, JobsOK
  <2>2. CASE row' = row
    BY <1>5, <2>1, <2>2
  <2>3. CASE row' # row
    <3>1. PICK s \in {"ready", "transforming"} :
             row[f].status = "uploaded" /\ row' = [row EXCEPT ![f].status = s]
      BY <1>9, <2>3 DEF LoadNoVariants, Flag
    <3>2. InTable(f) /\ row[f] \in TableRow /\ s \in Statuses /\ 0 \in 0..MaxVariants
      BY <2>1, <3>1, RowTyped DEF InTable, Statuses, COUNTED_STATUSES
    <3>3. RowBecomes(f, s, row[f].manifest, row[f].live)
      BY <2>1, <3>1, <3>2, RowWritten
    <3>4. Weight(row'[f]) = Weight(row[f]) /\ \A g \in Files \ {f} : row'[g] = row[g]
      BY <3>1, <3>3 DEF RowBecomes, Weight, COUNTED_STATUSES
    <3>. QED  BY <1>5, <2>1, <3>4
  <2>. QED  BY <2>2, <2>3
<1>10. ASSUME NEW f \in Files, SetFailed(f), usage' = usage
       PROVE  usage'.used = Total(Counted)' + Total(kept)'
  <2>1. /\ \A g \in Files \ {f} : row'[g] = row[g]
        /\ Weight(row'[f]) = 0
        /\ kept' = [kept EXCEPT ![f] = kept[f] + Weight(row[f])]
    BY <1>10, FailedRow
  <2>2. Total(Counted)' = Total(Counted) - Weight(row[f]) + 0 /\ Weight(row[f]) \in 0..MaxBytes
    BY <1>2, <2>1, CountedChanges
  <2>3. kept[f] \in 0..MaxBytes /\ (kept[f] > 0 => Weight(row[f]) = 0)
    BY <1>2, CountedIs DEF KeptOK
  <2>4. kept[f] + Weight(row[f]) \in 0..MaxBytes
    BY <2>2, <2>3
  <2>5. Total(kept)' = Total(kept) - kept[f] + (kept[f] + Weight(row[f]))
    BY <1>2, <2>1, <2>4, KeptChanges
  <2>. QED  BY <1>2, <1>10, <2>2, <2>3, <2>5
<1>11. ASSUME NEW r \in Runs, Commit(r)
       PROVE  usage'.used = Total(Counted)' + Total(kept)'
  <2>. DEFINE f == run[r].file
  <2>1. /\ f \in Files /\ row[f].live /\ row[f].status = "transforming"
        /\ row[f].manifest = 0 /\ run[r].old = 0 /\ run[r].new \in 0..MaxVariants
    <3>1. run[r].pc = "commit"
      BY <1>11 DEF Commit
    <3>2. races \cap {"overlap", "delete"} = {}
      BY <1>1, RacesGrow
    <3>. QED  BY <3>1, <3>2 DEF JobsOK, RowAsLeft, ManifestsOK, TypeOK
  <2>2. InTable(f) /\ row[f] \in TableRow /\ "ready" \in Statuses
    BY <2>1, RowTyped DEF InTable, Statuses, COUNTED_STATUSES
  <2>3. /\ row' = [row EXCEPT ![f].manifest = run[r].new, ![f].status = "ready"]
        /\ kept' = kept /\ usage' = AddUsed(usage, run[r].new - run[r].old)
    BY <1>11, <2>1, <2>2 DEF Commit
  <2>4. RowBecomes(f, "ready", run[r].new, row[f].live)
    BY <2>1, <2>2, <2>3, RowWritten
  <2>5. /\ Weight(row[f]) = row[f].size /\ row[f].size \in Nat
        /\ Weight(row'[f]) = row[f].size + run[r].new
        /\ \A g \in Files \ {f} : row'[g] = row[g]
    BY <2>1, <2>2, <2>4 DEF RowBecomes, Weight, COUNTED_STATUSES, TableRow
  <2>6. Total(Counted)' = Total(Counted) - row[f].size + (row[f].size + run[r].new)
    BY <1>2, <2>1, <2>5, CountedChanges
  <2>7. usage'.used = usage.used + run[r].new
    <3>1. run[r].new - run[r].old = run[r].new /\ run[r].new \in Int /\ 0 \in Nat
      BY <2>1
    <3>2. usage.used \in Nat /\ usage.used + run[r].new >= 0
      BY <1>2, <2>1 DEF Usage
    <3>3. usage' = AddUsed(usage, run[r].new)
      BY <2>3, <3>1
    <3>4. AddUsed(usage, run[r].new).used = usage.used + run[r].new
      BY <1>2, <3>1, <3>2, UsageOps
    <3>. QED  BY <3>3, <3>4
  <2>. QED  BY <1>2, <1>3, <2>1, <2>3, <2>5, <2>6, <2>7
<1>12. CASE ReconcileWrite
  <2>1. /\ row' = row /\ usage' = [usage EXCEPT !.used = snapshot]
        /\ snapshot = Total(Counted) /\ \A f \in Files : kept'[f] = 0
    BY <1>1, <1>12 DEF ReconcileWrite, Raced
  <2>2. Total(Counted)' = Total(Counted)
    BY <2>1 DEF Total, BytesOf, Sizes, Counted
  <2>3. Total(kept') = 0 /\ Total(kept)' = Total(kept')
    BY <2>1, TotalZero DEF Total, BytesOf, Sizes
  <2>. QED  BY <1>2, <2>1, <2>2, <2>3 DEF Usage
<1>13. ASSUME NEW r \in Runs,
              LoadDone(r) \/ Load(r) \/ Die(r) \/ \E n \in 1..MaxVariants : PutVariants(r, n)
       PROVE  usage' = usage /\ kept' = kept /\ row' = row
  BY <1>13 DEF LoadDone, Load, Die, PutVariants
<1>14. ASSUME \/ \E f \in Files : EnqueueTransform(f) \/ Stall(f)
              \/ \E r \in Runs, f \in Files : StartRun(r, f)
              \/ ReconcileRead \/ UNCHANGED vars
       PROVE  usage' = usage /\ kept' = kept /\ row' = row
  BY <1>14 DEF EnqueueTransform, Stall, StartRun, ReconcileRead, vars
<1>15. ASSUME NEW r \in Runs, RejectSource(r) \/ Throw(r)
       PROVE  /\ usage' = usage /\ run[r].file \in Files
              /\ SetFailed(run[r].file) \/ (row' = row /\ kept' = kept)
  BY <1>15 DEF RejectSource, Throw, JobsOK
<1>16. ASSUME usage' = usage /\ kept' = kept /\ row' = row
       PROVE  usage'.used = Total(Counted)' + Total(kept)'
  BY <1>5, <1>16
<1>. QED  BY <1>6, <1>7, <1>8, <1>9, <1>10, <1>11, <1>12, <1>13, <1>14, <1>15, <1>16 DEF Next, RunStep

-----------------------------------------------------------------------------
LEMMA InitInv == Init => Inv
<1>1. SUFFICES ASSUME Init PROVE Inv
  OBVIOUS
<1>2. /\ \A f \in Files : row[f] = NoRow /\ job[f] = NoJob /\ kept[f] = 0
      /\ \A r \in Runs : run[r] = IdleRun
      /\ usage = NoUsage /\ races = {}
  BY <1>1 DEF Init
<1>3. NoRow.status = "none" /\ NoRow.live = FALSE /\ NoRow.manifest = 0
      /\ IdleRun.pc = "idle" /\ IdleRun.locked = FALSE /\ IdleRun.old = 0
  BY DEF NoRow, IdleRun
<1>4. TypeOK
  <2>1. run \in [Runs -> RunType] /\ job \in [Files -> Job]
    BY <1>1, IdleTyped DEF Init
  <2>2. row \in [Files -> Rows] /\ usage \in Usage /\ kept \in [Files -> Nat]
    BY <1>1 DEF Init, Rows, Usage, NoUsage
  <2>. QED  BY <1>1, <2>1, <2>2 DEF Init, TypeOK, RunType, Rows, TableRow
<1>5. JobsOK
  BY <1>2, <1>3, IdleTyped DEF JobsOK
<1>6. ManifestsOK /\ LiveOK /\ OneRun /\ RowAsLeft
  BY <1>2, <1>3 DEF ManifestsOK, LiveOK, OneRun, RowAsLeft, InTable, Statuses, COUNTED_STATUSES
<1>7. \A f \in Files : Counted[f] = 0
  BY <1>2, <1>3 DEF Counted
<1>8. KeptOK
  BY <1>2, <1>7 DEF KeptOK
<1>9. UsedExact
  <2>1. Total(Counted) = 0
    BY <1>7, TotalZero
  <2>2. Total(kept) = 0
    BY <1>2, TotalZero
  <2>. QED  BY <1>2, <2>1, <2>2 DEF UsedExact, NoUsage
<1>. QED  BY <1>4, <1>5, <1>6, <1>8, <1>9 DEF Inv

LEMMA InvStep == Inv /\ [Next]_vars => Inv'
BY TypeStep, JobsStep, ManifestsStep, LiveStep, KeptStep, OneRunStep, RowAsLeftStep, UsedStep DEF Inv

LEMMA InvAlways == Spec => []Inv
BY InitInv, InvStep, PTL DEF Spec

\* transform-image.ts with the delete path and the two reapers, for any number of files
\* and of runs: a live row's manifest names objects that are in the store, it is written
\* from an empty one, and bytes_used is exactly what the rows count for plus what was
\* charged for rows that failed, until a delete meets a run, a lock runs out under a
\* live run, or the reconcile job writes a sum that changed meanwhile.
THEOREM ManifestsAlwaysHold == Spec => []ManifestsHold
<1>1. Inv => ManifestsHold
  <2>1. ASSUME Inv PROVE ManifestHasObjects
    <3>1. TypeOK /\ ManifestsOK
      BY <2>1 DEF Inv
    <3>. QED  BY <3>1, RowTyped DEF ManifestsOK, ManifestHasObjects
  <2>2. ASSUME Inv PROVE OneManifest
    BY <2>2 DEF Inv, ManifestsOK, OneManifest
  <2>. QED  BY <2>1, <2>2 DEF Inv, ManifestsHold
<1>. QED  BY <1>1, InvAlways, PTL

=============================================================================
