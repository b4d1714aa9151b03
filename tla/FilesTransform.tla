--------------------------- MODULE FilesTransform ---------------------------
(***************************************************************************)
(* The image-transform job of packages/modules/files: it generates the     *)
(* variants of a completed upload in the worker process, beside the API    *)
(* that may delete the file, the queue that may deliver the job again, and *)
(* the daily job that recomputes bytes_used.  A run of the job reads the   *)
(* row once and writes it by id at the end, so everything that happens in  *)
(* between is what this module is about.                                   *)
(***************************************************************************)
EXTENDS StorageQuota, JobQueue

CONSTANTS
    Runs,            \* runs of the job that can be going on at once
    NoFile,
    MaxVariants      \* the most bytes the variants of one file take

ASSUME RunsAssumption == NoFile \notin Files
ASSUME VariantsAssumption == MaxVariants \in 1..(MaxBytes - 1)

VARIABLES
    row,        \* status, byte_size, bytes of the transforms manifest, deleted_at
    usage,      \* the tenant's row of tenant_storage_usage
    variants,   \* files whose variant objects are in the object store
    job,        \* the image-transform job of a file
    run,        \* locals of the runs
    snapshot,   \* what the reconcile statement has summed up, or NoSnapshot
    kept,       \* history: bytes charged for rows that failed
    races       \* history: which of the races below have happened

vars == <<row, usage, variants, job, run, snapshot, kept, races>>

\* A file is deleted while a run works on it; a job is redelivered while its
\* run is alive; what reconcile has summed up changes before it writes it.
Races == {"delete", "overlap", "reconcile"}
Raced(kind, happens) == races' = IF happens THEN races \cup {kind} ELSE races

COUNTED_STATUSES == {"uploaded", "ready", "transforming"}
Statuses == COUNTED_STATUSES \cup {"failed", "deleted"}

NoRow == [status |-> "none", size |-> 0, manifest |-> 0, live |-> FALSE]
GoneRow == [NoRow EXCEPT !.status = "gone"]
InTable(f) == row[f].status \in Statuses

\* new is what the variants just generated take.
IdleRun == [pc |-> "idle", file |-> NoFile, locked |-> FALSE, old |-> 0, new |-> 0]
NoSnapshot == 0 - 1

WorkedOn(f) == \E r \in Runs : run[r].file = f

\* What the counter should hold for each file.
Counted == [f \in Files |-> IF row[f].live /\ row[f].status \in COUNTED_STATUSES
                            THEN row[f].size + row[f].manifest ELSE 0]

Init ==
    /\ row = [f \in Files |-> NoRow]
    /\ usage = NoUsage
    /\ variants = {}
    /\ job = [f \in Files |-> NoJob]
    /\ run = [r \in Runs |-> IdleRun]
    /\ snapshot = NoSnapshot
    /\ kept = [f \in Files |-> 0]
    /\ races = {}

-----------------------------------------------------------------------------
\* A completed upload (FilesUpload has the steps that lead here).
Uploaded(f, n) ==
    /\ row[f] = NoRow
    /\ row' = [row EXCEPT ![f] = [status |-> "uploaded", size |-> n, manifest |-> 0, live |-> TRUE]]
    /\ usage' = MarkUploaded(usage, 0, n)
    /\ UNCHANGED <<variants, job, run, snapshot, kept, races>>

\* enqueueTransform, after the commit and best-effort: the process may die
\* before it.
EnqueueTransform(f) ==
    /\ row[f].live /\ job[f] = NoJob
    /\ job' = [job EXCEPT ![f] = AddedJob]
    /\ UNCHANGED <<row, usage, variants, run, snapshot, kept, races>>

\* Mutant: only the file's own bytes are refunded.
DeleteFile_OwnBytesOnly(f) ==
    /\ row[f].live
    /\ row' = [row EXCEPT ![f].live = FALSE, ![f].status = "deleted"]
    /\ usage' = IF row[f].status \in COUNTED_STATUSES THEN DecrementUsed(usage, row[f].size) ELSE usage
    /\ Raced("delete", WorkedOn(f))
    /\ UNCHANGED <<variants, job, run, snapshot, kept>>

\* delete-file: tombstone the live row and refund its bytes and its variants'
\* (softDeleteRow), if its status says they are counted.
DeleteFile(f) ==
    /\ row[f].live
    /\ row' = [row EXCEPT ![f].live = FALSE, ![f].status = "deleted"]
    /\ usage' = IF row[f].status \in COUNTED_STATUSES
                THEN DecrementUsed(usage, row[f].size + row[f].manifest)
                ELSE usage
    /\ Raced("delete", WorkedOn(f))
    /\ UNCHANGED <<variants, job, run, snapshot, kept>>

\* reap-soft-deleted: the tombstone goes, then the objects its manifest names.
ReapSoftDeleted(f) ==
    /\ InTable(f) /\ ~row[f].live
    /\ row' = [row EXCEPT ![f] = GoneRow]
    /\ variants' \in {variants, IF row[f].manifest > 0 THEN variants \ {f} ELSE variants}
    /\ UNCHANGED <<usage, job, run, snapshot, kept, races>>

-----------------------------------------------------------------------------
(***************************************************************************)
(* A run ends by returning or throwing; the queue hears of it only if the  *)
(* run still holds the lock of its job.                                    *)
(***************************************************************************)
EndRun(r, Outcome(_)) ==
    /\ run' = [run EXCEPT ![r] = IdleRun]
    /\ job' = IF run[r].locked THEN [job EXCEPT ![run[r].file] = Outcome(@)] ELSE job

StartRun(r, f) ==
    /\ run[r].pc = "idle"
    /\ job[f].state = "waiting"
    /\ job' = [job EXCEPT ![f] = Taken(@)]
    /\ run' = [run EXCEPT ![r] = [IdleRun EXCEPT !.pc = "load", !.file = f, !.locked = TRUE]]
    /\ UNCHANGED <<row, usage, variants, snapshot, kept, races>>

\* The row is gone, or its status says there is nothing to do.
LoadDone(r) ==
    /\ run[r].pc = "load"
    /\ LET f == run[r].file IN ~row[f].live \/ row[f].status \notin {"uploaded", "transforming"}
    /\ EndRun(r, Returned)
    /\ UNCHANGED <<row, usage, variants, snapshot, kept, races>>

\* The relation declares no variants any more: nothing to generate.
LoadNoVariants(r) ==
    /\ run[r].pc = "load"
    /\ LET f == run[r].file
       IN /\ row[f].live /\ row[f].status \in {"uploaded", "transforming"}
          /\ row' = IF row[f].status = "uploaded" THEN [row EXCEPT ![f].status = "ready"] ELSE row
    /\ EndRun(r, Returned)
    /\ UNCHANGED <<usage, variants, snapshot, kept, races>>

\* Mutant: no status gate.
Load_AnyStatus(r) ==
    /\ run[r].pc = "load"
    /\ LET f == run[r].file
       IN /\ row[f].live
          /\ run' = [run EXCEPT ![r].old = row[f].manifest, ![r].pc = "flag"]
    /\ UNCHANGED <<row, usage, variants, job, snapshot, kept, races>>

\* The status gate; the bytes of the old manifest are remembered.
Load(r) ==
    /\ run[r].pc = "load"
    /\ LET f == run[r].file
       IN /\ row[f].live /\ row[f].status \in {"uploaded", "transforming"}
          /\ run' = [run EXCEPT ![r].old = row[f].manifest, ![r].pc = "flag"]
    /\ UNCHANGED <<row, usage, variants, job, snapshot, kept, races>>

\* Mark the row, if it is still as it was loaded, and fetch the original.
Flag(r) ==
    /\ run[r].pc = "flag"
    /\ LET f == run[r].file
       IN row' = IF row[f].status = "uploaded" THEN [row EXCEPT ![f].status = "transforming"] ELSE row
    /\ run' = [run EXCEPT ![r].pc = "work"]
    /\ UNCHANGED <<usage, variants, job, snapshot, kept, races>>

\* UPDATE ... SET status = 'failed', by id alone.  Only bytes that a row
\* keeps being charged for although it is not counted go into the history.
SetFailed(f) ==
    /\ row' = IF InTable(f) THEN [row EXCEPT ![f].status = "failed"] ELSE row
    /\ kept' = [kept EXCEPT ![f] = @ + Counted[f]]

\* Too many pixels, or not a raster format: structured failure, no retry.
RejectSource(r) ==
    /\ run[r].pc = "work"
    /\ SetFailed(run[r].file)
    /\ EndRun(r, Returned)
    /\ UNCHANGED <<usage, variants, snapshot, races>>

\* Every variant is resized and put at its deterministic key.
PutVariants(r, n) ==
    /\ run[r].pc = "work"
    /\ variants' = variants \cup {run[r].file}
    /\ run' = [run EXCEPT ![r].new = n, ![r].pc = "commit"]
    /\ UNCHANGED <<row, usage, job, snapshot, kept, races>>

\* The manifest and the status by id alone, and the variants' bytes, in one
\* transaction.
Commit(r) ==
    /\ run[r].pc = "commit"
    /\ LET f == run[r].file
       IN /\ row' = IF InTable(f)
                    THEN [row EXCEPT ![f].manifest = run[r].new, ![f].status = "ready"]
                    ELSE row
          /\ kept' = IF row[f].live /\ row[f].status = "failed" THEN [kept EXCEPT ![f] = 0] ELSE kept
    /\ usage' = AddUsed(usage, run[r].new - run[r].old)
    /\ EndRun(r, Returned)
    /\ UNCHANGED <<variants, snapshot, races>>

\* Mutant: the catch removes the variants it may have written.
Throw_RemovesVariants(r) ==
    /\ run[r].pc \in {"flag", "work", "commit"}
    /\ SetFailed(run[r].file) \/ UNCHANGED <<row, kept>>
    /\ variants' = variants \ {run[r].file}
    /\ EndRun(r, LAMBDA j : Thrown(j, CreateQueueAttempts))
    /\ UNCHANGED <<usage, snapshot, races>>

\* The object store, the resizer or a statement throws, possibly with some
\* variants put: mark the row as failed, ignoring a failure of that, and
\* throw on.
Throw(r) ==
    /\ run[r].pc \in {"flag", "work", "commit"}
    /\ SetFailed(run[r].file) \/ UNCHANGED <<row, kept>>
    /\ variants' \in {variants} \cup (IF run[r].pc = "work" THEN {variants \cup {run[r].file}} ELSE {})
    /\ EndRun(r, LAMBDA j : Thrown(j, CreateQueueAttempts))
    /\ UNCHANGED <<usage, snapshot, races>>

\* The worker process dies; its job keeps the lock until that runs out.
Die(r) ==
    /\ run[r].pc # "idle"
    /\ run' = [run EXCEPT ![r] = IdleRun]
    /\ UNCHANGED <<row, usage, variants, job, snapshot, kept, races>>

\* The lock of an active job runs out: its run is dead, or too busy to renew.
Stall(f) ==
    /\ job[f].state = "active"
    /\ job' = [job EXCEPT ![f] = Stalled(@)]
    /\ run' = [r \in Runs |-> IF run[r].file = f THEN [run[r] EXCEPT !.locked = FALSE] ELSE run[r]]
    /\ Raced("overlap", WorkedOn(f))
    /\ UNCHANGED <<row, usage, variants, snapshot, kept>>

-----------------------------------------------------------------------------
(***************************************************************************)
(* quota-reconcile-tenant-usage: one UPDATE, whose sum over the files is   *)
(* taken from the snapshot at its start and written when it has the lock   *)
(* of the usage row.                                                       *)
(***************************************************************************)
\* Mutant: rows being transformed are not counted.
ReconcileRead_SkipsTransforming ==
    /\ snapshot = NoSnapshot
    /\ snapshot' = Total([f \in Files |-> IF row[f].status = "transforming" THEN 0 ELSE Counted[f]])
    /\ UNCHANGED <<row, usage, variants, job, run, kept, races>>

ReconcileRead ==
    /\ snapshot = NoSnapshot
    /\ snapshot' = Total(Counted)
    /\ UNCHANGED <<row, usage, variants, job, run, kept, races>>

ReconcileWrite ==
    /\ snapshot # NoSnapshot
    /\ usage' = [usage EXCEPT !.used = snapshot]
    /\ snapshot' = NoSnapshot
    /\ kept' = [f \in Files |-> 0]
    /\ Raced("reconcile", snapshot # Total(Counted))
    /\ UNCHANGED <<row, variants, job, run>>

-----------------------------------------------------------------------------
RunStep(r) ==
    \/ LoadDone(r) \/ LoadNoVariants(r) \/ Load(r) \/ Flag(r)
    \/ RejectSource(r) \/ (\E n \in 1..MaxVariants : PutVariants(r, n)) \/ Commit(r)

Next ==
    \/ \E f \in Files, n \in 1..(MaxBytes - MaxVariants) : Uploaded(f, n)
    \/ \E f \in Files : EnqueueTransform(f) \/ DeleteFile(f) \/ ReapSoftDeleted(f) \/ Stall(f)
    \/ \E r \in Runs, f \in Files : StartRun(r, f)
    \/ \E r \in Runs : RunStep(r) \/ Throw(r) \/ Die(r)
    \/ ReconcileRead \/ ReconcileWrite

Spec == Init /\ [][Next]_vars

\* Workers run, locks run out, and the reconcile job fires every day.
Fairness ==
    /\ \A r \in Runs : WF_vars(RunStep(r) \/ Throw(r) \/ Die(r))
    /\ \A f \in Files : WF_vars(Stall(f)) /\ WF_vars(\E r \in Runs : StartRun(r, f))
    /\ WF_vars(ReconcileRead) /\ WF_vars(ReconcileWrite)

FairSpec == Spec /\ Fairness

-----------------------------------------------------------------------------
TypeOK ==
    /\ row \in [Files -> {NoRow, GoneRow} \cup
                 [status : Statuses, size : 1..(MaxBytes - MaxVariants),
                  manifest : 0..MaxVariants, live : BOOLEAN]]
    /\ usage \in Usage
    /\ variants \subseteq Files
    /\ job \in [Files -> Job]
    /\ run \in [Runs -> [pc : {"idle", "load", "flag", "work", "commit"},
                          file : Files \cup {NoFile}, locked : BOOLEAN,
                          old : 0..MaxVariants, new : 0..MaxVariants]]
    /\ snapshot \in Nat \cup {NoSnapshot}
    /\ kept \in [Files -> Nat]
    /\ races \subseteq Races

\* bytes_used is the sum over the live counted rows, own bytes and variants,
\* plus what rows were charged for before they failed, however often a job
\* fails, dies, stalls and is retried -- until one of the races happens.
\* (quota.ts: every path debits what the transform credited, a retry never
\* counts twice.)
UsedExact == races = {} => usage.used = Total(Counted) + Total(kept)

\* However runs overlap, fail and are retried, a live row's manifest names
\* objects that are there: all runs write the same keys and none removes them.
ManifestHasObjects == \A f \in Files : row[f].live /\ row[f].manifest > 0 => f \in variants

\* A manifest is written once: no run starts from a row that has one, so the
\* delta a run adds is always the whole of what it generated.
OneManifest == \A r \in Runs : run[r].old = 0

\* transform-image.ts and the two deletes: a live row's manifest names objects that
\* are there and is written once; bytes_used counts the variants exactly until one
\* of the races happens.
ManifestsHold == TypeOK /\ ManifestHasObjects /\ OneManifest /\ UsedExact

\* Whatever drift races leave behind, the reconcile job corrects it for good
\* once the files are left alone.
DriftHeals == <>[](usage.used = Total(Counted))

\* transform-image.ts: a retry regenerates all variants.
RetryRegenerates ==
    \A f \in Files : job[f].state = "completed" /\ job[f].made > 0 /\ row[f].live
        => row[f].status = "ready"

=============================================================================
