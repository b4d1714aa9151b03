---------------------------- MODULE MCFilesLife -----------------------------
(***************************************************************************)
(* What must happen some day to a tenant's files, for TLC: the transform   *)
(* jobs of FilesTransform, the owners of FilesOwnership and the uploads of *)
(* FilesUpload, side by side.  The three have no state in common, so that  *)
(* a behaviour is of one of them, the one in focus, and the other two keep *)
(* still: one run for the three is the sum of three runs.                  *)
(*                                                                         *)
(* Transform: one file and two runs, so that a redelivered job overlaps    *)
(* its first run.  Ownership: two files, of which one replaces the other,  *)
(* and one attach.  Upload: two files, of which one can take the bytes the *)
(* other has given back, and one request.                                  *)
(***************************************************************************)
EXTENDS FilesTransform

CONSTANTS f1, f2, r1, r2, o1, a1, c1, NoOwner

OneFile == {f1}
TwoRuns == {r1, r2}

VARIABLES focus,
          ownRow, charged, old, alive, attach, cascade, reaper, ownRaces,
          upRow, upUsage, object, age, call, admin, erasing, stranded, leaked

Own == INSTANCE FilesOwnership WITH
    Files <- {f1, f2}, Owners <- {o1}, Attachers <- {a1}, ScanLimit <- 2,
    row <- ownRow, races <- ownRaces
Up == INSTANCE FilesUpload WITH
    Files <- {f1, f2}, Calls <- {c1}, MaxBytes <- 1, MaxObject <- 1,
    Limit <- 2, OneCompletePerFile <- TRUE, PutsWithinClaim <- TRUE,
    StatementsMayFail <- TRUE, row <- upRow, usage <- upUsage

ownVars == <<ownRow, charged, old, alive, attach, cascade, reaper, ownRaces>>
upVars == <<upRow, upUsage, object, age, call, admin, erasing, stranded, leaked>>
allVars == <<focus, vars, ownVars, upVars>>

AllInit == /\ focus \in {"transform", "ownership", "upload"}
           /\ Init /\ Own!Init /\ Up!Init

AllNext == \/ /\ focus = "transform" /\ Next
              /\ UNCHANGED <<focus, ownVars, upVars>>
           \/ /\ focus = "ownership" /\ Own!Next
              /\ UNCHANGED <<focus, vars, upVars>>
           \/ /\ focus = "upload" /\ Up!Next
              /\ UNCHANGED <<focus, vars, ownVars>>

(***************************************************************************)
(* Each module's own fairness, asked while that module is in focus.        *)
(***************************************************************************)
TransformFairness ==
    /\ \A r \in Runs : WF_vars(focus = "transform" /\ (RunStep(r) \/ Throw(r) \/ Die(r)))
    /\ \A f \in Files :
          /\ WF_vars(focus = "transform" /\ Stall(f))
          /\ WF_vars(focus = "transform" /\ \E r \in Runs : StartRun(r, f))
    /\ WF_vars(focus = "transform" /\ ReconcileRead)
    /\ WF_vars(focus = "transform" /\ ReconcileWrite)

OwnFairness ==
    /\ \A a \in {a1} :
          WF_ownVars(focus = "ownership" /\ (Own!AttachStep(a) \/ Own!AttachFails(a)))
    /\ WF_ownVars(focus = "ownership" /\ (Own!CascadeStep(o1) \/ Own!CascadeFails(o1)))
    /\ SF_ownVars(focus = "ownership" /\ Own!ReapAsk(o1))
    /\ \A f \in {f1, f2} : WF_ownVars(focus = "ownership" /\ Own!GrowOld(f))
    /\ WF_ownVars(focus = "ownership" /\ (Own!ReapScan \/ Own!ReapRemember \/ Own!ReapDone))
    /\ SF_ownVars(focus = "ownership" /\ Own!ReapFile)

UpFairness ==
    /\ WF_upVars(focus = "upload" /\ Up!CompleteStep(c1))
    /\ WF_upVars(focus = "upload" /\ Up!AdminStep)
    /\ WF_upVars(focus = "upload" /\ Up!ReapPending)
    /\ \A f \in {f1, f2} :
          /\ WF_upVars(focus = "upload" /\ Up!GrowOlder(f))
          /\ WF_upVars(focus = "upload" /\ Up!ReapSoftDeleted(f))
          /\ WF_upVars(focus = "upload" /\ (Up!EraseObject(f) \/ Up!EraseFails(f)))

AllSpec == AllInit /\ [][AllNext]_allVars /\ TransformFairness /\ OwnFairness /\ UpFairness

-----------------------------------------------------------------------------
\* The three that must happen some day, each while its module is in focus: a file
\* whose owner is gone is reaped, a pending claim is confirmed or released, and
\* drift of bytes_used is put right by reconcile-storage-usage.ts.
OrphansReaped == focus = "ownership" => Own!OrphansReaped
PendingDrains == focus = "upload" => Up!PendingDrains
TransformDriftHeals == focus = "transform" => DriftHeals
=============================================================================
