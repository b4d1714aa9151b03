--------------------------- MODULE FilesOwnership ---------------------------
(***************************************************************************)
(* Which record a file belongs to in packages/modules/files: attach-file   *)
(* with its cascade-on-replace, the cascade on an owner's deletion and the *)
(* daily reaper of orphans.  These are transactions of several statements  *)
(* in READ COMMITTED: every statement sees what is committed when it       *)
(* starts, SELECT ... FOR UPDATE waits for the rows that another           *)
(* transaction has locked and looks at them again once it has the lock.    *)
(*                                                                         *)
(* The relations are those of auth (a user's avatar, a tenant's logo): one *)
(* live file per owner.  Bytes do not matter here: a file is charged to    *)
(* bytes_used or it is not.                                                *)
(***************************************************************************)
EXTENDS Naturals, SequencesExt

CONSTANTS
    Files, Owners,
    Attachers,       \* attach-file requests: each is made once, and all may be in flight
    NoOwner,         \* owner_record_id = ''
    NoFile,
    ScanLimit        \* SCAN_LIMIT of the orphan reaper

ASSUME OwnersAssumption == NoOwner \notin Owners /\ NoFile \notin Files
ASSUME ScanLimitAssumption == ScanLimit \in Nat \ {0}

VARIABLES
    row,       \* the files table: status and owner_record_id
    charged,   \* files whose bytes are in bytes_used
    old,       \* files past the grace window of the orphan reaper, oldest first
    alive,     \* owner records that exist
    attach,    \* locals of the attach-file requests
    cascade,   \* the deletion event of an owner and the transaction it starts
    reaper,    \* locals of the run of cleanup-reap-orphan-files
    races      \* history: which of the races below have happened

vars == <<row, charged, old, alive, attach, cascade, reaper, races>>

\* Two attach requests concern the same owner; one comes to an owner whose file
\* another is taking away; a file is deleted while it is being attached; an
\* owner's cascade runs while one of its files is being attached; an attach comes
\* while the reaper is running.
Races == {"attach", "move", "delete", "cascade", "reaper"}
Raced(kind, happens) == races' = IF happens THEN races \cup {kind} ELSE races

Statuses == {"absent", "pending", "uploaded", "deleted", "gone"}
Live(f) == row[f].status \in {"pending", "uploaded"}
FilesOf(o) == {f \in Files : Live(f) /\ row[f].owner = o}

IdleAttach == [pc |-> "idle", file |-> NoFile, owner |-> NoOwner, todo |-> {}, locked |-> {}]
DoneAttach == [IdleAttach EXCEPT !.pc = "done"]
NoCascade == [pc |-> "none", todo |-> {}, locked |-> {}]
IdleReaper == [pc |-> "idle", todo |-> {}, file |-> NoFile, gone |-> {}, kept |-> {}]

\* Row locks are held to the end of the transaction.
Free(f) ==
    /\ \A a \in Attachers : f \notin attach[a].locked
    /\ \A o \in Owners : f \notin cascade[o].locked

AttachingTo(o) == o \in Owners /\ \E a \in Attachers : attach[a].owner = o
Attaching(f) == \E a \in Attachers : attach[a].file = f
MovingFrom(o) == \E f \in Files : row[f].owner = o /\ Attaching(f)
Cascading(o) == o \in Owners /\ cascade[o].pc \notin {"none", "done"}

Init ==
    /\ row = [f \in Files |-> [status |-> "absent", owner |-> NoOwner]]
    /\ charged = {}
    /\ old = <<>>
    /\ alive = Owners
    /\ attach = [a \in Attachers |-> IdleAttach]
    /\ cascade = [o \in Owners |-> NoCascade]
    /\ reaper = IdleReaper
    /\ races = {}

\* softDeleteRow for each file of a set, within a transaction.
SoftDelete(S) ==
    /\ row' = [f \in Files |-> IF f \in S THEN [row[f] EXCEPT !.status = "deleted"] ELSE row[f]]
    /\ charged' = charged \ S

-----------------------------------------------------------------------------
\* The upload's own life, one transaction each (FilesUpload has the detail).
SignUpload(f) ==
    /\ row[f].status = "absent"
    /\ row' = [row EXCEPT ![f].status = "pending"]
    /\ UNCHANGED <<charged, old, alive, attach, cascade, reaper, races>>

CompleteUpload(f) ==
    /\ row[f].status = "pending" /\ Free(f)
    /\ row' = [row EXCEPT ![f].status = "uploaded"]
    /\ charged' = charged \cup {f}
    /\ UNCHANGED <<old, alive, attach, cascade, reaper, races>>

DeleteFile(f) ==
    /\ Live(f) /\ Free(f)
    /\ SoftDelete({f})
    /\ Raced("delete", Attaching(f))
    /\ UNCHANGED <<old, alive, attach, cascade, reaper>>

\* Mutant: the scan has no status = 'pending' predicate.
ReapPending_AnyStatus(f) ==
    /\ Live(f) /\ Free(f)
    /\ row' = [row EXCEPT ![f].status = "gone"]
    /\ Raced("delete", Attaching(f))
    /\ UNCHANGED <<charged, old, alive, attach, cascade, reaper>>

ReapPending(f) ==
    /\ row[f].status = "pending" /\ Free(f)
    /\ row' = [row EXCEPT ![f].status = "gone"]
    /\ Raced("delete", Attaching(f))
    /\ UNCHANGED <<charged, old, alive, attach, cascade, reaper>>

GrowOld(f) ==
    /\ Live(f) /\ ~Contains(old, f)
    /\ old' = Append(old, f)
    /\ UNCHANGED <<row, charged, alive, attach, cascade, reaper, races>>

\* The owner record is deleted; the event may be lost, as it is fire-and-forget.
OwnerDeleted(o) ==
    /\ o \in alive
    /\ alive' = alive \ {o}
    /\ cascade' \in {cascade, [cascade EXCEPT ![o].pc = "event"]}
    /\ UNCHANGED <<row, charged, old, attach, reaper, races>>

-----------------------------------------------------------------------------
(***************************************************************************)
(* attach-file.  The load and the permission check are one transaction,    *)
(* the link and the replacement of the siblings another.                   *)
(***************************************************************************)
\* The races that an attach of f to o comes into.
AttachRaces(f, o) ==
    (IF AttachingTo(o) \/ Attaching(f) \/ AttachingTo(row[f].owner) THEN {"attach"} ELSE {})
    \cup (IF MovingFrom(o) THEN {"move"} ELSE {})
    \cup (IF Cascading(o) \/ Cascading(row[f].owner) THEN {"cascade"} ELSE {})
    \cup (IF reaper.pc # "idle" THEN {"reaper"} ELSE {})

\* Mutant: the load has no deleted_at IS NULL predicate.
AttachLoad_AnyRow(a, f, o) ==
    /\ attach[a].pc = "idle"
    /\ row[f].status \notin {"absent", "gone"}
    /\ o \in alive
    /\ attach' = [attach EXCEPT ![a] = [IdleAttach EXCEPT !.pc = "link", !.file = f, !.owner = o]]
    /\ races' = races \cup AttachRaces(f, o)
    /\ UNCHANGED <<row, charged, old, alive, cascade, reaper>>

\* The row must be live, and canWrite wants the owner to be the caller's own.
AttachLoad(a, f, o) ==
    /\ attach[a].pc = "idle"
    /\ Live(f)
    /\ o \in alive
    /\ attach' = [attach EXCEPT ![a] = [IdleAttach EXCEPT !.pc = "link", !.file = f, !.owner = o]]
    /\ races' = races \cup AttachRaces(f, o)
    /\ UNCHANGED <<row, charged, old, alive, cascade, reaper>>

\* UPDATE ... SET owner_record_id, by id alone; nobody sees it before the
\* commit, but the row is locked.
AttachLink(a) ==
    /\ attach[a].pc = "link"
    /\ Free(attach[a].file)
    /\ attach' = [attach EXCEPT ![a].pc = "scan", ![a].locked = {attach[a].file}]
    /\ UNCHANGED <<row, charged, old, alive, cascade, reaper, races>>

\* The statement that locks the other live files of the owner starts.
AttachScan(a) ==
    /\ attach[a].pc = "scan"
    /\ attach' = [attach EXCEPT ![a].pc = "lock",
                                ![a].todo = FilesOf(attach[a].owner) \ {attach[a].file}]
    /\ UNCHANGED <<row, charged, old, alive, cascade, reaper, races>>

\* It locks one of them, if that still is a live file of the owner.
AttachLock(a, f) ==
    /\ attach[a].pc = "lock"
    /\ f \in attach[a].todo
    /\ Free(f)
    /\ attach' = [attach EXCEPT
         ![a].todo = @ \ {f},
         ![a].locked = IF f \in FilesOf(attach[a].owner) THEN @ \cup {f} ELSE @]
    /\ UNCHANGED <<row, charged, old, alive, cascade, reaper, races>>

\* Mutant: the siblings are not replaced.
AttachCommit_KeepsSiblings(a) ==
    /\ attach[a].pc = "lock" /\ attach[a].todo = {}
    /\ row' = [row EXCEPT ![attach[a].file].owner = attach[a].owner]
    /\ attach' = [attach EXCEPT ![a] = DoneAttach]
    /\ UNCHANGED <<charged, old, alive, cascade, reaper, races>>

\* Tombstone and refund the siblings, and commit.
AttachCommit(a) ==
    /\ attach[a].pc = "lock" /\ attach[a].todo = {}
    /\ LET t == attach[a]
           siblings == t.locked \ {t.file}
       IN /\ row' = [f \in Files |->
                       [status |-> IF f \in siblings THEN "deleted" ELSE row[f].status,
                        owner |-> IF f = t.file THEN t.owner ELSE row[f].owner]]
          /\ charged' = charged \ siblings
    /\ attach' = [attach EXCEPT ![a] = DoneAttach]
    /\ UNCHANGED <<old, alive, cascade, reaper, races>>

\* The transaction is rolled back: a crash, a failing statement, or Postgres
\* breaks a deadlock.
AttachFails(a) ==
    /\ attach[a].pc \notin {"idle", "done"}
    /\ attach' = [attach EXCEPT ![a] = DoneAttach]
    /\ UNCHANGED <<row, charged, old, alive, cascade, reaper, races>>

-----------------------------------------------------------------------------
(***************************************************************************)
(* cascadeSoftDelete: lock the owner's live files, tombstone by predicate, *)
(* refund what was locked.                                                 *)
(***************************************************************************)
CascadeScan(o) ==
    /\ cascade[o].pc = "event"
    /\ cascade' = [cascade EXCEPT ![o].pc = IF FilesOf(o) = {} THEN "done" ELSE "lock",
                                  ![o].todo = FilesOf(o)]
    /\ Raced("cascade", AttachingTo(o) \/ \E f \in FilesOf(o) : Attaching(f))
    /\ UNCHANGED <<row, charged, old, alive, attach, reaper>>

CascadeLock(o, f) ==
    /\ cascade[o].pc = "lock"
    /\ f \in cascade[o].todo
    /\ Free(f)
    /\ cascade' = [cascade EXCEPT ![o].todo = @ \ {f},
                                  ![o].locked = IF f \in FilesOf(o) THEN @ \cup {f} ELSE @]
    /\ UNCHANGED <<row, charged, old, alive, attach, reaper, races>>

\* Mutant: the refund is missing.
CascadeCommit_NoRefund(o) ==
    /\ cascade[o].pc = "lock" /\ cascade[o].todo = {}
    /\ row' = [f \in Files |-> IF f \in FilesOf(o) THEN [row[f] EXCEPT !.status = "deleted"] ELSE row[f]]
    /\ cascade' = [cascade EXCEPT ![o] = [NoCascade EXCEPT !.pc = "done"]]
    /\ UNCHANGED <<charged, old, alive, attach, reaper, races>>

\* The UPDATE's predicate is evaluated again: it may meet files that were
\* attached since, which it waits for and tombstones like the others.
CascadeCommit(o) ==
    /\ cascade[o].pc = "lock" /\ cascade[o].todo = {}
    /\ \A f \in FilesOf(o) \ cascade[o].locked : Free(f)
    /\ row' = [f \in Files |-> IF f \in FilesOf(o) \/ f \in cascade[o].locked
                               THEN [row[f] EXCEPT !.status = "deleted"] ELSE row[f]]
    /\ charged' = charged \ cascade[o].locked
    /\ cascade' = [cascade EXCEPT ![o] = [NoCascade EXCEPT !.pc = "done"]]
    /\ UNCHANGED <<old, alive, attach, reaper, races>>

\* The transaction fails or the process dies; the event is not repeated.
CascadeFails(o) ==
    /\ Cascading(o)
    /\ cascade' = [cascade EXCEPT ![o] = [NoCascade EXCEPT !.pc = "done"]]
    /\ UNCHANGED <<row, charged, old, alive, attach, reaper, races>>

-----------------------------------------------------------------------------
(***************************************************************************)
(* cleanup-reap-orphan-files: a scan for candidates, then for each of them *)
(* the owner's existence, memoized for the run, and a transaction that     *)
(* tombstones it.                                                          *)
(***************************************************************************)
\* The first ScanLimit of the old files that are wanted, each with the owner it has now.
Candidates(wanted) ==
    LET UpTo(i) == {j \in 1..i : old[j] \in wanted}
    IN {[file |-> old[i], owner |-> row[old[i]].owner] :
            i \in {j \in DOMAIN old : old[j] \in wanted /\ Cardinality(UpTo(j)) <= ScanLimit}}

\* Mutant: the scan has no owner_record_id <> '' predicate.
ReapScan_Unattached ==
    /\ reaper.pc = "idle"
    /\ LET found == Candidates({f \in Files : Live(f)})
       IN found # {} /\ reaper' = [reaper EXCEPT !.pc = "next", !.todo = found]
    /\ Raced("reaper", \E a \in Attachers : attach[a].pc \notin {"idle", "done"})
    /\ UNCHANGED <<row, charged, old, alive, attach, cascade>>

\* Live attached files past the grace window, oldest first, up to the limit.
ReapScan ==
    /\ reaper.pc = "idle"
    /\ LET found == Candidates({f \in Files : Live(f) /\ row[f].owner # NoOwner})
       IN found # {} /\ reaper' = [reaper EXCEPT !.pc = "next", !.todo = found]
    /\ Raced("reaper", \E a \in Attachers : attach[a].pc \notin {"idle", "done"})
    /\ UNCHANGED <<row, charged, old, alive, attach, cascade>>

\* Go on with a candidate, knowing whether its owner exists.
Decide(c, exists) ==
    reaper' = [pc |-> IF exists THEN "next" ELSE "reap",
               todo |-> reaper.todo \ {c},
               file |-> IF exists THEN NoFile ELSE c.file,
               gone |-> IF exists THEN reaper.gone ELSE reaper.gone \cup {c.owner},
               kept |-> IF exists THEN reaper.kept \cup {c.owner} ELSE reaper.kept]

\* ownerExists is asked, once per owner and run ...
ReapAsk(o) ==
    /\ reaper.pc = "next"
    /\ \E c \in reaper.todo :
          /\ c.owner = o
          /\ o \notin reaper.gone \cup reaper.kept
          /\ Decide(c, o \in alive)
    /\ UNCHANGED <<row, charged, old, alive, attach, cascade, races>>

\* Mutant: a query that throws counts as "no such owner".
ReapAskFails_Gone(o) ==
    /\ reaper.pc = "next"
    /\ \E c \in reaper.todo :
          /\ c.owner = o
          /\ o \notin reaper.gone \cup reaper.kept
          /\ Decide(c, FALSE)
    /\ UNCHANGED <<row, charged, old, alive, attach, cascade, races>>

\* ... it may throw, which is not a definitive no ...
ReapAskFails(o) ==
    /\ reaper.pc = "next"
    /\ \E c \in reaper.todo :
          /\ c.owner = o
          /\ o \notin reaper.gone \cup reaper.kept
          /\ Decide(c, TRUE)
    /\ UNCHANGED <<row, charged, old, alive, attach, cascade, races>>

\* ... and the answer is remembered for the owner's other files.
ReapRemember ==
    /\ reaper.pc = "next"
    /\ \E c \in reaper.todo :
          /\ c.owner \in reaper.gone \cup reaper.kept
          /\ Decide(c, c.owner \in reaper.kept)
    /\ UNCHANGED <<row, charged, old, alive, attach, cascade, races>>

\* The transaction of one candidate, which reads the row again by its id.
ReapFile ==
    /\ reaper.pc = "reap"
    /\ Free(reaper.file)
    /\ SoftDelete({reaper.file} \cap {f \in Files : Live(f)})
    /\ reaper' = [reaper EXCEPT !.pc = "next", !.file = NoFile]
    /\ UNCHANGED <<old, alive, attach, cascade, races>>

\* Mutant: one resolver, and its memo, for all runs.
ReapDone_KeepsMemo ==
    /\ reaper.pc = "next" /\ reaper.todo = {}
    /\ reaper' = [IdleReaper EXCEPT !.kept = reaper.kept]
    /\ UNCHANGED <<row, charged, old, alive, attach, cascade, races>>

ReapDone ==
    /\ reaper.pc = "next" /\ reaper.todo = {}
    /\ reaper' = IdleReaper
    /\ UNCHANGED <<row, charged, old, alive, attach, cascade, races>>

\* A statement fails, or the worker dies; while it waits for a row's lock
\* that makes no difference before it has the lock.
ReapCrash ==
    /\ reaper.pc # "idle"
    /\ reaper.pc = "reap" => Free(reaper.file)
    /\ reaper' = IdleReaper
    /\ UNCHANGED <<row, charged, old, alive, attach, cascade, races>>

-----------------------------------------------------------------------------
AttachStep(a) == AttachLink(a) \/ AttachScan(a) \/ AttachCommit(a) \/ \E f \in Files : AttachLock(a, f)
CascadeStep(o) == CascadeScan(o) \/ CascadeCommit(o) \/ \E f \in Files : CascadeLock(o, f)
ReapStep == ReapScan \/ ReapRemember \/ ReapFile \/ ReapDone

Next ==
    \/ \E f \in Files :
          SignUpload(f) \/ CompleteUpload(f) \/ DeleteFile(f) \/ ReapPending(f) \/ GrowOld(f)
    \/ \E a \in Attachers, f \in Files, o \in Owners : AttachLoad(a, f, o)
    \/ \E a \in Attachers : AttachStep(a) \/ AttachFails(a)
    \/ \E o \in Owners : OwnerDeleted(o) \/ CascadeStep(o) \/ CascadeFails(o)
    \/ \E o \in Owners \cup {NoOwner} : ReapAsk(o) \/ ReapAskFails(o)
    \/ ReapStep \/ ReapCrash

Spec == Init /\ [][Next]_vars

(***************************************************************************)
(* Transactions end, files age, and the daily job runs again and again: it *)
(* may fail, but not every time at the same place.                         *)
(***************************************************************************)
Fairness ==
    /\ \A a \in Attachers : WF_vars(AttachStep(a) \/ AttachFails(a))
    /\ \A o \in Owners : WF_vars(CascadeStep(o) \/ CascadeFails(o)) /\ SF_vars(ReapAsk(o))
    /\ \A f \in Files : WF_vars(GrowOld(f))
    /\ WF_vars(ReapScan \/ ReapRemember \/ ReapDone) /\ SF_vars(ReapFile)

FairSpec == Spec /\ Fairness

-----------------------------------------------------------------------------
TypeOK ==
    /\ row \in [Files -> [status : Statuses, owner : Owners \cup {NoOwner}]]
    /\ charged \subseteq {f \in Files : row[f].status \in {"uploaded", "deleted"}}
    /\ \A i, j \in DOMAIN old : old[i] \in Files /\ (old[i] = old[j] => i = j)
    /\ alive \subseteq Owners
    /\ attach \in [Attachers -> [pc : {"idle", "link", "scan", "lock", "done"}, file : Files \cup {NoFile},
                                  owner : Owners \cup {NoOwner},
                                  todo : SUBSET Files, locked : SUBSET Files]]
    /\ cascade \in [Owners -> [pc : {"none", "event", "lock", "done"},
                                todo : SUBSET Files, locked : SUBSET Files]]
    /\ reaper \in [pc : {"idle", "next", "reap"}, file : Files \cup {NoFile},
                    todo : SUBSET [file : Files, owner : Owners \cup {NoOwner}],
                    gone : SUBSET (Owners \cup {NoOwner}), kept : SUBSET (Owners \cup {NoOwner})]
    /\ races \subseteq Races

\* A record has one live file: attaching another replaces it.
\* (cardinality "single"; attach-file.ts: the FOR UPDATE serializes against
\* concurrent attaches.)
OneFilePerOwner == "attach" \notin races => \A o \in Owners : Cardinality(FilesOf(o)) <= 1

\* Replacing a file leaves the owner with a file.  (attach-file.ts: there is
\* no zero-avatar window.)
AttachLeavesAFile ==
    [][\A a \in Attachers, o \in Owners :
          AttachCommit(a) /\ attach[a].owner = o /\ FilesOf(o) # {} /\ races = {}
            => FilesOf(o)' # {}]_vars

\* Whoever tombstones a file refunds it, once: bytes_used is charged for the
\* live completed files and no others (quota.ts, SC#3).
ChargedExactly == "cascade" \notin races => charged = {f \in Files : row[f].status = "uploaded"}

\* Every path that completes or tombstones a file moves bytes_used by just that file
\* (attach-file.ts, cascade.ts, reap-orphan-files.ts).
BytesCharged == TypeOK /\ ChargedExactly

\* The reaper never takes a file whose owner is alive (reap-orphan-files.ts:
\* "MUST NEVER delete a file whose owner still exists").
LivingOwnersKeepFiles ==
    [][ReapFile /\ "reaper" \notin races
          => \A f \in Files : Live(f) /\ ~Live(f)' => row[f].owner \notin alive]_vars

\* Nor one that was never attached: those are left to their uploader and to
\* the reaper of pending uploads (reap-orphan-files.ts, load-bearing filter).
UnattachedKept ==
    [][ReapFile => \A f \in Files : Live(f) /\ ~Live(f)' => row[f].owner # NoOwner]_vars

\* The three things no step may do to an owner's files: an attach leaves its owner
\* with none, a living owner loses its only file to the reaper, a file that was never
\* attached is taken for an orphan.
FilesStayWithOwners == AttachLeavesAFile /\ LivingOwnersKeepFiles /\ UnattachedKept

\* An owner's files go some day after the owner, whether or not its cascade ran
\* and whatever was being attached to it (reap-orphan-files.ts: the backstop
\* for a lost cascade, which drains a backlog over consecutive runs).
OrphansReaped == \A o \in Owners : o \notin alive ~> FilesOf(o) = {}

=============================================================================
