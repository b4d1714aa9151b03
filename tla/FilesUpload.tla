---------------------------- MODULE FilesUpload ----------------------------
(***************************************************************************)
(* The life of an uploaded file in packages/modules/files, from the signed *)
(* upload to the removal of its row and its object, and the tenant's quota *)
(* counters along the way.  Three stores change in separate steps: the     *)
(* files rows and the usage row (Postgres, changed together in one         *)
(* transaction where the code opens one) and the object store, which no    *)
(* transaction covers.  One transaction, or one call of the object store,  *)
(* is one action; what a handler keeps in its locals between two of them   *)
(* is state of the handler.                                                *)
(*                                                                         *)
(* Files are those of one tenant: every statement is tenant-scoped.        *)
(***************************************************************************)
EXTENDS StorageQuota

CONSTANTS
    Calls,              \* requests to /complete that may be in flight at once
    NoFile,             \* the file of a handler that is idle
    MaxObject,          \* the largest object a client PUTs
    Limit,              \* bytes_limit of the tenant
    OneCompletePerFile, \* no two requests complete the same file at once
    PutsWithinClaim,    \* the adapter bounds a PUT by the signed size
    StatementsMayFail   \* the DELETE whose failure admin-sign ignores may fail

ASSUME NoFileAssumption == NoFile \notin Files
ASSUME SizesAssumption == Limit \in Nat /\ MaxObject \in Nat /\ MaxObject >= MaxBytes
ASSUME SwitchesAssumption ==
    /\ OneCompletePerFile \in BOOLEAN
    /\ PutsWithinClaim \in BOOLEAN
    /\ StatementsMayFail \in BOOLEAN

VARIABLES
    row,       \* the files table: status and byte_size
    usage,     \* the tenant's row of tenant_storage_usage
    object,    \* the object store, by the file whose key it is
    age,       \* how long ago the row was created
    call,      \* locals of the /complete requests in flight
    admin,     \* locals of an admin-sign-upload in flight
    erasing,   \* objects some handler still has to delete after its commit
    stranded,  \* history: bytes held for a row that was tombstoned while pending
    leaked     \* history: bytes held by an admin-sign that died half way

vars == <<row, usage, object, age, call, admin, erasing, stranded, leaked>>

\* "absent" and "gone" are ids with no row, before and after its life.
Statuses == {"absent", "pending", "uploaded", "deleted", "gone"}
InTable == {"pending", "uploaded", "deleted"}
CountedStatuses == {"uploaded"}

\* URL still valid; URL expired; older than the hour of reap-pending-uploads.
Ages == {"signed", "expired", "stale"}

NoObject == [size |-> 0, sound |-> FALSE]
Objects == [size : 1..MaxObject, sound : BOOLEAN] \cup {NoObject}

IdleCall == [pc |-> "idle", file |-> NoFile, reserved |-> 0, auth |-> 0]
IdleAdmin == [pc |-> "idle", file |-> NoFile, size |-> 0]

Has(f) == object[f] # NoObject

\* bytes_pending accounts for the rows still pending ...
Held == [f \in Files |-> IF row[f].status = "pending" THEN row[f].size ELSE 0]
\* ... and, after a tombstone, for bytes nobody released.
Reserved == [f \in Files |-> IF row[f].status = "pending" THEN row[f].size ELSE stranded[f]]
\* bytes_used accounts for the rows that count.
Stored == [f \in Files |-> IF row[f].status \in CountedStatuses THEN row[f].size ELSE 0]
\* An admin-sign holds its bytes before the row exists and after it is undone.
AdminHeld == IF admin.pc \in {"reserved", "undo"} THEN admin.size ELSE 0

Init ==
    /\ row = [f \in Files |-> [status |-> "absent", size |-> 0]]
    /\ usage = NoUsage
    /\ object = [f \in Files |-> NoObject]
    /\ age = [f \in Files |-> "signed"]
    /\ call = [c \in Calls |-> IdleCall]
    /\ admin = IdleAdmin
    /\ erasing = {}
    /\ stranded = [f \in Files |-> 0]
    /\ leaked = 0

-----------------------------------------------------------------------------
(***************************************************************************)
(* sign-upload: reserve, insert and sign in one transaction.               *)
(***************************************************************************)
SignUpload(f, n) ==
    /\ row[f].status = "absent"
    /\ admin.file # f
    /\ FitsQuota(usage, n, Limit)
    /\ usage' = ReserveQuota(usage, n)
    /\ row' = [row EXCEPT ![f] = [status |-> "pending", size |-> n]]
    /\ UNCHANGED <<object, age, call, admin, erasing, stranded, leaked>>

\* The insert or the signing throws: the catch deletes the row, if there is
\* one, and gives the bytes back before the transaction commits.
SignUploadFails(n) ==
    /\ FitsQuota(usage, n, Limit)
    /\ usage' = ReleaseQuota(ReserveQuota(usage, n), n)
    /\ UNCHANGED <<row, object, age, call, admin, erasing, stranded, leaked>>

(***************************************************************************)
(* adminSignUpload: the same steps on the raw connection, each its own     *)
(* commit, so another actor or a crash may come between them.              *)
(***************************************************************************)
AdminReserve(f, n) ==
    /\ admin.pc = "idle"
    /\ row[f].status = "absent"
    /\ FitsQuota(usage, n, Limit)
    /\ usage' = ReserveQuota(usage, n)
    /\ admin' = [pc |-> "reserved", file |-> f, size |-> n]
    /\ UNCHANGED <<row, object, age, call, erasing, stranded, leaked>>

AdminInsert ==
    /\ admin.pc = "reserved"
    /\ row' = [row EXCEPT ![admin.file] = [status |-> "pending", size |-> admin.size]]
    /\ admin' = [admin EXCEPT !.pc = "inserted"]
    /\ UNCHANGED <<usage, object, age, call, erasing, stranded, leaked>>

\* The insert throws: there is no row to delete, only bytes to give back.
AdminInsertFails ==
    /\ admin.pc = "reserved"
    /\ admin' = [admin EXCEPT !.pc = "undo"]
    /\ UNCHANGED <<row, usage, object, age, call, erasing, stranded, leaked>>

AdminSigned ==
    /\ admin.pc = "inserted"
    /\ admin' = IdleAdmin
    /\ UNCHANGED <<row, usage, object, age, call, erasing, stranded, leaked>>

\* Signing throws, so nobody has a URL: delete the row, whatever became of
\* it; a failing DELETE is swallowed.
AdminSignFails ==
    /\ admin.pc = "inserted"
    /\ \/ /\ row' = [row EXCEPT ![admin.file].status = "gone"]
          /\ stranded' = [stranded EXCEPT ![admin.file] = 0]
       \/ StatementsMayFail /\ UNCHANGED <<row, stranded>>
    /\ admin' = [admin EXCEPT !.pc = "undo"]
    /\ age' = [age EXCEPT ![admin.file] = "expired"]
    /\ UNCHANGED <<usage, object, call, erasing, leaked>>

AdminUndo ==
    /\ admin.pc = "undo"
    /\ usage' = ReleaseQuota(usage, admin.size)
    /\ admin' = IdleAdmin
    /\ UNCHANGED <<row, object, age, call, erasing, stranded, leaked>>

\* The process dies between two of the commits; nothing else knows the bytes.
AdminCrash ==
    /\ admin.pc # "idle"
    /\ leaked' = leaked + AdminHeld
    /\ admin' = IdleAdmin
    /\ age' = IF admin.pc = "inserted" THEN [age EXCEPT ![admin.file] = "expired"] ELSE age
    /\ UNCHANGED <<row, usage, object, call, erasing, stranded>>

-----------------------------------------------------------------------------
(***************************************************************************)
(* The client PUTs an object to the signed URL, as often as it likes until *)
(* the URL expires, whatever happened to the row meanwhile.                *)
(***************************************************************************)
Put(f, o) ==
    /\ row[f].status # "absent"
    /\ ~(admin.pc = "inserted" /\ admin.file = f)
    /\ age[f] = "signed"
    /\ PutsWithinClaim => o.size <= row[f].size
    /\ object' = [object EXCEPT ![f] = o]
    /\ UNCHANGED <<row, usage, age, call, admin, erasing, stranded, leaked>>

\* Time passes.  A sign handler does not outlive the URL it is signing.
GrowOlder(f) ==
    /\ row[f].status # "absent"
    /\ age[f] # "stale"
    /\ admin.file # f
    /\ age' = [age EXCEPT ![f] = IF @ = "signed" THEN "expired" ELSE "stale"]
    /\ UNCHANGED <<row, usage, object, call, admin, erasing, stranded, leaked>>

-----------------------------------------------------------------------------
(***************************************************************************)
(* complete-upload (and adminCompleteUpload): an unlocked read of the row, *)
(* three calls of the object store, then one transaction.  The client has  *)
(* the file id from the response of sign.                                  *)
(***************************************************************************)
CompleteLoad(c, f) ==
    /\ call[c].pc = "idle"
    /\ row[f].status = "pending"
    /\ ~(admin.pc = "inserted" /\ admin.file = f)
    /\ OneCompletePerFile => \A d \in Calls : call[d].file # f
    /\ call' = [call EXCEPT ![c] = [pc |-> "stat", file |-> f, reserved |-> row[f].size, auth |-> 0]]
    /\ UNCHANGED <<row, usage, object, age, admin, erasing, stranded, leaked>>

CompleteStat(c) ==
    /\ call[c].pc = "stat"
    /\ LET found == object[call[c].file].size
       IN call' = [call EXCEPT ![c].auth = found,
                               ![c].pc = IF found \in Sizes THEN "verify" ELSE "reject"]
    /\ UNCHANGED <<row, usage, object, age, admin, erasing, stranded, leaked>>

\* getObject throws when the object is gone by now: the request fails with 500.
CompleteVerify(c) ==
    /\ call[c].pc = "verify"
    /\ LET o == object[call[c].file]
       IN call' = [call EXCEPT ![c] =
            CASE o = NoObject -> IdleCall
              [] o.sound      -> [@ EXCEPT !.pc = "commit"]
              [] OTHER        -> [@ EXCEPT !.pc = "reject"]]
    /\ UNCHANGED <<row, usage, object, age, admin, erasing, stranded, leaked>>

\* reject(), first half: delete the object, ignoring a failure.
RejectObject(c) ==
    /\ call[c].pc = "reject"
    /\ object' \in {object, [object EXCEPT ![call[c].file] = NoObject]}
    /\ call' = [call EXCEPT ![c].pc = "unwind"]
    /\ UNCHANGED <<row, usage, age, admin, erasing, stranded, leaked>>

\* reject(), second half: delete the row by id, and release the bytes if
\* this call deleted it.
RejectRow(c) ==
    /\ call[c].pc = "unwind"
    /\ LET f == call[c].file
       IN IF row[f].status \in InTable
          THEN /\ row' = [row EXCEPT ![f].status = "gone"]
               /\ usage' = ReleaseQuota(usage, call[c].reserved)
               /\ stranded' = [stranded EXCEPT ![f] = 0]
          ELSE UNCHANGED <<row, usage, stranded>>
    /\ call' = [call EXCEPT ![c] = IdleCall]
    /\ UNCHANGED <<object, age, admin, erasing, leaked>>

\* Mutant: the UPDATE has no status = 'pending' predicate.
CompleteCommit_Unguarded(c) ==
    /\ call[c].pc = "commit"
    /\ row' = [row EXCEPT ![call[c].file] = [status |-> "uploaded", size |-> call[c].auth]]
    /\ usage' = MarkUploaded(usage, call[c].reserved, call[c].auth)
    /\ call' = [call EXCEPT ![c] = IdleCall]
    /\ UNCHANGED <<object, age, admin, erasing, stranded, leaked>>

\* The conditional UPDATE and, when it hit, markUploaded.
CompleteCommit(c) ==
    /\ call[c].pc = "commit"
    /\ LET f == call[c].file
       IN IF row[f].status = "pending"
          THEN /\ row' = [row EXCEPT ![f] = [status |-> "uploaded", size |-> call[c].auth]]
               /\ usage' = MarkUploaded(usage, call[c].reserved, call[c].auth)
          ELSE UNCHANGED <<row, usage>>
    /\ call' = [call EXCEPT ![c] = IdleCall]
    /\ UNCHANGED <<object, age, admin, erasing, stranded, leaked>>

\* The process serving the request dies.
CompleteCrash(c) ==
    /\ call[c].pc # "idle"
    /\ call' = [call EXCEPT ![c] = IdleCall]
    /\ UNCHANGED <<row, usage, object, age, admin, erasing, stranded, leaked>>

-----------------------------------------------------------------------------
\* Mutant: every deleted row is refunded, the pending ones too.
DeleteFile_RefundsAll(f) ==
    /\ row[f].status \in {"pending", "uploaded"}
    /\ row' = [row EXCEPT ![f].status = "deleted"]
    /\ usage' = DecrementUsed(usage, row[f].size)
    /\ stranded' = [stranded EXCEPT ![f] = Held[f]]
    /\ erasing' = erasing \cup {f}
    /\ UNCHANGED <<object, age, call, admin, leaked>>

\* Mutant: the object is deleted first, the row in a later step.
DeleteFile_ObjectFirst(f) ==
    /\ row[f].status \in {"pending", "uploaded"}
    /\ IF Has(f) THEN /\ object' = [object EXCEPT ![f] = NoObject]
                     /\ UNCHANGED <<row, usage, stranded>>
                ELSE /\ row' = [row EXCEPT ![f].status = "deleted"]
                     /\ usage' = DecrementUsed(usage, Stored[f])
                     /\ stranded' = [stranded EXCEPT ![f] = Held[f]]
                     /\ UNCHANGED object
    /\ UNCHANGED <<age, call, admin, erasing, leaked>>

(***************************************************************************)
(* delete-file (and adminDeleteFile): lock the live row, tombstone it and  *)
(* refund it if it counted; the object is deleted after the commit.        *)
(***************************************************************************)
DeleteFile(f) ==
    /\ row[f].status \in {"pending", "uploaded"}
    /\ row' = [row EXCEPT ![f].status = "deleted"]
    /\ usage' = IF row[f].status \in CountedStatuses
                THEN DecrementUsed(usage, row[f].size)
                ELSE usage
    /\ stranded' = [stranded EXCEPT ![f] = Held[f]]
    /\ erasing' = erasing \cup {f}
    /\ UNCHANGED <<object, age, call, admin, leaked>>

\* Mutant: the scan has no status = 'pending' predicate.
ReapPending_AnyStatus ==
    LET stale == {f \in Files : row[f].status \in {"pending", "uploaded"} /\ age[f] = "stale"}
    IN /\ stale # {}
       /\ row' = [f \in Files |-> IF f \in stale THEN [row[f] EXCEPT !.status = "gone"] ELSE row[f]]
       /\ usage' = ReleaseQuota(usage, Total([f \in Files |-> IF f \in stale THEN row[f].size ELSE 0]))
       /\ erasing' = erasing \cup stale
       /\ UNCHANGED <<object, age, call, admin, stranded, leaked>>

\* Mutant: the job dies after the DELETE, before it releases the bytes.
ReapPending_NoRelease ==
    LET stale == {f \in Files : row[f].status = "pending" /\ age[f] = "stale"}
    IN /\ stale # {}
       /\ row' = [f \in Files |-> IF f \in stale THEN [row[f] EXCEPT !.status = "gone"] ELSE row[f]]
       /\ erasing' = erasing \cup stale
       /\ UNCHANGED <<usage, object, age, call, admin, stranded, leaked>>

\* reap-pending-uploads: one statement removes the stale pending rows and
\* releases their bytes.
ReapPending ==
    LET stale == {f \in Files : row[f].status = "pending" /\ age[f] = "stale"}
    IN /\ stale # {}
       /\ row' = [f \in Files |-> IF f \in stale THEN [row[f] EXCEPT !.status = "gone"] ELSE row[f]]
       /\ usage' = ReleaseQuota(usage, Total([f \in Files |-> IF f \in stale THEN row[f].size ELSE 0]))
       /\ erasing' = erasing \cup stale
       /\ UNCHANGED <<object, age, call, admin, stranded, leaked>>

\* reap-soft-deleted: hard-delete the tombstones past their retention, which
\* is counted in days; the counters are left alone, so one row at a time
\* reaches what one statement over all of them reaches.
ReapSoftDeleted(f) ==
    /\ row[f].status = "deleted"
    /\ age[f] = "stale"
    /\ row' = [row EXCEPT ![f].status = "gone"]
    /\ erasing' = erasing \cup {f}
    /\ UNCHANGED <<usage, object, age, call, admin, stranded, leaked>>

\* The best-effort storage.delete after a commit.
EraseObject(f) ==
    /\ f \in erasing
    /\ object' = [object EXCEPT ![f] = NoObject]
    /\ erasing' = erasing \ {f}
    /\ UNCHANGED <<row, usage, age, call, admin, stranded, leaked>>

\* The delete fails, or the process dies before it.
EraseFails(f) ==
    /\ f \in erasing
    /\ erasing' = erasing \ {f}
    /\ UNCHANGED <<row, usage, object, age, call, admin, stranded, leaked>>

-----------------------------------------------------------------------------
CompleteStep(c) ==
    \/ CompleteStat(c) \/ CompleteVerify(c) \/ CompleteCommit(c)
    \/ RejectObject(c) \/ RejectRow(c)

AdminStep == AdminInsert \/ AdminSigned \/ AdminSignFails \/ AdminUndo

Next ==
    \/ \E f \in Files, n \in Sizes :
          SignUpload(f, n) \/ AdminReserve(f, n)
    \/ \E n \in Sizes : SignUploadFails(n)
    \/ AdminStep \/ AdminInsertFails \/ AdminCrash
    \/ \E f \in Files : \E o \in Objects \ {NoObject} : Put(f, o)
    \/ \E c \in Calls : CompleteStep(c) \/ CompleteCrash(c)
    \/ \E c \in Calls, f \in Files : CompleteLoad(c, f)
    \/ ReapPending
    \/ \E f \in Files :
          GrowOlder(f) \/ DeleteFile(f) \/ ReapSoftDeleted(f) \/ EraseObject(f) \/ EraseFails(f)

Spec == Init /\ [][Next]_vars

(***************************************************************************)
(* A request handler that is running keeps running, the hourly and weekly  *)
(* jobs fire again and again, and time passes.                             *)
(***************************************************************************)
Fairness ==
    /\ \A c \in Calls : WF_vars(CompleteStep(c))
    /\ WF_vars(AdminStep)
    /\ WF_vars(ReapPending)
    /\ \A f \in Files :
          /\ WF_vars(GrowOlder(f))
          /\ WF_vars(ReapSoftDeleted(f))
          /\ WF_vars(EraseObject(f) \/ EraseFails(f))

FairSpec == Spec /\ Fairness

-----------------------------------------------------------------------------
TypeOK ==
    /\ row \in [Files -> [status : Statuses, size : 0..MaxBytes]]
    /\ usage \in Usage
    /\ object \in [Files -> Objects]
    /\ age \in [Files -> Ages]
    /\ call \in [Calls -> [pc : {"idle", "stat", "verify", "commit", "reject", "unwind"},
                            file : Files \cup {NoFile},
                            reserved : 0..MaxBytes, auth : 0..MaxObject]]
    /\ admin \in [pc : {"idle", "reserved", "inserted", "undo"},
                   file : Files \cup {NoFile}, size : 0..MaxBytes]
    /\ erasing \subseteq Files
    /\ stranded \in Weights
    /\ leaked \in Nat

\* The two counters are conserved: bytes_used is the sum of the live counted
\* rows and bytes_pending the sum of the reservations, whatever sign, complete,
\* reject, delete and the reapers do between each other's steps.  (The SC#3
\* conservation invariant of quota.ts and complete-upload.ts.)
QuotaExact ==
    /\ usage.used = Total(Stored)
    /\ usage.pending = Total(Reserved) + AdminHeld + leaked

\* No interleaving of reservations, completions and refunds takes the tenant
\* past its limit (quota.ts: no two reservations can both pass).
WithinLimit == usage.used + usage.pending <= Limit

\* A live completed row always has an object to sign a URL for: delete-file
\* and the reapers delete the object only after the row (delete-file.ts, R7).
StoredHaveObject == \A f \in Files : row[f].status \in CountedStatuses => Has(f)

\* However completions race, bytes_used covers every live completed file: a
\* refund is paid once, and only for a row that was counted (soft-delete.ts).
UsedCoversStored == usage.used >= Total(Stored)

\* A tombstoned or removed row never comes back to life, although a racing
\* /complete decided on it before (complete-upload.ts, concurrency gate).
NoResurrection ==
    [][\A f \in Files : row[f].status \in {"deleted", "gone"}
          => row'[f].status \in {"deleted", "gone"}]_vars

\* An upload that became a real file ends in a tombstone: no reject and no
\* reaper of pending uploads removes it (complete-upload.ts, reject path: "the
\* upload never became a real file").
UploadedEndsInTombstone ==
    [][\A f \in Files : row[f].status = "uploaded"
          => row'[f].status \in {"uploaded", "deleted"}]_vars

\* Reserved bytes come back: again and again bytes_pending is down to the bytes
\* that no code path releases, those of tombstoned pending rows and of an
\* admin-sign that died (reap-pending-uploads.ts).
PendingDrains == []<>(usage.pending <= Total(stranded) + leaked)

\* The counters implement the ledger: a file holds its bytes while pending,
\* stores them once counted, and the rest of bytes_pending is unowned.
Ledger == INSTANCE QuotaLedger WITH
    held <- Held, stored <- Stored, unowned <- usage.pending - Total(Held)

ImplementsLedger == Ledger!LedgerSpec

=============================================================================
