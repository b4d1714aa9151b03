----------------------- MODULE FilesOwnership_proofs -----------------------
(***************************************************************************)
(* Theorems of FilesOwnership for every set of files, owners and attach    *)
(* requests.  They rest on one invariant.  Its first part holds whatever   *)
(* happens: a row has one lock, and what a transaction has locked stays as *)
(* it was when it was locked (AbsentOK, AttachOK, CascadeOK, ReaperOK,     *)
(* LocksOK).  The second part holds as long as the race that breaks it has *)
(* not happened: requests keep to owners of their own (OneAttach), a       *)
(* cascade has locked or will lock all there is of its owner               *)
(* (AloneCascade), no owner changes under the reaper (AloneReaper), and a  *)
(* file that is being attached is live (AloneAttach).                      *)
(***************************************************************************)
EXTENDS FilesOwnership, FiniteSetTheorems, SequenceTheorems, TLAPS

USE OwnersAssumption, ScanLimitAssumption

-----------------------------------------------------------------------------
Busy(t) == t.pc \notin {"idle", "done"}

\* A file belongs to no one before its upload.
AbsentOK == \A f \in Files : row[f].status = "absent" => row[f].owner = NoOwner

\* A request that is not under way has let go of everything; one that is has a file
\* and an owner, and from its UPDATE on the lock of the file's row.
AttachOK == \A a \in Attachers :
    /\ attach[a].pc \in {"idle", "done"} =>
          attach[a].file = NoFile /\ attach[a].owner = NoOwner /\ attach[a].locked = {}
    /\ Busy(attach[a]) => /\ attach[a].file \in Files /\ attach[a].owner \in Owners
                          /\ row[attach[a].file].status # "absent"
    /\ attach[a].pc = "link" => attach[a].locked = {}
    /\ attach[a].pc \in {"scan", "lock"} => attach[a].file \in attach[a].locked
    /\ \A f \in attach[a].locked \ {attach[a].file} : f \in FilesOf(attach[a].owner)

\* A cascade is about an owner that is gone, and has locked live files of it.
CascadeOK == \A o \in Owners :
    /\ cascade[o].pc # "lock" => cascade[o].locked = {}
    /\ cascade[o].pc # "none" => o \notin alive
    /\ \A f \in cascade[o].locked : f \in FilesOf(o)

\* A candidate of the reaper has had an owner since the scan; who is gone stays so.
ReaperOK ==
    /\ \A c \in reaper.todo : row[c.file].owner # NoOwner
    /\ reaper.pc = "reap" => reaper.file \in Files /\ row[reaper.file].owner # NoOwner
    /\ reaper.pc # "reap" => reaper.file = NoFile
    /\ reaper.gone \cap alive = {}

\* A row has one lock.
LocksOK ==
    /\ \A a, b \in Attachers : a # b => attach[a].locked \cap attach[b].locked = {}
    /\ \A o, p \in Owners : o # p => cascade[o].locked \cap cascade[p].locked = {}
    /\ \A a \in Attachers, o \in Owners : attach[a].locked \cap cascade[o].locked = {}

\* Requests that are under way at once have their own owners and files; what is left to
\* be locked or is locked are all the files that will be replaced; an owner has one.
OneAttach == "attach" \notin races =>
    /\ \A a, b \in Attachers : a # b /\ Busy(attach[a]) /\ Busy(attach[b]) =>
          attach[a].owner # attach[b].owner /\ attach[a].file # attach[b].file
    /\ \A a \in Attachers : attach[a].pc = "lock" =>
          FilesOf(attach[a].owner) \ {attach[a].file} \subseteq attach[a].todo \cup attach[a].locked
    /\ \A o \in Owners : \A f, g \in FilesOf(o) : f = g

\* The same of a cascade, to whose owner nothing is being attached.
AloneCascade == "cascade" \notin races =>
    /\ \A o \in Owners : cascade[o].pc = "lock" =>
          /\ FilesOf(o) \subseteq cascade[o].todo \cup cascade[o].locked
          /\ \A a \in Attachers : attach[a].owner # o
    /\ charged = {f \in Files : row[f].status = "uploaded"}

\* While the reaper runs, nothing is attached: its candidates keep their owners.
AloneReaper == "reaper" \notin races /\ reaper.pc # "idle" =>
    /\ \A a \in Attachers : ~Busy(attach[a])
    /\ \A c \in reaper.todo : row[c.file].owner = c.owner
    /\ reaper.pc = "reap" => row[reaper.file].owner \in reaper.gone

\* A file that is being attached is live and will be: neither another request nor a
\* cascade replaces the files of its owner.
AloneAttach == races = {} =>
    \A a \in Attachers : Busy(attach[a]) =>
          /\ Live(attach[a].file)
          /\ \A b \in Attachers : b # a /\ Busy(attach[b]) =>
                attach[b].owner # row[attach[a].file].owner
          /\ \A o \in Owners : cascade[o].pc = "lock" => row[attach[a].file].owner # o
Inv ==
    /\ TypeOK /\ old \in Seq(Files)
    /\ AbsentOK /\ AttachOK /\ CascadeOK /\ ReaperOK /\ LocksOK
    /\ OneAttach /\ AloneCascade /\ AloneReaper /\ AloneAttach

-----------------------------------------------------------------------------
(***************************************************************************)
(* What a step does to a request, a cascade and a row.                     *)
(***************************************************************************)
AttachType == [pc : {"idle", "link", "scan", "lock", "done"}, file : Files \cup {NoFile},
               owner : Owners \cup {NoOwner}, todo : SUBSET Files, locked : SUBSET Files]
CascadeType == [pc : {"none", "event", "lock", "done"}, todo : SUBSET Files, locked : SUBSET Files]
RowType == [status : Statuses, owner : Owners \cup {NoOwner}]

\* The locals of a request, or of a cascade, after a step of it.
AttachBecomes(a, pc, file, owner, todo, locked) ==
    /\ attach' \in [Attachers -> AttachType]
    /\ attach'[a].pc = pc /\ attach'[a].file = file /\ attach'[a].owner = owner
    /\ attach'[a].todo = todo /\ attach'[a].locked = locked
    /\ \A b \in Attachers \ {a} : attach'[b] = attach[b]

CascadeBecomes(o, pc, todo, locked) ==
    /\ cascade' \in [Owners -> CascadeType]
    /\ cascade'[o].pc = pc /\ cascade'[o].todo = todo /\ cascade'[o].locked = locked
    /\ \A p \in Owners \ {o} : cascade'[p] = cascade[p]

LEMMA AttachLoaded ==
    ASSUME TypeOK, NEW a \in Attachers, NEW f \in Files, NEW o \in Owners, AttachLoad(a, f, o)
    PROVE  AttachBecomes(a, "link", f, o, {}, {})
<1>. DEFINE n == [IdleAttach EXCEPT !.pc = "link", !.file = f, !.owner = o]
<1>1. n = [pc |-> "link", file |-> f, owner |-> o, todo |-> {}, locked |-> {}]
  <2>. DEFINE m == [IdleAttach EXCEPT !.pc = "link"]
              k == [m EXCEPT !.file = f]
  <2>1. m = [pc |-> "link", file |-> NoFile, owner |-> NoOwner, todo |-> {}, locked |-> {}]
    BY DEF IdleAttach
  <2>2. n = [k EXCEPT !.owner = o]
    OBVIOUS
  <2>. HIDE DEF m
  <2>3. k = [pc |-> "link", file |-> f, owner |-> NoOwner, todo |-> {}, locked |-> {}]
    BY <2>1
  <2>. HIDE DEF k, n
  <2>. QED  BY <2>2, <2>3
<1>2. attach' = [attach EXCEPT ![a] = n]
  BY DEF AttachLoad
<1>. HIDE DEF n
<1>3. n \in AttachType
  BY <1>1 DEF AttachType
<1>4. attach \in [Attachers -> AttachType]
  BY DEF TypeOK, AttachType
<1>5. attach'[a] = n /\ attach' \in [Attachers -> AttachType]
  BY <1>2, <1>3, <1>4
<1>6. \A b \in Attachers \ {a} : attach'[b] = attach[b]
  BY <1>2, <1>4
<1>. QED  BY <1>1, <1>5, <1>6 DEF AttachBecomes

\* A request whose step and whose sets of files are other ones is still a request.
LEMMA AttachEdits ==
    ASSUME NEW k \in AttachType, NEW pc \in {"scan", "lock"}, NEW S \in SUBSET Files
    PROVE  /\ [k EXCEPT !.pc = pc, !.locked = S] \in AttachType
           /\ [k EXCEPT !.pc = pc, !.todo = S] \in AttachType
BY DEF AttachType

LEMMA AttachLinked ==
    ASSUME Inv, NEW a \in Attachers, AttachLink(a)
    PROVE  AttachBecomes(a, "scan", attach[a].file, attach[a].owner, attach[a].todo, {attach[a].file})
<1>1. attach \in [Attachers -> AttachType] /\ attach[a].file \in Files
  BY DEF Inv, TypeOK, AttachType, AttachOK, AttachLink, Busy
<1>2. attach' \in [Attachers -> AttachType]
  <2>1. [attach[a] EXCEPT !.pc = "scan", !.locked = {attach[a].file}] \in AttachType
    BY <1>1, AttachEdits
  <2>. QED  BY <1>1, <2>1 DEF AttachLink
<1>. QED  BY <1>1, <1>2 DEF AttachLink, AttachType, AttachBecomes

LEMMA AttachScanned ==
    ASSUME TypeOK, NEW a \in Attachers, AttachScan(a)
    PROVE  AttachBecomes(a, "lock", attach[a].file, attach[a].owner,
                         FilesOf(attach[a].owner) \ {attach[a].file}, attach[a].locked)
<1>1. attach \in [Attachers -> AttachType]
  BY DEF TypeOK, AttachType
<1>2. FilesOf(attach[a].owner) \subseteq Files
  BY DEF FilesOf
<1>3. attach' \in [Attachers -> AttachType]
  <2>1. [attach[a] EXCEPT !.pc = "lock", !.todo = FilesOf(attach[a].owner) \ {attach[a].file}] \in AttachType
    BY <1>1, <1>2, AttachEdits
  <2>. QED  BY <1>1, <2>1 DEF AttachScan
<1>. QED  BY <1>1, <1>3 DEF AttachScan, AttachType, AttachBecomes

LEMMA AttachLocked ==
    ASSUME TypeOK, NEW a \in Attachers, NEW f \in Files, AttachLock(a, f)
    PROVE  AttachBecomes(a, "lock", attach[a].file, attach[a].owner, attach[a].todo \ {f},
                         IF f \in FilesOf(attach[a].owner) THEN attach[a].locked \cup {f}
                         ELSE attach[a].locked)
<1>. DEFINE L == IF f \in FilesOf(attach[a].owner) THEN attach[a].locked \cup {f}
                 ELSE attach[a].locked
            m == [attach EXCEPT ![a].todo = attach[a].todo \ {f}]
<1>1. attach \in [Attachers -> AttachType] /\ attach[a].pc = "lock"
  BY DEF TypeOK, AttachType, AttachLock
<1>2. L \in SUBSET Files
  BY <1>1 DEF AttachType
<1>3. attach' = [m EXCEPT ![a].locked = L]
  BY <1>1 DEF AttachLock
<1>. HIDE DEF L
<1>4. /\ m \in [Attachers -> AttachType]
      /\ m[a].pc = "lock" /\ m[a].file = attach[a].file /\ m[a].owner = attach[a].owner
      /\ m[a].todo = attach[a].todo \ {f}
      /\ \A b \in Attachers \ {a} : m[b] = attach[b]
  BY <1>1 DEF AttachType
<1>. HIDE DEF m
<1>5. /\ attach' \in [Attachers -> AttachType]
      /\ attach'[a].pc = "lock" /\ attach'[a].file = attach[a].file
      /\ attach'[a].owner = attach[a].owner
      /\ attach'[a].todo = attach[a].todo \ {f} /\ attach'[a].locked = L
      /\ \A b \in Attachers \ {a} : attach'[b] = attach[b]
  BY <1>2, <1>3, <1>4 DEF AttachType
<1>. QED  BY <1>5 DEF AttachBecomes, L

LEMMA AttachEnded ==
    ASSUME TypeOK, NEW a \in Attachers, AttachCommit(a) \/ AttachFails(a)
    PROVE  AttachBecomes(a, "done", NoFile, NoOwner, {}, {})
<1>1. DoneAttach = [pc |-> "done", file |-> NoFile, owner |-> NoOwner, todo |-> {}, locked |-> {}]
  BY DEF DoneAttach, IdleAttach
<1>2. attach' = [attach EXCEPT ![a] = DoneAttach]
  BY DEF AttachCommit, AttachFails
<1>3. attach \in [Attachers -> AttachType] /\ DoneAttach \in AttachType
  BY <1>1 DEF TypeOK, AttachType
<1>4. attach'[a] = DoneAttach /\ attach' \in [Attachers -> AttachType]
  BY <1>2, <1>3
<1>5. \A b \in Attachers \ {a} : attach'[b] = attach[b]
  BY <1>2, <1>3
<1>. QED  BY <1>1, <1>4, <1>5 DEF AttachBecomes

LEMMA OwnerGone ==
    ASSUME TypeOK, NEW o \in Owners, OwnerDeleted(o)
    PROVE  \/ cascade' = cascade
           \/ CascadeBecomes(o, "event", cascade[o].todo, cascade[o].locked)
<1>1. cascade \in [Owners -> CascadeType]
  BY DEF TypeOK, CascadeType
<1>2. CASE cascade' = [cascade EXCEPT ![o].pc = "event"]
  <2>1. cascade' \in [Owners -> CascadeType]
    BY <1>1, <1>2 DEF CascadeType
  <2>. QED  BY <1>1, <1>2, <2>1 DEF CascadeType, CascadeBecomes
<1>. QED  BY <1>2 DEF OwnerDeleted

LEMMA CascadeScanned ==
    ASSUME TypeOK, NEW o \in Owners, CascadeScan(o)
    PROVE  CascadeBecomes(o, IF FilesOf(o) = {} THEN "done" ELSE "lock", FilesOf(o),
                          cascade[o].locked)
<1>1. cascade \in [Owners -> CascadeType]
  BY DEF TypeOK, CascadeType
<1>2. FilesOf(o) \subseteq Files
  BY DEF FilesOf
<1>3. cascade' \in [Owners -> CascadeType]
  BY <1>1, <1>2 DEF CascadeScan, CascadeType
<1>. QED  BY <1>1, <1>3 DEF CascadeScan, CascadeType, CascadeBecomes

LEMMA CascadeLocked ==
    ASSUME TypeOK, NEW o \in Owners, NEW f \in Files, CascadeLock(o, f)
    PROVE  CascadeBecomes(o, "lock", cascade[o].todo \ {f},
                          IF f \in FilesOf(o) THEN cascade[o].locked \cup {f}
                          ELSE cascade[o].locked)
<1>1. cascade \in [Owners -> CascadeType]
  BY DEF TypeOK, CascadeType
<1>2. cascade' \in [Owners -> CascadeType]
  BY <1>1 DEF CascadeLock, CascadeType
<1>. QED  BY <1>1, <1>2 DEF CascadeLock, CascadeType, CascadeBecomes

LEMMA CascadeEnded ==
    ASSUME TypeOK, NEW o \in Owners, CascadeCommit(o) \/ CascadeFails(o)
    PROVE  CascadeBecomes(o, "done", {}, {})
<1>. DEFINE n == [NoCascade EXCEPT !.pc = "done"]
<1>1. n = [pc |-> "done", todo |-> {}, locked |-> {}]
  BY DEF NoCascade
<1>2. cascade' = [cascade EXCEPT ![o] = n]
  BY DEF CascadeCommit, CascadeFails
<1>. HIDE DEF n
<1>3. cascade \in [Owners -> CascadeType] /\ n \in CascadeType
  BY <1>1 DEF TypeOK, CascadeType
<1>4. cascade'[o] = n /\ cascade' \in [Owners -> CascadeType]
  BY <1>2, <1>3
<1>5. \A p \in Owners \ {o} : cascade'[p] = cascade[p]
  BY <1>2, <1>3
<1>. QED  BY <1>1, <1>4, <1>5 DEF CascadeBecomes

-----------------------------------------------------------------------------
(***************************************************************************)
(* What a step does to the locals and to a row, whichever action it is.    *)
(***************************************************************************)
AttachMoves(a) ==
    \/ \E f \in Files, o \in Owners : AttachLoad(a, f, o)
    \/ AttachLink(a) \/ AttachScan(a)
    \/ \E f \in Files : AttachLock(a, f)
    \/ AttachCommit(a) \/ AttachFails(a)

CascadeMoves(o) ==
    \/ OwnerDeleted(o) \/ CascadeScan(o)
    \/ \E f \in Files : CascadeLock(o, f)
    \/ CascadeCommit(o) \/ CascadeFails(o)

OtherMoves ==
    \/ \E f \in Files :
          SignUpload(f) \/ CompleteUpload(f) \/ DeleteFile(f) \/ ReapPending(f) \/ GrowOld(f)
    \/ \E o \in Owners \cup {NoOwner} : ReapAsk(o) \/ ReapAskFails(o)
    \/ ReapScan \/ ReapRemember \/ ReapFile \/ ReapDone \/ ReapCrash
    \/ UNCHANGED vars

LEMMA Moves ==
    ASSUME [Next]_vars
    PROVE  \/ \E a \in Attachers : AttachMoves(a) /\ UNCHANGED <<cascade, alive, reaper>>
           \/ \E o \in Owners : CascadeMoves(o) /\ UNCHANGED <<attach, reaper>>
           \/ OtherMoves /\ UNCHANGED <<attach, cascade, alive>>
<1>1. CASE \E a \in Attachers, f \in Files, o \in Owners : AttachLoad(a, f, o)
  BY <1>1 DEF AttachMoves, AttachLoad
<1>2. CASE \E a \in Attachers : AttachStep(a) \/ AttachFails(a)
  <2>. PICK a \in Attachers : AttachStep(a) \/ AttachFails(a)
    BY <1>2
  <2>1. UNCHANGED <<cascade, alive, reaper>>
    BY DEF AttachStep, AttachFails, AttachLink, AttachScan, AttachLock, AttachCommit
  <2>2. AttachMoves(a)
    BY DEF AttachStep, AttachMoves
  <2>. QED  BY <2>1, <2>2
<1>3. CASE \E o \in Owners : OwnerDeleted(o) \/ CascadeStep(o) \/ CascadeFails(o)
  <2>. PICK o \in Owners : OwnerDeleted(o) \/ CascadeStep(o) \/ CascadeFails(o)
    BY <1>3
  <2>1. UNCHANGED <<attach, reaper>>
    BY DEF OwnerDeleted, CascadeStep, CascadeFails, CascadeScan, CascadeLock, CascadeCommit
  <2>2. CascadeMoves(o)
    BY DEF CascadeStep, CascadeMoves
  <2>. QED  BY <2>1, <2>2
<1>4. CASE \E f \in Files :
        SignUpload(f) \/ CompleteUpload(f) \/ DeleteFile(f) \/ ReapPending(f) \/ GrowOld(f)
  BY <1>4 DEF OtherMoves, SignUpload, CompleteUpload, DeleteFile, ReapPending, GrowOld
<1>5. CASE \E o \in Owners \cup {NoOwner} : ReapAsk(o) \/ ReapAskFails(o)
  BY <1>5 DEF OtherMoves, ReapAsk, ReapAskFails
<1>6. CASE ReapStep \/ ReapCrash
  BY <1>6 DEF OtherMoves, ReapStep, ReapScan, ReapRemember, ReapFile, ReapDone, ReapCrash
<1>7. CASE UNCHANGED vars
  BY <1>7 DEF OtherMoves, vars
<1>. QED  BY <1>1, <1>2, <1>3, <1>4, <1>5, <1>6, <1>7 DEF Next

\* A row has a status of its own and an owner of its own.
LEMMA RowTyped ==
    ASSUME TypeOK
    PROVE  /\ row \in [Files -> RowType]
           /\ attach \in [Attachers -> AttachType]
           /\ cascade \in [Owners -> CascadeType]
BY DEF TypeOK, RowType, AttachType, CascadeType

\* Only a commit changes what is locked.
Signed(f) == row[f].status = "absent" /\ row'[f].status = "pending" /\ row'[f].owner = row[f].owner
Completed(f) ==
    /\ row[f].status = "pending" /\ row'[f].status = "uploaded"
    /\ row'[f].owner = row[f].owner /\ Free(f)
Tombstoned(f) ==
    /\ Live(f) /\ row'[f].owner = row[f].owner
    /\ \/ row'[f].status = "deleted"
       \/ row[f].status = "pending" /\ row'[f].status = "gone"
Moved(f, a) ==
    /\ f = attach[a].file
    /\ row'[f].status = row[f].status /\ row'[f].owner = attach[a].owner

LEMMA RowMoves ==
    ASSUME Inv, [Next]_vars
    PROVE  /\ row' \in [Files -> RowType]
           /\ \A f \in Files :
                 \/ row'[f] = row[f]
                 \/ Signed(f) \/ Completed(f)
                 \/ Tombstoned(f) /\ Free(f)
                 \/ \E a \in Attachers :
                       AttachCommit(a) /\ f \in attach[a].locked \ {attach[a].file} /\ Tombstoned(f)
                 \/ \E a \in Attachers : AttachCommit(a) /\ f \in attach[a].locked /\ Moved(f, a)
                 \/ \E o \in Owners : CascadeCommit(o) /\ f \in cascade[o].locked /\ Tombstoned(f)
<1>. DEFINE P(f) ==
              \/ row'[f] = row[f]
              \/ Signed(f) \/ Completed(f)
              \/ Tombstoned(f) /\ Free(f)
              \/ \E a \in Attachers :
                    AttachCommit(a) /\ f \in attach[a].locked \ {attach[a].file} /\ Tombstoned(f)
              \/ \E a \in Attachers : AttachCommit(a) /\ f \in attach[a].locked /\ Moved(f, a)
              \/ \E o \in Owners : CascadeCommit(o) /\ f \in cascade[o].locked /\ Tombstoned(f)
<1>. SUFFICES row' \in [Files -> RowType] /\ \A f \in Files : P(f)
  OBVIOUS
<1>0. row \in [Files -> RowType] /\ TypeOK
  BY RowTyped DEF Inv
<1>1. CASE row' = row
  BY <1>0, <1>1
<1>2. ASSUME NEW g \in Files, SignUpload(g) PROVE row' \in [Files -> RowType] /\ \A f \in Files : P(f)
  BY <1>0, <1>2 DEF SignUpload, RowType, Signed, Statuses
<1>3. ASSUME NEW g \in Files, CompleteUpload(g) PROVE row' \in [Files -> RowType] /\ \A f \in Files : P(f)
  BY <1>0, <1>3 DEF CompleteUpload, RowType, Completed, Statuses
<1>4. ASSUME NEW S \in SUBSET Files, SoftDelete(S), \A f \in S : Live(f) /\ Free(f)
      PROVE  row' \in [Files -> RowType] /\ \A f \in Files : P(f)
  BY <1>0, <1>4 DEF SoftDelete, RowType, Tombstoned, Statuses
<1>5. ASSUME NEW g \in Files, ReapPending(g) PROVE row' \in [Files -> RowType] /\ \A f \in Files : P(f)
  BY <1>0, <1>5 DEF ReapPending, RowType, Tombstoned, Statuses, Live
<1>6. ASSUME NEW a \in Attachers, AttachCommit(a)
      PROVE  row' \in [Files -> RowType] /\ \A f \in Files : P(f)
  <2>. DEFINE t == attach[a]
  <2>1. /\ t.file \in t.locked /\ t.owner \in Owners
        /\ \A f \in t.locked \ {t.file} : f \in FilesOf(t.owner)
    BY <1>6 DEF Inv, AttachOK, AttachCommit, Busy
  <2>2. row' = [f \in Files |->
                  [status |-> IF f \in t.locked \ {t.file} THEN "deleted" ELSE row[f].status,
                   owner |-> IF f = t.file THEN t.owner ELSE row[f].owner]]
    BY <1>6 DEF AttachCommit
  <2>. HIDE DEF t
  <2>3. row' \in [Files -> RowType]
    BY <1>0, <2>1, <2>2 DEF RowType, Statuses
  <2>. SUFFICES ASSUME NEW f \in Files PROVE P(f)
    BY <2>3
  <2>4. CASE f \in t.locked \ {t.file}
    BY <1>6, <2>1, <2>2, <2>4 DEF t, Tombstoned, FilesOf
  <2>5. CASE f = t.file
    BY <1>6, <2>1, <2>2, <2>5 DEF t, Moved
  <2>6. CASE f \notin t.locked /\ f # t.file
    BY <1>0, <2>2, <2>6 DEF RowType
  <2>. QED  BY <2>4, <2>5, <2>6
<1>7. ASSUME NEW o \in Owners, CascadeCommit(o)
      PROVE  row' \in [Files -> RowType] /\ \A f \in Files : P(f)
  <2>1. \A f \in cascade[o].locked : f \in FilesOf(o)
    BY DEF Inv, CascadeOK
  <2>2. \A f \in FilesOf(o) \ cascade[o].locked : Free(f)
    BY <1>7 DEF CascadeCommit
  <2>3. row' = [f \in Files |-> IF f \in FilesOf(o) THEN [row[f] EXCEPT !.status = "deleted"] ELSE row[f]]
    BY <1>7, <2>1 DEF CascadeCommit
  <2>4. row' \in [Files -> RowType]
    BY <1>0, <2>3 DEF RowType, Statuses
  <2>5. \A f \in FilesOf(o) : Tombstoned(f)
    BY <1>0, <2>3 DEF Tombstoned, FilesOf, RowType
  <2>. QED  BY <1>7, <2>2, <2>3, <2>4, <2>5
<1>8. ASSUME NEW a \in Attachers, AttachMoves(a) PROVE row' = row \/ AttachCommit(a)
  BY <1>8 DEF AttachMoves, AttachLoad, AttachLink, AttachScan, AttachLock, AttachFails
<1>9. ASSUME NEW o \in Owners, CascadeMoves(o) PROVE row' = row \/ CascadeCommit(o)
  BY <1>9 DEF CascadeMoves, OwnerDeleted, CascadeScan, CascadeLock, CascadeFails
<1>10. CASE OtherMoves
  <2>1. ASSUME NEW g \in Files, DeleteFile(g) PROVE row' \in [Files -> RowType] /\ \A f \in Files : P(f)
    <3>1. {g} \in SUBSET Files /\ SoftDelete({g}) /\ \A f \in {g} : Live(f) /\ Free(f)
      BY <2>1 DEF DeleteFile
    <3>. HIDE DEF P
    <3>. QED  BY <3>1, <1>4
  <2>2. CASE ReapFile
    <3>. DEFINE S == {reaper.file} \cap {f \in Files : Live(f)}
    <3>1. S \in SUBSET Files /\ SoftDelete(S) /\ \A f \in S : Live(f) /\ Free(f)
      BY <2>2 DEF ReapFile
    <3>. HIDE DEF P, S
    <3>. QED  BY <3>1, <1>4
  <2>3. CASE \E f \in Files : GrowOld(f)
    BY <1>1, <2>3 DEF GrowOld
  <2>4. CASE \/ \E o \in Owners \cup {NoOwner} : ReapAsk(o) \/ ReapAskFails(o)
             \/ ReapScan \/ ReapRemember \/ ReapDone \/ ReapCrash \/ UNCHANGED vars
    <3>1. row' = row
      BY <2>4 DEF ReapAsk, ReapAskFails, ReapScan, ReapRemember, ReapDone, ReapCrash, vars
    <3>. QED  BY <3>1, <1>1
  <2>. HIDE DEF P
  <2>. QED  BY <1>2, <1>3, <1>5, <1>10, <2>1, <2>2, <2>3, <2>4 DEF OtherMoves
<1>. HIDE DEF P
<1>. QED  BY <1>1, <1>6, <1>7, <1>8, <1>9, <1>10, Moves

\* What a request has locked stays as it is until the request ends.
LEMMA AttachKeeps ==
    ASSUME Inv, [Next]_vars, NEW a \in Attachers, ~AttachCommit(a), NEW f \in attach[a].locked
    PROVE  row'[f] = row[f]
<1>1. f \in Files
  BY RowTyped DEF Inv, AttachType
<1>2. ~Free(f)
  BY DEF Free
<1>3. row[f].status \notin {"absent"}
  <2>1. CASE f = attach[a].file
    BY <1>1, <2>1 DEF Inv, AttachOK, Busy
  <2>2. CASE f # attach[a].file
    BY <1>1, <2>2 DEF Inv, AttachOK, FilesOf, Live
  <2>. QED  BY <2>1, <2>2
<1>4. \A b \in Attachers : f \in attach[b].locked => b = a
  BY DEF Inv, LocksOK
<1>5. \A o \in Owners : f \notin cascade[o].locked
  BY DEF Inv, LocksOK
<1>. QED  BY <1>1, <1>2, <1>3, <1>4, <1>5, RowMoves DEF Signed, Completed

\* And what a cascade has locked.
LEMMA CascadeKeeps ==
    ASSUME Inv, [Next]_vars, NEW o \in Owners, ~CascadeCommit(o), NEW f \in cascade[o].locked
    PROVE  row'[f] = row[f]
<1>1. f \in Files /\ Live(f)
  BY RowTyped DEF Inv, CascadeOK, FilesOf
<1>2. ~Free(f)
  BY DEF Free
<1>3. \A p \in Owners : f \in cascade[p].locked => p = o
  BY DEF Inv, LocksOK
<1>4. \A a \in Attachers : f \notin attach[a].locked
  BY DEF Inv, LocksOK
<1>. QED  BY <1>1, <1>2, <1>3, <1>4, RowMoves DEF Signed, Completed, Live

\* Only the commit of an attach gives a file another owner.
LEMMA OwnerMoves ==
    ASSUME Inv, [Next]_vars, NEW f \in Files
    PROVE  \/ row'[f].owner = row[f].owner
           \/ \E a \in Attachers : /\ AttachCommit(a) /\ f = attach[a].file
                                   /\ row'[f].owner = attach[a].owner
                                   /\ row'[f].status = row[f].status
BY RowMoves DEF Signed, Completed, Tombstoned, Moved

\* An owner gains a file by such a commit only.
LEMMA FilesOfMoves ==
    ASSUME Inv, [Next]_vars, NEW o \in Owners, NEW f \in FilesOf(o)'
    PROVE  \/ f \in FilesOf(o) /\ row'[f].owner = row[f].owner
           \/ \E a \in Attachers : AttachCommit(a) /\ f = attach[a].file /\ o = attach[a].owner
<1>1. f \in Files /\ Live(f)' /\ row'[f].owner = o
  BY DEF FilesOf
<1>2. CASE row'[f].owner = row[f].owner
  <2>1. row[f].status # "absent"
    BY <1>1, <1>2 DEF Inv, AbsentOK
  <2>2. Live(f)
    BY <1>1, <1>2, <2>1, RowMoves DEF Live, Signed, Completed, Tombstoned, Moved
  <2>. QED  BY <1>1, <1>2, <2>2 DEF FilesOf
<1>. QED  BY <1>1, <1>2, OwnerMoves

LEMMA RacesGrow ==
    ASSUME [Next]_vars
    PROVE  races \subseteq races'
<1>1. ASSUME NEW a \in Attachers, AttachMoves(a) PROVE races \subseteq races'
  BY <1>1 DEF AttachMoves, AttachLoad, AttachLink, AttachScan, AttachLock, AttachCommit, AttachFails
<1>2. ASSUME NEW o \in Owners, CascadeMoves(o) PROVE races \subseteq races'
  BY <1>2 DEF CascadeMoves, OwnerDeleted, CascadeScan, CascadeLock, CascadeCommit, CascadeFails, Raced
<1>3. CASE OtherMoves
  BY <1>3 DEF OtherMoves, SignUpload, CompleteUpload, DeleteFile, ReapPending, GrowOld, ReapAsk,
              ReapAskFails, ReapScan, ReapRemember, ReapFile, ReapDone, ReapCrash, Raced, vars
<1>. QED  BY <1>1, <1>2, <1>3, Moves

\* A step of a request, with what becomes of its locals; and one of a cascade.
AttachEffect(a) ==
    \/ \E f \in Files, o \in Owners :
          AttachLoad(a, f, o) /\ AttachBecomes(a, "link", f, o, {}, {})
    \/ /\ AttachLink(a)
       /\ AttachBecomes(a, "scan", attach[a].file, attach[a].owner, attach[a].todo,
                        {attach[a].file})
    \/ /\ AttachScan(a)
       /\ AttachBecomes(a, "lock", attach[a].file, attach[a].owner,
                        FilesOf(attach[a].owner) \ {attach[a].file}, attach[a].locked)
    \/ \E f \in Files :
         /\ AttachLock(a, f)
         /\ AttachBecomes(a, "lock", attach[a].file, attach[a].owner, attach[a].todo \ {f},
               IF f \in FilesOf(attach[a].owner) THEN attach[a].locked \cup {f}
               ELSE attach[a].locked)
    \/ /\ AttachCommit(a) \/ AttachFails(a)
       /\ AttachBecomes(a, "done", NoFile, NoOwner, {}, {})

CascadeEffect(o) ==
    \/ OwnerDeleted(o) /\ CascadeBecomes(o, "event", cascade[o].todo, cascade[o].locked)
    \/ /\ CascadeScan(o)
       /\ CascadeBecomes(o, IF FilesOf(o) = {} THEN "done" ELSE "lock", FilesOf(o),
                         cascade[o].locked)
    \/ \E f \in Files :
         /\ CascadeLock(o, f)
         /\ CascadeBecomes(o, "lock", cascade[o].todo \ {f},
               IF f \in FilesOf(o) THEN cascade[o].locked \cup {f} ELSE cascade[o].locked)
    \/ /\ CascadeCommit(o) \/ CascadeFails(o)
       /\ CascadeBecomes(o, "done", {}, {})

LEMMA AttachSteps ==
    ASSUME Inv, [Next]_vars
    PROVE  \/ attach' = attach
           \/ \E a \in Attachers : AttachEffect(a) /\ UNCHANGED <<cascade, alive, reaper>>
<1>. SUFFICES ASSUME NEW a \in Attachers, AttachMoves(a)
     PROVE    AttachEffect(a)
  BY Moves
<1>. TypeOK
  BY DEF Inv
<1>1. CASE \E f \in Files, o \in Owners : AttachLoad(a, f, o)
  BY <1>1, AttachLoaded DEF AttachEffect
<1>2. CASE AttachLink(a)
  BY <1>2, AttachLinked DEF AttachEffect
<1>3. CASE AttachScan(a)
  BY <1>3, AttachScanned DEF AttachEffect
<1>4. CASE \E f \in Files : AttachLock(a, f)
  BY <1>4, AttachLocked DEF AttachEffect
<1>5. CASE AttachCommit(a) \/ AttachFails(a)
  BY <1>5, AttachEnded DEF AttachEffect
<1>. QED  BY <1>1, <1>2, <1>3, <1>4, <1>5 DEF AttachMoves

LEMMA CascadeSteps ==
    ASSUME Inv, [Next]_vars
    PROVE  \/ cascade' = cascade
           \/ \E o \in Owners : CascadeEffect(o) /\ UNCHANGED <<attach, reaper>>
<1>. SUFFICES ASSUME NEW o \in Owners, CascadeMoves(o)
     PROVE    cascade' = cascade \/ CascadeEffect(o)
  BY Moves
<1>. TypeOK
  BY DEF Inv
<1>1. CASE OwnerDeleted(o)
  BY <1>1, OwnerGone DEF CascadeEffect
<1>2. CASE CascadeScan(o)
  BY <1>2, CascadeScanned DEF CascadeEffect
<1>3. CASE \E f \in Files : CascadeLock(o, f)
  BY <1>3, CascadeLocked DEF CascadeEffect
<1>4. CASE CascadeCommit(o) \/ CascadeFails(o)
  BY <1>4, CascadeEnded DEF CascadeEffect
<1>. QED  BY <1>1, <1>2, <1>3, <1>4 DEF CascadeMoves

-----------------------------------------------------------------------------
(***************************************************************************)
(* The first part of the invariant, which no race disturbs.                *)
(***************************************************************************)
LEMMA AbsentStep ==
    ASSUME Inv, [Next]_vars
    PROVE  AbsentOK'
<1>. SUFFICES ASSUME NEW f \in Files, row'[f].status = "absent"
     PROVE    row'[f].owner = NoOwner
  BY DEF AbsentOK
<1>1. ASSUME NEW a \in Attachers, AttachCommit(a), f = attach[a].file
      PROVE  row[f].status # "absent"
  BY <1>1 DEF AttachCommit, Inv, AttachOK, Busy
<1>. QED  BY <1>1, RowMoves DEF Inv, AbsentOK, Signed, Completed, Tombstoned, Moved

LEMMA AttachStepOK ==
    ASSUME Inv, [Next]_vars
    PROVE  AttachOK'
<1>. DEFINE P(t) ==
              /\ t.pc \in {"idle", "done"} => t.file = NoFile /\ t.owner = NoOwner /\ t.locked = {}
              /\ Busy(t) => t.file \in Files /\ t.owner \in Owners
              /\ t.pc = "link" => t.locked = {}
              /\ t.pc \in {"scan", "lock"} => t.file \in t.locked
<1>1. \A a \in Attachers :
         /\ P(attach[a])
         /\ Busy(attach[a]) => row[attach[a].file].status # "absent"
         /\ \A f \in attach[a].locked \ {attach[a].file} : f \in FilesOf(attach[a].owner)
  BY DEF Inv, AttachOK
<1>2. \A a \in Attachers : P(attach'[a])
  <2>1. CASE attach' = attach
    BY <1>1, <2>1
  <2>2. ASSUME NEW a \in Attachers, AttachEffect(a) PROVE \A b \in Attachers : P(attach'[b])
    <3>1. \A b \in Attachers \ {a} : attach'[b] = attach[b]
      BY <2>2 DEF AttachEffect, AttachBecomes
    <3>2. P(attach'[a])
      <4>1. CASE \E f \in Files, o \in Owners :
                   AttachLoad(a, f, o) /\ AttachBecomes(a, "link", f, o, {}, {})
        BY <4>1 DEF AttachBecomes, Busy
      <4>2. CASE /\ AttachLink(a)
                 /\ AttachBecomes(a, "scan", attach[a].file, attach[a].owner, attach[a].todo,
                                  {attach[a].file})
        BY <1>1, <4>2 DEF AttachBecomes, Busy, AttachLink
      <4>3. CASE /\ AttachScan(a)
                 /\ AttachBecomes(a, "lock", attach[a].file, attach[a].owner,
                                  FilesOf(attach[a].owner) \ {attach[a].file}, attach[a].locked)
        BY <1>1, <4>3 DEF AttachBecomes, Busy, AttachScan
      <4>4. ASSUME NEW f \in Files, AttachLock(a, f),
                   AttachBecomes(a, "lock", attach[a].file, attach[a].owner, attach[a].todo \ {f},
                      IF f \in FilesOf(attach[a].owner) THEN attach[a].locked \cup {f}
                      ELSE attach[a].locked)
            PROVE  P(attach'[a])
        BY <1>1, <4>4 DEF AttachBecomes, Busy, AttachLock
      <4>5. CASE AttachBecomes(a, "done", NoFile, NoOwner, {}, {})
        BY <4>5 DEF AttachBecomes, Busy
      <4>. HIDE DEF P
      <4>. QED  BY <2>2, <4>1, <4>2, <4>3, <4>4, <4>5 DEF AttachEffect
    <3>. HIDE DEF P
    <3>. QED  BY <1>1, <3>1, <3>2
  <2>. HIDE DEF P
  <2>. QED  BY <2>1, <2>2, AttachSteps
<1>3. ASSUME NEW a \in Attachers, Busy(attach'[a])
      PROVE  row'[attach'[a].file].status # "absent"
  <2>1. /\ attach'[a].file \in Files
        /\ row[attach'[a].file].status # "absent"
    <3>1. attach'[a].file \in Files
      BY <1>2, <1>3
    <3>2. CASE Busy(attach[a]) /\ attach'[a].file = attach[a].file
      BY <1>1, <3>1, <3>2
    <3>3. CASE \E f \in Files, o \in Owners : AttachLoad(a, f, o) /\ attach'[a].file = f
      BY <3>1, <3>3 DEF AttachLoad, Live
    <3>4. \/ Busy(attach[a]) /\ attach'[a].file = attach[a].file
          \/ \E f \in Files, o \in Owners : AttachLoad(a, f, o) /\ attach'[a].file = f
      <4>1. attach' # attach => \E b \in Attachers : AttachEffect(b)
        BY AttachSteps
      <4>2. ASSUME NEW b \in Attachers, AttachEffect(b), b # a
            PROVE  attach'[a] = attach[a]
        BY <4>2 DEF AttachEffect, AttachBecomes
      <4>3. CASE attach'[a] = attach[a]
        BY <1>3, <4>3 DEF Busy
      <4>4. CASE AttachEffect(a)
        BY <1>3, <4>4 DEF AttachEffect, AttachBecomes, Busy, AttachLink, AttachScan, AttachLock
      <4>. QED  BY <4>1, <4>2, <4>3, <4>4
    <3>. QED  BY <3>2, <3>3, <3>4, <3>1
  <2>. QED  BY <2>1, RowMoves DEF Signed, Completed, Tombstoned, Moved
<1>4. ASSUME NEW a \in Attachers, NEW f \in attach'[a].locked, f # attach'[a].file
      PROVE  (f \in FilesOf(attach[a].owner))' 
  <2>1. /\ attach'[a].owner = attach[a].owner /\ attach'[a].file = attach[a].file
        /\ ~AttachCommit(a)
        /\ f \in attach[a].locked \/ (row' = row /\ f \in FilesOf(attach[a].owner))
    <3>1. CASE attach' = attach
      <4>1. f \in attach[a].locked
        BY <3>1
      <4>2. attach[a].pc # "done"
        BY <1>1, <4>1
      <4>3. ~AttachCommit(a)
        <5>. SUFFICES ASSUME AttachCommit(a) PROVE FALSE
          OBVIOUS
        <5>1. AttachBecomes(a, "done", NoFile, NoOwner, {}, {})
          BY AttachEnded DEF Inv
        <5>. QED  BY <3>1, <4>2, <5>1 DEF AttachBecomes
      <4>. QED  BY <3>1, <4>1, <4>3
    <3>2. ASSUME NEW b \in Attachers, AttachEffect(b), b # a
          PROVE  attach'[a] = attach[a]
      BY <3>2 DEF AttachEffect, AttachBecomes
    <3>3. ASSUME NEW b \in Attachers, AttachEffect(b), b # a
          PROVE  ~AttachCommit(a)
      <4>. SUFFICES ASSUME AttachCommit(a) PROVE FALSE
        OBVIOUS
      <4>1. AttachBecomes(a, "done", NoFile, NoOwner, {}, {})
        BY AttachEnded DEF Inv
      <4>. QED  BY <3>2, <3>3, <4>1 DEF AttachBecomes, AttachCommit
    <3>4. CASE AttachEffect(a)
      <4>1. CASE AttachLink(a)
        BY <1>4, <3>4, <4>1 DEF AttachEffect, AttachBecomes, AttachLink, AttachLoad, AttachScan, AttachLock, AttachCommit, AttachFails
      <4>2. CASE ~AttachLink(a)
        BY ZenonT(40), <1>4, <3>4, <4>2 DEF AttachEffect, AttachBecomes, AttachLoad, AttachScan, AttachLock, AttachCommit
      <4>. QED  BY <4>1, <4>2
    <3>. QED  BY <3>1, <3>2, <3>3, <3>4, AttachSteps
  <2>2. CASE f \in attach[a].locked
    <3>1. row'[f] = row[f]
      BY <2>1, <2>2, AttachKeeps
    <3>2. f \in FilesOf(attach[a].owner)
      BY <1>1, <1>4, <2>1, <2>2
    <3>. QED  BY <2>1, <3>1, <3>2 DEF FilesOf, Live
  <2>3. CASE row' = row /\ f \in FilesOf(attach[a].owner)
    BY <2>1, <2>3 DEF FilesOf, Live
  <2>. QED  BY <2>1, <2>2, <2>3
<1>. QED  BY <1>2, <1>3, <1>4 DEF AttachOK

LEMMA CascadeStepOK ==
    ASSUME Inv, [Next]_vars
    PROVE  CascadeOK'
<1>1. \A o \in Owners :
         /\ cascade[o].pc # "lock" => cascade[o].locked = {}
         /\ cascade[o].pc # "none" => o \notin alive
         /\ \A f \in cascade[o].locked : f \in FilesOf(o)
  BY DEF Inv, CascadeOK
<1>2. alive' \subseteq alive
  <2>1. ASSUME NEW o \in Owners, CascadeMoves(o) PROVE alive' \subseteq alive
    BY <2>1 DEF CascadeMoves, OwnerDeleted, CascadeScan, CascadeLock, CascadeCommit, CascadeFails
  <2>. QED  BY <2>1, Moves
<1>3. ASSUME NEW o \in Owners, CascadeEffect(o)
      PROVE  \A p \in Owners \ {o} : cascade'[p] = cascade[p]
  BY <1>3 DEF CascadeEffect, CascadeBecomes
<1>4. ASSUME NEW o \in Owners, CascadeEffect(o)
      PROVE  /\ cascade'[o].pc # "lock" => cascade'[o].locked = {}
             /\ o \notin alive'
  <2>1. CASE OwnerDeleted(o) /\ CascadeBecomes(o, "event", cascade[o].todo, cascade[o].locked)
    <3>1. cascade[o].pc = "none"
      BY <1>1, <2>1 DEF OwnerDeleted
    <3>. QED  BY <1>1, <2>1, <3>1 DEF CascadeBecomes, OwnerDeleted
  <2>2. CASE /\ CascadeScan(o)
             /\ CascadeBecomes(o, IF FilesOf(o) = {} THEN "done" ELSE "lock", FilesOf(o),
                               cascade[o].locked)
    BY <1>1, <1>2, <2>2 DEF CascadeBecomes, CascadeScan
  <2>3. ASSUME NEW f \in Files, CascadeLock(o, f),
               CascadeBecomes(o, "lock", cascade[o].todo \ {f},
                  IF f \in FilesOf(o) THEN cascade[o].locked \cup {f} ELSE cascade[o].locked)
        PROVE  /\ cascade'[o].pc # "lock" => cascade'[o].locked = {}
               /\ o \notin alive'
    BY <1>1, <1>2, <2>3 DEF CascadeBecomes, CascadeLock
  <2>4. CASE /\ CascadeCommit(o) \/ CascadeFails(o)
             /\ CascadeBecomes(o, "done", {}, {})
    BY <1>1, <1>2, <2>4 DEF CascadeBecomes, CascadeCommit, CascadeFails, Cascading
  <2>. QED  BY <1>4, <2>1, <2>2, <2>3, <2>4 DEF CascadeEffect
<1>5. ASSUME NEW o \in Owners, NEW f \in cascade'[o].locked
      PROVE  (f \in FilesOf(o))'
  <2>1. \/ f \in cascade[o].locked /\ ~CascadeCommit(o)
        \/ row' = row /\ f \in FilesOf(o)
    <3>1. ~CascadeCommit(o)
      <4>. SUFFICES ASSUME CascadeCommit(o) PROVE FALSE
        OBVIOUS
      <4>. QED  BY <1>5, CascadeEnded DEF Inv, CascadeBecomes
    <3>2. ASSUME NEW p \in Owners, CascadeEffect(p), p # o PROVE f \in cascade[o].locked
      BY <1>3, <1>5, <3>2
    <3>3. CASE CascadeEffect(o)
      BY ZenonT(40), <1>5, <3>1, <3>3 DEF CascadeEffect, CascadeBecomes, CascadeLock
    <3>. QED  BY <1>5, <3>1, <3>2, <3>3, CascadeSteps
  <2>2. CASE f \in cascade[o].locked /\ ~CascadeCommit(o)
    <3>1. row'[f] = row[f] /\ f \in FilesOf(o)
      BY <1>1, <2>2, CascadeKeeps
    <3>. QED  BY <3>1 DEF FilesOf, Live
  <2>. QED  BY <2>1, <2>2 DEF FilesOf, Live
<1>6. ASSUME NEW o \in Owners
      PROVE  /\ cascade'[o].pc # "lock" => cascade'[o].locked = {}
             /\ cascade'[o].pc # "none" => o \notin alive'
  <2>1. CASE cascade'[o] = cascade[o]
    BY <1>1, <1>2, <2>1
  <2>. QED  BY <1>3, <1>4, <2>1, CascadeSteps
<1>. QED  BY <1>5, <1>6 DEF CascadeOK

\* Locks are taken on free rows.
LEMMA LocksStepOK ==
    ASSUME Inv, [Next]_vars
    PROVE  LocksOK'
<1>1. LocksOK
  BY DEF Inv
<1>2. CASE attach' = attach /\ cascade' = cascade
  BY <1>1, <1>2 DEF LocksOK
<1>3. ASSUME NEW a \in Attachers, AttachEffect(a), cascade' = cascade
      PROVE  LocksOK'
  <2>1. \A b \in Attachers \ {a} : attach'[b] = attach[b]
    BY <1>3 DEF AttachEffect, AttachBecomes
  <2>2. \A f \in attach'[a].locked : f \in attach[a].locked \/ Free(f)
    BY ZenonT(40), <1>3 DEF AttachEffect, AttachBecomes, AttachLink, AttachLock
  <2>3. \A b \in Attachers \ {a} : attach'[a].locked \cap attach[b].locked = {}
    BY <1>1, <2>2 DEF LocksOK, Free
  <2>4. \A o \in Owners : attach'[a].locked \cap cascade[o].locked = {}
    BY <1>1, <2>2 DEF LocksOK, Free
  <2>5. \A b, c \in Attachers : b # c => attach'[b].locked \cap attach'[c].locked = {}
    BY <1>1, <2>1, <2>3 DEF LocksOK
  <2>6. \A b \in Attachers, o \in Owners : attach'[b].locked \cap cascade[o].locked = {}
    BY <1>1, <2>1, <2>4 DEF LocksOK
  <2>. QED  BY <1>1, <1>3, <2>5, <2>6 DEF LocksOK
<1>4. ASSUME NEW o \in Owners, CascadeEffect(o), attach' = attach
      PROVE  LocksOK'
  <2>1. \A p \in Owners \ {o} : cascade'[p] = cascade[p]
    BY <1>4 DEF CascadeEffect, CascadeBecomes
  <2>2. \A f \in cascade'[o].locked : f \in cascade[o].locked \/ Free(f)
    BY <1>4 DEF CascadeEffect, CascadeBecomes, CascadeLock
  <2>3. \A p \in Owners \ {o} : cascade'[o].locked \cap cascade[p].locked = {}
    BY <1>1, <2>2 DEF LocksOK, Free
  <2>4. \A a \in Attachers : attach[a].locked \cap cascade'[o].locked = {}
    BY <1>1, <2>2 DEF LocksOK, Free
  <2>5. \A p, q \in Owners : p # q => cascade'[p].locked \cap cascade'[q].locked = {}
    BY <1>1, <2>1, <2>3 DEF LocksOK
  <2>6. \A a \in Attachers, p \in Owners : attach[a].locked \cap cascade'[p].locked = {}
    BY <1>1, <2>1, <2>4 DEF LocksOK
  <2>. QED  BY <1>1, <1>4, <2>5, <2>6 DEF LocksOK
<1>. QED  BY <1>2, <1>3, <1>4, AttachSteps, CascadeSteps

LEMMA ChargedStepOK ==
    ASSUME Inv, [Next]_vars
    PROVE  charged' \subseteq {f \in Files : row'[f].status \in {"uploaded", "deleted"}}
<1>1. charged \subseteq {f \in Files : row[f].status \in {"uploaded", "deleted"}}
  BY DEF Inv, TypeOK
<1>2. \A f \in Files : row[f].status \in {"uploaded", "deleted"}
                         => row'[f].status \in {"uploaded", "deleted"}
  BY RowMoves DEF Signed, Completed, Tombstoned, Moved
<1>3. CASE charged' \subseteq charged
  BY <1>1, <1>2, <1>3
<1>4. ASSUME NEW f \in Files, CompleteUpload(f)
      PROVE  charged' \subseteq {g \in Files : row'[g].status \in {"uploaded", "deleted"}}
  <2>1. row'[f].status = "uploaded" /\ charged' = charged \cup {f}
    BY <1>4, RowTyped DEF CompleteUpload, RowType, Inv
  <2>. QED  BY <1>1, <1>2, <2>1
<1>5. ASSUME NEW a \in Attachers, AttachMoves(a) PROVE charged' \subseteq charged
  BY <1>5 DEF AttachMoves, AttachLoad, AttachLink, AttachScan, AttachLock, AttachCommit, AttachFails
<1>6. ASSUME NEW o \in Owners, CascadeMoves(o) PROVE charged' \subseteq charged
  BY <1>6 DEF CascadeMoves, OwnerDeleted, CascadeScan, CascadeLock, CascadeCommit, CascadeFails
<1>7. CASE OtherMoves
  <2>1. ASSUME NEW f \in Files, SignUpload(f) \/ DeleteFile(f) \/ ReapPending(f) \/ GrowOld(f)
        PROVE  charged' \subseteq charged
    BY <2>1 DEF SignUpload, DeleteFile, ReapPending, GrowOld, SoftDelete
  <2>2. ASSUME NEW o \in Owners \cup {NoOwner}, ReapAsk(o) \/ ReapAskFails(o)
        PROVE  charged' \subseteq charged
    BY <2>2 DEF ReapAsk, ReapAskFails
  <2>3. ASSUME ReapScan \/ ReapRemember \/ ReapFile \/ ReapDone \/ ReapCrash \/ UNCHANGED vars
        PROVE  charged' \subseteq charged
    BY <2>3 DEF ReapScan, ReapRemember, ReapFile, ReapDone, ReapCrash, SoftDelete, vars
  <2>. QED  BY <1>3, <1>4, <1>7, <2>1, <2>2, <2>3 DEF OtherMoves
<1>. QED  BY <1>3, <1>4, <1>5, <1>6, <1>7, Moves

LEMMA OldStepOK ==
    ASSUME Inv, [Next]_vars
    PROVE  /\ old' \in Seq(Files)
           /\ \A i, j \in DOMAIN old' : old'[i] \in Files /\ (old'[i] = old'[j] => i = j)
<1>1. old \in Seq(Files) /\ \A i, j \in DOMAIN old : old[i] = old[j] => i = j
  BY DEF Inv, TypeOK
<1>2. CASE old' = old
  BY <1>1, <1>2
<1>3. ASSUME NEW f \in Files, GrowOld(f)
      PROVE  /\ old' \in Seq(Files)
             /\ \A i, j \in DOMAIN old' : old'[i] \in Files /\ (old'[i] = old'[j] => i = j)
  <2>1. old' = Append(old, f)
    BY <1>3 DEF GrowOld
  <2>2. \A i \in 1..Len(old) : old[i] # f
    BY <1>1, <1>3 DEF GrowOld, Contains
  <2>3. /\ Len(old) \in Nat /\ DOMAIN old = 1..Len(old)
        /\ old' \in Seq(Files) /\ DOMAIN old' = 1..(Len(old) + 1)
        /\ \A i \in 1..Len(old) : old'[i] = old[i]
        /\ old'[Len(old) + 1] = f
    BY <1>1, <2>1
  <2>. QED  BY <1>1, <2>2, <2>3
<1>4. ASSUME NEW a \in Attachers, AttachMoves(a) PROVE old' = old
  BY <1>4 DEF AttachMoves, AttachLoad, AttachLink, AttachScan, AttachLock, AttachCommit, AttachFails
<1>5. ASSUME NEW o \in Owners, CascadeMoves(o) PROVE old' = old
  BY <1>5 DEF CascadeMoves, OwnerDeleted, CascadeScan, CascadeLock, CascadeCommit, CascadeFails
<1>6. CASE OtherMoves
  <2>1. ASSUME NEW f \in Files, SignUpload(f) \/ CompleteUpload(f) \/ DeleteFile(f) \/ ReapPending(f)
        PROVE  old' = old
    BY <2>1 DEF SignUpload, CompleteUpload, DeleteFile, ReapPending
  <2>2. ASSUME NEW o \in Owners \cup {NoOwner}, ReapAsk(o) \/ ReapAskFails(o)
        PROVE  old' = old
    BY <2>2 DEF ReapAsk, ReapAskFails
  <2>3. ASSUME ReapScan \/ ReapRemember \/ ReapFile \/ ReapDone \/ ReapCrash \/ UNCHANGED vars
        PROVE  old' = old
    BY <2>3 DEF ReapScan, ReapRemember, ReapFile, ReapDone, ReapCrash, vars
  <2>. QED  BY <1>2, <1>3, <1>6, <2>1, <2>2, <2>3 DEF OtherMoves
<1>. QED  BY <1>2, <1>3, <1>4, <1>5, <1>6, Moves

\* The run of the reaper: what it finds, and what it makes of a candidate.
ReaperType == [pc : {"idle", "next", "reap"}, file : Files \cup {NoFile},
               todo : SUBSET [file : Files, owner : Owners \cup {NoOwner}],
               gone : SUBSET (Owners \cup {NoOwner}), kept : SUBSET (Owners \cup {NoOwner})]

LEMMA CandidatesAre ==
    ASSUME Inv, ReapScan, NEW c \in reaper'.todo
    PROVE  /\ c \in [file : Files, owner : Owners \cup {NoOwner}]
           /\ c.owner = row[c.file].owner /\ c.owner # NoOwner
<1>. DEFINE Attached == {f \in Files : Live(f) /\ row[f].owner # NoOwner}
<1>1. row \in [Files -> RowType] /\ old \in Seq(Files) /\ reaper \in ReaperType
  BY RowTyped DEF Inv, TypeOK, ReaperType
<1>2. reaper'.todo = Candidates(Attached)
  BY <1>1 DEF ReapScan, ReaperType
<1>3. PICK i \in DOMAIN old : old[i] \in Attached /\ c = [file |-> old[i], owner |-> row[old[i]].owner]
  BY <1>2 DEF Candidates
<1>4. old[i] \in Files
  BY <1>1
<1>5. row[old[i]].owner \in Owners \cup {NoOwner}
  BY <1>1, <1>4 DEF RowType
<1>. QED  BY <1>3, <1>4, <1>5

\* A step of the reaper is one of these.
ReaperEffect ==
    \/ /\ reaper.pc = "idle"
       /\ reaper'.pc = "next" /\ reaper'.file = reaper.file
       /\ reaper'.gone = reaper.gone /\ reaper'.kept = reaper.kept
       /\ \A c \in reaper'.todo : c.owner = row[c.file].owner /\ c.owner # NoOwner
       /\ Raced("reaper", \E a \in Attachers : attach[a].pc \notin {"idle", "done"})
    \/ \E c \in reaper.todo :
          /\ races' = races
          /\ \/ reaper'.pc = "next" /\ reaper'.file = NoFile /\ reaper'.gone = reaper.gone
             \/ /\ reaper'.pc = "reap" /\ reaper'.file = c.file
                /\ reaper'.gone = reaper.gone \cup {c.owner} /\ c.owner \notin alive
             \/ /\ reaper'.pc = "reap" /\ reaper'.file = c.file
                /\ reaper'.gone = reaper.gone /\ c.owner \in reaper.gone
          /\ reaper'.todo = reaper.todo \ {c} /\ reaper.pc = "next"
    \/ /\ ReapFile /\ reaper'.pc = "next" /\ reaper'.file = NoFile
       /\ reaper'.todo = reaper.todo /\ reaper'.gone = reaper.gone
    \/ reaper'.pc = "idle" /\ reaper'.file = NoFile /\ reaper'.todo = {} /\ reaper'.gone = {}

LEMMA ReaperSteps ==
    ASSUME Inv, [Next]_vars
    PROVE  /\ reaper' \in ReaperType
           /\ \/ reaper' = reaper
              \/ ReaperEffect /\ UNCHANGED <<attach, cascade, alive>>
<1>1. reaper \in ReaperType /\ TypeOK
  BY DEF Inv, TypeOK, ReaperType
<1>2. CASE ReapScan
  <2>1. PICK found : reaper' = [reaper EXCEPT !.pc = "next", !.todo = found]
    BY <1>2 DEF ReapScan
  <2>2. /\ reaper'.pc = "next" /\ reaper'.file = reaper.file
        /\ reaper'.gone = reaper.gone /\ reaper'.kept = reaper.kept
        /\ reaper'.todo = found
    BY <1>1, <2>1 DEF ReaperType
  <2>3. \A c \in found : /\ c \in [file : Files, owner : Owners \cup {NoOwner}]
                         /\ c.owner = row[c.file].owner /\ c.owner # NoOwner
    BY <1>2, <2>2, CandidatesAre
  <2>4. reaper' \in ReaperType
    BY <1>1, <2>1, <2>3 DEF ReaperType
  <2>5. /\ reaper.pc = "idle" /\ UNCHANGED <<attach, cascade, alive>>
        /\ Raced("reaper", \E a \in Attachers : attach[a].pc \notin {"idle", "done"})
    BY <1>2 DEF ReapScan
  <2>. QED  BY <2>2, <2>3, <2>4, <2>5 DEF ReaperEffect
<1>3. ASSUME NEW c \in reaper.todo, NEW e \in BOOLEAN, Decide(c, e)
      PROVE  /\ reaper' \in ReaperType
             /\ reaper'.todo = reaper.todo \ {c}
             /\ e => reaper'.pc = "next" /\ reaper'.file = NoFile /\ reaper'.gone = reaper.gone
             /\ ~e => /\ reaper'.pc = "reap" /\ reaper'.file = c.file
                      /\ reaper'.gone = reaper.gone \cup {c.owner}
  <2>1. c.file \in Files /\ c.owner \in Owners \cup {NoOwner}
    BY <1>1 DEF ReaperType
  <2>2. CASE e
    BY <1>1, <1>3, <2>1, <2>2 DEF Decide, ReaperType
  <2>3. CASE ~e
    BY <1>1, <1>3, <2>1, <2>3 DEF Decide, ReaperType
  <2>. QED  BY <2>2, <2>3
<1>4. ASSUME NEW o \in Owners \cup {NoOwner}, ReapAsk(o) \/ ReapAskFails(o)
      PROVE  reaper' \in ReaperType /\ ReaperEffect /\ UNCHANGED <<attach, cascade, alive>>
  <2>1. CASE ReapAsk(o)
    <3>1. PICK c \in reaper.todo : c.owner = o /\ Decide(c, o \in alive)
      BY <2>1 DEF ReapAsk
    <3>. HIDE DEF Decide
    <3>2. CASE o \in alive
      <4>1. Decide(c, TRUE)
        BY <3>1, <3>2 DEF Decide
      <4>. QED  BY <1>3, <2>1, <4>1 DEF ReapAsk, ReaperEffect
    <3>3. CASE o \notin alive
      <4>1. Decide(c, FALSE)
        BY <3>1, <3>3 DEF Decide
      <4>. QED  BY <1>3, <2>1, <3>1, <3>3, <4>1 DEF ReapAsk, ReaperEffect
    <3>. QED  BY <3>2, <3>3
  <2>2. CASE ReapAskFails(o)
    <3>1. PICK c \in reaper.todo : Decide(c, TRUE)
      BY <2>2 DEF ReapAskFails
    <3>. QED  BY <1>3, <2>2, <3>1 DEF ReapAskFails, ReaperEffect
  <2>. QED  BY <1>4, <2>1, <2>2
<1>5. CASE ReapRemember
  <2>1. PICK c \in reaper.todo :
            c.owner \in reaper.gone \cup reaper.kept /\ Decide(c, c.owner \in reaper.kept)
    BY <1>5 DEF ReapRemember
  <2>2. CASE c.owner \in reaper.kept
    <3>1. Decide(c, TRUE)
      BY <2>1, <2>2 DEF Decide
    <3>. QED  BY <1>3, <1>5, <3>1 DEF ReapRemember, ReaperEffect
  <2>3. CASE c.owner \notin reaper.kept
    <3>1. Decide(c, FALSE) /\ c.owner \in reaper.gone
      BY <2>1, <2>3 DEF Decide
    <3>2. reaper.gone \cup {c.owner} = reaper.gone
      BY <3>1
    <3>. QED  BY <1>3, <1>5, <3>1, <3>2 DEF ReapRemember, ReaperEffect
  <2>. QED  BY <2>2, <2>3
<1>6. CASE ReapFile
  <2>1. reaper' = [reaper EXCEPT !.pc = "next", !.file = NoFile]
    BY <1>6 DEF ReapFile
  <2>2. /\ reaper' \in ReaperType
        /\ reaper'.pc = "next" /\ reaper'.file = NoFile
        /\ reaper'.todo = reaper.todo /\ reaper'.gone = reaper.gone
    BY <1>1, <2>1 DEF ReaperType
  <2>. QED  BY <1>6, <2>2 DEF ReaperEffect, ReapFile
<1>7. CASE ReapDone \/ ReapCrash
  <2>1. /\ reaper' = [pc |-> "idle", todo |-> {}, file |-> NoFile, gone |-> {}, kept |-> {}]
        /\ UNCHANGED <<attach, cascade, alive>>
    BY <1>7 DEF ReapDone, ReapCrash, IdleReaper
  <2>2. reaper' \in ReaperType
    BY <2>1 DEF ReaperType
  <2>. QED  BY <2>1, <2>2 DEF ReaperEffect
<1>8. CASE reaper' = reaper
  BY <1>1, <1>8
<1>9. CASE OtherMoves
  <2>1. ASSUME NEW f \in Files,
               SignUpload(f) \/ CompleteUpload(f) \/ DeleteFile(f) \/ ReapPending(f) \/ GrowOld(f)
        PROVE  reaper' = reaper
    BY <2>1 DEF SignUpload, CompleteUpload, DeleteFile, ReapPending, GrowOld
  <2>2. ASSUME UNCHANGED vars PROVE reaper' = reaper
    BY <2>2 DEF vars
  <2>. QED  BY <1>2, <1>4, <1>5, <1>6, <1>7, <1>8, <1>9, <2>1, <2>2 DEF OtherMoves
<1>. QED  BY <1>8, <1>9, Moves

LEMMA TypeStepOK ==
    ASSUME Inv, [Next]_vars
    PROVE  TypeOK' /\ old' \in Seq(Files)
<1>1. row' \in [Files -> RowType]
  BY RowMoves
<1>2. attach' \in [Attachers -> AttachType]
  BY AttachSteps, RowTyped DEF Inv, AttachEffect, AttachBecomes
<1>3. cascade' \in [Owners -> CascadeType]
  BY CascadeSteps, RowTyped DEF Inv, CascadeEffect, CascadeBecomes
<1>4. alive' \subseteq Owners
  <2>1. alive \subseteq Owners
    BY DEF Inv, TypeOK
  <2>2. ASSUME NEW o \in Owners, CascadeMoves(o) PROVE alive' \subseteq alive
    BY <2>2 DEF CascadeMoves, OwnerDeleted, CascadeScan, CascadeLock, CascadeCommit, CascadeFails
  <2>. QED  BY <2>1, <2>2, Moves
<1>5. races' \subseteq Races
  <2>1. races \subseteq Races
    BY DEF Inv, TypeOK
  <2>2. ASSUME NEW a \in Attachers, AttachMoves(a) PROVE races' \subseteq Races
    BY <2>1, <2>2 DEF AttachMoves, AttachLoad, AttachLink, AttachScan, AttachLock, AttachCommit,
                      AttachFails, AttachRaces, Races
  <2>3. ASSUME NEW o \in Owners, CascadeMoves(o) PROVE races' \subseteq Races
    BY <2>1, <2>3 DEF CascadeMoves, OwnerDeleted, CascadeScan, CascadeLock, CascadeCommit,
                      CascadeFails, Raced, Races
  <2>4. CASE OtherMoves
    <3>1. ASSUME NEW f \in Files,
                 SignUpload(f) \/ CompleteUpload(f) \/ DeleteFile(f) \/ ReapPending(f) \/ GrowOld(f)
          PROVE  races' \subseteq Races
      BY <2>1, <3>1 DEF SignUpload, CompleteUpload, DeleteFile, ReapPending, GrowOld, Raced, Races
    <3>2. CASE \E o \in Owners \cup {NoOwner} : ReapAsk(o) \/ ReapAskFails(o)
      BY <2>1, <3>2 DEF ReapAsk, ReapAskFails
    <3>3. CASE ReapScan \/ ReapRemember \/ ReapFile \/ ReapDone \/ ReapCrash \/ UNCHANGED vars
      BY <2>1, <3>3 DEF ReapScan, ReapRemember, ReapFile, ReapDone, ReapCrash, Raced, Races, vars
    <3>. QED  BY <2>4, <3>1, <3>2, <3>3 DEF OtherMoves
  <2>. QED  BY <2>2, <2>3, <2>4, Moves
<1>. QED  BY <1>1, <1>2, <1>3, <1>4, <1>5, ChargedStepOK, OldStepOK, ReaperSteps
          DEF TypeOK, RowType, AttachType, CascadeType, ReaperType

LEMMA ReaperStepOK ==
    ASSUME Inv, [Next]_vars
    PROVE  ReaperOK'
<1>1. \A f \in Files : row[f].owner # NoOwner => row'[f].owner # NoOwner
  <2>1. \A a \in Attachers : AttachCommit(a) => attach[a].owner \in Owners
    BY DEF AttachCommit, Inv, AttachOK, Busy
  <2>. QED  BY <2>1, OwnerMoves
<1>2. ReaperOK /\ reaper \in ReaperType
  BY DEF Inv, TypeOK, ReaperType
<1>3. alive' \subseteq alive
  <2>1. ASSUME NEW o \in Owners, CascadeMoves(o) PROVE alive' \subseteq alive
    BY <2>1 DEF CascadeMoves, OwnerDeleted, CascadeScan, CascadeLock, CascadeCommit, CascadeFails
  <2>. QED  BY <2>1, Moves
<1>4. /\ \A c \in reaper'.todo : row[c.file].owner # NoOwner
      /\ reaper'.pc = "reap" => reaper'.file \in Files /\ row[reaper'.file].owner # NoOwner
      /\ reaper'.pc # "reap" => reaper'.file = NoFile
      /\ reaper'.gone \cap alive = {}
  <2>1. CASE reaper' = reaper
    BY <1>2, <2>1 DEF ReaperOK
  <2>2. CASE ReaperEffect
    <3>1. \A c \in reaper.todo : c.file \in Files
      BY <1>2 DEF ReaperType
    <3>2. CASE \A c \in reaper'.todo : c.owner = row[c.file].owner /\ c.owner # NoOwner
      BY <1>2, <2>2, <3>1, <3>2 DEF ReaperOK, ReaperEffect
    <3>3. CASE ~\A c \in reaper'.todo : c.owner = row[c.file].owner /\ c.owner # NoOwner
      BY <1>2, <2>2, <3>1, <3>3 DEF ReaperOK, ReaperEffect
    <3>. QED  BY <3>2, <3>3
  <2>. QED  BY <2>1, <2>2, ReaperSteps
<1>5. \A c \in reaper'.todo : c.file \in Files
  BY ReaperSteps DEF ReaperType
<1>. QED  BY <1>1, <1>3, <1>4, <1>5 DEF ReaperOK

-----------------------------------------------------------------------------
(***************************************************************************)
(* The second part: what holds as long as its race has not happened.       *)
(***************************************************************************)
\* A request under way has been so, with the same file and owner, or has just loaded.
LEMMA BusyBefore ==
    ASSUME Inv, [Next]_vars, NEW a \in Attachers, Busy(attach'[a])
    PROVE  /\ ~AttachCommit(a)
           /\ \/ /\ Busy(attach[a])
                 /\ attach'[a].file = attach[a].file /\ attach'[a].owner = attach[a].owner
              \/ /\ AttachLoad(a, attach'[a].file, attach'[a].owner)
                 /\ \A b \in Attachers \ {a} : attach'[b] = attach[b]
                 /\ attach'[a].file \in Files /\ attach'[a].owner \in Owners
                 /\ attach'[a].pc = "link"
<1>1. ~AttachCommit(a)
  <2>. SUFFICES ASSUME AttachCommit(a) PROVE FALSE
    OBVIOUS
  <2>. QED  BY AttachEnded DEF Inv, AttachBecomes, Busy
<1>2. ASSUME NEW b \in Attachers, AttachEffect(b), b # a PROVE attach'[a] = attach[a]
  BY <1>2 DEF AttachEffect, AttachBecomes
<1>3. CASE \E f \in Files, o \in Owners :
             AttachLoad(a, f, o) /\ AttachBecomes(a, "link", f, o, {}, {})
  <2>. PICK f \in Files, o \in Owners : AttachLoad(a, f, o) /\ AttachBecomes(a, "link", f, o, {}, {})
    BY <1>3
  <2>1. /\ attach'[a].file = f /\ attach'[a].owner = o /\ attach'[a].pc = "link"
        /\ \A b \in Attachers \ {a} : attach'[b] = attach[b]
    BY DEF AttachBecomes
  <2>. QED  BY <1>1, <2>1
<1>4. CASE /\ AttachEffect(a)
           /\ ~\E f \in Files, o \in Owners :
                 AttachLoad(a, f, o) /\ AttachBecomes(a, "link", f, o, {}, {})
  BY <1>1, <1>4 DEF AttachEffect, AttachBecomes, Busy, AttachLink, AttachScan, AttachLock
<1>. QED  BY <1>1, <1>2, <1>3, <1>4, AttachSteps

LEMMA OneAttachStep ==
    ASSUME Inv, [Next]_vars
    PROVE  OneAttach'
<1>. SUFFICES ASSUME "attach" \notin races'
     PROVE    /\ \A a, b \in Attachers : a # b /\ Busy(attach'[a]) /\ Busy(attach'[b]) =>
                   attach'[a].owner # attach'[b].owner /\ attach'[a].file # attach'[b].file
              /\ \A a \in Attachers : attach'[a].pc = "lock" =>
                   (FilesOf(attach[a].owner) \ {attach[a].file} \subseteq attach[a].todo \cup attach[a].locked)'
              /\ \A o \in Owners : \A f, g \in FilesOf(o)' : f = g
  BY DEF OneAttach, Busy
<1>1. /\ \A a, b \in Attachers : a # b /\ Busy(attach[a]) /\ Busy(attach[b]) =>
            attach[a].owner # attach[b].owner /\ attach[a].file # attach[b].file
      /\ \A a \in Attachers : attach[a].pc = "lock" =>
            FilesOf(attach[a].owner) \ {attach[a].file} \subseteq attach[a].todo \cup attach[a].locked
      /\ \A o \in Owners : \A f, g \in FilesOf(o) : f = g
  BY RacesGrow DEF Inv, OneAttach
<1>2. \A a \in Attachers : attach[a].pc \in {"idle", "done"} =>
          attach[a].file = NoFile /\ attach[a].owner = NoOwner
  BY DEF Inv, AttachOK
<1>3. ASSUME NEW a \in Attachers, NEW f \in Files, NEW o \in Owners, AttachLoad(a, f, o)
      PROVE  \A b \in Attachers : attach[b].owner # o /\ attach[b].file # f
  BY <1>3 DEF AttachLoad, AttachRaces, AttachingTo, Attaching
<1>4. \A a, b \in Attachers : a # b /\ Busy(attach'[a]) /\ Busy(attach'[b]) =>
          attach'[a].owner # attach'[b].owner /\ attach'[a].file # attach'[b].file
  BY <1>1, <1>3, BusyBefore
<1>5. ASSUME NEW a \in Attachers, attach'[a].pc = "lock"
      PROVE  (FilesOf(attach[a].owner) \ {attach[a].file} \subseteq attach[a].todo \cup attach[a].locked)'
  <2>1. /\ Busy(attach[a]) /\ ~AttachCommit(a)
        /\ attach'[a].file = attach[a].file /\ attach'[a].owner = attach[a].owner
        /\ attach[a].owner \in Owners
    BY <1>5, BusyBefore DEF Busy, Inv, AttachOK
  <2>2. ASSUME NEW f \in FilesOf(attach[a].owner)' PROVE f \in FilesOf(attach[a].owner)
    <3>1. \A b \in Attachers : AttachCommit(b) /\ b # a => attach[b].owner # attach[a].owner
      BY <1>1, <2>1 DEF AttachCommit, Busy
    <3>. QED  BY <2>1, <2>2, <3>1, FilesOfMoves
  <2>3. ASSUME NEW f \in FilesOf(attach[a].owner), f # attach[a].file
        PROVE  f \in attach'[a].todo \cup attach'[a].locked
    <3>1. CASE attach'[a] = attach[a]
      BY <1>1, <1>5, <2>3, <3>1
    <3>2. CASE AttachEffect(a)
      BY <1>1, <1>5, <2>1, <2>3, <3>2 DEF AttachEffect, AttachBecomes, AttachLock
    <3>3. ASSUME NEW b \in Attachers, AttachEffect(b), b # a PROVE attach'[a] = attach[a]
      BY <3>3 DEF AttachEffect, AttachBecomes
    <3>. QED  BY <3>1, <3>2, <3>3, AttachSteps
  <2>4. \A f \in (FilesOf(attach[a].owner) \ {attach[a].file})' : f \in attach'[a].todo \cup attach'[a].locked
    BY <2>1, <2>2, <2>3 DEF FilesOf
  <2>. QED  BY <2>4
<1>6. ASSUME NEW o \in Owners, NEW f \in FilesOf(o)', NEW g \in FilesOf(o)'
      PROVE  f = g
  <2>1. CASE f \in FilesOf(o) /\ g \in FilesOf(o)
    BY <1>1, <2>1
  <2>2. CASE \E a \in Attachers : AttachCommit(a) /\ o = attach[a].owner
    <3>1. PICK a \in Attachers : AttachCommit(a) /\ o = attach[a].owner
      BY <2>2
    <3>2. \A h \in FilesOf(o)' : h = attach[a].file
      <4>. SUFFICES ASSUME NEW h \in FilesOf(o)', h # attach[a].file PROVE FALSE
        OBVIOUS
      <4>1. \A b \in Attachers : AttachCommit(b) /\ o = attach[b].owner => b = a
        BY <1>1, <3>1 DEF AttachCommit, Busy
      <4>2. h \in FilesOf(o)
        BY <3>1, <4>1, FilesOfMoves
      <4>3. h \in attach[a].locked
        BY <1>1, <3>1, <4>2 DEF AttachCommit
      <4>4. h \in Files /\ row'[h].status = "deleted"
        BY <3>1, <4>2, <4>3 DEF AttachCommit, FilesOf
      <4>. QED  BY <4>4 DEF FilesOf, Live
    <3>. QED  BY <3>2
  <2>. QED  BY <2>1, <2>2, FilesOfMoves
<1>. QED  BY <1>4, <1>5, <1>6

LEMMA AloneReaperStep ==
    ASSUME Inv, [Next]_vars
    PROVE  AloneReaper'
<1>. SUFFICES ASSUME "reaper" \notin races', reaper'.pc # "idle"
     PROVE    /\ \A a \in Attachers : ~Busy(attach'[a])
              /\ \A c \in reaper'.todo : row'[c.file].owner = c.owner
              /\ reaper'.pc = "reap" => row'[reaper'.file].owner \in reaper'.gone
  BY DEF AloneReaper, Busy
<1>1. "reaper" \notin races
  BY RacesGrow
<1>2. reaper \in ReaperType /\ reaper' \in ReaperType
  BY ReaperSteps DEF Inv, TypeOK, ReaperType
<1>3. ASSUME reaper.pc # "idle"
      PROVE  /\ \A a \in Attachers : ~Busy(attach'[a])
             /\ \A f \in Files : row'[f].owner = row[f].owner
  <2>1. \A a \in Attachers : ~Busy(attach[a])
    BY <1>1, <1>3 DEF Inv, AloneReaper
  <2>2. ~\E a \in Attachers, f \in Files, o \in Owners : AttachLoad(a, f, o)
    BY <1>3 DEF AttachLoad, AttachRaces
  <2>3. \A a \in Attachers : ~Busy(attach'[a])
    BY <2>1, <2>2, BusyBefore
  <2>4. \A a \in Attachers : ~AttachCommit(a)
    BY <2>1 DEF AttachCommit, Busy
  <2>. QED  BY <2>3, <2>4, OwnerMoves
<1>4. CASE reaper' = reaper
  <2>1. /\ \A c \in reaper.todo : row[c.file].owner = c.owner /\ c.file \in Files
        /\ reaper.pc = "reap" => row[reaper.file].owner \in reaper.gone /\ reaper.file \in Files
    BY <1>1, <1>2, <1>4 DEF Inv, AloneReaper, ReaperOK, ReaperType
  <2>. QED  BY <1>3, <1>4, <2>1
<1>5. CASE ReaperEffect /\ UNCHANGED attach /\ reaper.pc = "idle"
  <2>1. /\ \A c \in reaper'.todo : c.owner = row[c.file].owner /\ c.file \in Files
        /\ \A a \in Attachers : ~Busy(attach[a])
        /\ reaper'.pc = "next"
    BY <1>2, <1>5 DEF ReaperEffect, ReapFile, Raced, Busy, ReaperType
  <2>2. \A f \in Files : row'[f].owner = row[f].owner
    BY <2>1, OwnerMoves DEF AttachCommit, Busy
  <2>. QED  BY <1>5, <2>1, <2>2
<1>6. CASE ReaperEffect /\ reaper.pc # "idle"
  <2>1. \A c \in reaper.todo : row[c.file].owner = c.owner /\ c.file \in Files
    BY <1>1, <1>2, <1>6 DEF Inv, AloneReaper, ReaperType
  <2>2. /\ \A c \in reaper'.todo : row[c.file].owner = c.owner /\ c.file \in Files
        /\ reaper'.pc = "reap" => row[reaper'.file].owner \in reaper'.gone /\ reaper'.file \in Files
    BY <1>6, <2>1 DEF ReaperEffect
  <2>. QED  BY <1>3, <1>6, <2>2
<1>. QED  BY <1>4, <1>5, <1>6, ReaperSteps

LEMMA AloneCascadeStep ==
    ASSUME Inv, [Next]_vars
    PROVE  AloneCascade'
<1>. SUFFICES ASSUME "cascade" \notin races'
     PROVE    /\ \A o \in Owners : cascade'[o].pc = "lock" =>
                   /\ \A f \in FilesOf(o)' : f \in cascade'[o].todo \cup cascade'[o].locked
                   /\ \A a \in Attachers : attach'[a].owner # o
              /\ charged' = {f \in Files : row'[f].status = "uploaded"}
  BY DEF AloneCascade
<1>1. /\ \A o \in Owners : cascade[o].pc = "lock" =>
            /\ FilesOf(o) \subseteq cascade[o].todo \cup cascade[o].locked
            /\ \A a \in Attachers : attach[a].owner # o
      /\ charged = {f \in Files : row[f].status = "uploaded"}
  BY RacesGrow DEF Inv, AloneCascade
<1>2. /\ row \in [Files -> RowType] /\ row' \in [Files -> RowType] /\ charged' \subseteq Files
      /\ attach \in [Attachers -> AttachType]
  BY RowTyped, RowMoves, ChargedStepOK DEF Inv
<1>3. ASSUME NEW o \in Owners, cascade'[o].pc = "lock"
      PROVE  /\ \A f \in FilesOf(o)' : f \in cascade'[o].todo \cup cascade'[o].locked
             /\ \A a \in Attachers : attach'[a].owner # o
  <2>1. \/ cascade[o].pc = "lock" /\ cascade'[o] = cascade[o]
        \/ /\ cascade[o].pc = "lock" /\ row' = row /\ attach' = attach
           /\ \E f \in Files : CascadeBecomes(o, "lock", cascade[o].todo \ {f},
                  IF f \in FilesOf(o) THEN cascade[o].locked \cup {f} ELSE cascade[o].locked)
        \/ /\ CascadeScan(o) /\ row' = row /\ attach' = attach
           /\ cascade'[o].todo = FilesOf(o)
    <3>1. ASSUME NEW p \in Owners, CascadeEffect(p), p # o PROVE cascade'[o] = cascade[o]
      BY <3>1 DEF CascadeEffect, CascadeBecomes
    <3>2. CASE CascadeEffect(o)
      BY <1>3, <3>2 DEF CascadeEffect, CascadeBecomes, CascadeScan, CascadeLock
    <3>. QED  BY <1>3, <3>1, <3>2, CascadeSteps
  <2>2. CASE cascade[o].pc = "lock" /\ cascade'[o] = cascade[o]
    <3>1. \A a \in Attachers : attach'[a].owner # o
      <4>1. ASSUME NEW a \in Attachers, NEW f \in Files, AttachLoad(a, f, o) PROVE FALSE
        BY <2>2, <4>1 DEF AttachLoad, AttachRaces, Cascading
      <4>2. ASSUME NEW a \in Attachers, Busy(attach'[a]) PROVE attach'[a].owner # o
        BY <1>1, <2>2, <4>1, <4>2, BusyBefore
      <4>. QED  BY <4>2, AttachStepOK DEF AttachOK, Busy
    <3>2. \A f \in FilesOf(o)' : f \in FilesOf(o)
      BY <1>1, <2>2, FilesOfMoves
    <3>. QED  BY <1>1, <2>2, <3>1, <3>2
  <2>3. CASE /\ cascade[o].pc = "lock" /\ row' = row /\ attach' = attach
             /\ \E f \in Files : CascadeBecomes(o, "lock", cascade[o].todo \ {f},
                    IF f \in FilesOf(o) THEN cascade[o].locked \cup {f} ELSE cascade[o].locked)
    <3>1. \A f \in FilesOf(o)' : f \in FilesOf(o)
      BY <2>3 DEF FilesOf, Live
    <3>. QED  BY <1>1, <2>3, <3>1 DEF CascadeBecomes
  <2>4. CASE CascadeScan(o) /\ row' = row /\ attach' = attach /\ cascade'[o].todo = FilesOf(o)
    <3>1. \A f \in FilesOf(o)' : f \in FilesOf(o)
      BY <2>4 DEF FilesOf, Live
    <3>2. ~AttachingTo(o)
      BY <2>4 DEF CascadeScan, Raced
    <3>. QED  BY <2>4, <3>1, <3>2 DEF AttachingTo
  <2>. QED  BY <2>1, <2>2, <2>3, <2>4
<1>4. charged' = {f \in Files : row'[f].status = "uploaded"}
  <2>1. ASSUME UNCHANGED <<row, charged>> PROVE charged' = {f \in Files : row'[f].status = "uploaded"}
    BY <1>1, <2>1
  <2>2. ASSUME NEW S \in SUBSET Files, charged' = charged \ S,
               \A f \in S : row'[f].status \in {"deleted", "gone"},
               \A f \in Files \ S : row'[f].status = row[f].status
        PROVE  charged' = {f \in Files : row'[f].status = "uploaded"}
    BY <1>1, <2>2
  <2>3. ASSUME NEW S \in SUBSET Files, SoftDelete(S)
        PROVE  charged' = {f \in Files : row'[f].status = "uploaded"}
    <3>1. /\ charged' = charged \ S
          /\ \A f \in S : row'[f].status \in {"deleted", "gone"}
          /\ \A f \in Files \ S : row'[f].status = row[f].status
      BY <1>2, <2>3 DEF SoftDelete, RowType
    <3>. QED  BY <2>2, <3>1
  <2>4. ASSUME NEW a \in Attachers, AttachMoves(a)
        PROVE  charged' = {f \in Files : row'[f].status = "uploaded"}
    <3>1. CASE AttachCommit(a)
      <4>. DEFINE S == attach[a].locked \ {attach[a].file}
      <4>1. S \in SUBSET Files
        BY <1>2 DEF AttachType
      <4>2. /\ charged' = charged \ S
            /\ \A f \in S : row'[f].status \in {"deleted", "gone"}
            /\ \A f \in Files \ S : row'[f].status = row[f].status
        BY <3>1, <4>1 DEF AttachCommit
      <4>. HIDE DEF S
      <4>. QED  BY <2>2, <4>1, <4>2
    <3>2. CASE ~AttachCommit(a)
      <4>1. UNCHANGED <<row, charged>>
        BY <2>4, <3>2 DEF AttachMoves, AttachLoad, AttachLink, AttachScan, AttachLock, AttachFails
      <4>. QED  BY <2>1, <4>1
    <3>. QED  BY <3>1, <3>2
  <2>5. ASSUME NEW o \in Owners, CascadeMoves(o)
        PROVE  charged' = {f \in Files : row'[f].status = "uploaded"}
    <3>1. CASE CascadeCommit(o)
      <4>1. cascade[o].pc = "lock" /\ cascade[o].todo = {}
        BY <3>1 DEF CascadeCommit
      <4>2. \A f \in FilesOf(o) : f \in cascade[o].locked
        BY <1>1, <4>1
      <4>3. cascade[o].locked \in SUBSET Files
        BY RowTyped DEF Inv, CascadeType
      <4>4. /\ charged' = charged \ cascade[o].locked
            /\ \A f \in cascade[o].locked : row'[f].status \in {"deleted", "gone"}
            /\ \A f \in Files \ cascade[o].locked : row'[f].status = row[f].status
        BY <1>2, <3>1, <4>2, <4>3 DEF CascadeCommit, RowType
      <4>. QED  BY <2>2, <4>3, <4>4
    <3>2. CASE ~CascadeCommit(o)
      <4>1. UNCHANGED <<row, charged>>
        BY <2>5, <3>2 DEF CascadeMoves, OwnerDeleted, CascadeScan, CascadeLock, CascadeFails
      <4>. QED  BY <2>1, <4>1
    <3>. QED  BY <3>1, <3>2
  <2>6. CASE OtherMoves
    <3>1. ASSUME NEW f \in Files, SignUpload(f) \/ CompleteUpload(f)
          PROVE  charged' = {g \in Files : row'[g].status = "uploaded"}
      BY <1>1, <1>2, <3>1 DEF SignUpload, CompleteUpload, RowType
    <3>2. ASSUME NEW f \in Files, DeleteFile(f)
          PROVE  charged' = {g \in Files : row'[g].status = "uploaded"}
      <4>1. {f} \in SUBSET Files /\ SoftDelete({f})
        BY <3>2 DEF DeleteFile
      <4>. QED  BY <2>3, <4>1
    <3>3. ASSUME NEW f \in Files, ReapPending(f)
          PROVE  charged' = {g \in Files : row'[g].status = "uploaded"}
      BY <1>1, <1>2, <3>3 DEF ReapPending, RowType
    <3>4. ASSUME ReapFile
          PROVE  charged' = {g \in Files : row'[g].status = "uploaded"}
      <4>. DEFINE S == {reaper.file} \cap {f \in Files : Live(f)}
      <4>1. S \in SUBSET Files /\ SoftDelete(S)
        BY <3>4 DEF ReapFile
      <4>. HIDE DEF S
      <4>. QED  BY <2>3, <4>1
    <3>5. ASSUME \/ \E f \in Files : GrowOld(f)
                 \/ \E o \in Owners \cup {NoOwner} : ReapAsk(o) \/ ReapAskFails(o)
                 \/ ReapScan \/ ReapRemember \/ ReapDone \/ ReapCrash \/ UNCHANGED vars
          PROVE  UNCHANGED <<row, charged>>
      BY <3>5 DEF GrowOld, ReapAsk, ReapAskFails, ReapScan, ReapRemember, ReapDone, ReapCrash, vars
    <3>. QED  BY <2>1, <2>6, <3>1, <3>2, <3>3, <3>4, <3>5 DEF OtherMoves
  <2>. QED  BY <2>4, <2>5, <2>6, Moves
<1>. QED  BY <1>3, <1>4

LEMMA AloneAttachStep ==
    ASSUME Inv, [Next]_vars
    PROVE  AloneAttach'
<1>. SUFFICES ASSUME races' = {}, NEW a \in Attachers, Busy(attach'[a])
     PROVE    /\ row'[attach'[a].file].status \in {"pending", "uploaded"}
              /\ \A b \in Attachers : b # a /\ Busy(attach'[b]) =>
                    attach'[b].owner # row'[attach'[a].file].owner
              /\ \A o \in Owners : cascade'[o].pc = "lock" => row'[attach'[a].file].owner # o
  BY DEF AloneAttach, Busy, Live
<1>. DEFINE f == attach'[a].file
<1>1. races = {}
  BY RacesGrow
<1>2. f \in Files /\ attach'[a].owner \in Owners
  BY AttachStepOK DEF AttachOK
<1>3. \A b \in Attachers : attach[b].pc \in {"idle", "done"} =>
          attach[b].file = NoFile /\ attach[b].owner = NoOwner
  BY DEF Inv, AttachOK
<1>4. /\ \A b, c \in Attachers : b # c /\ Busy(attach[b]) /\ Busy(attach[c]) =>
            attach[b].owner # attach[c].owner /\ attach[b].file # attach[c].file
      /\ \A b \in Attachers : Busy(attach[b]) =>
            /\ Live(attach[b].file)
            /\ \A c \in Attachers : c # b /\ Busy(attach[c]) =>
                  attach[c].owner # row[attach[b].file].owner
            /\ \A o \in Owners : cascade[o].pc = "lock" => row[attach[b].file].owner # o
  BY <1>1 DEF Inv, OneAttach, AloneAttach
<1>5. CASE Busy(attach[a]) /\ f = attach[a].file
  <2>1. f \in Files /\ Live(f)
    BY <1>2, <1>4, <1>5
  <2>2. \A b \in Attachers : AttachCommit(b) => b # a /\ Busy(attach[b])
    BY BusyBefore DEF AttachCommit, Busy
  <2>3. row'[f].owner = row[f].owner
    BY <1>4, <1>5, <2>1, <2>2, OwnerMoves
  <2>4. row'[f].status \in {"pending", "uploaded"}
    <3>1. ASSUME NEW b \in Attachers, AttachCommit(b), f \in attach[b].locked \ {attach[b].file}
          PROVE  FALSE
      <4>1. row[f].owner = attach[b].owner
        BY <3>1 DEF Inv, AttachOK, FilesOf
      <4>. QED  BY <1>4, <1>5, <2>2, <3>1, <4>1
    <3>2. ASSUME NEW o \in Owners, CascadeCommit(o) PROVE row[f].owner # o /\ f \notin cascade[o].locked
      <4>1. row[f].owner # o
        BY <1>4, <1>5, <3>2 DEF CascadeCommit
      <4>. QED  BY <4>1 DEF Inv, CascadeOK, FilesOf
    <3>3. CASE Tombstoned(f) /\ Free(f)
      <4>1. ASSUME NEW g \in Files, DeleteFile(g) \/ ReapPending(g) PROVE g # f
        BY <1>5, <4>1 DEF DeleteFile, ReapPending, Raced, Attaching
      <4>2. ~ReapFile
        BY <1>1, <1>5 DEF ReapFile, Inv, AloneReaper
      <4>3. row'[f] # row[f]
        BY <3>3 DEF Tombstoned, Live
      <4>4. row \in [Files -> RowType]
        BY RowTyped DEF Inv
      <4>5. ASSUME NEW g \in Files, SignUpload(g) \/ CompleteUpload(g) \/ DeleteFile(g)
                                     \/ ReapPending(g) \/ GrowOld(g)
            PROVE  FALSE
        <5>1. g # f
          BY <2>1, <3>3, <4>1, <4>4, <4>5 DEF SignUpload, CompleteUpload, GrowOld, Tombstoned, Live, RowType
        <5>. QED  BY <2>1, <4>3, <4>4, <4>5, <5>1
                  DEF SignUpload, CompleteUpload, DeleteFile, ReapPending, GrowOld, SoftDelete
      <4>6. ASSUME NEW b \in Attachers, AttachMoves(b) PROVE FALSE
        <5>1. AttachCommit(b)
          BY <4>3, <4>6 DEF AttachMoves, AttachLoad, AttachLink, AttachScan, AttachLock, AttachFails
        <5>2. f # attach[b].file
          BY <1>4, <1>5, <2>2, <5>1
        <5>3. f \notin attach[b].locked
          BY <3>1, <5>1, <5>2
        <5>4. row'[f] = [status |-> row[f].status, owner |-> row[f].owner]
          BY <2>1, <5>1, <5>2, <5>3 DEF AttachCommit
        <5>. QED  BY <2>1, <4>3, <4>4, <5>4 DEF RowType
      <4>7. ASSUME NEW o \in Owners, CascadeMoves(o) PROVE FALSE
        <5>1. CascadeCommit(o)
          BY <4>3, <4>7 DEF CascadeMoves, OwnerDeleted, CascadeScan, CascadeLock, CascadeFails
        <5>. QED  BY <2>1, <3>2, <4>3, <5>1 DEF CascadeCommit, FilesOf
      <4>8. ASSUME \/ \E o \in Owners \cup {NoOwner} : ReapAsk(o) \/ ReapAskFails(o)
                   \/ ReapScan \/ ReapRemember \/ ReapDone \/ ReapCrash \/ UNCHANGED vars
            PROVE  FALSE
        BY <4>3, <4>8 DEF ReapAsk, ReapAskFails, ReapScan, ReapRemember, ReapDone, ReapCrash, vars
      <4>. QED  BY <4>2, <4>5, <4>6, <4>7, <4>8, Moves DEF OtherMoves
    <3>. QED  BY <2>1, <3>1, <3>2, <3>3, RowMoves DEF Signed, Completed, Moved, Live
  <2>5. \A b \in Attachers : b # a /\ Busy(attach'[b]) => attach'[b].owner # row'[f].owner
    <3>. SUFFICES ASSUME NEW b \in Attachers, b # a, Busy(attach'[b])
         PROVE    attach'[b].owner # row[f].owner
      BY <2>3
    <3>1. CASE Busy(attach[b]) /\ attach'[b].owner = attach[b].owner
      BY <1>4, <1>5, <3>1
    <3>2. CASE AttachLoad(b, attach'[b].file, attach'[b].owner)
      <4>1. ~MovingFrom(attach'[b].owner)
        BY <3>2 DEF AttachLoad, AttachRaces
      <4>. QED  BY <1>5, <2>1, <4>1 DEF MovingFrom, Attaching
    <3>. QED  BY <3>1, <3>2, BusyBefore
  <2>6. \A o \in Owners : cascade'[o].pc = "lock" => row'[f].owner # o
    <3>. SUFFICES ASSUME NEW o \in Owners, cascade'[o].pc = "lock" PROVE row[f].owner # o
      BY <2>3
    <3>1. CASE cascade[o].pc = "lock"
      BY <1>4, <1>5, <3>1
    <3>2. CASE CascadeScan(o)
      <4>1. ~\E g \in FilesOf(o) : Attaching(g)
        BY <3>2 DEF CascadeScan, Raced
      <4>. QED  BY <1>5, <2>1, <4>1 DEF FilesOf, Attaching
    <3>3. ASSUME NEW p \in Owners, CascadeEffect(p), p # o PROVE cascade'[o] = cascade[o]
      BY <3>3 DEF CascadeEffect, CascadeBecomes
    <3>4. CASE CascadeEffect(o)
      BY <3>1, <3>2, <3>4 DEF CascadeEffect, CascadeBecomes, CascadeLock
    <3>. QED  BY <3>1, <3>3, <3>4, CascadeSteps
  <2>. QED  BY <2>4, <2>5, <2>6 DEF Live
<1>6. CASE /\ AttachLoad(a, f, attach'[a].owner)
           /\ \A b \in Attachers \ {a} : attach'[b] = attach[b]
  <2>1. Live(f) /\ UNCHANGED <<row, cascade>> /\ ~AttachingTo(row[f].owner) /\ ~Cascading(row[f].owner)
    BY <1>6 DEF AttachLoad, AttachRaces
  <2>2. \A b \in Attachers : b # a /\ Busy(attach'[b]) => attach'[b].owner # row'[f].owner
    <3>1. \A b \in Attachers : Busy(attach[b]) => attach[b].owner \in Owners
      BY DEF Inv, AttachOK
    <3>. QED  BY <1>6, <2>1, <3>1 DEF AttachingTo
  <2>. QED  BY <2>1, <2>2 DEF Live, Cascading
<1>. QED  BY <1>5, <1>6, BusyBefore

-----------------------------------------------------------------------------
LEMMA InitInv ==
    ASSUME Init
    PROVE  Inv
<1>1. /\ \A a \in Attachers : attach[a] = IdleAttach
      /\ \A o \in Owners : cascade[o] = NoCascade
      /\ \A f \in Files : row[f] = [status |-> "absent", owner |-> NoOwner]
  BY DEF Init
<1>2. \A o \in Owners : FilesOf(o) = {}
  BY <1>1 DEF FilesOf, Live
<1>3. TypeOK /\ old \in Seq(Files)
  BY DEF Init, TypeOK, Statuses, Races, IdleAttach, NoCascade, IdleReaper
<1>4. AbsentOK /\ AttachOK /\ CascadeOK /\ LocksOK
  BY <1>1 DEF AbsentOK, AttachOK, CascadeOK, LocksOK, IdleAttach, NoCascade, Busy
<1>5. ReaperOK /\ AloneReaper
  BY DEF Init, IdleReaper, ReaperOK, AloneReaper
<1>6. OneAttach /\ AloneCascade /\ AloneAttach
  <2>1. charged = {f \in Files : row[f].status = "uploaded"}
    BY <1>1 DEF Init
  <2>. QED  BY <1>1, <1>2, <2>1 DEF OneAttach, AloneCascade, AloneAttach, IdleAttach, NoCascade, Busy
<1>. QED  BY <1>3, <1>4, <1>5, <1>6 DEF Inv

LEMMA InvStep ==
    ASSUME Inv, [Next]_vars
    PROVE  Inv'
BY TypeStepOK, AbsentStep, AttachStepOK, CascadeStepOK, ReaperStepOK, LocksStepOK,
   OneAttachStep, AloneCascadeStep, AloneReaperStep, AloneAttachStep DEF Inv

LEMMA InvAlways == Spec => []Inv
<1>1. Inv /\ [Next]_vars => Inv'
  BY InvStep
<1>. QED  BY <1>1, InitInv, PTL DEF Spec

-----------------------------------------------------------------------------
\* An owner never has two live files, however uploads, deletes, cascades and the reaper
\* interleave with the attach, unless two attach requests are under way for one owner or
\* file (attach-file.ts, relations of cardinality "single").
THEOREM OneFileAlways == Spec => []OneFilePerOwner
<1>1. Inv => OneFilePerOwner
  <2>. SUFFICES ASSUME Inv, "attach" \notin races, NEW o \in Owners PROVE Cardinality(FilesOf(o)) <= 1
    BY DEF OneFilePerOwner
  <2>1. \A f, g \in FilesOf(o) : f = g
    BY DEF Inv, OneAttach
  <2>2. CASE FilesOf(o) = {}
    BY <2>2, FS_EmptySet
  <2>3. CASE FilesOf(o) # {}
    <3>1. PICK f \in FilesOf(o) : FilesOf(o) = {f}
      BY <2>1, <2>3
    <3>2. Cardinality({f}) = 1
      BY FS_Singleton
    <3>. QED  BY <3>1, <3>2
  <2>. QED  BY <2>2, <2>3
<1>. QED  BY <1>1, InvAlways, PTL

\* bytes_used is charged for the completed files and no others, whoever tombstones them
\* and in whatever order, unless an owner's cascade meets an attach to that owner
\* (quota.ts, SC#3; cascade.ts refunds what it locked and tombstones what it finds).
THEOREM BytesAlwaysCharged == Spec => []BytesCharged
<1>1. Inv => BytesCharged
  BY DEF Inv, AloneCascade, BytesCharged, ChargedExactly
<1>. QED  BY <1>1, InvAlways, PTL

\* An attach leaves its owner with a file, the reaper takes no file of a living owner and
\* none that was never attached (attach-file.ts, reap-orphan-files.ts).
THEOREM FilesAlwaysStay == Spec => FilesStayWithOwners
<1>1. Inv /\ [Next]_vars =>
        [\A a \in Attachers, o \in Owners :
            AttachCommit(a) /\ attach[a].owner = o /\ FilesOf(o) # {} /\ races = {}
              => FilesOf(o)' # {}]_vars
  <2>. SUFFICES ASSUME Inv, [Next]_vars, NEW a \in Attachers, NEW o \in Owners,
                       AttachCommit(a), attach[a].owner = o, races = {}
       PROVE    FilesOf(o)' # {}
    OBVIOUS
  <2>. DEFINE f == attach[a].file
  <2>1. f \in Files /\ Live(f)
    BY DEF AttachCommit, Busy, Inv, AttachOK, AloneAttach
  <2>2. row'[f].status = row[f].status /\ row'[f].owner = o
    BY <2>1 DEF AttachCommit
  <2>3. f \in FilesOf(o)'
    BY <2>1, <2>2 DEF FilesOf, Live
  <2>. QED  BY <2>3
<1>2. Inv /\ [Next]_vars =>
        [ReapFile /\ "reaper" \notin races
            => \A f \in Files : Live(f) /\ ~Live(f)' => row[f].owner \notin alive]_vars
  <2>. SUFFICES ASSUME Inv, ReapFile, "reaper" \notin races, NEW f \in Files, Live(f), ~Live(f)'
       PROVE    row[f].owner \notin alive
    OBVIOUS
  <2>1. f = reaper.file
    BY RowTyped DEF ReapFile, SoftDelete, Live, Inv, RowType
  <2>. QED  BY <2>1 DEF ReapFile, Inv, AloneReaper, ReaperOK
<1>3. Inv /\ [Next]_vars =>
        [ReapFile => \A f \in Files : Live(f) /\ ~Live(f)' => row[f].owner # NoOwner]_vars
  <2>. SUFFICES ASSUME Inv, ReapFile, NEW f \in Files, Live(f), ~Live(f)'
       PROVE    row[f].owner # NoOwner
    OBVIOUS
  <2>1. f = reaper.file
    BY RowTyped DEF ReapFile, SoftDelete, Live, Inv, RowType
  <2>. QED  BY <2>1 DEF ReapFile, Inv, ReaperOK
<1>4. Spec => AttachLeavesAFile
  BY <1>1, InvAlways, PTL DEF Spec, AttachLeavesAFile
<1>5. Spec => LivingOwnersKeepFiles
  BY <1>2, InvAlways, PTL DEF Spec, LivingOwnersKeepFiles
<1>6. Spec => UnattachedKept
  BY <1>3, InvAlways, PTL DEF Spec, UnattachedKept
<1>. QED  BY <1>4, <1>5, <1>6 DEF FilesStayWithOwners

=============================================================================
