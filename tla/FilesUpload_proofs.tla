------------------------- MODULE FilesUpload_proofs -------------------------
(***************************************************************************)
(* Theorems of FilesUpload for every set of files and requests, every size *)
(* and every limit.                                                        *)
(*   - TypeCorrect, TombstonesStay and UsedAlwaysCovers hold however       *)
(*     requests race.                                                      *)
(*   - The Serial... theorems hold when no two requests complete the same  *)
(*     file at once and the swallowed DELETE of admin-sign does not fail;  *)
(*     the run FilesUpload_reject shows why the first premise cannot be    *)
(*     dropped.  With PUTs bounded by the signed size as well, the         *)
(*     counters implement QuotaLedger (SerialImplementsLedger).            *)
(***************************************************************************)
EXTENDS FilesUpload, StorageQuota_proofs

USE MaxBytesPositive, NoFileAssumption, SizesAssumption

-----------------------------------------------------------------------------
(***************************************************************************)
(* Type correctness.                                                       *)
(***************************************************************************)
\* What complete-upload commits was found within the size bounds before.
StatChecked ==
    \A c \in Calls : call[c].pc \in {"verify", "commit"} => call[c].auth \in Sizes

TypeInv == TypeOK /\ StatChecked

LEMMA UsageOperators ==
    ASSUME NEW u \in Usage, NEW m \in Nat, NEW n \in Nat
    PROVE  /\ ReserveQuota(u, n) \in Usage
           /\ ReleaseQuota(u, n) \in Usage
           /\ MarkUploaded(u, m, n) \in Usage
           /\ DecrementUsed(u, n) \in Usage
BY DEF Usage, ReserveQuota, ReleaseQuota, MarkUploaded, DecrementUsed, Floor

LEMMA ReleaseRecord ==
    ASSUME NEW u \in Usage, NEW n \in Nat
    PROVE  ReleaseQuota(u, n) = [used |-> u.used, pending |-> Floor(u.pending - n)]
BY DEF Usage, ReleaseQuota

LEMMA InitialTypes == Init => TypeInv
BY DEF Init, TypeInv, TypeOK, StatChecked, NoUsage, Usage, Weights, Statuses, Ages,
       Objects, NoObject, IdleCall, IdleAdmin

LEMMA StatCheckedStep == TypeInv /\ [Next]_vars => StatChecked'
<1>. SUFFICES ASSUME TypeInv, [Next]_vars
              PROVE  StatChecked'
  OBVIOUS
<1>. USE DEF TypeInv, TypeOK, StatChecked
<1>1. CASE UNCHANGED call
  BY <1>1
<1>2. ASSUME NEW c \in Calls, NEW f \in Files, CompleteLoad(c, f)
      PROVE  StatChecked'
  BY <1>2 DEF CompleteLoad
<1>3. ASSUME NEW c \in Calls, CompleteStat(c)
      PROVE  StatChecked'
  BY <1>3 DEF CompleteStat
<1>4. ASSUME NEW c \in Calls, CompleteVerify(c)
      PROVE  StatChecked'
  BY <1>4 DEF CompleteVerify, IdleCall
<1>5. ASSUME NEW c \in Calls,
             CompleteCommit(c) \/ RejectObject(c) \/ RejectRow(c) \/ CompleteCrash(c)
      PROVE  StatChecked'
  BY <1>5 DEF CompleteCommit, RejectObject, RejectRow, CompleteCrash, IdleCall
<1>. QED
  BY <1>1, <1>2, <1>3, <1>4, <1>5
  DEF Next, AdminStep, CompleteStep, vars, SignUpload, AdminReserve, SignUploadFails,
      AdminInsert, AdminSigned, AdminSignFails, AdminUndo, AdminInsertFails, AdminCrash,
      Put, ReapPending, GrowOlder, DeleteFile, ReapSoftDeleted, EraseObject, EraseFails

LEMMA TypeStep == TypeInv /\ [Next]_vars => TypeOK'
<1>. SUFFICES ASSUME TypeInv, [Next]_vars
              PROVE  TypeOK'
  OBVIOUS
<1>. USE DEF TypeInv, TypeOK, Statuses, Ages, Sizes
<1>1. ASSUME NEW f \in Files, NEW n \in Sizes, SignUpload(f, n)
      PROVE  TypeOK'
  <2>1. n \in Nat /\ n \in 0..MaxBytes
    OBVIOUS
  <2>2. usage' \in Usage
    BY <1>1, <2>1, UsageOperators DEF SignUpload
  <2>3. row' \in [Files -> [status : Statuses, size : 0..MaxBytes]]
    BY <1>1, <2>1 DEF SignUpload
  <2>. QED  BY <1>1, <2>2, <2>3 DEF SignUpload
<1>2. ASSUME NEW n \in Sizes, SignUploadFails(n)
      PROVE  TypeOK'
  <2>1. ReserveQuota(usage, n) \in Usage /\ n \in Nat
    BY UsageOperators
  <2>2. ReleaseQuota(ReserveQuota(usage, n), n) \in Usage
    BY <2>1, UsageOperators
  <2>. QED  BY <1>2, <2>2 DEF SignUploadFails
<1>3. ASSUME NEW f \in Files, NEW n \in Sizes, AdminReserve(f, n)
      PROVE  TypeOK'
  <2>1. n \in Nat /\ n \in 0..MaxBytes
    OBVIOUS
  <2>2. usage' \in Usage
    BY <1>3, <2>1, UsageOperators DEF AdminReserve
  <2>. QED  BY <1>3, <2>1, <2>2 DEF AdminReserve
<1>4. CASE AdminInsert
  BY <1>4 DEF AdminInsert
<1>5. CASE AdminInsertFails
  BY <1>5 DEF AdminInsertFails
<1>6. CASE AdminSigned
  BY <1>6 DEF AdminSigned, IdleAdmin
<1>7. CASE AdminSignFails
  <2>1. row' \in [Files -> [status : Statuses, size : 0..MaxBytes]]
    BY <1>7 DEF AdminSignFails
  <2>2. stranded' \in Weights
    BY <1>7 DEF AdminSignFails, Weights
  <2>3. admin' \in [pc : {"idle", "reserved", "inserted", "undo"},
                     file : Files \cup {NoFile}, size : 0..MaxBytes]
    BY <1>7 DEF AdminSignFails
  <2>4. age' \in [Files -> Ages]
    BY <1>7 DEF AdminSignFails
  <2>. QED  BY <1>7, <2>1, <2>2, <2>3, <2>4 DEF AdminSignFails
<1>8. CASE AdminUndo
  <2>1. admin.size \in Nat
    OBVIOUS
  <2>2. usage' \in Usage
    BY <1>8, <2>1, UsageOperators DEF AdminUndo
  <2>. QED  BY <1>8, <2>2 DEF AdminUndo, IdleAdmin
<1>9. CASE AdminCrash
  <2>1. AdminHeld \in Nat
    BY DEF AdminHeld
  <2>2. leaked' \in Nat
    BY <1>9, <2>1 DEF AdminCrash
  <2>3. age' \in [Files -> Ages]
    BY <1>9 DEF AdminCrash
  <2>. QED  BY <1>9, <2>2, <2>3 DEF AdminCrash, IdleAdmin
<1>10. ASSUME NEW f \in Files, NEW o \in Objects \ {NoObject}, Put(f, o)
       PROVE  TypeOK'
  BY <1>10 DEF Put
<1>11. ASSUME NEW f \in Files, GrowOlder(f)
       PROVE  TypeOK'
  BY <1>11 DEF GrowOlder
<1>12. ASSUME NEW c \in Calls, NEW f \in Files, CompleteLoad(c, f)
       PROVE  TypeOK'
  BY <1>12 DEF CompleteLoad
<1>13. ASSUME NEW c \in Calls, CompleteStat(c)
       PROVE  TypeOK'
  BY <1>13 DEF CompleteStat, Objects, NoObject
<1>14. ASSUME NEW c \in Calls, CompleteVerify(c)
       PROVE  TypeOK'
  BY <1>14 DEF CompleteVerify, IdleCall
<1>15. ASSUME NEW c \in Calls, CompleteCommit(c)
       PROVE  TypeOK'
  <2>. DEFINE f == call[c].file
  <2>1. call[c].reserved \in Nat /\ call[c].auth \in Nat
    OBVIOUS
  <2>2. MarkUploaded(usage, call[c].reserved, call[c].auth) \in Usage
    BY <2>1, UsageOperators
  <2>3. usage' \in Usage
    BY <1>15, <2>2 DEF CompleteCommit
  <2>4. call' \in [Calls -> [pc : {"idle", "stat", "verify", "commit", "reject", "unwind"},
                            file : Files \cup {NoFile},
                            reserved : 0..MaxBytes, auth : 0..MaxObject]]
    BY <1>15 DEF CompleteCommit, IdleCall
  <2>5. row' \in [Files -> [status : Statuses, size : 0..MaxBytes]]
    BY <1>15 DEF CompleteCommit, StatChecked
  <2>. QED  BY <1>15, <2>3, <2>4, <2>5 DEF CompleteCommit
<1>16. ASSUME NEW c \in Calls, RejectObject(c)
       PROVE  TypeOK'
  BY <1>16 DEF RejectObject, Objects
<1>17. ASSUME NEW c \in Calls, RejectRow(c)
       PROVE  TypeOK'
  <2>1. call[c].reserved \in Nat
    OBVIOUS
  <2>2. ReleaseQuota(usage, call[c].reserved) \in Usage
    BY <2>1, UsageOperators
  <2>3. usage' \in Usage
    BY <1>17, <2>2 DEF RejectRow
  <2>4. call' \in [Calls -> [pc : {"idle", "stat", "verify", "commit", "reject", "unwind"},
                            file : Files \cup {NoFile},
                            reserved : 0..MaxBytes, auth : 0..MaxObject]]
    BY <1>17 DEF RejectRow, IdleCall
  <2>5. row' \in [Files -> [status : Statuses, size : 0..MaxBytes]]
    BY <1>17 DEF RejectRow
  <2>6. stranded' \in Weights
    BY <1>17 DEF RejectRow, Weights
  <2>. QED  BY <1>17, <2>3, <2>4, <2>5, <2>6 DEF RejectRow
<1>18. ASSUME NEW c \in Calls, CompleteCrash(c)
       PROVE  TypeOK'
  BY <1>18 DEF CompleteCrash, IdleCall
<1>19. ASSUME NEW f \in Files, DeleteFile(f)
       PROVE  TypeOK'
  <2>1. row[f].size \in Nat /\ Held[f] \in 0..MaxBytes
    BY DEF Held
  <2>2. DecrementUsed(usage, row[f].size) \in Usage
    BY <2>1, UsageOperators
  <2>3. usage' \in Usage
    BY <1>19, <2>2 DEF DeleteFile
  <2>4. stranded' \in Weights
    BY <1>19, <2>1 DEF DeleteFile, Weights
  <2>. QED  BY <1>19, <2>3, <2>4 DEF DeleteFile
<1>20. CASE ReapPending
  BY ZenonT(40), <1>20, UsageOperators, TotalType DEF ReapPending
<1>21. ASSUME NEW f \in Files, ReapSoftDeleted(f)
       PROVE  TypeOK'
  BY <1>21 DEF ReapSoftDeleted
<1>22. ASSUME NEW f \in Files, EraseObject(f)
       PROVE  TypeOK'
  BY <1>22 DEF EraseObject, Objects
<1>23. ASSUME NEW f \in Files, EraseFails(f)
       PROVE  TypeOK'
  BY <1>23 DEF EraseFails
<1>24. CASE UNCHANGED vars
  BY <1>24 DEF vars
<1>. QED
  BY <1>1, <1>2, <1>3, <1>4, <1>5, <1>6, <1>7, <1>8, <1>9, <1>10, <1>11, <1>12,
     <1>13, <1>14, <1>15, <1>16, <1>17, <1>18, <1>19, <1>20, <1>21, <1>22, <1>23, <1>24
  DEF Next, AdminStep, CompleteStep

\* The id an admin-sign is about to insert has never had a row.
InsertsOnce ==
    admin.pc = "reserved" => admin.file \in Files /\ row[admin.file].status = "absent"

LEMMA InsertsOnceStep == TypeInv /\ InsertsOnce /\ [Next]_vars => InsertsOnce'
<1>. SUFFICES ASSUME TypeInv, InsertsOnce, [Next]_vars
              PROVE  InsertsOnce'
  OBVIOUS
<1>. USE DEF TypeInv, TypeOK, InsertsOnce
<1>1. CASE UNCHANGED <<row, admin>>
  BY <1>1
<1>2. ASSUME NEW f \in Files, NEW n \in Sizes, SignUpload(f, n) \/ AdminReserve(f, n)
      PROVE  InsertsOnce'
  BY <1>2 DEF SignUpload, AdminReserve
<1>3. CASE AdminStep \/ AdminInsertFails \/ AdminCrash
  BY <1>3 DEF AdminStep, AdminInsert, AdminSigned, AdminSignFails, AdminUndo,
              AdminInsertFails, AdminCrash, IdleAdmin
<1>4. ASSUME NEW c \in Calls, RejectRow(c) \/ CompleteCommit(c)
      PROVE  InsertsOnce'
  <2>1. admin' = admin
    BY <1>4 DEF RejectRow, CompleteCommit
  <2>2. \A f \in Files : row[f].status = "absent" => row'[f] = row[f]
    <3>1. CASE RejectRow(c)
      BY <3>1 DEF RejectRow, InTable
    <3>2. CASE CompleteCommit(c)
      BY <3>2 DEF CompleteCommit
    <3>. QED  BY <1>4, <3>1, <3>2
  <2>. QED  BY <2>1, <2>2
<1>5. ASSUME NEW f \in Files, DeleteFile(f) \/ ReapSoftDeleted(f)
      PROVE  InsertsOnce'
  BY <1>5 DEF DeleteFile, ReapSoftDeleted
<1>6. CASE ReapPending
  BY <1>6 DEF ReapPending
<1>. QED
  BY <1>1, <1>2, <1>3, <1>4, <1>5, <1>6
  DEF Next, CompleteStep, vars, SignUploadFails, Put, CompleteLoad, CompleteStat,
      CompleteVerify, RejectObject, CompleteCrash, GrowOlder, EraseObject, EraseFails

\* Every variable keeps its type; in particular no counter goes below zero.
THEOREM TypeCorrect == Spec => []TypeOK
<1>1. TypeInv /\ [Next]_vars => TypeInv'
  BY StatCheckedStep, TypeStep DEF TypeInv
<1>2. TypeInv => TypeOK
  BY DEF TypeInv
<1>. QED  BY <1>1, <1>2, InitialTypes, PTL DEF Spec

\* No step brings a tombstoned or removed row back to life, however requests
\* race: complete-upload decides again in its conditional UPDATE.
THEOREM TombstonesStay == Spec => NoResurrection
<1>1. Init => TypeInv /\ InsertsOnce
  BY InitialTypes DEF Init, InsertsOnce, IdleAdmin
<1>2. TypeInv /\ InsertsOnce /\ [Next]_vars => TypeInv' /\ InsertsOnce'
  BY StatCheckedStep, TypeStep, InsertsOnceStep DEF TypeInv
<1>3. TypeInv /\ InsertsOnce /\ [Next]_vars
        => [\A f \in Files : row[f].status \in {"deleted", "gone"}
              => row'[f].status \in {"deleted", "gone"}]_vars
  <2>. SUFFICES ASSUME TypeInv, InsertsOnce, Next, NEW f \in Files,
                       row[f].status \in {"deleted", "gone"}
                PROVE  row'[f].status \in {"deleted", "gone"}
    OBVIOUS
  <2>. USE DEF TypeInv, TypeOK
  <2>1. CASE UNCHANGED row
    BY <2>1
  <2>2. ASSUME NEW g \in Files, NEW n \in Sizes, SignUpload(g, n)
        PROVE  row'[f].status \in {"deleted", "gone"}
    BY <2>2 DEF SignUpload
  <2>3. CASE AdminInsert
    BY <2>3 DEF AdminInsert, InsertsOnce
  <2>4. CASE AdminSignFails
    BY <2>4 DEF AdminSignFails
  <2>5. ASSUME NEW c \in Calls, RejectRow(c) \/ CompleteCommit(c)
        PROVE  row'[f].status \in {"deleted", "gone"}
    BY <2>5 DEF RejectRow, CompleteCommit
  <2>6. ASSUME NEW g \in Files, DeleteFile(g) \/ ReapSoftDeleted(g)
        PROVE  row'[f].status \in {"deleted", "gone"}
    BY <2>6 DEF DeleteFile, ReapSoftDeleted
  <2>7. CASE ReapPending
    BY <2>7 DEF ReapPending
  <2>. QED
    BY <2>1, <2>2, <2>3, <2>4, <2>5, <2>6, <2>7
    DEF Next, AdminStep, CompleteStep, AdminReserve, SignUploadFails, AdminSigned,
        AdminUndo, AdminInsertFails, AdminCrash, Put, CompleteLoad, CompleteStat,
        CompleteVerify, RejectObject, CompleteCrash, GrowOlder, EraseObject, EraseFails
<1>. QED  BY <1>1, <1>2, <1>3, PTL DEF Spec, NoResurrection

-----------------------------------------------------------------------------
(***************************************************************************)
(* The serial case.  The counters are sums over all rows, so a step keeps  *)
(* them exact only if it moves exactly the bytes of the row it changes.    *)
(* That needs to know what the locals of the running handlers say of the   *)
(* rows: the reservation a /complete loaded is still the row's (CallsOK),  *)
(* no two of them work on one file (CallsDisjoint), and an admin-sign      *)
(* knows the bytes it has to give back (AdminOK).                          *)
(***************************************************************************)
RowsOK == \A f \in Files :
    /\ row[f].status \in {"pending", "uploaded"} => row[f].size \in Sizes
    /\ row[f].status \in {"absent", "pending", "uploaded"} => stranded[f] = 0
    /\ row[f].status = "absent" => age[f] = "signed" /\ object[f] = NoObject

CallsOK == \A c \in Calls : call[c].pc # "idle" =>
    /\ call[c].file \in Files
    /\ call[c].reserved \in Sizes
    /\ row[call[c].file].status \in {"pending", "deleted", "gone"}
    /\ row[call[c].file].status = "pending" => row[call[c].file].size = call[c].reserved
    /\ row[call[c].file].status = "deleted" => stranded[call[c].file] = call[c].reserved

CallsDisjoint == \A c, d \in Calls :
    call[c].pc # "idle" /\ call[d].pc # "idle" /\ c # d => call[c].file # call[d].file

AdminOK ==
    /\ admin.pc # "idle" => admin.file \in Files /\ admin.size \in Sizes
    /\ admin.pc = "inserted" =>
          /\ row[admin.file].status \in {"pending", "deleted"}
          /\ age[admin.file] = "signed"
          /\ Reserved[admin.file] = admin.size
          /\ \A c \in Calls : call[c].pc # "idle" => call[c].file # admin.file

Shape == TypeInv /\ InsertsOnce /\ RowsOK /\ CallsOK /\ CallsDisjoint /\ AdminOK

Serial == OneCompletePerFile /\ ~StatementsMayFail

LEMMA InitialShape == Init => Shape
<1>. SUFFICES ASSUME Init
              PROVE  Shape
  OBVIOUS
<1>1. TypeInv
  BY InitialTypes
<1>2. InsertsOnce /\ RowsOK /\ CallsOK /\ CallsDisjoint /\ AdminOK
  BY DEF Init, InsertsOnce, RowsOK, CallsOK, CallsDisjoint, AdminOK, IdleCall, IdleAdmin
<1>. QED  BY <1>1, <1>2 DEF Shape

LEMMA ShapeStep == Serial /\ Shape /\ [Next]_vars => Shape'
<1>. SUFFICES ASSUME Serial, Shape, [Next]_vars
              PROVE  Shape'
  OBVIOUS
<1>0. TypeInv' /\ InsertsOnce'
  BY StatCheckedStep, TypeStep, InsertsOnceStep DEF Shape, TypeInv
<1>. DEFINE Rest == RowsOK /\ CallsOK /\ CallsDisjoint /\ AdminOK
<1>. SUFFICES Rest'
  BY <1>0 DEF Shape
<1>. USE DEF Serial, Shape, TypeInv, TypeOK, InsertsOnce, Sizes, Weights
<1>1. ASSUME NEW f \in Files, NEW n \in Sizes, SignUpload(f, n)
      PROVE  Rest'
  <2>1. RowsOK'
    BY <1>1 DEF SignUpload, RowsOK
  <2>2. CallsOK' /\ CallsDisjoint'
    BY <1>1 DEF SignUpload, CallsOK, CallsDisjoint
  <2>3. AdminOK'
    BY <1>1 DEF SignUpload, AdminOK, Reserved
  <2>. QED  BY <2>1, <2>2, <2>3
<1>2. ASSUME NEW f \in Files, NEW n \in Sizes, AdminReserve(f, n)
      PROVE  Rest'
  <2>1. RowsOK'
    BY <1>2 DEF AdminReserve, RowsOK
  <2>2. CallsOK' /\ CallsDisjoint'
    BY <1>2 DEF AdminReserve, CallsOK, CallsDisjoint
  <2>3. AdminOK'
    BY <1>2 DEF AdminReserve, AdminOK
  <2>. QED  BY <2>1, <2>2, <2>3
<1>3. CASE AdminInsert
  <2>1. RowsOK'
    BY <1>3 DEF AdminInsert, RowsOK, AdminOK
  <2>2. CallsOK' /\ CallsDisjoint'
    BY <1>3 DEF AdminInsert, CallsOK, CallsDisjoint
  <2>3. AdminOK'
    BY <1>3 DEF AdminInsert, AdminOK, Reserved, CallsOK, RowsOK
  <2>. QED  BY <2>1, <2>2, <2>3
<1>4. CASE AdminSignFails
  <2>1. RowsOK'
    BY <1>4 DEF AdminSignFails, RowsOK, AdminOK
  <2>2. CallsOK' /\ CallsDisjoint'
    BY <1>4 DEF AdminSignFails, CallsOK, CallsDisjoint, AdminOK
  <2>3. AdminOK'
    BY <1>4 DEF AdminSignFails, AdminOK
  <2>. QED  BY <2>1, <2>2, <2>3
<1>5. CASE AdminSigned \/ AdminUndo \/ AdminInsertFails \/ AdminCrash
  <2>1. RowsOK'
    BY <1>5 DEF AdminSigned, AdminUndo, AdminInsertFails, AdminCrash, RowsOK, AdminOK
  <2>2. CallsOK' /\ CallsDisjoint'
    BY <1>5 DEF AdminSigned, AdminUndo, AdminInsertFails, AdminCrash, CallsOK, CallsDisjoint
  <2>3. AdminOK'
    BY <1>5 DEF AdminSigned, AdminUndo, AdminInsertFails, AdminCrash, AdminOK, IdleAdmin
  <2>. QED  BY <2>1, <2>2, <2>3
<1>6. ASSUME NEW f \in Files, NEW o \in Objects \ {NoObject}, Put(f, o)
      PROVE  Rest'
  BY <1>6 DEF Put, RowsOK, CallsOK, CallsDisjoint, AdminOK, Reserved
<1>7. ASSUME NEW f \in Files, GrowOlder(f)
      PROVE  Rest'
  BY <1>7 DEF GrowOlder, RowsOK, CallsOK, CallsDisjoint, AdminOK, Reserved
<1>8. ASSUME NEW c \in Calls, NEW f \in Files, CompleteLoad(c, f)
      PROVE  Rest'
  <2>1. RowsOK'
    BY <1>8 DEF CompleteLoad, RowsOK
  <2>2. CallsOK'
    BY <1>8 DEF CompleteLoad, CallsOK, RowsOK
  <2>3. CallsDisjoint'
    BY <1>8 DEF CompleteLoad, CallsDisjoint
  <2>4. AdminOK'
    BY <1>8 DEF CompleteLoad, AdminOK, Reserved
  <2>. QED  BY <2>1, <2>2, <2>3, <2>4
<1>9. ASSUME NEW c \in Calls, CompleteStat(c) \/ CompleteVerify(c) \/ RejectObject(c) \/ CompleteCrash(c)
      PROVE  Rest'
  <2>1. /\ row' = row /\ stranded' = stranded /\ age' = age /\ admin' = admin
        /\ \A f \in Files : object[f] = NoObject => object'[f] = NoObject
    BY <1>9 DEF CompleteStat, CompleteVerify, RejectObject, CompleteCrash
  <2>2. \A d \in Calls : \/ call'[d].pc = "idle"
                         \/ /\ call[d].pc # "idle"
                            /\ call'[d].file = call[d].file
                            /\ call'[d].reserved = call[d].reserved
    BY <1>9 DEF CompleteStat, CompleteVerify, RejectObject, CompleteCrash, IdleCall
  <2>3. RowsOK'
    BY <2>1 DEF RowsOK
  <2>4. CallsOK' /\ CallsDisjoint'
    BY <2>1, <2>2 DEF CallsOK, CallsDisjoint
  <2>5. AdminOK'
    BY <2>1, <2>2 DEF AdminOK, Reserved
  <2>. QED  BY <2>3, <2>4, <2>5
<1>10. ASSUME NEW c \in Calls, CompleteCommit(c)
       PROVE  Rest'
  <2>1. RowsOK'
    BY <1>10 DEF CompleteCommit, RowsOK, CallsOK, StatChecked
  <2>2. CallsOK' /\ CallsDisjoint'
    BY <1>10 DEF CompleteCommit, CallsOK, CallsDisjoint, IdleCall
  <2>3. AdminOK'
    BY <1>10 DEF CompleteCommit, AdminOK, Reserved, CallsOK, IdleCall
  <2>. QED  BY <2>1, <2>2, <2>3
<1>11. ASSUME NEW c \in Calls, RejectRow(c)
       PROVE  Rest'
  <2>1. RowsOK'
    BY <1>11 DEF RejectRow, RowsOK, CallsOK, InTable
  <2>2. CallsOK' /\ CallsDisjoint'
    BY <1>11 DEF RejectRow, CallsOK, CallsDisjoint, IdleCall, InTable
  <2>3. AdminOK'
    BY <1>11 DEF RejectRow, AdminOK, Reserved, CallsOK, IdleCall, InTable
  <2>. QED  BY <2>1, <2>2, <2>3
<1>12. ASSUME NEW f \in Files, DeleteFile(f)
       PROVE  Rest'
  <2>1. RowsOK'
    BY <1>12 DEF DeleteFile, RowsOK
  <2>2. CallsOK' /\ CallsDisjoint'
    BY <1>12 DEF DeleteFile, CallsOK, CallsDisjoint, Held
  <2>3. AdminOK'
    BY <1>12 DEF DeleteFile, AdminOK, Reserved, Held
  <2>. QED  BY <2>1, <2>2, <2>3
<1>13. CASE ReapPending
  <2>1. RowsOK'
    BY <1>13 DEF ReapPending, RowsOK
  <2>2. CallsOK' /\ CallsDisjoint'
    BY <1>13 DEF ReapPending, CallsOK, CallsDisjoint
  <2>3. AdminOK'
    BY <1>13 DEF ReapPending, AdminOK, Reserved
  <2>. QED  BY <2>1, <2>2, <2>3
<1>14. ASSUME NEW f \in Files, ReapSoftDeleted(f)
       PROVE  Rest'
  <2>1. RowsOK'
    BY <1>14 DEF ReapSoftDeleted, RowsOK
  <2>2. CallsOK' /\ CallsDisjoint'
    BY <1>14 DEF ReapSoftDeleted, CallsOK, CallsDisjoint
  <2>3. AdminOK'
    BY <1>14 DEF ReapSoftDeleted, AdminOK, Reserved
  <2>. QED  BY <2>1, <2>2, <2>3
<1>15. ASSUME NEW f \in Files, EraseObject(f) \/ EraseFails(f)
       PROVE  Rest'
  BY <1>15 DEF EraseObject, EraseFails, RowsOK, CallsOK, CallsDisjoint, AdminOK, Reserved
<1>16. ASSUME NEW n \in Sizes, SignUploadFails(n)
       PROVE  Rest'
  BY <1>16 DEF SignUploadFails, RowsOK, CallsOK, CallsDisjoint, AdminOK, Reserved
<1>17. CASE UNCHANGED vars
  BY <1>17 DEF vars, RowsOK, CallsOK, CallsDisjoint, AdminOK, Reserved
<1>. QED
  BY <1>1, <1>2, <1>3, <1>4, <1>5, <1>6, <1>7, <1>8, <1>9, <1>10, <1>11, <1>12,
     <1>13, <1>14, <1>15, <1>16, <1>17
  DEF Next, AdminStep, CompleteStep

-----------------------------------------------------------------------------
\* The ledger of a state: who owns how many bytes.
LEMMA WeightsType ==
    ASSUME TypeOK
    PROVE  /\ Held \in Weights /\ Reserved \in Weights /\ Stored \in Weights
           /\ AdminHeld \in Nat /\ leaked \in Nat
           /\ usage.used \in Nat /\ usage.pending \in Nat
           /\ Total(Reserved) \in Nat /\ Total(Stored) \in Nat
BY TotalType DEF TypeOK, Weights, Held, Reserved, Stored, AdminHeld, Usage

\* A step that changes neither a row nor the bytes stranded moves no bytes.
LEMMA LedgerUnchanged ==
    ASSUME UNCHANGED <<row, stranded>>
    PROVE  /\ Reserved' = Reserved
           /\ Stored' = Stored
BY DEF Reserved, Stored

\* Removing a row and forgetting what was stranded for it frees its bytes.
LEMMA RowRemoved ==
    ASSUME TypeOK, NEW f \in Files,
           row' = [row EXCEPT ![f].status = "gone"],
           stranded' = [stranded EXCEPT ![f] = 0]
    PROVE  Reserved' = [Reserved EXCEPT ![f] = 0]
<1>1. row'[f].status = "gone" /\ stranded'[f] = 0
  BY DEF TypeOK, Weights
<1>2. \A g \in Files : g # f => row'[g] = row[g] /\ stranded'[g] = stranded[g]
  BY DEF TypeOK, Weights
<1>3. \A g \in Files : Reserved'[g] = IF g = f THEN 0 ELSE Reserved[g]
  BY <1>1, <1>2 DEF Reserved
<1>4. Reserved' = [g \in Files |-> IF g = f THEN 0 ELSE Reserved[g]]
  BY <1>3 DEF Reserved
<1>. QED  BY <1>4 DEF Reserved

LEMMA ExactStep == Serial /\ Shape /\ QuotaExact /\ [Next]_vars => QuotaExact'
<1>. SUFFICES ASSUME Serial, Shape, QuotaExact, [Next]_vars
              PROVE  QuotaExact'
  OBVIOUS
<1>0. /\ Reserved \in Weights /\ Stored \in Weights
      /\ AdminHeld \in Nat /\ leaked \in Nat
      /\ usage.used \in Nat /\ usage.pending \in Nat
      /\ Total(Reserved) \in Nat /\ Total(Stored) \in Nat
      /\ usage.used = Total(Stored)
      /\ usage.pending = Total(Reserved) + AdminHeld + leaked
      /\ usage = [used |-> usage.used, pending |-> usage.pending]
  BY WeightsType DEF Shape, TypeInv, TypeOK, QuotaExact, Usage
<1>1. CASE UNCHANGED <<row, stranded, usage, admin, leaked>>
  BY <1>1, LedgerUnchanged DEF QuotaExact, AdminHeld
<1>2. ASSUME NEW f \in Files, NEW n \in Sizes, SignUpload(f, n)
      PROVE  QuotaExact'
  <2>1. n \in 0..MaxBytes /\ n \in Nat
    BY DEF Sizes
  <2>2. Reserved' = [Reserved EXCEPT ![f] = n] /\ Reserved[f] = 0
    BY <1>2 DEF SignUpload, Reserved, Shape, RowsOK, TypeInv, TypeOK
  <2>3. Stored' = Stored
    BY <1>2 DEF SignUpload, Stored, CountedStatuses, Shape, TypeInv, TypeOK
  <2>4. Total([Reserved EXCEPT ![f] = n]) = Total(Reserved) - Reserved[f] + n
    BY <1>0, <2>1, TotalUpdate
  <2>5. usage' = [used |-> usage.used, pending |-> usage.pending + n]
        /\ admin' = admin /\ leaked' = leaked
    BY <1>0, <1>2 DEF SignUpload, ReserveQuota
  <2>. QED  BY <1>0, <2>1, <2>2, <2>3, <2>4, <2>5 DEF QuotaExact, AdminHeld
<1>3. ASSUME NEW n \in Sizes, SignUploadFails(n)
      PROVE  QuotaExact'
  <2>1. ReleaseQuota(ReserveQuota(usage, n), n) = usage
    <3>. DEFINE r == ReserveQuota(usage, n)
    <3>1. r.used = usage.used /\ r.pending = usage.pending + n
      BY <1>0 DEF ReserveQuota
    <3>2. ReleaseQuota(r, n) = [used |-> r.used, pending |-> Floor(r.pending - n)]
      <4>1. usage \in Usage /\ n \in Nat
        BY DEF Shape, TypeInv, TypeOK, Sizes
      <4>2. r \in Usage
        BY <4>1, UsageOperators
      <4>. QED  BY <4>1, <4>2, ReleaseRecord
    <3>. HIDE DEF r
    <3>3. Floor(r.pending - n) = usage.pending
      BY <1>0, <3>1 DEF Floor, Sizes
    <3>4. ReleaseQuota(r, n) = usage
      BY <1>0, <3>1, <3>2, <3>3
    <3>. QED  BY <3>4 DEF r
  <2>. QED  BY <1>1, <1>3, <2>1 DEF SignUploadFails
<1>4. ASSUME NEW f \in Files, NEW n \in Sizes, AdminReserve(f, n)
      PROVE  QuotaExact'
  <2>1. usage'.used = usage.used /\ usage'.pending = usage.pending + n
    BY <1>0, <1>4 DEF AdminReserve, ReserveQuota
  <2>2. AdminHeld = 0 /\ AdminHeld' = n /\ leaked' = leaked
    BY <1>4 DEF AdminReserve, AdminHeld
  <2>3. Reserved' = Reserved /\ Stored' = Stored
    BY <1>4, LedgerUnchanged DEF AdminReserve
  <2>. QED  BY <1>0, <2>1, <2>2, <2>3 DEF QuotaExact, Sizes
<1>5. CASE AdminInsert
  <2>. DEFINE f == admin.file
              n == admin.size
  <2>1. f \in Files /\ n \in 0..MaxBytes /\ row[f].status = "absent"
    BY <1>5 DEF AdminInsert, Shape, AdminOK, InsertsOnce, Sizes
  <2>2. Reserved' = [Reserved EXCEPT ![f] = n] /\ Reserved[f] = 0
    BY <1>5, <2>1 DEF AdminInsert, Reserved, Shape, RowsOK, TypeInv, TypeOK
  <2>3. Stored' = Stored
    BY <1>5, <2>1 DEF AdminInsert, Stored, CountedStatuses, Shape, TypeInv, TypeOK
  <2>4. Total([Reserved EXCEPT ![f] = n]) = Total(Reserved) - Reserved[f] + n
    BY <1>0, <2>1, TotalUpdate
  <2>5. AdminHeld = n /\ AdminHeld' = 0 /\ leaked' = leaked /\ usage' = usage
    BY <1>5 DEF AdminInsert, AdminHeld, Shape, TypeInv, TypeOK
  <2>. QED  BY <1>0, <2>1, <2>2, <2>3, <2>4, <2>5 DEF QuotaExact
<1>6. CASE AdminSignFails
  <2>. DEFINE f == admin.file
              n == admin.size
  <2>1. f \in Files /\ n \in 0..MaxBytes /\ Reserved[f] = n
        /\ row[f].status \in {"pending", "deleted"}
    BY <1>6 DEF AdminSignFails, Shape, AdminOK, Sizes
  <2>2. Reserved' = [Reserved EXCEPT ![f] = 0]
    <3>1. /\ row' = [row EXCEPT ![f].status = "gone"]
          /\ stranded' = [stranded EXCEPT ![f] = 0]
      BY <1>6 DEF AdminSignFails, Serial
    <3>. QED  BY <2>1, <3>1, RowRemoved DEF Shape, TypeInv
  <2>3. Stored' = Stored
    BY <1>6, <2>1 DEF AdminSignFails, Serial, Stored, CountedStatuses, Shape, TypeInv, TypeOK
  <2>4. Total([Reserved EXCEPT ![f] = 0]) = Total(Reserved) - Reserved[f] + 0
    BY <1>0, <2>1, TotalUpdate
  <2>5. AdminHeld = 0 /\ AdminHeld' = n /\ leaked' = leaked /\ usage' = usage
    BY <1>6 DEF AdminSignFails, AdminHeld, Shape, TypeInv, TypeOK
  <2>. QED  BY <1>0, <2>1, <2>2, <2>3, <2>4, <2>5 DEF QuotaExact
<1>7. CASE AdminSigned \/ AdminInsertFails
  <2>1. UNCHANGED <<row, stranded, usage, leaked>> /\ AdminHeld' = AdminHeld
    BY <1>7 DEF AdminSigned, AdminInsertFails, AdminHeld, IdleAdmin, Shape, TypeInv, TypeOK
  <2>. QED  BY <1>0, <2>1, LedgerUnchanged DEF QuotaExact
<1>8. CASE AdminUndo
  <2>1. admin.size \in Nat /\ AdminHeld = admin.size /\ AdminHeld' = 0
    BY <1>8 DEF AdminUndo, AdminHeld, IdleAdmin, Shape, TypeInv, TypeOK
  <2>2. usage'.used = usage.used /\ usage'.pending = usage.pending - admin.size
    BY <1>0, <1>8, <2>1 DEF AdminUndo, ReleaseQuota, Floor
  <2>3. UNCHANGED <<row, stranded, leaked>>
    BY <1>8 DEF AdminUndo
  <2>. QED  BY <1>0, <2>1, <2>2, <2>3, LedgerUnchanged DEF QuotaExact
<1>9. CASE AdminCrash
  <2>1. AdminHeld' = 0 /\ leaked' = leaked + AdminHeld
    BY <1>9 DEF AdminCrash, AdminHeld, IdleAdmin
  <2>2. UNCHANGED <<row, stranded, usage>>
    BY <1>9 DEF AdminCrash
  <2>. QED  BY <1>0, <2>1, <2>2, LedgerUnchanged DEF QuotaExact
<1>10. ASSUME NEW c \in Calls, CompleteCommit(c)
       PROVE  QuotaExact'
  <2>. DEFINE f == call[c].file
              r == call[c].reserved
              n == call[c].auth
  <2>0. UNCHANGED <<admin, leaked, stranded>>
    BY <1>10 DEF CompleteCommit
  <2>1. CASE row[f].status # "pending"
    BY <1>1, <1>10, <2>0, <2>1 DEF CompleteCommit
  <2>2. CASE row[f].status = "pending"
    <3>1. f \in Files /\ r \in 0..MaxBytes /\ n \in 0..MaxBytes /\ row[f].size = r
          /\ stranded[f] = 0
      BY <1>10, <2>2 DEF CompleteCommit, Shape, CallsOK, RowsOK, TypeInv, StatChecked, Sizes
    <3>2. row' = [row EXCEPT ![f] = [status |-> "uploaded", size |-> n]]
          /\ usage' = MarkUploaded(usage, r, n)
      BY <1>10, <2>2 DEF CompleteCommit
    <3>3. Reserved' = [Reserved EXCEPT ![f] = 0] /\ Reserved[f] = r
      BY <2>0, <2>2, <3>1, <3>2 DEF Reserved, Shape, TypeInv, TypeOK
    <3>4. Stored' = [Stored EXCEPT ![f] = n] /\ Stored[f] = 0
      BY <2>2, <3>1, <3>2 DEF Stored, CountedStatuses, Shape, TypeInv, TypeOK
    <3>5. Total([Reserved EXCEPT ![f] = 0]) = Total(Reserved) - r + 0 /\ r <= Total(Reserved)
      <4>1. 0 \in 0..MaxBytes
        OBVIOUS
      <4>2. /\ Total([Reserved EXCEPT ![f] = 0]) = Total(Reserved) - Reserved[f] + 0
            /\ Reserved[f] <= Total(Reserved)
        BY <1>0, <3>1, <4>1, TotalUpdate
      <4>. QED  BY <3>3, <4>2
    <3>6. Total([Stored EXCEPT ![f] = n]) = Total(Stored) - 0 + n
      <4>1. Total([Stored EXCEPT ![f] = n]) = Total(Stored) - Stored[f] + n
        BY <1>0, <3>1, TotalUpdate
      <4>. QED  BY <3>4, <4>1
    <3>7. usage'.used = usage.used + n /\ usage'.pending = usage.pending - r
      BY <1>0, <3>1, <3>2, <3>5 DEF MarkUploaded, Floor
    <3>. QED  BY <1>0, <2>0, <3>1, <3>3, <3>4, <3>5, <3>6, <3>7 DEF QuotaExact, AdminHeld
  <2>. QED  BY <2>1, <2>2
<1>11. ASSUME NEW c \in Calls, RejectRow(c)
       PROVE  QuotaExact'
  <2>. DEFINE f == call[c].file
              r == call[c].reserved
  <2>0. UNCHANGED <<admin, leaked>>
    BY <1>11 DEF RejectRow
  <2>1. CASE row[f].status \notin InTable
    BY <1>1, <1>11, <2>0, <2>1 DEF RejectRow
  <2>2. CASE row[f].status \in InTable
    <3>1. f \in Files /\ r \in 0..MaxBytes /\ row[f].status \in {"pending", "deleted"}
      BY <1>11, <2>2 DEF RejectRow, Shape, CallsOK, Sizes, InTable
    <3>2. /\ row' = [row EXCEPT ![f].status = "gone"]
          /\ usage' = ReleaseQuota(usage, r)
          /\ stranded' = [stranded EXCEPT ![f] = 0]
      BY <1>11, <2>2 DEF RejectRow
    <3>3. Reserved[f] = r
      BY <1>11, <3>1 DEF RejectRow, Reserved, Shape, CallsOK
    <3>4. Reserved' = [Reserved EXCEPT ![f] = 0]
      BY <3>1, <3>2, RowRemoved DEF Shape, TypeInv
    <3>5. Stored' = Stored
      BY <3>1, <3>2 DEF Stored, CountedStatuses, Shape, TypeInv, TypeOK
    <3>6. Total([Reserved EXCEPT ![f] = 0]) = Total(Reserved) - r + 0 /\ r <= Total(Reserved)
      BY <1>0, <3>1, <3>3, TotalUpdate
    <3>7. usage'.used = usage.used /\ usage'.pending = usage.pending - r
      BY <1>0, <3>1, <3>2, <3>6 DEF ReleaseQuota, Floor
    <3>. QED  BY <1>0, <2>0, <3>1, <3>4, <3>5, <3>6, <3>7 DEF QuotaExact, AdminHeld
  <2>. QED  BY <2>1, <2>2
<1>12. ASSUME NEW f \in Files, DeleteFile(f)
       PROVE  QuotaExact'
  <2>0. UNCHANGED <<admin, leaked>>
    BY <1>12 DEF DeleteFile
  <2>1. Reserved' = Reserved
    BY <1>12 DEF DeleteFile, Reserved, Held, Shape, RowsOK, TypeInv, TypeOK, Weights
  <2>2. Stored' = [Stored EXCEPT ![f] = 0] /\ Stored[f] \in 0..MaxBytes
    <3>1. row'[f].status = "deleted" /\ \A g \in Files : g # f => row'[g] = row[g]
      BY <1>12 DEF DeleteFile, Shape, TypeInv, TypeOK
    <3>2. Stored[f] \in 0..MaxBytes
      BY <1>0 DEF Weights
    <3>. QED  BY <3>1, <3>2 DEF Stored, CountedStatuses
  <2>3. Total([Stored EXCEPT ![f] = 0]) = Total(Stored) - Stored[f] + 0 /\ Stored[f] <= Total(Stored)
    <3>1. 0 \in 0..MaxBytes
      OBVIOUS
    <3>. QED  BY <1>0, <3>1, TotalUpdate
  <2>4. usage'.used = usage.used - Stored[f] /\ usage'.pending = usage.pending
    <3>1. CASE row[f].status = "uploaded"
      <4>1. Stored[f] = row[f].size /\ usage' = DecrementUsed(usage, row[f].size)
        BY <1>12, <3>1 DEF DeleteFile, Stored, CountedStatuses
      <4>2. Stored[f] \in Nat /\ Stored[f] <= usage.used
        BY <1>0, <2>2, <2>3
      <4>. QED  BY <1>0, <4>1, <4>2 DEF DecrementUsed, Floor
    <3>2. CASE row[f].status = "pending"
      BY <1>0, <1>12, <3>2 DEF DeleteFile, Stored, CountedStatuses
    <3>. QED  BY <1>12, <3>1, <3>2 DEF DeleteFile
  <2>. QED  BY <1>0, <2>0, <2>1, <2>2, <2>3, <2>4 DEF QuotaExact, AdminHeld
<1>13. CASE ReapPending
  <2>. DEFINE stale == {f \in Files : row[f].status = "pending" /\ age[f] = "stale"}
              u == [f \in Files |-> IF f \in stale THEN row[f].size ELSE 0]
              v == [f \in Files |-> IF f \in stale THEN 0 ELSE Reserved[f]]
  <2>0. UNCHANGED <<admin, leaked>>
    BY <1>13 DEF ReapPending
  <2>1. u \in Weights /\ v \in Weights
    BY <1>0 DEF Weights, Shape, TypeInv, TypeOK
  <2>2. \A f \in Files : \/ u[f] = 0 /\ v[f] = Reserved[f]
                         \/ v[f] = 0 /\ u[f] = Reserved[f]
    BY DEF Reserved
  <2>3. Total(Reserved) = Total(u) + Total(v) /\ Total(u) \in Nat /\ Total(v) \in Nat
    BY <1>0, <2>1, <2>2, TotalSplit, TotalType
  <2>4. Reserved' = v
    BY <1>13 DEF ReapPending, Reserved, Shape, RowsOK, TypeInv, TypeOK
  <2>5. Stored' = Stored
    BY <1>13 DEF ReapPending, Stored, CountedStatuses, Shape, TypeInv, TypeOK
  <2>6. usage' = ReleaseQuota(usage, Total(u))
    BY <1>13 DEF ReapPending
  <2>. HIDE DEF u, v, stale
  <2>7. usage'.used = usage.used /\ usage'.pending = usage.pending - Total(u)
    BY <1>0, <2>3, <2>6 DEF ReleaseQuota, Floor
  <2>. QED  BY <1>0, <2>0, <2>3, <2>4, <2>5, <2>7 DEF QuotaExact, AdminHeld
<1>14. ASSUME NEW f \in Files, ReapSoftDeleted(f)
       PROVE  QuotaExact'
  <2>1. Reserved' = Reserved /\ Stored' = Stored
    BY <1>14 DEF ReapSoftDeleted, Reserved, Stored, CountedStatuses, Shape, TypeInv, TypeOK
  <2>. QED  BY <1>0, <1>14, <2>1 DEF ReapSoftDeleted, QuotaExact, AdminHeld
<1>. QED
  BY <1>1, <1>2, <1>3, <1>4, <1>5, <1>6, <1>7, <1>8, <1>9, <1>10, <1>11, <1>12,
     <1>13, <1>14
  DEF Next, AdminStep, CompleteStep, vars, Put, CompleteLoad, CompleteStat, CompleteVerify,
      RejectObject, CompleteCrash, GrowOlder, EraseObject, EraseFails

LEMMA InitialExact == Init => QuotaExact
<1>. SUFFICES ASSUME Init
              PROVE  QuotaExact
  OBVIOUS
<1>1. Total(Stored) = 0 /\ Total(Reserved) = 0
  BY TotalZero DEF Init, Stored, Reserved, CountedStatuses
<1>. QED  BY <1>1 DEF Init, QuotaExact, NoUsage, AdminHeld, IdleAdmin

\* While completions of a file are serial, both counters are exactly the sums
\* over the rows, whatever the order of all other steps and crashes.
THEOREM SerialQuotaExact == Serial => (Spec => []QuotaExact)
<1>. SUFFICES ASSUME Serial
              PROVE  Spec => []QuotaExact
  OBVIOUS
<1>1. Init => Shape /\ QuotaExact
  BY InitialShape, InitialExact
<1>2. Shape /\ QuotaExact /\ [Next]_vars => (Shape /\ QuotaExact)'
  BY ShapeStep, ExactStep
<1>. QED  BY <1>1, <1>2, PTL DEF Spec

-----------------------------------------------------------------------------
\* Where PUTs are bounded by the signed size, no handler completes an upload
\* with more than was reserved for it.
ClaimsOK ==
    /\ \A f \in Files : row[f].status = "pending" => object[f].size <= row[f].size
    /\ \A c \in Calls :
          call[c].pc \in {"verify", "commit"} /\ row[call[c].file].status = "pending"
            => call[c].auth <= call[c].reserved

LEMMA ClaimsStep == Serial /\ PutsWithinClaim /\ Shape /\ ClaimsOK /\ [Next]_vars => ClaimsOK'
<1>. SUFFICES ASSUME PutsWithinClaim, Shape, ClaimsOK, [Next]_vars
              PROVE  ClaimsOK'
  OBVIOUS
<1>. USE DEF Shape, TypeInv, TypeOK, ClaimsOK
<1>0. ASSUME object' = object,
             \A f \in Files : row'[f] = row[f] \/ row'[f].status # "pending",
             \A c \in Calls : call'[c] = call[c] \/ call'[c].pc = "idle"
      PROVE  ClaimsOK'
  <2>1. \A c \in Calls : call[c].pc # "idle" => call[c].file \in Files
    BY DEF CallsOK
  <2>. QED  BY <1>0, <2>1
<1>1. CASE UNCHANGED <<row, object, call>>
  BY <1>1
<1>2. ASSUME NEW f \in Files, NEW n \in Sizes, SignUpload(f, n)
      PROVE  ClaimsOK'
  BY <1>2 DEF SignUpload, RowsOK, CallsOK, NoObject, Sizes
<1>3. CASE AdminInsert
  BY <1>3 DEF AdminInsert, InsertsOnce, RowsOK, CallsOK, NoObject
<1>4. CASE AdminSignFails
  <2>1. \A f \in Files : row'[f] = row[f] \/ row'[f].status # "pending"
    BY <1>4 DEF AdminSignFails
  <2>. QED  BY <1>0, <1>4, <2>1 DEF AdminSignFails
<1>5. ASSUME NEW f \in Files, NEW o \in Objects \ {NoObject}, Put(f, o)
      PROVE  ClaimsOK'
  BY <1>5 DEF Put
<1>6. ASSUME NEW c \in Calls, NEW f \in Files, CompleteLoad(c, f)
      PROVE  ClaimsOK'
  BY <1>6 DEF CompleteLoad
<1>7. ASSUME NEW c \in Calls, CompleteStat(c)
      PROVE  ClaimsOK'
  BY <1>7 DEF CompleteStat, CallsOK
<1>8. ASSUME NEW c \in Calls, CompleteVerify(c)
      PROVE  ClaimsOK'
  BY <1>8 DEF CompleteVerify, IdleCall
<1>9. ASSUME NEW c \in Calls, CompleteCommit(c)
      PROVE  ClaimsOK'
  <2>1. \A f \in Files : row'[f] = row[f] \/ row'[f].status # "pending"
    BY <1>9 DEF CompleteCommit
  <2>2. \A d \in Calls : call'[d] = call[d] \/ call'[d].pc = "idle"
    BY <1>9 DEF CompleteCommit, IdleCall
  <2>. QED  BY <1>0, <1>9, <2>1, <2>2 DEF CompleteCommit
<1>10. ASSUME NEW c \in Calls, RejectObject(c)
       PROVE  ClaimsOK'
  BY <1>10 DEF RejectObject, RowsOK, NoObject, Sizes
<1>11. ASSUME NEW c \in Calls, RejectRow(c) \/ CompleteCrash(c)
       PROVE  ClaimsOK'
  <2>1. \A f \in Files : row'[f] = row[f] \/ row'[f].status # "pending"
    BY <1>11 DEF RejectRow, CompleteCrash
  <2>2. \A d \in Calls : call'[d] = call[d] \/ call'[d].pc = "idle"
    BY <1>11 DEF RejectRow, CompleteCrash, IdleCall
  <2>. QED  BY <1>0, <1>11, <2>1, <2>2 DEF RejectRow, CompleteCrash
<1>12. ASSUME NEW f \in Files, DeleteFile(f) \/ ReapSoftDeleted(f)
       PROVE  ClaimsOK'
  <2>1. \A g \in Files : row'[g] = row[g] \/ row'[g].status # "pending"
    BY <1>12 DEF DeleteFile, ReapSoftDeleted
  <2>. QED  BY <1>0, <1>12, <2>1 DEF DeleteFile, ReapSoftDeleted
<1>13. CASE ReapPending
  BY <1>13 DEF ReapPending, CallsOK
<1>14. ASSUME NEW f \in Files, EraseObject(f)
       PROVE  ClaimsOK'
  BY <1>14 DEF EraseObject, RowsOK, NoObject, Sizes
<1>. QED
  BY <1>1, <1>2, <1>3, <1>4, <1>5, <1>6, <1>7, <1>8, <1>9, <1>10, <1>11, <1>12, <1>13, <1>14
  DEF Next, AdminStep, CompleteStep, vars, AdminReserve, SignUploadFails, AdminSigned,
      AdminUndo, AdminInsertFails, AdminCrash, GrowOlder, EraseFails

\* No step but a guarded reservation lets the counters grow.
LEMMA LimitStep ==
    Serial /\ PutsWithinClaim /\ Shape /\ ClaimsOK /\ QuotaExact /\ WithinLimit /\ [Next]_vars
      => WithinLimit'
<1>. SUFFICES ASSUME Serial, Shape, ClaimsOK, QuotaExact, WithinLimit, [Next]_vars
              PROVE  WithinLimit'
  OBVIOUS
<1>0. /\ usage \in Usage /\ usage.used \in Nat /\ usage.pending \in Nat
      /\ usage.used + usage.pending <= Limit
  BY WeightsType DEF Shape, TypeInv, TypeOK, WithinLimit
<1>. DEFINE Shrinks == usage'.used <= usage.used /\ usage'.pending <= usage.pending
                       /\ usage'.used \in Nat /\ usage'.pending \in Nat
<1>1. ASSUME Shrinks
      PROVE  WithinLimit'
  BY <1>0, <1>1 DEF WithinLimit
<1>2. \A n \in Nat : /\ ReleaseQuota(usage, n).used <= usage.used
                     /\ ReleaseQuota(usage, n).pending <= usage.pending
                     /\ ReleaseQuota(usage, n).used \in Nat
                     /\ ReleaseQuota(usage, n).pending \in Nat
                     /\ DecrementUsed(usage, n).used <= usage.used
                     /\ DecrementUsed(usage, n).pending <= usage.pending
                     /\ DecrementUsed(usage, n).used \in Nat
                     /\ DecrementUsed(usage, n).pending \in Nat
  BY <1>0 DEF ReleaseQuota, DecrementUsed, Floor, Usage
<1>3. CASE UNCHANGED usage
  BY <1>0, <1>1, <1>3
<1>4. ASSUME NEW f \in Files, NEW n \in Sizes, SignUpload(f, n) \/ AdminReserve(f, n)
      PROVE  WithinLimit'
  BY <1>0, <1>4 DEF SignUpload, AdminReserve, FitsQuota, ReserveQuota, WithinLimit, Usage, Sizes
<1>5. ASSUME NEW n \in Sizes, SignUploadFails(n)
      PROVE  WithinLimit'
  <2>1. usage.used + usage.pending + n <= Limit /\ n \in Nat
    BY <1>5 DEF SignUploadFails, FitsQuota, Sizes
  <2>. DEFINE r == ReserveQuota(usage, n)
  <2>2. r \in Usage /\ r.used = usage.used /\ r.pending = usage.pending + n
    BY <1>0, <2>1 DEF ReserveQuota, Usage
  <2>3. usage' = ReleaseQuota(r, n)
    BY <1>5 DEF SignUploadFails
  <2>. HIDE DEF r
  <2>4. usage' = [used |-> r.used, pending |-> Floor(r.pending - n)]
    BY <2>1, <2>2, <2>3, ReleaseRecord
  <2>. QED  BY <1>0, <1>1, <2>1, <2>2, <2>4 DEF Floor
<1>6. CASE AdminUndo
  <2>1. admin.size \in Nat /\ usage' = ReleaseQuota(usage, admin.size)
    BY <1>6 DEF AdminUndo, Shape, TypeInv, TypeOK
  <2>. QED  BY <1>1, <1>2, <2>1
<1>7. ASSUME NEW c \in Calls, CompleteCommit(c), row[call[c].file].status = "pending"
      PROVE  WithinLimit'
  <2>. DEFINE f == call[c].file
              r == call[c].reserved
              n == call[c].auth
  <2>1. f \in Files /\ r \in Nat /\ n \in Nat /\ n <= r /\ Reserved[f] = r
    BY <1>7 DEF CompleteCommit, Shape, CallsOK, ClaimsOK, TypeInv, TypeOK, Reserved
  <2>2. r <= usage.pending
    <3>1. 0 \in 0..MaxBytes
      OBVIOUS
    <3>2. Reserved[f] <= Total(Reserved)
      BY <2>1, <3>1, WeightsType, TotalUpdate DEF Shape, TypeInv
    <3>. QED  BY <2>1, <3>2, WeightsType DEF QuotaExact, Shape, TypeInv
  <2>3. usage' = [used |-> usage.used + n, pending |-> Floor(usage.pending - r)]
    BY <1>7 DEF CompleteCommit, MarkUploaded
  <2>. QED  BY <1>0, <2>1, <2>2, <2>3 DEF WithinLimit, Floor
<1>8. ASSUME NEW c \in Calls, CompleteCommit(c), row[call[c].file].status # "pending"
      PROVE  WithinLimit'
  BY <1>3, <1>8 DEF CompleteCommit
<1>9. ASSUME NEW c \in Calls, RejectRow(c)
      PROVE  WithinLimit'
  <2>1. call[c].reserved \in Nat
    BY DEF Shape, TypeInv, TypeOK
  <2>2. usage' = ReleaseQuota(usage, call[c].reserved) \/ usage' = usage
    BY <1>9 DEF RejectRow
  <2>. QED  BY <1>1, <1>2, <1>3, <2>1, <2>2
<1>10. ASSUME NEW f \in Files, DeleteFile(f)
       PROVE  WithinLimit'
  <2>1. row[f].size \in Nat
    BY DEF Shape, TypeInv, TypeOK
  <2>2. usage' = DecrementUsed(usage, row[f].size) \/ usage' = usage
    BY <1>10 DEF DeleteFile
  <2>. QED  BY <1>1, <1>2, <1>3, <2>1, <2>2
<1>11. CASE ReapPending
  <2>1. PICK w : usage' = ReleaseQuota(usage, Total(w))
    BY <1>11 DEF ReapPending
  <2>2. Total(w) \in Nat
    BY TotalType
  <2>. QED  BY <1>1, <1>2, <2>1, <2>2
<1>. QED
  BY <1>3, <1>4, <1>5, <1>6, <1>7, <1>8, <1>9, <1>10, <1>11
  DEF Next, AdminStep, CompleteStep, vars, AdminInsert, AdminSigned, AdminSignFails,
      AdminInsertFails, AdminCrash, Put, CompleteLoad, CompleteStat, CompleteVerify,
      RejectObject, CompleteCrash, GrowOlder, ReapSoftDeleted, EraseObject, EraseFails

\* If moreover the adapter bounds a PUT by the signed size, no interleaving of
\* reservations, completions and refunds takes the tenant past its limit.
THEOREM SerialWithinLimit == Serial /\ PutsWithinClaim => (Spec => []WithinLimit)
<1>. SUFFICES ASSUME Serial, PutsWithinClaim
              PROVE  Spec => []WithinLimit
  OBVIOUS
<1>1. Init => Shape /\ ClaimsOK /\ QuotaExact /\ WithinLimit
  <2>1. Init => ClaimsOK /\ WithinLimit
    BY DEF Init, ClaimsOK, WithinLimit, NoUsage, IdleCall
  <2>. QED  BY <2>1, InitialShape, InitialExact
<1>2. Shape /\ ClaimsOK /\ QuotaExact /\ WithinLimit /\ [Next]_vars
        => (Shape /\ ClaimsOK /\ QuotaExact /\ WithinLimit)'
  BY ShapeStep, ClaimsStep, ExactStep, LimitStep
<1>. QED  BY <1>1, <1>2, PTL DEF Spec

\* While completions of a file are serial, an upload that became a real file
\* leaves the table through a tombstone only.
THEOREM SerialUploadsKept == Serial => (Spec => UploadedEndsInTombstone)
<1>. SUFFICES ASSUME Serial
              PROVE  Spec => UploadedEndsInTombstone
  OBVIOUS
<1>1. Shape /\ [Next]_vars
        => [\A f \in Files : row[f].status = "uploaded"
              => row'[f].status \in {"uploaded", "deleted"}]_vars
  <2>. SUFFICES ASSUME Shape, Next, NEW f \in Files, row[f].status = "uploaded"
                PROVE  row'[f].status \in {"uploaded", "deleted"}
    OBVIOUS
  <2>. USE DEF Shape, TypeInv, TypeOK
  <2>1. CASE UNCHANGED row
    BY <2>1
  <2>2. ASSUME NEW g \in Files, NEW n \in Sizes, SignUpload(g, n)
        PROVE  row'[f].status \in {"uploaded", "deleted"}
    BY <2>2 DEF SignUpload
  <2>3. CASE AdminInsert \/ AdminSignFails
    BY <2>3 DEF AdminInsert, AdminSignFails, InsertsOnce, AdminOK
  <2>4. ASSUME NEW c \in Calls, RejectRow(c) \/ CompleteCommit(c)
        PROVE  row'[f].status \in {"uploaded", "deleted"}
    BY <2>4 DEF RejectRow, CompleteCommit, CallsOK
  <2>5. ASSUME NEW g \in Files, DeleteFile(g) \/ ReapSoftDeleted(g)
        PROVE  row'[f].status \in {"uploaded", "deleted"}
    BY <2>5 DEF DeleteFile, ReapSoftDeleted
  <2>6. CASE ReapPending
    BY <2>6 DEF ReapPending
  <2>. QED
    BY <2>1, <2>2, <2>3, <2>4, <2>5, <2>6
    DEF Next, AdminStep, CompleteStep, AdminReserve, SignUploadFails, AdminSigned,
        AdminUndo, AdminInsertFails, AdminCrash, Put, CompleteLoad, CompleteStat,
        CompleteVerify, RejectObject, CompleteCrash, GrowOlder, EraseObject, EraseFails
<1>. QED  BY <1>1, InitialShape, ShapeStep, PTL DEF Spec, UploadedEndsInTombstone

-----------------------------------------------------------------------------
(***************************************************************************)
(* bytes_used, however requests race.                                      *)
(***************************************************************************)
\* What the row of one file adds to bytes_used.
Counts(r) == IF r.status \in CountedStatuses THEN r.size ELSE 0

\* Writing one row changes what is stored by that row alone.
LEMMA RowWritten ==
    ASSUME TypeOK, NEW f \in Files, NEW r \in [status : Statuses, size : 0..MaxBytes],
           row' = [row EXCEPT ![f] = r]
    PROVE  /\ Stored' = [Stored EXCEPT ![f] = Counts(r)]
           /\ Stored[f] = Counts(row[f])
           /\ Stored[f] \in 0..MaxBytes /\ Counts(r) \in 0..MaxBytes
           /\ Total(Stored)' = Total(Stored) - Stored[f] + Counts(r)
           /\ Stored[f] <= Total(Stored)
<1>1. Stored \in Weights
  BY WeightsType
<1>2. Counts(r) \in 0..MaxBytes
  BY DEF Counts
<1>3. Stored' = [Stored EXCEPT ![f] = Counts(r)]
  BY DEF Stored, Counts, TypeOK
<1>4. /\ Total([Stored EXCEPT ![f] = Counts(r)]) = Total(Stored) - Stored[f] + Counts(r)
      /\ Stored[f] \in 0..MaxBytes
      /\ Stored[f] <= Total(Stored)
  BY <1>1, <1>2, TotalUpdate
<1>5. Stored[f] = Counts(row[f])
  BY DEF Stored, Counts
<1>. QED  BY <1>2, <1>3, <1>4, <1>5

LEMMA UsedCoversStep ==
    TypeInv /\ InsertsOnce /\ UsedCoversStored /\ [Next]_vars => UsedCoversStored'
<1>. SUFFICES ASSUME TypeInv, InsertsOnce, UsedCoversStored, [Next]_vars
              PROVE  UsedCoversStored'
  OBVIOUS
<1>. USE DEF TypeInv
<1>0. /\ usage \in Usage /\ usage.used \in Nat /\ usage.pending \in Nat
      /\ Total(Stored) \in Nat /\ Total(Stored) <= usage.used
  BY WeightsType DEF TypeOK, UsedCoversStored
<1>1. CASE UNCHANGED <<row, usage>>
  BY <1>1 DEF UsedCoversStored, Stored
<1>2. ASSUME UNCHANGED row, usage'.used = usage.used
      PROVE  UsedCoversStored'
  BY <1>2 DEF UsedCoversStored, Stored
<1>3. ASSUME NEW f \in Files, NEW r \in [status : Statuses, size : 0..MaxBytes],
             row' = [row EXCEPT ![f] = r], usage'.used = usage.used, Counts(r) = 0
      PROVE  UsedCoversStored'
  <2>1. /\ Total(Stored)' = Total(Stored) - Counts(row[f]) + 0
        /\ Counts(row[f]) \in 0..MaxBytes
    BY <1>3, RowWritten
  <2>. QED  BY <1>0, <1>3, <2>1 DEF UsedCoversStored
<1>4. ASSUME NEW f \in Files, NEW n \in Sizes, SignUpload(f, n)
      PROVE  UsedCoversStored'
  <2>. DEFINE r == [status |-> "pending", size |-> n]
  <2>1. r \in [status : Statuses, size : 0..MaxBytes] /\ Counts(r) = 0
    BY DEF Statuses, Sizes, Counts, CountedStatuses
  <2>2. row' = [row EXCEPT ![f] = r]
    BY <1>4 DEF SignUpload
  <2>3. usage'.used = usage.used
    BY <1>0, <1>4 DEF SignUpload, ReserveQuota, Usage
  <2>. HIDE DEF r
  <2>. QED  BY <1>3, <2>1, <2>2, <2>3
<1>5. ASSUME NEW f \in Files, NEW n \in Sizes, AdminReserve(f, n)
      PROVE  UsedCoversStored'
  BY <1>0, <1>2, <1>5 DEF AdminReserve, ReserveQuota, Usage
<1>6. ASSUME NEW n \in Sizes, SignUploadFails(n)
      PROVE  UsedCoversStored'
  BY <1>0, <1>2, <1>6 DEF SignUploadFails, ReserveQuota, ReleaseQuota, Usage
<1>7. CASE AdminUndo
  BY <1>0, <1>2, <1>7 DEF AdminUndo, ReleaseQuota, Usage
<1>8. CASE AdminInsert
  <2>. DEFINE r == [status |-> "pending", size |-> admin.size]
  <2>1. r \in [status : Statuses, size : 0..MaxBytes] /\ Counts(r) = 0
    BY DEF TypeOK, Statuses, Counts, CountedStatuses
  <2>2. admin.file \in Files
    BY <1>8 DEF AdminInsert, InsertsOnce
  <2>3. row' = [row EXCEPT ![admin.file] = r] /\ usage'.used = usage.used
    BY <1>8 DEF AdminInsert
  <2>. HIDE DEF r
  <2>. QED  BY <1>3, <2>1, <2>2, <2>3
<1>9. ASSUME NEW f, NEW n \in Nat, row' = [row EXCEPT ![f].status = "gone"],
             usage' = usage \/ usage' = ReleaseQuota(usage, n)
      PROVE  UsedCoversStored'
  <2>0. usage'.used = usage.used
    BY <1>0, <1>9 DEF ReleaseQuota, Usage
  <2>1. CASE f \in Files
    <3>. DEFINE r == [row[f] EXCEPT !.status = "gone"]
    <3>1. r \in [status : Statuses, size : 0..MaxBytes] /\ Counts(r) = 0
      BY <2>1 DEF TypeOK, Statuses, Counts, CountedStatuses
    <3>2. row' = [row EXCEPT ![f] = r]
      BY <1>9
    <3>. HIDE DEF r
    <3>. QED  BY <1>3, <2>0, <2>1, <3>1, <3>2
  <2>2. CASE f \notin Files
    <3>1. row' = row
      BY <1>9, <2>2 DEF TypeOK
    <3>. QED  BY <1>2, <2>0, <3>1
  <2>. QED  BY <2>1, <2>2
<1>10. CASE AdminSignFails
  BY <1>1, <1>9, <1>10 DEF AdminSignFails
<1>11. ASSUME NEW c \in Calls, RejectRow(c)
       PROVE  UsedCoversStored'
  <2>1. call[c].reserved \in Nat
    BY DEF TypeOK
  <2>. QED  BY <1>1, <1>9, <1>11, <2>1 DEF RejectRow
<1>12. ASSUME NEW f \in Files, ReapSoftDeleted(f)
       PROVE  UsedCoversStored'
  BY <1>9, <1>12 DEF ReapSoftDeleted
<1>13. CASE ReapPending
  <2>1. Stored' = Stored
    BY <1>13 DEF ReapPending, Stored, CountedStatuses, TypeOK
  <2>2. usage'.used = usage.used
    BY <1>0, <1>13 DEF ReapPending, ReleaseQuota, Usage
  <2>. QED  BY <1>0, <2>1, <2>2 DEF UsedCoversStored
<1>14. ASSUME NEW c \in Calls, CompleteCommit(c), row[call[c].file].status = "pending",
              call[c].file \in Files
       PROVE  UsedCoversStored'
  <2>. DEFINE f == call[c].file
              r == [status |-> "uploaded", size |-> call[c].auth]
  <2>1. r \in [status : Statuses, size : 0..MaxBytes] /\ Counts(r) = call[c].auth
    BY <1>14 DEF CompleteCommit, StatChecked, Statuses, Sizes, Counts, CountedStatuses
  <2>2. Counts(row[f]) = 0 /\ row' = [row EXCEPT ![f] = r] /\ f \in Files
    BY <1>14 DEF CompleteCommit, Counts, CountedStatuses
  <2>3. usage'.used = usage.used + call[c].auth
    BY <1>0, <1>14 DEF CompleteCommit, MarkUploaded
  <2>. HIDE DEF r, f
  <2>4. Total(Stored)' = Total(Stored) - 0 + call[c].auth /\ call[c].auth \in 0..MaxBytes
    BY <2>1, <2>2, RowWritten
  <2>. QED  BY <1>0, <2>3, <2>4 DEF UsedCoversStored
<1>15. ASSUME NEW c \in Calls, CompleteCommit(c),
              row[call[c].file].status # "pending" \/ call[c].file \notin Files
       PROVE  UsedCoversStored'
  <2>1. CASE row[call[c].file].status # "pending"
    BY <1>1, <1>15, <2>1 DEF CompleteCommit
  <2>2. CASE call[c].file \notin Files /\ row[call[c].file].status = "pending"
    <3>1. call[c].auth \in Nat /\ usage' = MarkUploaded(usage, call[c].reserved, call[c].auth)
      BY <1>15, <2>2 DEF CompleteCommit, TypeOK
    <3>2. usage'.used = usage.used + call[c].auth
      BY <3>1 DEF MarkUploaded
    <3>3. row' = row
      BY <1>15, <2>2 DEF CompleteCommit, TypeOK
    <3>. QED  BY <1>0, <3>1, <3>2, <3>3 DEF UsedCoversStored, Stored
  <2>. QED  BY <1>15, <2>1, <2>2
<1>16. ASSUME NEW f \in Files, DeleteFile(f)
       PROVE  UsedCoversStored'
  <2>. DEFINE r == [row[f] EXCEPT !.status = "deleted"]
  <2>1. r \in [status : Statuses, size : 0..MaxBytes] /\ Counts(r) = 0
    BY DEF TypeOK, Statuses, Counts, CountedStatuses
  <2>2. row' = [row EXCEPT ![f] = r]
    BY <1>16 DEF DeleteFile
  <2>. HIDE DEF r
  <2>3. /\ Total(Stored)' = Total(Stored) - Counts(row[f]) + 0
        /\ Counts(row[f]) \in 0..MaxBytes /\ Counts(row[f]) <= Total(Stored)
    BY <2>1, <2>2, RowWritten
  <2>4. usage'.used = usage.used - Counts(row[f])
    <3>1. CASE row[f].status = "uploaded"
      <4>1. Counts(row[f]) = row[f].size /\ usage' = DecrementUsed(usage, row[f].size)
        BY <1>16, <3>1 DEF DeleteFile, Counts, CountedStatuses
      <4>. QED  BY <1>0, <2>3, <4>1 DEF DecrementUsed, Floor, Usage
    <3>2. CASE row[f].status = "pending"
      BY <1>0, <1>16, <3>2 DEF DeleteFile, Counts, CountedStatuses
    <3>. QED  BY <1>16, <3>1, <3>2 DEF DeleteFile
  <2>. QED  BY <1>0, <2>3, <2>4 DEF UsedCoversStored
<1>17. CASE UNCHANGED vars
  BY <1>1, <1>17 DEF vars
<1>. QED
  BY <1>1, <1>4, <1>5, <1>6, <1>7, <1>8, <1>10, <1>11, <1>12, <1>13, <1>14, <1>15, <1>16, <1>17
  DEF Next, AdminStep, CompleteStep, AdminSigned, AdminInsertFails, AdminCrash, Put,
      CompleteLoad, CompleteStat, CompleteVerify, RejectObject, CompleteCrash, GrowOlder,
      EraseObject, EraseFails

\* However completions, rejections, deletes and crashes race, bytes_used covers the
\* live completed files: no refund is paid twice or for a row that was not counted.
THEOREM UsedAlwaysCovers == Spec => []UsedCoversStored
<1>1. Init => TypeInv /\ InsertsOnce /\ UsedCoversStored
  <2>. SUFFICES ASSUME Init
                PROVE  TypeInv /\ InsertsOnce /\ UsedCoversStored
    OBVIOUS
  <2>1. Total(Stored) = 0
    BY TotalZero DEF Init, Stored, CountedStatuses
  <2>2. InsertsOnce /\ UsedCoversStored
    BY <2>1 DEF Init, InsertsOnce, IdleAdmin, UsedCoversStored, NoUsage
  <2>. QED  BY <2>2, InitialTypes
<1>2. TypeInv /\ InsertsOnce /\ UsedCoversStored /\ [Next]_vars
        => (TypeInv /\ InsertsOnce /\ UsedCoversStored)'
  BY StatCheckedStep, TypeStep, InsertsOnceStep, UsedCoversStep DEF TypeInv
<1>. QED  BY <1>1, <1>2, PTL DEF Spec

-----------------------------------------------------------------------------
(***************************************************************************)
(* The objects of completed files, in the serial case.                     *)
(***************************************************************************)
\* A handler that deletes objects after its commit has removed the row before ...
ErasingOK == \A f \in erasing : row[f].status \in {"deleted", "gone"}

\* ... and what a /complete verified is still there when it commits.
VerifiedOK == \A c \in Calls :
    call[c].pc = "commit" /\ row[call[c].file].status = "pending" => Has(call[c].file)

ObjectInv == ErasingOK /\ VerifiedOK /\ StoredHaveObject

LEMMA ObjectStep == Serial /\ Shape /\ ObjectInv /\ [Next]_vars => ObjectInv'
<1>. SUFFICES ASSUME Serial, Shape, ObjectInv, [Next]_vars
              PROVE  ObjectInv'
  OBVIOUS
<1>. USE DEF Serial, Shape, TypeInv, TypeOK, ObjectInv
<1>1. CASE UNCHANGED <<row, object, call, erasing>>
  BY <1>1 DEF ErasingOK, VerifiedOK, StoredHaveObject, Has
<1>2. ASSUME NEW f \in Files, row[f].status = "absent", row' \in [Files -> [status : Statuses, size : 0..MaxBytes]],
             row'[f].status = "pending", \A g \in Files : g # f => row'[g] = row[g],
             UNCHANGED <<object, call, erasing>>
      PROVE  ObjectInv'
  <2>1. ErasingOK'
    BY <1>2 DEF ErasingOK
  <2>2. \A c \in Calls : call[c].pc # "idle" => call[c].file # f
    BY <1>2 DEF CallsOK
  <2>3. VerifiedOK'
    BY <1>2, <2>2 DEF VerifiedOK, CallsOK, Has
  <2>4. StoredHaveObject'
    BY <1>2 DEF StoredHaveObject, CountedStatuses, Has
  <2>. QED  BY <2>1, <2>3, <2>4
<1>3. ASSUME NEW S \in SUBSET Files, \A f \in S : row'[f].status \in {"deleted", "gone"},
             \A f \in Files \ S : row'[f] = row[f],
             UNCHANGED <<object, call>>, erasing' \subseteq erasing \cup S
      PROVE  ObjectInv'
  <2>1. ErasingOK'
    BY <1>3 DEF ErasingOK
  <2>2. VerifiedOK'
    <3>. SUFFICES ASSUME NEW c \in Calls, call[c].pc = "commit",
                         row'[call[c].file].status = "pending"
                  PROVE  Has(call[c].file)'
      BY <1>3 DEF VerifiedOK
    <3>1. call[c].file \in Files \ S
      BY <1>3 DEF CallsOK
    <3>. QED  BY <1>3, <3>1 DEF VerifiedOK, Has
  <2>3. StoredHaveObject'
    BY <1>3 DEF StoredHaveObject, CountedStatuses, Has
  <2>. QED  BY <2>1, <2>2, <2>3
<1>4. ASSUME NEW f \in Files, NEW n \in Sizes, SignUpload(f, n)
      PROVE  ObjectInv'
  <2>1. row' = [row EXCEPT ![f] = [status |-> "pending", size |-> n]] /\ row[f].status = "absent"
    BY <1>4 DEF SignUpload
  <2>2. row' \in [Files -> [status : Statuses, size : 0..MaxBytes]]
    BY <2>1 DEF Statuses, Sizes
  <2>. QED  BY <1>2, <1>4, <2>1, <2>2 DEF SignUpload
<1>5. CASE AdminInsert
  <2>. DEFINE f == admin.file
  <2>1. f \in Files /\ row[f].status = "absent"
        /\ row' = [row EXCEPT ![f] = [status |-> "pending", size |-> admin.size]]
    BY <1>5 DEF AdminInsert, InsertsOnce
  <2>2. row' \in [Files -> [status : Statuses, size : 0..MaxBytes]]
    BY <2>1 DEF Statuses
  <2>. QED  BY <1>2, <1>5, <2>1, <2>2 DEF AdminInsert
<1>6. CASE AdminSignFails
  <2>1. admin.file \in Files /\ row' = [row EXCEPT ![admin.file].status = "gone"]
    BY <1>6 DEF AdminSignFails, AdminOK
  <2>2. \A f \in {admin.file} : row'[f].status \in {"deleted", "gone"}
    BY <2>1
  <2>3. \A f \in Files \ {admin.file} : row'[f] = row[f]
    BY <2>1
  <2>4. UNCHANGED <<object, call>> /\ erasing' \subseteq erasing \cup {admin.file}
    BY <1>6 DEF AdminSignFails
  <2>5. {admin.file} \in SUBSET Files
    BY <2>1
  <2>. QED  BY <1>3, <2>2, <2>3, <2>4, <2>5
<1>7. ASSUME NEW f \in Files, NEW o \in Objects \ {NoObject}, Put(f, o)
      PROVE  ObjectInv'
  <2>1. \A g \in Files : Has(g) => Has(g)'
    BY <1>7 DEF Put, Has
  <2>. QED  BY <1>7, <2>1 DEF Put, ErasingOK, VerifiedOK, StoredHaveObject, CallsOK
<1>8. ASSUME NEW c \in Calls, NEW f \in Files, CompleteLoad(c, f)
      PROVE  ObjectInv'
  BY <1>8 DEF CompleteLoad, ErasingOK, VerifiedOK, StoredHaveObject, Has
<1>9. ASSUME NEW c \in Calls, CompleteStat(c) \/ CompleteCrash(c)
      PROVE  ObjectInv'
  <2>1. UNCHANGED <<row, object, erasing>>
    BY <1>9 DEF CompleteStat, CompleteCrash
  <2>2. \A d \in Calls : call'[d].pc = "commit" => call'[d] = call[d]
    BY <1>9 DEF CompleteStat, CompleteCrash, IdleCall
  <2>. QED  BY <2>1, <2>2 DEF ErasingOK, VerifiedOK, StoredHaveObject, Has
<1>10. ASSUME NEW c \in Calls, CompleteVerify(c)
       PROVE  ObjectInv'
  <2>1. UNCHANGED <<row, object, erasing>>
    BY <1>10 DEF CompleteVerify
  <2>2. \A d \in Calls : call'[d].pc = "commit" =>
          call'[d] = call[d] \/ Has(call'[d].file)
    <3>1. \A d \in Calls : d # c => call'[d] = call[d]
      BY <1>10 DEF CompleteVerify
    <3>2. CASE object[call[c].file] = NoObject
      BY <1>10, <3>1, <3>2 DEF CompleteVerify, IdleCall, NoObject
    <3>3. CASE object[call[c].file] # NoObject
      <4>1. call'[c] = IF object[call[c].file].sound THEN [call[c] EXCEPT !.pc = "commit"]
                                                   ELSE [call[c] EXCEPT !.pc = "reject"]
        BY <1>10, <3>3 DEF CompleteVerify
      <4>2. call'[c].file = call[c].file
        BY <4>1
      <4>. QED  BY <3>1, <3>3, <4>2 DEF Has
    <3>. QED  BY <3>2, <3>3
  <2>. QED  BY <2>1, <2>2 DEF ErasingOK, VerifiedOK, StoredHaveObject, Has
<1>11. ASSUME NEW c \in Calls, CompleteCommit(c)
       PROVE  ObjectInv'
  <2>. DEFINE f == call[c].file
  <2>1. f \in Files
    BY <1>11 DEF CompleteCommit, CallsOK
  <2>2. ErasingOK'
    BY <1>11, <2>1 DEF CompleteCommit, ErasingOK
  <2>3. VerifiedOK'
    BY <1>11, <2>1 DEF CompleteCommit, VerifiedOK, CallsOK, CallsDisjoint, IdleCall, Has
  <2>4. StoredHaveObject'
    BY <1>11, <2>1 DEF CompleteCommit, VerifiedOK, StoredHaveObject, CountedStatuses, Has
  <2>. QED  BY <2>2, <2>3, <2>4
<1>12. ASSUME NEW c \in Calls, RejectObject(c)
       PROVE  ObjectInv'
  <2>. DEFINE f == call[c].file
  <2>1. f \in Files /\ row[f].status \notin CountedStatuses
    BY <1>12 DEF RejectObject, CallsOK, CountedStatuses
  <2>2. \A g \in Files : g # f => (Has(g) => Has(g)')
    BY <1>12 DEF RejectObject, Has
  <2>3. ErasingOK'
    BY <1>12 DEF RejectObject, ErasingOK
  <2>4. VerifiedOK'
    <3>. SUFFICES ASSUME NEW d \in Calls, call'[d].pc = "commit",
                         row[call'[d].file].status = "pending"
                  PROVE  object'[call'[d].file] # NoObject
      BY <1>12 DEF RejectObject, VerifiedOK, Has
    <3>1. d # c /\ call'[d] = call[d]
      BY <1>12 DEF RejectObject
    <3>2. call[d].file # f /\ call[d].file \in Files
      BY <1>12, <3>1 DEF RejectObject, CallsOK, CallsDisjoint
    <3>. QED  BY <1>12, <2>2, <3>1, <3>2 DEF RejectObject, VerifiedOK, Has
  <2>5. StoredHaveObject'
    BY <1>12, <2>1, <2>2 DEF RejectObject, StoredHaveObject
  <2>. QED  BY <2>3, <2>4, <2>5
<1>13. ASSUME NEW c \in Calls, RejectRow(c)
       PROVE  ObjectInv'
  <2>1. call[c].file \in Files
    BY <1>13 DEF RejectRow, CallsOK
  <2>2. /\ \A f \in Files : row'[f] = row[f] \/ row'[f].status = "gone"
        /\ UNCHANGED <<object, erasing>> /\ call' = [call EXCEPT ![c] = IdleCall]
    BY <1>13, <2>1 DEF RejectRow
  <2>3. ErasingOK'
    BY <2>2 DEF ErasingOK
  <2>4. VerifiedOK'
    <3>. SUFFICES ASSUME NEW d \in Calls, call'[d].pc = "commit",
                         row'[call'[d].file].status = "pending"
                  PROVE  object'[call'[d].file] # NoObject
      BY DEF VerifiedOK, Has
    <3>1. d # c /\ call'[d] = call[d]
      BY <2>2 DEF IdleCall
    <3>2. call[d].file \in Files
      BY <3>1 DEF CallsOK
    <3>3. row[call[d].file].status = "pending"
      BY <2>2, <3>1, <3>2
    <3>. QED  BY <2>2, <3>1, <3>3 DEF VerifiedOK, Has
  <2>5. StoredHaveObject'
    BY <2>2 DEF StoredHaveObject, CountedStatuses, Has
  <2>. QED  BY <2>3, <2>4, <2>5
<1>14. ASSUME NEW f \in Files, DeleteFile(f) \/ ReapSoftDeleted(f)
       PROVE  ObjectInv'
  <2>1. row'[f].status \in {"deleted", "gone"} /\ \A g \in Files \ {f} : row'[g] = row[g]
    BY <1>14 DEF DeleteFile, ReapSoftDeleted
  <2>2. UNCHANGED <<object, call>> /\ erasing' = erasing \cup {f}
    BY <1>14 DEF DeleteFile, ReapSoftDeleted
  <2>3. \A g \in {f} : row'[g].status \in {"deleted", "gone"}
    BY <2>1
  <2>4. {f} \in SUBSET Files /\ erasing' \subseteq erasing \cup {f}
    BY <2>2
  <2>. QED  BY <1>3, <2>1, <2>2, <2>3, <2>4
<1>15. CASE ReapPending
  <2>. DEFINE stale == {f \in Files : row[f].status = "pending" /\ age[f] = "stale"}
  <2>1. /\ \A f \in stale : row'[f].status \in {"deleted", "gone"}
        /\ \A f \in Files \ stale : row'[f] = row[f]
        /\ UNCHANGED <<object, call>> /\ erasing' = erasing \cup stale
    BY <1>15 DEF ReapPending
  <2>. HIDE DEF stale
  <2>2. stale \in SUBSET Files
    BY DEF stale
  <2>. QED  BY <1>3, <2>1, <2>2
<1>16. ASSUME NEW f \in Files, EraseObject(f)
       PROVE  ObjectInv'
  <2>1. row[f].status \in {"deleted", "gone"}
    BY <1>16 DEF EraseObject, ErasingOK
  <2>2. \A g \in Files : g # f => (Has(g) => Has(g)')
    BY <1>16 DEF EraseObject, Has
  <2>3. UNCHANGED <<row, call>> /\ erasing' \subseteq erasing
    BY <1>16 DEF EraseObject
  <2>. QED  BY <2>1, <2>2, <2>3 DEF ErasingOK, VerifiedOK, StoredHaveObject, CallsOK, CountedStatuses
<1>17. ASSUME NEW f \in Files, EraseFails(f)
       PROVE  ObjectInv'
  BY <1>17 DEF EraseFails, ErasingOK, VerifiedOK, StoredHaveObject, Has
<1>. QED
  BY <1>1, <1>4, <1>5, <1>6, <1>7, <1>8, <1>9, <1>10, <1>11, <1>12, <1>13, <1>14, <1>15,
     <1>16, <1>17
  DEF Next, AdminStep, CompleteStep, vars, AdminReserve, SignUploadFails, AdminSigned,
      AdminUndo, AdminInsertFails, AdminCrash, GrowOlder

\* While completions of a file are serial, a live completed file always has its
\* object: every handler deletes the object only after the row has left.
THEOREM SerialStoredHaveObject == Serial => (Spec => []StoredHaveObject)
<1>. SUFFICES ASSUME Serial
              PROVE  Spec => []StoredHaveObject
  OBVIOUS
<1>1. Init => Shape /\ ObjectInv
  <2>1. Init => ObjectInv
    BY DEF Init, ObjectInv, ErasingOK, VerifiedOK, StoredHaveObject, IdleCall, CountedStatuses
  <2>. QED  BY <2>1, InitialShape
<1>2. Shape /\ ObjectInv /\ [Next]_vars => (Shape /\ ObjectInv)'
  BY ShapeStep, ObjectStep
<1>3. ObjectInv => StoredHaveObject
  BY DEF ObjectInv
<1>. QED  BY <1>1, <1>2, <1>3, PTL DEF Spec

-----------------------------------------------------------------------------
(***************************************************************************)
(* The counters implement the ledger of QuotaLedger: every step is a step  *)
(* of the ledger or leaves it alone.                                       *)
(***************************************************************************)
\* The bytes reserved for rows that are no longer pending.
Orphaned == [f \in Files |-> IF row[f].status = "pending" THEN 0 ELSE stranded[f]]

\* The ledger's unowned bytes, under the refinement mapping.
Unowned == usage.pending - Total(Held)

LEMMA LedgerTotals == \A w : Ledger!Total(w) = Total(w)
BY DEF Ledger!Total, Ledger!BytesOf, Ledger!Sizes, Ledger!Cardinality,
       Total, BytesOf, Sizes, Cardinality

\* What bytes_pending is made of.
LEMMA Books ==
    ASSUME Shape, QuotaExact
    PROVE  /\ Held \in Weights /\ Stored \in Weights /\ Orphaned \in Weights
           /\ Total(Held) \in Nat /\ Total(Stored) \in Nat /\ Total(Orphaned) \in Nat
           /\ AdminHeld \in Nat /\ leaked \in Nat
           /\ usage \in Usage /\ usage.used \in Nat /\ usage.pending \in Nat
           /\ usage.used = Total(Stored)
           /\ usage.pending = Total(Held) + Total(Orphaned) + AdminHeld + leaked
           /\ Unowned = Total(Orphaned) + AdminHeld + leaked
<1>1. Orphaned \in Weights
  BY DEF Orphaned, Shape, TypeInv, TypeOK, Weights
<1>2. Total(Reserved) = Total(Held) + Total(Orphaned)
  <2>1. \A f \in Files : \/ Held[f] = 0 /\ Orphaned[f] = Reserved[f]
                         \/ Orphaned[f] = 0 /\ Held[f] = Reserved[f]
    BY DEF Held, Orphaned, Reserved
  <2>. QED  BY <1>1, <2>1, TotalSplit, WeightsType DEF Shape, TypeInv
<1>3. Total(Held) \in Nat /\ Total(Orphaned) \in Nat
  BY TotalType
<1>. QED
  BY <1>1, <1>2, <1>3, WeightsType DEF Shape, TypeInv, TypeOK, QuotaExact, Unowned

\* The steps of the ledger, in terms of the counters.
LEMMA LedgerView ==
    ASSUME Shape, QuotaExact
    PROVE  /\ Ledger!Claimed = usage.used + usage.pending
           /\ <<Held, Stored, Unowned>>' = <<Held, Stored, Unowned>>
                => UNCHANGED Ledger!ledgerVars
<1>1. Ledger!Claimed = Total(Held) + Total(Stored) + Unowned
  BY LedgerTotals DEF Ledger!Claimed, Unowned
<1>2. UNCHANGED <<Held, Stored, Unowned>> => UNCHANGED Ledger!ledgerVars
  BY DEF Ledger!ledgerVars, Unowned
<1>. QED  BY <1>1, <1>2, Books DEF Unowned

\* A row that is not pending any more holds no bytes; the other rows keep theirs.
LEMMA HeldCleared ==
    ASSUME TypeOK, NEW f \in Files,
           \A g \in Files \ {f} : row'[g] = row[g],
           row'[f].status # "pending"
    PROVE  /\ Held' = [Held EXCEPT ![f] = 0]
           /\ Total(Held)' = Total(Held) - Held[f]
           /\ Held[f] \in Nat /\ Held[f] <= Total(Held)
<1>1. Held' = [Held EXCEPT ![f] = 0]
  BY DEF Held
<1>2. Held \in Weights /\ 0 \in 0..MaxBytes
  BY WeightsType
<1>3. Total([Held EXCEPT ![f] = 0]) = Total(Held) - Held[f] + 0 /\ Held[f] \in 0..MaxBytes
      /\ Held[f] <= Total(Held)
  BY <1>2, TotalUpdate
<1>4. Total(Held) \in Nat
  BY TotalType
<1>. QED  BY <1>1, <1>3, <1>4

\* A file whose row was absent starts to hold n bytes.
LEMMA HeldGranted ==
    ASSUME TypeOK, NEW f \in Files, row[f].status = "absent", NEW n \in 0..MaxBytes,
           row' = [row EXCEPT ![f] = [status |-> "pending", size |-> n]]
    PROVE  /\ Held[f] = 0 /\ Stored[f] = 0
           /\ Held' = [Held EXCEPT ![f] = n] /\ Stored' = Stored
           /\ Total(Held)' = Total(Held) + n
<1>1. Held[f] = 0 /\ Stored[f] = 0
  BY DEF Held, Stored, CountedStatuses
<1>2. Held' = [Held EXCEPT ![f] = n] /\ Stored' = Stored
  BY DEF Held, Stored, CountedStatuses, TypeOK
<1>3. Total([Held EXCEPT ![f] = n]) = Total(Held) - Held[f] + n
  BY WeightsType, TotalUpdate
<1>4. Total(Held) \in Nat
  BY TotalType
<1>. QED  BY <1>1, <1>2, <1>3, <1>4

\* Releasing reserved bytes lowers bytes_pending by just those bytes.
LEMMA ReleasedBytes ==
    ASSUME NEW u \in Usage, NEW n \in Nat, n <= u.pending
    PROVE  ReleaseQuota(u, n).pending = u.pending - n
BY DEF Usage, ReleaseQuota, Floor

LEMMA LedgerSteps ==
    Serial /\ Shape /\ ClaimsOK /\ QuotaExact /\ [Next]_vars
      => [Ledger!LedgerNext]_(Ledger!ledgerVars)
<1>. SUFFICES ASSUME Serial, Shape, ClaimsOK, QuotaExact, [Next]_vars
              PROVE  Ledger!LedgerNext \/ UNCHANGED Ledger!ledgerVars
  OBVIOUS
<1>0. /\ Total(Held) \in Nat /\ Total(Stored) \in Nat /\ Total(Orphaned) \in Nat
      /\ AdminHeld \in Nat /\ leaked \in Nat /\ Unowned \in Nat
      /\ usage \in Usage /\ usage.used \in Nat /\ usage.pending \in Nat
      /\ usage.pending = Total(Held) + Unowned
      /\ Unowned = Total(Orphaned) + AdminHeld + leaked
      /\ Ledger!Claimed = usage.used + usage.pending
  BY Books, LedgerView
<1>T. TypeOK
  BY DEF Shape, TypeInv
<1>1. CASE UNCHANGED <<Held, Stored, Unowned>>
  BY <1>1, LedgerView
<1>2. CASE UNCHANGED <<row, usage>>
  <2>1. UNCHANGED <<Held, Stored>>
    BY <1>2 DEF Held, Stored
  <2>. QED  BY <1>1, <1>2, <2>1 DEF Unowned
<1>3. ASSUME NEW f \in Files, NEW n \in Sizes, SignUpload(f, n)
      PROVE  Ledger!LedgerNext
  <2>1. n \in 0..MaxBytes /\ n \in Nat /\ Ledger!Claimed + n <= Limit
    BY <1>0, <1>3 DEF SignUpload, FitsQuota, Sizes
  <2>2. /\ Held[f] = 0 /\ Stored[f] = 0
        /\ Held' = [Held EXCEPT ![f] = n] /\ Stored' = Stored
        /\ Total(Held)' = Total(Held) + n
    BY <1>3, <1>T, <2>1, HeldGranted DEF SignUpload
  <2>3. usage'.pending = usage.pending + n
    BY <1>0, <1>3, <2>1 DEF SignUpload, ReserveQuota, Usage
  <2>4. Unowned' = Unowned
    BY <1>0, <2>1, <2>2, <2>3 DEF Unowned
  <2>5. Ledger!Grant(f, n)
    BY <2>1, <2>2, <2>4 DEF Ledger!Grant, Unowned
  <2>. QED  BY <2>5 DEF Ledger!LedgerNext, Ledger!Sizes, Sizes
<1>4. ASSUME NEW n \in Sizes, SignUploadFails(n)
      PROVE  UNCHANGED <<row, usage>>
  <2>1. n \in Nat /\ ReserveQuota(usage, n) \in Usage
    BY <1>0, UsageOperators DEF Sizes
  <2>2. ReserveQuota(usage, n).used = usage.used /\ ReserveQuota(usage, n).pending = usage.pending + n
    BY <1>0, <2>1 DEF ReserveQuota, Usage
  <2>. DEFINE r == ReserveQuota(usage, n)
  <2>3. usage' = ReleaseQuota(r, n) /\ r \in Usage
        /\ r.used = usage.used /\ r.pending = usage.pending + n
    BY <1>4, <2>1, <2>2 DEF SignUploadFails
  <2>. HIDE DEF r
  <2>5. usage' = [used |-> r.used, pending |-> Floor(r.pending - n)]
    BY <2>1, <2>3, ReleaseRecord
  <2>6. Floor(r.pending - n) = usage.pending
    BY <1>0, <2>1, <2>3 DEF Floor
  <2>7. usage = [used |-> usage.used, pending |-> usage.pending]
    BY <1>0 DEF Usage
  <2>4. usage' = usage
    BY <2>3, <2>5, <2>6, <2>7
  <2>. QED  BY <1>4, <2>4 DEF SignUploadFails
<1>5. ASSUME NEW f \in Files, NEW n \in Sizes, AdminReserve(f, n)
      PROVE  Ledger!LedgerNext
  <2>1. n \in Nat /\ Ledger!Claimed + n <= Limit
    BY <1>0, <1>5 DEF AdminReserve, FitsQuota, Sizes
  <2>2. UNCHANGED <<Held, Stored>>
    BY <1>5 DEF AdminReserve, Held, Stored
  <2>3. usage'.pending = usage.pending + n
    BY <1>0, <1>5, <2>1 DEF AdminReserve, ReserveQuota, Usage
  <2>4. Unowned' = Unowned + n
    BY <1>0, <2>1, <2>2, <2>3 DEF Unowned
  <2>5. Ledger!GrantUnowned(n)
    BY <2>1, <2>2, <2>4 DEF Ledger!GrantUnowned, Unowned
  <2>. QED  BY <2>5 DEF Ledger!LedgerNext, Ledger!Sizes, Sizes
<1>6. CASE AdminInsert
  <2>. DEFINE f == admin.file
              n == admin.size
  <2>1. /\ f \in Files /\ n \in Sizes /\ row[f].status = "absent"
        /\ row' = [row EXCEPT ![f] = [status |-> "pending", size |-> n]]
        /\ AdminHeld = n /\ UNCHANGED usage
    BY <1>6 DEF AdminInsert, Shape, AdminOK, InsertsOnce, AdminHeld
  <2>2. n \in 0..MaxBytes
    BY <2>1 DEF Sizes
  <2>3. /\ Held[f] = 0 /\ Stored[f] = 0
        /\ Held' = [Held EXCEPT ![f] = n] /\ Stored' = Stored
        /\ Total(Held)' = Total(Held) + n
    BY <1>T, <2>1, <2>2, HeldGranted
  <2>4. n <= Unowned /\ Unowned' = Unowned - n
    BY <1>0, <2>1, <2>2, <2>3 DEF Unowned
  <2>5. Ledger!Assign(f, n)
    BY <2>3, <2>4 DEF Ledger!Assign, Unowned
  <2>. QED  BY <2>1, <2>5 DEF Ledger!LedgerNext, Ledger!Sizes, Sizes
<1>7. CASE AdminSignFails
  <2>. DEFINE f == admin.file
  <2>1. /\ f \in Files /\ row' = [row EXCEPT ![f].status = "gone"] /\ UNCHANGED usage
        /\ row[f].status \in {"pending", "deleted"}
    BY <1>7 DEF AdminSignFails, Serial, Shape, AdminOK
  <2>2. /\ row'[f].status = "gone" /\ \A g \in Files \ {f} : row'[g] = row[g]
    BY <1>T, <2>1 DEF TypeOK
  <2>3. /\ Held' = [Held EXCEPT ![f] = 0] /\ Total(Held)' = Total(Held) - Held[f]
        /\ Held[f] \in Nat
    BY <1>T, <2>1, <2>2, HeldCleared
  <2>4. Stored' = Stored
    BY <2>1, <2>2 DEF Stored, CountedStatuses
  <2>5. Unowned' = Unowned + Held[f]
    BY <1>0, <2>1, <2>3 DEF Unowned
  <2>6. CASE Held[f] > 0
    <3>1. Ledger!Disown(f)
      BY <2>3, <2>4, <2>5, <2>6 DEF Ledger!Disown, Unowned
    <3>. QED  BY <2>1, <3>1 DEF Ledger!LedgerNext
  <2>7. CASE Held[f] = 0
    <3>1. Held' = Held
      BY <2>1, <2>3, <2>7 DEF Held
    <3>2. Unowned' = Unowned
      BY <1>0, <2>5, <2>7
    <3>. QED  BY <1>1, <2>4, <3>1, <3>2
  <2>. QED  BY <2>3, <2>6, <2>7
<1>8. CASE AdminUndo
  <2>. DEFINE n == admin.size
  <2>1. n \in Sizes /\ n \in Nat /\ AdminHeld = n /\ UNCHANGED row /\ usage' = ReleaseQuota(usage, n)
    BY <1>8 DEF AdminUndo, Shape, AdminOK, AdminHeld, Sizes
  <2>2. UNCHANGED <<Held, Stored>>
    BY <2>1 DEF Held, Stored
  <2>3. usage'.pending = usage.pending - n /\ n <= Unowned
    <3>1. n <= Unowned /\ n <= usage.pending
      BY <1>0, <2>1
    <3>2. ReleaseQuota(usage, n).pending = usage.pending - n
      BY <1>0, <2>1, <3>1, ReleasedBytes
    <3>. QED  BY <2>1, <3>1, <3>2
  <2>4. Unowned' = Unowned - n
    BY <1>0, <2>1, <2>2, <2>3 DEF Unowned
  <2>5. Ledger!ReleaseUnowned(n)
    BY <2>2, <2>3, <2>4 DEF Ledger!ReleaseUnowned, Unowned
  <2>. QED  BY <2>1, <2>5 DEF Ledger!LedgerNext, Ledger!Sizes, Sizes
<1>9. ASSUME NEW c \in Calls, CompleteCommit(c), row[call[c].file].status = "pending"
      PROVE  Ledger!LedgerNext
  <2>. DEFINE f == call[c].file
              r == call[c].reserved
              n == call[c].auth
  <2>1. /\ f \in Files /\ r \in Sizes /\ n \in Sizes /\ n <= r
        /\ row[f].size = r /\ row[f].status = "pending"
    BY <1>9 DEF CompleteCommit, Shape, CallsOK, ClaimsOK, TypeInv, StatChecked
  <2>2. /\ row' = [row EXCEPT ![f] = [status |-> "uploaded", size |-> n]]
        /\ usage' = MarkUploaded(usage, r, n)
    BY <1>9 DEF CompleteCommit
  <2>3. /\ row'[f] = [status |-> "uploaded", size |-> n]
        /\ \A g \in Files \ {f} : row'[g] = row[g]
    BY <1>T, <2>1, <2>2 DEF TypeOK
  <2>4. Held[f] = r /\ Stored' = [Stored EXCEPT ![f] = n]
    <3>1. Held[f] = r
      BY <2>1 DEF Held
    <3>2. \A g \in Files : Stored'[g] = IF g = f THEN n ELSE Stored[g]
      BY <2>3 DEF Stored, CountedStatuses
    <3>3. Stored' = [g \in Files |-> IF g = f THEN n ELSE Stored[g]]
      BY <3>2 DEF Stored
    <3>. QED  BY <3>1, <3>3 DEF Stored
  <2>5. /\ Held' = [Held EXCEPT ![f] = 0] /\ Total(Held)' = Total(Held) - Held[f]
        /\ Held[f] <= Total(Held)
    BY <1>T, <2>1, <2>3, HeldCleared
  <2>6. r \in Nat /\ n \in Nat /\ 0 < n
    BY <2>1 DEF Sizes
  <2>. HIDE DEF f, r, n
  <2>7. usage'.pending = usage.pending - r
    BY <1>0, <2>2, <2>4, <2>5, <2>6 DEF MarkUploaded, Floor
  <2>8. Unowned' = Unowned
    BY <1>0, <2>4, <2>5, <2>6, <2>7 DEF Unowned
  <2>9. Ledger!Settle(f, n)
    BY <2>1, <2>4, <2>5, <2>6, <2>8 DEF Ledger!Settle, Unowned
  <2>. QED  BY <2>1, <2>9 DEF Ledger!LedgerNext, Ledger!Sizes, Sizes
<1>10. ASSUME NEW c \in Calls, RejectRow(c), row[call[c].file].status \in InTable
       PROVE  Ledger!LedgerNext
  <2>. DEFINE f == call[c].file
              r == call[c].reserved
  <2>1. f \in Files /\ r \in Sizes /\ row[f].status \in {"pending", "deleted"}
    BY <1>10 DEF RejectRow, Shape, CallsOK, InTable
  <2>2. row' = [row EXCEPT ![f].status = "gone"] /\ usage' = ReleaseQuota(usage, r)
    BY <1>10 DEF RejectRow
  <2>3. row'[f].status = "gone" /\ \A g \in Files \ {f} : row'[g] = row[g]
    BY <1>T, <2>1, <2>2 DEF TypeOK
  <2>4. Stored' = Stored
    BY <2>1, <2>3 DEF Stored, CountedStatuses
  <2>5. /\ Held' = [Held EXCEPT ![f] = 0] /\ Total(Held)' = Total(Held) - Held[f]
        /\ Held[f] <= Total(Held)
    BY <1>T, <2>1, <2>3, HeldCleared
  <2>6. CASE row[f].status = "pending"
    <3>1. Held[f] = r /\ r \in Nat /\ r > 0
      BY <1>10, <2>1, <2>6 DEF RejectRow, Held, Shape, CallsOK, Sizes
    <3>2. usage'.pending = usage.pending - r
      BY <1>0, <2>2, <2>5, <3>1, ReleasedBytes
    <3>3. Unowned' = Unowned
      BY <1>0, <2>5, <3>1, <3>2 DEF Unowned
    <3>4. Held' = [g \in Files |-> IF g \in {f} THEN 0 ELSE Held[g]]
      BY <2>5 DEF Held
    <3>5. Ledger!Release({f})
      BY <2>4, <3>1, <3>3, <3>4 DEF Ledger!Release, Unowned
    <3>6. {f} \in SUBSET Files
      BY <2>1
    <3>. QED  BY <3>5, <3>6 DEF Ledger!LedgerNext
  <2>7. CASE row[f].status = "deleted"
    <3>1. Held[f] = 0 /\ Orphaned[f] = r /\ r \in Nat
      BY <1>10, <2>1, <2>7 DEF RejectRow, Held, Orphaned, Shape, CallsOK, Sizes
    <3>2. r <= Unowned
      <4>1. Orphaned[f] <= Total(Orphaned)
        <5>1. Orphaned \in Weights /\ 0 \in 0..MaxBytes
          BY Books
        <5>. QED  BY <2>1, <5>1, TotalUpdate
      <4>. QED  BY <1>0, <3>1, <4>1
    <3>3. usage'.pending = usage.pending - r
      BY <1>0, <2>2, <3>1, <3>2, ReleasedBytes
    <3>4. Held' = Held
      BY <2>5, <3>1 DEF Held
    <3>5. Unowned' = Unowned - r
      BY <1>0, <3>1, <3>3, <3>4 DEF Unowned
    <3>6. Ledger!ReleaseUnowned(r)
      BY <2>4, <3>2, <3>4, <3>5 DEF Ledger!ReleaseUnowned, Unowned
    <3>. QED  BY <2>1, <3>6 DEF Ledger!LedgerNext, Ledger!Sizes, Sizes
  <2>. QED  BY <2>1, <2>6, <2>7
<1>11. ASSUME NEW f \in Files, DeleteFile(f)
       PROVE  Ledger!LedgerNext
  <2>1. row' = [row EXCEPT ![f].status = "deleted"]
    BY <1>11 DEF DeleteFile
  <2>2. row'[f].status = "deleted" /\ \A g \in Files \ {f} : row'[g] = row[g]
    BY <1>T, <2>1 DEF TypeOK
  <2>3. /\ Held' = [Held EXCEPT ![f] = 0] /\ Total(Held)' = Total(Held) - Held[f]
    BY <1>T, <2>2, HeldCleared
  <2>4. CASE row[f].status = "pending"
    <3>1. Held[f] \in Nat /\ Held[f] > 0 /\ Stored' = Stored
      BY <2>2, <2>4 DEF Held, Stored, CountedStatuses, Shape, RowsOK, Sizes
    <3>2. usage' = usage
      BY <1>11, <2>4 DEF DeleteFile, CountedStatuses
    <3>3. Unowned' = Unowned + Held[f]
      BY <1>0, <2>3, <3>1, <3>2 DEF Unowned
    <3>4. Ledger!Disown(f)
      BY <2>3, <3>1, <3>3 DEF Ledger!Disown, Unowned
    <3>. QED  BY <3>4 DEF Ledger!LedgerNext
  <2>5. CASE row[f].status = "uploaded"
    <3>0. Held[f] = 0 /\ Stored[f] \in Nat /\ Stored[f] > 0
      BY <2>5 DEF Held, Stored, CountedStatuses, Shape, RowsOK, Sizes
    <3>1. Stored' = [Stored EXCEPT ![f] = 0] /\ Held' = Held
      <4>1. \A g \in Files : Stored'[g] = IF g = f THEN 0 ELSE Stored[g]
        BY <2>2 DEF Stored, CountedStatuses
      <4>2. Stored' = [g \in Files |-> IF g = f THEN 0 ELSE Stored[g]]
        BY <4>1 DEF Stored
      <4>3. Stored' = [Stored EXCEPT ![f] = 0]
        BY <4>2 DEF Stored
      <4>. QED  BY <2>3, <3>0, <4>3 DEF Held
    <3>2. usage'.pending = usage.pending
      BY <1>0, <1>11, <2>5 DEF DeleteFile, DecrementUsed, Usage
    <3>3. Unowned' = Unowned
      BY <3>1, <3>2 DEF Unowned
    <3>4. Ledger!Refund(f)
      BY <3>0, <3>1, <3>3 DEF Ledger!Refund, Unowned
    <3>. QED  BY <3>4 DEF Ledger!LedgerNext
  <2>. QED  BY <1>11, <2>4, <2>5 DEF DeleteFile
<1>12. CASE ReapPending
  <2>. DEFINE stale == {f \in Files : row[f].status = "pending" /\ age[f] = "stale"}
              u == [f \in Files |-> IF f \in stale THEN row[f].size ELSE 0]
              v == [f \in Files |-> IF f \in stale THEN 0 ELSE Held[f]]
  <2>1. u \in Weights /\ v \in Weights /\ Held \in Weights
    BY Books DEF Weights, Shape, TypeInv, TypeOK
  <2>2. \A f \in Files : \/ u[f] = 0 /\ v[f] = Held[f]
                         \/ v[f] = 0 /\ u[f] = Held[f]
    BY DEF Held
  <2>3. Total(Held) = Total(u) + Total(v) /\ Total(u) \in Nat /\ Total(v) \in Nat
    BY <2>1, <2>2, TotalSplit, TotalType
  <2>4. Held' = v /\ Stored' = Stored
    BY <1>12 DEF ReapPending, Held, Stored, CountedStatuses, Shape, TypeInv, TypeOK
  <2>5. usage' = ReleaseQuota(usage, Total(u))
    BY <1>12 DEF ReapPending
  <2>6. \E f \in stale : Held[f] > 0
    BY <1>12 DEF ReapPending, Held, Shape, RowsOK, Sizes
  <2>7. stale \in SUBSET Files
    OBVIOUS
  <2>8. v = [f \in Files |-> IF f \in stale THEN 0 ELSE Held[f]]
    OBVIOUS
  <2>. HIDE DEF u, v, stale
  <2>9. usage'.pending = usage.pending - Total(u)
    BY <1>0, <2>3, <2>5, ReleaseRecord DEF Floor
  <2>10. Unowned' = Unowned
    BY <1>0, <2>3, <2>4, <2>9 DEF Unowned
  <2>11. Ledger!Release(stale)
    BY <2>4, <2>6, <2>8, <2>10 DEF Ledger!Release, Unowned
  <2>. QED  BY <2>7, <2>11 DEF Ledger!LedgerNext
<1>13. ASSUME NEW f \in Files, ReapSoftDeleted(f)
       PROVE  UNCHANGED <<Held, Stored, Unowned>>
  <2>1. UNCHANGED <<Held, Stored>>
    BY <1>13, <1>T DEF ReapSoftDeleted, Held, Stored, CountedStatuses, TypeOK
  <2>. QED  BY <1>13, <2>1 DEF ReapSoftDeleted, Unowned
<1>14. ASSUME NEW c \in Calls,
              \/ CompleteCommit(c) /\ row[call[c].file].status # "pending"
              \/ RejectRow(c) /\ row[call[c].file].status \notin InTable
       PROVE  UNCHANGED <<row, usage>>
  BY <1>14 DEF CompleteCommit, RejectRow
<1>. QED
  BY <1>1, <1>2, <1>3, <1>4, <1>5, <1>6, <1>7, <1>8, <1>9, <1>10, <1>11, <1>12, <1>13, <1>14
  DEF Next, AdminStep, CompleteStep, vars, AdminSigned, AdminInsertFails, AdminCrash, Put,
      CompleteLoad, CompleteStat, CompleteVerify, RejectObject, CompleteCrash, GrowOlder,
      EraseObject, EraseFails

\* With serial completions and bounded PUTs the two counters, updated by separate
\* statements of separate handlers, implement the ledger of who owns which bytes.
THEOREM SerialImplementsLedger == Serial /\ PutsWithinClaim => (Spec => ImplementsLedger)
<1>. SUFFICES ASSUME Serial, PutsWithinClaim
              PROVE  Spec => ImplementsLedger
  OBVIOUS
<1>1. Init => Shape /\ ClaimsOK /\ QuotaExact
  <2>1. Init => ClaimsOK
    BY DEF Init, ClaimsOK, IdleCall
  <2>. QED  BY <2>1, InitialShape, InitialExact
<1>2. Shape /\ ClaimsOK /\ QuotaExact /\ [Next]_vars => (Shape /\ ClaimsOK /\ QuotaExact)'
  BY ShapeStep, ClaimsStep, ExactStep
<1>3. Init => Ledger!LedgerInit
  <2>. SUFFICES ASSUME Init
                PROVE  Ledger!LedgerInit
    OBVIOUS
  <2>1. Total(Held) = 0
    BY TotalZero DEF Init, Held
  <2>2. Held = [f \in Files |-> 0] /\ Stored = [f \in Files |-> 0]
    BY DEF Init, Held, Stored, CountedStatuses
  <2>3. usage.pending = 0
    BY DEF Init, NoUsage
  <2>. QED  BY <2>1, <2>2, <2>3 DEF Ledger!LedgerInit
<1>4. Shape /\ ClaimsOK /\ QuotaExact /\ [Next]_vars
        => [Ledger!LedgerNext]_(Ledger!ledgerVars)
  BY LedgerSteps
<1>. QED  BY <1>1, <1>2, <1>3, <1>4, PTL DEF Spec, ImplementsLedger, Ledger!LedgerSpec

=============================================================================
