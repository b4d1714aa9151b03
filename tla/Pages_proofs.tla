---------------------------- MODULE Pages_proofs ----------------------------
(***************************************************************************)
(* What the pages show and tell, proved of every step of theirs (Pages):   *)
(* the upload widget; a tenant's invitations, with the routes that serve   *)
(* them; the sessions of the operator and of a tenant's user; the switches *)
(* of the notification preferences, the subscription, the webhook          *)
(* endpoints, the bell and the operator's console.  The last part proves   *)
(* what BillingWebhooks says of the customer's row, whose status the       *)
(* subscription's page shows.                                              *)
(*                                                                         *)
(* A page that shows an answer of the query cache is proved in one way:    *)
(* four lemmas say what a query does at each step of its life, and the     *)
(* page's invariant says what an answer that is under way, or is shown for *)
(* fresh, has in common with what the server holds.                        *)
(***************************************************************************)
EXTENDS BillingWebhooks, Pages, FiniteSetTheorems, SequenceTheorems, TLAPS

-----------------------------------------------------------------------------
(***************************************************************************)
(* The upload widget.                                                      *)
(***************************************************************************)
RowType == [status : Upload!Statuses, error : Upload!Codes \cup {Upload!NoError}, fileId : BOOLEAN]
FlowType == [pc : {"idle", "sign", "put", "complete", "attach"}, item : Items \cup {Upload!NoItem}]
UnderWay(f) == uploadFlow[f].pc # "idle"
Calm == uploadRaces \cap {"late", "double"} = {}

\* A call under way is for a row, and a request that can be aborted is that of a call that
\* sends the row's bytes.
FlowsOK ==
    /\ \A f \in Flows : IF UnderWay(f) THEN uploadFlow[f].item \in Items
                                       ELSE uploadFlow[f] = Upload!IdleFlow
    /\ \A i \in Items : xhr[i] # Upload!NoFlow => uploadFlow[xhr[i]] = [pc |-> "put", item |-> i]

\* A widget for one file shows no row but the newest.
NewestOK == ~Upload!Multi => \A i \in Items : Upload!Shown(i) => i = newest

\* What a call's row is like where the call is.
FlowAt(f) ==
    LET i == uploadFlow[f].item
        s == uploadRow[i].status
    IN /\ UnderWay(f) => mounted
       /\ uploadFlow[f].pc = "sign" => s \in {"signing", "canceled", "gone"}
       /\ uploadFlow[f].pc = "put" => s = "uploading" /\ xhr[i] = f
       /\ uploadFlow[f].pc = "complete" => s = "completing"
       /\ uploadFlow[f].pc = "attach" => s = "done" /\ uploads[i] = 0

\* Where no click came too late, a row has one call at a time, and is done with once its file
\* was handed over.
CalmOK == Calm =>
    /\ \A f, g \in Flows : UnderWay(f) /\ UnderWay(g) /\ uploadFlow[f].item = uploadFlow[g].item => f = g
    /\ \A f \in Flows : FlowAt(f)
    /\ \A i \in Items : uploads[i] # 0 => uploadRow[i].status \in {"done", "gone"}

\* The newest row's file is the owner's, or its call is about to attach it.
LinkedOK ==
    uploadRaces = {} /\ ~Upload!Multi /\ newest # Upload!NoItem /\ uploadRow[newest].status = "done"
        => linked = newest \/ \E f \in Flows : uploadFlow[f] = [pc |-> "attach", item |-> newest]

UploadInv == Upload!TypeOK /\ FlowsOK /\ NewestOK /\ CalmOK /\ LinkedOK

LEMMA UploadInitial == ASSUME Upload!NamesAssumption, Upload!Init PROVE UploadInv
<1>1. Upload!TypeOK
  BY DEF Upload!Init, Upload!TypeOK, Upload!NoRow, Upload!IdleFlow, Upload!Statuses, Upload!Races, Upload!NoError
<1>2. /\ \A f \in Flows : uploadFlow[f] = Upload!IdleFlow
      /\ \A i \in Items : xhr[i] = Upload!NoFlow /\ ~Upload!Shown(i) /\ uploads[i] = 0
      /\ newest = Upload!NoItem
  BY DEF Upload!Init, Upload!NoRow, Upload!Shown
<1>3. \A f \in Flows : ~UnderWay(f)
  BY <1>2 DEF UnderWay, Upload!IdleFlow
<1>4. FlowsOK /\ NewestOK /\ LinkedOK
  BY <1>2, <1>3 DEF FlowsOK, NewestOK, LinkedOK
<1>5. CalmOK
  BY <1>2, <1>3 DEF CalmOK, FlowAt, UnderWay
<1>. QED  BY <1>1, <1>4, <1>5 DEF UploadInv

LEMMA PatchedIs ==
    ASSUME Upload!TypeOK, NEW i \in Items, NEW p, p.status \in Upload!Statuses,
           p.error \in Upload!Codes \cup {Upload!NoError}, uploadRow' = Upload!Patched(i, p)
    PROVE  /\ uploadRow' \in [Items -> RowType]
           /\ \A j \in Items \ {i} : uploadRow'[j] = uploadRow[j]
           /\ IF mounted /\ Upload!Shown(i) THEN uploadRow'[i].status = p.status
                                            ELSE uploadRow'[i] = uploadRow[i]
<1>1. uploadRow \in [Items -> RowType]
  BY DEF Upload!TypeOK, RowType
<1>2. CASE mounted /\ Upload!Shown(i)
  <2>1. uploadRow' = [uploadRow EXCEPT ![i] = [@ EXCEPT !.status = p.status, !.error = p.error]]
    BY <1>2 DEF Upload!Patched
  <2>2. [uploadRow[i] EXCEPT !.status = p.status, !.error = p.error] \in RowType
    BY <1>1 DEF RowType
  <2>3. [uploadRow[i] EXCEPT !.status = p.status, !.error = p.error].status = p.status
    BY <1>1 DEF RowType
  <2>. QED  BY <1>1, <1>2, <2>1, <2>2, <2>3
<1>3. CASE ~(mounted /\ Upload!Shown(i))
  BY <1>1, <1>3 DEF Upload!Patched
<1>. QED  BY <1>2, <1>3

\* What an abort of the rows S leaves: the calls that send their bytes have ended.
LEMMA AbortIs ==
    ASSUME Upload!NamesAssumption, Upload!TypeOK, FlowsOK, NEW S, S \subseteq Items
    PROVE  /\ Upload!FlowsAfterAbort(S) \in [Flows -> FlowType]
           /\ Upload!XhrWithout(S) \in [Items -> Flows \cup {Upload!NoFlow}]
           /\ \A f \in Flows :
                 \/ Upload!FlowsAfterAbort(S)[f] = uploadFlow[f] /\ \A i \in S : xhr[i] # f
                 \/ /\ Upload!FlowsAfterAbort(S)[f] = Upload!IdleFlow
                    /\ uploadFlow[f].pc = "put" /\ uploadFlow[f].item \in S
           /\ \A i \in Items : Upload!XhrWithout(S)[i] = IF i \in S THEN Upload!NoFlow ELSE xhr[i]
<1>1. /\ uploadFlow \in [Flows -> FlowType] /\ xhr \in [Items -> Flows \cup {Upload!NoFlow}]
      /\ Upload!IdleFlow \in FlowType
  BY DEF Upload!TypeOK, FlowType, Upload!IdleFlow
<1>2. ASSUME NEW f \in Flows
      PROVE  \/ Upload!FlowsAfterAbort(S)[f] = uploadFlow[f] /\ \A i \in S : xhr[i] # f
             \/ /\ Upload!FlowsAfterAbort(S)[f] = Upload!IdleFlow
                /\ uploadFlow[f].pc = "put" /\ uploadFlow[f].item \in S
  <2>1. CASE \E i \in S : xhr[i] = f
    <3>1. PICK i \in S : xhr[i] = f
      BY <2>1
    <3>2. f # Upload!NoFlow
      BY DEF Upload!NamesAssumption
    <3>3. uploadFlow[f] = [pc |-> "put", item |-> i]
      BY <3>1, <3>2 DEF FlowsOK
    <3>. QED  BY <2>1, <3>3 DEF Upload!FlowsAfterAbort
  <2>2. CASE ~\E i \in S : xhr[i] = f
    BY <2>2 DEF Upload!FlowsAfterAbort
  <2>. QED  BY <2>1, <2>2
<1>. QED  BY <1>1, <1>2 DEF Upload!FlowsAfterAbort, Upload!XhrWithout

\* A call moves on, or ends; the other calls and rows stay.
LEMMA RowCallMoves ==
    ASSUME Upload!NamesAssumption, UploadInv, NEW f \in Flows, UnderWay(f),
           NEW i \in Items, i = uploadFlow[f].item,
           \A j \in Items \ {i} : /\ uploadRow'[j] = uploadRow[j] /\ xhr'[j] = xhr[j]
                                  /\ uploads'[j] = uploads[j],
           \A g \in Flows \ {f} : uploadFlow'[g] = uploadFlow[g],
           \/ uploadFlow'[f] = Upload!IdleFlow
           \/ uploadFlow'[f].item = i /\ uploadFlow'[f].pc # "idle",
           \/ xhr'[i] = Upload!NoFlow
           \/ xhr'[i] = xhr[i] /\ xhr[i] # f
           \/ xhr'[i] = f /\ uploadFlow'[f] = [pc |-> "put", item |-> i],
           Upload!Shown(i)' => Upload!Shown(i), UNCHANGED <<uploadPage, mounted, newest>>,
           Calm' => Calm,
           Calm' => FlowAt(f)' /\ (uploads'[i] # 0 => uploadRow'[i].status \in {"done", "gone"})
    PROVE  FlowsOK' /\ NewestOK' /\ CalmOK'
<1>1. \A g \in Flows \ {f} : /\ UnderWay(g)' <=> UnderWay(g)
                             /\ UnderWay(g) => uploadFlow[g].item \in Items
  BY DEF UnderWay, UploadInv, FlowsOK
<1>2. UnderWay(f)' <=> uploadFlow'[f] # Upload!IdleFlow
  BY DEF UnderWay, Upload!IdleFlow
<1>3. FlowsOK'
  <2>1. ASSUME NEW g \in Flows
        PROVE  IF UnderWay(g)' THEN uploadFlow'[g].item \in Items ELSE uploadFlow'[g] = Upload!IdleFlow
    <3>1. CASE g = f
      BY <1>2, <3>1
    <3>2. CASE g # f
      BY <1>1, <3>2 DEF UploadInv, FlowsOK
    <3>. QED  BY <3>1, <3>2
  <2>2. ASSUME NEW j \in Items, xhr'[j] # Upload!NoFlow
        PROVE  uploadFlow'[xhr'[j]] = [pc |-> "put", item |-> j]
    <3>1. CASE xhr'[j] = xhr[j] /\ xhr[j] # f
      <4>1. uploadFlow[xhr[j]] = [pc |-> "put", item |-> j] /\ xhr[j] \in Flows
        BY <2>2, <3>1 DEF UploadInv, FlowsOK, Upload!TypeOK
      <4>. QED  BY <3>1, <4>1
    <3>2. CASE j # i
      <4>1. xhr'[j] = xhr[j] /\ uploadFlow[xhr[j]] = [pc |-> "put", item |-> j]
        BY <2>2, <3>2 DEF UploadInv, FlowsOK
      <4>2. xhr[j] # f
        BY <3>2, <4>1
      <4>. QED  BY <3>1, <4>1, <4>2
    <3>3. CASE j = i /\ xhr'[i] = f /\ uploadFlow'[f] = [pc |-> "put", item |-> i]
      BY <3>3
    <3>. QED  BY <2>2, <3>1, <3>2, <3>3
  <2>. QED  BY <2>1, <2>2 DEF FlowsOK
<1>4. NewestOK'
  <2>1. \A j \in Items : Upload!Shown(j)' => Upload!Shown(j)
    BY DEF Upload!Shown
  <2>. QED  BY <2>1 DEF UploadInv, NewestOK, Upload!Multi
<1>5. ASSUME Calm'
      PROVE  /\ \A g, h \in Flows : UnderWay(g)' /\ UnderWay(h)' /\ uploadFlow'[g].item = uploadFlow'[h].item
                                       => g = h
             /\ \A g \in Flows : FlowAt(g)'
             /\ \A j \in Items : uploads'[j] # 0 => uploadRow'[j].status \in {"done", "gone"}
  <2>1. /\ \A g, h \in Flows : UnderWay(g) /\ UnderWay(h) /\ uploadFlow[g].item = uploadFlow[h].item => g = h
        /\ \A g \in Flows : FlowAt(g)
        /\ \A j \in Items : uploads[j] # 0 => uploadRow[j].status \in {"done", "gone"}
    BY <1>5 DEF UploadInv, CalmOK
  <2>2. \A g \in Flows : UnderWay(g)' => UnderWay(g) /\ uploadFlow'[g].item = uploadFlow[g].item
    BY <1>1, <1>2
  <2>3. ASSUME NEW g \in Flows \ {f}
        PROVE  FlowAt(g)'
    <3>1. CASE UnderWay(g)
      <4>1. uploadFlow[g].item \in Items \ {i}
        BY <1>1, <2>1, <3>1
      <4>. QED  BY <2>1, <4>1 DEF FlowAt, UnderWay
    <3>2. CASE ~UnderWay(g)
      BY <3>2 DEF FlowAt, UnderWay
    <3>. QED  BY <3>1, <3>2
  <2>. QED  BY <1>5, <2>1, <2>2, <2>3
<1>. QED  BY <1>3, <1>4, <1>5 DEF CalmOK

\* The newest row's file is still the owner's, or about to be, when another call than the
\* one that hands it over moves on.
LEMMA LinkStays ==
    ASSUME UploadInv, NEW f \in Flows, UnderWay(f), uploadFlow[f].pc # "attach",
           NEW i \in Items, i = uploadFlow[f].item,
           \A j \in Items \ {i} : uploadRow'[j] = uploadRow[j],
           \A g \in Flows \ {f} : uploadFlow'[g] = uploadFlow[g],
           UNCHANGED <<uploadPage, newest, linked, uploadRaces>>,
           Calm /\ uploadRow'[i].status = "done" => uploadFlow'[f] = [pc |-> "attach", item |-> i]
    PROVE  LinkedOK'
<1>. SUFFICES ASSUME uploadRaces = {}, ~Upload!Multi, newest # Upload!NoItem,
                     uploadRow'[newest].status = "done"
              PROVE  linked = newest \/ \E g \in Flows : uploadFlow'[g] = [pc |-> "attach", item |-> newest]
  BY DEF LinkedOK, Upload!Multi
<1>1. Calm /\ newest \in Items
  BY DEF Calm, UploadInv, Upload!TypeOK
<1>2. CASE newest = i
  BY <1>1, <1>2
<1>3. CASE newest # i
  <2>1. linked = newest \/ \E g \in Flows : uploadFlow[g] = [pc |-> "attach", item |-> newest]
    BY <1>1, <1>3 DEF UploadInv, LinkedOK
  <2>. QED  BY <2>1
<1>. QED  BY <1>2, <1>3

LEMMA UploadAnswered ==
    ASSUME Upload!NamesAssumption, UploadInv, NEW f \in Flows, Upload!Answered(f)
    PROVE  UploadInv'
<1>. SUFFICES ASSUME NEW i, i = uploadFlow[f].item
              PROVE  UploadInv'
  OBVIOUS
<1>a. /\ uploadRow \in [Items -> RowType] /\ uploadFlow \in [Flows -> FlowType]
      /\ xhr \in [Items -> Flows \cup {Upload!NoFlow}] /\ uploads \in [Items -> Nat]
      /\ f # Upload!NoFlow
  BY DEF UploadInv, Upload!TypeOK, RowType, FlowType, Upload!NamesAssumption
<1>b. UnderWay(f) => i \in Items
  BY DEF UploadInv, FlowsOK
<1>c. i \in Items /\ uploadFlow[f].pc # "put" => xhr[i] # f
  <2>. SUFFICES ASSUME i \in Items, xhr[i] = f
                PROVE  uploadFlow[f].pc = "put"
    OBVIOUS
  <2>1. uploadFlow[f] = [pc |-> "put", item |-> i]
    BY <1>a DEF UploadInv, FlowsOK
  <2>. QED  BY <2>1
<1>d. Calm => FlowAt(f) /\ (i \in Items /\ uploads[i] # 0 => uploadRow[i].status \in {"done", "gone"})
  BY DEF UploadInv, CalmOK
<1>e. Upload!IdleFlow \in FlowType /\ "idle" = Upload!IdleFlow.pc
  BY DEF Upload!IdleFlow, FlowType
<1>1. ASSUME Upload!SignOk(f), Upload!Recalled(i)
      PROVE  UploadInv'
  <2>1. /\ UnderWay(f) /\ uploadFlow[f].pc = "sign" /\ i \in Items
        /\ uploadRow' = IF mounted /\ Upload!Shown(i) THEN [uploadRow EXCEPT ![i].fileId = TRUE] ELSE uploadRow
        /\ uploadFlow' = [uploadFlow EXCEPT ![f] = Upload!IdleFlow] /\ descriptor' = descriptor \cup {i}
        /\ UNCHANGED <<uploadPage, mounted, ready, newest, linked, xhr, uploads, uploadRaces>>
    BY <1>1, <1>b DEF Upload!SignOk, UnderWay
  <2>2. /\ uploadRow' \in [Items -> RowType] /\ uploadRow'[i].status = uploadRow[i].status
        /\ \A j \in Items \ {i} : uploadRow'[j] = uploadRow[j]
    BY <1>a, <2>1 DEF RowType
  <2>3. /\ uploadFlow' \in [Flows -> FlowType] /\ uploadFlow'[f] = Upload!IdleFlow
        /\ \A g \in Flows \ {f} : uploadFlow'[g] = uploadFlow[g]
    BY <1>a, <1>e, <2>1
  <2>4. Upload!TypeOK'
    BY <2>1, <2>2, <2>3 DEF UploadInv, Upload!TypeOK, RowType, FlowType
  <2>5. FlowAt(f)'
    BY <1>e, <2>3 DEF FlowAt, UnderWay
  <2>6. FlowsOK' /\ NewestOK' /\ CalmOK'
    BY <1>c, <1>d, <2>1, <2>2, <2>3, <2>5, RowCallMoves DEF Calm, Upload!Shown
  <2>7. LinkedOK'
    BY <1>d, <2>1, <2>2, <2>3, LinkStays DEF FlowAt
  <2>. QED  BY <2>4, <2>6, <2>7 DEF UploadInv
<1>2. ASSUME Upload!SignOk(f), ~Upload!Recalled(i)
      PROVE  UploadInv'
  <2>1. /\ UnderWay(f) /\ uploadFlow[f].pc = "sign" /\ i \in Items
        /\ uploadFlow' = [uploadFlow EXCEPT ![f].pc = "put"] /\ descriptor' = descriptor \cup {i}
        /\ xhr' = [xhr EXCEPT ![i] = f] /\ Upload!Shown(i) /\ uploadRow[i].status # "canceled"
        /\ UNCHANGED <<uploadPage, mounted, ready, newest, linked, uploads, uploadRaces>>
    BY <1>2, <1>b DEF Upload!SignOk, UnderWay, Upload!Recalled
  <2>0. uploadRow' = IF mounted /\ Upload!Shown(i)
                     THEN [[uploadRow EXCEPT ![i].fileId = TRUE] EXCEPT ![i].status = "uploading"] ELSE uploadRow
    BY <1>2 DEF Upload!SignOk, Upload!Recalled
  <2>2. /\ uploadRow' \in [Items -> RowType]
        /\ mounted => uploadRow'[i].status = "uploading"
        /\ ~mounted => uploadRow'[i] = uploadRow[i]
        /\ \A j \in Items \ {i} : uploadRow'[j] = uploadRow[j]
    <3>1. CASE mounted
      <4>1. uploadRow' = [[uploadRow EXCEPT ![i].fileId = TRUE] EXCEPT ![i].status = "uploading"]
        BY <2>0, <2>1, <3>1
      <4>2. [uploadRow EXCEPT ![i].fileId = TRUE] \in [Items -> RowType]
        BY <1>a, <2>1 DEF RowType
      <4>3. uploadRow' = [uploadRow EXCEPT ![i] = [[@ EXCEPT !.fileId = TRUE] EXCEPT !.status = "uploading"]]
        BY <1>a, <2>1, <4>1
      <4>4. [[uploadRow[i] EXCEPT !.fileId = TRUE] EXCEPT !.status = "uploading"] \in RowType
        <5>1. uploadRow[i] \in RowType /\ "uploading" \in Upload!Statuses
          BY <1>a, <2>1 DEF Upload!Statuses
        <5>. QED  BY <5>1 DEF RowType
      <4>5. [[uploadRow[i] EXCEPT !.fileId = TRUE] EXCEPT !.status = "uploading"].status = "uploading"
        BY <1>a, <2>1 DEF RowType
      <4>. QED  BY <1>a, <2>1, <3>1, <4>3, <4>4, <4>5
    <3>2. CASE ~mounted
      BY <1>a, <2>0, <3>2
    <3>. QED  BY <3>1, <3>2
  <2>3. /\ uploadFlow' \in [Flows -> FlowType] /\ uploadFlow'[f] = [pc |-> "put", item |-> i]
        /\ \A g \in Flows \ {f} : uploadFlow'[g] = uploadFlow[g]
        /\ xhr' \in [Items -> Flows \cup {Upload!NoFlow}] /\ xhr'[i] = f
        /\ \A j \in Items \ {i} : xhr'[j] = xhr[j]
    BY <1>a, <2>1 DEF FlowType
  <2>4. Upload!TypeOK'
    BY <2>1, <2>2, <2>3 DEF UploadInv, Upload!TypeOK, RowType, FlowType
  <2>5. Calm => mounted /\ uploadRow[i].status = "signing" /\ uploads[i] = 0
    BY <1>a, <1>d, <2>1 DEF FlowAt, UnderWay, Upload!Shown
  <2>6. Calm => FlowAt(f)'
    BY <2>1, <2>2, <2>3, <2>5 DEF FlowAt
  <2>7. FlowsOK' /\ NewestOK' /\ CalmOK'
    <3>1. Calm' <=> Calm
      BY <2>1 DEF Calm
    <3>2. Calm' => FlowAt(f)' /\ (uploads'[i] # 0 => uploadRow'[i].status \in {"done", "gone"})
      BY <2>1, <2>5, <2>6, <3>1
    <3>3. Upload!Shown(i) /\ (xhr'[i] = f /\ uploadFlow'[f] = [pc |-> "put", item |-> i])
      BY <2>1, <2>3
    <3>4. UNCHANGED <<uploadPage, mounted, newest, uploads>> /\ UnderWay(f) /\ i \in Items
      BY <2>1
    <3>. QED  BY <2>2, <2>3, <3>1, <3>2, <3>3, <3>4, RowCallMoves
  <2>8. LinkedOK'
    <3>1. Calm => uploadRow'[i].status # "done"
      BY <2>2, <2>5 DEF Upload!Shown
    <3>2. UNCHANGED <<uploadPage, newest, linked, uploadRaces>> /\ UnderWay(f) /\ i \in Items
          /\ uploadFlow[f].pc # "attach"
      BY <2>1
    <3>. QED  BY <2>2, <2>3, <3>1, <3>2, LinkStays
  <2>. QED  BY <2>4, <2>7, <2>8 DEF UploadInv

<1>3. ASSUME uploadFlow[f].pc \in {"sign", "put", "complete"}, NEW code \in Upload!Codes,
             uploadRow' = Upload!Patched(i, Upload!Failed(code)),
             uploadFlow' = [uploadFlow EXCEPT ![f] = Upload!IdleFlow],
             \/ xhr' = xhr /\ uploadFlow[f].pc # "put"
             \/ xhr' = Upload!XhrWithout({i}),
             UNCHANGED <<uploadPage, mounted, ready, newest, linked, descriptor, uploads, uploadRaces>>
      PROVE  UploadInv'
  <2>1. UnderWay(f) /\ i \in Items
    BY <1>3, <1>b DEF UnderWay
  <2>2. /\ uploadRow' \in [Items -> RowType] /\ \A j \in Items \ {i} : uploadRow'[j] = uploadRow[j]
        /\ IF mounted /\ Upload!Shown(i) THEN uploadRow'[i].status = "error"
                                         ELSE uploadRow'[i] = uploadRow[i]
    <3>1. /\ Upload!Failed(code).status = "error" /\ Upload!Failed(code).status \in Upload!Statuses
          /\ Upload!Failed(code).error \in Upload!Codes \cup {Upload!NoError}
      BY DEF Upload!Failed, Upload!Statuses
    <3>2. Upload!TypeOK
      BY DEF UploadInv
    <3>. QED  BY <1>3, <2>1, <3>1, <3>2, PatchedIs
  <2>3. /\ uploadFlow' \in [Flows -> FlowType] /\ uploadFlow'[f] = Upload!IdleFlow
        /\ \A g \in Flows \ {f} : uploadFlow'[g] = uploadFlow[g]
    BY <1>a, <1>e, <1>3
  <2>4. /\ xhr' \in [Items -> Flows \cup {Upload!NoFlow}] /\ \A j \in Items \ {i} : xhr'[j] = xhr[j]
        /\ (xhr'[i] = Upload!NoFlow \/ (xhr'[i] = xhr[i] /\ xhr[i] # f))
    BY <1>a, <1>c, <1>3, <2>1 DEF Upload!XhrWithout
  <2>5. Upload!TypeOK'
    BY <1>3, <2>2, <2>3, <2>4 DEF UploadInv, Upload!TypeOK, RowType, FlowType
  <2>6. FlowAt(f)'
    BY <1>e, <2>3 DEF FlowAt, UnderWay
  <2>7. Calm => /\ uploadRow'[i].status # "done"
                /\ uploads[i] # 0 => uploadRow'[i].status \in {"done", "gone"}
    BY <1>d, <1>3, <2>1, <2>2 DEF FlowAt, Upload!Shown
  <2>8. FlowsOK' /\ NewestOK' /\ CalmOK'
    <3>1. (Calm' <=> Calm) /\ (Upload!Shown(i)' => Upload!Shown(i))
      BY <1>3, <2>2 DEF Calm, Upload!Shown
    <3>. QED  BY <1>3, <2>1, <2>2, <2>3, <2>4, <2>6, <2>7, <3>1, RowCallMoves
  <2>9. LinkedOK'
    BY <1>3, <2>1, <2>2, <2>3, <2>7, LinkStays
  <2>. QED  BY <2>5, <2>8, <2>9 DEF UploadInv
<1>4. ASSUME NEW st \in Upload!Refusals, Upload!SignFails(f, st)
      PROVE  UploadInv'
  <2>1. Upload!MapSignError(st) \in Upload!Codes
    BY DEF Upload!MapSignError, Upload!Codes
  <2>. QED  BY <1>3, <1>4, <2>1 DEF Upload!SignFails
<1>5. ASSUME NEW st \in Upload!Refusals, Upload!CompleteFails(f, st)
      PROVE  UploadInv'
  <2>1. Upload!MapCompleteError(st) \in Upload!Codes
    BY DEF Upload!MapCompleteError, Upload!Codes
  <2>. QED  BY <1>3, <1>5, <2>1 DEF Upload!CompleteFails
<1>6. ASSUME NEW code \in {"network", "quota_exceeded"}, Upload!PutFails(f, code)
      PROVE  UploadInv'
  <2>1. code \in Upload!Codes
    BY DEF Upload!Codes
  <2>. QED  BY <1>3, <1>6, <2>1 DEF Upload!PutFails
<1>7. ASSUME Upload!PutOk(f)
      PROVE  UploadInv'
  <2>1. /\ UnderWay(f) /\ uploadFlow[f].pc = "put" /\ i \in Items
        /\ uploadRow' = Upload!Patched(i, Upload!InStatus("completing"))
        /\ uploadFlow' = [uploadFlow EXCEPT ![f].pc = "complete"] /\ xhr' = Upload!XhrWithout({i})
        /\ UNCHANGED <<uploadPage, mounted, ready, newest, linked, descriptor, uploads, uploadRaces>>
    BY <1>7, <1>b DEF Upload!PutOk, UnderWay
  <2>2. /\ uploadRow' \in [Items -> RowType] /\ \A j \in Items \ {i} : uploadRow'[j] = uploadRow[j]
        /\ IF mounted /\ Upload!Shown(i) THEN uploadRow'[i].status = "completing"
                                         ELSE uploadRow'[i] = uploadRow[i]
    <3>1. /\ Upload!InStatus("completing").status = "completing"
          /\ Upload!InStatus("completing").status \in Upload!Statuses
          /\ Upload!InStatus("completing").error \in Upload!Codes \cup {Upload!NoError}
      BY DEF Upload!InStatus, Upload!Statuses
    <3>2. Upload!TypeOK
      BY DEF UploadInv
    <3>. QED  BY <2>1, <3>1, <3>2, PatchedIs
  <2>3. /\ uploadFlow' \in [Flows -> FlowType] /\ uploadFlow'[f] = [pc |-> "complete", item |-> i]
        /\ \A g \in Flows \ {f} : uploadFlow'[g] = uploadFlow[g]
    BY <1>a, <2>1 DEF FlowType
  <2>4. /\ xhr' \in [Items -> Flows \cup {Upload!NoFlow}] /\ \A j \in Items \ {i} : xhr'[j] = xhr[j]
        /\ xhr'[i] = Upload!NoFlow
    BY <1>a, <2>1 DEF Upload!XhrWithout
  <2>5. Upload!TypeOK'
    BY <2>1, <2>2, <2>3, <2>4 DEF UploadInv, Upload!TypeOK, RowType, FlowType
  <2>6. Calm => mounted /\ uploadRow[i].status = "uploading" /\ uploads[i] = 0
    BY <1>d, <2>1 DEF FlowAt
  <2>7. Calm => uploadRow'[i].status = "completing" /\ FlowAt(f)'
    <3>1. Calm => uploadRow'[i].status = "completing"
      BY <2>2, <2>6 DEF Upload!Shown
    <3>. QED  BY <2>1, <2>3, <2>6, <3>1 DEF FlowAt
  <2>8. FlowsOK' /\ NewestOK' /\ CalmOK'
    <3>1. (Calm' <=> Calm) /\ (Upload!Shown(i)' => Upload!Shown(i))
      BY <2>1, <2>2 DEF Calm, Upload!Shown
    <3>2. Calm' => FlowAt(f)' /\ (uploads'[i] # 0 => uploadRow'[i].status \in {"done", "gone"})
      BY <2>1, <2>6, <2>7, <3>1
    <3>3. UNCHANGED <<uploadPage, mounted, newest, uploads>> /\ UnderWay(f) /\ i \in Items
      BY <2>1
    <3>. QED  BY <2>2, <2>3, <2>4, <3>1, <3>2, <3>3, RowCallMoves
  <2>9. LinkedOK'
    <3>1. Calm => uploadRow'[i].status # "done"
      BY <2>7
    <3>2. UNCHANGED <<uploadPage, newest, linked, uploadRaces>> /\ UnderWay(f) /\ i \in Items
          /\ uploadFlow[f].pc # "attach"
      BY <2>1
    <3>. QED  BY <2>2, <2>3, <3>1, <3>2, LinkStays
  <2>. QED  BY <2>5, <2>8, <2>9 DEF UploadInv
<1>8. ASSUME Upload!CompleteOk(f)
      PROVE  UploadInv'
  <2>1. /\ UnderWay(f) /\ uploadFlow[f].pc = "complete" /\ i \in Items
        /\ uploadRow' = Upload!Patched(i, Upload!InStatus("done"))
        /\ uploadFlow' = [uploadFlow EXCEPT ![f].pc = "attach"]
        /\ UNCHANGED <<uploadPage, mounted, ready, newest, linked, descriptor, xhr, uploads, uploadRaces>>
    BY <1>8, <1>b DEF Upload!CompleteOk, UnderWay
  <2>2. /\ uploadRow' \in [Items -> RowType] /\ \A j \in Items \ {i} : uploadRow'[j] = uploadRow[j]
        /\ IF mounted /\ Upload!Shown(i) THEN uploadRow'[i].status = "done"
                                         ELSE uploadRow'[i] = uploadRow[i]
    <3>1. /\ Upload!InStatus("done").status = "done" /\ Upload!InStatus("done").status \in Upload!Statuses
          /\ Upload!InStatus("done").error \in Upload!Codes \cup {Upload!NoError}
      BY DEF Upload!InStatus, Upload!Statuses
    <3>2. Upload!TypeOK
      BY DEF UploadInv
    <3>. QED  BY <2>1, <3>1, <3>2, PatchedIs
  <2>3. /\ uploadFlow' \in [Flows -> FlowType] /\ uploadFlow'[f] = [pc |-> "attach", item |-> i]
        /\ \A g \in Flows \ {f} : uploadFlow'[g] = uploadFlow[g]
    BY <1>a, <2>1 DEF FlowType
  <2>4. Upload!TypeOK'
    BY <2>1, <2>2, <2>3 DEF UploadInv, Upload!TypeOK, RowType, FlowType
  <2>5. Calm => mounted /\ uploadRow[i].status = "completing" /\ uploads[i] = 0
    BY <1>d, <2>1 DEF FlowAt
  <2>6. Calm => uploadRow'[i].status = "done" /\ FlowAt(f)'
    <3>1. Calm => uploadRow'[i].status = "done"
      BY <2>2, <2>5 DEF Upload!Shown
    <3>. QED  BY <2>1, <2>3, <2>5, <3>1 DEF FlowAt
  <2>7. FlowsOK' /\ NewestOK' /\ CalmOK'
    <3>1. (Calm' <=> Calm) /\ (Upload!Shown(i)' => Upload!Shown(i)) /\ xhr[i] # f
      BY <1>c, <2>1, <2>2 DEF Calm, Upload!Shown
    <3>2. Calm' => FlowAt(f)' /\ (uploads'[i] # 0 => uploadRow'[i].status \in {"done", "gone"})
      BY <2>1, <2>5, <2>6, <3>1
    <3>3. UNCHANGED <<uploadPage, mounted, newest>> /\ UnderWay(f) /\ i \in Items /\ xhr'[i] = xhr[i]
      BY <2>1
    <3>4. /\ \A j \in Items \ {i} : /\ uploadRow'[j] = uploadRow[j] /\ xhr'[j] = xhr[j]
                                       /\ uploads'[j] = uploads[j]
          /\ \A g \in Flows \ {f} : uploadFlow'[g] = uploadFlow[g]
      BY <2>1, <2>2, <2>3
    <3>5. uploadFlow'[f].item = i /\ uploadFlow'[f].pc # "idle"
      BY <2>1, <2>3
    <3>. QED  BY <3>1, <3>2, <3>3, <3>4, <3>5, RowCallMoves
  <2>8. LinkedOK'
    BY <2>1, <2>2, <2>3, LinkStays
  <2>. QED  BY <2>4, <2>7, <2>8 DEF UploadInv
<1>9. ASSUME NEW ok \in BOOLEAN, Upload!Uploaded(f, ok)
      PROVE  UploadInv'
  <2>1. /\ UnderWay(f) /\ uploadFlow[f].pc = "attach" /\ i \in Items
        /\ linked' = IF ok /\ ~Upload!Multi THEN i ELSE linked
        /\ uploadRaces' = IF ok THEN uploadRaces ELSE uploadRaces \cup {"unlinked"}
        /\ uploads' = [uploads EXCEPT ![i] = @ + 1]
        /\ uploadFlow' = [uploadFlow EXCEPT ![f] = Upload!IdleFlow]
        /\ UNCHANGED <<uploadPage, mounted, ready, newest, uploadRow, descriptor, xhr>>
    BY <1>9, <1>b DEF Upload!Uploaded, Upload!Linked, Upload!NotesRace, UnderWay
  <2>2. /\ uploadFlow' \in [Flows -> FlowType] /\ uploadFlow'[f] = Upload!IdleFlow
        /\ \A g \in Flows \ {f} : uploadFlow'[g] = uploadFlow[g]
    BY <1>a, <1>e, <2>1
  <2>3. uploads' \in [Items -> Nat] /\ \A j \in Items \ {i} : uploads'[j] = uploads[j]
    BY <1>a, <2>1
  <2>4. Upload!TypeOK'
    <3>1. linked' \in Items \cup {Upload!NoItem} /\ uploadRaces' \subseteq Upload!Races
      BY <2>1 DEF UploadInv, Upload!TypeOK, Upload!Races
    <3>. QED  BY <2>1, <2>2, <2>3, <3>1 DEF UploadInv, Upload!TypeOK, FlowType
  <2>5. (Calm' <=> Calm) /\ (Calm => uploadRow[i].status = "done")
    BY <1>d, <2>1 DEF FlowAt, Calm
  <2>6. FlowsOK' /\ NewestOK' /\ CalmOK'
    <3>1. FlowAt(f)'
      BY <1>e, <2>2 DEF FlowAt, UnderWay
    <3>2. (Upload!Shown(i)' => Upload!Shown(i)) /\ xhr[i] # f
      BY <1>c, <2>1 DEF Upload!Shown
    <3>. QED  BY <2>1, <2>2, <2>3, <2>5, <3>1, <3>2, RowCallMoves
  <2>7. LinkedOK'
    <3>. SUFFICES ASSUME uploadRaces' = {}, ~Upload!Multi, newest # Upload!NoItem
                  PROVE  linked' = newest \/ uploadRow[newest].status # "done"
      BY <2>1 DEF LinkedOK, Upload!Multi
    <3>1. ok /\ uploadRaces = {}
      BY <2>1
    <3>2. Upload!Shown(i)
      BY <2>5, <3>1 DEF Calm, Upload!Shown
    <3>. QED  BY <2>1, <3>1, <3>2 DEF UploadInv, NewestOK
  <2>. QED  BY <2>4, <2>6, <2>7 DEF UploadInv
<1>. QED  BY <1>1, <1>2, <1>4, <1>5, <1>6, <1>7, <1>8, <1>9 DEF Upload!Answered

\* A call that is left by an abort is where it was, and it does not send bytes for a row of S
\* where no click came too late.
LEMMA AbortLeaves ==
    ASSUME Upload!NamesAssumption, UploadInv, NEW S, S \subseteq Items,
           uploadFlow' = Upload!FlowsAfterAbort(S), xhr' = Upload!XhrWithout(S)
    PROVE  /\ FlowsOK'
           /\ \A f \in Flows : /\ UnderWay(f)' => UnderWay(f) /\ uploadFlow'[f] = uploadFlow[f]
                               /\ uploadFlow[f].pc = "attach" => uploadFlow'[f] = uploadFlow[f]
           /\ Calm => \A f \in Flows : UnderWay(f)' /\ uploadFlow[f].item \in S => uploadFlow[f].pc # "put"
           /\ \A i \in Items : xhr'[i] = IF i \in S THEN Upload!NoFlow ELSE xhr[i]
           /\ uploadFlow' \in [Flows -> FlowType] /\ xhr' \in [Items -> Flows \cup {Upload!NoFlow}]
<1>1. /\ uploadFlow' \in [Flows -> FlowType] /\ xhr' \in [Items -> Flows \cup {Upload!NoFlow}]
      /\ \A f \in Flows :
            \/ uploadFlow'[f] = uploadFlow[f] /\ \A i \in S : xhr[i] # f
            \/ /\ uploadFlow'[f] = Upload!IdleFlow
               /\ uploadFlow[f].pc = "put" /\ uploadFlow[f].item \in S
      /\ \A i \in Items : xhr'[i] = IF i \in S THEN Upload!NoFlow ELSE xhr[i]
  BY AbortIs DEF UploadInv
<1>2. Upload!IdleFlow.pc = "idle"
  BY DEF Upload!IdleFlow
<1>3. FlowsOK'
  <2>1. ASSUME NEW f \in Flows
        PROVE  IF UnderWay(f)' THEN uploadFlow'[f].item \in Items ELSE uploadFlow'[f] = Upload!IdleFlow
    BY <1>1, <1>2 DEF UploadInv, FlowsOK, UnderWay
  <2>2. ASSUME NEW i \in Items, xhr'[i] # Upload!NoFlow
        PROVE  uploadFlow'[xhr'[i]] = [pc |-> "put", item |-> i]
    <3>1. xhr'[i] = xhr[i] /\ i \notin S
      BY <1>1, <2>2
    <3>2. xhr[i] \in Flows /\ uploadFlow[xhr[i]] = [pc |-> "put", item |-> i]
      BY <2>2, <3>1 DEF UploadInv, FlowsOK, Upload!TypeOK
    <3>. QED  BY <1>1, <3>1, <3>2
  <2>. QED  BY <2>1, <2>2 DEF FlowsOK
<1>4. ASSUME NEW f \in Flows
      PROVE  /\ UnderWay(f)' => UnderWay(f) /\ uploadFlow'[f] = uploadFlow[f]
             /\ uploadFlow[f].pc = "attach" => uploadFlow'[f] = uploadFlow[f]
  BY <1>1, <1>2 DEF UnderWay
<1>5. ASSUME Calm, NEW f \in Flows, UnderWay(f)', uploadFlow[f].item \in S
      PROVE  uploadFlow[f].pc # "put"
  <2>1. \A i \in S : xhr[i] # f
    BY <1>1, <1>2, <1>5 DEF UnderWay
  <2>. QED  BY <1>5, <2>1 DEF UploadInv, CalmOK, FlowAt
<1>. QED  BY <1>1, <1>3, <1>4, <1>5

\* cancel() and remove(): one row is given up.
LEMMA UploadGivenUp ==
    ASSUME Upload!NamesAssumption, UploadInv, NEW i \in Items, Upload!Cancel(i) \/ Upload!Remove(i)
    PROVE  UploadInv'
<1>1. /\ uploadFlow' = Upload!FlowsAfterAbort({i}) /\ xhr' = Upload!XhrWithout({i})
      /\ mounted /\ Upload!Shown(i) /\ descriptor' \subseteq descriptor
      /\ uploadRaces' = IF \E f \in Upload!FlowsOf(i) : Upload!PastRecall(f) THEN uploadRaces \cup {"late"}
                                                                           ELSE uploadRaces
      /\ UNCHANGED <<uploadPage, mounted, ready, newest, linked, uploads>>
  BY DEF Upload!Cancel, Upload!Remove, Upload!Offers, Upload!NotesRace, Upload!Shown, Upload!ActiveStatuses
<1>2. /\ uploadRow' \in [Items -> RowType] /\ \A j \in Items \ {i} : uploadRow'[j] = uploadRow[j]
      /\ \/ uploadRow'[i].status = "canceled" /\ uploadRow[i].status \in Upload!ActiveStatuses
         \/ uploadRow'[i].status = "gone"
  <2>1. CASE Upload!Cancel(i)
    <3>1. /\ Upload!Canceled.status = "canceled" /\ Upload!Canceled.status \in Upload!Statuses
          /\ Upload!Canceled.error \in Upload!Codes \cup {Upload!NoError}
      BY DEF Upload!Canceled, Upload!Statuses, Upload!Codes
    <3>2. uploadRow' = Upload!Patched(i, Upload!Canceled) /\ uploadRow[i].status \in Upload!ActiveStatuses
      BY <2>1 DEF Upload!Cancel, Upload!Offers
    <3>. QED  BY <1>1, <3>1, <3>2, PatchedIs DEF UploadInv
  <2>2. CASE Upload!Remove(i)
    <3>1. Upload!GoneRow \in RowType /\ Upload!GoneRow.status = "gone"
      BY DEF Upload!GoneRow, Upload!NoRow, RowType, Upload!Statuses
    <3>. QED  BY <2>2, <3>1 DEF Upload!Remove, UploadInv, Upload!TypeOK, RowType
  <2>. QED  BY <2>1, <2>2
<1>3. /\ FlowsOK' /\ uploadFlow' \in [Flows -> FlowType] /\ xhr' \in [Items -> Flows \cup {Upload!NoFlow}]
      /\ \A f \in Flows : /\ UnderWay(f)' => UnderWay(f) /\ uploadFlow'[f] = uploadFlow[f]
                          /\ uploadFlow[f].pc = "attach" => uploadFlow'[f] = uploadFlow[f]
      /\ Calm => \A f \in Flows : UnderWay(f)' /\ uploadFlow[f].item = i => uploadFlow[f].pc # "put"
      /\ \A j \in Items \ {i} : xhr'[j] = xhr[j]
  <2>. DEFINE S == {i}
  <2>1. S \subseteq Items /\ \A j \in Items : j \in S <=> j = i
    OBVIOUS
  <2>2. uploadFlow' = Upload!FlowsAfterAbort(S) /\ xhr' = Upload!XhrWithout(S)
    BY <1>1
  <2>. HIDE DEF S
  <2>3. \A f \in Flows : UnderWay(f) => uploadFlow[f].item \in Items
    BY DEF UploadInv, FlowsOK
  <2>. QED  BY <2>1, <2>2, <2>3, AbortLeaves
<1>4. Upload!TypeOK'
  <2>1. uploadRaces' \subseteq Upload!Races /\ descriptor' \subseteq Items
    BY <1>1 DEF UploadInv, Upload!TypeOK, Upload!Races
  <2>. QED  BY <1>1, <1>2, <1>3, <2>1 DEF UploadInv, Upload!TypeOK, RowType, FlowType
<1>5. NewestOK'
  <2>1. \A j \in Items : Upload!Shown(j)' => Upload!Shown(j)
    BY <1>1, <1>2 DEF Upload!Shown
  <2>. QED  BY <1>1, <2>1 DEF UploadInv, NewestOK, Upload!Multi
<1>6. Calm' => Calm /\ \A f \in Flows : uploadFlow[f].item = i => uploadFlow[f].pc \notin {"complete", "attach"}
  BY <1>1 DEF Calm, Upload!FlowsOf, Upload!PastRecall
<1>7. CalmOK'
  <2>. SUFFICES ASSUME Calm'
                PROVE  /\ \A f, g \in Flows : UnderWay(f)' /\ UnderWay(g)' /\ uploadFlow'[f].item = uploadFlow'[g].item
                                                => f = g
                       /\ \A f \in Flows : FlowAt(f)'
                       /\ \A j \in Items : uploads'[j] # 0 => uploadRow'[j].status \in {"done", "gone"}
    BY DEF CalmOK
  <2>1. /\ \A f, g \in Flows : UnderWay(f) /\ UnderWay(g) /\ uploadFlow[f].item = uploadFlow[g].item => f = g
        /\ \A f \in Flows : FlowAt(f)
        /\ \A j \in Items : uploads[j] # 0 => uploadRow[j].status \in {"done", "gone"}
    BY <1>6 DEF UploadInv, CalmOK
  <2>2. ASSUME NEW f \in Flows
        PROVE  FlowAt(f)'
    <3>1. CASE ~UnderWay(f)'
      BY <3>1 DEF FlowAt, UnderWay
    <3>2. CASE UnderWay(f)' /\ uploadFlow[f].item = i
      <4>1. uploadFlow[f].pc = "sign" /\ uploadFlow'[f] = uploadFlow[f]
        BY <1>3, <1>6, <3>2 DEF UploadInv, Upload!TypeOK, UnderWay
      <4>. QED  BY <1>1, <1>2, <3>2, <4>1 DEF FlowAt
    <3>3. CASE UnderWay(f)' /\ uploadFlow[f].item # i
      <4>1. uploadFlow[f].item \in Items \ {i} /\ uploadFlow'[f] = uploadFlow[f] /\ UnderWay(f)
        BY <1>3, <3>3 DEF UploadInv, FlowsOK
      <4>2. UNCHANGED <<mounted, uploads>> /\ FlowAt(f)
        BY <1>1, <2>1
      <4>. QED  BY <1>2, <1>3, <4>1, <4>2 DEF FlowAt, UnderWay
    <3>. QED  BY <3>1, <3>2, <3>3
  <2>3. ASSUME NEW j \in Items, uploads'[j] # 0
        PROVE  uploadRow'[j].status \in {"done", "gone"}
    BY <1>1, <1>2, <2>1, <2>3 DEF Upload!ActiveStatuses
  <2>. QED  BY <1>3, <2>1, <2>2, <2>3
<1>8. LinkedOK'
  <2>. SUFFICES ASSUME uploadRaces' = {}, ~Upload!Multi, newest # Upload!NoItem, uploadRow'[newest].status = "done"
                PROVE  linked = newest \/ \E f \in Flows : uploadFlow'[f] = [pc |-> "attach", item |-> newest]
    BY <1>1 DEF LinkedOK, Upload!Multi
  <2>1. uploadRaces = {} /\ newest \in Items
    BY <1>1 DEF UploadInv, Upload!TypeOK
  <2>2. uploadRow[newest].status = "done"
    BY <1>2, <2>1
  <2>. QED  BY <1>3, <2>1, <2>2 DEF UploadInv, LinkedOK
<1>. QED  BY <1>3, <1>4, <1>5, <1>7, <1>8 DEF UploadInv

\* The clean-up effect of the widget.
LEMMA UploadUnmounted ==
    ASSUME Upload!NamesAssumption, UploadInv, Upload!Unmount
    PROVE  UploadInv'
<1>1. /\ uploadFlow' = Upload!FlowsAfterAbort(Items) /\ xhr' = Upload!XhrWithout(Items)
      /\ mounted' = FALSE
      /\ uploadRaces' = IF \E f \in Flows : uploadFlow[f].pc = "sign" \/ Upload!PastRecall(f)
                        THEN uploadRaces \cup {"late"} ELSE uploadRaces
      /\ UNCHANGED <<uploadPage, ready, newest, linked, uploadRow, descriptor, uploads>>
  BY DEF Upload!Unmount, Upload!NotesRace
<1>2. /\ FlowsOK' /\ uploadFlow' \in [Flows -> FlowType] /\ xhr' \in [Items -> Flows \cup {Upload!NoFlow}]
      /\ \A f \in Flows : /\ UnderWay(f)' => UnderWay(f) /\ uploadFlow'[f] = uploadFlow[f]
                          /\ uploadFlow[f].pc = "attach" => uploadFlow'[f] = uploadFlow[f]
      /\ Calm => \A f \in Flows : UnderWay(f)' /\ uploadFlow[f].item \in Items => uploadFlow[f].pc # "put"
  <2>1. Items \subseteq Items
    OBVIOUS
  <2>. QED  BY <1>1, <2>1, AbortLeaves
<1>3. Upload!TypeOK'
  <2>1. uploadRaces' \subseteq Upload!Races
    BY <1>1 DEF UploadInv, Upload!TypeOK, Upload!Races
  <2>. QED  BY <1>1, <1>2, <2>1 DEF UploadInv, Upload!TypeOK, FlowType
<1>4. NewestOK'
  BY <1>1 DEF UploadInv, NewestOK, Upload!Multi, Upload!Shown
<1>5. Calm' => Calm /\ \A f \in Flows : ~UnderWay(f)'
  <2>. SUFFICES ASSUME Calm', NEW f \in Flows, UnderWay(f)'
                PROVE  Calm /\ FALSE
    BY <1>1 DEF Calm
  <2>1. Calm /\ uploadFlow[f].pc \notin {"sign", "complete", "attach"}
    BY <1>1 DEF Calm, Upload!PastRecall
  <2>2. UnderWay(f) /\ uploadFlow[f].item \in Items
    BY <1>2 DEF UploadInv, FlowsOK
  <2>. QED  BY <1>2, <2>1, <2>2 DEF UploadInv, Upload!TypeOK, UnderWay
<1>6. CalmOK'
  BY <1>1, <1>5 DEF UploadInv, CalmOK, FlowAt, UnderWay
<1>7. LinkedOK'
  <2>1. uploadRaces' = {} => uploadRaces = {}
    BY <1>1
  <2>. QED  BY <1>1, <1>2, <2>1 DEF UploadInv, LinkedOK, Upload!Multi
<1>. QED  BY <1>2, <1>3, <1>4, <1>6, <1>7 DEF UploadInv

\* addFiles(): the new row's call starts, or its row waits; what it replaces is given up.
LEMMA UploadAdded ==
    ASSUME Upload!NamesAssumption, UploadInv, NEW i \in Items, NEW f \in Flows,
           NEW fault \in Upload!ClientFaults, NEW found \in BOOLEAN, Upload!AddFiles(i, f, fault, found)
    PROVE  UploadInv'
<1>. DEFINE S == Upload!Replaced
            first == IF fault # Upload!NoError THEN [Upload!NoRow EXCEPT !.status = "error", !.error = fault]
                     ELSE [Upload!NoRow EXCEPT !.status = IF found THEN "signing" ELSE "idle"]
            starts == fault = Upload!NoError /\ found
            aborted == Upload!FlowsAfterAbort(S)
            begun == [pc |-> "sign", item |-> i]
<1>1. /\ mounted /\ uploadRow[i] = Upload!NoRow /\ uploadFlow[f].pc = "idle"
      /\ uploadRow' = [j \in Items |-> IF j = i THEN first ELSE IF j \in S THEN Upload!GoneRow ELSE uploadRow[j]]
      /\ uploadFlow' = IF starts THEN [aborted EXCEPT ![f] = begun] ELSE aborted
      /\ newest' = i /\ descriptor' = descriptor \ S /\ xhr' = Upload!XhrWithout(S)
      /\ uploadRaces' = IF \E j \in S : \E g \in Upload!FlowsOf(j) : Upload!PastRecall(g)
                        THEN uploadRaces \cup {"late"} ELSE uploadRaces
      /\ UNCHANGED <<uploadPage, mounted, ready, linked, uploads>>
  BY DEF Upload!AddFiles, Upload!Accepting, Upload!NotesRace
<1>2. /\ first \in RowType /\ first.status \in {"error", "signing", "idle"}
      /\ starts => first.status = "signing"
      /\ Upload!GoneRow \in RowType /\ Upload!GoneRow.status = "gone"
  <2>1. Upload!NoRow \in RowType /\ fault \in Upload!Codes \cup {Upload!NoError}
    BY DEF Upload!NoRow, RowType, Upload!Statuses, Upload!NoError, Upload!ClientFaults, Upload!Codes
  <2>2. Upload!GoneRow \in RowType /\ Upload!GoneRow.status = "gone"
    BY DEF Upload!GoneRow, Upload!NoRow, RowType, Upload!Statuses
  <2>3. CASE fault # Upload!NoError
    BY <2>1, <2>2, <2>3 DEF RowType, Upload!Statuses
  <2>4. CASE fault = Upload!NoError
    BY <2>1, <2>2, <2>4 DEF RowType, Upload!Statuses
  <2>. QED  BY <2>3, <2>4
<1>3. S \subseteq Items /\ i \notin S
  BY <1>1 DEF Upload!Replaced, Upload!Shown, Upload!NoRow
<1>4. /\ aborted \in [Flows -> FlowType] /\ xhr' \in [Items -> Flows \cup {Upload!NoFlow}]
      /\ \A g \in Flows :
            \/ aborted[g] = uploadFlow[g] /\ \A j \in S : xhr[j] # g
            \/ /\ aborted[g] = Upload!IdleFlow
               /\ uploadFlow[g].pc = "put" /\ uploadFlow[g].item \in S
      /\ \A j \in Items : xhr'[j] = IF j \in S THEN Upload!NoFlow ELSE xhr[j]
  <2>. HIDE DEF S
  <2>. QED  BY <1>1, <1>3, AbortIs DEF UploadInv
<1>5. /\ uploadRow' \in [Items -> RowType] /\ uploadRow'[i].status \in {"error", "signing", "idle"}
      /\ starts => uploadRow'[i].status = "signing"
      /\ \A j \in Items \ {i} : uploadRow'[j] = IF j \in S THEN Upload!GoneRow ELSE uploadRow[j]
  <2>1. uploadRow \in [Items -> RowType]
    BY DEF UploadInv, Upload!TypeOK, RowType
  <2>. HIDE DEF S, first, starts
  <2>. QED  BY <1>1, <1>2, <2>1
<1>6. /\ uploadFlow' \in [Flows -> FlowType]
      /\ uploadFlow'[f] = IF starts THEN begun ELSE Upload!IdleFlow
      /\ \A g \in Flows \ {f} : uploadFlow'[g] = aborted[g]
  <2>1. aborted[f] = uploadFlow[f] /\ uploadFlow[f] = Upload!IdleFlow
    BY <1>1, <1>4 DEF UploadInv, FlowsOK, UnderWay
  <2>2. begun \in FlowType
    BY DEF FlowType
  <2>. HIDE DEF aborted, starts, begun
  <2>. QED  BY <1>1, <1>4, <2>1, <2>2
<1>. HIDE DEF S, first, starts, aborted
<1>7. Upload!IdleFlow.pc = "idle" /\ f # Upload!NoFlow /\ begun.pc = "sign" /\ begun.item = i
  BY DEF Upload!IdleFlow, Upload!NamesAssumption
<1>8. Upload!TypeOK'
  <2>1. uploadRaces' \subseteq Upload!Races /\ descriptor' \subseteq Items
    BY <1>1 DEF UploadInv, Upload!TypeOK, Upload!Races
  <2>. QED  BY <1>1, <1>4, <1>5, <1>6, <2>1 DEF UploadInv, Upload!TypeOK, RowType, FlowType
<1>9. FlowsOK'
  <2>1. ASSUME NEW g \in Flows
        PROVE  IF UnderWay(g)' THEN uploadFlow'[g].item \in Items ELSE uploadFlow'[g] = Upload!IdleFlow
    <3>1. CASE g = f
      BY <1>6, <1>7, <3>1 DEF UnderWay
    <3>2. CASE g # f
      BY <1>4, <1>6, <1>7, <3>2 DEF UploadInv, FlowsOK, UnderWay
    <3>. QED  BY <3>1, <3>2
  <2>2. ASSUME NEW j \in Items, xhr'[j] # Upload!NoFlow
        PROVE  uploadFlow'[xhr'[j]] = [pc |-> "put", item |-> j]
    <3>1. xhr'[j] = xhr[j] /\ j \notin S
      BY <1>4, <2>2
    <3>2. xhr[j] \in Flows /\ uploadFlow[xhr[j]] = [pc |-> "put", item |-> j]
      BY <2>2, <3>1 DEF UploadInv, FlowsOK, Upload!TypeOK
    <3>3. xhr[j] # f
      BY <1>1, <3>2
    <3>. QED  BY <1>4, <1>6, <3>1, <3>2, <3>3
  <2>. QED  BY <2>1, <2>2 DEF FlowsOK
<1>10. NewestOK'
  <2>. SUFFICES ASSUME ~Upload!Multi, NEW j \in Items, j # i
                PROVE  uploadRow'[j].status \in {"absent", "gone"}
    BY <1>1 DEF NewestOK, Upload!Multi, Upload!Shown
  <2>1. j \in S \/ uploadRow[j].status \in {"absent", "gone"}
    BY DEF S, Upload!Replaced, Upload!Shown
  <2>. QED  BY <1>2, <1>5, <2>1
<1>11. CalmOK'
  <2>. SUFFICES ASSUME Calm'
                PROVE  /\ \A g, h \in Flows : UnderWay(g)' /\ UnderWay(h)' /\ uploadFlow'[g].item = uploadFlow'[h].item
                                                => g = h
                       /\ \A g \in Flows : FlowAt(g)'
                       /\ \A j \in Items : uploads'[j] # 0 => uploadRow'[j].status \in {"done", "gone"}
    BY DEF CalmOK
  <2>1. Calm /\ \A g \in Flows : uploadFlow[g].item \in S => uploadFlow[g].pc \notin {"complete", "attach"}
    BY <1>1, <1>3 DEF Calm, Upload!FlowsOf, Upload!PastRecall
  <2>2. /\ \A g, h \in Flows : UnderWay(g) /\ UnderWay(h) /\ uploadFlow[g].item = uploadFlow[h].item => g = h
        /\ \A g \in Flows : FlowAt(g)
        /\ \A j \in Items : uploads[j] # 0 => uploadRow[j].status \in {"done", "gone"}
    BY <2>1 DEF UploadInv, CalmOK
  <2>3. uploadRow[i].status = "absent"
    BY <1>1 DEF Upload!NoRow
  <2>4. ASSUME NEW g \in Flows, UnderWay(g)
        PROVE  uploadFlow[g].item \in Items \ {i}
    <3>1. uploadFlow[g].item \in Items /\ uploadFlow[g].pc \in {"sign", "put", "complete", "attach"}
      BY <2>4 DEF UploadInv, FlowsOK, Upload!TypeOK, UnderWay
    <3>2. FlowAt(g)
      BY <2>2
    <3>. QED  BY <2>3, <3>1, <3>2 DEF FlowAt
  <2>5. ASSUME NEW g \in Flows \ {f}, UnderWay(g)'
        PROVE  UnderWay(g) /\ uploadFlow'[g] = uploadFlow[g] /\ \A j \in S : xhr[j] # g
    BY <1>4, <1>6, <1>7, <2>5 DEF UnderWay
  <2>6. ASSUME NEW g \in Flows
        PROVE  FlowAt(g)'
    <3>1. CASE ~UnderWay(g)'
      BY <3>1 DEF FlowAt, UnderWay
    <3>2. CASE g = f /\ starts
      BY <1>1, <1>5, <1>6, <1>7, <3>2 DEF FlowAt
    <3>3. CASE g = f /\ ~starts
      BY <1>6, <1>7, <3>3 DEF FlowAt, UnderWay
    <3>4. CASE g # f /\ UnderWay(g)' /\ uploadFlow[g].item \in S
      <4>1. UnderWay(g) /\ uploadFlow'[g] = uploadFlow[g] /\ uploadFlow[g].item \in Items \ {i}
        BY <2>4, <2>5, <3>4
      <4>2. uploadFlow[g].pc = "sign"
        BY <2>1, <2>2, <2>5, <3>4, <4>1 DEF FlowAt, UploadInv, Upload!TypeOK, UnderWay
      <4>3. uploadRow'[uploadFlow[g].item].status = "gone"
        BY <1>2, <1>5, <3>4, <4>1
      <4>. QED  BY <1>1, <4>1, <4>2, <4>3 DEF FlowAt
    <3>5. CASE g # f /\ UnderWay(g)' /\ uploadFlow[g].item \notin S
      <4>1. UnderWay(g) /\ uploadFlow'[g] = uploadFlow[g] /\ uploadFlow[g].item \in Items \ {i}
        BY <2>4, <2>5, <3>5
      <4>2. /\ uploadRow'[uploadFlow[g].item] = uploadRow[uploadFlow[g].item]
            /\ xhr'[uploadFlow[g].item] = xhr[uploadFlow[g].item]
        BY <1>4, <1>5, <3>5, <4>1
      <4>3. UNCHANGED <<mounted, uploads>> /\ FlowAt(g)
        BY <1>1, <2>2
      <4>. QED  BY <4>1, <4>2, <4>3 DEF FlowAt, UnderWay
    <3>. QED  BY <3>1, <3>2, <3>3, <3>4, <3>5
  <2>7. ASSUME NEW j \in Items, uploads'[j] # 0
        PROVE  uploadRow'[j].status \in {"done", "gone"}
    <3>1. uploadRow[j].status \in {"done", "gone"} /\ j # i
      BY <1>1, <2>2, <2>3, <2>7
    <3>. QED  BY <1>2, <1>5, <3>1
  <2>8. ASSUME NEW g \in Flows, NEW h \in Flows, UnderWay(g)', UnderWay(h)',
               uploadFlow'[g].item = uploadFlow'[h].item
        PROVE  g = h
    <3>1. CASE g # f /\ h # f
      BY <2>2, <2>5, <2>8, <3>1
    <3>2. ASSUME NEW k \in Flows, k # f, UnderWay(k)', UnderWay(f)'
          PROVE  uploadFlow'[k].item # uploadFlow'[f].item
      <4>1. uploadFlow'[k].item # i
        BY <2>4, <2>5, <3>2
      <4>2. uploadFlow'[f].item = i
        BY <1>6, <1>7, <3>2 DEF UnderWay
      <4>. QED  BY <4>1, <4>2
    <3>. QED  BY <2>8, <3>1, <3>2
  <2>. QED  BY <2>6, <2>7, <2>8
<1>12. LinkedOK'
  BY <1>1, <1>5 DEF LinkedOK
<1>. QED  BY <1>8, <1>9, <1>10, <1>11, <1>12 DEF UploadInv

\* retry(): a call starts where the row allows it.
LEMMA UploadRetried ==
    ASSUME Upload!NamesAssumption, UploadInv, NEW i \in Items, NEW f \in Flows, Upload!Retry(i, f)
    PROVE  UploadInv'
<1>. DEFINE pc == IF Upload!Resumes(i) THEN "put" ELSE "sign"
            begun == [pc |-> pc, item |-> i]
<1>a. /\ uploadRow \in [Items -> RowType] /\ uploadFlow \in [Flows -> FlowType]
      /\ xhr \in [Items -> Flows \cup {Upload!NoFlow}] /\ f # Upload!NoFlow
  BY DEF UploadInv, Upload!TypeOK, RowType, FlowType, Upload!NamesAssumption
<1>1. /\ mounted /\ uploadRow[i].status \in {"canceled", "error"} /\ uploadFlow[f].pc = "idle"
      /\ uploadFlow' = [uploadFlow EXCEPT ![f] = begun]
      /\ xhr' = IF Upload!Resumes(i) THEN [xhr EXCEPT ![i] = f] ELSE xhr
      /\ uploadRaces' = IF Upload!FlowsOf(i) # {} THEN uploadRaces \cup {"double"} ELSE uploadRaces
      /\ UNCHANGED <<uploadPage, mounted, ready, newest, linked, descriptor, uploads>>
  BY DEF Upload!Retry, Upload!NotesRace, Upload!Offers, Upload!IsRetryable, Upload!ActiveStatuses
<1>2. /\ uploadRow' \in [Items -> RowType] /\ \A j \in Items \ {i} : uploadRow'[j] = uploadRow[j]
      /\ uploadRow'[i].status = IF Upload!Resumes(i) THEN "uploading" ELSE "signing"
  <2>1. CASE Upload!Resumes(i)
    <3>1. /\ Upload!InStatus("uploading").status = "uploading"
          /\ Upload!InStatus("uploading").status \in Upload!Statuses
          /\ Upload!InStatus("uploading").error \in Upload!Codes \cup {Upload!NoError}
      BY DEF Upload!InStatus, Upload!Statuses
    <3>2. uploadRow' = Upload!Patched(i, Upload!InStatus("uploading")) /\ Upload!Shown(i)
      BY <1>1, <2>1 DEF Upload!Retry, Upload!Shown
    <3>. QED  BY <1>1, <2>1, <3>1, <3>2, PatchedIs DEF UploadInv
  <2>2. CASE ~Upload!Resumes(i)
    <3>1. [Upload!NoRow EXCEPT !.status = "signing"] \in RowType
          /\ [Upload!NoRow EXCEPT !.status = "signing"].status = "signing"
      BY DEF Upload!NoRow, RowType, Upload!Statuses
    <3>2. uploadRow' = [uploadRow EXCEPT ![i] = [Upload!NoRow EXCEPT !.status = "signing"]]
      BY <2>2 DEF Upload!Retry
    <3>. QED  BY <1>a, <2>2, <3>1, <3>2
  <2>. QED  BY <2>1, <2>2
<1>3. /\ uploadFlow' \in [Flows -> FlowType] /\ uploadFlow'[f] = begun
      /\ \A g \in Flows \ {f} : uploadFlow'[g] = uploadFlow[g]
  <2>1. begun \in FlowType
    BY DEF FlowType
  <2>. HIDE DEF begun
  <2>. QED  BY <1>a, <1>1, <2>1
<1>4. /\ xhr' \in [Items -> Flows \cup {Upload!NoFlow}] /\ \A j \in Items \ {i} : xhr'[j] = xhr[j]
      /\ xhr'[i] = IF Upload!Resumes(i) THEN f ELSE xhr[i]
  BY <1>a, <1>1
<1>5. begun.pc = pc /\ begun.item = i /\ pc \in {"put", "sign"} /\ (pc = "put" <=> Upload!Resumes(i))
  OBVIOUS
<1>. HIDE DEF begun, pc
<1>6. Upload!TypeOK'
  <2>1. uploadRaces' \subseteq Upload!Races
    BY <1>1 DEF UploadInv, Upload!TypeOK, Upload!Races
  <2>. QED  BY <1>1, <1>2, <1>3, <1>4, <2>1 DEF UploadInv, Upload!TypeOK, RowType, FlowType
<1>7. FlowsOK'
  <2>1. ASSUME NEW g \in Flows
        PROVE  IF UnderWay(g)' THEN uploadFlow'[g].item \in Items ELSE uploadFlow'[g] = Upload!IdleFlow
    <3>1. CASE g = f
      BY <1>3, <1>5, <3>1 DEF UnderWay
    <3>2. CASE g # f
      BY <1>3, <3>2 DEF UploadInv, FlowsOK, UnderWay
    <3>. QED  BY <3>1, <3>2
  <2>2. ASSUME NEW j \in Items, xhr'[j] # Upload!NoFlow
        PROVE  uploadFlow'[xhr'[j]] = [pc |-> "put", item |-> j]
    <3>1. CASE j = i /\ Upload!Resumes(i)
      <4>1. begun = [pc |-> "put", item |-> i]
        BY <3>1 DEF begun, pc
      <4>. QED  BY <1>3, <1>4, <3>1, <4>1
    <3>2. CASE xhr'[j] = xhr[j]
      <4>1. xhr[j] \in Flows /\ uploadFlow[xhr[j]] = [pc |-> "put", item |-> j]
        BY <2>2, <3>2 DEF UploadInv, FlowsOK, Upload!TypeOK
      <4>2. xhr[j] # f
        BY <1>1, <4>1
      <4>. QED  BY <1>3, <3>2, <4>1, <4>2
    <3>. QED  BY <1>4, <3>1, <3>2
  <2>. QED  BY <2>1, <2>2 DEF FlowsOK
<1>8. NewestOK'
  <2>1. \A j \in Items : Upload!Shown(j)' => Upload!Shown(j)
    BY <1>1, <1>2 DEF Upload!Shown
  <2>. QED  BY <1>1, <2>1 DEF UploadInv, NewestOK, Upload!Multi
<1>9. CalmOK'
  <2>. SUFFICES ASSUME Calm'
                PROVE  /\ \A g, h \in Flows : UnderWay(g)' /\ UnderWay(h)' /\ uploadFlow'[g].item = uploadFlow'[h].item
                                                => g = h
                       /\ \A g \in Flows : FlowAt(g)'
                       /\ \A j \in Items : uploads'[j] # 0 => uploadRow'[j].status \in {"done", "gone"}
    BY DEF CalmOK
  <2>1. Calm /\ \A g \in Flows : uploadFlow[g].item # i
    BY <1>1 DEF Calm, Upload!FlowsOf
  <2>2. /\ \A g, h \in Flows : UnderWay(g) /\ UnderWay(h) /\ uploadFlow[g].item = uploadFlow[h].item => g = h
        /\ \A g \in Flows : FlowAt(g)
        /\ \A j \in Items : uploads[j] # 0 => uploadRow[j].status \in {"done", "gone"}
    BY <2>1 DEF UploadInv, CalmOK
  <2>3. FlowAt(f)'
    BY <1>1, <1>2, <1>3, <1>4, <1>5 DEF FlowAt
  <2>4. ASSUME NEW g \in Flows \ {f}
        PROVE  FlowAt(g)'
    <3>1. CASE UnderWay(g)
      <4>1. uploadFlow[g].item \in Items \ {i}
        BY <2>1, <3>1 DEF UploadInv, FlowsOK
      <4>2. UNCHANGED <<mounted, uploads>> /\ FlowAt(g)
        BY <1>1, <2>2
      <4>. QED  BY <1>2, <1>3, <1>4, <4>1, <4>2 DEF FlowAt, UnderWay
    <3>2. CASE ~UnderWay(g)
      BY <1>3, <3>2 DEF FlowAt, UnderWay
    <3>. QED  BY <3>1, <3>2
  <2>5. ASSUME NEW j \in Items, uploads'[j] # 0
        PROVE  uploadRow'[j].status \in {"done", "gone"}
    BY <1>1, <1>2, <2>2, <2>5
  <2>6. \A g, h \in Flows : UnderWay(g)' /\ UnderWay(h)' /\ uploadFlow'[g].item = uploadFlow'[h].item => g = h
    <3>1. \A g \in Flows \ {f} : (UnderWay(g)' <=> UnderWay(g)) /\ uploadFlow'[g].item # i
      BY <1>3, <2>1 DEF UnderWay
    <3>2. uploadFlow'[f].item = i
      BY <1>3, <1>5
    <3>. QED  BY <1>3, <2>2, <3>1, <3>2
  <2>. QED  BY <2>3, <2>4, <2>5, <2>6
<1>10. LinkedOK'
  <2>. SUFFICES ASSUME uploadRaces' = {}, ~Upload!Multi, newest # Upload!NoItem, uploadRow'[newest].status = "done"
                PROVE  linked = newest \/ \E g \in Flows : uploadFlow'[g] = [pc |-> "attach", item |-> newest]
    BY <1>1 DEF LinkedOK, Upload!Multi
  <2>1. uploadRaces = {} /\ newest \in Items
    BY <1>1 DEF UploadInv, Upload!TypeOK
  <2>2. uploadRow[newest].status = "done"
    BY <1>2, <2>1
  <2>3. linked = newest \/ \E g \in Flows : uploadFlow[g] = [pc |-> "attach", item |-> newest]
    BY <2>1, <2>2 DEF UploadInv, LinkedOK
  <2>. QED  BY <1>1, <1>3, <2>3
<1>. QED  BY <1>6, <1>7, <1>8, <1>9, <1>10 DEF UploadInv

LEMMA UploadStep ==
    ASSUME Upload!NamesAssumption, UploadInv, [Upload!Next]_(Upload!vars)
    PROVE  UploadInv'
<1>1. ASSUME UNCHANGED <<uploadPage, mounted, newest, linked, uploadRow, descriptor, xhr, uploadFlow, uploads>>,
             ready' \in BOOLEAN, uploadRaces' = uploadRaces \/ uploadRaces' = uploadRaces \cup {"unheard"}
      PROVE  UploadInv'
  <2>1. Upload!TypeOK'
    <3>1. uploadRaces' \subseteq Upload!Races
      BY <1>1 DEF UploadInv, Upload!TypeOK, Upload!Races
    <3>. QED  BY <1>1, <3>1 DEF UploadInv, Upload!TypeOK
  <2>2. FlowsOK' /\ NewestOK'
    BY <1>1 DEF UploadInv, FlowsOK, UnderWay, NewestOK, Upload!Multi, Upload!Shown
  <2>3. (Calm' <=> Calm) /\ (uploadRaces' = {} => uploadRaces = {})
    BY <1>1 DEF Calm
  <2>4. CalmOK'
    BY <1>1, <2>3 DEF UploadInv, CalmOK, FlowAt, UnderWay
  <2>5. LinkedOK'
    BY <1>1, <2>3 DEF UploadInv, LinkedOK, Upload!Multi
  <2>. QED  BY <2>1, <2>2, <2>4, <2>5 DEF UploadInv
<1>2. CASE Upload!PageReady
  BY <1>1, <1>2 DEF Upload!PageReady
<1>3. CASE \E i \in Items : Upload!RetryUnheard(i)
  BY <1>1, <1>3 DEF Upload!RetryUnheard, Upload!NotesRace, UploadInv, Upload!TypeOK
<1>4. CASE UNCHANGED Upload!vars
  BY <1>1, <1>4 DEF Upload!vars, UploadInv, Upload!TypeOK
<1>. QED
  BY <1>2, <1>3, <1>4, UploadAdded, UploadRetried, UploadGivenUp, UploadUnmounted, UploadAnswered
     DEF Upload!Next

LEMMA UploadHeld == ASSUME Upload!NamesAssumption PROVE Upload!Spec => []UploadInv
BY UploadInitial, UploadStep, PTL DEF Upload!Spec

\* use-file-upload.ts: while bytes are being sent the row says so and cancel finds the request,
\* and once nothing is under way the profile or organization has the file picked last, for
\* every number of rows and of calls of process() that click and answer across each other.
THEOREM UploadsAlwaysShown == Upload!Spec => []UploadsShown
<1>1. ASSUME UploadInv PROVE UploadsShown
  <2>1. Upload!InFlightShown
    BY <1>1 DEF UploadInv, CalmOK, Calm, FlowAt, UnderWay, Upload!InFlightShown
  <2>2. Upload!PickedLastWins
    BY <1>1 DEF UploadInv, LinkedOK, Upload!PickedLastWins
  <2>. QED  BY <1>1, <2>1, <2>2 DEF UploadInv, UploadsShown
<1>. QED  BY <1>1, UploadHeld, PagesAssumption, PTL

\* use-file-upload.ts: onUploaded is called for a row that is done, and once, for every number
\* of rows and calls.
THEOREM FilesHandedOverOnce == Upload!Spec => HandedOverOnce
<1>1. ASSUME UploadInv
      PROVE  [\A f \in Flows : (\E ok \in BOOLEAN : Upload!Uploaded(f, ok)) /\ uploadRaces \cap {"late", "double"} = {} =>
                 LET i == uploadFlow[f].item IN uploadRow[i].status = "done" /\ uploads[i] = 0]_(Upload!vars)
  BY <1>1 DEF UploadInv, CalmOK, Calm, FlowAt, Upload!Uploaded
<1>. QED  BY <1>1, UploadHeld, PagesAssumption, PTL DEF HandedOverOnce, Upload!HandedOverOnce

-----------------------------------------------------------------------------
(***************************************************************************)
(* Invitations.                                                            *)
(***************************************************************************)
InviteRow == [st : Inv!Statuses, kind : Inv!Kinds, from : Ids \cup {Inv!NoId}]
InviteCall == [pc : Inv!CallSteps, id : Ids \cup {Inv!NoId}, kind : Inv!Kinds,
               proc : ApiProcs \cup {Inv!NoId}, by : {"list", "confirm", "dialog", "api"}]
Used(i) == inv[i].st # "unused"
Over(i) == inv[i].st \notin {"unused", "pending"}

InvitesTyped ==
    /\ inv \in [Ids -> InviteRow]
    /\ inflight \in [ApiProcs -> SUBSET Ids]
    /\ inviteCall \in [InviteCalls -> InviteCall]
    /\ wanted \in BOOLEAN

\* What a call works on is there; a link's resend works on a link; and a cancel the browser has
\* asked for was done when it was answered.
InviteCallOK(c) ==
    /\ inviteCall[c].pc \in Inv!ResendSteps \cup {"cancel", "resend"} =>
         inviteCall[c].proc \in ApiProcs /\ inviteCall[c].id \in Ids /\ Used(inviteCall[c].id)
    /\ inviteCall[c].pc \in {"linkCreate", "linkCancel"} => inv[inviteCall[c].id].kind = "link"
    /\ inviteCall[c].by = "confirm" =>
         /\ inviteCall[c].pc \in {"cancel", "ok", "failed"}
         /\ inviteCall[c].pc = "ok" => inviteCall[c].id \in Ids /\ Over(inviteCall[c].id)

\* A process has a key for each of its resends, and each has a key of its own.
ResendsOK ==
    \A p \in ApiProcs :
      /\ \A i \in Ids : i \in inflight[p] <=> \E c \in Inv!Running(p) : inviteCall[c].id = i
      /\ \A c, d \in Inv!Running(p) : inviteCall[c].id = inviteCall[d].id => c = d

RoutesInv == /\ InvitesTyped /\ (\A c \in InviteCalls : InviteCallOK(c)) /\ ResendsOK
             /\ Inv!NeverStranded

\* The browser: it has seen a row before it cancels it, and no answer that is older than a
\* cancel it was told of is, or will be, taken for fresh.
NoneWithdrawn(data) == \A i \in withdrawn : <<i, "pending">> \notin data
BrowserTyped ==
    /\ inviteList \in Inv!QueryOf(SUBSET (Ids \X Inv!Statuses))
    /\ panel \in [resending : Ids \cup {Inv!NoId}, target : Ids \cup {Inv!NoId},
                  open : BOOLEAN, link : BOOLEAN, url : Ids \cup {Inv!NoId}]
    /\ offer \in [at : Inv!PageStates, token : Ids, dialog : BOOLEAN]
    /\ refused \in BOOLEAN /\ withdrawn \subseteq Ids /\ present \in Parties
ListOK ==
    /\ \A r \in inviteList.data \cup inviteList.answer : Used(r[1])
    /\ ~inviteList.stale => NoneWithdrawn(inviteList.data)
    /\ inviteList.at = "read" => NoneWithdrawn(inviteList.answer)
BrowserOK ==
    /\ panel.target # Inv!NoId => inviteList.has /\ Used(panel.target)
    /\ \A c \in InviteCalls : inviteCall[c].by = "confirm" => inviteList.has
    /\ \A i \in withdrawn : Over(i)
    /\ offer.at = "declined" /\ ~refused => Over(offer.token)

BrowserInv == BrowserTyped /\ ListOK /\ BrowserOK
InvitesInv == RoutesInv /\ BrowserInv

\* No row becomes unused or pending again, and none changes its kind.
RowsKeep == \A i \in Ids : Used(i) => /\ Used(i)' /\ (Over(i) => Over(i)')
                                      /\ inv'[i].kind = inv[i].kind

LEMMA LeastExists == ASSUME NEW S, S \subseteq Nat, S # {}
                     PROVE  \E i \in S : \A j \in S : i <= j
<1>. DEFINE less == {p \in Nat \X Nat : p[1] < p[2]}
<1>1. OpToRel(<, Nat) = less
  BY DEF OpToRel
<1>2. IsWellFoundedOn(less, Nat)
  BY <1>1, NatLessThanWellFounded
<1>. HIDE DEF less
<1>3. PICK i \in S : \A j \in S : ~(<<j, i>> \in less)
  BY <1>2, WFMin
<1>4. ASSUME NEW j \in S PROVE i <= j
  <2>1. i \in Nat /\ j \in Nat /\ ~(<<j, i>> \in less)
    BY <1>3
  <2>2. ~(j < i)
    BY <2>1 DEF less
  <2>. QED  BY <2>1, <2>2
<1>. QED  BY <1>4

LEMMA CreatedIs ==
    ASSUME Inv!NamesAssumption, InvitesTyped, Inv!Unused # {},
           NEW form \in Inv!Kinds, NEW from \in Ids \cup {Inv!NoId}, inv' = Inv!Created(form, from)
    PROVE  /\ Inv!NextId \in Ids /\ inv' \in [Ids -> InviteRow] /\ RowsKeep
           /\ form = "email" => Inv!PendingEmail' # {}
           /\ form = "link" => Inv!PendingEmail' = Inv!PendingEmail
<1>. DEFINE n == Inv!NextId
<1>1. Inv!Unused \subseteq Nat
  BY DEF Inv!NamesAssumption, Inv!Unused
<1>2. n \in Inv!Unused
  BY <1>1, LeastExists DEF Inv!NextId
<1>3. n \in Ids /\ ~Used(n)
  BY <1>2 DEF Inv!Unused, Used
<1>. HIDE DEF n
<1>4. inv' = [inv EXCEPT ![n] = [st |-> "pending", kind |-> form, from |-> from]]
  BY DEF Inv!Created, n
<1>5. /\ inv'[n] = [st |-> "pending", kind |-> form, from |-> from]
      /\ \A i \in Ids \ {n} : inv'[i] = inv[i]
  BY <1>3, <1>4 DEF InvitesTyped
<1>6. inv' \in [Ids -> InviteRow]
  BY <1>3, <1>4 DEF InvitesTyped, InviteRow, Inv!Statuses
<1>7. RowsKeep
  BY <1>3, <1>5 DEF RowsKeep, Used, Over
<1>8. form = "email" => n \in Inv!PendingEmail'
  BY <1>3, <1>5 DEF Inv!PendingEmail, Inv!Pending
<1>9. form = "link" => Inv!PendingEmail' = Inv!PendingEmail
  <2>1. form = "link" => n \notin Inv!PendingEmail' /\ n \notin Inv!PendingEmail
    BY <1>3, <1>5 DEF Inv!PendingEmail, Inv!Pending, Used
  <2>2. \A i \in Ids \ {n} : i \in Inv!PendingEmail' <=> i \in Inv!PendingEmail
    BY <1>5 DEF Inv!PendingEmail, Inv!Pending
  <2>. QED  BY <2>1, <2>2 DEF Inv!PendingEmail, Inv!Pending
<1>. QED  BY <1>3, <1>6, <1>7, <1>8, <1>9 DEF n

LEMMA EndedIs ==
    ASSUME InvitesTyped, NEW i \in Ids, Used(i), NEW st \in {"canceled", "accepted", "rejected"},
           inv' = [inv EXCEPT ![i].st = st]
    PROVE  /\ inv' \in [Ids -> InviteRow] /\ RowsKeep /\ Over(i)'
           /\ Inv!PendingEmail' = Inv!PendingEmail \ {i}
<1>1. /\ inv'[i] = [inv[i] EXCEPT !.st = st] /\ \A j \in Ids \ {i} : inv'[j] = inv[j]
  BY DEF InvitesTyped
<1>2. inv' \in [Ids -> InviteRow]
  BY DEF InvitesTyped, InviteRow, Inv!Statuses
<1>3. inv'[i].st = st /\ inv'[i].kind = inv[i].kind
  BY <1>1 DEF InvitesTyped, InviteRow
<1>4. RowsKeep /\ Over(i)'
  BY <1>1, <1>3 DEF RowsKeep, Used, Over
<1>5. i \notin Inv!PendingEmail'
  BY <1>3 DEF Inv!PendingEmail, Inv!Pending
<1>6. \A j \in Ids \ {i} : j \in Inv!PendingEmail' <=> j \in Inv!PendingEmail
  BY <1>1 DEF Inv!PendingEmail, Inv!Pending
<1>. QED  BY <1>2, <1>4, <1>5, <1>6 DEF Inv!PendingEmail, Inv!Pending

LEMMA SameRows == UNCHANGED inv => /\ RowsKeep /\ Inv!PendingEmail' = Inv!PendingEmail
                                   /\ (InvitesTyped => inv' \in [Ids -> InviteRow])
BY DEF RowsKeep, Used, Over, Inv!PendingEmail, Inv!Pending, InvitesTyped

\* A call that is where it was is as it should be.
LEMMA CallStays ==
    ASSUME RowsKeep, NEW c \in InviteCalls, InviteCallOK(c), inviteCall'[c] = inviteCall[c]
    PROVE  InviteCallOK(c)'
BY DEF InviteCallOK, RowsKeep, Used, Over, Inv!ResendSteps

\* Keys: a step in a resend or outside of one, a resend that starts, one that ends.
LEMMA KeysSame ==
    ASSUME ResendsOK, UNCHANGED inflight, NEW c \in InviteCalls,
           \A d \in InviteCalls \ {c} : inviteCall'[d] = inviteCall[d],
           \/ inviteCall[c].pc \notin Inv!ResendSteps /\ inviteCall'[c].pc \notin Inv!ResendSteps
           \/ /\ inviteCall[c].pc \in Inv!ResendSteps /\ inviteCall'[c].pc \in Inv!ResendSteps
              /\ inviteCall'[c].id = inviteCall[c].id /\ inviteCall'[c].proc = inviteCall[c].proc
    PROVE  ResendsOK'
<1>. SUFFICES ASSUME NEW p \in ApiProcs
              PROVE  /\ \A i \in Ids : i \in inflight'[p] <=> \E d \in Inv!Running(p)' : inviteCall'[d].id = i
                     /\ \A d, e \in Inv!Running(p)' : inviteCall'[d].id = inviteCall'[e].id => d = e
  BY DEF ResendsOK
<1>1. Inv!Running(p)' = Inv!Running(p)
  BY DEF Inv!Running
<1>2. \A d \in Inv!Running(p) : inviteCall'[d].id = inviteCall[d].id
  BY DEF Inv!Running
<1>. QED  BY <1>1, <1>2 DEF ResendsOK

LEMMA KeyTaken ==
    ASSUME InvitesTyped, ResendsOK, NEW c \in InviteCalls, NEW p \in ApiProcs, NEW i \in Ids,
           inviteCall[c].pc \notin Inv!ResendSteps, inviteCall'[c].pc \in Inv!ResendSteps,
           inviteCall'[c].proc = p, inviteCall'[c].id = i, i \notin inflight[p],
           inflight' = [inflight EXCEPT ![p] = @ \cup {i}],
           \A d \in InviteCalls \ {c} : inviteCall'[d] = inviteCall[d]
    PROVE  ResendsOK'
<1>. SUFFICES ASSUME NEW q \in ApiProcs
              PROVE  /\ \A j \in Ids : j \in inflight'[q] <=> \E d \in Inv!Running(q)' : inviteCall'[d].id = j
                     /\ \A d, e \in Inv!Running(q)' : inviteCall'[d].id = inviteCall'[e].id => d = e
  BY DEF ResendsOK
<1>1. c \notin Inv!Running(q)
  BY DEF Inv!Running
<1>2. Inv!Running(q)' = IF q = p THEN Inv!Running(q) \cup {c} ELSE Inv!Running(q)
  BY DEF Inv!Running
<1>3. \A d \in Inv!Running(q) : inviteCall'[d].id = inviteCall[d].id
  BY <1>1 DEF Inv!Running
<1>4. inflight'[q] = IF q = p THEN inflight[q] \cup {i} ELSE inflight[q]
  BY DEF InvitesTyped
<1>5. q = p => \A d \in Inv!Running(q) : inviteCall[d].id # i
  BY DEF ResendsOK
<1>. QED  BY <1>1, <1>2, <1>3, <1>4, <1>5 DEF ResendsOK

LEMMA KeyGiven ==
    ASSUME InvitesTyped, ResendsOK, NEW c \in InviteCalls,
           inviteCall[c].pc \in Inv!ResendSteps, inviteCall'[c].pc \notin Inv!ResendSteps,
           inviteCall[c].proc \in ApiProcs, inviteCall[c].id \in Ids,
           inflight' = [inflight EXCEPT ![inviteCall[c].proc] = @ \ {inviteCall[c].id}],
           \A d \in InviteCalls \ {c} : inviteCall'[d] = inviteCall[d]
    PROVE  ResendsOK'
<1>. DEFINE p == inviteCall[c].proc
            i == inviteCall[c].id
<1>. SUFFICES ASSUME NEW q \in ApiProcs
              PROVE  /\ \A j \in Ids : j \in inflight'[q] <=> \E d \in Inv!Running(q)' : inviteCall'[d].id = j
                     /\ \A d, e \in Inv!Running(q)' : inviteCall'[d].id = inviteCall'[e].id => d = e
  BY DEF ResendsOK
<1>1. c \notin Inv!Running(q)' /\ c \in Inv!Running(p)
  BY DEF Inv!Running
<1>2. Inv!Running(q)' = IF q = p THEN Inv!Running(q) \ {c} ELSE Inv!Running(q)
  BY DEF Inv!Running
<1>3. \A d \in Inv!Running(q)' : inviteCall'[d].id = inviteCall[d].id
  BY <1>1 DEF Inv!Running
<1>4. inflight'[q] = IF q = p THEN inflight[q] \ {i} ELSE inflight[q]
  BY DEF InvitesTyped
<1>5. q = p => \A d \in Inv!Running(q) \ {c} : inviteCall[d].id # i
  BY <1>1 DEF ResendsOK
<1>. HIDE DEF p, i
<1>6. CASE q = p
  <2>1. Inv!Running(q)' = Inv!Running(q) \ {c} /\ inflight'[q] = inflight[q] \ {i}
    BY <1>2, <1>4, <1>6
  <2>2. \A j \in Ids : j \in inflight[q] <=> \E d \in Inv!Running(q) : inviteCall[d].id = j
    BY DEF ResendsOK
  <2>3. \A j \in Ids : j \in inflight'[q] <=> \E d \in Inv!Running(q)' : inviteCall[d].id = j
    BY <1>5, <1>6, <2>1, <2>2 DEF i
  <2>. QED  BY <1>3, <2>1, <2>3 DEF ResendsOK
<1>7. CASE q # p
  BY <1>2, <1>3, <1>4, <1>7 DEF ResendsOK
<1>. QED  BY <1>6, <1>7

\* A call takes one step, to k.
LEMMA OneCall ==
    ASSUME InvitesTyped, \A d \in InviteCalls : InviteCallOK(d), RowsKeep, NEW c \in InviteCalls,
           NEW k \in InviteCall, inviteCall' = [inviteCall EXCEPT ![c] = k], InviteCallOK(c)'
    PROVE  /\ inviteCall' \in [InviteCalls -> InviteCall] /\ inviteCall'[c] = k
           /\ \A d \in InviteCalls \ {c} : inviteCall'[d] = inviteCall[d]
           /\ \A d \in InviteCalls : InviteCallOK(d)'
<1>1. /\ inviteCall' \in [InviteCalls -> InviteCall] /\ inviteCall'[c] = k
      /\ \A d \in InviteCalls \ {c} : inviteCall'[d] = inviteCall[d]
  BY DEF InvitesTyped
<1>2. \A d \in InviteCalls \ {c} : InviteCallOK(d)'
  BY <1>1, CallStays
<1>. QED  BY <1>1, <1>2

\* No call needs the promise that an invitation will be made, or it is kept.
LEMMA StrandsNot ==
    ASSUME InvitesTyped, Inv!NeverStranded, NEW c \in InviteCalls, NEW k,
           inviteCall' = [inviteCall EXCEPT ![c] = k], wanted' => wanted,
           Inv!PendingEmail' = Inv!PendingEmail,
           inviteCall[c].pc \notin {"emailCreate", "reissue"} \/ k.pc \in {"emailCreate", "reissue"}
    PROVE  Inv!NeverStranded'
<1>1. inviteCall'[c] = k /\ \A d \in InviteCalls \ {c} : inviteCall'[d] = inviteCall[d]
  BY DEF InvitesTyped
<1>. QED  BY <1>1 DEF Inv!NeverStranded

LEMMA PcIs == ASSUME InvitesTyped, NEW c \in InviteCalls, NEW pc \in Inv!CallSteps
              PROVE  /\ inviteCall[c] \in InviteCall
                     /\ [inviteCall[c] EXCEPT !.pc = pc] \in InviteCall
                     /\ [inviteCall EXCEPT ![c].pc = pc] = [inviteCall EXCEPT ![c] = [@ EXCEPT !.pc = pc]]
BY DEF InvitesTyped, InviteCall

\* A step of a call that is not in a resend, before and after it.
LEMMA PlainStep ==
    ASSUME RoutesInv, RowsKeep, inv' \in [Ids -> InviteRow], wanted' \in BOOLEAN, UNCHANGED inflight,
           NEW c \in InviteCalls, NEW k \in InviteCall, inviteCall' = [inviteCall EXCEPT ![c] = k],
           k.pc \notin Inv!ResendSteps, inviteCall[c].pc \notin Inv!ResendSteps,
           k.pc \in {"cancel", "resend"} => k.proc \in ApiProcs /\ k.id \in Ids /\ Used(k.id)',
           k.by = "confirm" => k.pc \in {"cancel", "ok", "failed"} /\ (k.pc = "ok" => k.id \in Ids /\ Over(k.id)')
    PROVE  InvitesTyped' /\ (\A d \in InviteCalls : InviteCallOK(d)') /\ ResendsOK'
<1>1. inviteCall'[c] = k
  BY DEF RoutesInv, InvitesTyped
<1>2. InviteCallOK(c)'
  BY <1>1 DEF InviteCallOK, Used, Over, Inv!ResendSteps
<1>3. /\ inviteCall' \in [InviteCalls -> InviteCall]
      /\ \A d \in InviteCalls \ {c} : inviteCall'[d] = inviteCall[d]
      /\ \A d \in InviteCalls : InviteCallOK(d)'
  BY <1>2, OneCall DEF RoutesInv
<1>4. ResendsOK'
  BY <1>1, <1>3, KeysSame DEF RoutesInv
<1>. QED  BY <1>3, <1>4 DEF RoutesInv, InvitesTyped

\* A step of a resend that goes on.
LEMMA ResendStep ==
    ASSUME RoutesInv, RowsKeep, inv' \in [Ids -> InviteRow], UNCHANGED <<inflight, wanted>>,
           NEW c \in InviteCalls, inviteCall[c].pc \in Inv!ResendSteps, NEW pc \in Inv!ResendSteps,
           inviteCall' = [inviteCall EXCEPT ![c].pc = pc],
           pc \in {"linkCreate", "linkCancel"} => inv[inviteCall[c].id].kind = "link"
    PROVE  InvitesTyped' /\ (\A d \in InviteCalls : InviteCallOK(d)') /\ ResendsOK'
<1>. DEFINE k == [inviteCall[c] EXCEPT !.pc = pc]
<1>1. /\ InvitesTyped /\ InviteCallOK(c) /\ k \in InviteCall /\ inviteCall[c] \in InviteCall
      /\ inviteCall' = [inviteCall EXCEPT ![c] = k] /\ inviteCall'[c] = k
  <2>1. pc \in Inv!CallSteps
    BY DEF Inv!CallSteps
  <2>. QED  BY <2>1, PcIs DEF RoutesInv, InvitesTyped
<1>2. k.pc = pc /\ k.id = inviteCall[c].id /\ k.proc = inviteCall[c].proc /\ k.by = inviteCall[c].by
  BY <1>1 DEF InviteCall
<1>3. InviteCallOK(c)'
  <2>1. k.by # "confirm"
    BY <1>1, <1>2 DEF InviteCallOK, Inv!ResendSteps
  <2>2. k.id \in Ids /\ Used(k.id) /\ k.proc \in ApiProcs
    BY <1>1, <1>2 DEF InviteCallOK
  <2>3. inv'[k.id].st # "unused" /\ inv'[k.id].kind = inv[k.id].kind
    BY <2>2 DEF RowsKeep, Used
  <2>4. pc \in {"linkCreate", "linkCancel"} => inv'[k.id].kind = "link"
    BY <1>2, <2>3
  <2>. HIDE DEF k
  <2>5. /\ inviteCall'[c].by # "confirm" /\ inviteCall'[c].proc \in ApiProcs
        /\ inviteCall'[c].id \in Ids /\ inv'[inviteCall'[c].id].st # "unused"
        /\ inviteCall'[c].pc \in {"linkCreate", "linkCancel"} => inv'[inviteCall'[c].id].kind = "link"
    BY <1>1, <1>2, <2>1, <2>2, <2>3, <2>4
  <2>. QED  BY <2>5 DEF InviteCallOK, Used
<1>4. /\ inviteCall' \in [InviteCalls -> InviteCall]
      /\ \A d \in InviteCalls \ {c} : inviteCall'[d] = inviteCall[d]
      /\ \A d \in InviteCalls : InviteCallOK(d)'
  BY <1>1, <1>3, OneCall DEF RoutesInv
<1>5. ResendsOK'
  BY <1>1, <1>2, <1>4, KeysSame DEF RoutesInv
<1>. QED  BY <1>4, <1>5 DEF RoutesInv, InvitesTyped

\* A resend that ends.
LEMMA ResendEnds ==
    ASSUME RoutesInv, RowsKeep, inv' \in [Ids -> InviteRow], wanted' \in BOOLEAN,
           NEW c \in InviteCalls, inviteCall[c].pc \in Inv!ResendSteps, NEW pc \in {"ok", "failed"},
           Inv!Finishes(c, pc)
    PROVE  InvitesTyped' /\ (\A d \in InviteCalls : InviteCallOK(d)') /\ ResendsOK'
<1>. DEFINE k == [inviteCall[c] EXCEPT !.pc = pc]
<1>1. /\ InvitesTyped /\ InviteCallOK(c) /\ k \in InviteCall /\ inviteCall[c] \in InviteCall
      /\ inviteCall' = [inviteCall EXCEPT ![c] = k] /\ inviteCall'[c] = k
  <2>1. pc \in Inv!CallSteps
    BY DEF Inv!CallSteps
  <2>. QED  BY <2>1, PcIs DEF RoutesInv, InvitesTyped, Inv!Finishes, Inv!To
<1>2. k.pc = pc /\ k.id = inviteCall[c].id /\ k.proc = inviteCall[c].proc /\ k.by = inviteCall[c].by
  BY <1>1 DEF InviteCall
<1>3. k.by # "confirm" /\ k.pc \notin Inv!ResendSteps /\ inviteCall[c].id \in Ids /\ inviteCall[c].proc \in ApiProcs
  BY <1>1, <1>2 DEF InviteCallOK, Inv!ResendSteps
<1>. HIDE DEF k
<1>4. InviteCallOK(c)'
  BY <1>1, <1>2, <1>3 DEF InviteCallOK, Inv!ResendSteps
<1>5. /\ inviteCall' \in [InviteCalls -> InviteCall]
      /\ \A d \in InviteCalls \ {c} : inviteCall'[d] = inviteCall[d]
      /\ \A d \in InviteCalls : InviteCallOK(d)'
  BY <1>1, <1>4, OneCall DEF RoutesInv
<1>6. inflight' = [inflight EXCEPT ![inviteCall[c].proc] = @ \ {inviteCall[c].id}]
  BY DEF Inv!Finishes
<1>7. ResendsOK'
  BY <1>1, <1>3, <1>5, <1>6, KeyGiven DEF RoutesInv
<1>8. inflight' \in [ApiProcs -> SUBSET Ids]
  BY <1>1, <1>6 DEF InvitesTyped
<1>. QED  BY <1>5, <1>7, <1>8 DEF InvitesTyped

LEMMA RoutesStep ==
    ASSUME Inv!NamesAssumption, RoutesInv, NEW c \in InviteCalls, Inv!Routes(c)
    PROVE  RoutesInv' /\ RowsKeep /\ \A d \in InviteCalls : inviteCall'[d].by = inviteCall[d].by
<1>. DEFINE k(pc) == [inviteCall[c] EXCEPT !.pc = pc]
<1>1. /\ InvitesTyped /\ InviteCallOK(c) /\ Inv!NeverStranded /\ inviteCall[c] \in InviteCall
      /\ \A pc \in Inv!CallSteps :
           /\ k(pc) \in InviteCall /\ k(pc).pc = pc /\ k(pc).id = inviteCall[c].id
           /\ k(pc).by = inviteCall[c].by /\ k(pc).proc = inviteCall[c].proc
           /\ [inviteCall EXCEPT ![c].pc = pc] = [inviteCall EXCEPT ![c] = k(pc)]
  BY DEF RoutesInv, InvitesTyped, InviteCall
<1>2. \A pc : Inv!To(c, pc) => \A d \in InviteCalls : inviteCall'[d].by = inviteCall[d].by
  BY <1>1 DEF Inv!To, InvitesTyped, InviteCall
<1>3. /\ Inv!ResendSteps \subseteq Inv!CallSteps
      /\ {"ok", "failed", "create", "cancel", "resend"} \subseteq Inv!CallSteps \ Inv!ResendSteps
  BY DEF Inv!CallSteps, Inv!ResendSteps
<1>4. inviteCall[c].pc \in {"create", "cancel", "resend"} => inviteCall[c].pc \notin Inv!ResendSteps
  BY <1>3
<1>5. inviteCall[c].pc \in Inv!ResendSteps => inviteCall[c].id \in Ids /\ Used(inviteCall[c].id)
  BY <1>1 DEF InviteCallOK
<1>. HIDE DEF k
<1>6. ASSUME NEW pc \in {"ok", "failed"}, Inv!To(c, pc), UNCHANGED inflight, RowsKeep, inv' \in [Ids -> InviteRow],
             inviteCall[c].pc \in {"create", "cancel", "resend"}, wanted' \in BOOLEAN, wanted' => wanted,
             wanted' => Inv!PendingEmail' = Inv!PendingEmail,
             inviteCall[c].by = "confirm" /\ pc = "ok" => inviteCall[c].id \in Ids /\ Over(inviteCall[c].id)'
      PROVE  RoutesInv'
  <2>1. /\ k(pc) \in InviteCall /\ k(pc).pc = pc /\ k(pc).id = inviteCall[c].id /\ k(pc).by = inviteCall[c].by
        /\ inviteCall' = [inviteCall EXCEPT ![c] = k(pc)]
    BY <1>1, <1>3, <1>6 DEF Inv!To
  <2>2. inviteCall'[c].id = inviteCall[c].id
    BY <1>1, <2>1 DEF InvitesTyped
  <2>3. PICK r \in InviteCall : r = k(pc)
    BY <2>1
  <2>4. r.by = "confirm" => r.pc \in {"cancel", "ok", "failed"} /\ (r.pc = "ok" => r.id \in Ids /\ Over(r.id)')
    BY <1>6, <2>1, <2>2, <2>3 DEF Over
  <2>5. InvitesTyped' /\ (\A d \in InviteCalls : InviteCallOK(d)') /\ ResendsOK'
    BY <1>3, <1>4, <1>6, <2>1, <2>3, <2>4, PlainStep
  <2>6. wanted' => Inv!NeverStranded'
    BY <1>1, <1>6, <2>1, StrandsNot
  <2>7. Inv!NeverStranded'
    BY <2>6 DEF Inv!NeverStranded
  <2>. QED  BY <2>5, <2>7 DEF RoutesInv
<1>7. ASSUME inviteCall[c].pc \in Inv!ResendSteps, NEW pc \in Inv!ResendSteps, Inv!To(c, pc),
             UNCHANGED <<inflight, wanted>>, RowsKeep, inv' \in [Ids -> InviteRow],
             pc \in {"linkCreate", "linkCancel"} => inv[inviteCall[c].id].kind = "link",
             \/ pc \in {"emailCreate", "reissue"}
             \/ Inv!PendingEmail' = Inv!PendingEmail /\ inviteCall[c].pc \notin {"emailCreate", "reissue"}
      PROVE  RoutesInv'
  <2>1. k(pc) \in InviteCall /\ k(pc).pc = pc /\ inviteCall' = [inviteCall EXCEPT ![c] = k(pc)]
    BY <1>1, <1>3, <1>7 DEF Inv!To
  <2>2. InvitesTyped' /\ (\A d \in InviteCalls : InviteCallOK(d)') /\ ResendsOK'
    BY <1>7, ResendStep DEF Inv!To
  <2>3. CASE pc \in {"emailCreate", "reissue"}
    <3>1. inviteCall'[c].pc \in {"emailCreate", "reissue"}
      BY <1>1, <2>1, <2>3 DEF InvitesTyped
    <3>. QED  BY <2>2, <3>1 DEF RoutesInv, Inv!NeverStranded
  <2>4. CASE Inv!PendingEmail' = Inv!PendingEmail /\ inviteCall[c].pc \notin {"emailCreate", "reissue"}
    BY <1>1, <1>7, <2>1, <2>2, <2>4, StrandsNot DEF RoutesInv
  <2>. QED  BY <1>7, <2>3, <2>4
<1>8. ASSUME inviteCall[c].pc \in Inv!ResendSteps, NEW pc \in {"ok", "failed"}, Inv!Finishes(c, pc),
             wanted' \in BOOLEAN, RowsKeep, inv' \in [Ids -> InviteRow],
             \/ ~wanted' \/ Inv!PendingEmail' # {}
             \/ Inv!PendingEmail' = Inv!PendingEmail /\ wanted /\ inviteCall[c].pc \notin {"emailCreate", "reissue"}
      PROVE  RoutesInv'
  <2>1. InvitesTyped' /\ (\A d \in InviteCalls : InviteCallOK(d)') /\ ResendsOK'
    BY <1>8, ResendEnds
  <2>2. inviteCall' = [inviteCall EXCEPT ![c] = k(pc)]
    BY <1>1, <1>3, <1>8 DEF Inv!Finishes, Inv!To
  <2>3. Inv!NeverStranded'
    BY <1>1, <1>8, <2>2, StrandsNot DEF Inv!NeverStranded
  <2>. QED  BY <2>1, <2>3 DEF RoutesInv
<1>9. CASE Inv!CreateOk(c)
  <2>1. /\ inviteCall[c].pc = "create" /\ inviteCall[c].by # "confirm" /\ inviteCall[c].kind \in Inv!Kinds
    BY <1>1, <1>9 DEF Inv!CreateOk, Inv!At, InviteCallOK, InviteCall
  <2>2. /\ Inv!Unused # {} /\ inv' = Inv!Created(inviteCall[c].kind, Inv!NoId) /\ UNCHANGED inflight
        /\ wanted' = (wanted \/ inviteCall[c].kind = "email")
        /\ inviteCall' = [inviteCall EXCEPT ![c].pc = "ok", ![c].id = Inv!NextId]
        /\ wanted' \in BOOLEAN
    BY <1>1, <1>9 DEF Inv!CreateOk, Inv!Creatable, InvitesTyped
  <2>3. /\ Inv!NextId \in Ids /\ inv' \in [Ids -> InviteRow] /\ RowsKeep
        /\ inviteCall[c].kind = "email" => Inv!PendingEmail' # {}
        /\ inviteCall[c].kind = "link" => Inv!PendingEmail' = Inv!PendingEmail
    BY <1>1, <2>1, <2>2, CreatedIs
  <2>4. PICK r \in InviteCall : r = [inviteCall[c] EXCEPT !.pc = "ok", !.id = Inv!NextId]
    BY <1>1, <1>3, <2>3 DEF InviteCall
  <2>5. r.pc = "ok" /\ r.by = inviteCall[c].by /\ inviteCall' = [inviteCall EXCEPT ![c] = r]
    <3>1. inviteCall[c] \in InviteCall
      BY <1>1 DEF InvitesTyped
    <3>2. r.pc = "ok" /\ r.by = inviteCall[c].by
      BY <2>4, <3>1 DEF InviteCall
    <3>3. inviteCall' = [inviteCall EXCEPT ![c] = [@ EXCEPT !.pc = "ok", !.id = Inv!NextId]]
      BY <2>2
    <3>. QED  BY <2>4, <3>2, <3>3
  <2>6. InvitesTyped' /\ (\A d \in InviteCalls : InviteCallOK(d)') /\ ResendsOK'
    <3>1. r.pc \notin Inv!ResendSteps /\ inviteCall[c].pc \notin Inv!ResendSteps
          /\ r.pc \notin {"cancel", "resend"} /\ r.by # "confirm"
      BY <1>3, <1>4, <2>1, <2>5
    <3>. QED  BY <2>2, <2>3, <2>5, <3>1, PlainStep
  <2>7. Inv!NeverStranded'
    <3>1. CASE inviteCall[c].kind = "email"
      BY <2>3, <3>1 DEF Inv!NeverStranded
    <3>2. CASE inviteCall[c].kind = "link"
      BY <1>1, <2>1, <2>2, <2>3, <2>5, <3>2, StrandsNot
    <3>. QED  BY <2>1, <3>1, <3>2 DEF Inv!Kinds
  <2>8. \A d \in InviteCalls : inviteCall'[d].by = inviteCall[d].by
    BY <1>1, <2>5 DEF InvitesTyped
  <2>. QED  BY <2>3, <2>6, <2>7, <2>8 DEF RoutesInv
<1>10. CASE Inv!Refused(c)
  <2>1. Inv!To(c, "failed") /\ inviteCall[c].pc \in {"create", "cancel"} /\ UNCHANGED <<inv, inflight, wanted>>
    BY <1>10 DEF Inv!Refused, Inv!At
  <2>. QED  BY <1>1, <1>2, <1>6, <2>1, SameRows DEF InvitesTyped
<1>11. CASE Inv!CancelOk(c)
  <2>1. /\ Inv!To(c, "ok") /\ inviteCall[c].pc = "cancel" /\ UNCHANGED inflight
        /\ inv' = Inv!CanceledRow(inviteCall[c].id)
        /\ wanted' = (wanted /\ inviteCall[c].id \notin Inv!PendingEmail)
    BY <1>11 DEF Inv!CancelOk, Inv!At
  <2>2. inviteCall[c].id \in Ids /\ Used(inviteCall[c].id)
    BY <1>1, <2>1 DEF InviteCallOK
  <2>3. PICK i \in Ids : i = inviteCall[c].id
    BY <2>2
  <2>4. /\ inv' \in [Ids -> InviteRow] /\ RowsKeep /\ Over(i)'
        /\ Inv!PendingEmail' = Inv!PendingEmail \ {i}
    BY <1>1, <2>1, <2>2, <2>3, EndedIs DEF Inv!CanceledRow
  <2>5. inviteCall'[c].id = i
    BY <1>1, <2>1, <2>3 DEF Inv!To, InvitesTyped, InviteCall
  <2>6. Over(inviteCall[c].id)'
    BY <2>4, <2>5 DEF Over
  <2>. QED  BY <1>1, <1>2, <1>6, <2>1, <2>2, <2>3, <2>4, <2>6 DEF InvitesTyped
<1>12. CASE Inv!ResendStarts(c)
  <2>1. inviteCall[c].pc = "resend" /\ UNCHANGED <<inv, wanted>>
    BY <1>12 DEF Inv!ResendStarts, Inv!At
  <2>2. CASE Inv!To(c, "failed") /\ UNCHANGED inflight
    BY <1>1, <1>2, <1>6, <2>1, <2>2, SameRows DEF InvitesTyped
  <2>3. CASE /\ inviteCall[c].id \notin inflight[inviteCall[c].proc] /\ Inv!To(c, "lookup")
             /\ inflight' = [inflight EXCEPT ![inviteCall[c].proc] = @ \cup {inviteCall[c].id}]
    <3>0. /\ inviteCall[c].proc \in ApiProcs /\ inviteCall[c].id \in Ids /\ Used(inviteCall[c].id)
          /\ "lookup" \in Inv!ResendSteps /\ inviteCall[c].by # "confirm"
      BY <1>1, <2>1 DEF InviteCallOK, Inv!ResendSteps
    <3>1. PICK p \in ApiProcs, i \in Ids : p = inviteCall[c].proc /\ i = inviteCall[c].id
      BY <3>0
    <3>2. PICK r \in InviteCall : r = k("lookup")
      BY <1>1, <1>3, <3>0
    <3>3. /\ r.pc = "lookup" /\ r.id = i /\ r.proc = p /\ r.by # "confirm"
          /\ inviteCall' = [inviteCall EXCEPT ![c] = r] /\ inviteCall'[c] = r
          /\ \A d \in InviteCalls \ {c} : inviteCall'[d] = inviteCall[d]
      <4>1. "lookup" \in Inv!CallSteps
        BY <1>3, <3>0
      <4>2. inviteCall' = [inviteCall EXCEPT ![c] = r]
        <5>1. inviteCall' = [inviteCall EXCEPT ![c].pc = "lookup"]
          BY <2>3 DEF Inv!To
        <5>. QED  BY <3>2, <5>1 DEF k
      <4>3. r.pc = "lookup" /\ r.id = inviteCall[c].id /\ r.proc = inviteCall[c].proc /\ r.by = inviteCall[c].by
        BY <1>1, <3>2, <4>1
      <4>. QED  BY <1>1, <3>0, <3>1, <4>2, <4>3 DEF InvitesTyped
    <3>4. RowsKeep /\ Inv!PendingEmail' = Inv!PendingEmail /\ inv'[i].st # "unused"
      BY <2>1, <3>0, <3>1, SameRows DEF Used
    <3>5. InviteCallOK(c)'
      BY <3>0, <3>3, <3>4 DEF InviteCallOK, Used
    <3>6. (\A d \in InviteCalls : InviteCallOK(d)') /\ inviteCall' \in [InviteCalls -> InviteCall]
      BY <1>1, <3>3, <3>4, <3>5, OneCall DEF RoutesInv
    <3>7. inflight' = [inflight EXCEPT ![p] = @ \cup {i}] /\ i \notin inflight[p]
      BY <2>3, <3>1
    <3>8. ResendsOK'
      <4>1. /\ inviteCall[c].pc \notin Inv!ResendSteps /\ inviteCall'[c].pc \in Inv!ResendSteps
            /\ inviteCall'[c].proc = p /\ inviteCall'[c].id = i
        BY <1>4, <2>1, <3>0, <3>3
      <4>2. InvitesTyped /\ ResendsOK
        BY DEF RoutesInv
      <4>. QED  BY <3>3, <3>7, <4>1, <4>2, KeyTaken
    <3>9. InvitesTyped'
      BY <1>1, <2>1, <3>6, <3>7 DEF InvitesTyped
    <3>10. Inv!NeverStranded'
      BY <1>1, <2>1, <3>3, <3>4, StrandsNot
    <3>. QED  BY <1>2, <2>3, <3>4, <3>6, <3>8, <3>9, <3>10 DEF RoutesInv
  <2>. QED  BY <1>12, <2>2, <2>3 DEF Inv!ResendStarts
<1>13. CASE Inv!LookupOk(c)
  <2>1. /\ inviteCall[c].pc = "lookup" /\ UNCHANGED <<inv, inflight, wanted>>
        /\ Inv!To(c, IF inv[inviteCall[c].id].kind = "link" THEN "linkCreate" ELSE "emailCancel")
    BY <1>13 DEF Inv!LookupOk, Inv!At
  <2>2. RowsKeep /\ inv' \in [Ids -> InviteRow] /\ Inv!PendingEmail' = Inv!PendingEmail
    BY <1>1, <2>1, SameRows
  <2>3. {"lookup", "linkCreate", "emailCancel"} \subseteq Inv!ResendSteps
    BY DEF Inv!ResendSteps
  <2>4. CASE inv[inviteCall[c].id].kind = "link"
    BY <1>2, <1>7, <2>1, <2>2, <2>3, <2>4
  <2>5. CASE inv[inviteCall[c].id].kind # "link"
    BY <1>2, <1>7, <2>1, <2>2, <2>3, <2>5
  <2>. QED  BY <2>4, <2>5
<1>14. CASE Inv!ResendRefused(c)
  <2>1. /\ inviteCall[c].pc \in {"lookup", "linkCreate", "emailCancel"} /\ Inv!Finishes(c, "failed")
        /\ UNCHANGED <<inv, wanted>>
    BY <1>14 DEF Inv!ResendRefused, Inv!At
  <2>2. inviteCall[c].pc \in Inv!ResendSteps /\ wanted' \in BOOLEAN
    BY <1>1, <2>1 DEF Inv!ResendSteps, InvitesTyped
  <2>. QED  BY <1>1, <1>2, <1>8, <2>1, <2>2, SameRows DEF Inv!Finishes
<1>15. CASE Inv!LinkCreate(c)
  <2>1. /\ inviteCall[c].pc = "linkCreate" /\ Inv!To(c, "linkCancel") /\ UNCHANGED <<inflight, wanted>>
        /\ Inv!Unused # {} /\ inv' = Inv!Created("link", inviteCall[c].id)
    BY <1>15 DEF Inv!LinkCreate, Inv!At, Inv!Creatable
  <2>2. /\ {"linkCreate", "linkCancel"} \subseteq Inv!ResendSteps /\ "link" \in Inv!Kinds
        /\ inviteCall[c].id \in Ids \cup {Inv!NoId} /\ inv[inviteCall[c].id].kind = "link"
    BY <1>1, <2>1 DEF Inv!ResendSteps, Inv!Kinds, InviteCall, InviteCallOK
  <2>3. inv' \in [Ids -> InviteRow] /\ RowsKeep /\ Inv!PendingEmail' = Inv!PendingEmail
    BY <1>1, <2>1, <2>2, CreatedIs
  <2>. QED  BY <1>2, <1>7, <2>1, <2>2, <2>3
<1>16. CASE Inv!LinkCancel(c)
  <2>1. /\ inviteCall[c].pc = "linkCancel" /\ Inv!Finishes(c, "ok") /\ UNCHANGED wanted
        /\ inv' = inv \/ inv' = Inv!CanceledRow(inviteCall[c].id)
    BY <1>16 DEF Inv!LinkCancel, Inv!At
  <2>2. inviteCall[c].pc \in Inv!ResendSteps /\ inv[inviteCall[c].id].kind = "link"
    BY <1>1, <2>1 DEF Inv!ResendSteps, InviteCallOK
  <2>3. CASE inv' = inv
    BY <1>1, <1>2, <1>8, <2>1, <2>2, <2>3, SameRows DEF Inv!Finishes, InvitesTyped
  <2>4. CASE inv' = Inv!CanceledRow(inviteCall[c].id)
    <3>1. /\ inv' \in [Ids -> InviteRow] /\ RowsKeep
          /\ Inv!PendingEmail' = Inv!PendingEmail \ {inviteCall[c].id}
      BY <1>1, <1>5, <2>2, <2>4, EndedIs DEF Inv!CanceledRow
    <3>2. Inv!PendingEmail' = Inv!PendingEmail
      BY <2>2, <3>1 DEF Inv!PendingEmail
    <3>. QED  BY <1>1, <1>2, <1>8, <2>1, <2>2, <3>1, <3>2 DEF Inv!Finishes, InvitesTyped
  <2>. QED  BY <2>1, <2>3, <2>4
<1>17. CASE Inv!EmailCancel(c)
  <2>1. /\ inviteCall[c].pc = "emailCancel" /\ Inv!To(c, "emailCreate") /\ UNCHANGED <<inflight, wanted>>
        /\ inv' = Inv!CanceledRow(inviteCall[c].id)
    BY <1>17 DEF Inv!EmailCancel, Inv!At
  <2>2. {"emailCancel", "emailCreate"} \subseteq Inv!ResendSteps
    BY DEF Inv!ResendSteps
  <2>3. inv' \in [Ids -> InviteRow] /\ RowsKeep
    BY <1>1, <1>5, <2>1, <2>2, EndedIs DEF Inv!CanceledRow
  <2>. QED  BY <1>2, <1>7, <2>1, <2>2, <2>3
<1>18. CASE Inv!EmailCreate(c) \/ Inv!Reissue(c)
  <2>1. /\ inviteCall[c].pc \in {"emailCreate", "reissue"} /\ (Inv!Finishes(c, "ok") \/ Inv!Finishes(c, "failed"))
        /\ UNCHANGED wanted /\ Inv!Unused # {} /\ inv' = Inv!Created("email", inviteCall[c].id)
    BY <1>18 DEF Inv!EmailCreate, Inv!Reissue, Inv!At, Inv!Creatable
  <2>2. /\ inviteCall[c].pc \in Inv!ResendSteps /\ inviteCall[c].id \in Ids \cup {Inv!NoId}
        /\ "email" \in Inv!Kinds
    BY <1>1, <2>1 DEF Inv!ResendSteps, Inv!Kinds, InviteCall
  <2>3. inv' \in [Ids -> InviteRow] /\ RowsKeep /\ Inv!PendingEmail' # {}
    BY <1>1, <2>1, <2>2, CreatedIs
  <2>4. wanted' \in BOOLEAN
    BY <1>1, <2>1 DEF InvitesTyped
  <2>. QED  BY <1>2, <1>8, <2>1, <2>2, <2>3, <2>4 DEF Inv!Finishes
<1>19. CASE Inv!EmailCreateFails(c)
  <2>1. inviteCall[c].pc = "emailCreate" /\ Inv!To(c, "reissue") /\ UNCHANGED <<inv, inflight, wanted>>
    BY <1>19 DEF Inv!EmailCreateFails, Inv!At
  <2>2. {"emailCreate", "reissue"} \subseteq Inv!ResendSteps
    BY DEF Inv!ResendSteps
  <2>. QED  BY <1>1, <1>2, <1>7, <2>1, <2>2, SameRows
<1>20. CASE Inv!ReissueFails(c)
  <2>1. /\ inviteCall[c].pc = "reissue" /\ Inv!Finishes(c, "failed") /\ UNCHANGED inv
        /\ wanted' = (wanted /\ Inv!PendingEmail # {})
    BY <1>20 DEF Inv!ReissueFails, Inv!At
  <2>2. inviteCall[c].pc \in Inv!ResendSteps /\ wanted' \in BOOLEAN
    BY <2>1 DEF Inv!ResendSteps
  <2>. QED  BY <1>1, <1>2, <1>8, <2>1, <2>2, SameRows DEF Inv!Finishes
<1>. QED  BY <1>9, <1>10, <1>11, <1>12, <1>13, <1>14, <1>15, <1>16, <1>17, <1>18, <1>19, <1>20 DEF Inv!Routes

LEMMA CallSent ==
    ASSUME RoutesInv, NEW c \in InviteCalls, NEW p \in ApiProcs, NEW i \in Ids \cup {Inv!NoId},
           NEW pc \in {"create", "cancel", "resend"}, NEW form \in Inv!Kinds,
           NEW by \in {"list", "confirm", "dialog", "api"},
           Inv!Free(c), Inv!Starts(c, pc, i, form, p, by), UNCHANGED <<inv, inflight, wanted>>,
           pc # "create" => i \in Ids /\ Used(i), by = "confirm" => pc = "cancel"
    PROVE  /\ RoutesInv' /\ RowsKeep /\ inviteCall'[c].by = by
           /\ \A d \in InviteCalls \ {c} : inviteCall'[d] = inviteCall[d]
<1>1. PICK k \in InviteCall : k = [pc |-> pc, id |-> i, kind |-> form, proc |-> p, by |-> by]
  BY DEF InviteCall, Inv!CallSteps
<1>2. /\ k.pc = pc /\ k.id = i /\ k.proc = p /\ k.by = by
      /\ inviteCall' = [inviteCall EXCEPT ![c] = k] /\ inviteCall[c].pc = "idle"
  BY <1>1 DEF Inv!Starts, Inv!Free, Inv!At
<1>3. /\ InvitesTyped /\ Inv!NeverStranded /\ RowsKeep /\ inv' \in [Ids -> InviteRow]
      /\ Inv!PendingEmail' = Inv!PendingEmail /\ wanted' \in BOOLEAN
  BY SameRows DEF RoutesInv, InvitesTyped
<1>4. k.pc \notin Inv!ResendSteps /\ inviteCall[c].pc \notin Inv!ResendSteps
  BY <1>2 DEF Inv!ResendSteps
<1>5. k.pc \in {"cancel", "resend"} => k.proc \in ApiProcs /\ k.id \in Ids /\ Used(k.id)'
  BY <1>2 DEF Used
<1>6. InvitesTyped' /\ (\A d \in InviteCalls : InviteCallOK(d)') /\ ResendsOK'
  BY <1>2, <1>3, <1>4, <1>5, PlainStep
<1>7. Inv!NeverStranded'
  BY <1>2, <1>3, StrandsNot
<1>8. inviteCall'[c].by = by /\ \A d \in InviteCalls \ {c} : inviteCall'[d] = inviteCall[d]
  BY <1>2, <1>3 DEF InvitesTyped
<1>. QED  BY <1>3, <1>6, <1>7, <1>8 DEF RoutesInv

LEMMA CallTaken ==
    ASSUME RoutesInv, NEW c \in InviteCalls, inviteCall[c].pc \in {"ok", "failed"},
           inviteCall' = [inviteCall EXCEPT ![c] = Inv!IdleCall], UNCHANGED <<inv, inflight, wanted>>
    PROVE  /\ RoutesInv' /\ RowsKeep
           /\ \A d \in InviteCalls : inviteCall'[d].by = "confirm" => inviteCall[d].by = "confirm"
<1>1. PICK k \in InviteCall : k = Inv!IdleCall
  BY DEF InviteCall, Inv!CallSteps, Inv!IdleCall, Inv!Kinds
<1>2. k.pc = "idle" /\ k.by = "api" /\ inviteCall' = [inviteCall EXCEPT ![c] = k]
  BY <1>1 DEF Inv!IdleCall
<1>3. /\ InvitesTyped /\ Inv!NeverStranded /\ RowsKeep /\ inv' \in [Ids -> InviteRow]
      /\ Inv!PendingEmail' = Inv!PendingEmail /\ wanted' \in BOOLEAN
  BY SameRows DEF RoutesInv, InvitesTyped
<1>4. k.pc \notin Inv!ResendSteps /\ inviteCall[c].pc \notin Inv!ResendSteps
  BY <1>2 DEF Inv!ResendSteps
<1>6. InvitesTyped' /\ (\A d \in InviteCalls : InviteCallOK(d)') /\ ResendsOK'
  BY <1>2, <1>3, <1>4, PlainStep
<1>7. Inv!NeverStranded'
  BY <1>2, <1>3, StrandsNot
<1>8. \A d \in InviteCalls : inviteCall'[d].by = "confirm" => inviteCall[d].by = "confirm"
  BY <1>2, <1>3 DEF InvitesTyped
<1>. QED  BY <1>3, <1>6, <1>7, <1>8 DEF RoutesInv

LEMMA CrashStep ==
    ASSUME RoutesInv, NEW p \in ApiProcs, Inv!Crash(p)
    PROVE  RoutesInv' /\ RowsKeep /\ \A d \in InviteCalls : inviteCall'[d].by = inviteCall[d].by
<1>. DEFINE dies == {c \in InviteCalls : inviteCall[c].proc = p
                                         /\ inviteCall[c].pc \notin {"idle", "ok", "failed"}}
<1>1. /\ inflight' = [inflight EXCEPT ![p] = {}] /\ UNCHANGED inv
      /\ inviteCall' = [c \in InviteCalls |-> IF c \in dies THEN [inviteCall[c] EXCEPT !.pc = "failed"]
                                              ELSE inviteCall[c]]
      /\ wanted' = (wanted /\ \A c \in dies : inviteCall[c].pc \notin {"emailCreate", "reissue"})
  BY DEF Inv!Crash
<1>2. InvitesTyped /\ Inv!NeverStranded /\ \A c \in InviteCalls : InviteCallOK(c)
  BY DEF RoutesInv
<1>3. RowsKeep /\ Inv!PendingEmail' = Inv!PendingEmail /\ inv' \in [Ids -> InviteRow]
  BY <1>1, <1>2, SameRows
<1>4. ASSUME NEW c \in InviteCalls
      PROVE  /\ inviteCall'[c] \in InviteCall /\ inviteCall'[c].by = inviteCall[c].by
             /\ c \in dies => inviteCall'[c].pc = "failed"
             /\ c \notin dies => inviteCall'[c] = inviteCall[c]
  BY <1>1, <1>2 DEF InvitesTyped, InviteCall, Inv!CallSteps
<1>5. ASSUME NEW c \in InviteCalls
      PROVE  InviteCallOK(c)'
  <2>1. CASE c \in dies
    BY <1>4, <2>1 DEF InviteCallOK, Inv!ResendSteps
  <2>2. CASE c \notin dies
    BY <1>2, <1>3, <1>4, <2>2, CallStays
  <2>. QED  BY <2>1, <2>2
<1>6. inviteCall' \in [InviteCalls -> InviteCall] /\ inflight' \in [ApiProcs -> SUBSET Ids]
  BY <1>1, <1>2, <1>4 DEF InvitesTyped
<1>7. InvitesTyped'
  <2>1. wanted' \in BOOLEAN
    BY <1>1, <1>2 DEF InvitesTyped
  <2>. QED  BY <1>3, <1>6, <2>1 DEF InvitesTyped
<1>8. ResendsOK'
  <2>. SUFFICES ASSUME NEW q \in ApiProcs
                PROVE  /\ \A i \in Ids : i \in inflight'[q] <=> \E d \in Inv!Running(q)' : inviteCall'[d].id = i
                       /\ \A d, e \in Inv!Running(q)' : inviteCall'[d].id = inviteCall'[e].id => d = e
    BY DEF ResendsOK
  <2>1. CASE q = p
    <3>1. Inv!Running(q)' = {} /\ inflight'[q] = {}
      BY <1>1, <1>2, <1>4, <2>1 DEF Inv!Running, Inv!ResendSteps, InvitesTyped
    <3>. QED  BY <3>1
  <2>2. CASE q # p
    <3>1. inflight'[q] = inflight[q]
      BY <1>1, <1>2, <2>2 DEF InvitesTyped
    <3>2. ASSUME NEW d \in Inv!Running(q)' PROVE d \notin dies
      BY <1>4, <3>2 DEF Inv!Running, Inv!ResendSteps
    <3>3. Inv!Running(q)' = Inv!Running(q) /\ \A d \in Inv!Running(q) : inviteCall'[d] = inviteCall[d]
      BY <1>4, <2>2, <3>2 DEF Inv!Running
    <3>. QED  BY <3>1, <3>3 DEF RoutesInv, ResendsOK
  <2>. QED  BY <2>1, <2>2
<1>9. Inv!NeverStranded'
  BY <1>1, <1>2, <1>3, <1>4 DEF Inv!NeverStranded
<1>. QED  BY <1>3, <1>4, <1>5, <1>7, <1>8, <1>9 DEF RoutesInv

\* The person invited, or nobody, changes the rows; the calls stay.
LEMMA RowsOnly ==
    ASSUME RoutesInv, RowsKeep, inv' \in [Ids -> InviteRow], UNCHANGED <<inviteCall, inflight>>,
           wanted' \in BOOLEAN, wanted' => wanted /\ Inv!PendingEmail' = Inv!PendingEmail
    PROVE  RoutesInv'
<1>1. \A c \in InviteCalls : InviteCallOK(c)'
  BY CallStays DEF RoutesInv
<1>2. ResendsOK'
  BY DEF RoutesInv, ResendsOK, Inv!Running
<1>. QED  BY <1>1, <1>2 DEF RoutesInv, InvitesTyped, Inv!NeverStranded

\* The browser does not move.
LEMMA BrowserStays ==
    ASSUME RoutesInv, BrowserInv, RowsKeep,
           UNCHANGED <<inviteList, panel, offer, refused, withdrawn, present>>,
           \A d \in InviteCalls : inviteCall'[d].by = "confirm" => inviteCall[d].by = "confirm"
    PROVE  BrowserInv'
<1>1. BrowserTyped'
  BY DEF BrowserInv, BrowserTyped
<1>2. ListOK'
  <2>1. \A r \in inviteList.data \cup inviteList.answer : r[1] \in Ids
    BY DEF BrowserInv, BrowserTyped, Inv!QueryOf
  <2>. QED  BY <2>1 DEF BrowserInv, ListOK, RowsKeep, Used, NoneWithdrawn
<1>3. BrowserOK'
  BY DEF BrowserInv, BrowserTyped, BrowserOK, RowsKeep, Used, Over
<1>. QED  BY <1>1, <1>2, <1>3 DEF BrowserInv

LEMMA InviteQuery ==
    ASSUME NEW D, NEW q \in Inv!QueryOf(D)
    PROVE  /\ q.data \in D /\ q.answer \in D
           /\ Inv!Asked(q) \in Inv!QueryOf(D) /\ Inv!Asked(q).has = q.has /\ Inv!Asked(q).stale = q.stale
           /\ Inv!Asked(q).data = q.data /\ Inv!Asked(q).answer = q.data /\ Inv!Asked(q).at = "asked"
           /\ Inv!Settled(q) \in Inv!QueryOf(D) /\ Inv!Settled(q).has /\ ~Inv!Settled(q).stale
           /\ Inv!Settled(q).data = q.answer /\ Inv!Settled(q).answer = q.answer
           /\ Inv!Settled(q).at = "idle"
           /\ Inv!FetchFailed(q) \in Inv!QueryOf(D) /\ Inv!FetchFailed(q).has = q.has
           /\ Inv!FetchFailed(q).stale = q.stale /\ Inv!FetchFailed(q).data = q.data
           /\ Inv!FetchFailed(q).answer = q.data /\ Inv!FetchFailed(q).at = "idle"
           /\ Inv!Invalidated(q) \in Inv!QueryOf(D) /\ Inv!Invalidated(q).has = q.has
           /\ Inv!Invalidated(q).stale /\ Inv!Invalidated(q).data = q.data
           /\ Inv!Invalidated(q).answer \in {q.data, q.answer}
           /\ q.has => Inv!Invalidated(q).at = "asked"
           /\ Inv!Invalidated(q).at = "read" => Inv!Invalidated(q).answer = q.answer /\ q.at = "read"
           /\ \A v \in D : /\ Inv!Answered(q, v) \in Inv!QueryOf(D) /\ Inv!Answered(q, v).has = q.has
                           /\ Inv!Answered(q, v).stale = q.stale /\ Inv!Answered(q, v).data = q.data
                           /\ Inv!Answered(q, v).answer = v /\ Inv!Answered(q, v).at = "read"
<1>1. q.data \in D /\ q.answer \in D
  BY DEF Inv!QueryOf
<1>2. /\ Inv!Asked(q) \in Inv!QueryOf(D) /\ Inv!Asked(q).has = q.has /\ Inv!Asked(q).stale = q.stale
      /\ Inv!Asked(q).data = q.data /\ Inv!Asked(q).answer = q.data /\ Inv!Asked(q).at = "asked"
  BY <1>1 DEF Inv!QueryOf, Inv!Asked
<1>3. /\ Inv!Settled(q) \in Inv!QueryOf(D) /\ Inv!Settled(q).has /\ ~Inv!Settled(q).stale
      /\ Inv!Settled(q).data = q.answer /\ Inv!Settled(q).answer = q.answer
      /\ Inv!Settled(q).at = "idle"
  BY <1>1 DEF Inv!QueryOf, Inv!Settled
<1>4. /\ Inv!FetchFailed(q) \in Inv!QueryOf(D) /\ Inv!FetchFailed(q).has = q.has
      /\ Inv!FetchFailed(q).stale = q.stale /\ Inv!FetchFailed(q).data = q.data
      /\ Inv!FetchFailed(q).answer = q.data /\ Inv!FetchFailed(q).at = "idle"
  BY <1>1 DEF Inv!QueryOf, Inv!FetchFailed
<1>5. ASSUME NEW r \in Inv!QueryOf(D)
      PROVE  LET s == [r EXCEPT !.stale = TRUE] IN
             /\ s \in Inv!QueryOf(D) /\ s.has = r.has /\ s.stale /\ s.data = r.data /\ s.answer = r.answer
             /\ s.at = r.at
  BY DEF Inv!QueryOf
<1>6. /\ Inv!Invalidated(q) \in Inv!QueryOf(D) /\ Inv!Invalidated(q).has = q.has
      /\ Inv!Invalidated(q).stale /\ Inv!Invalidated(q).data = q.data
      /\ Inv!Invalidated(q).answer \in {q.data, q.answer}
      /\ q.has => Inv!Invalidated(q).at = "asked"
      /\ Inv!Invalidated(q).at = "read" => Inv!Invalidated(q).answer = q.answer /\ q.at = "read"
  BY <1>2, <1>5 DEF Inv!Invalidated
<1>7. ASSUME NEW v \in D
      PROVE  /\ Inv!Answered(q, v) \in Inv!QueryOf(D) /\ Inv!Answered(q, v).has = q.has
             /\ Inv!Answered(q, v).stale = q.stale /\ Inv!Answered(q, v).data = q.data
             /\ Inv!Answered(q, v).answer = v /\ Inv!Answered(q, v).at = "read"
  BY DEF Inv!QueryOf, Inv!Answered
<1>. QED  BY <1>1, <1>2, <1>3, <1>4, <1>6, <1>7

\* The list's query, while nothing else moves.
LEMMA ListMoves ==
    ASSUME RoutesInv, BrowserInv,
           Inv!ListRead \/ Inv!ListSettles \/ Inv!ListFails \/ Inv!Refetch
    PROVE  RoutesInv' /\ BrowserInv'
<1>. DEFINE D == SUBSET (Ids \X Inv!Statuses)
            S == {<<i, inv[i].st>> : i \in Ids \ Inv!Unused}
<1>1. UNCHANGED <<inv, inflight, inviteCall, wanted, panel, offer, refused, withdrawn, present>>
  BY DEF Inv!ListRead, Inv!ListSettles, Inv!ListFails, Inv!Refetch, Inv!serverVars, Inv!pageVars
<1>2. RowsKeep /\ inv' \in [Ids -> InviteRow]
  BY <1>1, SameRows DEF RoutesInv
<1>3. RoutesInv'
  BY <1>1, <1>2, SameRows, RowsOnly DEF RoutesInv, InvitesTyped
<1>4. inviteList \in Inv!QueryOf(D) /\ inviteList.data \in D /\ inviteList.answer \in D
  BY InviteQuery DEF BrowserInv, BrowserTyped
<1>5. S \in D /\ NoneWithdrawn(S) /\ \A r \in S : Used(r[1])
  <2>1. \A i \in Ids : inv[i].st \in Inv!Statuses
    BY DEF RoutesInv, InvitesTyped, InviteRow
  <2>2. S \in D
    BY <2>1
  <2>3. NoneWithdrawn(S)
    BY DEF NoneWithdrawn, BrowserInv, BrowserOK, Over
  <2>. QED  BY <2>2, <2>3 DEF Inv!Unused, Used
<1>. HIDE DEF D, S
<1>6. inviteList' \in Inv!QueryOf(D) /\ (inviteList.has => inviteList'.has) /\ ListOK'
  <2>1. CASE Inv!ListRead
    <3>1. inviteList' = Inv!Answered(inviteList, S)
      BY <2>1 DEF Inv!ListRead, S
    <3>. QED  BY <1>1, <1>4, <1>5, <3>1, InviteQuery DEF BrowserInv, ListOK, NoneWithdrawn, Used
  <2>2. CASE Inv!ListSettles
    <3>1. inviteList' = Inv!Settled(inviteList) /\ inviteList.at = "read"
      BY <2>2 DEF Inv!ListSettles
    <3>. QED  BY <1>1, <1>4, <3>1, InviteQuery DEF BrowserInv, ListOK, NoneWithdrawn, Used
  <2>3. CASE Inv!ListFails
    <3>1. inviteList' = Inv!FetchFailed(inviteList)
      BY <2>3 DEF Inv!ListFails
    <3>. QED  BY <1>1, <1>4, <3>1, InviteQuery DEF BrowserInv, ListOK, NoneWithdrawn, Used
  <2>4. CASE Inv!Refetch
    <3>1. inviteList' = Inv!Asked(inviteList)
      BY <2>4 DEF Inv!Refetch
    <3>. QED  BY <1>1, <1>4, <3>1, InviteQuery DEF BrowserInv, ListOK, NoneWithdrawn, Used
  <2>. QED  BY <2>1, <2>2, <2>3, <2>4
<1>7. BrowserTyped'
  BY <1>1, <1>6 DEF BrowserInv, BrowserTyped, D
<1>8. BrowserOK'
  BY <1>1, <1>6 DEF BrowserInv, BrowserOK, Used, Over
<1>. QED  BY <1>3, <1>6, <1>7, <1>8 DEF BrowserInv

\* The panel: what it shows moves, and perhaps the list is invalidated.
PanelStates == [resending : Ids \cup {Inv!NoId}, target : Ids \cup {Inv!NoId},
                open : BOOLEAN, link : BOOLEAN, url : Ids \cup {Inv!NoId}]
LEMMA PanelMoves ==
    ASSUME RoutesInv, BrowserInv, UNCHANGED <<inv, offer, refused, present>>,
           inviteList' \in {inviteList, Inv!Invalidated(inviteList)}, panel' \in PanelStates,
           panel'.target # Inv!NoId => inviteList.has /\ inv'[panel'.target].st # "unused",
           \A d \in InviteCalls : inviteCall'[d].by = "confirm" => inviteList.has,
           withdrawn' \subseteq Ids, \A i \in withdrawn' : i \in withdrawn \/ Over(i)',
           withdrawn' # withdrawn => inviteList.has /\ inviteList' = Inv!Invalidated(inviteList)
    PROVE  BrowserInv'
<1>. DEFINE D == SUBSET (Ids \X Inv!Statuses)
<1>1. inviteList \in Inv!QueryOf(D)
  BY DEF BrowserInv, BrowserTyped
<1>. HIDE DEF D
<1>2. /\ inviteList' \in Inv!QueryOf(D) /\ inviteList'.has = inviteList.has
      /\ inviteList'.data = inviteList.data /\ inviteList'.answer \in {inviteList.data, inviteList.answer}
      /\ inviteList'.stale = inviteList.stale \/ inviteList'.stale
      /\ inviteList'.at = "read" => inviteList'.answer = inviteList.answer /\ inviteList.at = "read"
      /\ inviteList' = Inv!Invalidated(inviteList) /\ inviteList.has => inviteList'.stale /\ inviteList'.at = "asked"
  BY <1>1, InviteQuery
<1>3. BrowserTyped'
  BY <1>2 DEF BrowserInv, BrowserTyped, PanelStates, D
<1>4. ListOK'
  <2>1. CASE withdrawn' = withdrawn
    BY <1>2, <2>1 DEF BrowserInv, ListOK, NoneWithdrawn, Used
  <2>2. CASE withdrawn' # withdrawn
    BY <1>2, <2>2 DEF BrowserInv, ListOK, Used
  <2>. QED  BY <2>1, <2>2
<1>5. BrowserOK'
  BY <1>2 DEF BrowserInv, BrowserOK, Used, Over
<1>. QED  BY <1>3, <1>4, <1>5 DEF BrowserInv

LEMMA ListStep ==
    ASSUME RoutesInv, BrowserInv, Inv!List
    PROVE  RoutesInv' /\ BrowserInv'
<1>1. /\ InvitesTyped /\ BrowserTyped /\ ListOK /\ BrowserOK
      /\ \A c \in InviteCalls : InviteCallOK(c)
      /\ panel \in PanelStates
  BY DEF RoutesInv, BrowserInv, BrowserTyped, PanelStates
<1>2. UNCHANGED inviteCall => \A d \in InviteCalls : inviteCall'[d].by = "confirm" => inviteList.has
  BY <1>1 DEF BrowserOK
<1>3. \A i \in Inv!Shown : i \in Ids /\ Used(i)
  BY <1>1 DEF Inv!Shown, ListOK, BrowserTyped, Inv!QueryOf
<1>4. CASE Inv!ListRead \/ Inv!ListSettles \/ Inv!ListFails \/ Inv!Refetch
  BY <1>4, ListMoves
<1>5. CASE Inv!CloseCancel \/ \E i \in Ids : Inv!OpenCancel(i)
  <2>1. UNCHANGED <<inv, inflight, inviteCall, wanted, inviteList, offer, refused, withdrawn, present>>
    BY <1>5 DEF Inv!CloseCancel, Inv!OpenCancel, Inv!serverVars, Inv!pageVars
  <2>2. /\ panel' \in PanelStates
        /\ panel'.target # Inv!NoId => inviteList.has /\ inv'[panel'.target].st # "unused"
    BY <1>1, <1>3, <1>5, <2>1 DEF PanelStates, Inv!CloseCancel, Inv!OpenCancel, Used
  <2>3. RoutesInv'
    BY <1>1, <2>1, SameRows, RowsOnly DEF InvitesTyped
  <2>. QED  BY <1>1, <1>2, <2>1, <2>2, <2>3, PanelMoves DEF BrowserTyped
<1>6. ASSUME NEW c \in InviteCalls, NEW p \in ApiProcs, NEW i \in Ids, Inv!ClickResend(c, i, p)
      PROVE  RoutesInv' /\ BrowserInv'
  <2>1. /\ i \in Inv!Shown /\ Inv!Free(c) /\ Inv!Starts(c, "resend", i, "email", p, "list")
        /\ panel' = [panel EXCEPT !.resending = i]
        /\ UNCHANGED <<inv, inflight, wanted, inviteList, offer, refused, withdrawn, present>>
    BY <1>6 DEF Inv!ClickResend, Inv!Sends, Inv!pageVars
  <2>2. "email" \in Inv!Kinds /\ Used(i)
    BY <1>3, <2>1 DEF Inv!Kinds
  <2>3. /\ RoutesInv' /\ inviteCall'[c].by = "list"
        /\ \A d \in InviteCalls \ {c} : inviteCall'[d] = inviteCall[d]
    BY <2>1, <2>2, CallSent
  <2>4. panel' \in PanelStates /\ panel'.target = panel.target
    BY <1>1, <2>1 DEF PanelStates
  <2>5. panel'.target # Inv!NoId => inviteList.has /\ inv'[panel'.target].st # "unused"
    BY <1>1, <2>1, <2>4 DEF BrowserOK, Used
  <2>6. \A d \in InviteCalls : inviteCall'[d].by = "confirm" => inviteList.has
    BY <1>1, <2>3 DEF BrowserOK
  <2>. QED  BY <1>1, <2>1, <2>3, <2>4, <2>5, <2>6, PanelMoves DEF BrowserTyped
<1>7. ASSUME NEW c \in InviteCalls, NEW p \in ApiProcs, Inv!ConfirmCancel(c, p)
      PROVE  RoutesInv' /\ BrowserInv'
  <2>1. /\ panel.target # Inv!NoId /\ Inv!Free(c)
        /\ Inv!Starts(c, "cancel", panel.target, inv[panel.target].kind, p, "confirm")
        /\ UNCHANGED <<inv, inflight, wanted, inviteList, panel, offer, refused, withdrawn, present>>
    BY <1>7 DEF Inv!ConfirmCancel, Inv!Sends, Inv!pageVars
  <2>2. /\ panel.target \in Ids /\ Used(panel.target) /\ inv[panel.target].kind \in Inv!Kinds
        /\ inviteList.has
    BY <1>1, <2>1 DEF PanelStates, BrowserOK, InvitesTyped, InviteRow
  <2>3. RoutesInv'
    BY <2>1, <2>2, CallSent
  <2>. QED  BY <1>1, <2>1, <2>2, <2>3, PanelMoves DEF BrowserTyped, Used
<1>8. ASSUME NEW c \in InviteCalls, Inv!ResendSettles(c)
      PROVE  RoutesInv' /\ BrowserInv'
  <2>1. /\ inviteCall[c].pc \in {"ok", "failed"} /\ inviteCall' = [inviteCall EXCEPT ![c] = Inv!IdleCall]
        /\ inviteList' \in {inviteList, Inv!Invalidated(inviteList)}
        /\ panel' = [panel EXCEPT !.resending = Inv!NoId]
        /\ UNCHANGED <<inv, inflight, wanted, offer, refused, withdrawn, present>>
    BY <1>8 DEF Inv!ResendSettles, Inv!Handles, Inv!At, Inv!pageVars
  <2>2. /\ RoutesInv'
        /\ \A d \in InviteCalls : inviteCall'[d].by = "confirm" => inviteCall[d].by = "confirm"
    BY <2>1, CallTaken
  <2>3. panel' \in PanelStates /\ panel'.target = panel.target
    BY <1>1, <2>1 DEF PanelStates
  <2>4. panel'.target # Inv!NoId => inviteList.has /\ inv'[panel'.target].st # "unused"
    BY <1>1, <2>1, <2>3 DEF BrowserOK, Used
  <2>5. \A d \in InviteCalls : inviteCall'[d].by = "confirm" => inviteList.has
    BY <1>1, <2>2 DEF BrowserOK
  <2>. QED  BY <1>1, <2>1, <2>2, <2>3, <2>4, <2>5, PanelMoves DEF BrowserTyped
<1>9. ASSUME NEW c \in InviteCalls, Inv!CancelSettles(c)
      PROVE  RoutesInv' /\ BrowserInv'
  <2>1. /\ inviteCall[c].pc \in {"ok", "failed"} /\ inviteCall[c].by = "confirm"
        /\ inviteCall' = [inviteCall EXCEPT ![c] = Inv!IdleCall]
        /\ UNCHANGED <<inv, inflight, wanted, offer, refused, present>>
        /\ \/ /\ inviteCall[c].pc = "ok" /\ inviteList' = Inv!Invalidated(inviteList)
              /\ panel' = [panel EXCEPT !.target = Inv!NoId]
              /\ withdrawn' = withdrawn \cup {inviteCall[c].id}
           \/ UNCHANGED <<inviteList, panel, withdrawn>>
    BY <1>9 DEF Inv!CancelSettles, Inv!Handles, Inv!At
  <2>2. /\ RoutesInv'
        /\ \A d \in InviteCalls : inviteCall'[d].by = "confirm" => inviteCall[d].by = "confirm"
    BY <2>1, CallTaken
  <2>3. inviteList.has
    BY <1>1, <2>1 DEF BrowserOK
  <2>4. panel' \in PanelStates /\ panel'.target \in {Inv!NoId, panel.target}
    BY <1>1, <2>1 DEF PanelStates
  <2>5. panel'.target # Inv!NoId => inv'[panel'.target].st # "unused"
    BY <1>1, <2>1, <2>4 DEF BrowserOK, Used
  <2>6. inviteCall[c].pc = "ok" => inviteCall[c].id \in Ids /\ Over(inviteCall[c].id)
    BY <1>1, <2>1 DEF InviteCallOK
  <2>7. withdrawn' \subseteq Ids /\ \A i \in withdrawn' : i \in withdrawn \/ Over(i)'
    BY <1>1, <2>1, <2>6 DEF BrowserTyped, Over
  <2>8. \A d \in InviteCalls : inviteCall'[d].by = "confirm" => inviteList.has
    BY <2>3
  <2>. QED  BY <2>1, <2>2, <2>3, <2>4, <2>5, <2>7, <2>8, PanelMoves
<1>. QED  BY <1>4, <1>5, <1>6, <1>7, <1>8, <1>9 DEF Inv!List

LEMMA DialogStep ==
    ASSUME RoutesInv, BrowserInv, Inv!Dialog
    PROVE  RoutesInv' /\ BrowserInv'
<1>1. /\ InvitesTyped /\ BrowserTyped /\ BrowserOK /\ panel \in PanelStates
  BY DEF RoutesInv, BrowserInv, BrowserTyped, PanelStates
<1>2. /\ Inv!Closed \in PanelStates /\ Inv!Closed.target = panel.target
      /\ \A u \in Ids \cup {Inv!NoId} : LET q == [panel EXCEPT !.url = u] IN
             q \in PanelStates /\ q.target = panel.target
      /\ \A b \in BOOLEAN : LET q == [panel EXCEPT !.open = b] IN
             q \in PanelStates /\ q.target = panel.target
      /\ \A b \in BOOLEAN : LET q == [panel EXCEPT !.link = b] IN
             q \in PanelStates /\ q.target = panel.target
  BY <1>1 DEF Inv!Closed, PanelStates
<1>3. UNCHANGED <<inv, inviteList>> /\ panel'.target = panel.target =>
          (panel'.target # Inv!NoId => inviteList.has /\ inv'[panel'.target].st # "unused")
  BY <1>1 DEF BrowserOK, Used
<1>4. CASE Inv!OpenDialog \/ Inv!ToggleLink \/ Inv!CloseDialog
  <2>1. UNCHANGED <<inv, inflight, inviteCall, wanted, inviteList, offer, refused, withdrawn, present>>
    BY <1>4 DEF Inv!OpenDialog, Inv!ToggleLink, Inv!CloseDialog, Inv!serverVars, Inv!pageVars
  <2>2. panel' \in PanelStates /\ panel'.target = panel.target
    <3>1. panel.link \in BOOLEAN
      BY <1>1 DEF PanelStates
    <3>. QED  BY <1>2, <1>4, <3>1 DEF Inv!OpenDialog, Inv!ToggleLink, Inv!CloseDialog
  <2>3. RoutesInv'
    BY <1>1, <2>1, SameRows, RowsOnly DEF InvitesTyped
  <2>4. \A d \in InviteCalls : inviteCall'[d].by = "confirm" => inviteList.has
    BY <1>1, <2>1 DEF BrowserOK
  <2>. QED  BY <1>1, <1>3, <2>1, <2>2, <2>3, <2>4, PanelMoves DEF BrowserTyped
<1>5. ASSUME NEW c \in InviteCalls, NEW p \in ApiProcs, Inv!Submit(c, p)
      PROVE  RoutesInv' /\ BrowserInv'
  <2>1. PICK form \in Inv!Kinds :
            Inv!Free(c) /\ Inv!Starts(c, "create", Inv!NoId, form, p, "dialog")
    BY <1>5 DEF Inv!Submit, Inv!Sends, Inv!Kinds
  <2>2. UNCHANGED <<inv, inflight, wanted, inviteList, panel, offer, refused, withdrawn, present>>
    BY <1>5 DEF Inv!Submit, Inv!pageVars
  <2>3. /\ RoutesInv' /\ inviteCall'[c].by = "dialog"
        /\ \A d \in InviteCalls \ {c} : inviteCall'[d] = inviteCall[d]
    BY <2>1, <2>2, CallSent
  <2>4. \A d \in InviteCalls : inviteCall'[d].by = "confirm" => inviteList.has
    BY <1>1, <2>3 DEF BrowserOK
  <2>. QED  BY <1>1, <1>3, <2>2, <2>3, <2>4, PanelMoves DEF BrowserTyped
<1>6. ASSUME NEW c \in InviteCalls, Inv!InviteSettles(c)
      PROVE  RoutesInv' /\ BrowserInv'
  <2>1. /\ inviteCall[c].pc \in {"ok", "failed"} /\ inviteCall' = [inviteCall EXCEPT ![c] = Inv!IdleCall]
        /\ inviteList' \in {inviteList, Inv!Invalidated(inviteList)}
        /\ panel' \in {panel, Inv!Closed, [panel EXCEPT !.url = inviteCall[c].id]}
        /\ UNCHANGED <<inv, inflight, wanted, offer, refused, withdrawn, present>>
    BY <1>6 DEF Inv!InviteSettles, Inv!Handles, Inv!At, Inv!pageVars
  <2>2. /\ RoutesInv'
        /\ \A d \in InviteCalls : inviteCall'[d].by = "confirm" => inviteCall[d].by = "confirm"
    BY <2>1, CallTaken
  <2>3. inviteCall[c].id \in Ids \cup {Inv!NoId}
    BY <1>1 DEF InvitesTyped, InviteCall
  <2>4. panel' \in PanelStates /\ panel'.target = panel.target
    BY <1>1, <1>2, <2>1, <2>3
  <2>5. panel'.target # Inv!NoId => inviteList.has /\ inv'[panel'.target].st # "unused"
    BY <1>1, <2>1, <2>4 DEF BrowserOK, Used
  <2>6. \A d \in InviteCalls : inviteCall'[d].by = "confirm" => inviteList.has
    BY <1>1, <2>2 DEF BrowserOK
  <2>. QED  BY <1>1, <2>1, <2>2, <2>4, <2>5, <2>6, PanelMoves DEF BrowserTyped
<1>. QED  BY <1>4, <1>5, <1>6 DEF Inv!Dialog

\* The person invited gets an answer: the invitation is closed, or it was refused.
LEMMA ClosesStep ==
    ASSUME RoutesInv, BrowserInv, NEW st \in {"accepted", "rejected"}, Inv!Closes(st),
           UNCHANGED <<inflight, inviteCall>>
    PROVE  /\ RoutesInv' /\ RowsKeep /\ refused' \in BOOLEAN
           /\ ~refused' => inv'[offer.token].st \notin {"unused", "pending"}
<1>1. InvitesTyped /\ offer.token \in Ids /\ refused \in BOOLEAN
  BY DEF RoutesInv, BrowserInv, BrowserTyped
<1>2. CASE Inv!Open /\ inv' = [inv EXCEPT ![offer.token].st = st] /\ UNCHANGED refused
           /\ wanted' = (wanted /\ inv[offer.token].kind # "email")
  <2>1. Used(offer.token)
    BY <1>2 DEF Inv!Open, Used
  <2>2. /\ inv' \in [Ids -> InviteRow] /\ RowsKeep
        /\ inv'[offer.token].st \notin {"unused", "pending"}
        /\ Inv!PendingEmail' = Inv!PendingEmail \ {offer.token}
    <3>1. PICK i \in Ids : i = offer.token
      BY <1>1
    <3>2. inv' = [inv EXCEPT ![i].st = st] /\ Used(i)
      BY <1>2, <2>1, <3>1
    <3>3. inv' \in [Ids -> InviteRow] /\ RowsKeep /\ Over(i)' /\ Inv!PendingEmail' = Inv!PendingEmail \ {i}
      BY <1>1, <3>2, EndedIs
    <3>. QED  BY <3>1, <3>3 DEF Over
  <2>3. wanted' \in BOOLEAN /\ (wanted' => wanted /\ Inv!PendingEmail' = Inv!PendingEmail)
    <3>1. wanted' \in BOOLEAN /\ (wanted' => wanted /\ inv[offer.token].kind # "email")
      BY <1>1, <1>2 DEF InvitesTyped
    <3>2. inv[offer.token].kind # "email" => Inv!PendingEmail' = Inv!PendingEmail
      <4>1. inv[offer.token].kind # "email" => offer.token \notin Inv!PendingEmail
        BY DEF Inv!PendingEmail
      <4>. QED  BY <2>2, <4>1
    <3>. QED  BY <3>1, <3>2
  <2>4. RoutesInv'
    BY <2>2, <2>3, RowsOnly
  <2>. QED  BY <1>1, <1>2, <2>2, <2>4
<1>3. CASE refused' = TRUE /\ UNCHANGED <<inv, wanted>>
  BY <1>1, <1>3, SameRows, RowsOnly DEF InvitesTyped
<1>. QED  BY <1>2, <1>3 DEF Inv!Closes

InvitedStates == [at : Inv!PageStates, token : Ids, dialog : BOOLEAN]
LEMMA OfferMoves ==
    ASSUME RoutesInv, BrowserInv, RowsKeep, UNCHANGED <<inviteCall, inviteList, panel, withdrawn, present>>,
           refused' \in BOOLEAN, offer' \in InvitedStates,
           offer'.at = "declined" /\ ~refused' => inv'[offer'.token].st \notin {"unused", "pending"}
    PROVE  BrowserInv'
<1>1. BrowserTyped'
  BY DEF BrowserInv, BrowserTyped, InvitedStates
<1>2. ListOK'
  <2>1. \A r \in inviteList.data \cup inviteList.answer : r[1] \in Ids
    BY DEF BrowserInv, BrowserTyped, Inv!QueryOf
  <2>. QED  BY <2>1 DEF BrowserInv, ListOK, RowsKeep, Used, NoneWithdrawn
<1>3. BrowserOK'
  BY DEF BrowserInv, BrowserTyped, BrowserOK, RowsKeep, Used, Over
<1>. QED  BY <1>1, <1>2, <1>3 DEF BrowserInv

LEMMA InvitedStep ==
    ASSUME RoutesInv, BrowserInv, Inv!Invited
    PROVE  RoutesInv' /\ BrowserInv'
<1>1. offer \in InvitedStates /\ InvitesTyped /\ refused \in BOOLEAN
  BY DEF RoutesInv, BrowserInv, BrowserTyped, InvitedStates
<1>2. \A to \in Inv!PageStates : Inv!Goes(to) =>
          offer' \in InvitedStates /\ offer'.at = to /\ offer'.token = offer.token
  BY <1>1 DEF Inv!Goes, InvitedStates
<1>3. /\ UNCHANGED <<inflight, inviteCall, inviteList, panel, withdrawn, present>>
  BY DEF Inv!Invited, Inv!SignUp, Inv!AutoAccept, Inv!LogIn, Inv!Load, Inv!LoadFails, Inv!LeaveOffer,
         Inv!ClickAccept, Inv!AcceptAnswered, Inv!Activated, Inv!AcceptThrows, Inv!AskDecline,
         Inv!KeepOffer, Inv!ConfirmDecline, Inv!DeclineAnswered, Inv!DeclineThrows, Inv!PageOnly,
         Inv!Elsewhere
<1>4. /\ offer' \in InvitedStates /\ offer'.token = offer.token
      /\ offer'.at = "declined" => Inv!DeclineAnswered
  <2>1. CASE Inv!SignUp \/ Inv!AutoAccept \/ Inv!LogIn \/ Inv!Load \/ Inv!LoadFails \/ Inv!LeaveOffer
    BY <1>2, <2>1 DEF Inv!SignUp, Inv!AutoAccept, Inv!LogIn, Inv!Load, Inv!LoadFails, Inv!LeaveOffer,
                      Inv!PageStates
  <2>2. CASE Inv!ClickAccept \/ Inv!AcceptAnswered \/ Inv!Activated \/ Inv!AcceptThrows
    BY <1>2, <2>2 DEF Inv!ClickAccept, Inv!AcceptAnswered, Inv!Activated, Inv!AcceptThrows, Inv!PageStates
  <2>3. CASE Inv!AskDecline \/ Inv!KeepOffer \/ Inv!ConfirmDecline
    BY <1>1, <2>3 DEF Inv!AskDecline, Inv!KeepOffer, Inv!ConfirmDecline, InvitedStates, Inv!PageStates
  <2>4. CASE Inv!DeclineAnswered \/ Inv!DeclineThrows
    BY <1>2, <2>4 DEF Inv!DeclineAnswered, Inv!DeclineThrows, Inv!PageStates
  <2>. QED  BY <2>1, <2>2, <2>3, <2>4 DEF Inv!Invited
<1>5. \/ UNCHANGED <<inv, wanted, refused>> /\ ~Inv!DeclineAnswered
      \/ Inv!Closes("accepted") \/ Inv!Closes("rejected")
  BY DEF Inv!Invited, Inv!SignUp, Inv!AutoAccept, Inv!LogIn, Inv!Load, Inv!LoadFails, Inv!LeaveOffer,
         Inv!ClickAccept, Inv!AcceptAnswered, Inv!Activated, Inv!AcceptThrows, Inv!AskDecline,
         Inv!KeepOffer, Inv!ConfirmDecline, Inv!DeclineAnswered, Inv!DeclineThrows, Inv!PageOnly
<1>6. CASE UNCHANGED <<inv, wanted, refused>> /\ ~Inv!DeclineAnswered
  <2>1. RowsKeep /\ RoutesInv'
    BY <1>1, <1>3, <1>6, SameRows, RowsOnly DEF InvitesTyped
  <2>. QED  BY <1>1, <1>3, <1>4, <1>6, <2>1, OfferMoves
<1>7. ASSUME NEW st \in {"accepted", "rejected"}, Inv!Closes(st)
      PROVE  RoutesInv' /\ BrowserInv'
  <2>1. /\ RoutesInv' /\ RowsKeep /\ refused' \in BOOLEAN
        /\ ~refused' => inv'[offer.token].st \notin {"unused", "pending"}
    BY <1>3, <1>7, ClosesStep
  <2>2. ~refused' => inv'[offer'.token].st \notin {"unused", "pending"}
    BY <1>4, <2>1
  <2>. QED  BY <1>3, <1>4, <2>1, <2>2, OfferMoves
<1>. QED  BY <1>5, <1>6, <1>7

LEMMA InvitesStep ==
    ASSUME Inv!NamesAssumption, InvitesInv, [Inv!Next]_(Inv!vars)
    PROVE  InvitesInv'
<1>1. RoutesInv /\ BrowserInv /\ InvitesTyped
  BY DEF InvitesInv, RoutesInv
<1>2. ASSUME NEW c \in InviteCalls, Inv!Routes(c)
      PROVE  InvitesInv'
  <2>1. RoutesInv' /\ RowsKeep /\ \A d \in InviteCalls : inviteCall'[d].by = inviteCall[d].by
    BY <1>1, <1>2, RoutesStep
  <2>2. UNCHANGED <<inviteList, panel, offer, refused, withdrawn, present>>
    BY <1>2 DEF Inv!Routes, Inv!CreateOk, Inv!Refused, Inv!CancelOk, Inv!ResendStarts, Inv!LookupOk,
                Inv!ResendRefused, Inv!LinkCreate, Inv!LinkCancel, Inv!EmailCancel, Inv!EmailCreate,
                Inv!EmailCreateFails, Inv!Reissue, Inv!ReissueFails, Inv!pageVars
  <2>. QED  BY <1>1, <2>1, <2>2, BrowserStays DEF InvitesInv
<1>3. ASSUME NEW c \in InviteCalls, Inv!OtherDone(c)
      PROVE  InvitesInv'
  <2>1. /\ inviteCall[c].pc \in {"ok", "failed"} /\ inviteCall' = [inviteCall EXCEPT ![c] = Inv!IdleCall]
        /\ UNCHANGED <<inv, inflight, wanted, inviteList, panel, offer, refused, withdrawn, present>>
    BY <1>3 DEF Inv!OtherDone, Inv!At, Inv!pageVars
  <2>2. /\ RoutesInv' /\ RowsKeep
        /\ \A d \in InviteCalls : inviteCall'[d].by = "confirm" => inviteCall[d].by = "confirm"
    BY <1>1, <2>1, CallTaken
  <2>. QED  BY <1>1, <2>1, <2>2, BrowserStays DEF InvitesInv
<1>4. ASSUME NEW c \in InviteCalls, NEW p \in ApiProcs, Inv!OtherCalls(c, p)
      PROVE  InvitesInv'
  <2>1. /\ Inv!Free(c)
        /\ UNCHANGED <<inv, inflight, wanted, inviteList, panel, offer, refused, withdrawn, present>>
    BY <1>4 DEF Inv!OtherCalls, Inv!pageVars
  <2>2. \E i \in Ids \cup {Inv!NoId}, pc \in {"create", "cancel", "resend"}, form \in Inv!Kinds :
            /\ Inv!Starts(c, pc, i, form, p, "api")
            /\ pc # "create" => i \in Ids /\ Used(i)
    <3>1. CASE \E k \in Inv!Kinds : Inv!Starts(c, "create", Inv!NoId, k, p, "api")
      BY <3>1
    <3>2. ASSUME NEW i \in Ids \ Inv!Unused, NEW pc \in {"cancel", "resend"},
                 Inv!Starts(c, pc, i, inv[i].kind, p, "api")
          PROVE  \E form \in Inv!Kinds : Inv!Starts(c, pc, i, form, p, "api") /\ i \in Ids /\ Used(i)
      BY <1>1, <3>2 DEF InvitesTyped, InviteRow, Inv!Unused, Used
    <3>. QED  BY <1>4, <3>1, <3>2 DEF Inv!OtherCalls
  <2>3. /\ RoutesInv' /\ RowsKeep /\ inviteCall'[c].by = "api"
        /\ \A d \in InviteCalls \ {c} : inviteCall'[d] = inviteCall[d]
    BY <1>1, <2>1, <2>2, CallSent
  <2>. QED  BY <1>1, <2>1, <2>3, BrowserStays DEF InvitesInv
<1>5. ASSUME NEW p \in ApiProcs, Inv!Crash(p)
      PROVE  InvitesInv'
  <2>1. RoutesInv' /\ RowsKeep /\ \A d \in InviteCalls : inviteCall'[d].by = inviteCall[d].by
    BY <1>1, <1>5, CrashStep
  <2>2. UNCHANGED <<inviteList, panel, offer, refused, withdrawn, present>>
    BY <1>5 DEF Inv!Crash, Inv!pageVars
  <2>. QED  BY <1>1, <2>1, <2>2, BrowserStays DEF InvitesInv
<1>6. CASE Inv!List \/ Inv!Dialog \/ Inv!Invited
  BY <1>1, <1>6, ListStep, DialogStep, InvitedStep DEF InvitesInv
<1>7. CASE UNCHANGED Inv!vars
  <2>1. UNCHANGED <<inv, inflight, inviteCall, wanted, inviteList, panel, offer, refused, withdrawn, present>>
    BY <1>7 DEF Inv!vars
  <2>2. RoutesInv' /\ RowsKeep
    BY <1>1, <2>1, SameRows, RowsOnly DEF InvitesTyped
  <2>. QED  BY <1>1, <2>1, <2>2, BrowserStays DEF InvitesInv
<1>. QED  BY <1>2, <1>3, <1>4, <1>5, <1>6, <1>7 DEF Inv!Next

LEMMA InvitesInitial ==
    ASSUME Inv!NamesAssumption, Inv!Init
    PROVE  InvitesInv
<1>1. /\ \A i \in Ids : inv[i] \in InviteRow /\ (i # 1 => inv[i].st = "unused")
      /\ inv \in [Ids -> InviteRow]
  <2>1. PICK k \in Inv!Kinds, st \in {"unused", "pending"} :
            inv = [i \in Ids |-> IF i = 1 THEN [Inv!UnusedRow EXCEPT !.st = st, !.kind = k]
                                 ELSE Inv!UnusedRow]
    BY DEF Inv!Init
  <2>2. /\ Inv!UnusedRow \in InviteRow /\ Inv!UnusedRow.st = "unused"
        /\ [Inv!UnusedRow EXCEPT !.st = st, !.kind = k] \in InviteRow
    BY DEF InviteRow, Inv!UnusedRow, Inv!Kinds, Inv!Statuses
  <2>3. \A i \in Ids : inv[i] \in InviteRow /\ (i # 1 => inv[i].st = "unused")
    BY <2>1, <2>2
  <2>4. inv \in [Ids -> InviteRow]
    BY <2>1, <2>3
  <2>. QED  BY <2>3, <2>4
<1>2. /\ inflight = [p \in ApiProcs |-> {}] /\ inviteCall = [c \in InviteCalls |-> Inv!IdleCall]
      /\ wanted = (Inv!PendingEmail # {}) /\ inviteList = Inv!Asked(Inv!NoQuery({}))
      /\ panel = [resending |-> Inv!NoId, target |-> Inv!NoId,
                  open |-> FALSE, link |-> FALSE, url |-> Inv!NoId]
      /\ offer \in [at : {"signup", "login", "loading"}, token : {1}, dialog : {FALSE}]
      /\ refused = FALSE /\ withdrawn = {} /\ present \in Parties
  BY DEF Inv!Init
<1>3. Inv!IdleCall \in InviteCall /\ Inv!IdleCall.pc = "idle" /\ Inv!IdleCall.by = "api"
  BY DEF Inv!IdleCall, InviteCall, Inv!CallSteps, Inv!Kinds
<1>4. InvitesTyped
  BY <1>1, <1>2, <1>3 DEF InvitesTyped
<1>5. \A c \in InviteCalls : inviteCall[c].pc = "idle" /\ inviteCall[c].by = "api"
  BY <1>2, <1>3
<1>6. (\A c \in InviteCalls : InviteCallOK(c)) /\ ResendsOK
  <2>1. \A p \in ApiProcs : Inv!Running(p) = {} /\ inflight[p] = {}
    BY <1>2, <1>5 DEF Inv!Running, Inv!ResendSteps
  <2>. QED  BY <1>5, <2>1 DEF InviteCallOK, ResendsOK, Inv!ResendSteps
<1>7. RoutesInv
  BY <1>2, <1>4, <1>6 DEF RoutesInv, Inv!NeverStranded
<1>8. /\ inviteList \in Inv!QueryOf(SUBSET (Ids \X Inv!Statuses)) /\ inviteList.data = {}
      /\ inviteList.answer = {} /\ inviteList.at = "asked"
  <2>1. Inv!NoQuery({}) \in Inv!QueryOf(SUBSET (Ids \X Inv!Statuses)) /\ Inv!NoQuery({}).data = {}
    BY DEF Inv!NoQuery, Inv!QueryOf
  <2>. QED  BY <1>2, <2>1, InviteQuery
<1>9. BrowserTyped
  BY <1>2, <1>8 DEF BrowserTyped, Inv!PageStates, Inv!NamesAssumption
<1>10. ListOK /\ BrowserOK
  BY <1>2, <1>5, <1>8 DEF ListOK, BrowserOK, NoneWithdrawn
<1>. QED  BY <1>7, <1>9, <1>10 DEF InvitesInv, BrowserInv

LEMMA InvitesImply ==
    ASSUME Inv!NamesAssumption, InvitesInv
    PROVE  InvitationsHold
<1>1. /\ InvitesTyped /\ (\A c \in InviteCalls : InviteCallOK(c)) /\ ResendsOK /\ Inv!NeverStranded
      /\ BrowserTyped /\ ListOK /\ BrowserOK
  BY DEF InvitesInv, RoutesInv, BrowserInv
<1>2. Inv!TypeOK
  BY <1>1 DEF Inv!TypeOK, InvitesTyped, BrowserTyped, InviteRow, InviteCall
<1>3. Inv!ResendKeysExact
  <2>. SUFFICES ASSUME NEW p \in ApiProcs
                PROVE  /\ inflight[p] = {inviteCall[c].id : c \in Inv!Running(p)}
                       /\ Cardinality(inflight[p]) = Cardinality(Inv!Running(p))
    BY DEF Inv!ResendKeysExact, Inv!Cardinality, Cardinality, Inv!IsFiniteSet
  <2>. DEFINE R == Inv!Running(p)
              f == [c \in R |-> inviteCall[c].id]
  <2>1. \A c \in R : inviteCall[c].id \in Ids
    BY <1>1 DEF InviteCallOK, Inv!Running
  <2>2. inflight[p] = {inviteCall[c].id : c \in R}
    <3>1. inflight[p] \subseteq Ids
      BY <1>1 DEF InvitesTyped
    <3>. QED  BY <1>1, <2>1, <3>1 DEF ResendsOK
  <2>3. IsFiniteSet(R)
    <3>1. IsFiniteSet(InviteCalls)
      BY DEF Inv!NamesAssumption, Inv!IsFiniteSet, IsFiniteSet
    <3>. QED  BY <3>1, FS_Subset DEF Inv!Running
  <2>4. \A c, d \in R : inviteCall[c].id = inviteCall[d].id => c = d
    BY <1>1 DEF ResendsOK
  <2>. HIDE DEF R
  <2>5. f \in Bijection(R, inflight[p])
    BY <2>2, <2>4 DEF Bijection, Injection, Surjection, IsInjective
  <2>6. Cardinality(inflight[p]) = Cardinality(R)
    BY <2>3, <2>5, FS_Bijection DEF ExistsBijection
  <2>. QED  BY <2>2, <2>6 DEF R
<1>4. Inv!CancelShown
  BY <1>1 DEF Inv!CancelShown, Inv!Fresh, ListOK, NoneWithdrawn
<1>5. Inv!DeclinedIsClosed
  BY <1>1 DEF Inv!DeclinedIsClosed, BrowserOK, Over, Inv!Open
<1>. QED  BY <1>1, <1>2, <1>3, <1>4, <1>5 DEF InvitationsHold

\* For any ids, calls and processes, and with all parties at once: an address that was invited
\* can accept until somebody says no (the resend's compensation, routes.ts), a process has the
\* keys of the resends it runs and no other, and a cancel or a decline that a page has said is
\* done is done.
THEOREM InvitationsAlwaysHold == Inv!Spec => []InvitationsHold
<1>1. Inv!Init => InvitesInv
  BY PagesAssumption, InvitesInitial
<1>2. InvitesInv /\ [Inv!Next]_(Inv!vars) => InvitesInv'
  BY PagesAssumption, InvitesStep
<1>3. InvitesInv => InvitationsHold
  BY PagesAssumption, InvitesImply
<1>. QED  BY <1>1, <1>2, <1>3, PTL DEF Inv!Spec

-----------------------------------------------------------------------------
(***************************************************************************)
(* The operator's session.                                                 *)
(***************************************************************************)
\* Who impersonates has no platform role, so nobody impersonates from there.
OperatorInv ==
    /\ Operator!TypeOK /\ Operator!Returnable
    /\ operatorPage \in [pending : BOOLEAN, told : Operator!Sessions \cup {Nobody}]
    /\ cookie # Nobody => (cookie.role => cookie.by = Nobody)

LEMMA SessionIs ==
    ASSUME NEW u \in Accounts, NEW by \in Accounts \cup {Nobody}, NEW r \in BOOLEAN
    PROVE  LET s == Operator!Session(u, by, r)
           IN  s \in Operator!Sessions /\ s.user = u /\ s.by = by /\ s.role = r
BY DEF Operator!Session, Operator!Sessions

LEMMA OperatorInitial == ASSUME Operator!NamesAssumption, Operator!Init PROVE OperatorInv
BY DEF OperatorInv, Operator!Init, Operator!TypeOK, Operator!Returnable

LEMMA OperatorStep ==
    ASSUME Operator!NamesAssumption, OperatorInv, [Operator!Next]_(Operator!vars)
    PROVE  OperatorInv'
<1>. DEFINE Kept == Operator!Sessions \cup {Nobody}
            PageStates == [pending : BOOLEAN, told : Kept]
            Good(c, s) == /\ c \in Kept /\ s \in Kept
                          /\ c # Nobody => (c.role => c.by = Nobody)
                          /\ c # Nobody /\ c.by # Nobody => s = Operator!Session(c.by, Nobody, TRUE)
<1>1. /\ admin \in {{}, Promoted} /\ owns \subseteq Accounts /\ Good(cookie, saved)
      /\ operatorPage \in PageStates /\ route \in {"login", "console"}
      /\ login \in {"idle", "signed", "refuses", "admits"}
  BY DEF OperatorInv, Operator!TypeOK, Operator!Returnable
<1>2. ASSUME admin' \in {{}, Promoted}, owns' \subseteq Accounts, Good(cookie', saved'),
             operatorPage' \in PageStates, route' \in {"login", "console"},
             login' \in {"idle", "signed", "refuses", "admits"}
      PROVE  OperatorInv'
  BY <1>2 DEF OperatorInv, Operator!TypeOK, Operator!Returnable
<1>3. /\ Operator!Pending(operatorPage) \in PageStates
      /\ [pending |-> FALSE, told |-> cookie] \in PageStates
  BY <1>1 DEF Operator!Pending
<1>4. Nobody \notin Operator!Sessions /\ Nobody \notin Accounts
  BY DEF Operator!NamesAssumption
<1>5. Good(Nobody, saved)
  BY <1>1
<1>6. \A s \in Operator!Sessions : s.user \in Accounts /\ s.by \in Accounts \cup {Nobody} /\ s.role \in BOOLEAN
                                   /\ s = [user |-> s.user, by |-> s.by, role |-> s.role]
  BY DEF Operator!Sessions
<1>7. CASE Operator!Promote \/ Operator!Expires \/ Operator!Ask \/ Operator!Told \/ Operator!SendsAway
  BY <1>1, <1>2, <1>3, <1>5, <1>7 DEF Operator!Promote, Operator!Expires, Operator!Ask, Operator!Told,
                                      Operator!SendsAway
<1>8. CASE Operator!Checks \/ Operator!Throws \/ Operator!Refuses \/ Operator!Admits \/ Operator!Opens
           \/ Operator!SignOut
  BY <1>1, <1>2, <1>3, <1>5, <1>8 DEF Operator!Checks, Operator!Throws, Operator!Refuses, Operator!Admits,
                                      Operator!Opens, Operator!SignOut
<1>9. CASE Operator!Stop
  <2>1. /\ UNCHANGED <<admin, owns, route, login>> /\ operatorPage' = Operator!Pending(operatorPage)
        /\ IF cookie # Nobody /\ cookie.by # Nobody
           THEN cookie' = saved /\ saved' = Nobody ELSE UNCHANGED <<cookie, saved>>
    BY <1>9 DEF Operator!Stop
  <2>2. CASE cookie # Nobody /\ cookie.by # Nobody
    <3>1. cookie \in Operator!Sessions /\ cookie' = Operator!Session(cookie.by, Nobody, TRUE) /\ saved' = Nobody
      BY <1>1, <2>1, <2>2
    <3>2. cookie.by \in Accounts
      BY <1>6, <2>2, <3>1
    <3>3. cookie' \in Operator!Sessions /\ cookie'.by = Nobody
      <4>1. Nobody \in Accounts \cup {Nobody} /\ TRUE \in BOOLEAN
        OBVIOUS
      <4>. QED  BY <3>1, <3>2, <4>1, SessionIs
    <3>. QED  BY <1>1, <1>2, <1>3, <2>1, <3>1, <3>3
  <2>3. CASE ~(cookie # Nobody /\ cookie.by # Nobody)
    BY <1>1, <1>2, <1>3, <2>1, <2>3
  <2>. QED  BY <2>2, <2>3
<1>10. ASSUME NEW u \in Accounts, Operator!OwnerChanges(u)
       PROVE  OperatorInv'
  BY <1>1, <1>2, <1>10 DEF Operator!OwnerChanges
<1>11. ASSUME NEW u \in Accounts, Operator!SignIn(u)
       PROVE  OperatorInv'
  <2>1. cookie' = [user |-> u, by |-> Nobody, role |-> u \in admin]
    BY <1>11 DEF Operator!SignIn, Operator!Session
  <2>2. cookie' \in Operator!Sessions /\ cookie'.by = Nobody
    BY <2>1 DEF Operator!Sessions
  <2>. QED  BY <1>1, <1>2, <1>3, <1>11, <2>2 DEF Operator!SignIn
<1>12. ASSUME NEW u \in Accounts, Operator!Impersonate(u)
       PROVE  OperatorInv'
  <2>1. /\ cookie # Nobody /\ cookie.role /\ cookie' = Operator!Session(u, cookie.user, FALSE) /\ saved' = cookie
        /\ UNCHANGED <<admin, owns, operatorPage, route, login>>
    BY <1>12 DEF Operator!Impersonate, Operator!Admitted
  <2>2. cookie \in Operator!Sessions /\ cookie.by = Nobody /\ cookie.user \in Accounts
    BY <1>1, <1>6, <2>1
  <2>3. saved' = Operator!Session(cookie.user, Nobody, TRUE)
    BY <1>6, <2>1, <2>2 DEF Operator!Session
  <2>4. cookie' \in Operator!Sessions /\ cookie'.by = cookie.user /\ ~cookie'.role
    <3>1. PICK w \in Accounts, r \in BOOLEAN : w = cookie.user /\ r = FALSE
      BY <2>2
    <3>2. cookie' = Operator!Session(u, w, r)
      BY <2>1, <3>1
    <3>3. /\ Operator!Session(u, w, r) \in Operator!Sessions /\ Operator!Session(u, w, r).by = w
          /\ Operator!Session(u, w, r).role = r
      BY SessionIs
    <3>. QED  BY <3>1, <3>2, <3>3
  <2>. QED  BY <1>1, <1>2, <2>1, <2>2, <2>3, <2>4
<1>13. CASE UNCHANGED Operator!vars
  BY <1>1, <1>2, <1>13 DEF Operator!vars
<1>. QED  BY <1>7, <1>8, <1>9, <1>10, <1>11, <1>12, <1>13 DEF Operator!Next

-----------------------------------------------------------------------------
(***************************************************************************)
(* The tenant of the session.                                              *)
(***************************************************************************)
TenantReq == [pc : Tenant!Steps, tenant : Orgs \cup {Tenant!NoId}, early : BOOLEAN]
MemberEdit == [at : {"idle", "asked", "done", "undone"}, org : Orgs \cup {Tenant!NoId},
               to : Tenant!Roles]

ReqsTyped ==
    /\ mine \subseteq Orgs /\ personal \subseteq Orgs
    /\ active \in Orgs \cup {Tenant!NoId} /\ chosen \in Orgs \cup {Tenant!NoId}
    /\ req \in [Reqs -> TenantReq]
    /\ overtaken \in BOOLEAN /\ twoCreate \in BOOLEAN
PagesTyped ==
    /\ shownTenant \in Orgs \cup {Tenant!NoId} /\ switch \in Orgs \cup {Tenant!NoId}
    /\ tenantScreen \in Tenant!Screens /\ lateFirst \in BOOLEAN
    /\ lst \in Tenant!QueryOf(Orgs \cup {Tenant!NoId})
MembersTyped ==
    /\ memberRole \in [Orgs -> Tenant!Roles]
    /\ mem \in [Orgs -> Tenant!QueryOf(Tenant!Views)]
    /\ edit \in MemberEdit /\ adrift \in MemberEdit /\ misled \subseteq Orgs
    /\ toldMember \in [Orgs -> Tenant!Roles \cup {"unknown", "unheard", "late"}]

\* Once a tenant has been chosen the session has one, so only requests older than the choice
\* are still completing it.
Completing(r) == req[r].pc \in {"list", "create", "activate"}
SwitchInv ==
    /\ \A r \in Reqs : req[r].pc = "activate" => req[r].tenant \in Orgs
    /\ chosen # Tenant!NoId => /\ active # Tenant!NoId
                               /\ active = chosen \/ overtaken
                               /\ \A r \in Reqs : Completing(r) => req[r].early

\* A workspace is created by the only request that does, and for a user who has none.
WorkspaceInv ==
    /\ personal \subseteq mine
    /\ ~twoCreate => /\ \A x, y \in personal : x = y
                     /\ \A r \in Reqs : req[r].pc = "create" => mine = {}
                     /\ \A r, q \in Reqs : req[r].pc = "create" /\ req[q].pc = "create" => r = q

\* Neither what the list shows for fresh nor what it will show was read before the switch.
LstInv ==
    /\ tenantScreen # "list" => lst.at = "idle" /\ lst.stale
    /\ chosen # Tenant!NoId /\ ~overtaken /\ ~lateFirst =>
         /\ ~lst.stale => lst.data = chosen
         /\ lst.at = "read" => lst.answer = chosen

\* Until the next edit is carried out or given up, the role the page said it has set is the
\* member's unless the service had refused it, and neither what the members page shows for
\* fresh nor what it will show was read before the last one.
Editing(o) == edit.at = "done" /\ edit.org = o
Says(v, o) == v \in {memberRole[o], "blank"}
MemberTold(o) ==
    toldMember[o] \in Tenant!Roles /\ ~Editing(o) =>
         /\ toldMember[o] = memberRole[o] \/ o \in misled
         /\ ~mem[o].stale => Says(mem[o].data, o)
         /\ mem[o].at = "read" => Says(mem[o].answer, o)
MembersInv ==
    /\ edit.at # "idle" => edit.org \in Orgs /\ mem[edit.org].has
    /\ edit.at = "done" => memberRole[edit.org] = edit.to
    /\ adrift.at # "idle" => adrift.org \in Orgs
    /\ \A o \in Orgs : MemberTold(o)

TenantInv == /\ ReqsTyped /\ PagesTyped /\ MembersTyped
             /\ SwitchInv /\ WorkspaceInv /\ LstInv /\ MembersInv

LEMMA TenantQuery ==
    ASSUME NEW D, NEW q \in Tenant!QueryOf(D)
    PROVE  /\ q.data \in D /\ q.answer \in D
           /\ Tenant!Asked(q) \in Tenant!QueryOf(D) /\ Tenant!Asked(q).has = q.has
           /\ Tenant!Asked(q).stale = q.stale /\ Tenant!Asked(q).data = q.data
           /\ Tenant!Asked(q).at = "asked"
           /\ Tenant!Settled(q) \in Tenant!QueryOf(D) /\ Tenant!Settled(q).has
           /\ Tenant!Settled(q).data = q.answer /\ Tenant!Settled(q).at = "idle"
           /\ Tenant!FetchFailed(q) \in Tenant!QueryOf(D) /\ Tenant!FetchFailed(q).has = q.has
           /\ Tenant!FetchFailed(q).stale = q.stale /\ Tenant!FetchFailed(q).data = q.data
           /\ Tenant!FetchFailed(q).at = "idle"
<1>1. q.data \in D /\ q.answer \in D
  BY DEF Tenant!QueryOf
<1>2. /\ Tenant!Asked(q) \in Tenant!QueryOf(D) /\ Tenant!Asked(q).has = q.has
      /\ Tenant!Asked(q).stale = q.stale /\ Tenant!Asked(q).data = q.data
      /\ Tenant!Asked(q).at = "asked"
  BY <1>1 DEF Tenant!QueryOf, Tenant!Asked
<1>3. /\ Tenant!Settled(q) \in Tenant!QueryOf(D) /\ Tenant!Settled(q).has
      /\ Tenant!Settled(q).data = q.answer /\ Tenant!Settled(q).at = "idle"
  BY <1>1 DEF Tenant!QueryOf, Tenant!Settled
<1>4. /\ Tenant!FetchFailed(q) \in Tenant!QueryOf(D) /\ Tenant!FetchFailed(q).has = q.has
      /\ Tenant!FetchFailed(q).stale = q.stale /\ Tenant!FetchFailed(q).data = q.data
      /\ Tenant!FetchFailed(q).at = "idle"
  BY <1>1 DEF Tenant!QueryOf, Tenant!FetchFailed
<1>. QED  BY <1>1, <1>2, <1>3, <1>4

LEMMA TenantAnswered ==
    ASSUME NEW D, NEW q \in Tenant!QueryOf(D), NEW v \in D, NEW s, s = Tenant!Answered(q, v)
    PROVE  /\ s \in Tenant!QueryOf(D) /\ s.has = q.has /\ s.stale = q.stale /\ s.data = q.data
           /\ s.answer = v /\ s.at = "read"
BY DEF Tenant!QueryOf, Tenant!Answered

LEMMA TenantStale ==
    ASSUME NEW D, NEW q \in Tenant!QueryOf(D), NEW s, s = [q EXCEPT !.stale = TRUE]
    PROVE  s \in Tenant!QueryOf(D) /\ s.stale /\ s.has = q.has /\ s.at = q.at /\ s.answer = q.answer
BY DEF Tenant!QueryOf

LEMMA TenantInvalidated ==
    ASSUME NEW D, NEW q \in Tenant!QueryOf(D)
    PROVE  LET s == Tenant!Invalidated(q) IN
           /\ s \in Tenant!QueryOf(D) /\ s.has = q.has /\ s.stale
           /\ q.has \/ q.at = "idle" => s.at = "asked"
           /\ s.at = "read" => ~q.has /\ q.at = "read" /\ s.answer = q.answer
<1>1. CASE q.has \/ q.at = "idle"
  <2>1. Tenant!Invalidated(q) = [Tenant!Asked(q) EXCEPT !.stale = TRUE]
    BY <1>1 DEF Tenant!Invalidated
  <2>2. /\ Tenant!Asked(q) \in Tenant!QueryOf(D) /\ Tenant!Asked(q).has = q.has
        /\ Tenant!Asked(q).at = "asked"
    BY TenantQuery
  <2>. QED  BY <2>1, <2>2, TenantStale
<1>2. CASE ~(q.has \/ q.at = "idle")
  <2>1. Tenant!Invalidated(q) = [q EXCEPT !.stale = TRUE]
    BY <1>2 DEF Tenant!Invalidated
  <2>. QED  BY <1>2, <2>1, TenantStale
<1>. QED  BY <1>1, <1>2

\* One request moves on, and perhaps the session with it.
LEMMA RequestMoves ==
    ASSUME ReqsTyped, SwitchInv, WorkspaceInv, NEW r \in Reqs, NEW k \in TenantReq,
           req' = [req EXCEPT ![r] = k], UNCHANGED chosen,
           k.pc = "activate" => k.tenant \in Orgs,
           Completing(r) \/ active = Tenant!NoId \/ k.pc \notin {"list", "create", "activate"},
           k.early = req[r].early \/ k.pc \notin {"list", "create", "activate"},
           \/ UNCHANGED <<active, overtaken>>
           \/ /\ req[r].pc = "activate" /\ active' = req[r].tenant
              /\ overtaken' = (overtaken \/ (req[r].early /\ chosen # active')),
           \/ UNCHANGED <<mine, personal, twoCreate>> /\ k.pc # "create"
           \/ /\ UNCHANGED <<mine, personal>> /\ mine = {}
              /\ twoCreate' = (twoCreate \/ \E q \in Reqs : req[q].pc = "create")
           \/ /\ req[r].pc = "create" /\ k.pc # "create" /\ UNCHANGED twoCreate
              /\ \E o \in Orgs : mine' = mine \cup {o} /\ personal' = personal \cup {o}
    PROVE  ReqsTyped' /\ SwitchInv' /\ WorkspaceInv'
<1>1. /\ req'[r] = k /\ \A q \in Reqs \ {r} : req'[q] = req[q]
      /\ req' \in [Reqs -> TenantReq]
  BY DEF ReqsTyped
<1>2. req[r].pc = "activate" => req[r].tenant \in Orgs
  BY DEF SwitchInv
<1>3. ReqsTyped'
  BY <1>1, <1>2 DEF ReqsTyped
<1>4. SwitchInv'
  <2>1. \A q \in Reqs : req'[q].pc = "activate" => req'[q].tenant \in Orgs
    BY <1>1 DEF SwitchInv
  <2>. SUFFICES ASSUME chosen' # Tenant!NoId
                PROVE  /\ active' # Tenant!NoId /\ (active' = chosen' \/ overtaken')
                       /\ \A q \in Reqs : Completing(q)' => req'[q].early
    BY <2>1 DEF SwitchInv
  <2>2. /\ active # Tenant!NoId /\ (active = chosen \/ overtaken)
        /\ \A q \in Reqs : Completing(q) => req[q].early
    BY DEF SwitchInv
  <2>3. \A q \in Reqs : Completing(q)' => req'[q].early
    BY <1>1, <2>2 DEF Completing
  <2>4. Orgs \subseteq Nat \ {Tenant!NoId}
    BY PagesAssumption DEF Tenant!NamesAssumption
  <2>5. active' # Tenant!NoId /\ (active' = chosen' \/ overtaken')
    BY <1>2, <2>2, <2>4 DEF Completing
  <2>. QED  BY <2>3, <2>5
<1>5. WorkspaceInv'
  <2>1. CASE UNCHANGED <<mine, personal, twoCreate>> /\ k.pc # "create"
    BY <1>1, <2>1 DEF WorkspaceInv
  <2>2. CASE /\ UNCHANGED <<mine, personal>> /\ mine = {}
             /\ twoCreate' = (twoCreate \/ \E q \in Reqs : req[q].pc = "create")
    BY <1>1, <2>2 DEF WorkspaceInv
  <2>3. CASE /\ req[r].pc = "create" /\ k.pc # "create" /\ UNCHANGED twoCreate
             /\ \E o \in Orgs : mine' = mine \cup {o} /\ personal' = personal \cup {o}
    BY <1>1, <2>3 DEF WorkspaceInv
  <2>. QED  BY <2>1, <2>2, <2>3
<1>. QED  BY <1>3, <1>4, <1>5

RequestActions(r) ==
    \/ Tenant!Arrives(r) \/ Tenant!SessionRead(r) \/ Tenant!ListFinds(r) \/ Tenant!ListEmpty(r)
    \/ Tenant!ListFails(r) \/ Tenant!Create(r) \/ Tenant!CreateFails(r) \/ Tenant!Activate(r)
    \/ Tenant!Refuse(r) \/ Tenant!Leaves(r)

LEMMA RequestStep ==
    ASSUME TenantInv, NEW r \in Reqs, RequestActions(r)
    PROVE  TenantInv'
<1>. DEFINE k(pc, o) == [req[r] EXCEPT !.pc = pc, !.tenant = o]
            Bnd(o) == [pc |-> "bound", tenant |-> o, early |-> FALSE]
            Os == Orgs \cup {Tenant!NoId}
<1>1. req[r] \in TenantReq /\ ReqsTyped /\ SwitchInv /\ WorkspaceInv
  BY DEF TenantInv, ReqsTyped
<1>2. \A pc \in Tenant!Steps, o \in Os :
        /\ k(pc, o) \in TenantReq /\ k(pc, o).pc = pc /\ k(pc, o).tenant = o
        /\ k(pc, o).early = req[r].early
        /\ Tenant!To(r, pc, o) => req' = [req EXCEPT ![r] = k(pc, o)]
  BY <1>1 DEF TenantReq, Tenant!To, ReqsTyped
<1>3. \A o \in Os : /\ Bnd(o) \in TenantReq /\ Bnd(o).pc = "bound"
                    /\ Tenant!Bound(r, o) => req' = [req EXCEPT ![r] = Bnd(o)]
  BY DEF TenantReq, Tenant!Bound, Tenant!Steps
<1>4. UNCHANGED <<memberRole, shownTenant, switch, tenantScreen, lst, mem, edit, adrift, toldMember, misled,
                  lateFirst, chosen>>
  BY DEF RequestActions, Tenant!Arrives, Tenant!SessionRead, Tenant!ListFinds, Tenant!ListEmpty,
         Tenant!ListFails, Tenant!Create, Tenant!CreateFails, Tenant!Activate, Tenant!Refuse,
         Tenant!Leaves, Tenant!tenantVars, Tenant!clientVars, Tenant!editVars, Tenant!ghostVars
<1>. HIDE DEF k, Bnd
<1>5. Tenant!NoId \in Os /\ active \in Os /\ req[r].tenant \in Os /\ mine \subseteq Orgs
  BY <1>1 DEF ReqsTyped, TenantReq
<1>6. {"session", "list", "create", "activate", "failed", "refused"} \subseteq Tenant!Steps
  BY DEF Tenant!Steps
<1>7. ReqsTyped' /\ SwitchInv' /\ WorkspaceInv'
  <2>1. CASE Tenant!Arrives(r) \/ Tenant!ListFails(r) \/ Tenant!CreateFails(r) \/ Tenant!Refuse(r)
    <3>1. PICK pc \in {"session", "failed", "refused"} : Tenant!To(r, pc, Tenant!NoId)
      BY <2>1 DEF Tenant!Arrives, Tenant!ListFails, Tenant!CreateFails, Tenant!Refuse
    <3>2. UNCHANGED <<mine, personal, active, overtaken, twoCreate>>
      BY <2>1 DEF Tenant!Arrives, Tenant!ListFails, Tenant!CreateFails, Tenant!Refuse,
                  Tenant!tenantVars, Tenant!ghostVars
    <3>. QED  BY <1>1, <1>2, <1>4, <1>5, <1>6, <3>1, <3>2, RequestMoves
  <2>2. CASE Tenant!SessionRead(r)
    <3>1. UNCHANGED <<mine, personal, active, overtaken, twoCreate>>
      BY <2>2 DEF Tenant!SessionRead, Tenant!tenantVars, Tenant!ghostVars
    <3>2. CASE active # Tenant!NoId /\ Tenant!Bound(r, active)
      BY <1>1, <1>3, <1>4, <1>5, <3>1, <3>2, RequestMoves
    <3>3. CASE active = Tenant!NoId /\ Tenant!To(r, "list", Tenant!NoId)
      BY <1>1, <1>2, <1>4, <1>5, <1>6, <3>1, <3>3, RequestMoves
    <3>. QED  BY <2>2, <3>2, <3>3 DEF Tenant!SessionRead
  <2>3. CASE Tenant!ListFinds(r)
    <3>1. /\ req[r].pc = "list" /\ mine # {} /\ Tenant!To(r, "activate", Tenant!First(mine))
          /\ UNCHANGED <<mine, personal, active, overtaken, twoCreate>>
      BY <2>3 DEF Tenant!ListFinds, Tenant!At, Tenant!tenantVars, Tenant!ghostVars
    <3>2. Tenant!First(mine) \in mine
      <4>1. mine \subseteq Nat
        BY <1>5, PagesAssumption DEF Tenant!NamesAssumption
      <4>. QED  BY <3>1, <4>1, LeastExists DEF Tenant!First
    <3>3. Tenant!First(mine) \in Orgs /\ Completing(r)
      BY <1>5, <3>1, <3>2 DEF Completing
    <3>. QED  BY <1>1, <1>2, <1>4, <1>6, <3>1, <3>3, RequestMoves
  <2>4. CASE Tenant!ListEmpty(r)
    <3>1. /\ req[r].pc = "list" /\ mine = {} /\ Tenant!To(r, "create", Tenant!NoId)
          /\ twoCreate' = (twoCreate \/ \E q \in Reqs : req[q].pc = "create")
          /\ UNCHANGED <<mine, personal, active, overtaken>>
      BY <2>4 DEF Tenant!ListEmpty, Tenant!At, Tenant!tenantVars
    <3>. QED  BY <1>1, <1>2, <1>4, <1>5, <1>6, <3>1, RequestMoves DEF Completing
  <2>5. CASE Tenant!Create(r)
    <3>1. PICK o \in Orgs : /\ req[r].pc = "create" /\ Tenant!To(r, "activate", o)
                            /\ mine' = mine \cup {o} /\ personal' = personal \cup {o}
                            /\ UNCHANGED <<active, overtaken, twoCreate>>
      BY <2>5 DEF Tenant!Create, Tenant!At, Tenant!ghostVars
    <3>. QED  BY <1>1, <1>2, <1>4, <1>6, <3>1, RequestMoves DEF Completing
  <2>6. CASE Tenant!Activate(r)
    <3>1. /\ req[r].pc = "activate" /\ Tenant!Bound(r, req[r].tenant)
          /\ \/ /\ active' = req[r].tenant
                /\ overtaken' = (overtaken \/ (req[r].early /\ chosen # active'))
             \/ UNCHANGED <<active, overtaken>>
          /\ UNCHANGED <<mine, personal, twoCreate>>
      BY <2>6 DEF Tenant!Activate, Tenant!At, Tenant!tenantVars
    <3>. QED  BY <1>1, <1>3, <1>4, <1>5, <3>1, RequestMoves
  <2>7. CASE Tenant!Leaves(r)
    <3>1. PICK i \in TenantReq : i = Tenant!IdleReq
      BY DEF TenantReq, Tenant!IdleReq, Tenant!Steps
    <3>2. i.pc = "idle" /\ req' = [req EXCEPT ![r] = i]
          /\ UNCHANGED <<mine, personal, active, overtaken, twoCreate>>
      BY <2>7, <3>1 DEF Tenant!Leaves, Tenant!IdleReq, Tenant!tenantVars, Tenant!ghostVars
    <3>. QED  BY <1>1, <1>4, <3>2, RequestMoves
  <2>. QED  BY <2>1, <2>2, <2>3, <2>4, <2>5, <2>6, <2>7 DEF RequestActions
<1>8. overtaken => overtaken'
  BY DEF RequestActions, Tenant!Arrives, Tenant!SessionRead, Tenant!ListFinds, Tenant!ListEmpty,
         Tenant!ListFails, Tenant!Create, Tenant!CreateFails, Tenant!Activate, Tenant!Refuse,
         Tenant!Leaves, Tenant!ghostVars
<1>9. PagesTyped' /\ MembersTyped' /\ LstInv' /\ MembersInv'
  BY <1>4, <1>8 DEF TenantInv, PagesTyped, MembersTyped, LstInv, MembersInv, MemberTold, Says, Editing
<1>. QED  BY <1>7, <1>9 DEF TenantInv

\* The queries read again after a switch or an edit: what they hold is stale, and an answer that
\* is still to come, if any, is one to a first reading.
LEMMA MembersRefreshed ==
    ASSUME MembersTyped, NEW read \in [Orgs -> BOOLEAN],
           mem' = [o \in Orgs |-> IF read[o] THEN Tenant!Invalidated(mem[o])
                                  ELSE [mem[o] EXCEPT !.stale = TRUE]]
    PROVE  /\ mem' \in [Orgs -> Tenant!QueryOf(Tenant!Views)]
           /\ \A o \in Orgs : /\ mem'[o].stale /\ mem'[o].has = mem[o].has
                              /\ mem'[o].at = "read" => /\ mem[o].at = "read"
                                                        /\ mem'[o].answer = mem[o].answer
                                                        /\ ~(read[o] /\ mem[o].has)
<1>1. ASSUME NEW o \in Orgs
      PROVE  /\ mem'[o] \in Tenant!QueryOf(Tenant!Views)
             /\ mem'[o].stale /\ mem'[o].has = mem[o].has
             /\ mem'[o].at = "read" => /\ mem[o].at = "read" /\ mem'[o].answer = mem[o].answer
                                       /\ ~(read[o] /\ mem[o].has)
  <2>1. mem[o] \in Tenant!QueryOf(Tenant!Views)
    BY DEF MembersTyped
  <2>2. CASE read[o]
    <3>1. mem'[o] = Tenant!Invalidated(mem[o])
      BY <2>2
    <3>. QED  BY <2>1, <3>1, TenantInvalidated
  <2>3. CASE ~read[o]
    <3>1. mem'[o] = [mem[o] EXCEPT !.stale = TRUE]
      BY <2>3
    <3>2. /\ mem'[o] \in Tenant!QueryOf(Tenant!Views) /\ mem'[o].stale /\ mem'[o].has = mem[o].has
          /\ mem'[o].at = mem[o].at /\ mem'[o].answer = mem[o].answer
      BY <2>1, <3>1, TenantStale
    <3>. QED  BY <2>3, <3>2
  <2>. QED  BY <2>2, <2>3
<1>. QED  BY <1>1

LEMMA SwitchStep == ASSUME TenantInv, Tenant!SwitchDone PROVE TenantInv'
<1>. DEFINE D == Orgs \cup {Tenant!NoId}
<1>1. /\ ReqsTyped /\ PagesTyped /\ MembersTyped /\ SwitchInv /\ WorkspaceInv /\ LstInv /\ MembersInv
      /\ switch \in D /\ lst \in Tenant!QueryOf(D)
  BY DEF TenantInv, PagesTyped
<1>2. /\ switch # Tenant!NoId /\ switch' = Tenant!NoId
      /\ lateFirst' = (lateFirst \/ (~lst.has /\ lst.at # "idle"))
      /\ UNCHANGED <<mine, personal, memberRole, shownTenant, tenantScreen, edit, adrift, toldMember, misled,
                     twoCreate>>
      /\ lst' = IF tenantScreen = "list" THEN Tenant!Invalidated(lst) ELSE lst
      /\ mem' = [o \in Orgs |-> IF o = shownTenant /\ tenantScreen = "members"
                                THEN Tenant!Invalidated(mem[o]) ELSE [mem[o] EXCEPT !.stale = TRUE]]
  BY DEF Tenant!SwitchDone, Tenant!Refreshed, Tenant!tenantVars, Tenant!editVars
<1>3. \/ /\ active' = switch /\ chosen' = switch /\ overtaken' = FALSE
         /\ req' = [r \in Reqs |-> [req[r] EXCEPT
                       !.early = ~Tenant!At(r, "idle") /\ ~Tenant!At(r, "bound")]]
      \/ UNCHANGED <<active, req, chosen, overtaken>>
  BY DEF Tenant!SwitchDone
<1>4. ReqsTyped' /\ SwitchInv' /\ WorkspaceInv'
  <2>1. CASE UNCHANGED <<active, req, chosen, overtaken>>
    BY <1>1, <1>2, <2>1 DEF ReqsTyped, SwitchInv, WorkspaceInv, Completing
  <2>2. CASE /\ active' = switch /\ chosen' = switch /\ overtaken' = FALSE
             /\ req' = [r \in Reqs |-> [req[r] EXCEPT
                           !.early = ~Tenant!At(r, "idle") /\ ~Tenant!At(r, "bound")]]
    <3>1. \A r \in Reqs : /\ req'[r] \in TenantReq /\ req'[r].pc = req[r].pc
                          /\ req'[r].tenant = req[r].tenant
                          /\ Completing(r) => req'[r].early
      BY <1>1, <2>2 DEF ReqsTyped, TenantReq, Tenant!At, Completing
    <3>2. req' \in [Reqs -> TenantReq]
      BY <2>2, <3>1
    <3>3. ReqsTyped'
      BY <1>1, <1>2, <2>2, <3>2 DEF ReqsTyped
    <3>4. SwitchInv'
      BY <1>1, <1>2, <2>2, <3>1 DEF SwitchInv, Completing
    <3>5. WorkspaceInv'
      BY <1>1, <1>2, <3>1 DEF WorkspaceInv
    <3>. QED  BY <3>3, <3>4, <3>5
  <2>. QED  BY <1>3, <2>1, <2>2
<1>5. LET s == Tenant!Invalidated(lst) IN
      /\ s \in Tenant!QueryOf(D) /\ s.stale
      /\ s.at = "read" => ~lst.has /\ lst.at = "read"
  BY <1>1, TenantInvalidated
<1>. HIDE DEF D
<1>6. /\ lst' \in Tenant!QueryOf(D)
      /\ lst'.stale \/ tenantScreen # "list"
      /\ lst'.at = "read" => lateFirst' \/ tenantScreen # "list"
  BY <1>1, <1>2, <1>5
<1>7. PagesTyped'
  <2>1. lateFirst' \in BOOLEAN /\ switch' \in Orgs \cup {Tenant!NoId}
    BY <1>1, <1>2 DEF PagesTyped
  <2>. QED  BY <1>1, <1>2, <1>6, <2>1 DEF PagesTyped, D
<1>8. LstInv'
  BY <1>1, <1>2, <1>6 DEF LstInv
<1>9. /\ mem' \in [Orgs -> Tenant!QueryOf(Tenant!Views)]
      /\ \A o \in Orgs : /\ mem'[o].stale /\ mem'[o].has = mem[o].has
                         /\ mem'[o].at = "read" => mem[o].at = "read" /\ mem'[o].answer = mem[o].answer
  <2>1. PICK read \in [Orgs -> BOOLEAN] :
            read = [o \in Orgs |-> o = shownTenant /\ tenantScreen = "members"]
    OBVIOUS
  <2>2. mem' = [o \in Orgs |-> IF read[o] THEN Tenant!Invalidated(mem[o])
                               ELSE [mem[o] EXCEPT !.stale = TRUE]]
    BY <1>2, <2>1
  <2>. QED  BY <1>1, <2>2, MembersRefreshed
<1>10. MembersTyped' /\ MembersInv'
  BY <1>1, <1>2, <1>9 DEF MembersTyped, MembersInv, MemberTold, Says, Editing
<1>. QED  BY <1>4, <1>7, <1>8, <1>10 DEF TenantInv

\* A switch whose answer is lost: the session is the tenant's, or a request is sent after it.
LEMMA SwitchLostStep == ASSUME TenantInv, Tenant!SwitchLost PROVE TenantInv'
<1>1. /\ ReqsTyped /\ PagesTyped /\ MembersTyped /\ SwitchInv /\ WorkspaceInv /\ LstInv /\ MembersInv
      /\ switch # Tenant!NoId /\ switch \in Orgs
  BY DEF TenantInv, PagesTyped, Tenant!SwitchLost
<1>2. /\ switch' = Tenant!NoId
      /\ UNCHANGED <<mine, personal, memberRole, shownTenant, tenantScreen, lst, mem, edit, adrift,
                     toldMember, misled, chosen, twoCreate, lateFirst>>
  BY DEF Tenant!SwitchLost, Tenant!tenantVars, Tenant!editVars
<1>3. ReqsTyped' /\ SwitchInv' /\ WorkspaceInv'
  <2>1. CASE active' = switch /\ overtaken' = (overtaken \/ chosen # switch) /\ UNCHANGED req
    <3>1. ReqsTyped' /\ WorkspaceInv'
      BY <1>1, <1>2, <2>1 DEF ReqsTyped, WorkspaceInv
    <3>2. SwitchInv'
      BY <1>1, <1>2, <2>1 DEF SwitchInv, Completing
    <3>. QED  BY <3>1, <3>2
  <2>2. ASSUME NEW r \in Reqs, UNCHANGED <<active, overtaken>>,
               req' = [req EXCEPT ![r] = [pc |-> "activate", tenant |-> switch, early |-> TRUE]]
        PROVE  ReqsTyped' /\ SwitchInv' /\ WorkspaceInv'
    <3>1. PICK k \in TenantReq :
              /\ k = [pc |-> "activate", tenant |-> switch, early |-> TRUE]
              /\ k.pc = "activate" /\ k.tenant = switch /\ k.early
      <4>1. PICK k : k = [pc |-> "activate", tenant |-> switch, early |-> TRUE]
        OBVIOUS
      <4>2. k \in TenantReq
        BY <1>1, <4>1 DEF TenantReq, Tenant!Steps
      <4>3. k.pc = "activate" /\ k.tenant = switch /\ k.early
        BY <4>1
      <4>. QED  BY <4>1, <4>2, <4>3
    <3>2. req'[r] = k /\ (\A q \in Reqs \ {r} : req'[q] = req[q]) /\ req' \in [Reqs -> TenantReq]
      BY <1>1, <2>2, <3>1 DEF ReqsTyped
    <3>3. ReqsTyped'
      BY <1>1, <1>2, <2>2, <3>2 DEF ReqsTyped
    <3>4. SwitchInv'
      BY <1>1, <1>2, <2>2, <3>1, <3>2 DEF SwitchInv, Completing
    <3>5. WorkspaceInv'
      BY <1>1, <1>2, <3>1, <3>2 DEF WorkspaceInv
    <3>. QED  BY <3>3, <3>4, <3>5
  <2>3. CASE UNCHANGED <<active, req, overtaken>>
    BY <1>1, <1>2, <2>3 DEF ReqsTyped, SwitchInv, WorkspaceInv, Completing
  <2>. QED  BY <2>1, <2>2, <2>3 DEF Tenant!SwitchLost
<1>4. PagesTyped' /\ MembersTyped' /\ MembersInv'
  <2>1. PagesTyped' /\ MembersTyped'
    BY <1>1, <1>2 DEF PagesTyped, MembersTyped
  <2>2. MembersInv'
    BY <1>1, <1>2 DEF MembersInv, MemberTold, Says, Editing
  <2>. QED  BY <2>1, <2>2
<1>5. LstInv'
  <2>1. overtaken => overtaken'
    BY DEF Tenant!SwitchLost
  <2>. QED  BY <1>1, <1>2, <2>1 DEF LstInv
<1>. QED  BY <1>3, <1>4, <1>5 DEF TenantInv

LEMMA TenantPagesStep ==
    ASSUME TenantInv,
           \/ Tenant!ProviderRefreshes \/ Tenant!Open \/ Tenant!ListAnswered \/ Tenant!ListSettles
           \/ \E o \in Orgs : Tenant!PickTenant(o)
    PROVE  TenantInv'
<1>. DEFINE D == Orgs \cup {Tenant!NoId}
<1>1. /\ ReqsTyped /\ PagesTyped /\ MembersTyped /\ SwitchInv /\ WorkspaceInv /\ LstInv /\ MembersInv
      /\ active \in D /\ lst \in Tenant!QueryOf(D)
  BY DEF TenantInv, PagesTyped, ReqsTyped
<1>2. UNCHANGED <<mine, personal, memberRole, active, req, tenantScreen, mem, edit, adrift, toldMember,
                  misled, chosen, overtaken, twoCreate, lateFirst>>
  BY DEF Tenant!ProviderRefreshes, Tenant!Open, Tenant!ListAnswered, Tenant!ListSettles, Tenant!PickTenant,
         Tenant!tenantVars, Tenant!editVars, Tenant!ghostVars
<1>3. /\ shownTenant' \in D /\ switch' \in D
  BY <1>1 DEF Tenant!ProviderRefreshes, Tenant!Open, Tenant!ListAnswered, Tenant!ListSettles, Tenant!PickTenant,
              PagesTyped
<1>4. lst' \in Tenant!QueryOf(D) /\ LstInv'
  <2>1. CASE Tenant!ProviderRefreshes \/ \E o \in Orgs : Tenant!PickTenant(o)
    BY <1>1, <1>2, <2>1 DEF Tenant!ProviderRefreshes, Tenant!PickTenant, LstInv
  <2>2. CASE Tenant!Open
    <3>1. tenantScreen = "list" /\ lst' = Tenant!Asked(lst)
      BY <2>2 DEF Tenant!Open
    <3>2. /\ lst' \in Tenant!QueryOf(D) /\ lst'.stale = lst.stale /\ lst'.data = lst.data /\ lst'.at = "asked"
      BY <1>1, <3>1, TenantQuery
    <3>. QED  BY <1>1, <1>2, <3>1, <3>2 DEF LstInv
  <2>3. CASE Tenant!ListAnswered
    <3>1. lst.at = "asked" /\ lst' = IF active = Tenant!NoId THEN Tenant!FetchFailed(lst)
                                     ELSE Tenant!Answered(lst, active)
      BY <2>3 DEF Tenant!ListAnswered
    <3>2. CASE active = Tenant!NoId
      <4>1. /\ lst' \in Tenant!QueryOf(D) /\ lst'.stale = lst.stale /\ lst'.data = lst.data /\ lst'.at = "idle"
        BY <1>1, <3>1, <3>2, TenantQuery
      <4>. QED  BY <1>1, <1>2, <3>1, <4>1 DEF LstInv
    <3>3. CASE active # Tenant!NoId
      <4>1. /\ lst' \in Tenant!QueryOf(D) /\ lst'.stale = lst.stale /\ lst'.data = lst.data
            /\ lst'.at = "read" /\ lst'.answer = active
        BY <1>1, <3>1, <3>3, TenantAnswered
      <4>. QED  BY <1>1, <1>2, <3>1, <4>1 DEF LstInv, SwitchInv
    <3>. QED  BY <3>2, <3>3
  <2>4. CASE Tenant!ListSettles
    <3>1. lst.at = "read" /\ lst' = Tenant!Settled(lst)
      BY <2>4 DEF Tenant!ListSettles
    <3>2. /\ lst' \in Tenant!QueryOf(D) /\ lst'.data = lst.answer /\ lst'.at = "idle"
      BY <1>1, <3>1, TenantQuery
    <3>. QED  BY <1>1, <1>2, <3>1, <3>2 DEF LstInv
  <2>. QED  BY <2>1, <2>2, <2>3, <2>4
<1>5. PagesTyped'
  BY <1>1, <1>2, <1>3, <1>4 DEF PagesTyped
<1>. QED  BY <1>1, <1>2, <1>4, <1>5
          DEF TenantInv, ReqsTyped, MembersTyped, SwitchInv, WorkspaceInv, MembersInv, MemberTold, Says,
              Editing, Completing

LEMMA MembersStep ==
    ASSUME TenantInv,
           \/ \E o \in Orgs : Tenant!MembersAsked(o) \/ Tenant!MembersAnswered(o) \/ Tenant!MembersSettle(o)
           \/ \E to \in Tenant!Roles : Tenant!Edit(to)
           \/ Tenant!EditAnswered \/ Tenant!EditSettles
    PROVE  TenantInv'
<1>. DEFINE D == Tenant!Views
<1>1. /\ ReqsTyped /\ PagesTyped /\ MembersTyped /\ SwitchInv /\ WorkspaceInv /\ LstInv /\ MembersInv
      /\ \A o \in Orgs : mem[o] \in Tenant!QueryOf(D) /\ memberRole[o] \in D
      /\ "blank" \in D
  BY DEF TenantInv, MembersTyped, Tenant!Views
<1>2. UNCHANGED <<mine, personal, active, req, shownTenant, switch, tenantScreen, lst, adrift, chosen, overtaken,
                  twoCreate, lateFirst>>
  BY DEF Tenant!MembersAsked, Tenant!MembersAnswered, Tenant!MembersSettle, Tenant!Edit, Tenant!EditAnswered,
         Tenant!EditSettles, Tenant!tenantVars, Tenant!editVars, Tenant!ghostVars
<1>3. ReqsTyped' /\ PagesTyped' /\ SwitchInv' /\ WorkspaceInv' /\ LstInv'
  BY <1>1, <1>2 DEF ReqsTyped, PagesTyped, SwitchInv, WorkspaceInv, LstInv, Completing
<1>. HIDE DEF D
<1>4. ASSUME NEW o \in Orgs, Tenant!MembersAsked(o) \/ Tenant!MembersAnswered(o) \/ Tenant!MembersSettle(o)
      PROVE  MembersTyped' /\ MembersInv'
  <2>1. UNCHANGED <<memberRole, edit, toldMember, misled>>
    BY <1>4 DEF Tenant!MembersAsked, Tenant!MembersAnswered, Tenant!MembersSettle, Tenant!tenantVars,
                Tenant!editVars
  <2>2. PICK k \in Tenant!QueryOf(D) :
            /\ mem' = [mem EXCEPT ![o] = k] /\ (mem[o].has => k.has)
            /\ ~k.stale => (~mem[o].stale /\ k.data = mem[o].data) \/ (mem[o].at = "read" /\ k.data = mem[o].answer)
            /\ k.at = "read" => Says(k.answer, o)
    <3>1. CASE Tenant!MembersAsked(o)
      <4>1. mem' = [mem EXCEPT ![o] = Tenant!Asked(mem[o])]
        BY <3>1 DEF Tenant!MembersAsked
      <4>2. LET s == Tenant!Asked(mem[o]) IN
            s \in Tenant!QueryOf(D) /\ s.has = mem[o].has /\ s.stale = mem[o].stale
            /\ s.data = mem[o].data /\ s.at = "asked"
        BY <1>1, TenantQuery
      <4>. QED  BY <4>1, <4>2
    <3>2. CASE Tenant!MembersAnswered(o)
      <4>1. PICK v \in {memberRole[o], "blank"} : mem' = [mem EXCEPT ![o] = Tenant!Answered(mem[o], v)]
        BY <3>2 DEF Tenant!MembersAnswered
      <4>2. LET s == Tenant!Answered(mem[o], v) IN
            s \in Tenant!QueryOf(D) /\ s.has = mem[o].has /\ s.stale = mem[o].stale
            /\ s.data = mem[o].data /\ s.answer = v
        BY <1>1, TenantAnswered
      <4>. QED  BY <4>1, <4>2 DEF Says
    <3>3. CASE Tenant!MembersSettle(o)
      <4>1. mem' = [mem EXCEPT ![o] = Tenant!Settled(mem[o])] /\ mem[o].at = "read"
        BY <3>3 DEF Tenant!MembersSettle
      <4>2. LET s == Tenant!Settled(mem[o]) IN
            s \in Tenant!QueryOf(D) /\ s.has /\ s.data = mem[o].answer /\ s.at = "idle"
        BY <1>1, TenantQuery
      <4>. QED  BY <4>1, <4>2
    <3>. QED  BY <1>4, <3>1, <3>2, <3>3
  <2>3. mem'[o] = k /\ (\A x \in Orgs \ {o} : mem'[x] = mem[x]) /\ mem' \in [Orgs -> Tenant!QueryOf(D)]
    BY <1>1, <2>2 DEF MembersTyped, D
  <2>4. MembersTyped'
    BY <1>1, <1>2, <2>1, <2>3 DEF MembersTyped, D
  <2>5. MembersInv'
    <3>1. /\ edit'.at # "idle" => edit'.org \in Orgs /\ mem'[edit'.org].has
          /\ edit'.at = "done" => memberRole'[edit'.org] = edit'.to
          /\ adrift'.at # "idle" => adrift'.org \in Orgs
      BY <1>1, <1>2, <2>1, <2>2, <2>3 DEF MembersInv
    <3>2. ASSUME NEW x \in Orgs PROVE MemberTold(x)'
      BY <1>1, <2>1, <2>2, <2>3 DEF MembersInv, MemberTold, Says, Editing
    <3>. QED  BY <3>1, <3>2 DEF MembersInv
  <2>. QED  BY <2>4, <2>5
<1>5. ASSUME NEW to \in Tenant!Roles, Tenant!Edit(to)
      PROVE  MembersTyped' /\ MembersInv'
  <2>1. /\ edit.at = "idle" /\ shownTenant # Tenant!NoId /\ mem[shownTenant].has
        /\ edit' = [at |-> "asked", org |-> shownTenant, to |-> to]
        /\ UNCHANGED <<memberRole, mem, toldMember, misled>>
    BY <1>5 DEF Tenant!Edit, Tenant!tenantVars
  <2>2. shownTenant \in Orgs /\ edit' \in MemberEdit /\ edit'.at = "asked" /\ edit'.org = shownTenant
    BY <1>1, <2>1 DEF PagesTyped, MemberEdit
  <2>. QED  BY <1>1, <1>2, <2>1, <2>2 DEF MembersTyped, MembersInv, MemberTold, Says, Editing
<1>6. CASE Tenant!EditAnswered
  <2>1. edit.at = "asked" /\ UNCHANGED <<mem, toldMember, misled>> /\ edit \in MemberEdit /\ edit.org \in Orgs
        /\ edit.to \in Tenant!Roles /\ mem[edit.org].has
    BY <1>1, <1>6 DEF Tenant!EditAnswered, MembersInv, MembersTyped, MemberEdit
  <2>2. CASE edit' = [edit EXCEPT !.at = "done"] /\ memberRole' = [memberRole EXCEPT ![edit.org] = edit.to]
    <3>1. edit' \in MemberEdit /\ edit'.at = "done" /\ edit'.org = edit.org /\ edit'.to = edit.to
      BY <2>1, <2>2 DEF MemberEdit
    <3>2. /\ memberRole' \in [Orgs -> Tenant!Roles] /\ memberRole'[edit.org] = edit.to
          /\ \A o \in Orgs \ {edit.org} : memberRole'[o] = memberRole[o]
      BY <1>1, <2>1, <2>2 DEF MembersTyped
    <3>3. MembersTyped'
      BY <1>1, <1>2, <2>1, <3>1, <3>2 DEF MembersTyped
    <3>4. ASSUME NEW o \in Orgs PROVE MemberTold(o)'
      <4>1. CASE o = edit.org
        BY <3>1, <4>1 DEF MemberTold, Editing
      <4>2. CASE o # edit.org
        BY <1>1, <2>1, <3>2, <4>2 DEF MembersInv, MemberTold, Says, Editing
      <4>. QED  BY <4>1, <4>2
    <3>. QED  BY <1>1, <1>2, <1>3, <2>1, <3>1, <3>2, <3>3, <3>4 DEF MembersInv, TenantInv
  <2>3. CASE edit' = [edit EXCEPT !.at = "undone"] /\ UNCHANGED memberRole
    <3>1. edit' \in MemberEdit /\ edit'.at = "undone" /\ edit'.org = edit.org /\ edit'.to = edit.to
      BY <2>1, <2>3 DEF MemberEdit
    <3>2. MembersTyped'
      BY <1>1, <1>2, <2>1, <2>3, <3>1 DEF MembersTyped
    <3>3. \A o \in Orgs : ~Editing(o)
      BY <2>1 DEF Editing
    <3>4. MembersInv'
      BY <1>1, <1>2, <2>1, <2>3, <3>1, <3>3 DEF MembersInv, MemberTold, Says
    <3>. QED  BY <1>3, <3>2, <3>4 DEF TenantInv
  <2>. QED  BY <1>6, <2>2, <2>3 DEF Tenant!EditAnswered
<1>7. CASE Tenant!EditSettles
  <2>1. /\ edit.at \in {"done", "undone"} /\ edit' = Tenant!NoEdit /\ UNCHANGED memberRole
        /\ edit \in MemberEdit /\ edit.org \in Orgs /\ edit.to \in Tenant!Roles
    BY <1>1, <1>7 DEF Tenant!EditSettles, Tenant!tenantVars, MembersInv, MembersTyped, MemberEdit
  <2>2. edit' \in MemberEdit /\ edit'.at = "idle"
    BY <2>1 DEF MemberEdit, Tenant!NoEdit, Tenant!Roles
  <2>3. /\ mem' \in [Orgs -> Tenant!QueryOf(Tenant!Views)]
        /\ \A o \in Orgs : /\ mem'[o].stale
                           /\ mem'[o].at = "read" => /\ mem[o].at = "read" /\ mem'[o].answer = mem[o].answer
                                                     /\ ~(o = shownTenant /\ mem[o].has)
    <3>1. PICK read \in [Orgs -> BOOLEAN] : read = [o \in Orgs |-> o = shownTenant]
      OBVIOUS
    <3>2. mem' = [o \in Orgs |-> IF read[o] THEN Tenant!Invalidated(mem[o])
                                 ELSE [mem[o] EXCEPT !.stale = TRUE]]
      BY <1>7, <3>1 DEF Tenant!EditSettles
    <3>. QED  BY <1>1, <3>1, <3>2, MembersRefreshed
  <2>4. /\ toldMember' \in [Orgs -> Tenant!Roles \cup {"unknown", "unheard", "late"}]
        /\ toldMember'[edit.org] \in {"late", edit.to}
        /\ mem[edit.org].at = "read" /\ edit.org # shownTenant => toldMember'[edit.org] = "late"
        /\ \A o \in Orgs \ {edit.org} : toldMember'[o] = toldMember[o]
    BY <1>1, <1>7, <2>1 DEF Tenant!EditSettles, Tenant!Told, MembersTyped
  <2>5. /\ misled' \subseteq Orgs /\ \A o \in Orgs \ {edit.org} : o \in misled' <=> o \in misled
        /\ edit.at = "undone" => edit.org \in misled'
    BY <1>1, <1>7, <2>1 DEF Tenant!EditSettles, MembersTyped
  <2>6. "late" \notin Tenant!Roles /\ (edit.at = "done" => memberRole[edit.org] = edit.to)
        /\ mem[edit.org].has
    BY <1>1, <2>1 DEF Tenant!Roles, MembersInv
  <2>7. MembersTyped'
    BY <1>1, <1>2, <2>1, <2>2, <2>3, <2>4, <2>5 DEF MembersTyped
  <2>8. ASSUME NEW o \in Orgs PROVE MemberTold(o)'
    <3>1. CASE o = edit.org
      BY <2>1, <2>3, <2>4, <2>5, <2>6, <3>1 DEF MemberTold
    <3>2. CASE o # edit.org
      BY <1>1, <2>1, <2>3, <2>4, <2>5, <3>2 DEF MembersInv, MemberTold, Says, Editing
    <3>. QED  BY <3>1, <3>2
  <2>. QED  BY <1>1, <1>2, <1>3, <2>2, <2>7, <2>8 DEF MembersInv, TenantInv
<1>. QED  BY <1>3, <1>4, <1>5, <1>6, <1>7 DEF TenantInv

\* The toast of an error takes back what the page had said of the member.
LEMMA MembersUnheard ==
    ASSUME MembersTyped, NEW o \in Orgs, Tenant!Told(o, "unheard")
    PROVE  /\ toldMember' \in [Orgs -> Tenant!Roles \cup {"unknown", "unheard", "late"}]
           /\ toldMember'[o] \notin Tenant!Roles
           /\ \A x \in Orgs \ {o} : toldMember'[x] = toldMember[x]
<1>1. {"unheard", "late"} \cap Tenant!Roles = {}
  BY DEF Tenant!Roles
<1>. QED  BY <1>1 DEF MembersTyped, Tenant!Told

LEMMA EditLostStep == ASSUME TenantInv, Tenant!EditLost PROVE TenantInv'
<1>1. /\ ReqsTyped /\ PagesTyped /\ MembersTyped /\ SwitchInv /\ WorkspaceInv /\ LstInv /\ MembersInv
      /\ edit.at # "idle" /\ edit.org \in Orgs /\ edit' = Tenant!NoEdit /\ Tenant!Told(edit.org, "unheard")
      /\ adrift' = adrift \/ (edit.at = "asked" /\ adrift' = edit)
  BY DEF TenantInv, MembersInv, Tenant!EditLost
<1>2. UNCHANGED <<mine, personal, memberRole, active, req, shownTenant, switch, tenantScreen, lst, mem, misled,
                  chosen, overtaken, twoCreate, lateFirst>>
  BY DEF Tenant!EditLost, Tenant!tenantVars, Tenant!ghostVars
<1>3. edit' \in MemberEdit /\ edit'.at = "idle"
  BY <1>1 DEF MemberEdit, Tenant!NoEdit, Tenant!Roles
<1>4. adrift' \in MemberEdit /\ (adrift'.at # "idle" => adrift'.org \in Orgs)
  BY <1>1 DEF MembersTyped, MembersInv
<1>5. MembersTyped'
  BY <1>1, <1>2, <1>3, <1>4, MembersUnheard DEF MembersTyped
<1>6. ASSUME NEW o \in Orgs PROVE MemberTold(o)'
  <2>1. CASE o = edit.org
    BY <1>1, <2>1, MembersUnheard DEF MemberTold
  <2>2. CASE o # edit.org
    BY <1>1, <1>2, <2>2, MembersUnheard DEF MembersInv, MemberTold, Says, Editing
  <2>. QED  BY <2>1, <2>2
<1>7. ReqsTyped' /\ PagesTyped' /\ SwitchInv' /\ WorkspaceInv' /\ LstInv'
  BY <1>1, <1>2 DEF ReqsTyped, PagesTyped, SwitchInv, WorkspaceInv, LstInv, Completing
<1>. QED  BY <1>3, <1>4, <1>5, <1>6, <1>7 DEF MembersInv, TenantInv

LEMMA EditArrivesStep == ASSUME TenantInv, Tenant!EditArrives PROVE TenantInv'
<1>1. /\ ReqsTyped /\ PagesTyped /\ MembersTyped /\ SwitchInv /\ WorkspaceInv /\ LstInv /\ MembersInv
      /\ adrift.at = "asked" /\ adrift.org \in Orgs /\ adrift' = Tenant!NoEdit
      /\ Tenant!Told(adrift.org, "unheard")
      /\ memberRole' = [memberRole EXCEPT ![adrift.org] = adrift.to]
      /\ edit' = IF edit.at = "done" /\ edit.org = adrift.org THEN [edit EXCEPT !.at = "undone"] ELSE edit
  BY DEF TenantInv, MembersInv, Tenant!EditArrives
<1>2. UNCHANGED <<mine, personal, active, req, shownTenant, switch, tenantScreen, lst, mem, misled,
                  chosen, overtaken, twoCreate, lateFirst>>
  BY DEF Tenant!EditArrives, Tenant!ghostVars
<1>3. adrift' \in MemberEdit /\ adrift'.at = "idle" /\ adrift.to \in Tenant!Roles /\ edit \in MemberEdit
  BY <1>1 DEF MembersTyped, MemberEdit, Tenant!NoEdit, Tenant!Roles
<1>4. /\ edit' \in MemberEdit /\ edit'.org = edit.org /\ edit'.to = edit.to
      /\ edit'.at = "idle" <=> edit.at = "idle"
      /\ edit'.at = "done" <=> edit.at = "done" /\ edit.org # adrift.org
  BY <1>1, <1>3 DEF MemberEdit
<1>5. /\ memberRole' \in [Orgs -> Tenant!Roles]
      /\ \A o \in Orgs \ {adrift.org} : memberRole'[o] = memberRole[o]
  BY <1>1, <1>3 DEF MembersTyped
<1>6. MembersTyped'
  BY <1>1, <1>2, <1>3, <1>4, <1>5, MembersUnheard DEF MembersTyped
<1>7. ASSUME NEW o \in Orgs PROVE MemberTold(o)'
  <2>1. CASE o = adrift.org
    BY <1>1, <2>1, MembersUnheard DEF MemberTold
  <2>2. CASE o # adrift.org
    BY <1>1, <1>2, <1>4, <1>5, <2>2, MembersUnheard DEF MembersInv, MemberTold, Says, Editing
  <2>. QED  BY <2>1, <2>2
<1>8. /\ edit'.at # "idle" => edit'.org \in Orgs /\ mem'[edit'.org].has
      /\ edit'.at = "done" => memberRole'[edit'.org] = edit'.to
  BY <1>1, <1>2, <1>4, <1>5 DEF MembersInv
<1>9. ReqsTyped' /\ PagesTyped' /\ SwitchInv' /\ WorkspaceInv' /\ LstInv'
  BY <1>1, <1>2 DEF ReqsTyped, PagesTyped, SwitchInv, WorkspaceInv, LstInv, Completing
<1>. QED  BY <1>3, <1>6, <1>7, <1>8, <1>9 DEF MembersInv, TenantInv

LEMMA TenantInitial == ASSUME Tenant!Init PROVE TenantInv
<1>1. {1, 2} \subseteq Orgs
  BY PagesAssumption DEF Tenant!NamesAssumption
<1>2. /\ mine \in {{}, {1}, {1, 2}} /\ personal = mine \cap {1} /\ active = Tenant!NoId
      /\ memberRole \in [Orgs -> {"member"}] /\ req = [r \in Reqs |-> Tenant!IdleReq]
      /\ shownTenant = Tenant!NoId /\ switch = Tenant!NoId /\ tenantScreen \in Tenant!Screens
      /\ lst = Tenant!NoQuery(Tenant!NoId) /\ mem = [o \in Orgs |-> Tenant!NoQuery("none")]
      /\ edit = Tenant!NoEdit /\ adrift = Tenant!NoEdit /\ misled = {}
      /\ chosen = Tenant!NoId /\ overtaken = FALSE /\ twoCreate = FALSE /\ lateFirst = FALSE
      /\ toldMember = [o \in Orgs |-> "unknown"]
  BY DEF Tenant!Init
<1>3. Tenant!IdleReq \in TenantReq /\ Tenant!IdleReq.pc = "idle"
  BY DEF TenantReq, Tenant!IdleReq, Tenant!Steps
<1>4. /\ lst \in Tenant!QueryOf(Orgs \cup {Tenant!NoId}) /\ lst.at = "idle" /\ lst.stale
      /\ Tenant!NoQuery("none") \in Tenant!QueryOf(Tenant!Views)
  BY <1>2 DEF Tenant!NoQuery, Tenant!QueryOf, Tenant!Views, Tenant!Roles
<1>5. ReqsTyped /\ SwitchInv /\ WorkspaceInv
  BY <1>1, <1>2, <1>3 DEF ReqsTyped, SwitchInv, WorkspaceInv
<1>6. PagesTyped /\ LstInv
  BY <1>2, <1>4 DEF PagesTyped, LstInv
<1>7. MembersTyped /\ MembersInv
  <2>1. "unknown" \notin Tenant!Roles /\ {"none", "member"} \subseteq Tenant!Roles
    BY DEF Tenant!Roles
  <2>. QED  BY <1>2, <1>4, <2>1 DEF MembersTyped, MembersInv, MemberTold, MemberEdit, Tenant!NoEdit
<1>. QED  BY <1>5, <1>6, <1>7 DEF TenantInv

LEMMA TenantStep == ASSUME TenantInv, [Tenant!Next]_(Tenant!vars) PROVE TenantInv'
<1>1. CASE UNCHANGED Tenant!vars
  BY <1>1 DEF Tenant!vars, Tenant!tenantVars, Tenant!clientVars, Tenant!editVars, Tenant!ghostVars, TenantInv,
              ReqsTyped, PagesTyped, MembersTyped, SwitchInv, WorkspaceInv, LstInv, MembersInv, MemberTold,
              Says, Editing, Completing
<1>2. CASE Tenant!Next
  BY <1>2, RequestStep, SwitchStep, SwitchLostStep, TenantPagesStep, MembersStep, EditLostStep,
         EditArrivesStep DEF Tenant!Next, RequestActions
<1>. QED  BY <1>1, <1>2

LEMMA SessionImplied == ASSUME TenantInv, OperatorInv PROVE SessionHolds
<1>1. /\ ReqsTyped /\ PagesTyped /\ MembersTyped /\ SwitchInv /\ WorkspaceInv /\ LstInv /\ MembersInv
  BY DEF TenantInv
<1>2. Tenant!TypeOK
  BY <1>1 DEF Tenant!TypeOK, ReqsTyped, PagesTyped, MembersTyped, TenantReq, MemberEdit
<1>3. Tenant!SwitchHolds /\ Tenant!ListOfChosen
  BY <1>1 DEF Tenant!SwitchHolds, Tenant!ListOfChosen, SwitchInv, LstInv, Tenant!Fresh
<1>4. Tenant!MembersAsTold
  BY <1>1 DEF Tenant!MembersAsTold, MembersInv, MemberTold, Says, Editing, Tenant!Fresh
<1>5. Tenant!OneWorkspace
  <2>1. CASE twoCreate
    BY <2>1 DEF Tenant!OneWorkspace
  <2>2. CASE ~twoCreate
    <3>1. Cardinality(personal) <= 1
      <4>1. CASE personal = {}
        BY <4>1, FS_EmptySet
      <4>2. ASSUME NEW x \in personal PROVE Cardinality(personal) <= 1
        <5>1. personal = {x}
          BY <1>1, <2>2 DEF WorkspaceInv
        <5>. QED  BY <5>1, FS_Singleton
      <4>. QED  BY <4>1, <4>2
    <3>. QED  BY <3>1 DEF Tenant!OneWorkspace, Tenant!Cardinality, Cardinality, Tenant!IsFiniteSet
  <2>. QED  BY <2>1, <2>2
<1>. QED  BY <1>2, <1>3, <1>4, <1>5 DEF SessionHolds, OperatorInv

\* For any tenants, requests and accounts: the session is of the tenant chosen last unless an
\* older request (tenant.ts) or a switch that went unheard has set another, the user has one
\* workspace unless two requests find none at once, the lists are of that tenant, the members
\* page (members-list.tsx) shows the role a member has unless an edit ended in an error, which is
\* the one it said it has set unless that was refused, and an impersonation ends in the
\* operator's own session.
THEOREM SessionAlwaysHolds == Tenant!Spec /\ Operator!Spec => []SessionHolds
<1>1. Tenant!Init => TenantInv
  BY TenantInitial
<1>2. TenantInv /\ [Tenant!Next]_(Tenant!vars) => TenantInv'
  BY TenantStep
<1>3. Operator!Init => OperatorInv
  BY PagesAssumption, OperatorInitial
<1>4. OperatorInv /\ [Operator!Next]_(Operator!vars) => OperatorInv'
  BY PagesAssumption, OperatorStep
<1>5. TenantInv /\ OperatorInv => SessionHolds
  BY SessionImplied
<1>. QED  BY <1>1, <1>2, <1>3, <1>4, <1>5, PTL DEF Tenant!Spec, Operator!Spec

-----------------------------------------------------------------------------
\* The switches' query at a question, an answer, a read and an invalidation.
LEMMA PrefsQuery ==
    ASSUME NEW D, NEW q \in Prefs!QueryOf(D)
    PROVE  /\ q.data \in D /\ q.answer \in D
           /\ Prefs!Asked(q) \in Prefs!QueryOf(D) /\ Prefs!Asked(q).has = q.has
           /\ Prefs!Asked(q).stale = q.stale /\ Prefs!Asked(q).data = q.data
           /\ Prefs!Asked(q).at = "asked"
           /\ Prefs!Settled(q) \in Prefs!QueryOf(D) /\ Prefs!Settled(q).has
           /\ Prefs!Settled(q).data = q.answer /\ Prefs!Settled(q).at = "idle"
           /\ Prefs!FetchFailed(q) \in Prefs!QueryOf(D) /\ Prefs!FetchFailed(q).has = q.has
           /\ Prefs!FetchFailed(q).stale = q.stale /\ Prefs!FetchFailed(q).data = q.data
           /\ Prefs!FetchFailed(q).at = "idle"
<1>1. q.data \in D /\ q.answer \in D
  BY DEF Prefs!QueryOf
<1>2. /\ Prefs!Asked(q) \in Prefs!QueryOf(D) /\ Prefs!Asked(q).has = q.has
      /\ Prefs!Asked(q).stale = q.stale /\ Prefs!Asked(q).data = q.data
      /\ Prefs!Asked(q).at = "asked"
  BY <1>1 DEF Prefs!QueryOf, Prefs!Asked
<1>3. /\ Prefs!Settled(q) \in Prefs!QueryOf(D) /\ Prefs!Settled(q).has
      /\ Prefs!Settled(q).data = q.answer /\ Prefs!Settled(q).at = "idle"
  BY <1>1 DEF Prefs!QueryOf, Prefs!Settled
<1>4. /\ Prefs!FetchFailed(q) \in Prefs!QueryOf(D) /\ Prefs!FetchFailed(q).has = q.has
      /\ Prefs!FetchFailed(q).stale = q.stale /\ Prefs!FetchFailed(q).data = q.data
      /\ Prefs!FetchFailed(q).at = "idle"
  BY <1>1 DEF Prefs!QueryOf, Prefs!FetchFailed
<1>. QED  BY <1>1, <1>2, <1>3, <1>4

LEMMA PrefsAnswered ==
    ASSUME NEW D, NEW q \in Prefs!QueryOf(D), NEW v \in D, NEW s, s = Prefs!Answered(q, v)
    PROVE  /\ s \in Prefs!QueryOf(D) /\ s.has = q.has /\ s.stale = q.stale /\ s.data = q.data
           /\ s.answer = v /\ s.at = "read"
BY DEF Prefs!QueryOf, Prefs!Answered

LEMMA PrefsStale ==
    ASSUME NEW D, NEW q \in Prefs!QueryOf(D), NEW s, s = [q EXCEPT !.stale = TRUE]
    PROVE  s \in Prefs!QueryOf(D) /\ s.stale /\ s.has = q.has /\ s.at = q.at /\ s.answer = q.answer
BY DEF Prefs!QueryOf

LEMMA PrefsInvalidated ==
    ASSUME NEW D, NEW q \in Prefs!QueryOf(D)
    PROVE  LET s == Prefs!Invalidated(q) IN
           /\ s \in Prefs!QueryOf(D) /\ s.has = q.has /\ s.stale
           /\ q.has \/ q.at = "idle" => s.at = "asked"
           /\ s.at = "read" => ~q.has /\ q.at = "read" /\ s.answer = q.answer
<1>1. CASE q.has \/ q.at = "idle"
  <2>1. Prefs!Invalidated(q) = [Prefs!Asked(q) EXCEPT !.stale = TRUE]
    BY <1>1 DEF Prefs!Invalidated
  <2>2. /\ Prefs!Asked(q) \in Prefs!QueryOf(D) /\ Prefs!Asked(q).has = q.has
        /\ Prefs!Asked(q).at = "asked"
    BY PrefsQuery
  <2>. QED  BY <2>1, <2>2, PrefsStale
<1>2. CASE ~(q.has \/ q.at = "idle")
  <2>1. Prefs!Invalidated(q) = [q EXCEPT !.stale = TRUE]
    BY <1>2 DEF Prefs!Invalidated
  <2>. QED  BY <1>2, <2>1, PrefsStale
<1>. QED  BY <1>1, <1>2

(***************************************************************************)
(* The notification switches.                                              *)
(***************************************************************************)
\* A switch whose save nothing overlaps is as the user has set it and no fetch is under way;
\* without saves neither what the page shows for fresh nor what it will show differs from what is
\* stored, but for the categories that a save given up has set since it was read.
SameBut(set, shown) == \A c \in Categories \ set : (c \in shown) = (c \in off)
SwitchesInv ==
    /\ \A s \in Prefs!UnderWay \ crossed :
          (save[s].category \in switches.data) = ~save[s].on /\ switches.at = "idle"
    /\ \A s \in Saves : save[s].at # "idle" => save[s].category \in Categories
    /\ Prefs!UnderWay # {} => switches.has
    /\ Prefs!UnderWay = {} => /\ switches.at = "read" => SameBut(late.answer, switches.answer)
                              /\ ~switches.stale => SameBut(late.data, switches.data)

SaveType == [at : {"idle", "sent", "done", "adrift"}, category : Categories \cup {Prefs!NoCategory},
             on : BOOLEAN, prev : SUBSET Categories]

LEMMA SwitchesInitial == ASSUME Prefs!Init PROVE Prefs!TypeOK /\ SwitchesInv
<1>1. Prefs!NoQuery({}) \in Prefs!QueryOf(SUBSET Categories) /\ Prefs!NoQuery({}).stale
  BY DEF Prefs!NoQuery, Prefs!QueryOf
<1>2. /\ switches \in Prefs!QueryOf(SUBSET Categories)
      /\ switches.at = "asked" /\ switches.stale
  BY <1>1, PrefsQuery DEF Prefs!Init
<1>3. /\ Prefs!UnderWay = {} /\ save \in [Saves -> SaveType] /\ \A s \in Saves : save[s].at = "idle"
      /\ late \in [data : SUBSET Categories, answer : SUBSET Categories]
  BY DEF Prefs!Init, Prefs!UnderWay, Prefs!NoSave, SaveType
<1>. QED  BY <1>2, <1>3 DEF Prefs!Init, Prefs!TypeOK, SwitchesInv, SaveType

\* A save has ended for the page, whose fetch begins again; it may have been given up.
LEMMA SaveEnds ==
    ASSUME Prefs!TypeOK, SwitchesInv, NEW s \in Prefs!UnderWay,
           NEW q \in Prefs!QueryOf(SUBSET Categories), q.has = switches.has,
           switches' = Prefs!Invalidated(q),
           \/ save' = [save EXCEPT ![s] = Prefs!NoSave]
           \/ save' = [save EXCEPT ![s].at = "adrift", ![s].prev = {}],
           crossed' = (crossed \ {s}) \cup (Prefs!UnderWay \ {s}), UNCHANGED <<off, late>>
    PROVE  Prefs!TypeOK' /\ SwitchesInv'
<1>1. switches.has /\ s \in Saves /\ save[s].at # "idle"
  BY DEF SwitchesInv, Prefs!UnderWay
<1>2. /\ switches' \in Prefs!QueryOf(SUBSET Categories) /\ switches'.has /\ switches'.stale
      /\ switches'.at = "asked"
  BY <1>1, PrefsInvalidated
<1>3. PICK k \in SaveType :
          /\ save' = [save EXCEPT ![s] = k] /\ k.at \in {"idle", "adrift"}
          /\ k.at # "idle" => k.category = save[s].category
  <2>1. CASE save' = [save EXCEPT ![s] = Prefs!NoSave]
    <3>1. PICK k : k = Prefs!NoSave
      OBVIOUS
    <3>2. k \in SaveType /\ k.at = "idle"
      BY <3>1 DEF Prefs!NoSave, SaveType
    <3>. QED  BY <2>1, <3>1, <3>2
  <2>2. CASE save' = [save EXCEPT ![s].at = "adrift", ![s].prev = {}]
    <3>1. PICK k : k = [save[s] EXCEPT !.at = "adrift", !.prev = {}]
      OBVIOUS
    <3>2. k \in SaveType /\ k.at = "adrift" /\ k.category = save[s].category
      BY <1>1, <3>1 DEF Prefs!TypeOK, SaveType
    <3>3. save' = [save EXCEPT ![s] = k]
      BY <1>1, <2>2, <3>1 DEF Prefs!TypeOK
    <3>. QED  BY <3>2, <3>3
  <2>. QED  BY <2>1, <2>2
<1>4. /\ save' \in [Saves -> SaveType] /\ save'[s] = k
      /\ \A r \in Saves \ {s} : save'[r] = save[r]
  BY <1>1, <1>3 DEF Prefs!TypeOK, SaveType
<1>5. Prefs!UnderWay' = Prefs!UnderWay \ {s}
  BY <1>3, <1>4 DEF Prefs!UnderWay
<1>6. Prefs!UnderWay' \ crossed' = {} /\ crossed' \subseteq Saves
  BY <1>5 DEF Prefs!TypeOK, Prefs!UnderWay
<1>7. \A r \in Saves : save'[r].at # "idle" => save'[r].category \in Categories
  BY <1>1, <1>3, <1>4 DEF SwitchesInv
<1>8. Prefs!TypeOK'
  BY <1>2, <1>4, <1>6 DEF Prefs!TypeOK, SaveType
<1>. QED  BY <1>2, <1>6, <1>7, <1>8 DEF SwitchesInv, SameBut

\* A save given up arrives: its category is no longer known to be as the page shows it.
LEMMA SaveArrivesStep ==
    ASSUME Prefs!TypeOK, SwitchesInv, NEW s \in Saves, Prefs!SaveArrives(s)
    PROVE  Prefs!TypeOK' /\ SwitchesInv'
<1>1. /\ save[s].at = "adrift" /\ off' = Prefs!Put(off, save[s].category, save[s].on)
      /\ save' = [save EXCEPT ![s] = Prefs!NoSave] /\ UNCHANGED <<switches, crossed>>
      /\ late' = [data |-> late.data \cup {save[s].category},
                  answer |-> late.answer \cup {save[s].category}]
      /\ save[s].category \in Categories
  BY DEF Prefs!SaveArrives, SwitchesInv
<1>2. /\ save' \in [Saves -> SaveType] /\ save'[s].at = "idle"
      /\ \A r \in Saves \ {s} : save'[r] = save[r]
  BY <1>1 DEF Prefs!TypeOK, SaveType, Prefs!NoSave
<1>3. Prefs!UnderWay' = Prefs!UnderWay /\ s \notin Prefs!UnderWay
  BY <1>1, <1>2 DEF Prefs!UnderWay
<1>4. /\ off' \subseteq Categories
      /\ \A c \in Categories \ {save[s].category} : (c \in off') = (c \in off)
  BY <1>1 DEF Prefs!TypeOK, Prefs!Put
<1>5. /\ late' \in [data : SUBSET Categories, answer : SUBSET Categories]
      /\ late'.data = late.data \cup {save[s].category}
      /\ late'.answer = late.answer \cup {save[s].category}
  BY <1>1 DEF Prefs!TypeOK
<1>6. Prefs!TypeOK'
  BY <1>1, <1>2, <1>4, <1>5 DEF Prefs!TypeOK, SaveType
<1>7. \A r \in Prefs!UnderWay' \ crossed' : save'[r] = save[r] /\ r \in Prefs!UnderWay \ crossed
  BY <1>1, <1>2, <1>3 DEF Prefs!UnderWay
<1>. QED  BY <1>1, <1>2, <1>3, <1>4, <1>5, <1>6, <1>7 DEF SwitchesInv, SameBut

LEMMA SwitchesStep ==
    ASSUME Prefs!TypeOK, SwitchesInv, [Prefs!Next]_(Prefs!vars)
    PROVE  Prefs!TypeOK' /\ SwitchesInv'
<1>. USE DEF SaveType, SameBut
<1>1. CASE Prefs!Refetch
  <2>1. /\ switches' \in Prefs!QueryOf(SUBSET Categories) /\ switches'.has = switches.has
        /\ switches'.stale = switches.stale /\ switches'.data = switches.data
        /\ switches'.at = "asked"
    BY <1>1, PrefsQuery DEF Prefs!Refetch, Prefs!TypeOK
  <2>2. Prefs!UnderWay' = Prefs!UnderWay /\ Prefs!UnderWay' \ crossed' = {} /\ crossed' \subseteq Saves
    BY <1>1 DEF Prefs!Refetch, Prefs!UnderWay, Prefs!TypeOK
  <2>. QED  BY <1>1, <2>1, <2>2 DEF Prefs!Refetch, Prefs!TypeOK, SwitchesInv
<1>2. CASE Prefs!PageAnswered
  <2>1. /\ switches' \in Prefs!QueryOf(SUBSET Categories) /\ switches'.has = switches.has
        /\ switches'.stale = switches.stale /\ switches'.data = switches.data
        /\ switches'.answer = off /\ switches'.at = "read"
    BY <1>2, PrefsAnswered DEF Prefs!PageAnswered, Prefs!TypeOK
  <2>2. Prefs!UnderWay' = Prefs!UnderWay /\ Prefs!UnderWay \ crossed = {}
    BY <1>2 DEF Prefs!PageAnswered, Prefs!UnderWay, SwitchesInv
  <2>. QED  BY <1>2, <2>1, <2>2 DEF Prefs!PageAnswered, Prefs!TypeOK, SwitchesInv
<1>3. CASE Prefs!PageSettles
  <2>1. /\ switches' \in Prefs!QueryOf(SUBSET Categories) /\ switches'.has
        /\ switches'.data = switches.answer /\ switches'.at = "idle"
    BY <1>3, PrefsQuery DEF Prefs!PageSettles, Prefs!TypeOK
  <2>2. Prefs!UnderWay' = Prefs!UnderWay /\ Prefs!UnderWay \ crossed = {}
    BY <1>3 DEF Prefs!PageSettles, Prefs!UnderWay, SwitchesInv
  <2>. QED  BY <1>3, <2>1, <2>2 DEF Prefs!PageSettles, Prefs!TypeOK, SwitchesInv
<1>4. CASE Prefs!PageFails
  <2>1. /\ switches' \in Prefs!QueryOf(SUBSET Categories) /\ switches'.has = switches.has
        /\ switches'.stale = switches.stale /\ switches'.data = switches.data
        /\ switches'.at = "idle"
    BY <1>4, PrefsQuery DEF Prefs!PageFails, Prefs!TypeOK
  <2>2. Prefs!UnderWay' = Prefs!UnderWay /\ Prefs!UnderWay \ crossed = {}
    BY <1>4 DEF Prefs!PageFails, Prefs!UnderWay, SwitchesInv
  <2>. QED  BY <1>4, <2>1, <2>2 DEF Prefs!PageFails, Prefs!TypeOK, SwitchesInv
<1>5. ASSUME NEW s \in Saves, NEW c \in Categories, NEW on \in BOOLEAN, Prefs!SetEmail(s, c, on)
      PROVE  Prefs!TypeOK' /\ SwitchesInv'
  <2>1. PICK d \in SUBSET Categories : d = Prefs!Put(switches.data, c, on) /\ (c \in d) = ~on
    <3>1. switches.data \in SUBSET Categories
      BY PrefsQuery DEF Prefs!TypeOK
    <3>2. /\ Prefs!Put(switches.data, c, on) \in SUBSET Categories
          /\ (c \in Prefs!Put(switches.data, c, on)) = ~on
      BY <3>1 DEF Prefs!Put
    <3>. QED  BY <3>2
  <2>2. PICK q \in Prefs!QueryOf(SUBSET Categories) :
            q = Prefs!FetchFailed(switches) /\ q.has = switches.has /\ q.at = "idle"
    BY PrefsQuery DEF Prefs!TypeOK
  <2>3. switches' = [q EXCEPT !.stale = FALSE, !.data = d, !.answer = d]
    BY <1>5, <2>1, <2>2 DEF Prefs!SetEmail
  <2>4. /\ switches' \in Prefs!QueryOf(SUBSET Categories) /\ switches'.has
        /\ switches'.data = d /\ switches'.at = "idle"
    <3>1. PICK D : D = SUBSET Categories
      OBVIOUS
    <3>2. q \in Prefs!QueryOf(D) /\ d \in D
      BY <3>1
    <3>3. switches' \in Prefs!QueryOf(D) /\ switches'.has = q.has
      BY <2>3, <3>2 DEF Prefs!QueryOf
    <3>4. switches'.data = d /\ switches'.at = q.at
      BY <2>3, <3>2 DEF Prefs!QueryOf
    <3>. QED  BY <1>5, <2>2, <3>1, <3>3, <3>4 DEF Prefs!SetEmail
  <2>5. /\ save' \in [Saves -> SaveType] /\ Prefs!UnderWay' = Prefs!UnderWay \cup {s}
        /\ save'[s].category = c /\ save'[s].on = on
    <3>1. switches.data \in SUBSET Categories
      BY PrefsQuery DEF Prefs!TypeOK
    <3>. QED  BY <1>5, <3>1 DEF Prefs!SetEmail, Prefs!TypeOK, Prefs!UnderWay
  <2>6. /\ Prefs!UnderWay' \ crossed' \subseteq {s} /\ crossed' \subseteq Saves
    BY <1>5, <2>5 DEF Prefs!SetEmail, Prefs!TypeOK, Prefs!UnderWay
  <2>. QED  BY <1>5, <2>1, <2>4, <2>5, <2>6 DEF Prefs!SetEmail, Prefs!TypeOK, SwitchesInv
<1>6. ASSUME NEW s \in Saves, Prefs!SavePreferences(s) PROVE Prefs!TypeOK' /\ SwitchesInv'
  <2>1. /\ save' \in [Saves -> SaveType] /\ Prefs!UnderWay' = Prefs!UnderWay /\ s \in Prefs!UnderWay
        /\ \A r \in Saves : save'[r].category = save[r].category /\ save'[r].on = save[r].on
    BY <1>6 DEF Prefs!SavePreferences, Prefs!TypeOK, Prefs!UnderWay
  <2>2. off' \subseteq Categories
    BY <1>6, <2>1 DEF Prefs!SavePreferences, Prefs!TypeOK, Prefs!Put, SwitchesInv
  <2>. QED  BY <1>6, <2>1, <2>2 DEF Prefs!SavePreferences, Prefs!TypeOK, SwitchesInv, Prefs!UnderWay
<1>7. ASSUME NEW s \in Saves, Prefs!Saved(s) PROVE Prefs!TypeOK' /\ SwitchesInv'
  <2>1. s \in Prefs!UnderWay /\ switches \in Prefs!QueryOf(SUBSET Categories)
    BY <1>7 DEF Prefs!Saved, Prefs!UnderWay, Prefs!TypeOK
  <2>. QED  BY <1>7, <2>1, SaveEnds DEF Prefs!Saved
<1>8. ASSUME NEW s \in Saves, Prefs!SaveFails(s) PROVE Prefs!TypeOK' /\ SwitchesInv'
  <2>1. PICK q \in Prefs!QueryOf(SUBSET Categories) :
            /\ q = [switches EXCEPT !.data = save[s].prev, !.answer = save[s].prev]
            /\ q.has = switches.has
    <3>1. PICK D : D = SUBSET Categories
      OBVIOUS
    <3>2. save[s].prev \in D /\ switches \in Prefs!QueryOf(D)
      BY <1>8, <3>1 DEF Prefs!TypeOK
    <3>3. PICK q : q = [switches EXCEPT !.data = save[s].prev, !.answer = save[s].prev]
      OBVIOUS
    <3>4. q \in Prefs!QueryOf(D) /\ q.has = switches.has
      BY <3>2, <3>3 DEF Prefs!QueryOf
    <3>. QED  BY <3>1, <3>3, <3>4
  <2>. QED  BY <1>8, <2>1, SaveEnds DEF Prefs!SaveFails
<1>9. CASE UNCHANGED (Prefs!vars)
  BY <1>9 DEF Prefs!vars, Prefs!TypeOK, SwitchesInv, Prefs!UnderWay
<1>. QED  BY <1>1, <1>2, <1>3, <1>4, <1>5, <1>6, <1>7, <1>8, <1>9, SaveArrivesStep DEF Prefs!Next

LEMMA SwitchesAlwaysTrue == Prefs!Spec => [](Prefs!TypeOK /\ Prefs!SwitchesTrue)
<1>1. Prefs!Init => Prefs!TypeOK /\ SwitchesInv
  BY SwitchesInitial
<1>2. Prefs!TypeOK /\ SwitchesInv /\ [Prefs!Next]_(Prefs!vars) => Prefs!TypeOK' /\ SwitchesInv'
  BY SwitchesStep
<1>3. Prefs!TypeOK /\ SwitchesInv => Prefs!TypeOK /\ Prefs!SwitchesTrue
  BY DEF SwitchesInv, SameBut, Prefs!SwitchesTrue, Prefs!Fresh
<1>. QED  BY <1>1, <1>2, <1>3, PTL DEF Prefs!Spec

-----------------------------------------------------------------------------
\* The subscription's query at a question, an answer, a read and an invalidation.
LEMMA PlanQuery ==
    ASSUME NEW D, NEW q \in Plan!QueryOf(D)
    PROVE  /\ q.data \in D /\ q.answer \in D
           /\ Plan!Asked(q) \in Plan!QueryOf(D) /\ Plan!Asked(q).has = q.has
           /\ Plan!Asked(q).stale = q.stale /\ Plan!Asked(q).data = q.data
           /\ Plan!Asked(q).at = "asked"
           /\ Plan!Settled(q) \in Plan!QueryOf(D) /\ Plan!Settled(q).has
           /\ Plan!Settled(q).data = q.answer /\ Plan!Settled(q).at = "idle"
           /\ Plan!FetchFailed(q) \in Plan!QueryOf(D) /\ Plan!FetchFailed(q).has = q.has
           /\ Plan!FetchFailed(q).stale = q.stale /\ Plan!FetchFailed(q).data = q.data
           /\ Plan!FetchFailed(q).at = "idle"
<1>1. q.data \in D /\ q.answer \in D
  BY DEF Plan!QueryOf
<1>2. /\ Plan!Asked(q) \in Plan!QueryOf(D) /\ Plan!Asked(q).has = q.has
      /\ Plan!Asked(q).stale = q.stale /\ Plan!Asked(q).data = q.data
      /\ Plan!Asked(q).at = "asked"
  BY <1>1 DEF Plan!QueryOf, Plan!Asked
<1>3. /\ Plan!Settled(q) \in Plan!QueryOf(D) /\ Plan!Settled(q).has
      /\ Plan!Settled(q).data = q.answer /\ Plan!Settled(q).at = "idle"
  BY <1>1 DEF Plan!QueryOf, Plan!Settled
<1>4. /\ Plan!FetchFailed(q) \in Plan!QueryOf(D) /\ Plan!FetchFailed(q).has = q.has
      /\ Plan!FetchFailed(q).stale = q.stale /\ Plan!FetchFailed(q).data = q.data
      /\ Plan!FetchFailed(q).at = "idle"
  BY <1>1 DEF Plan!QueryOf, Plan!FetchFailed
<1>. QED  BY <1>1, <1>2, <1>3, <1>4

LEMMA PlanAnswered ==
    ASSUME NEW D, NEW q \in Plan!QueryOf(D), NEW v \in D, NEW s, s = Plan!Answered(q, v)
    PROVE  /\ s \in Plan!QueryOf(D) /\ s.has = q.has /\ s.stale = q.stale /\ s.data = q.data
           /\ s.answer = v /\ s.at = "read"
BY DEF Plan!QueryOf, Plan!Answered

LEMMA PlanStale ==
    ASSUME NEW D, NEW q \in Plan!QueryOf(D), NEW s, s = [q EXCEPT !.stale = TRUE]
    PROVE  s \in Plan!QueryOf(D) /\ s.stale /\ s.has = q.has /\ s.at = q.at /\ s.answer = q.answer
BY DEF Plan!QueryOf

LEMMA PlanInvalidated ==
    ASSUME NEW D, NEW q \in Plan!QueryOf(D)
    PROVE  LET s == Plan!Invalidated(q) IN
           /\ s \in Plan!QueryOf(D) /\ s.has = q.has /\ s.stale
           /\ q.has \/ q.at = "idle" => s.at = "asked"
           /\ s.at = "read" => ~q.has /\ q.at = "read" /\ s.answer = q.answer
<1>1. CASE q.has \/ q.at = "idle"
  <2>1. Plan!Invalidated(q) = [Plan!Asked(q) EXCEPT !.stale = TRUE]
    BY <1>1 DEF Plan!Invalidated
  <2>2. /\ Plan!Asked(q) \in Plan!QueryOf(D) /\ Plan!Asked(q).has = q.has
        /\ Plan!Asked(q).at = "asked"
    BY PlanQuery
  <2>. QED  BY <2>1, <2>2, PlanStale
<1>2. CASE ~(q.has \/ q.at = "idle")
  <2>1. Plan!Invalidated(q) = [q EXCEPT !.stale = TRUE]
    BY <1>2 DEF Plan!Invalidated
  <2>. QED  BY <1>2, <2>1, PlanStale
<1>. QED  BY <1>1, <1>2

(***************************************************************************)
(* The subscription.                                                       *)
(***************************************************************************)
\* What the card shows for fresh and what it will show are of what had been stored by the time
\* that the last cancellation was answered, or later; a cancellation begins on a card with a
\* status, so that its invalidation drops the answer under way.
PlanInv ==
    /\ since <= told
    /\ card.data.told <= told /\ card.answer.told <= told
    /\ card.at = "read" => card.answer.told >= since
    /\ ~card.stale => card.data.told >= since
    /\ dialog \/ cancel # "idle" => card.has

LEMMA ToldIs == \A d \in Plan!Data : d.told \in Nat
BY DEF Plan!Data

LEMMA ReadingIs ==
    ASSUME Plan!NamesAssumption, status \in PlanStatuses, told \in 0..MaxTold
    PROVE  Plan!Reading \in Plan!Data /\ Plan!Reading.told = told
BY DEF Plan!NamesAssumption, Plan!Reading, Plan!Data, Plan!Shown

LEMMA NoCard ==
    ASSUME Plan!NamesAssumption, NEW q, q = Plan!NoQuery([told |-> 0, status |-> "inactive"])
    PROVE  /\ Plan!Asked(q) \in Plan!QueryOf(Plan!Data) /\ Plan!Asked(q).stale
           /\ Plan!Asked(q).at = "asked"
           /\ Plan!Asked(q).data.told = 0 /\ Plan!Asked(q).answer.told = 0
<1>1. PICK d : d = [told |-> 0, status |-> "inactive"]
  OBVIOUS
<1>2. d \in Plan!Data /\ d.told = 0
  BY <1>1 DEF Plan!Data, Plan!NamesAssumption
<1>3. q = [has |-> FALSE, stale |-> TRUE, data |-> d, at |-> "idle", answer |-> d]
  BY <1>1 DEF Plan!NoQuery
<1>4. q.data = d /\ q.stale /\ q \in Plan!QueryOf(Plan!Data)
  <2>1. q.data = d /\ q.stale
    BY <1>3
  <2>2. \A D, v : v \in D => [has |-> FALSE, stale |-> TRUE, data |-> v, at |-> "idle", answer |-> v]
                               \in Plan!QueryOf(D)
    BY DEF Plan!QueryOf
  <2>. QED  BY <1>2, <1>3, <2>1, <2>2
<1>5. Plan!Asked(q).answer = q.data
  BY <1>4 DEF Plan!QueryOf, Plan!Asked
<1>. QED  BY <1>2, <1>4, <1>5, PlanQuery

LEMMA NoHistory == MaxTold \in Nat => Plan!NoQuery(0) \in Plan!QueryOf(0..MaxTold)
BY DEF Plan!NoQuery, Plan!QueryOf

LEMMA PlanInitial == ASSUME Plan!NamesAssumption, Plan!Init PROVE Plan!TypeOK /\ PlanInv
<1>1. /\ card \in Plan!QueryOf(Plan!Data) /\ card.stale /\ card.at = "asked"
      /\ card.data.told = 0 /\ card.answer.told = 0
  BY NoCard DEF Plan!Init
<1>2. MaxTold \in Nat /\ 0 \in 0..MaxTold
  BY DEF Plan!NamesAssumption
<1>3. Plan!TypeOK
  BY <1>1, <1>2, NoHistory DEF Plan!Init, Plan!TypeOK
<1>4. PlanInv
  BY <1>1 DEF Plan!Init, PlanInv
<1>. QED  BY <1>3, <1>4

\* The card's query moves on, and nothing else.
LEMMA CardStep ==
    ASSUME Plan!NamesAssumption, Plan!TypeOK, PlanInv,
           Plan!CardAsked \/ Plan!CardAnswered \/ Plan!CardSettles \/ Plan!CardFails
    PROVE  Plan!TypeOK' /\ PlanInv'
<1>1. /\ card \in Plan!QueryOf(Plan!Data) /\ card.data \in Plan!Data /\ card.answer \in Plan!Data
      /\ card.data.told \in Nat /\ card.answer.told \in Nat
  BY PlanQuery, ToldIs DEF Plan!TypeOK
<1>2. told \in Nat /\ since \in Nat
  BY DEF Plan!TypeOK
<1>3. UNCHANGED <<status, told, invoices, dialog, cancel, away, since>>
  BY DEF Plan!CardAsked, Plan!CardAnswered, Plan!CardSettles, Plan!CardFails
<1>4. CASE Plan!CardAsked
  <2>1. card' = Plan!Asked(card)
    BY <1>4 DEF Plan!CardAsked
  <2>2. /\ card' \in Plan!QueryOf(Plan!Data) /\ card'.has = card.has /\ card'.stale = card.stale
        /\ card'.data = card.data /\ card'.at = "asked" /\ card'.answer = card.data
    <3>1. card'.answer = card.data
      BY <1>1, <2>1 DEF Plan!QueryOf, Plan!Asked
    <3>. QED  BY <1>1, <2>1, <3>1, PlanQuery
  <2>. QED  BY <1>1, <1>2, <1>3, <2>2 DEF Plan!TypeOK, PlanInv
<1>5. CASE Plan!CardAnswered
  <2>1. /\ card' \in Plan!QueryOf(Plan!Data) /\ card'.has = card.has /\ card'.stale = card.stale
        /\ card'.data = card.data /\ card'.at = "read" /\ card'.answer.told = told
    <3>1. Plan!Reading \in Plan!Data /\ Plan!Reading.told = told
      BY ReadingIs DEF Plan!TypeOK
    <3>2. card' = Plan!Answered(card, Plan!Reading)
      BY <1>5 DEF Plan!CardAnswered
    <3>. QED  BY <1>1, <3>1, <3>2, PlanAnswered
  <2>. QED  BY <1>1, <1>2, <1>3, <2>1 DEF Plan!TypeOK, PlanInv
<1>6. CASE Plan!CardSettles
  <2>1. card' = Plan!Settled(card) /\ card.at = "read"
    BY <1>6 DEF Plan!CardSettles
  <2>2. /\ card' \in Plan!QueryOf(Plan!Data) /\ card'.has /\ card'.data = card.answer
        /\ card'.at = "idle" /\ card'.answer = card.answer
    <3>1. card'.answer = card.answer
      BY <1>1, <2>1 DEF Plan!QueryOf, Plan!Settled
    <3>. QED  BY <1>1, <2>1, <3>1, PlanQuery
  <2>. QED  BY <1>1, <1>2, <1>3, <2>1, <2>2 DEF Plan!TypeOK, PlanInv
<1>7. CASE Plan!CardFails
  <2>1. card' = Plan!FetchFailed(card)
    BY <1>7 DEF Plan!CardFails
  <2>2. /\ card' \in Plan!QueryOf(Plan!Data) /\ card'.has = card.has /\ card'.stale = card.stale
        /\ card'.data = card.data /\ card'.at = "idle" /\ card'.answer = card.data
    <3>1. card'.answer = card.data
      BY <1>1, <2>1 DEF Plan!QueryOf, Plan!FetchFailed
    <3>. QED  BY <1>1, <2>1, <3>1, PlanQuery
  <2>. QED  BY <1>1, <1>2, <1>3, <2>2 DEF Plan!TypeOK, PlanInv
<1>. QED  BY <1>4, <1>5, <1>6, <1>7

LEMMA HistoryStep ==
    ASSUME Plan!TypeOK, PlanInv, Plan!HistoryAsked \/ Plan!HistoryEnds
    PROVE  Plan!TypeOK' /\ PlanInv'
<1>1. PICK D : D = 0..MaxTold
  OBVIOUS
<1>2. invoices \in Plan!QueryOf(D) /\ told \in D
  BY <1>1 DEF Plan!TypeOK
<1>3. PICK q \in Plan!QueryOf(D) : q = Plan!Answered(invoices, told)
  BY <1>2, PlanAnswered
<1>4. invoices' \in Plan!QueryOf(D)
  BY <1>2, <1>3, PlanQuery DEF Plan!HistoryAsked, Plan!HistoryEnds
<1>. QED  BY <1>1, <1>4 DEF Plan!HistoryAsked, Plan!HistoryEnds, Plan!TypeOK, PlanInv

\* The cancellation is answered, and the card's fetch begins again.
LEMMA CancelAnswered ==
    ASSUME Plan!TypeOK, PlanInv, Plan!CancelDone
    PROVE  Plan!TypeOK' /\ PlanInv'
<1>1. /\ card \in Plan!QueryOf(Plan!Data) /\ card.data \in Plan!Data /\ card.data.told \in Nat
      /\ told \in Nat /\ since \in Nat /\ card.has
  BY PlanQuery, ToldIs DEF Plan!TypeOK, Plan!CancelDone, PlanInv
<1>2. card' = [Plan!Asked(card) EXCEPT !.stale = TRUE]
  BY <1>1 DEF Plan!CancelDone, Plan!Invalidated
<1>3. card'.data = card.data /\ card'.answer = card.data
  BY <1>1, <1>2 DEF Plan!QueryOf, Plan!Asked
<1>4. card' \in Plan!QueryOf(Plan!Data) /\ card'.stale /\ card'.at = "asked" /\ card'.has
  BY <1>1, PlanInvalidated DEF Plan!CancelDone
<1>5. Plan!TypeOK'
  BY <1>4 DEF Plan!CancelDone, Plan!TypeOK
<1>6. PlanInv'
  BY <1>1, <1>3, <1>4 DEF Plan!CancelDone, PlanInv
<1>. QED  BY <1>5, <1>6

LEMMA PlanStep ==
    ASSUME Plan!NamesAssumption, Plan!TypeOK, PlanInv, [Plan!Next]_(Plan!vars)
    PROVE  Plan!TypeOK' /\ PlanInv'
<1>1. MaxTold \in Nat /\ told \in Nat /\ since \in Nat
  BY DEF Plan!NamesAssumption, Plan!TypeOK
<1>2. CASE \/ Plan!OpenCancel \/ Plan!CloseCancel \/ Plan!ConfirmCancel \/ Plan!CancelCarried
           \/ Plan!CancelFails \/ Plan!GoAway \/ Plan!AwayAnswered
  <2>. USE <1>2 DEF Plan!OpenCancel, Plan!CloseCancel, Plan!ConfirmCancel, Plan!CancelCarried,
                    Plan!CancelFails, Plan!GoAway, Plan!AwayAnswered
  <2>1. Plan!TypeOK'
    BY DEF Plan!TypeOK
  <2>2. PlanInv'
    BY DEF PlanInv
  <2>. QED  BY <2>1, <2>2
<1>3. CASE Plan!ComeBack
  <2>1. /\ card' \in Plan!QueryOf(Plan!Data) /\ card'.stale /\ card'.at = "asked"
        /\ card'.data.told = 0 /\ card'.answer.told = 0
    BY <1>3, NoCard DEF Plan!ComeBack
  <2>2. Plan!TypeOK'
    BY <1>1, <1>3, <2>1, NoHistory DEF Plan!ComeBack, Plan!TypeOK
  <2>3. PlanInv'
    BY <1>1, <1>3, <2>1 DEF Plan!ComeBack, PlanInv
  <2>. QED  BY <2>2, <2>3
<1>4. ASSUME NEW s \in PlanStatuses, Plan!WebhookTells(s) PROVE Plan!TypeOK' /\ PlanInv'
  <2>1. /\ card.data.told \in Nat /\ card.answer.told \in Nat
        /\ told' = told + 1 /\ told' \in 0..MaxTold
    BY <1>1, <1>4, PlanQuery, ToldIs DEF Plan!WebhookTells, Plan!TypeOK
  <2>. QED  BY <1>1, <1>4, <2>1 DEF Plan!WebhookTells, Plan!TypeOK, PlanInv
<1>5. CASE UNCHANGED (Plan!vars)
  BY <1>5 DEF Plan!vars, Plan!TypeOK, PlanInv
<1>. QED  BY <1>2, <1>3, <1>4, <1>5, CardStep, HistoryStep, CancelAnswered DEF Plan!Next

LEMMA CardAlwaysSince == Plan!Spec => [](Plan!TypeOK /\ Plan!CardSince)
<1>. USE PagesAssumption DEF PagesAssumption
<1>1. Plan!Init => Plan!TypeOK /\ PlanInv
  BY PlanInitial
<1>2. Plan!TypeOK /\ PlanInv /\ [Plan!Next]_(Plan!vars) => Plan!TypeOK' /\ PlanInv'
  BY PlanStep
<1>3. Plan!TypeOK /\ PlanInv => Plan!TypeOK /\ Plan!CardSince
  BY DEF PlanInv, Plan!CardSince, Plan!Fresh
<1>. QED  BY <1>1, <1>2, <1>3, PTL DEF Plan!Spec

-----------------------------------------------------------------------------
\* The endpoint list's query at a question, an answer, a read and an invalidation.
LEMMA PanelQuery ==
    ASSUME NEW D, NEW q \in Panel!QueryOf(D)
    PROVE  /\ q.data \in D /\ q.answer \in D
           /\ Panel!Asked(q) \in Panel!QueryOf(D) /\ Panel!Asked(q).has = q.has
           /\ Panel!Asked(q).stale = q.stale /\ Panel!Asked(q).data = q.data
           /\ Panel!Asked(q).at = "asked"
           /\ Panel!Settled(q) \in Panel!QueryOf(D) /\ Panel!Settled(q).has
           /\ Panel!Settled(q).data = q.answer /\ Panel!Settled(q).at = "idle"
           /\ Panel!FetchFailed(q) \in Panel!QueryOf(D) /\ Panel!FetchFailed(q).has = q.has
           /\ Panel!FetchFailed(q).stale = q.stale /\ Panel!FetchFailed(q).data = q.data
           /\ Panel!FetchFailed(q).at = "idle"
<1>1. q.data \in D /\ q.answer \in D
  BY DEF Panel!QueryOf
<1>2. /\ Panel!Asked(q) \in Panel!QueryOf(D) /\ Panel!Asked(q).has = q.has
      /\ Panel!Asked(q).stale = q.stale /\ Panel!Asked(q).data = q.data
      /\ Panel!Asked(q).at = "asked"
  BY <1>1 DEF Panel!QueryOf, Panel!Asked
<1>3. /\ Panel!Settled(q) \in Panel!QueryOf(D) /\ Panel!Settled(q).has
      /\ Panel!Settled(q).data = q.answer /\ Panel!Settled(q).at = "idle"
  BY <1>1 DEF Panel!QueryOf, Panel!Settled
<1>4. /\ Panel!FetchFailed(q) \in Panel!QueryOf(D) /\ Panel!FetchFailed(q).has = q.has
      /\ Panel!FetchFailed(q).stale = q.stale /\ Panel!FetchFailed(q).data = q.data
      /\ Panel!FetchFailed(q).at = "idle"
  BY <1>1 DEF Panel!QueryOf, Panel!FetchFailed
<1>. QED  BY <1>1, <1>2, <1>3, <1>4

LEMMA PanelAnswered ==
    ASSUME NEW D, NEW q \in Panel!QueryOf(D), NEW v \in D, NEW s, s = Panel!Answered(q, v)
    PROVE  /\ s \in Panel!QueryOf(D) /\ s.has = q.has /\ s.stale = q.stale /\ s.data = q.data
           /\ s.answer = v /\ s.at = "read"
BY DEF Panel!QueryOf, Panel!Answered

LEMMA PanelStale ==
    ASSUME NEW D, NEW q \in Panel!QueryOf(D), NEW s, s = [q EXCEPT !.stale = TRUE]
    PROVE  s \in Panel!QueryOf(D) /\ s.stale /\ s.has = q.has /\ s.at = q.at /\ s.answer = q.answer
BY DEF Panel!QueryOf

LEMMA PanelInvalidated ==
    ASSUME NEW D, NEW q \in Panel!QueryOf(D)
    PROVE  LET s == Panel!Invalidated(q) IN
           /\ s \in Panel!QueryOf(D) /\ s.has = q.has /\ s.stale
           /\ q.has \/ q.at = "idle" => s.at = "asked"
           /\ s.at = "read" => ~q.has /\ q.at = "read" /\ s.answer = q.answer
<1>1. CASE q.has \/ q.at = "idle"
  <2>1. Panel!Invalidated(q) = [Panel!Asked(q) EXCEPT !.stale = TRUE]
    BY <1>1 DEF Panel!Invalidated
  <2>2. /\ Panel!Asked(q) \in Panel!QueryOf(D) /\ Panel!Asked(q).has = q.has
        /\ Panel!Asked(q).at = "asked"
    BY PanelQuery
  <2>. QED  BY <2>1, <2>2, PanelStale
<1>2. CASE ~(q.has \/ q.at = "idle")
  <2>1. Panel!Invalidated(q) = [q EXCEPT !.stale = TRUE]
    BY <1>2 DEF Panel!Invalidated
  <2>. QED  BY <1>2, <2>1, PanelStale
<1>. QED  BY <1>1, <1>2

(***************************************************************************)
(* The webhook endpoints.                                                  *)
(***************************************************************************)
HookRow == [status : Panel!StatusNames, secret : 0..MaxSecret]
HookRequest == [at : {"idle", "sent", "done", "adrift"}, op : Panel!Ops,
                hook : Hooks \cup {NoHook}, ok : BOOLEAN]
HookDialog == [open : BOOLEAN, editing : Hooks \cup {NoHook},
               secret : {Panel!NoSecret} \cup (Hooks \X {1}), submitting : BOOLEAN]

Carried(r) == request[r].at = "done" /\ request[r].ok

RequestsOK == \A r \in HookRequests : /\ request[r].at # "done" => ~request[r].ok
                                      /\ request[r].at # "idle" => request[r].hook \in Hooks

\* But for what others have changed, and what a command has changed whose answer is still to come,
\* neither what the list shows for fresh nor what it will show differs from the endpoints.
HooksListed ==
    /\ list.at # "idle" => list.stale
    /\ \A h \in Hooks \ untold : (\A r \in HookRequests : Carried(r) => request[r].hook # h) =>
          /\ list.at = "read" => list.answer[h] = hook[h].status
          /\ ~list.stale => list.data[h] = hook[h].status

\* Until the answer of its creation an endpoint has its dialog open; then its secret is shown.
SecretsShown ==
    /\ \A h \in Hooks \ left : Panel!Living(h) =>
          \/ <<h, 1>> \in seen
          \/ \E r \in HookRequests : Carried(r) /\ request[r].op = "create" /\ request[r].hook = h
    /\ \A h \in Panel!Creating \ left : hookDialog.open

PanelInv == RequestsOK /\ HooksListed /\ SecretsShown

LEMMA HooksTyped ==
    Panel!TypeOK =>
        /\ hook \in [Hooks -> HookRow] /\ request \in [HookRequests -> HookRequest]
        /\ hookDialog \in HookDialog /\ list \in Panel!QueryOf([Hooks -> Panel!StatusNames])
        /\ Panel!Statuses \in [Hooks -> Panel!StatusNames]
        /\ \A h \in Hooks : Panel!Statuses[h] = hook[h].status
<1>1. Panel!TypeOK => hook \in [Hooks -> HookRow] /\ request \in [HookRequests -> HookRequest]
  BY DEF Panel!TypeOK, HookRow, HookRequest
<1>2. Panel!TypeOK => hookDialog \in HookDialog
  BY DEF Panel!TypeOK, HookDialog
<1>3. hook \in [Hooks -> HookRow] => \A h \in Hooks : hook[h].status \in Panel!StatusNames
  BY DEF HookRow
<1>4. hook \in [Hooks -> HookRow] => Panel!Statuses \in [Hooks -> Panel!StatusNames]
  BY <1>3 DEF Panel!Statuses
<1>. QED  BY <1>1, <1>2, <1>4 DEF Panel!TypeOK, Panel!Statuses

LEMMA PanelInitial == ASSUME Panel!NamesAssumption, Panel!Init PROVE Panel!TypeOK /\ PanelInv
<1>1. hook \in [Hooks -> HookRow]
  BY DEF Panel!Init, Panel!NamesAssumption, HookRow, Panel!StatusNames
<1>2. PICK D : D = [Hooks -> Panel!StatusNames]
  OBVIOUS
<1>3. Panel!Statuses \in D
  BY <1>1, <1>2 DEF HookRow, Panel!Statuses
<1>4. Panel!NoQuery(Panel!Statuses) \in Panel!QueryOf(D) /\ Panel!NoQuery(Panel!Statuses).stale
  BY <1>3 DEF Panel!NoQuery, Panel!QueryOf
<1>5. list \in Panel!QueryOf(D) /\ list.stale /\ list.at = "asked"
  BY <1>4, PanelQuery DEF Panel!Init
<1>6. /\ request \in [HookRequests -> HookRequest]
      /\ \A r \in HookRequests : request[r].at = "idle" /\ ~request[r].ok
  BY DEF Panel!Init, Panel!NoRequest, HookRequest, Panel!Ops
<1>7. hookDialog \in HookDialog
  BY DEF Panel!Init, Panel!ClosedDialog, HookDialog
<1>8. Panel!TypeOK
  BY <1>1, <1>2, <1>5, <1>6, <1>7
     DEF Panel!Init, Panel!TypeOK, HookRow, HookRequest, HookDialog
<1>9. PanelInv
  <2>1. \A h \in Hooks : ~Panel!Living(h)
    BY DEF Panel!Init, Panel!Living
  <2>. QED  BY <1>5, <1>6, <2>1
            DEF Panel!Init, PanelInv, RequestsOK, HooksListed, SecretsShown, Panel!Creating
<1>. QED  BY <1>8, <1>9

\* The list's query moves on, and nothing else.
LEMMA HooksListStep ==
    ASSUME Panel!TypeOK, PanelInv, Panel!ListAnswered \/ Panel!ListSettles \/ Panel!ListFails
    PROVE  Panel!TypeOK' /\ PanelInv'
<1>1. UNCHANGED <<hook, request, hookDialog, seen, left>>
  BY DEF Panel!ListAnswered, Panel!ListSettles, Panel!ListFails
<1>2. /\ list' \in Panel!QueryOf([Hooks -> Panel!StatusNames]) /\ untold' \subseteq Hooks
      /\ list'.at # "idle" => list'.stale
      /\ \A h \in Hooks \ untold' : (\A r \in HookRequests : Carried(r) => request[r].hook # h) =>
            /\ list'.at = "read" => list'.answer[h] = hook[h].status
            /\ ~list'.stale => list'.data[h] = hook[h].status
  <2>1. CASE Panel!ListAnswered
    <3>1. /\ list' \in Panel!QueryOf([Hooks -> Panel!StatusNames]) /\ list'.stale
          /\ list'.answer = Panel!Statuses
      BY <2>1, HooksTyped, PanelAnswered DEF Panel!ListAnswered, PanelInv, HooksListed
    <3>. QED  BY <2>1, <3>1, HooksTyped DEF Panel!ListAnswered
  <2>2. CASE Panel!ListSettles
    <3>1. /\ list' \in Panel!QueryOf([Hooks -> Panel!StatusNames]) /\ list'.data = list.answer
          /\ list'.at = "idle"
      BY <2>2, HooksTyped, PanelQuery DEF Panel!ListSettles
    <3>. QED  BY <2>2, <3>1 DEF Panel!ListSettles, PanelInv, HooksListed, Panel!TypeOK
  <2>3. CASE Panel!ListFails
    <3>1. /\ list' \in Panel!QueryOf([Hooks -> Panel!StatusNames]) /\ list'.data = list.data
          /\ list'.at = "idle" /\ list'.stale = list.stale
      BY <2>3, HooksTyped, PanelQuery DEF Panel!ListFails
    <3>. QED  BY <2>3, <3>1 DEF Panel!ListFails, PanelInv, HooksListed, Panel!TypeOK
  <2>. QED  BY <2>1, <2>2, <2>3
<1>3. Panel!TypeOK'
  BY <1>1, <1>2 DEF Panel!TypeOK
<1>4. HooksListed'
  BY <1>1, <1>2 DEF HooksListed, Carried
<1>5. RequestsOK' /\ SecretsShown'
  BY <1>1 DEF PanelInv, RequestsOK, SecretsShown, Carried, Panel!Living, Panel!Creating
<1>. QED  BY <1>3, <1>4, <1>5 DEF PanelInv

LEMMA HookDialogStep ==
    ASSUME Panel!TypeOK, PanelInv,
           Panel!CloseDialog \/ \E h \in Hooks \cup {NoHook} : Panel!OpenDialog(h)
    PROVE  Panel!TypeOK' /\ PanelInv'
<1>1. UNCHANGED <<hook, list, request, seen, untold>> /\ hookDialog' \in HookDialog
  <2>1. Panel!ClosedDialog \in HookDialog
    BY DEF Panel!ClosedDialog, HookDialog
  <2>2. \A h \in Hooks \cup {NoHook} : [Panel!ClosedDialog EXCEPT !.open = TRUE, !.editing = h] \in HookDialog
    BY <2>1 DEF HookDialog
  <2>. QED  BY <2>1, <2>2 DEF Panel!CloseDialog, Panel!OpenDialog
<1>2. /\ left \subseteq left' /\ left' \subseteq left \cup Panel!Creating
      /\ hookDialog'.open \/ Panel!Creating \subseteq left'
  BY DEF Panel!CloseDialog, Panel!OpenDialog, Panel!ClosedDialog
<1>3. Panel!Creating \subseteq Hooks
  BY DEF PanelInv, RequestsOK, Panel!Creating
<1>4. Panel!TypeOK'
  BY <1>1, <1>2, <1>3 DEF Panel!TypeOK, HookDialog
<1>5. RequestsOK' /\ HooksListed'
  BY <1>1 DEF PanelInv, RequestsOK, HooksListed, Carried
<1>6. SecretsShown'
  BY <1>1, <1>2 DEF PanelInv, SecretsShown, Carried, Panel!Living, Panel!Creating
<1>. QED  BY <1>4, <1>5, <1>6 DEF PanelInv

\* A request is sent: no command has been carried out for it yet.
LEMMA HookSends ==
    ASSUME Panel!TypeOK, PanelInv, NEW r \in HookRequests, NEW op \in Panel!Ops, NEW h \in Hooks,
           Panel!Sends(r, op, h), op = "create" => hookDialog'.open, hookDialog' \in HookDialog,
           hookDialog.open => hookDialog'.open, UNCHANGED <<hook, list, seen, untold, left>>
    PROVE  Panel!TypeOK' /\ PanelInv'
<1>1. request' = [request EXCEPT ![r] = [at |-> "sent", op |-> op, hook |-> h, ok |-> FALSE]]
  BY DEF Panel!Sends
<1>2. /\ request' \in [HookRequests -> HookRequest] /\ request[r].at = "idle"
      /\ request'[r] = [at |-> "sent", op |-> op, hook |-> h, ok |-> FALSE]
      /\ \A q \in HookRequests : q # r => request'[q] = request[q]
  BY <1>1, HooksTyped DEF HookRequest, Panel!Sends, Panel!NoRequest
<1>3. Panel!TypeOK'
  BY <1>2 DEF Panel!TypeOK, HookRequest, HookDialog
<1>4. RequestsOK'
  BY <1>2 DEF PanelInv, RequestsOK
<1>5. \A q \in HookRequests : /\ Carried(q)' = Carried(q)
                              /\ Carried(q) => request'[q] = request[q]
  BY <1>2 DEF Carried
<1>6. HooksListed'
  BY <1>5 DEF PanelInv, HooksListed
<1>7. Panel!Creating' \subseteq Panel!Creating \cup (IF op = "create" THEN {h} ELSE {})
  BY <1>2 DEF Panel!Creating
<1>8. SecretsShown'
  BY <1>5, <1>7 DEF PanelInv, SecretsShown, Panel!Living
<1>. QED  BY <1>3, <1>4, <1>6, <1>8 DEF PanelInv

LEMMA HookSent ==
    ASSUME Panel!TypeOK, PanelInv, NEW r \in HookRequests, NEW h \in Hooks,
           Panel!Submit(r, h) \/ \E op \in Panel!Ops : Panel!Choose(r, op, h)
    PROVE  Panel!TypeOK' /\ PanelInv'
<1>1. ASSUME Panel!Submit(r, h) PROVE Panel!TypeOK' /\ PanelInv'
  <2>1. hookDialog' \in HookDialog /\ hookDialog.open /\ hookDialog'.open
    BY <1>1, HooksTyped DEF Panel!Submit, HookDialog
  <2>2. PICK op \in Panel!Ops : Panel!Sends(r, op, h)
    BY <1>1 DEF Panel!Submit, Panel!Ops
  <2>. QED  BY <1>1, <2>1, <2>2, HookSends DEF Panel!Submit
<1>2. ASSUME NEW op \in Panel!Ops, Panel!Choose(r, op, h) PROVE Panel!TypeOK' /\ PanelInv'
  <2>1. op # "create" /\ hookDialog' = hookDialog /\ hookDialog \in HookDialog
    BY <1>2, HooksTyped DEF Panel!Choose
  <2>. QED  BY <1>2, <2>1, HookSends DEF Panel!Choose
<1>. QED  BY <1>1, <1>2

\* A request has ended.
LEMMA RequestOver ==
    ASSUME Panel!TypeOK, PanelInv, NEW r \in HookRequests, request[r].at # "idle",
           request' = [request EXCEPT ![r] = Panel!NoRequest]
    PROVE  /\ request' \in [HookRequests -> HookRequest] /\ RequestsOK'
           /\ \A q \in HookRequests : Carried(q)' = (q # r /\ Carried(q))
           /\ \A q \in HookRequests : q # r => request'[q] = request[q]
           /\ Panel!Creating' \subseteq Panel!Creating
           /\ request[r].hook \in Hooks
           /\ request[r].op = "create" => request[r].hook \in Panel!Creating
<1>1. Panel!NoRequest \in HookRequest /\ Panel!NoRequest.at = "idle" /\ ~Panel!NoRequest.ok
  BY DEF Panel!NoRequest, HookRequest, Panel!Ops
<1>2. /\ request' \in [HookRequests -> HookRequest] /\ request'[r].at = "idle" /\ ~request'[r].ok
      /\ \A q \in HookRequests : q # r => request'[q] = request[q]
  BY <1>1, HooksTyped
<1>3. RequestsOK'
  BY <1>2 DEF PanelInv, RequestsOK
<1>4. \A q \in HookRequests : Carried(q)' = (q # r /\ Carried(q))
  BY <1>2 DEF Carried
<1>5. Panel!Creating' \subseteq Panel!Creating
  BY <1>2 DEF Panel!Creating
<1>6. request[r].hook \in Hooks /\ (request[r].op = "create" => request[r].hook \in Panel!Creating)
  BY DEF PanelInv, RequestsOK, Panel!Creating
<1>. QED  BY <1>2, <1>3, <1>4, <1>5, <1>6

\* The command is carried out, or refused.
LEMMA HookCarried ==
    ASSUME Panel!NamesAssumption, Panel!TypeOK, PanelInv, NEW r \in HookRequests, Panel!Carry(r)
    PROVE  Panel!TypeOK' /\ PanelInv'
<1>1. PICK h \in Hooks : h = request[r].hook
  BY DEF Panel!Carry, PanelInv, RequestsOK
<1>2. PICK row \in HookRow, ok \in BOOLEAN :
          /\ hook' = IF ok THEN [hook EXCEPT ![h] = row] ELSE hook
          /\ IF request[r].at = "sent"
             THEN /\ request' = [request EXCEPT ![r].at = "done", ![r].ok = ok]
                  /\ UNCHANGED <<untold, left>>
             ELSE /\ request' = [request EXCEPT ![r] = Panel!NoRequest]
                  /\ Panel!Unknown(IF ok THEN {h} ELSE {})
          /\ ok /\ request[r].op # "create" => Panel!Living(h)
  <2>1. hook[h] \in HookRow /\ request[r].op \in Panel!Ops /\ MaxSecret \in Nat \ {0}
    BY HooksTyped DEF HookRequest, Panel!NamesAssumption
  <2>2. CASE request[r].op = "create"
    <3>1. [status |-> "active", secret |-> 1] \in HookRow
      BY <2>1 DEF HookRow, Panel!StatusNames
    <3>. QED  BY <1>1, <2>2, <3>1 DEF Panel!Carry
  <2>3. CASE request[r].op = "edit"
    BY <1>1, <2>1, <2>3 DEF Panel!Carry
  <2>4. CASE request[r].op = "enable"
    <3>1. [hook[h] EXCEPT !.status = "active"] \in HookRow
      BY <2>1 DEF HookRow, Panel!StatusNames
    <3>. QED  BY <1>1, <2>4, <3>1 DEF Panel!Carry
  <2>5. CASE request[r].op = "disable"
    <3>1. [hook[h] EXCEPT !.status = "disabled"] \in HookRow
      BY <2>1 DEF HookRow, Panel!StatusNames
    <3>. QED  BY <1>1, <2>5, <3>1 DEF Panel!Carry
  <2>6. CASE request[r].op = "rotate"
    <3>1. [hook[h] EXCEPT !.secret = @ + 1] \in HookRow
      BY <1>1, <2>1, <2>6 DEF Panel!Carry, HookRow
    <3>. QED  BY <1>1, <2>6, <3>1 DEF Panel!Carry
  <2>7. CASE request[r].op = "delete"
    <3>1. [hook[h] EXCEPT !.status = "gone"] \in HookRow
      BY <2>1 DEF HookRow, Panel!StatusNames
    <3>. QED  BY <1>1, <2>7, <3>1 DEF Panel!Carry
  <2>. QED  BY <2>1, <2>2, <2>3, <2>4, <2>5, <2>6, <2>7 DEF Panel!Ops
<1>3. UNCHANGED <<list, hookDialog, seen>> /\ request[r].at \in {"sent", "adrift"}
  BY DEF Panel!Carry
<1>4. /\ hook' \in [Hooks -> HookRow] /\ \A i \in Hooks : i # h => hook'[i] = hook[i]
      /\ ~ok => hook' = hook
  BY <1>2, HooksTyped
<1>5. \A i \in Hooks : Panel!Living(i)' => Panel!Living(i) \/ (i = h /\ ok /\ request[r].op = "create")
  BY <1>2, <1>4 DEF Panel!Living
<1>6. CASE request[r].at = "sent"
  <2>1. UNCHANGED <<untold, left>>
    BY <1>2, <1>6
  <2>2. /\ request' \in [HookRequests -> HookRequest]
        /\ request'[r].at = "done" /\ request'[r].ok = ok /\ request'[r].op = request[r].op
        /\ request'[r].hook = h
        /\ \A q \in HookRequests : q # r => request'[q] = request[q]
    BY <1>1, <1>2, <1>6, HooksTyped DEF HookRequest
  <2>3. Panel!TypeOK'
    BY <1>3, <1>4, <2>1, <2>2 DEF Panel!TypeOK, HookRow, HookRequest
  <2>4. RequestsOK'
    BY <2>2 DEF PanelInv, RequestsOK
  <2>5. \A q \in HookRequests : Carried(q) => q # r /\ Carried(q)' /\ request'[q] = request[q]
    BY <1>6, <2>2 DEF Carried
  <2>6. Carried(r)' = ok
    BY <2>2 DEF Carried
  <2>7. HooksListed'
    <3>1. \A i \in Hooks : i # h \/ ~ok => hook'[i] = hook[i]
      BY <1>4
    <3>. QED  BY <1>3, <2>1, <2>2, <2>5, <2>6, <3>1 DEF PanelInv, HooksListed
  <2>8. SecretsShown'
    <3>1. Panel!Creating' = Panel!Creating
      BY <1>1, <1>6, <2>2 DEF Panel!Creating
    <3>. QED  BY <1>3, <1>5, <2>1, <2>2, <2>5, <2>6, <3>1 DEF PanelInv, SecretsShown
  <2>. QED  BY <2>3, <2>4, <2>7, <2>8 DEF PanelInv
<1>7. CASE request[r].at = "adrift"
  <2>1. /\ request' = [request EXCEPT ![r] = Panel!NoRequest] /\ request[r].at # "idle"
        /\ untold' = untold \cup (IF ok THEN {h} ELSE {})
        /\ left' = left \cup (IF ok THEN {h} ELSE {})
    BY <1>2, <1>7 DEF Panel!Unknown
  <2>2. \A q \in HookRequests : Carried(q) => Carried(q)' /\ request'[q] = request[q]
    BY <1>7, <2>1, RequestOver DEF Carried
  <2>3. Panel!TypeOK'
    <3>1. request' \in [HookRequests -> HookRequest]
      BY <2>1, RequestOver
    <3>. QED  BY <1>3, <1>4, <2>1, <3>1 DEF Panel!TypeOK, HookRow, HookRequest
  <2>4. HooksListed'
    BY <1>3, <1>4, <2>1, <2>2 DEF PanelInv, HooksListed
  <2>5. SecretsShown'
    <3>1. Panel!Creating' \subseteq Panel!Creating
      BY <2>1, RequestOver
    <3>. QED  BY <1>3, <1>5, <2>1, <2>2, <3>1 DEF PanelInv, SecretsShown
  <2>. QED  BY <2>1, <2>3, <2>4, <2>5, RequestOver DEF PanelInv
<1>. QED  BY <1>3, <1>6, <1>7

LEMMA HookSucceeds ==
    ASSUME Panel!TypeOK, PanelInv, NEW r \in HookRequests, Panel!Succeeds(r)
    PROVE  Panel!TypeOK' /\ PanelInv'
<1>1. /\ request[r].at = "done" /\ request[r].ok /\ request[r].at # "idle" /\ hook' = hook
      /\ request' = [request EXCEPT ![r] = Panel!NoRequest] /\ list' = Panel!Invalidated(list)
  BY DEF Panel!Succeeds
<1>2. PICK h \in Hooks : h = request[r].hook
  BY <1>1, RequestOver
<1>3. /\ list' \in Panel!QueryOf([Hooks -> Panel!StatusNames]) /\ list'.stale
      /\ list'.at = "read" => ~list.has /\ list.at = "read" /\ list'.answer = list.answer
  BY <1>1, HooksTyped, PanelInvalidated
<1>4. untold' = IF ~list.has /\ list.at = "read" THEN untold \cup {h} ELSE untold
  BY <1>2 DEF Panel!Succeeds
<1>5. PICK op \in Panel!Ops : op = request[r].op
  BY HooksTyped DEF HookRequest
<1>6. /\ hookDialog' \in HookDialog /\ seen \subseteq seen' /\ seen' \subseteq seen \cup {<<h, 1>>}
      /\ op = "create" /\ hookDialog.open => <<h, 1>> \in seen'
      /\ hookDialog'.open = hookDialog.open \/ (op = "edit" /\ left' = left \cup Panel!Creating)
      /\ left \subseteq left' /\ left' \subseteq left \cup Panel!Creating
  <2>1. hookDialog \in HookDialog /\ Panel!ClosedDialog \in HookDialog
    BY HooksTyped DEF HookDialog, Panel!ClosedDialog
  <2>2. CASE op = "edit"
    BY <1>2, <1>5, <2>1, <2>2 DEF Panel!Succeeds
  <2>3. CASE op = "create" /\ hookDialog.open
    <3>1. hookDialog' = [hookDialog EXCEPT !.secret = <<h, 1>>, !.submitting = FALSE]
      BY <1>2, <1>5, <2>3 DEF Panel!Succeeds
    <3>2. <<h, 1>> \in Hooks \X {1}
      OBVIOUS
    <3>3. hookDialog' \in HookDialog /\ hookDialog'.open = hookDialog.open
      BY <2>1, <3>1, <3>2 DEF HookDialog
    <3>. QED  BY <1>2, <1>5, <2>3, <3>3 DEF Panel!Succeeds
  <2>4. CASE op # "edit" /\ ~(op = "create" /\ hookDialog.open)
    <3>1. hookDialog' = hookDialog /\ seen' = seen /\ left' = left
      BY <1>2, <1>5, <2>4 DEF Panel!Succeeds
    <3>. QED  BY <2>1, <2>4, <3>1
  <2>. QED  BY <2>2, <2>3, <2>4
<1>7. Panel!Creating \subseteq Hooks
  BY DEF PanelInv, RequestsOK, Panel!Creating
<1>8. Panel!TypeOK'
  <2>1. request' \in [HookRequests -> HookRequest]
    BY <1>1, RequestOver
  <2>2. seen' \subseteq (Hooks \X {1}) /\ untold' \subseteq Hooks /\ left' \subseteq Hooks
    BY <1>4, <1>6, <1>7 DEF Panel!TypeOK
  <2>. QED  BY <1>1, <1>3, <1>6, <2>1, <2>2 DEF Panel!TypeOK, HookRequest, HookDialog
<1>9. HooksListed'
  <2>1. \A i \in Hooks \ untold' :
           (\A q \in HookRequests : Carried(q)' => request'[q].hook # i) /\ list'.at = "read"
               => list'.answer[i] = hook'[i].status
    <3>. SUFFICES ASSUME NEW i \in Hooks \ untold',
                         \A q \in HookRequests : Carried(q)' => request'[q].hook # i, list'.at = "read"
                  PROVE  list'.answer[i] = hook'[i].status
      OBVIOUS
    <3>1. ~list.has /\ list.at = "read" /\ list'.answer = list.answer
      BY <1>3
    <3>2. i \in Hooks \ untold /\ i # h
      BY <1>4, <3>1
    <3>3. \A q \in HookRequests : Carried(q) => request[q].hook # i
      BY <1>1, <1>2, <3>2, RequestOver
    <3>. QED  BY <1>1, <3>1, <3>2, <3>3 DEF PanelInv, HooksListed
  <2>. QED  BY <1>3, <2>1 DEF HooksListed
<1>10. SecretsShown'
  <2>1. \A i \in Hooks \ left' : Panel!Living(i) =>
           \/ <<i, 1>> \in seen'
           \/ \E q \in HookRequests : Carried(q)' /\ request'[q].op = "create" /\ request'[q].hook = i
    <3>. SUFFICES ASSUME NEW i \in Hooks \ left', Panel!Living(i), <<i, 1>> \notin seen'
                  PROVE  \E q \in HookRequests : /\ Carried(q)' /\ request'[q].op = "create"
                                                 /\ request'[q].hook = i
      OBVIOUS
    <3>1. PICK q \in HookRequests : Carried(q) /\ request[q].op = "create" /\ request[q].hook = i
      BY <1>6 DEF PanelInv, SecretsShown
    <3>2. q # r
      <4>1. i \in Panel!Creating
        BY <3>1 DEF Carried, Panel!Creating
      <4>2. hookDialog.open
        BY <1>6, <4>1 DEF PanelInv, SecretsShown
      <4>. QED  BY <1>2, <1>5, <1>6, <3>1, <4>2
    <3>. QED  BY <1>1, <3>1, <3>2, RequestOver
  <2>2. \A i \in Panel!Creating' \ left' : hookDialog'.open
    BY <1>1, <1>6, RequestOver DEF PanelInv, SecretsShown
  <2>. QED  BY <1>1, <2>1, <2>2 DEF SecretsShown, Panel!Living
<1>. QED  BY <1>1, <1>8, <1>9, <1>10, RequestOver DEF PanelInv

LEMMA HookFails ==
    ASSUME Panel!TypeOK, PanelInv, NEW r \in HookRequests, Panel!Fails(r)
    PROVE  Panel!TypeOK' /\ PanelInv'
<1>1. request[r].at \in {"sent", "done"} /\ UNCHANGED <<hook, list, seen>>
  BY DEF Panel!Fails
<1>2. PICK h \in Hooks : h = request[r].hook
  BY <1>1 DEF PanelInv, RequestsOK
<1>3. /\ left' = left \cup (IF request[r].ok THEN {h} ELSE {})
      /\ untold' = untold \cup (IF request[r].ok THEN {h} ELSE {})
  BY <1>2 DEF Panel!Fails, Panel!Unknown
<1>4. hookDialog' \in HookDialog /\ hookDialog'.open = hookDialog.open
  <2>1. hookDialog \in HookDialog
    BY HooksTyped
  <2>2. [hookDialog EXCEPT !.submitting = FALSE] \in HookDialog
    BY <2>1 DEF HookDialog
  <2>3. [hookDialog EXCEPT !.submitting = FALSE].open = hookDialog.open
    BY <2>1 DEF HookDialog
  <2>. QED  BY <2>1, <2>2, <2>3 DEF Panel!Fails
<1>5. Carried(r) => request[r].ok
  BY DEF Carried
\* The request ends with its failure, or is given up and goes on without the page.
<1>6. /\ request' \in [HookRequests -> HookRequest] /\ RequestsOK'
      /\ Panel!Creating' \subseteq Panel!Creating
      /\ \A q \in HookRequests : Carried(q) /\ q # r => Carried(q)' /\ request'[q] = request[q]
  <2>1. CASE request' = [request EXCEPT ![r] = Panel!NoRequest]
    BY <1>1, <2>1, RequestOver
  <2>2. CASE request[r].at = "sent" /\ request' = [request EXCEPT ![r].at = "adrift"]
    <3>1. /\ request' \in [HookRequests -> HookRequest] /\ request'[r].at = "adrift"
          /\ request'[r].op = request[r].op /\ request'[r].hook = request[r].hook
          /\ request'[r].ok = request[r].ok
          /\ \A q \in HookRequests : q # r => request'[q] = request[q]
      BY <2>2, HooksTyped DEF HookRequest
    <3>2. RequestsOK'
      BY <2>2, <3>1 DEF PanelInv, RequestsOK
    <3>3. Panel!Creating' \subseteq Panel!Creating
      BY <2>2, <3>1 DEF Panel!Creating
    <3>. QED  BY <3>1, <3>2, <3>3 DEF Carried
  <2>. QED  BY <2>1, <2>2 DEF Panel!Fails
<1>7. Panel!TypeOK'
  BY <1>1, <1>2, <1>3, <1>4, <1>6 DEF Panel!TypeOK, HookRequest, HookDialog
<1>8. HooksListed'
  <2>1. \A i \in Hooks \ untold' :
           (\A q \in HookRequests : Carried(q)' => request'[q].hook # i) =>
               (\A q \in HookRequests : Carried(q) => request[q].hook # i)
    BY <1>2, <1>3, <1>5, <1>6
  <2>. QED  BY <1>1, <1>3, <2>1 DEF PanelInv, HooksListed
<1>9. SecretsShown'
  <2>1. \A i \in Hooks \ left', q \in HookRequests :
           Carried(q) /\ request[q].hook = i => Carried(q)' /\ request'[q] = request[q]
    BY <1>2, <1>3, <1>5, <1>6
  <2>. QED  BY <1>1, <1>3, <1>4, <1>6, <2>1 DEF PanelInv, SecretsShown, Panel!Living
<1>. QED  BY <1>6, <1>7, <1>8, <1>9 DEF PanelInv

LEMMA HookByOthers ==
    ASSUME Panel!TypeOK, PanelInv, NEW h \in Hooks,
           NEW st \in {"active", "auto_disabled", "admin_disabled"}, Panel!ByOthers(h, st)
    PROVE  Panel!TypeOK' /\ PanelInv'
<1>1. hook' \in [Hooks -> HookRow] /\ \A i \in Hooks : i # h => hook'[i] = hook[i]
  BY HooksTyped DEF Panel!ByOthers, HookRow, Panel!StatusNames
<1>2. /\ untold' = untold \cup {h} /\ UNCHANGED <<list, request, hookDialog, seen, left>>
      /\ Panel!Living(h)
  BY DEF Panel!ByOthers
<1>3. Panel!TypeOK'
  BY <1>1, <1>2 DEF Panel!TypeOK, HookRow
<1>4. RequestsOK' /\ HooksListed'
  BY <1>1, <1>2 DEF PanelInv, RequestsOK, HooksListed, Carried
<1>5. \A i \in Hooks : Panel!Living(i)' => Panel!Living(i)
  BY <1>1, <1>2 DEF Panel!Living
<1>6. SecretsShown'
  BY <1>2, <1>5 DEF PanelInv, SecretsShown, Carried, Panel!Creating
<1>. QED  BY <1>3, <1>4, <1>6 DEF PanelInv

LEMMA PanelStep ==
    ASSUME Panel!NamesAssumption, Panel!TypeOK, PanelInv, [Panel!Next]_(Panel!vars)
    PROVE  Panel!TypeOK' /\ PanelInv'
<1>1. CASE UNCHANGED (Panel!vars)
  BY <1>1 DEF Panel!vars, Panel!TypeOK, PanelInv, RequestsOK, HooksListed, SecretsShown, Carried,
              Panel!Living, Panel!Creating
<1>. QED  BY <1>1, HooksListStep, HookDialogStep, HookSent, HookCarried, HookSucceeds, HookFails,
             HookByOthers DEF Panel!Next

LEMMA PanelAlwaysTrue == Panel!Spec => [](Panel!TypeOK /\ Panel!PanelTrue)
<1>. USE PagesAssumption DEF PagesAssumption
<1>1. Panel!Init => Panel!TypeOK /\ PanelInv
  BY PanelInitial
<1>2. Panel!TypeOK /\ PanelInv /\ [Panel!Next]_(Panel!vars) => Panel!TypeOK' /\ PanelInv'
  BY PanelStep
<1>3. Panel!TypeOK /\ PanelInv => Panel!TypeOK /\ Panel!PanelTrue
  <2>1. Panel!Settles => \A r \in HookRequests : ~Carried(r)
    BY DEF Panel!Settles, Carried
  <2>. QED  BY <2>1 DEF PanelInv, HooksListed, SecretsShown, Panel!PanelTrue, Panel!Fresh
<1>. QED  BY <1>1, <1>2, <1>3, PTL DEF Panel!Spec

-----------------------------------------------------------------------------
\* The bell's query at a question, an answer, a read and an invalidation.
LEMMA BellQuery ==
    ASSUME NEW D, NEW q \in Bell!QueryOf(D)
    PROVE  /\ q.data \in D /\ q.answer \in D
           /\ Bell!Asked(q) \in Bell!QueryOf(D) /\ Bell!Asked(q).has = q.has
           /\ Bell!Asked(q).stale = q.stale /\ Bell!Asked(q).data = q.data
           /\ Bell!Asked(q).at = "asked"
           /\ Bell!Settled(q) \in Bell!QueryOf(D) /\ Bell!Settled(q).has
           /\ Bell!Settled(q).data = q.answer /\ Bell!Settled(q).at = "idle"
           /\ Bell!FetchFailed(q) \in Bell!QueryOf(D) /\ Bell!FetchFailed(q).has = q.has
           /\ Bell!FetchFailed(q).stale = q.stale /\ Bell!FetchFailed(q).data = q.data
           /\ Bell!FetchFailed(q).at = "idle"
<1>1. q.data \in D /\ q.answer \in D
  BY DEF Bell!QueryOf
<1>2. /\ Bell!Asked(q) \in Bell!QueryOf(D) /\ Bell!Asked(q).has = q.has
      /\ Bell!Asked(q).stale = q.stale /\ Bell!Asked(q).data = q.data
      /\ Bell!Asked(q).at = "asked"
  BY <1>1 DEF Bell!QueryOf, Bell!Asked
<1>3. /\ Bell!Settled(q) \in Bell!QueryOf(D) /\ Bell!Settled(q).has
      /\ Bell!Settled(q).data = q.answer /\ Bell!Settled(q).at = "idle"
  BY <1>1 DEF Bell!QueryOf, Bell!Settled
<1>4. /\ Bell!FetchFailed(q) \in Bell!QueryOf(D) /\ Bell!FetchFailed(q).has = q.has
      /\ Bell!FetchFailed(q).stale = q.stale /\ Bell!FetchFailed(q).data = q.data
      /\ Bell!FetchFailed(q).at = "idle"
  BY <1>1 DEF Bell!QueryOf, Bell!FetchFailed
<1>. QED  BY <1>1, <1>2, <1>3, <1>4

LEMMA BellAnswers ==
    ASSUME NEW D, NEW q \in Bell!QueryOf(D), NEW v \in D, NEW s, s = Bell!Answered(q, v)
    PROVE  /\ s \in Bell!QueryOf(D) /\ s.has = q.has /\ s.stale = q.stale /\ s.data = q.data
           /\ s.answer = v /\ s.at = "read"
BY DEF Bell!QueryOf, Bell!Answered

LEMMA BellStale ==
    ASSUME NEW D, NEW q \in Bell!QueryOf(D), NEW s, s = [q EXCEPT !.stale = TRUE]
    PROVE  s \in Bell!QueryOf(D) /\ s.stale /\ s.has = q.has /\ s.at = q.at /\ s.answer = q.answer
BY DEF Bell!QueryOf

LEMMA BellInvalidated ==
    ASSUME NEW D, NEW q \in Bell!QueryOf(D)
    PROVE  LET s == Bell!Invalidated(q) IN
           /\ s \in Bell!QueryOf(D) /\ s.has = q.has /\ s.stale
           /\ q.has \/ q.at = "idle" => s.at = "asked"
           /\ s.at = "read" => ~q.has /\ q.at = "read" /\ s.answer = q.answer
<1>1. CASE q.has \/ q.at = "idle"
  <2>1. Bell!Invalidated(q) = [Bell!Asked(q) EXCEPT !.stale = TRUE]
    BY <1>1 DEF Bell!Invalidated
  <2>2. /\ Bell!Asked(q) \in Bell!QueryOf(D) /\ Bell!Asked(q).has = q.has
        /\ Bell!Asked(q).at = "asked"
    BY BellQuery
  <2>. QED  BY <2>1, <2>2, BellStale
<1>2. CASE ~(q.has \/ q.at = "idle")
  <2>1. Bell!Invalidated(q) = [q EXCEPT !.stale = TRUE]
    BY <1>2 DEF Bell!Invalidated
  <2>. QED  BY <1>2, <2>1, BellStale
<1>. QED  BY <1>1, <1>2

(***************************************************************************)
(* The bell.                                                               *)
(***************************************************************************)
ConnType == [stream : {"none", "open", "closed"}, start : {"none", "sent", "replied", "done"},
             set : Conns \cup {None}]

ConnsTyped ==
    /\ conn \in [Conns -> ConnType] /\ current \in Conns \cup {None}
    /\ members \in [Conns -> Seq(Conns)] /\ wire \in Seq(Conns \cup {None})
    /\ listens \in BOOLEAN /\ lostRace \in BOOLEAN

BellTyped ==
    /\ note \in [Notes -> {"none", "open", "unread", "read", "gone"}]
    /\ signal \in [Notes -> {"none", "sent", "inbox", "done"}]
    /\ tab \in Conns \cup {None}
    /\ bell \in Bell!QueryOf(SUBSET Notes)
    /\ marking \in [Notes \cup {All} -> {"idle", "sent", "done", "adrift"}]
    /\ missed \subseteq Notes

\* What is marked was shown, so that the answer of the request begins the bell's fetch again.
BellOK ==
    /\ \A n \in Notes : signal[n] = "none" <=> note[n] = "none"
    /\ bell.at # "idle" => bell.stale
    /\ ~bell.has => bell.data = {}
    /\ \A m \in Notes \cup {All} : marking[m] # "idle" => bell.has

\* But for what it could not be told of, what the bell shows for fresh and what it will show are
\* the unread: with those that a request has marked whose answer is still to come, and without
\* those whose signal is.
Marked(n) == note[n] = "read" /\ \E m \in Notes \cup {All} : marking[m] = "done"
Told(n) ==
    /\ bell.at = "read" /\ n \in bell.answer => note[n] = "unread" \/ Marked(n)
    /\ ~bell.stale /\ n \in bell.data => note[n] = "unread" \/ Marked(n)
    /\ signal[n] \in {"none", "done"} /\ note[n] = "unread" =>
         /\ bell.at = "read" => n \in bell.answer
         /\ ~bell.stale => n \in bell.data
BellTold == \A n \in Notes \ missed : Told(n)

BellInv == BellTyped /\ ConnsTyped /\ BellOK /\ BellTold

LEMMA BellInitial == ASSUME Bell!Init PROVE BellInv
<1>1. PICK D : D = SUBSET Notes
  OBVIOUS
<1>2. Bell!NoQuery({}) \in Bell!QueryOf(D) /\ Bell!NoQuery({}).stale /\ Bell!NoQuery({}).data = {}
  BY <1>1 DEF Bell!NoQuery, Bell!QueryOf
<1>3. bell \in Bell!QueryOf(D) /\ bell.stale /\ bell.data = {} /\ bell.at = "asked"
  BY <1>2, BellQuery DEF Bell!Init
<1>4. BellTyped
  BY <1>1, <1>3 DEF Bell!Init, BellTyped
<1>5. ConnsTyped
  <2>1. Bell!NewConn \in ConnType
    BY DEF Bell!NewConn, ConnType
  <2>2. <<>> \in Seq(Conns) /\ <<>> \in Seq(Conns \cup {None})
    OBVIOUS
  <2>. QED  BY <2>1, <2>2 DEF Bell!Init, ConnsTyped
<1>6. BellOK /\ BellTold
  BY <1>3 DEF Bell!Init, BellOK, BellTold, Told
<1>. QED  BY <1>4, <1>5, <1>6 DEF BellInv

\* An emitter leaves its Set.
LEMMA Removed == ASSUME NEW S, NEW s \in Seq(S), NEW e PROVE Bell!RemoveFirst(s, e) \in Seq(S)
<1>1. CASE ~ \E i \in 1..Len(s) : s[i] = e
  BY <1>1 DEF Bell!RemoveFirst
<1>2. CASE \E i \in 1..Len(s) : s[i] = e
  <2>1. PICK I : I = {i \in 1..Len(s) : s[i] = e}
    OBVIOUS
  <2>2. Len(s) \in Nat /\ I \subseteq 1..Len(s) /\ I # {} /\ I \subseteq Nat
    BY <1>2, <2>1
  <2>3. PICK k \in I : k = Bell!Min(I)
    BY <2>2, LeastExists DEF Bell!Min
  <2>4. Bell!SelectInSeq(s, LAMBDA v : v = e) = k
    BY <2>1, <2>2, <2>3 DEF Bell!SelectInSeq
  <2>5. Bell!RemoveFirst(s, e) = SubSeq(s, 1, k - 1) \o SubSeq(s, k + 1, Len(s))
    BY <1>2, <2>4 DEF Bell!RemoveFirst, Bell!RemoveAt
  <2>6. k \in 1..Len(s)
    BY <2>2
  <2>7. SubSeq(s, 1, k - 1) \in Seq(S) /\ SubSeq(s, k + 1, Len(s)) \in Seq(S)
    BY <2>6
  <2>. QED  BY <2>5, <2>7, ConcatProperties
<1>. QED  BY <1>1, <1>2

LEMMA ConnsStep ==
    ASSUME ConnsTyped,
           Bell!RedisTakes \/ \E c \in Conns : Bell!Connect(c) \/ Bell!Subscribed(c) \/ Bell!Cancel(c)
    PROVE  ConnsTyped' /\ UNCHANGED <<note, signal, tab, bell, marking, missed>>
<1>0. /\ \A k \in Conns : members[k] \in Seq(Conns) /\ conn[k] \in ConnType
      /\ \A k, c \in Conns : Append(members[k], c) \in Seq(Conns)
      /\ \A k \in Conns \cup {None} : Append(wire, k) \in Seq(Conns \cup {None})
  <2>1. \A k \in Conns : members[k] \in Seq(Conns) /\ conn[k] \in ConnType
    BY DEF ConnsTyped
  <2>2. \A S : \A s \in Seq(S), e \in S : Append(s, e) \in Seq(S)
    OBVIOUS
  <2>. QED  BY <2>1, <2>2 DEF ConnsTyped
<1>1. ASSUME NEW c \in Conns, Bell!Connect(c) PROVE ConnsTyped'
  <2>1. [stream |-> "open", start |-> "sent", set |-> c] \in ConnType
    BY DEF ConnType
  <2>2. current \in Conns => [stream |-> "open", start |-> "done", set |-> current] \in ConnType
    BY DEF ConnType
  <2>3. CASE current = None
    BY <1>0, <1>1, <2>1, <2>3 DEF Bell!Connect, ConnsTyped
  <2>4. CASE current # None
    BY <1>0, <1>1, <2>2, <2>4 DEF Bell!Connect, ConnsTyped
  <2>. QED  BY <2>3, <2>4
<1>2. ASSUME NEW c \in Conns, Bell!Subscribed(c) PROVE ConnsTyped'
  <2>1. [conn[c] EXCEPT !.start = "done"] \in ConnType
    BY <1>0 DEF ConnType
  <2>2. members' \in [Conns -> Seq(Conns)]
    BY <1>0, <1>2 DEF Bell!Subscribed, ConnsTyped
  <2>. QED  BY <1>2, <2>1, <2>2 DEF Bell!Subscribed, ConnsTyped
<1>3. ASSUME NEW c \in Conns, Bell!Cancel(c) PROVE ConnsTyped'
  <2>1. [conn[c] EXCEPT !.stream = "closed"] \in ConnType
    BY <1>0 DEF ConnType
  <2>2. conn' \in [Conns -> ConnType] /\ listens' = listens
    BY <1>3, <2>1 DEF Bell!Cancel, ConnsTyped
  <2>3. /\ current' \in Conns \cup {None} /\ members' \in [Conns -> Seq(Conns)]
        /\ wire' \in Seq(Conns \cup {None}) /\ lostRace' \in BOOLEAN
    <3>1. CASE conn[c].start = "done" /\ current # None
      <4>1. current \in Conns /\ Bell!RemoveFirst(members[current], c) \in Seq(Conns)
        BY <1>0, <3>1, Removed DEF ConnsTyped
      <4>2. members' = [members EXCEPT ![current] = Bell!RemoveFirst(members[current], c)]
        BY <1>3, <3>1 DEF Bell!Cancel
      <4>3. \/ current' = None /\ wire' = Append(wire, None)
            \/ UNCHANGED <<current, wire>>
        BY <1>3, <3>1 DEF Bell!Cancel
      <4>4. lostRace' \in BOOLEAN
        BY <1>3, <3>1 DEF Bell!Cancel
      <4>. QED  BY <1>0, <4>1, <4>2, <4>3, <4>4 DEF ConnsTyped
    <3>2. CASE ~(conn[c].start = "done" /\ current # None)
      BY <1>3, <3>2 DEF Bell!Cancel, ConnsTyped, Bell!Starting
    <3>. QED  BY <3>1, <3>2
  <2>. QED  BY <2>2, <2>3 DEF ConnsTyped
<1>4. CASE Bell!RedisTakes
  <2>1. Head(wire) \in Conns \cup {None} /\ Tail(wire) \in Seq(Conns \cup {None})
    <3>1. \A S : \A s \in Seq(S) : s # <<>> => Head(s) \in S /\ Tail(s) \in Seq(S)
      OBVIOUS
    <3>. QED  BY <1>4, <3>1 DEF Bell!RedisTakes, ConnsTyped
  <2>2. \A k \in Conns : [conn[k] EXCEPT !.start = "replied"] \in ConnType
    BY <1>0 DEF ConnType
  <2>. QED  BY <1>4, <2>1, <2>2 DEF Bell!RedisTakes, ConnsTyped
<1>5. UNCHANGED <<note, signal, tab, bell, marking, missed>>
  BY DEF Bell!RedisTakes, Bell!Connect, Bell!Subscribed, Bell!Cancel
<1>. QED  BY <1>1, <1>2, <1>3, <1>4, <1>5

\* The stream has nothing to do with what the bell holds.
LEMMA StreamStep ==
    ASSUME BellInv, Bell!RedisTakes \/ \E c \in Conns : Bell!StreamStep(c)
    PROVE  BellInv'
<1>1. CASE \E c \in Conns : Bell!PageOpens(c)
  <2>1. /\ tab' \in Conns \cup {None} /\ UNCHANGED <<note, signal, bell, marking, missed>>
        /\ UNCHANGED <<conn, current, members, wire, listens, lostRace>>
    BY <1>1 DEF Bell!PageOpens, Bell!stream
  <2>. QED  BY <2>1 DEF BellInv, BellTyped, ConnsTyped, BellOK, BellTold, Told, Marked
<1>2. CASE Bell!RedisTakes \/ \E c \in Conns : Bell!Connect(c) \/ Bell!Subscribed(c) \/ Bell!Cancel(c)
  <2>1. ConnsTyped' /\ UNCHANGED <<note, signal, tab, bell, marking, missed>>
    BY <1>2, ConnsStep DEF BellInv
  <2>. QED  BY <2>1 DEF BellInv, BellTyped, BellOK, BellTold, Told, Marked
<1>. QED  BY <1>1, <1>2 DEF Bell!StreamStep

\* The signal of a note has gone unheard.
LEMMA SignalGone ==
    ASSUME BellInv, NEW n \in Notes, signal[n] # "none", Bell!Gone(n),
           UNCHANGED <<note, bell, marking>>
    PROVE  /\ signal' \in [Notes -> {"none", "sent", "inbox", "done"}] /\ missed' \subseteq Notes
           /\ BellOK' /\ BellTold'
<1>1. /\ signal' \in [Notes -> {"none", "sent", "inbox", "done"}] /\ signal'[n] = "done"
      /\ \A k \in Notes : k # n => signal'[k] = signal[k]
  BY DEF Bell!Gone, BellInv, BellTyped
<1>2. /\ missed \subseteq missed' /\ missed' \subseteq missed \cup {n}
      /\ note[n] = "unread" => n \in missed' \/ bell.at = "asked"
  BY DEF Bell!Gone, Bell!NotTold
<1>3. BellOK'
  BY <1>1 DEF BellInv, BellOK
<1>4. BellTold'
  <2>. SUFFICES ASSUME NEW k \in Notes \ missed' PROVE Told(k)'
    BY DEF BellTold
  <2>1. Told(k)
    BY <1>2 DEF BellInv, BellTold
  <2>2. Marked(k)' = Marked(k)
    BY DEF Marked
  <2>3. CASE k # n
    BY <1>1, <2>1, <2>2, <2>3 DEF Told
  <2>4. CASE k = n /\ note[n] # "unread"
    BY <2>1, <2>2, <2>4 DEF Told
  <2>5. CASE k = n /\ bell.at = "asked"
    BY <2>5 DEF Told, BellInv, BellOK
  <2>. QED  BY <1>2, <2>3, <2>4, <2>5
<1>. QED  BY <1>1, <1>2, <1>3, <1>4 DEF BellInv, BellTyped

LEMMA NoteBegins ==
    ASSUME BellInv, NEW n \in Notes, Bell!Insert(n) \/ Bell!Commit(n) \/ Bell!RollBack(n)
    PROVE  BellTyped' /\ BellOK' /\ BellTold'
<1>1. UNCHANGED <<tab, bell, marking>>
  BY DEF Bell!Insert, Bell!Commit, Bell!RollBack
<1>2. /\ note' \in [Notes -> {"none", "open", "unread", "read", "gone"}]
      /\ signal' \in [Notes -> {"none", "sent", "inbox", "done"}]
      /\ \A k \in Notes : k # n => note'[k] = note[k] /\ signal'[k] = signal[k]
      /\ note[n] \in {"none", "open"} /\ note'[n] \in {"open", "unread", "gone"}
      /\ signal'[n] # "none"
      /\ note'[n] = "unread" => signal'[n] = signal[n]
  BY DEF Bell!Insert, Bell!Commit, Bell!RollBack, BellInv, BellTyped, BellOK
<1>3. /\ missed \subseteq missed' /\ missed' \subseteq Notes
      /\ note'[n] = "unread" /\ signal[n] = "done" => n \in missed' \/ bell.at = "asked"
  BY <1>2 DEF Bell!Insert, Bell!Commit, Bell!RollBack, Bell!NotTold, BellInv, BellTyped
<1>4. BellTyped'
  BY <1>1, <1>2, <1>3 DEF BellInv, BellTyped
<1>5. BellOK'
  BY <1>1, <1>2 DEF BellInv, BellOK
<1>6. BellTold'
  <2>. SUFFICES ASSUME NEW k \in Notes \ missed' PROVE Told(k)'
    BY DEF BellTold
  <2>1. Told(k)
    BY <1>3 DEF BellInv, BellTold
  <2>2. CASE k # n
    BY <1>1, <1>2, <2>1, <2>2 DEF Told, Marked
  <2>3. CASE k = n
    <3>1. ~(bell.at = "read" /\ n \in bell.answer) /\ ~(~bell.stale /\ n \in bell.data)
      BY <1>2, <2>1, <2>3 DEF Told, Marked
    <3>2. signal'[n] \in {"none", "done"} /\ note'[n] = "unread" => bell.at = "asked" /\ bell.stale
      BY <1>2, <1>3, <2>3 DEF BellInv, BellOK
    <3>. QED  BY <1>1, <2>3, <3>1, <3>2 DEF Told
  <2>. QED  BY <2>2, <2>3
<1>. QED  BY <1>4, <1>5, <1>6

\* The page hears the signal, and the bell's fetch begins again.
LEMMA NoteHeard ==
    ASSUME BellInv, NEW n \in Notes, Bell!Heard(n)
    PROVE  BellTyped' /\ BellOK' /\ BellTold'
<1>1. UNCHANGED <<note, tab, marking>> /\ bell \in Bell!QueryOf(SUBSET Notes)
  BY DEF Bell!Heard, BellInv, BellTyped
<1>2. /\ signal' \in [Notes -> {"none", "sent", "inbox", "done"}] /\ signal'[n] = "done"
      /\ \A k \in Notes : k # n => signal'[k] = signal[k]
      /\ signal[n] = "inbox"
  BY DEF Bell!Heard, BellInv, BellTyped
<1>3. /\ bell' \in Bell!QueryOf(SUBSET Notes) /\ bell'.stale /\ bell'.has = bell.has
      /\ bell'.at = "read" => ~bell.has /\ bell.at = "read" /\ bell'.answer = bell.answer
  BY <1>1, BellInvalidated DEF Bell!Heard
<1>4. bell'.data = bell.data
  <2>1. PICK D : D = SUBSET Notes
    OBVIOUS
  <2>2. Bell!Asked(bell) \in Bell!QueryOf(D) /\ Bell!Asked(bell).data = bell.data
    BY <1>1, <2>1, BellQuery
  <2>3. /\ [Bell!Asked(bell) EXCEPT !.stale = TRUE].data = bell.data
        /\ [bell EXCEPT !.stale = TRUE].data = bell.data
    BY <1>1, <2>1, <2>2 DEF Bell!QueryOf
  <2>. QED  BY <2>3 DEF Bell!Heard, Bell!Invalidated
<1>5. /\ missed \subseteq missed' /\ missed' \subseteq Notes
      /\ bell'.at = "read" => \A k \in Notes \ missed' : note[k] = "unread" => k \in bell.answer
  BY <1>3 DEF Bell!Heard, Bell!Unread, BellInv, BellTyped
<1>6. BellTyped'
  BY <1>1, <1>2, <1>3, <1>5 DEF BellInv, BellTyped
<1>7. BellOK'
  BY <1>1, <1>2, <1>3, <1>4 DEF BellInv, BellOK
<1>8. BellTold'
  BY <1>1, <1>3, <1>5 DEF BellInv, BellTold, Told, Marked
<1>. QED  BY <1>6, <1>7, <1>8

LEMMA NoteStep ==
    ASSUME BellInv, NEW n \in Notes, Bell!NoteStep(n)
    PROVE  BellInv'
<1>1. ConnsTyped'
  <2>1. UNCHANGED <<conn, current, members, wire, listens, lostRace>>
    BY DEF Bell!NoteStep, Bell!Insert, Bell!Commit, Bell!RollBack, Bell!Publish, Bell!SignalLost,
           Bell!Heard, Bell!Unheard, Bell!stream
  <2>. QED  BY <2>1 DEF BellInv, ConnsTyped
<1>2. CASE Bell!SignalLost(n) \/ Bell!Unheard(n) \/ (Bell!Publish(n) /\ ~listens)
  <2>1. signal[n] # "none" /\ Bell!Gone(n) /\ UNCHANGED <<note, tab, bell, marking>>
    BY <1>2 DEF Bell!SignalLost, Bell!Unheard, Bell!Publish
  <2>. QED  BY <1>1, <2>1, SignalGone DEF BellInv, BellTyped
<1>3. CASE Bell!Publish(n) /\ listens
  <2>1. /\ UNCHANGED <<note, tab, bell, marking, missed>> /\ signal[n] = "sent"
        /\ signal' \in [Notes -> {"none", "sent", "inbox", "done"}] /\ signal'[n] = "inbox"
        /\ \A k \in Notes : k # n => signal'[k] = signal[k]
    BY <1>3 DEF Bell!Publish, BellInv, BellTyped
  <2>2. BellTyped' /\ BellOK'
    BY <2>1 DEF BellInv, BellTyped, BellOK
  <2>3. BellTold'
    BY <2>1 DEF BellInv, BellTold, Told, Marked
  <2>. QED  BY <1>1, <2>2, <2>3 DEF BellInv
<1>. QED  BY <1>1, <1>2, <1>3, NoteBegins, NoteHeard DEF Bell!NoteStep, BellInv

LEMMA BellFetchStep ==
    ASSUME BellInv, Bell!BellAnswered \/ Bell!BellSettles \/ Bell!BellFails
    PROVE  BellInv'
<1>1. UNCHANGED <<note, signal, conn, current, members, wire, listens, tab, marking, lostRace>>
  BY DEF Bell!BellAnswered, Bell!BellSettles, Bell!BellFails, Bell!stream
<1>2. bell \in Bell!QueryOf(SUBSET Notes) /\ Bell!Unread \in SUBSET Notes
  BY DEF BellInv, BellTyped, Bell!Unread
<1>3. CASE Bell!BellAnswered
  <2>1. /\ bell' \in Bell!QueryOf(SUBSET Notes) /\ bell'.has = bell.has /\ bell'.stale
        /\ bell'.data = bell.data /\ bell'.answer = Bell!Unread
    BY <1>2, <1>3, BellAnswers DEF Bell!BellAnswered, BellInv, BellOK
  <2>. QED
    <3>1. bell'.stale /\ missed' = {}
      BY <1>3, <2>1 DEF Bell!BellAnswered
    <3>2. BellTyped' /\ ConnsTyped' /\ BellOK'
      BY <1>1, <2>1, <3>1 DEF BellInv, BellTyped, ConnsTyped, BellOK
    <3>3. BellTold'
      <4>1. \A n \in Notes : n \in bell'.answer => note[n] = "unread"
        BY <2>1 DEF Bell!Unread
      <4>2. \A n \in Notes : note[n] = "unread" => n \in bell'.answer
        BY <2>1 DEF Bell!Unread
      <4>. QED  BY <1>1, <2>1, <3>1, <4>1, <4>2 DEF BellTold, Told
    <3>. QED  BY <3>1, <3>2, <3>3 DEF BellInv
<1>4. CASE Bell!BellSettles
  <2>1. /\ bell' \in Bell!QueryOf(SUBSET Notes) /\ bell'.has /\ bell'.data = bell.answer
        /\ bell'.at = "idle"
    BY <1>2, <1>4, BellQuery DEF Bell!BellSettles
  <2>. QED  BY <1>1, <1>4, <2>1
            DEF Bell!BellSettles, BellInv, BellTyped, ConnsTyped, BellOK, BellTold, Told, Marked
<1>5. CASE Bell!BellFails
  <2>1. /\ bell' \in Bell!QueryOf(SUBSET Notes) /\ bell'.has = bell.has /\ bell'.data = bell.data
        /\ bell'.at = "idle" /\ bell'.stale = bell.stale
    BY <1>2, <1>5, BellQuery DEF Bell!BellFails
  <2>. QED  BY <1>1, <1>5, <2>1
            DEF Bell!BellFails, BellInv, BellTyped, ConnsTyped, BellOK, BellTold, Told, Marked
<1>. QED  BY <1>3, <1>4, <1>5

LEMMA MarkStep ==
    ASSUME BellInv, NEW m \in Notes \cup {All}, Bell!MarkStep(m)
    PROVE  BellInv'
<1>1. /\ UNCHANGED <<signal, tab>> /\ ConnsTyped' /\ missed' \subseteq Notes /\ missed \subseteq missed'
      /\ marking' \in [Notes \cup {All} -> {"idle", "sent", "done", "adrift"}]
      /\ \A k \in Notes \cup {All} : k # m => marking'[k] = marking[k]
  <2>1. UNCHANGED <<conn, current, members, wire, listens, lostRace, signal, tab>>
    BY DEF Bell!MarkStep, Bell!Choose, Bell!Marks, Bell!MarkSettles, Bell!MarkFails, Bell!stream
  <2>2. missed' \subseteq Notes /\ missed \subseteq missed'
    BY DEF Bell!MarkStep, Bell!Choose, Bell!Marks, Bell!MarkSettles, Bell!MarkFails, Bell!NotTold,
           BellInv, BellTyped
  <2>3. /\ marking' \in [Notes \cup {All} -> {"idle", "sent", "done", "adrift"}]
        /\ \A k \in Notes \cup {All} : k # m => marking'[k] = marking[k]
    BY DEF Bell!MarkStep, Bell!Choose, Bell!Marks, Bell!MarkSettles, Bell!MarkFails,
           BellInv, BellTyped
  <2>. QED  BY <2>1, <2>2, <2>3 DEF BellInv, ConnsTyped
<1>2. bell \in Bell!QueryOf(SUBSET Notes)
  BY DEF BellInv, BellTyped
<1>3. CASE Bell!Choose(m)
  <2>1. UNCHANGED <<note, bell, missed>> /\ marking[m] = "idle" /\ marking'[m] = "sent" /\ bell.has
    BY <1>3 DEF Bell!Choose, BellInv, BellTyped, BellOK
  <2>2. \A n \in Notes : Marked(n)' = Marked(n)
    BY <1>1, <2>1 DEF Marked
  <2>. QED  BY <1>1, <1>2, <2>1, <2>2 DEF BellInv, BellTyped, BellOK, BellTold, Told
<1>4. CASE Bell!Marks(m) /\ marking[m] = "sent"
  <2>1. /\ UNCHANGED <<bell, missed>> /\ marking'[m] = "done"
        /\ note' \in [Notes -> {"none", "open", "unread", "read", "gone"}]
        /\ \A n \in Notes : \/ note'[n] = note[n]
                            \/ note[n] = "unread" /\ note'[n] = "read"
    BY <1>4 DEF Bell!Marks, BellInv, BellTyped
  <2>2. \A n \in Notes : (note[n] = "unread" \/ Marked(n)) => note'[n] = "unread" \/ Marked(n)'
    BY <1>1, <2>1 DEF Marked
  <2>3. BellTold'
    BY <1>1, <2>1, <2>2 DEF BellInv, BellTold, Told
  <2>. QED  BY <1>1, <1>2, <1>4, <2>1, <2>3 DEF BellInv, BellTyped, BellOK
\* What a request does that was given up is not asked for, unless a fetch is under way.
<1>7. CASE Bell!Marks(m) /\ marking[m] = "adrift"
  <2>1. /\ UNCHANGED bell /\ marking'[m] = "idle"
        /\ note' \in [Notes -> {"none", "open", "unread", "read", "gone"}]
        /\ \A n \in Notes : \/ note'[n] = note[n]
                            \/ note[n] = "unread" /\ note'[n] = "read"
    BY <1>7 DEF Bell!Marks, BellInv, BellTyped
  <2>2. \A n \in Notes : note'[n] # note[n] => bell.at = "asked" \/ n \in missed'
    BY <1>7 DEF Bell!Marks, Bell!NotTold, BellInv, BellTyped
  <2>3. BellTold'
    <3>. SUFFICES ASSUME NEW n \in Notes \ missed' PROVE Told(n)'
      BY DEF BellTold
    <3>1. Told(n) /\ n \in Notes
      BY <1>1 DEF BellInv, BellTold
    <3>2. CASE note'[n] = note[n]
      <4>1. Marked(n)' = Marked(n)
        BY <1>1, <1>7, <2>1, <3>2 DEF Marked
      <4>. QED  BY <1>1, <2>1, <3>1, <3>2, <4>1 DEF Told
    <3>3. CASE note'[n] # note[n]
      <4>1. bell.at = "asked" /\ note'[n] = "read"
        BY <2>1, <2>2, <3>1, <3>3
      <4>. QED  BY <2>1, <4>1 DEF Told, BellInv, BellOK
    <3>. QED  BY <3>2, <3>3
  <2>. QED  BY <1>1, <1>2, <1>7, <2>1, <2>3 DEF BellInv, BellTyped, BellOK
<1>5. CASE Bell!MarkSettles(m)
  <2>1. UNCHANGED <<note, missed>> /\ marking[m] = "done" /\ marking'[m] = "idle" /\ bell.has
    BY <1>5 DEF Bell!MarkSettles, BellInv, BellTyped, BellOK
  <2>2. /\ bell' \in Bell!QueryOf(SUBSET Notes) /\ bell'.has /\ bell'.stale /\ bell'.at = "asked"
    BY <1>2, <1>5, <2>1, BellInvalidated DEF Bell!MarkSettles
  <2>. QED  BY <1>1, <2>1, <2>2 DEF BellInv, BellTyped, BellOK, BellTold, Told
<1>6. CASE Bell!MarkFails(m)
  <2>1. /\ UNCHANGED <<note, bell>> /\ marking'[m] \in {"idle", "adrift"}
        /\ marking[m] \in {"sent", "done"}
    BY <1>6 DEF Bell!MarkFails, BellInv, BellTyped
  <2>2. BellTold'
    <3>. SUFFICES ASSUME NEW n \in Notes \ missed' PROVE Told(n)'
      BY DEF BellTold
    <3>1. Told(n)
      BY <1>1 DEF BellInv, BellTold
    <3>2. CASE marking[m] # "done" \/ note[n] # "read"
      <4>1. Marked(n)' = Marked(n)
        BY <1>1, <2>1, <3>2 DEF Marked
      <4>. QED  BY <1>1, <2>1, <3>1, <4>1 DEF Told
    <3>3. CASE marking[m] = "done" /\ note[n] = "read"
      <4>1. bell.at = "asked"
        BY <1>6, <3>3 DEF Bell!MarkFails, Bell!NotTold
      <4>. QED  BY <2>1, <4>1 DEF Told, BellInv, BellOK
    <3>. QED  BY <3>2, <3>3
  <2>. QED  BY <1>1, <1>2, <2>1, <2>2 DEF BellInv, BellTyped, BellOK
<1>8. Bell!Marks(m) => marking[m] \in {"sent", "adrift"}
  BY DEF Bell!Marks
<1>. QED  BY <1>3, <1>4, <1>5, <1>6, <1>7, <1>8 DEF Bell!MarkStep

LEMMA BellStep == ASSUME BellInv, [Bell!Next]_(Bell!vars) PROVE BellInv'
<1>1. CASE UNCHANGED (Bell!vars)
  BY <1>1 DEF Bell!vars, Bell!stream, BellInv, BellTyped, ConnsTyped, BellOK, BellTold, Told, Marked
<1>. QED  BY <1>1, StreamStep, NoteStep, BellFetchStep, MarkStep DEF Bell!Next

LEMMA BellAlwaysTrue == Bell!Spec => [](Bell!TypeOK /\ Bell!BellTrue)
<1>1. Bell!Init => BellInv
  BY BellInitial
<1>2. BellInv /\ [Bell!Next]_(Bell!vars) => BellInv'
  BY BellStep
<1>3. BellInv => Bell!TypeOK /\ Bell!BellTrue
  <2>1. BellInv => Bell!TypeOK
    BY DEF BellInv, BellTyped, ConnsTyped, ConnType, Bell!TypeOK
  <2>2. BellInv => Bell!BellTrue
    BY DEF BellInv, BellTold, Told, Marked, Bell!BellTrue, Bell!Fresh
  <2>. QED  BY <2>1, <2>2
<1>. QED  BY <1>1, <1>2, <1>3, PTL DEF Bell!Spec

-----------------------------------------------------------------------------
\* The console's query at a question, an answer, a read and an invalidation.
LEMMA ConsoleQuery ==
    ASSUME NEW D, NEW q \in Console!QueryOf(D)
    PROVE  /\ q.data \in D /\ q.answer \in D
           /\ Console!Asked(q) \in Console!QueryOf(D) /\ Console!Asked(q).has = q.has
           /\ Console!Asked(q).stale = q.stale /\ Console!Asked(q).data = q.data
           /\ Console!Asked(q).at = "asked"
           /\ Console!Settled(q) \in Console!QueryOf(D) /\ Console!Settled(q).has
           /\ Console!Settled(q).data = q.answer /\ Console!Settled(q).at = "idle"
           /\ Console!FetchFailed(q) \in Console!QueryOf(D) /\ Console!FetchFailed(q).has = q.has
           /\ Console!FetchFailed(q).stale = q.stale /\ Console!FetchFailed(q).data = q.data
           /\ Console!FetchFailed(q).at = "idle"
<1>1. q.data \in D /\ q.answer \in D
  BY DEF Console!QueryOf
<1>2. /\ Console!Asked(q) \in Console!QueryOf(D) /\ Console!Asked(q).has = q.has
      /\ Console!Asked(q).stale = q.stale /\ Console!Asked(q).data = q.data
      /\ Console!Asked(q).at = "asked"
  BY <1>1 DEF Console!QueryOf, Console!Asked
<1>3. /\ Console!Settled(q) \in Console!QueryOf(D) /\ Console!Settled(q).has
      /\ Console!Settled(q).data = q.answer /\ Console!Settled(q).at = "idle"
  BY <1>1 DEF Console!QueryOf, Console!Settled
<1>4. /\ Console!FetchFailed(q) \in Console!QueryOf(D) /\ Console!FetchFailed(q).has = q.has
      /\ Console!FetchFailed(q).stale = q.stale /\ Console!FetchFailed(q).data = q.data
      /\ Console!FetchFailed(q).at = "idle"
  BY <1>1 DEF Console!QueryOf, Console!FetchFailed
<1>. QED  BY <1>1, <1>2, <1>3, <1>4

LEMMA ConsoleAnswered ==
    ASSUME NEW D, NEW q \in Console!QueryOf(D), NEW v \in D, NEW s, s = Console!Answered(q, v)
    PROVE  /\ s \in Console!QueryOf(D) /\ s.has = q.has /\ s.stale = q.stale /\ s.data = q.data
           /\ s.answer = v /\ s.at = "read"
BY DEF Console!QueryOf, Console!Answered

LEMMA ConsoleStale ==
    ASSUME NEW D, NEW q \in Console!QueryOf(D), NEW s, s = [q EXCEPT !.stale = TRUE]
    PROVE  s \in Console!QueryOf(D) /\ s.stale /\ s.has = q.has /\ s.at = q.at /\ s.answer = q.answer
BY DEF Console!QueryOf

LEMMA ConsoleInvalidated ==
    ASSUME NEW D, NEW q \in Console!QueryOf(D)
    PROVE  LET s == Console!Invalidated(q) IN
           /\ s \in Console!QueryOf(D) /\ s.has = q.has /\ s.stale
           /\ q.has \/ q.at = "idle" => s.at = "asked"
           /\ s.at = "read" => ~q.has /\ q.at = "read" /\ s.answer = q.answer
<1>1. CASE q.has \/ q.at = "idle"
  <2>1. Console!Invalidated(q) = [Console!Asked(q) EXCEPT !.stale = TRUE]
    BY <1>1 DEF Console!Invalidated
  <2>2. /\ Console!Asked(q) \in Console!QueryOf(D) /\ Console!Asked(q).has = q.has
        /\ Console!Asked(q).at = "asked"
    BY ConsoleQuery
  <2>. QED  BY <2>1, <2>2, ConsoleStale
<1>2. CASE ~(q.has \/ q.at = "idle")
  <2>1. Console!Invalidated(q) = [q EXCEPT !.stale = TRUE]
    BY <1>2 DEF Console!Invalidated
  <2>. QED  BY <1>2, <2>1, ConsoleStale
<1>. QED  BY <1>1, <1>2

(***************************************************************************)
(* The console: flags.                                                     *)
(***************************************************************************)
FlagMut == [at : {"idle", "asked", "done", "failed"}, to : Console!Values, sure : BOOLEAN]
FlagsTyped ==
    /\ flag \in Console!Values /\ flagPage \in Console!Pages
    /\ flagQuery \in [Console!Pages -> Console!QueryOf(Console!Values)]
    /\ flagDialog \in [open : BOOLEAN, row : Console!Values]
    /\ mut \in FlagMut
    /\ toldFlag \in Console!Values \cup {"nothing"}

\* What the operator was told holds until the next call is carried out, and neither what a page
\* shows for fresh nor what it will show was read before it; the call that was sure sets the flag.
Omits(p) == screen = "users" /\ p = "detail"
FlagsOK ==
    /\ mut.at = "done" /\ mut.sure => flag = mut.to
    /\ toldFlag # "nothing" /\ mut.at # "done" =>
         /\ flag = toldFlag
         /\ \A p \in Console!Pages : ~Omits(p) =>
              /\ flagQuery[p].at = "read" => flagQuery[p].answer = toldFlag
              /\ ~flagQuery[p].stale => flagQuery[p].data = toldFlag

FlagsInv == FlagsTyped /\ FlagsOK

\* The query of a page moves on, and nothing else.
LEMMA FlagMoves ==
    ASSUME FlagsInv, NEW p \in Console!Pages, NEW k \in Console!QueryOf(Console!Values),
           flagQuery' = [flagQuery EXCEPT ![p] = k],
           UNCHANGED <<screen, flag, flagPage, flagDialog, mut, toldFlag>>,
           k.at = "read" => Omits(p) \/ k.answer = flag,
           ~k.stale => \/ ~flagQuery[p].stale /\ k.data = flagQuery[p].data
                       \/ flagQuery[p].at = "read" /\ k.data = flagQuery[p].answer
    PROVE  FlagsInv'
<1>1. /\ flagQuery' \in [Console!Pages -> Console!QueryOf(Console!Values)]
      /\ flagQuery'[p] = k /\ \A r \in Console!Pages : r # p => flagQuery'[r] = flagQuery[r]
  BY DEF FlagsInv, FlagsTyped
<1>2. FlagsTyped'
  BY <1>1 DEF FlagsInv, FlagsTyped
<1>3. FlagsOK'
  BY <1>1 DEF FlagsInv, FlagsOK, Omits
<1>. QED  BY <1>2, <1>3 DEF FlagsInv

LEMMA FlagFetchStep ==
    ASSUME FlagsInv,
           Console!FlagAsked \/ \E p \in Console!Pages : Console!FlagAnswered(p) \/ Console!FlagSettles(p)
    PROVE  FlagsInv'
<1>0. \A p \in Console!Pages : flagQuery[p] \in Console!QueryOf(Console!Values)
  BY DEF FlagsInv, FlagsTyped
<1>1. CASE Console!FlagAsked
  <2>1. PICK k \in Console!QueryOf(Console!Values) : k = Console!Asked(flagQuery[flagPage])
    BY <1>0, ConsoleQuery DEF FlagsInv, FlagsTyped
  <2>2. flagPage \in Console!Pages
    BY DEF FlagsInv, FlagsTyped
  <2>3. k.at = "asked" /\ k.stale = flagQuery[flagPage].stale /\ k.data = flagQuery[flagPage].data
    BY <1>0, <2>1, <2>2, ConsoleQuery
  <2>4. /\ flagQuery' = [flagQuery EXCEPT ![flagPage] = k]
        /\ UNCHANGED <<screen, flag, flagPage, flagDialog, mut, toldFlag>>
    BY <1>1, <2>1 DEF Console!FlagAsked, Console!OnFlag
  <2>. QED  BY <2>2, <2>3, <2>4, FlagMoves
<1>2. ASSUME NEW p \in Console!Pages, Console!FlagAnswered(p) PROVE FlagsInv'
  <2>1. PICK v \in Console!Values :
            /\ v = IF screen = "users" THEN Console!UserAnswers(p) ELSE Console!RowAnswers
            /\ Omits(p) \/ v = flag
    BY DEF Console!UserAnswers, Console!RowAnswers, Console!Values, Omits, FlagsInv, FlagsTyped
  <2>2. PICK k : k = Console!Answered(flagQuery[p], v)
    OBVIOUS
  <2>3. /\ k \in Console!QueryOf(Console!Values) /\ k.stale = flagQuery[p].stale
        /\ k.data = flagQuery[p].data /\ k.answer = v
    BY <1>0, <2>2, ConsoleAnswered
  <2>4. /\ flagQuery' = [flagQuery EXCEPT ![p] = k]
        /\ UNCHANGED <<screen, flag, flagPage, flagDialog, mut, toldFlag>>
    BY <1>2, <2>1, <2>2 DEF Console!FlagAnswered, Console!OnFlag
  <2>. QED  BY <2>1, <2>3, <2>4, FlagMoves
<1>3. ASSUME NEW p \in Console!Pages, Console!FlagSettles(p) PROVE FlagsInv'
  <2>1. /\ Console!Settled(flagQuery[p]) \in Console!QueryOf(Console!Values)
        /\ Console!Settled(flagQuery[p]).data = flagQuery[p].answer
        /\ Console!Settled(flagQuery[p]).at = "idle"
        /\ Console!FetchFailed(flagQuery[p]) \in Console!QueryOf(Console!Values)
        /\ Console!FetchFailed(flagQuery[p]).data = flagQuery[p].data
        /\ Console!FetchFailed(flagQuery[p]).stale = flagQuery[p].stale
        /\ Console!FetchFailed(flagQuery[p]).at = "idle"
    BY <1>0, ConsoleQuery
  <2>2. PICK k : k = IF flagQuery[p].at = "read" THEN Console!Settled(flagQuery[p])
                     ELSE Console!FetchFailed(flagQuery[p])
    OBVIOUS
  <2>3. /\ flagQuery' = [flagQuery EXCEPT ![p] = k]
        /\ UNCHANGED <<screen, flag, flagPage, flagDialog, mut, toldFlag>>
    BY <1>3, <2>2 DEF Console!FlagSettles, Console!OnFlag
  <2>. QED  BY <2>1, <2>2, <2>3, FlagMoves
<1>. QED  BY <1>1, <1>2, <1>3

\* The toast, and the whole family of queries.
LEMMA FlagDoneStep == ASSUME FlagsInv, Console!FlagDone PROVE FlagsInv'
<1>0. /\ \A p \in Console!Pages : flagQuery[p] \in Console!QueryOf(Console!Values)
      /\ mut.at = "done" /\ mut.to \in Console!Values
  BY DEF FlagsInv, FlagsTyped, FlagMut, Console!FlagDone
<1>1. /\ flagQuery' = [p \in Console!Pages |-> IF p = flagPage THEN Console!Invalidated(flagQuery[p])
                                               ELSE [flagQuery[p] EXCEPT !.stale = TRUE]]
      /\ UNCHANGED <<screen, flag, flagPage>> /\ mut' = Console!IdleMut
      /\ toldFlag' = IF mut.sure /\ ~\E p \in Console!Pages :
                                        Console!LeftToSettle(flagQuery[p], p = flagPage)
                     THEN mut.to ELSE "nothing"
  BY DEF Console!FlagDone, Console!FamilyInvalidated, Console!OnFlag
<1>2. ASSUME NEW p \in Console!Pages
      PROVE  /\ flagQuery'[p] \in Console!QueryOf(Console!Values) /\ flagQuery'[p].stale
             /\ flagQuery'[p].at = "read" => Console!LeftToSettle(flagQuery[p], p = flagPage)
  <2>1. CASE p = flagPage
    <3>1. flagQuery'[p] = Console!Invalidated(flagQuery[p])
      BY <1>1, <2>1
    <3>. QED  BY <1>0, <2>1, <3>1, ConsoleInvalidated DEF Console!LeftToSettle
  <2>2. CASE p # flagPage
    <3>1. PICK k : k = [flagQuery[p] EXCEPT !.stale = TRUE]
      OBVIOUS
    <3>2. flagQuery'[p] = k
      BY <1>1, <2>2, <3>1
    <3>. QED  BY <1>0, <2>2, <3>1, <3>2, ConsoleStale DEF Console!LeftToSettle
  <2>. QED  BY <2>1, <2>2
<1>3. Console!IdleMut \in FlagMut /\ Console!IdleMut.at = "idle"
  BY DEF Console!IdleMut, FlagMut, Console!Values
<1>4. flagQuery' \in [Console!Pages -> Console!QueryOf(Console!Values)]
  <2>1. \A p \in Console!Pages : flagQuery'[p] \in Console!QueryOf(Console!Values)
    BY <1>2
  <2>2. flagQuery' = [p \in Console!Pages |-> flagQuery'[p]]
    BY <1>1
  <2>. QED  BY <2>1, <2>2
<1>5. flagDialog' \in [open : BOOLEAN, row : Console!Values]
  BY DEF Console!FlagDone, FlagsInv, FlagsTyped
<1>6. FlagsTyped'
  BY <1>0, <1>1, <1>3, <1>4, <1>5 DEF FlagsInv, FlagsTyped
<1>7. FlagsOK'
  BY <1>0, <1>1, <1>2, <1>3 DEF FlagsInv, FlagsOK
<1>. QED  BY <1>6, <1>7 DEF FlagsInv

FlagActions ==
    \/ \E p \in Console!Pages : Console!Navigate(p) \/ Console!FlagAnswered(p) \/ Console!FlagSettles(p)
    \/ Console!FlagAsked \/ Console!OpenDialog \/ Console!CloseDialog \/ Console!Confirm
    \/ Console!Enable \/ Console!FlagWritten \/ Console!FlagRefused \/ Console!FlagDone
    \/ Console!FlagFailed \/ Console!OthersFlag

LEMMA FlagsStep == ASSUME FlagsInv, FlagActions PROVE FlagsInv'
<1>0. \A p \in Console!Pages : flagQuery[p].data \in Console!Values
  <2>1. \A p \in Console!Pages : flagQuery[p] \in Console!QueryOf(Console!Values)
    BY DEF FlagsInv, FlagsTyped
  <2>. QED  BY <2>1, ConsoleQuery
<1>1. \A v : Console!Not(v) \in Console!Values
  BY DEF Console!Not, Console!Values
<1>2. CASE \/ \E p \in Console!Pages : Console!Navigate(p)
           \/ Console!OpenDialog \/ Console!CloseDialog
  <2>1. /\ flagPage' \in Console!Pages /\ flagDialog' \in [open : BOOLEAN, row : Console!Values]
        /\ UNCHANGED <<screen, flag, flagQuery, mut, toldFlag>>
    <3>1. flagPage \in Console!Pages /\ flagDialog \in [open : BOOLEAN, row : Console!Values]
      BY DEF FlagsInv, FlagsTyped
    <3>2. UNCHANGED <<screen, flag, flagQuery, mut, toldFlag>>
      BY <1>2 DEF Console!Navigate, Console!OpenDialog, Console!CloseDialog, Console!OnFlag
    <3>3. flagPage' \in Console!Pages
      BY <1>2, <3>1 DEF Console!Navigate, Console!OpenDialog, Console!CloseDialog
    <3>4. flagDialog' = flagDialog \/ flagDialog' = [flagDialog EXCEPT !.open = FALSE]
          \/ flagDialog' = [open |-> TRUE, row |-> flagQuery[flagPage].data]
      BY <1>2 DEF Console!Navigate, Console!OpenDialog, Console!CloseDialog
    <3>5. flagDialog' \in [open : BOOLEAN, row : Console!Values]
      <4>1. [flagDialog EXCEPT !.open = FALSE] \in [open : BOOLEAN, row : Console!Values]
        BY <3>1
      <4>2. [open |-> TRUE, row |-> flagQuery[flagPage].data] \in [open : BOOLEAN, row : Console!Values]
        BY <1>0, <3>1
      <4>. QED  BY <3>1, <3>4, <4>1, <4>2
    <3>. QED  BY <3>2, <3>3, <3>5
  <2>. QED  BY <2>1 DEF FlagsInv, FlagsTyped, FlagsOK, Omits
<1>3. CASE Console!Confirm \/ Console!Enable
  <2>1. /\ mut.at = "idle" /\ mut'.at = "asked"
        /\ UNCHANGED <<screen, flag, flagPage, flagQuery, flagDialog, toldFlag>>
    BY <1>3 DEF Console!Confirm, Console!Enable, Console!OnFlag
  <2>2. mut' \in FlagMut
    <3>1. Console!Target \in Console!Values
      BY <1>1 DEF Console!Target, Console!ListTarget, Console!PageTarget, Console!Values
    <3>2. (flagPage = "list" \/ Console!Fresh(flagQuery[flagPage])) \in BOOLEAN
      BY DEF Console!Fresh
    <3>3. \A v \in Console!Values, b \in BOOLEAN : [at |-> "asked", to |-> v, sure |-> b] \in FlagMut
      BY DEF FlagMut
    <3>4. CASE Console!Confirm
      BY <3>1, <3>2, <3>3, <3>4 DEF Console!Confirm
    <3>5. CASE Console!Enable
      BY <3>3, <3>5 DEF Console!Enable, Console!Values
    <3>. QED  BY <1>3, <3>4, <3>5
  <2>. QED  BY <2>1, <2>2 DEF FlagsInv, FlagsTyped, FlagsOK, Omits
<1>4. CASE Console!FlagWritten
  <2>1. /\ flag' = mut.to /\ mut' = [mut EXCEPT !.at = "done"] /\ mut \in FlagMut
        /\ UNCHANGED <<screen, flagPage, flagQuery, flagDialog, toldFlag>>
    BY <1>4 DEF Console!FlagWritten, Console!OnFlag, FlagsInv, FlagsTyped
  <2>2. mut' \in FlagMut /\ mut'.at = "done" /\ mut'.to = flag' /\ flag' \in Console!Values
    BY <2>1 DEF FlagMut
  <2>. QED  BY <2>1, <2>2 DEF FlagsInv, FlagsTyped, FlagsOK
<1>5. CASE Console!FlagRefused \/ Console!FlagFailed
  <2>1. /\ mut' \in FlagMut /\ mut'.at # "done"
        /\ toldFlag' = "nothing" \/ (mut.at # "done" /\ toldFlag' = toldFlag)
        /\ UNCHANGED <<screen, flag, flagPage, flagQuery, flagDialog>>
    <3>1. mut \in FlagMut /\ Console!IdleMut \in FlagMut /\ Console!IdleMut.at = "idle"
      BY DEF FlagsInv, FlagsTyped, Console!IdleMut, FlagMut, Console!Values
    <3>2. CASE Console!FlagRefused
      BY <3>1, <3>2 DEF Console!FlagRefused, Console!OnFlag, FlagMut
    <3>3. CASE Console!FlagFailed
      BY <3>1, <3>3 DEF Console!FlagFailed, Console!OnFlag
    <3>. QED  BY <1>5, <3>2, <3>3
  <2>. QED  BY <2>1 DEF FlagsInv, FlagsTyped, FlagsOK, Omits
<1>6. CASE Console!OthersFlag
  <2>1. /\ flag' \in Console!Values /\ toldFlag' = "nothing" /\ mut \in FlagMut
        /\ mut' = [mut EXCEPT !.sure = mut.sure /\ mut.at # "done"]
        /\ UNCHANGED <<screen, flagPage, flagQuery, flagDialog>>
    BY <1>1, <1>6 DEF Console!OthersFlag, Console!OnFlag, FlagsInv, FlagsTyped
  <2>2. mut' \in FlagMut /\ mut'.at = mut.at /\ (mut'.sure => mut.at # "done")
    BY <2>1 DEF FlagMut
  <2>. QED  BY <2>1, <2>2 DEF FlagsInv, FlagsTyped, FlagsOK
<1>. QED  BY <1>2, <1>3, <1>4, <1>5, <1>6, FlagFetchStep, FlagDoneStep DEF FlagActions

(***************************************************************************)
(* The console: roles.                                                     *)
(***************************************************************************)
RoleCall == [pc : {"idle", "look", "tally", "write", "done"}, op : {"create", "edit", "delete"},
             it : BOOLEAN, perm : Console!Grants]
RolesTyped ==
    /\ role \in Console!Grants /\ others \in Nat
    /\ call \in [Console!Procs -> RoleCall]
    /\ sel \in {"none", "it", "another"}
    /\ rq \in Console!QueryOf(Console!Grants)
    /\ editing \in [open : BOOLEAN, original : BOOLEAN, perm : Console!Grants]
    /\ toldRole \in Console!Grants \cup {"nothing"}

\* What the operator was told of the role holds, and neither what the list shows for fresh nor
\* what it will show was read before it.
RoleTold == toldRole # "nothing" => /\ role = toldRole
                                    /\ rq.at = "read" => rq.answer = toldRole
                                    /\ ~rq.stale => rq.data = toldRole

\* Without an overlap the only call that is about to create a role has found room for it.
Creates(c) == call[c].pc = "write" /\ call[c].op = "create"
RolesCounted ==
    ~overlap => /\ Console!Count <= MaxRoles
                /\ \A c, d \in Console!Procs : Creates(c) /\ Creates(d) => c = d
                /\ \A c \in Console!Procs : Creates(c) => Console!Count < MaxRoles

RolesInv == RolesTyped /\ RoleTold /\ RolesCounted

\* The step of a call that does not write.
LEMMA CallMoves ==
    ASSUME RolesInv, NEW c \in Console!Procs, NEW k \in RoleCall, call' = [call EXCEPT ![c] = k],
           UNCHANGED <<role, others, sel, rq, editing, toldRole>>,
           \/ UNCHANGED overlap /\ k.pc # "write"
           \/ UNCHANGED overlap /\ k.op # "create"
           \/ /\ overlap' = (overlap \/ Console!Overlaps(c)) /\ MaxRoles \in Nat
              /\ k.pc = "write" => Console!Count < MaxRoles
    PROVE  RolesInv'
<1>1. /\ call' \in [Console!Procs -> RoleCall] /\ call'[c] = k
      /\ \A d \in Console!Procs : d # c => call'[d] = call[d]
  BY DEF RolesInv, RolesTyped
<1>2. RolesTyped' /\ RoleTold'
  BY <1>1 DEF RolesInv, RolesTyped, RoleTold
<1>3. Console!Count' = Console!Count
  BY DEF Console!Count
<1>4. \A d \in Console!Procs : d # c => Creates(d)' = Creates(d)
  BY <1>1 DEF Creates
<1>5. RolesCounted'
  <2>1. CASE UNCHANGED overlap /\ ~Creates(c)'
    BY <1>3, <1>4, <2>1 DEF RolesInv, RolesCounted
  <2>2. CASE /\ overlap' = (overlap \/ Console!Overlaps(c))
             /\ k.pc = "write" => Console!Count < MaxRoles
    <3>1. Console!Overlaps(c) = \E d \in Console!Procs \ {c} : Creates(d)
      BY DEF Console!Overlaps, Creates
    <3>2. Creates(c)' => Console!Count < MaxRoles
      BY <1>1, <2>2 DEF Creates
    <3>. QED  BY <1>3, <1>4, <2>2, <3>1, <3>2 DEF RolesInv, RolesCounted
  <2>. QED  BY <1>1, <2>1, <2>2 DEF Creates
<1>. QED  BY <1>2, <1>5 DEF RolesInv

LEMMA CallTypes ==
    ASSUME RolesInv, NEW c \in Console!Procs
    PROVE  /\ call[c] \in RoleCall /\ Console!IdleCall \in RoleCall /\ Console!IdleCall.pc = "idle"
           /\ \A pc \in {"look", "tally", "write", "done"} :
                [call[c] EXCEPT !.pc = pc] \in RoleCall
           /\ \A pc \in {"look", "tally", "write", "done"} :
                /\ [call[c] EXCEPT !.pc = pc].pc = pc
                /\ [call[c] EXCEPT !.pc = pc].op = call[c].op
           /\ call[c].op \in {"create", "edit", "delete"}
<1>1. call[c] \in RoleCall
  BY DEF RolesInv, RolesTyped
<1>2. Console!IdleCall \in RoleCall /\ Console!IdleCall.pc = "idle"
  BY DEF Console!IdleCall, RoleCall, Console!Grants, Console!Perms
<1>3. \A pc \in {"look", "tally", "write", "done"} : [call[c] EXCEPT !.pc = pc] \in RoleCall
  BY <1>1 DEF RoleCall
<1>4. /\ \A pc \in {"look", "tally", "write", "done"} :
           /\ [call[c] EXCEPT !.pc = pc].pc = pc
           /\ [call[c] EXCEPT !.pc = pc].op = call[c].op
      /\ call[c].op \in {"create", "edit", "delete"}
  BY <1>1 DEF RoleCall
<1>. QED  BY <1>1, <1>2, <1>3, <1>4

LEMMA RoleCallStep ==
    ASSUME Console!NamesAssumption, RolesInv, NEW c \in Console!Procs,
           Console!RoleFails(c) \/ Console!RoleLooked(c) \/ Console!RoleTallied(c)
    PROVE  RolesInv'
<1>1. UNCHANGED <<role, others, sel, rq, editing, toldRole>>
  BY DEF Console!RoleFails, Console!RoleLooked, Console!RoleTallied
<1>2. CASE Console!RoleFails(c)
  <2>1. call' = [call EXCEPT ![c] = Console!IdleCall] /\ UNCHANGED overlap
    BY <1>2 DEF Console!RoleFails, Console!Goes
  <2>. QED  BY <1>1, <2>1, CallTypes, CallMoves
<1>3. CASE Console!RoleLooked(c)
  <2>1. PICK pc \in {"failed", "tally", "write"} :
            Console!Goes(c, pc) /\ UNCHANGED overlap /\ (pc = "write" => call[c].op # "create")
    BY <1>3 DEF Console!RoleLooked
  <2>2. CASE pc = "failed"
    <3>1. call' = [call EXCEPT ![c] = Console!IdleCall]
      BY <2>1, <2>2 DEF Console!Goes
    <3>. QED  BY <1>1, <2>1, <3>1, CallTypes, CallMoves
  <2>3. CASE pc \in {"tally", "write"}
    <3>1. PICK k : k = [call[c] EXCEPT !.pc = pc]
      OBVIOUS
    <3>2. call' = [call EXCEPT ![c] = k]
      BY <2>1, <2>3, <3>1 DEF Console!Goes
    <3>3. k \in RoleCall /\ k.pc = pc /\ k.op = call[c].op
      BY <2>3, <3>1, CallTypes
    <3>. QED  BY <1>1, <2>1, <2>3, <3>2, <3>3, CallMoves
  <2>. QED  BY <2>2, <2>3
<1>4. CASE Console!RoleTallied(c)
  <2>0. /\ overlap' = (overlap \/ Console!Overlaps(c)) /\ MaxRoles \in Nat
        /\ Console!Count \in Nat
    BY <1>4 DEF Console!RoleTallied, Console!NamesAssumption, Console!Count, RolesInv, RolesTyped
  <2>1. CASE Console!Count >= MaxRoles
    <3>1. call' = [call EXCEPT ![c] = Console!IdleCall]
      BY <1>4, <2>1 DEF Console!RoleTallied, Console!Goes
    <3>. QED  BY <1>1, <2>0, <3>1, CallTypes, CallMoves
  <2>2. CASE ~(Console!Count >= MaxRoles)
    <3>1. PICK k : k = [call[c] EXCEPT !.pc = "write"]
      OBVIOUS
    <3>2. call' = [call EXCEPT ![c] = k]
      BY <1>4, <2>2, <3>1 DEF Console!RoleTallied, Console!Goes
    <3>3. k \in RoleCall
      BY <3>1, CallTypes
    <3>4. Console!Count < MaxRoles
      BY <2>0, <2>2
    <3>. QED  BY <1>1, <2>0, <3>2, <3>3, <3>4, CallMoves
  <2>. QED  BY <2>1, <2>2
<1>. QED  BY <1>2, <1>3, <1>4

\* The statement that writes.
LEMMA RoleWriteStep ==
    ASSUME Console!NamesAssumption, RolesInv, NEW c \in Console!Procs, Console!RoleWritten(c)
    PROVE  RolesInv'
<1>0. /\ call[c].pc = "write" /\ UNCHANGED <<sel, rq, editing, overlap>>
      /\ call[c].perm \in Console!Grants /\ call[c].it \in BOOLEAN /\ MaxRoles \in Nat
      /\ call[c].op \in {"create", "edit", "delete"}
      /\ role \in Console!Grants /\ others \in Nat
      /\ toldRole' = IF role' # role THEN "nothing" ELSE toldRole
  BY CallTypes DEF Console!RoleWritten, Console!NamesAssumption, RolesInv, RolesTyped, RoleCall
<1>1. PICK k \in RoleCall : call' = [call EXCEPT ![c] = k] /\ k.pc # "write"
  <2>1. PICK pc \in {"failed", "done"} : Console!Goes(c, pc)
    BY DEF Console!RoleWritten
  <2>2. CASE pc = "failed" \/ c = "other"
    <3>1. call' = [call EXCEPT ![c] = Console!IdleCall]
      BY <2>1, <2>2 DEF Console!Goes
    <3>. QED  BY <3>1, CallTypes
  <2>3. CASE ~(pc = "failed" \/ c = "other")
    <3>1. PICK k : k = [call[c] EXCEPT !.pc = "done"]
      OBVIOUS
    <3>2. call' = [call EXCEPT ![c] = k]
      BY <2>1, <2>3, <3>1 DEF Console!Goes
    <3>. QED  BY <3>1, <3>2, CallTypes
  <2>. QED  BY <2>2, <2>3
<1>2. /\ role' \in Console!Grants /\ others' \in Nat
      /\ Console!Count \in Nat /\ Console!Count' \in Nat
      /\ Console!Count' <= Console!Count + (IF call[c].op = "create" THEN 1 ELSE 0)
  <2>1. CASE (Console!Here(call[c]) # (call[c].op = "create")) = FALSE
    <3>1. role' = role /\ others' = others
      BY <2>1 DEF Console!RoleWritten
    <3>. QED  BY <1>0, <3>1 DEF Console!Count
  <2>2. CASE Console!Here(call[c]) # (call[c].op = "create")
    <3>1. CASE call[c].it
      <4>1. role' = call[c].perm /\ others' = others
        BY <2>2, <3>1 DEF Console!RoleWritten
      <4>2. call[c].op # "create" => role # "none"
        BY <2>2, <3>1 DEF Console!Here
      <4>. QED  BY <1>0, <4>1, <4>2 DEF Console!Count
    <3>2. CASE ~call[c].it
      <4>1. role' = role
        BY <3>2 DEF Console!RoleWritten
      <4>2. CASE call[c].op = "create"
        <5>1. others' = others + 1
          BY <2>2, <3>2, <4>2 DEF Console!RoleWritten
        <5>. QED  BY <1>0, <4>1, <4>2, <5>1 DEF Console!Count
      <4>3. CASE call[c].op = "delete"
        <5>1. others' = others - 1
          BY <2>2, <3>2, <4>3 DEF Console!RoleWritten
        <5>2. others > 0
          BY <2>2, <3>2, <4>3 DEF Console!Here
        <5>. QED  BY <1>0, <4>1, <4>3, <5>1, <5>2 DEF Console!Count
      <4>4. CASE call[c].op = "edit"
        <5>1. others' = others
          BY <2>2, <3>2, <4>4 DEF Console!RoleWritten
        <5>. QED  BY <1>0, <4>1, <4>4, <5>1 DEF Console!Count
      <4>. QED  BY <1>0, <4>2, <4>3, <4>4
    <3>. QED  BY <3>1, <3>2
  <2>. QED  BY <2>1, <2>2 DEF Console!Here
<1>3. /\ call' \in [Console!Procs -> RoleCall] /\ call'[c].pc # "write"
      /\ \A d \in Console!Procs : d # c => call'[d] = call[d]
  BY <1>1 DEF RolesInv, RolesTyped
<1>4. RolesTyped'
  BY <1>0, <1>2, <1>3 DEF RolesInv, RolesTyped
<1>5. RoleTold'
  BY <1>0 DEF RolesInv, RoleTold
<1>6. RolesCounted'
  <2>1. \A d \in Console!Procs : Creates(d)' => d # c /\ Creates(d)
    BY <1>3 DEF Creates
  <2>2. CASE call[c].op = "create"
    <3>1. Creates(c)
      BY <1>0, <2>2 DEF Creates
    <3>. QED  BY <1>0, <1>2, <2>1, <2>2, <3>1 DEF RolesInv, RolesCounted
  <2>3. CASE call[c].op # "create"
    BY <1>0, <1>2, <2>1, <2>3 DEF RolesInv, RolesCounted
  <2>. QED  BY <2>2, <2>3
<1>. QED  BY <1>4, <1>5, <1>6 DEF RolesInv

LEMMA RoleCalled ==
    ASSUME RolesInv,
           \/ \E op \in {"create", "edit", "delete"}, it \in BOOLEAN, p \in Console!Grants :
                 Console!OthersRole(op, it, p)
           \/ Console!SaveRole \/ Console!DeleteRole
    PROVE  RolesInv'
<1>1. UNCHANGED <<role, others, sel, rq, editing, toldRole, overlap>>
  BY DEF Console!OthersRole, Console!SaveRole, Console!DeleteRole
<1>2. \A o \in {"create", "edit", "delete"}, b \in BOOLEAN, g \in Console!Grants :
         [pc |-> "look", op |-> o, it |-> b, perm |-> g] \in RoleCall
  BY DEF RoleCall
<1>3. editing.perm \in Console!Grants /\ "none" \in Console!Grants
  BY DEF RolesInv, RolesTyped, Console!Grants
<1>4. ASSUME NEW o \in {"create", "edit", "delete"}, NEW b \in BOOLEAN, NEW g \in Console!Grants,
             NEW c \in Console!Procs,
             call' = [call EXCEPT ![c] = [pc |-> "look", op |-> o, it |-> b, perm |-> g]]
      PROVE  RolesInv'
  <2>1. PICK k \in RoleCall : k = [pc |-> "look", op |-> o, it |-> b, perm |-> g]
    BY <1>2
  <2>2. call' = [call EXCEPT ![c] = k] /\ k.pc # "write"
    BY <1>4, <2>1
  <2>. QED  BY <1>1, <2>2, CallMoves
<1>5. ASSUME NEW o \in {"create", "edit", "delete"}, NEW b \in BOOLEAN, NEW g \in Console!Grants,
             Console!OthersRole(o, b, g)
      PROVE  RolesInv'
  BY <1>4, <1>5 DEF Console!OthersRole, Console!Procs
<1>6. CASE Console!SaveRole
  BY <1>3, <1>4, <1>6 DEF Console!SaveRole, Console!Procs
<1>7. CASE Console!DeleteRole
  BY <1>3, <1>4, <1>7 DEF Console!DeleteRole, Console!Procs
<1>. QED  BY <1>5, <1>6, <1>7

LEMMA RolesFetchStep ==
    ASSUME RolesInv, Console!RolesAsked \/ Console!RolesAnswered \/ Console!RolesSettle
    PROVE  RolesInv'
<1>0. rq \in Console!QueryOf(Console!Grants) /\ role \in Console!Grants
  BY DEF RolesInv, RolesTyped
<1>1. UNCHANGED <<role, others, call, sel, editing, toldRole, overlap>>
  BY DEF Console!RolesAsked, Console!RolesAnswered, Console!RolesSettle
<1>2. /\ rq' \in Console!QueryOf(Console!Grants)
      /\ rq'.at = "read" => rq'.answer = role
      /\ ~rq'.stale => \/ ~rq.stale /\ rq'.data = rq.data
                       \/ rq.at = "read" /\ rq'.data = rq.answer
  <2>1. CASE Console!RolesAsked
    <3>1. rq' = Console!Asked(rq)
      BY <2>1 DEF Console!RolesAsked
    <3>. QED  BY <1>0, <3>1, ConsoleQuery
  <2>2. CASE Console!RolesAnswered
    <3>1. rq' = Console!Answered(rq, role)
      BY <2>2 DEF Console!RolesAnswered
    <3>. QED  BY <1>0, <3>1, ConsoleAnswered
  <2>3. CASE Console!RolesSettle
    <3>1. rq' = IF rq.at = "read" THEN Console!Settled(rq) ELSE Console!FetchFailed(rq)
      BY <2>3 DEF Console!RolesSettle
    <3>. QED  BY <1>0, <3>1, ConsoleQuery
  <2>. QED  BY <2>1, <2>2, <2>3
<1>3. RolesTyped'
  BY <1>1, <1>2 DEF RolesInv, RolesTyped
<1>4. RoleTold'
  BY <1>1, <1>2 DEF RolesInv, RoleTold
<1>5. RolesCounted'
  BY <1>1 DEF RolesInv, RolesCounted, Creates, Console!Count
<1>. QED  BY <1>3, <1>4, <1>5 DEF RolesInv

\* The toast: the list that is shown is read again.
LEMMA RoleDoneStep ==
    ASSUME RolesInv, NEW c \in Console!Procs, Console!RoleDone(c)
    PROVE  RolesInv'
<1>0. /\ rq \in Console!QueryOf(Console!Grants) /\ role \in Console!Grants
      /\ call[c].perm \in Console!Grants
  BY CallTypes DEF RolesInv, RolesTyped, RoleCall
<1>1. /\ call' = [call EXCEPT ![c] = Console!IdleCall] /\ UNCHANGED <<role, others, sel, overlap>>
      /\ toldRole' = Console!Relied(c)
      /\ rq' = IF sel = "it" THEN Console!Invalidated(rq) ELSE rq
  BY DEF Console!RoleDone
<1>2. editing' \in [open : BOOLEAN, original : BOOLEAN, perm : Console!Grants]
  <2>1. Console!Closed \in [open : BOOLEAN, original : BOOLEAN, perm : Console!Grants]
    BY DEF Console!Closed, Console!Grants
  <2>. QED  BY <2>1 DEF Console!RoleDone, RolesInv, RolesTyped
<1>3. rq' \in Console!QueryOf(Console!Grants)
  BY <1>0, <1>1, ConsoleInvalidated
<1>4. toldRole' \in Console!Grants \cup {"nothing"}
  BY <1>0, <1>1 DEF Console!Relied
<1>5. /\ call' \in [Console!Procs -> RoleCall] /\ call'[c].pc = "idle"
      /\ \A d \in Console!Procs : d # c => call'[d] = call[d]
  BY <1>1, CallTypes DEF RolesInv, RolesTyped
<1>6. RolesTyped'
  BY <1>1, <1>2, <1>3, <1>4, <1>5 DEF RolesInv, RolesTyped
<1>7. RoleTold'
  <2>1. CASE toldRole' # "nothing"
    <3>1. sel = "it" /\ toldRole' = role /\ ~(rq.at = "read" /\ ~rq.has)
      BY <1>1, <2>1 DEF Console!Relied, Console!LeftToSettle
    <3>2. rq'.stale /\ rq'.at # "read"
      BY <1>0, <1>1, <3>1, ConsoleInvalidated
    <3>. QED  BY <1>1, <3>1, <3>2 DEF RoleTold
  <2>. QED  BY <2>1 DEF RoleTold
<1>8. RolesCounted'
  <2>1. \A d \in Console!Procs : Creates(d)' => Creates(d)
    BY <1>5 DEF Creates
  <2>2. Console!Count' = Console!Count
    BY <1>1 DEF Console!Count
  <2>. QED  BY <1>1, <2>1, <2>2 DEF RolesInv, RolesCounted
<1>. QED  BY <1>6, <1>7, <1>8 DEF RolesInv

RoleActions ==
    \/ \E c \in Console!Procs : \/ Console!RoleFails(c) \/ Console!RoleLooked(c)
                                \/ Console!RoleTallied(c) \/ Console!RoleWritten(c) \/ Console!RoleDone(c)
    \/ \E t \in {"it", "another"} : Console!SelectTenant(t)
    \/ \E op \in {"create", "edit", "delete"}, it \in BOOLEAN, p \in Console!Grants :
          Console!OthersRole(op, it, p)
    \/ \E isNew \in BOOLEAN : Console!EditRole(isNew)
    \/ Console!RolesAsked \/ Console!RolesAnswered \/ Console!RolesSettle
    \/ Console!DeleteRole \/ Console!CancelRole \/ Console!SaveRole

LEMMA RolesStep == ASSUME Console!NamesAssumption, RolesInv, RoleActions PROVE RolesInv'
<1>1. CASE \/ \E t \in {"it", "another"} : Console!SelectTenant(t)
           \/ \E isNew \in BOOLEAN : Console!EditRole(isNew)
           \/ Console!CancelRole
  <2>1. UNCHANGED <<role, others, call, rq, toldRole, overlap>> /\ sel' \in {"none", "it", "another"}
    BY <1>1 DEF Console!SelectTenant, Console!EditRole, Console!CancelRole, RolesInv, RolesTyped
  <2>2. editing' \in [open : BOOLEAN, original : BOOLEAN, perm : Console!Grants]
    <3>1. CASE \E t \in {"it", "another"} : Console!SelectTenant(t)
      BY <3>1 DEF Console!SelectTenant, RolesInv, RolesTyped
    <3>2. ASSUME NEW b \in BOOLEAN, Console!EditRole(b)
          PROVE  editing' \in [open : BOOLEAN, original : BOOLEAN, perm : Console!Grants]
      BY <3>2 DEF Console!EditRole, Console!Grants
    <3>3. CASE Console!CancelRole
      BY <3>3 DEF Console!CancelRole, Console!Closed, Console!Grants
    <3>. QED  BY <1>1, <3>1, <3>2, <3>3
  <2>3. RolesTyped' /\ RoleTold'
    BY <2>1, <2>2 DEF RolesInv, RolesTyped, RoleTold
  <2>4. RolesCounted'
    BY <2>1 DEF RolesInv, RolesCounted, Creates, Console!Count
  <2>. QED  BY <2>3, <2>4 DEF RolesInv
<1>. QED  BY <1>1, RoleCallStep, RoleWriteStep, RoleCalled, RolesFetchStep, RoleDoneStep DEF RoleActions

(***************************************************************************)
(* The console: files.                                                     *)
(***************************************************************************)
FileDelete == [file : Files \cup {Console!NoId}, at : {"idle", "asked", "done", "failed"},
               of : Files \cup {Console!NoId}]
FileUploads == {"none", "signed", "completed", "ended"}
FilesTold == {"nothing", "uploaded", "deleted", "unsure"}
FilesTyped ==
    /\ file \in [Files -> Console!Statuses]
    /\ fq \in Console!QueryOf([Files -> Console!Statuses])
    /\ upload \in [Files -> FileUploads]
    /\ del \in FileDelete
    /\ toldFile \in [Files -> FilesTold]

\* A file the operator was told is deleted is, and neither what the list shows for fresh nor what
\* it will show was read before.
FilesOK ==
    /\ del.at # "idle" => del.of \in Files
    /\ del.at = "done" => file[del.of] = "deleted"
    /\ \A f \in Files : toldFile[f] = "deleted" =>
         /\ file[f] = "deleted"
         /\ fq.at = "read" => fq.answer[f] = "absent"
         /\ ~fq.stale => fq.data[f] = "absent"

FilesInv == FilesTyped /\ FilesOK

\* A file and its upload move on; one that is deleted stays so.
LEMMA FileMoves ==
    ASSUME FilesInv, NEW f \in Files, NEW st \in Console!Statuses, NEW u \in FileUploads,
           file' = [file EXCEPT ![f] = st], upload' = [upload EXCEPT ![f] = u],
           file[f] = "deleted" => st = "deleted", UNCHANGED <<fq, del, toldFile>>
    PROVE  FilesInv'
<1>1. /\ file' \in [Files -> Console!Statuses] /\ upload' \in [Files -> FileUploads]
      /\ \A g \in Files : file[g] = "deleted" => file'[g] = "deleted"
  BY DEF FilesInv, FilesTyped
<1>2. FilesTyped'
  BY <1>1 DEF FilesInv, FilesTyped
<1>3. FilesOK'
  BY <1>1 DEF FilesInv, FilesOK
<1>. QED  BY <1>2, <1>3 DEF FilesInv

FileActions(f) ==
    \/ Console!AdminSignUpload(f) \/ Console!AdminSignFails(f) \/ Console!AdminCompleteUpload(f)
    \/ Console!AdminCompleteNotFound(f) \/ Console!UploadFails(f) \/ Console!OthersComplete(f)
    \/ Console!WorkerStarts(f) \/ Console!WorkerEnds(f) \/ Console!OthersDelete(f)

LEMMA FileStep == ASSUME FilesInv, NEW f \in Files, FileActions(f) PROVE FilesInv'
<1>1. UNCHANGED <<fq, del, toldFile>>
  BY DEF FileActions, Console!AdminSignUpload, Console!AdminSignFails, Console!AdminCompleteUpload,
         Console!AdminCompleteNotFound, Console!UploadFails, Console!OthersComplete,
         Console!WorkerStarts, Console!WorkerEnds, Console!OthersDelete
<1>2. /\ file[f] \in Console!Statuses /\ upload[f] \in FileUploads
      /\ file = [file EXCEPT ![f] = file[f]] /\ upload = [upload EXCEPT ![f] = upload[f]]
      /\ {"pending", "uploaded", "transforming", "ready", "failed", "deleted"} \subseteq Console!Statuses
  BY DEF FilesInv, FilesTyped, Console!Statuses
<1>3. PICK st \in Console!Statuses :
          file' = [file EXCEPT ![f] = st] /\ (file[f] = "deleted" => st = "deleted")
  <2>1. CASE \/ Console!AdminSignUpload(f) \/ Console!AdminSignFails(f)
             \/ Console!AdminCompleteNotFound(f) \/ Console!UploadFails(f)
    BY <1>2, <2>1 DEF Console!AdminSignUpload, Console!AdminSignFails,
                      Console!AdminCompleteNotFound, Console!UploadFails
  <2>2. CASE Console!AdminCompleteUpload(f)
    BY <1>2, <2>2 DEF Console!AdminCompleteUpload
  <2>3. CASE \/ Console!OthersComplete(f) \/ Console!WorkerStarts(f)
             \/ Console!WorkerEnds(f) \/ Console!OthersDelete(f)
    BY <1>2, <2>3 DEF Console!OthersComplete, Console!WorkerStarts, Console!WorkerEnds, Console!OthersDelete
  <2>. QED  BY <2>1, <2>2, <2>3 DEF FileActions
<1>4. PICK u \in FileUploads : upload' = [upload EXCEPT ![f] = u]
  BY <1>2 DEF FileActions, Console!AdminSignUpload, Console!AdminSignFails,
              Console!AdminCompleteUpload, Console!AdminCompleteNotFound, Console!UploadFails,
              Console!OthersComplete, Console!WorkerStarts, Console!WorkerEnds, Console!OthersDelete, FileUploads
<1>. QED  BY <1>1, <1>3, <1>4, FileMoves

\* The list's query moves on, and the operator is told nothing new of what is deleted.
LEMMA FilesFetched ==
    ASSUME FilesInv, UNCHANGED <<file, upload, del>>, toldFile' \in [Files -> FilesTold],
           \A f \in Files : toldFile'[f] = "deleted" => toldFile[f] = "deleted",
           fq' \in Console!QueryOf([Files -> Console!Statuses]),
           fq'.at = "read" => \/ fq'.answer = Console!Listed
                              \/ fq.at = "read" /\ fq'.answer = fq.answer,
           ~fq'.stale => \/ ~fq.stale /\ fq'.data = fq.data
                         \/ fq.at = "read" /\ fq'.data = fq.answer
    PROVE  FilesInv'
<1>1. FilesTyped'
  BY DEF FilesInv, FilesTyped
<1>2. \A f \in Files : file[f] = "deleted" => Console!Listed[f] = "absent"
  BY DEF Console!Listed, Console!Live
<1>3. FilesOK'
  <2>1. \A f \in Files : toldFile'[f] = "deleted" =>
          /\ file'[f] = "deleted"
          /\ fq'.at = "read" => fq'.answer[f] = "absent"
          /\ ~fq'.stale => fq'.data[f] = "absent"
    BY <1>2 DEF FilesInv, FilesOK
  <2>. QED  BY <2>1 DEF FilesInv, FilesOK
<1>. QED  BY <1>1, <1>3 DEF FilesInv

LEMMA FilesFetchStep ==
    ASSUME FilesInv,
           Console!FilesAsked \/ Console!FilesAnswered \/ Console!FilesSettle \/ Console!FilesFail
    PROVE  FilesInv'
<1>0. /\ fq \in Console!QueryOf([Files -> Console!Statuses]) /\ toldFile \in [Files -> FilesTold]
      /\ UNCHANGED <<file, upload, del>>
  BY DEF Console!FilesAsked, Console!FilesAnswered, Console!FilesSettle, Console!FilesFail,
         FilesInv, FilesTyped
<1>1. CASE Console!FilesAsked
  <2>1. fq' = Console!Asked(fq) /\ UNCHANGED toldFile
    BY <1>1 DEF Console!FilesAsked
  <2>2. /\ fq' \in Console!QueryOf([Files -> Console!Statuses]) /\ fq'.at = "asked"
        /\ fq'.stale = fq.stale /\ fq'.data = fq.data
    BY <1>0, <2>1, ConsoleQuery
  <2>. QED  BY <1>0, <2>1, <2>2, FilesFetched
<1>2. CASE Console!FilesAnswered
  <2>1. fq' = Console!Answered(fq, Console!Listed) /\ UNCHANGED toldFile
    BY <1>2 DEF Console!FilesAnswered
  <2>2. Console!Listed \in [Files -> Console!Statuses]
    BY DEF Console!Listed, Console!Statuses, FilesInv, FilesTyped
  <2>3. /\ fq' \in Console!QueryOf([Files -> Console!Statuses]) /\ fq'.answer = Console!Listed
        /\ fq'.stale = fq.stale /\ fq'.data = fq.data
    BY <1>0, <2>1, <2>2, ConsoleAnswered
  <2>. QED  BY <1>0, <2>1, <2>3, FilesFetched
<1>3. CASE Console!FilesSettle
  <2>1. fq' = Console!Settled(fq) /\ fq.at = "read" /\ UNCHANGED toldFile
    BY <1>3 DEF Console!FilesSettle
  <2>2. /\ fq' \in Console!QueryOf([Files -> Console!Statuses]) /\ fq'.at = "idle"
        /\ fq'.data = fq.answer
    BY <1>0, <2>1, ConsoleQuery
  <2>. QED  BY <1>0, <2>1, <2>2, FilesFetched
<1>4. CASE Console!FilesFail
  <2>1. fq' = Console!FetchFailed(fq)
    BY <1>4 DEF Console!FilesFail
  <2>2. /\ fq' \in Console!QueryOf([Files -> Console!Statuses]) /\ fq'.at = "idle"
        /\ fq'.stale = fq.stale /\ fq'.data = fq.data
    BY <1>0, <2>1, ConsoleQuery
  <2>3. /\ toldFile' \in [Files -> FilesTold]
        /\ \A f \in Files : toldFile'[f] = "deleted" => toldFile[f] = "deleted"
    BY <1>0, <1>4 DEF Console!FilesFail, FilesTold
  <2>. QED  BY <1>0, <2>2, <2>3, FilesFetched
<1>. QED  BY <1>1, <1>2, <1>3, <1>4

\* An answer begins the list's fetch again.
LEMMA FilesRefreshed ==
    ASSUME FilesInv, fq' = Console!Invalidated(fq), UNCHANGED file,
           upload' \in [Files -> FileUploads], NEW f \in Files, NEW t \in FilesTold,
           toldFile' = [toldFile EXCEPT ![f] = t],
           t = "deleted" => file[f] = "deleted" /\ ~Console!LeftToSettle(fq, TRUE),
           UNCHANGED del \/ del' = Console!NoDelete
    PROVE  FilesInv'
<1>1. /\ fq' \in Console!QueryOf([Files -> Console!Statuses]) /\ fq'.stale
      /\ fq'.at = "read" => ~fq.has /\ fq.at = "read" /\ fq'.answer = fq.answer
  BY ConsoleInvalidated DEF FilesInv, FilesTyped
<1>2. /\ toldFile' \in [Files -> FilesTold] /\ toldFile'[f] = t
      /\ \A g \in Files : g # f => toldFile'[g] = toldFile[g]
  BY DEF FilesInv, FilesTyped
<1>3. Console!NoDelete \in FileDelete /\ Console!NoDelete.at = "idle"
  BY DEF Console!NoDelete, FileDelete
<1>4. FilesTyped'
  BY <1>1, <1>2, <1>3 DEF FilesInv, FilesTyped
<1>5. FilesOK'
  <2>1. \A g \in Files : toldFile'[g] = "deleted" =>
          /\ file[g] = "deleted"
          /\ fq'.at = "read" => fq'.answer[g] = "absent"
    BY <1>1, <1>2 DEF FilesInv, FilesOK, Console!LeftToSettle
  <2>. QED  BY <1>1, <1>3, <2>1 DEF FilesInv, FilesOK
<1>. QED  BY <1>4, <1>5 DEF FilesInv

LEMMA FileAnswered ==
    ASSUME FilesInv, Console!DeleteDone \/ \E f \in Files : Console!Uploaded(f)
    PROVE  FilesInv'
<1>0. upload \in [Files -> FileUploads]
  BY DEF FilesInv, FilesTyped
<1>1. ASSUME NEW f \in Files, Console!Uploaded(f) PROVE FilesInv'
  <2>1. PICK t \in {"unsure", "uploaded"} : toldFile' = [toldFile EXCEPT ![f] = t]
    BY <1>1 DEF Console!Uploaded
  <2>2. upload' \in [Files -> FileUploads] /\ t \in FilesTold
    BY <1>0, <1>1 DEF Console!Uploaded, FileUploads, FilesTold
  <2>. QED  BY <1>1, <2>1, <2>2, FilesRefreshed DEF Console!Uploaded
<1>2. CASE Console!DeleteDone
  <2>1. PICK f \in Files : f = del.of /\ file[f] = "deleted"
    BY <1>2 DEF Console!DeleteDone, FilesInv, FilesOK
  <2>2. PICK t \in {"unsure", "deleted"} :
            /\ toldFile' = [toldFile EXCEPT ![f] = t]
            /\ t = "deleted" => ~Console!LeftToSettle(fq, TRUE)
    BY <1>2, <2>1 DEF Console!DeleteDone
  <2>3. t \in FilesTold
    BY DEF FilesTold
  <2>. QED  BY <1>0, <1>2, <2>1, <2>2, <2>3, FilesRefreshed DEF Console!DeleteDone
<1>. QED  BY <1>1, <1>2

\* The dialog of the card, and its call.
LEMMA FileDeleteStep ==
    ASSUME FilesInv,
           \/ \E f \in Files : Console!AskDelete(f)
           \/ Console!KeepFile \/ Console!ConfirmDelete \/ Console!DeleteFailed
           \/ Console!AdminDeleteFile
    PROVE  FilesInv'
<1>0. /\ del \in FileDelete /\ UNCHANGED <<fq, upload, toldFile>>
      /\ file \in [Files -> Console!Statuses]
  BY DEF Console!AskDelete, Console!KeepFile, Console!ConfirmDelete, Console!DeleteFailed,
         Console!AdminDeleteFile, FilesInv, FilesTyped
<1>1. \A e : FilesInv /\ del' = e /\ e \in FileDelete /\ UNCHANGED file
             /\ (e.at # "idle" => e.of \in Files) /\ (e.at = "done" => file[e.of] = "deleted")
             => FilesInv'
  BY <1>0 DEF FilesInv, FilesTyped, FilesOK
<1>2. ASSUME NEW f \in Files, Console!AskDelete(f) PROVE FilesInv'
  <2>1. PICK e : e = [del EXCEPT !.file = f]
    OBVIOUS
  <2>2. e \in FileDelete /\ e.at = del.at /\ e.of = del.of
    BY <1>0, <2>1 DEF FileDelete
  <2>. QED  BY <1>1, <1>2, <2>1, <2>2 DEF Console!AskDelete, FilesInv, FilesOK
<1>3. CASE Console!KeepFile
  <2>1. PICK e : e = [del EXCEPT !.file = Console!NoId]
    OBVIOUS
  <2>2. e \in FileDelete /\ e.at = del.at /\ e.of = del.of
    BY <1>0, <2>1 DEF FileDelete
  <2>. QED  BY <1>1, <1>3, <2>1, <2>2 DEF Console!KeepFile, FilesInv, FilesOK
<1>4. CASE Console!ConfirmDelete
  <2>1. PICK e : e = [del EXCEPT !.at = "asked", !.of = del.file]
    OBVIOUS
  <2>2. e \in FileDelete /\ e.at = "asked" /\ e.of \in Files
    BY <1>0, <1>4, <2>1 DEF FileDelete, Console!ConfirmDelete
  <2>. QED  BY <1>1, <1>4, <2>1, <2>2 DEF Console!ConfirmDelete
<1>5. CASE Console!DeleteFailed
  <2>1. PICK e : e = [del EXCEPT !.at = "idle", !.of = Console!NoId]
    OBVIOUS
  <2>2. e \in FileDelete /\ e.at = "idle"
    BY <1>0, <2>1 DEF FileDelete
  <2>. QED  BY <1>1, <1>5, <2>1, <2>2 DEF Console!DeleteFailed
<1>6. CASE Console!AdminDeleteFile
  <2>1. del.at = "asked" /\ del.of \in Files
    BY <1>6 DEF Console!AdminDeleteFile, FilesInv, FilesOK
  <2>2. CASE del' = [del EXCEPT !.at = "failed"] /\ UNCHANGED file
    <3>1. PICK e : e = [del EXCEPT !.at = "failed"]
      OBVIOUS
    <3>2. e \in FileDelete /\ e.at = "failed" /\ e.of = del.of
      BY <1>0, <3>1 DEF FileDelete
    <3>. QED  BY <1>1, <2>1, <2>2, <3>1, <3>2
  <2>3. CASE del' = [del EXCEPT !.at = "done"] /\ file' = [file EXCEPT ![del.of] = "deleted"]
    <3>1. del' \in FileDelete /\ del'.at = "done" /\ del'.of = del.of
      BY <1>0, <2>3 DEF FileDelete
    <3>2. /\ file' \in [Files -> Console!Statuses] /\ file'[del.of] = "deleted"
          /\ \A g \in Files : file[g] = "deleted" => file'[g] = "deleted"
      BY <1>0, <2>1, <2>3 DEF Console!Statuses
    <3>3. FilesTyped'
      BY <1>0, <3>1, <3>2 DEF FilesInv, FilesTyped
    <3>4. FilesOK'
      BY <1>0, <2>1, <3>1, <3>2 DEF FilesInv, FilesOK
    <3>. QED  BY <3>3, <3>4 DEF FilesInv
  <2>. QED  BY <1>6, <2>2, <2>3 DEF Console!AdminDeleteFile
<1>. QED  BY <1>2, <1>3, <1>4, <1>5, <1>6

FilesActions ==
    \/ \E f \in Files : FileActions(f) \/ Console!Uploaded(f) \/ Console!AskDelete(f)
    \/ Console!FilesAsked \/ Console!FilesAnswered \/ Console!FilesSettle \/ Console!FilesFail
    \/ Console!KeepFile \/ Console!ConfirmDelete \/ Console!AdminDeleteFile \/ Console!DeleteDone
    \/ Console!DeleteFailed

LEMMA FilesStep == FilesInv /\ FilesActions => FilesInv'
BY FileStep, FilesFetchStep, FileAnswered, FileDeleteStep DEF FilesActions

-----------------------------------------------------------------------------
\* The three parts of the console, each of which leaves the others alone.
ConsoleInv == screen \in Consoles /\ FlagsInv /\ RolesInv /\ FilesInv

LEMMA ConsoleInitial == ASSUME Console!NamesAssumption, Console!Init PROVE ConsoleInv
<1>1. /\ Console!NoQuery("off") \in Console!QueryOf(Console!Values)
      /\ Console!NoQuery("off").stale /\ Console!NoQuery("off").at = "idle"
      /\ Console!NoQuery("none") \in Console!QueryOf(Console!Grants)
  BY DEF Console!NoQuery, Console!QueryOf, Console!Values, Console!Grants
<1>2. FlagsInv
  <2>1. Console!IdleMut \in FlagMut /\ Console!IdleMut.at = "idle"
    BY DEF Console!IdleMut, FlagMut, Console!Values
  <2>2. FlagsTyped
    BY <1>1, <2>1 DEF Console!Init, FlagsTyped, Console!Values, Console!Pages
  <2>. QED  BY <2>1, <2>2 DEF Console!Init, FlagsInv, FlagsOK
<1>3. RolesInv
  <2>1. Console!IdleCall \in RoleCall /\ Console!IdleCall.pc = "idle"
    BY DEF Console!IdleCall, RoleCall, Console!Grants, Console!Perms
  <2>2. Console!Closed \in [open : BOOLEAN, original : BOOLEAN, perm : Console!Grants]
    BY DEF Console!Closed, Console!Grants
  <2>3. RolesTyped
    BY <1>1, <2>1, <2>2 DEF Console!Init, RolesTyped, Console!Grants
  <2>4. Console!Count = 0 /\ 0 <= MaxRoles
    BY DEF Console!Init, Console!Count, Console!NamesAssumption
  <2>5. \A c \in Console!Procs : ~Creates(c)
    BY <2>1 DEF Console!Init, Creates
  <2>. QED  BY <2>3, <2>4, <2>5 DEF Console!Init, RolesInv, RoleTold, RolesCounted
<1>4. FilesInv
  <2>1. PICK none \in [Files -> Console!Statuses] : none = [f \in Files |-> "absent"]
    BY DEF Console!Statuses
  <2>2. Console!NoQuery(none) \in Console!QueryOf([Files -> Console!Statuses])
    BY DEF Console!NoQuery, Console!QueryOf
  <2>3. Console!NoDelete \in FileDelete /\ Console!NoDelete.at = "idle"
    BY DEF Console!NoDelete, FileDelete
  <2>4. /\ file \in [Files -> Console!Statuses] /\ fq = Console!NoQuery(none)
        /\ upload = [f \in Files |-> "none"] /\ del = Console!NoDelete
        /\ toldFile = [f \in Files |-> "nothing"]
    BY <2>1 DEF Console!Init, Console!Statuses
  <2>5. FilesTyped
    BY <2>2, <2>3, <2>4 DEF FilesTyped, FileUploads, FilesTold
  <2>6. FilesOK
    BY <2>3, <2>4 DEF FilesOK
  <2>. QED  BY <2>5, <2>6 DEF FilesInv
<1>. QED  BY <1>2, <1>3, <1>4 DEF Console!Init, ConsoleInv

LEMMA ConsoleParts ==
    Console!Next => \/ FlagActions /\ Console!OnFlag
                    \/ RoleActions /\ Console!OnRoles
                    \/ FilesActions /\ Console!OnFiles
<1>1. FlagActions => Console!OnFlag
  BY DEF FlagActions, Console!Navigate, Console!FlagAnswered, Console!FlagSettles, Console!FlagAsked,
         Console!OpenDialog, Console!CloseDialog, Console!Confirm, Console!Enable,
         Console!FlagWritten, Console!FlagRefused, Console!FlagDone, Console!FlagFailed,
         Console!OthersFlag
<1>2. RoleActions => Console!OnRoles
  BY DEF RoleActions, Console!RoleFails, Console!RoleLooked, Console!RoleTallied,
         Console!RoleWritten, Console!RoleDone, Console!SelectTenant, Console!OthersRole,
         Console!EditRole, Console!RolesAsked, Console!RolesAnswered, Console!RolesSettle,
         Console!DeleteRole, Console!CancelRole, Console!SaveRole
<1>3. FilesActions => Console!OnFiles
  BY DEF FilesActions, FileActions, Console!AdminSignUpload, Console!AdminSignFails,
         Console!AdminCompleteUpload, Console!AdminCompleteNotFound, Console!Uploaded,
         Console!UploadFails, Console!OthersComplete, Console!WorkerStarts, Console!WorkerEnds, Console!AskDelete,
         Console!OthersDelete, Console!FilesAsked, Console!FilesAnswered, Console!FilesSettle,
         Console!FilesFail, Console!KeepFile, Console!ConfirmDelete, Console!AdminDeleteFile,
         Console!DeleteDone, Console!DeleteFailed
<1>4. Console!Next => FlagActions \/ RoleActions \/ FilesActions
  BY DEF Console!Next, FlagActions, RoleActions, FilesActions, FileActions
<1>. QED  BY <1>1, <1>2, <1>3, <1>4

LEMMA ConsoleStep ==
    ASSUME Console!NamesAssumption, ConsoleInv, [Console!Next]_(Console!vars)
    PROVE  ConsoleInv'
<1>1. UNCHANGED <<screen, Console!flagVars>> => screen' = screen /\ (FlagsInv => FlagsInv')
  BY DEF Console!flagVars, FlagsInv, FlagsTyped, FlagsOK, Omits
<1>2. UNCHANGED Console!roleVars => (RolesInv => RolesInv')
  BY DEF Console!roleVars, RolesInv, RolesTyped, RoleTold, RolesCounted, Creates, Console!Count
<1>3. UNCHANGED Console!fileVars => (FilesInv => FilesInv')
  BY DEF Console!fileVars, FilesInv, FilesTyped, FilesOK
<1>4. CASE FlagActions /\ Console!OnFlag
  BY <1>2, <1>3, <1>4, FlagsStep DEF ConsoleInv, Console!OnFlag
<1>5. CASE RoleActions /\ Console!OnRoles
  BY <1>1, <1>3, <1>5, RolesStep DEF ConsoleInv, Console!OnRoles
<1>6. CASE FilesActions /\ Console!OnFiles
  BY <1>1, <1>2, <1>6, FilesStep DEF ConsoleInv, Console!OnFiles
<1>7. CASE UNCHANGED (Console!vars)
  BY <1>1, <1>2, <1>3, <1>7 DEF ConsoleInv, Console!vars
<1>. QED  BY <1>4, <1>5, <1>6, <1>7, ConsoleParts

LEMMA ConsoleImplied == ASSUME ConsoleInv PROVE ConsoleAsTold
<1>1. Console!TypeOK
  BY DEF ConsoleInv, FlagsInv, FlagsTyped, FlagMut, RolesInv, RolesTyped, RoleCall, FilesInv,
         FilesTyped, FileUploads, FilesTold, FileDelete, Console!TypeOK
<1>2. Console!FlagAsTold
  BY DEF ConsoleInv, FlagsInv, FlagsTyped, FlagsOK, Omits, Console!FlagAsTold, Console!Fresh
<1>3. Console!RolesAsTold
  BY DEF ConsoleInv, RolesInv, RoleTold, Console!RolesAsTold, Console!Fresh
<1>4. Console!RolesWithinLimit
  BY DEF ConsoleInv, RolesInv, RolesCounted, Console!RolesWithinLimit
<1>5. Console!FilesAsTold
  BY DEF ConsoleInv, FilesInv, FilesOK, Console!FilesAsTold, Console!Fresh
<1>. QED  BY <1>1, <1>2, <1>3, <1>4, <1>5 DEF ConsoleAsTold

\* A page that has settled shows what its user was told, and what the server holds: of
\* AdminConsole, for any limit of roles and any files; of NotificationPreferences, WebhooksPanel,
\* LiveNotifications and SubscriptionPage, for any categories, endpoints, requests, notifications
\* and connections; answers may be lost, and requests carried out after the page gave them up.
THEOREM PagesAlwaysAsTold ==
    Console!Spec /\ Prefs!Spec /\ Panel!Spec /\ Bell!Spec /\ Plan!Spec => []PagesAsTold
<1>1. Console!Init => ConsoleInv
  BY PagesAssumption, ConsoleInitial DEF PagesAssumption
<1>2. ConsoleInv /\ [Console!Next]_(Console!vars) => ConsoleInv'
  BY PagesAssumption, ConsoleStep DEF PagesAssumption
<1>3. ConsoleInv => ConsoleAsTold
  BY ConsoleImplied
<1>4. Console!Spec => []ConsoleAsTold
  BY <1>1, <1>2, <1>3, PTL DEF Console!Spec
<1>5. /\ ConsoleAsTold /\ (Prefs!TypeOK /\ Prefs!SwitchesTrue) /\ (Panel!TypeOK /\ Panel!PanelTrue)
      /\ (Bell!TypeOK /\ Bell!BellTrue) /\ (Plan!TypeOK /\ Plan!CardSince)
      => PagesAsTold
  BY DEF PagesAsTold
<1>. QED  BY <1>4, <1>5, SwitchesAlwaysTrue, PanelAlwaysTrue, BellAlwaysTrue, CardAlwaysSince, PTL

-----------------------------------------------------------------------------
(***************************************************************************)
(* The customer's row, which the webhooks move.                            *)
(***************************************************************************)

USE SizesAssumption, KindsAssumption

-----------------------------------------------------------------------------
\* A delivery under way has an event and its time, and is acknowledged once there
\* is a job for it.
DeliveriesOK == \A d \in Deliveries : delivery[d].pc # "idle" =>
    /\ delivery[d].event \in Events
    /\ delivery[d].occurredAt \in 1..clock
    /\ delivery[d].pc = "ack" => job[delivery[d].event] # NoJob

\* A run has a job that was added; the lock of a job is one run's, and the job is
\* active as long.
RunsOK == \A r \in Runs :
    /\ run[r].pc # "idle" => run[r].event \in Events /\ job[run[r].event] # NoJob
    /\ run[r].locked =>
          /\ run[r].pc # "idle"
          /\ job[run[r].event].state = "active"
          /\ \A s \in Runs : run[s].locked /\ run[s].event = run[r].event => s = r

\* A job was added with the time of a delivery, and has no second attempt; an event
\* that was worked on has one.
JobsOK == \A e \in Events :
    /\ job[e] # NoJob => stamp[e] \in 1..clock
    /\ job[e].state \in {"waiting", "active"} => job[e].made < DefaultAttempts
    /\ event[e] \in {"processed", "failed"} => job[e] # NoJob

\* The events that say something of the customer.
Telling == {e \in applied : kind[e] # "paid"}

\* The time in the customer's row is of the past, and the row is that of one of the
\* latest events applied, unless a checkout was.
CustomerOK ==
    /\ \A e \in applied : job[e] # NoJob
    /\ customer.last <= clock
    /\ (\A e \in applied : kind[e] # "checkout") =>
          IF Telling = {} THEN customer.status = "inactive" /\ customer.last = 0
          ELSE /\ \A o \in Telling : stamp[o] <= customer.last
               /\ \E e \in Telling : stamp[e] = customer.last /\ kind[e] = customer.status

BillingInv == TypeOK /\ DeliveriesOK /\ RunsOK /\ JobsOK /\ CustomerOK /\ AckedHasJob

-----------------------------------------------------------------------------
(***************************************************************************)
(* What a step does to a job.                                              *)
(***************************************************************************)
LEMMA JobOutcomes ==
    ASSUME NEW j \in Job
    PROVE  /\ Taken(j) \in Job /\ Taken(j).state = "active" /\ Taken(j).made = j.made
           /\ Returned(j) \in Job /\ Returned(j).state = "completed"
           /\ j.made < DefaultAttempts =>
                 Thrown(j, DefaultAttempts) \in Job /\ Thrown(j, DefaultAttempts).state = "failed"
           /\ Stalled(j) \in Job /\ Stalled(j).state \in {"waiting", "failed"}
           /\ Stalled(j).made = j.made
<1>0. /\ j = [state |-> j.state, made |-> j.made, stalls |-> j.stalls]
      /\ j.made \in 0..3 /\ j.stalls \in 0..1
  BY DEF Job, CreateQueueAttempts, MaxStalls
<1>1. Taken(j) \in Job /\ Taken(j).state = "active" /\ Taken(j).made = j.made
  BY DEF Taken, Job
<1>2. Returned(j) \in Job /\ Returned(j).state = "completed"
  BY DEF Returned, Job
<1>3. j.made < DefaultAttempts =>
        Thrown(j, DefaultAttempts) \in Job /\ Thrown(j, DefaultAttempts).state = "failed"
  <2>. SUFFICES ASSUME j.made < DefaultAttempts
                PROVE  /\ Thrown(j, DefaultAttempts) \in Job
                       /\ Thrown(j, DefaultAttempts).state = "failed"
    OBVIOUS
  <2>. DEFINE k == [j EXCEPT !.made = j.made + 1]
  <2>1. k = [state |-> j.state, made |-> 1, stalls |-> j.stalls]
    BY <1>0 DEF DefaultAttempts
  <2>2. Thrown(j, DefaultAttempts) =
          [k EXCEPT !.state = IF j.made + 1 < DefaultAttempts THEN "waiting" ELSE "failed"]
    BY DEF Thrown
  <2>3. ~(j.made + 1 < DefaultAttempts)
    BY <1>0 DEF DefaultAttempts
  <2>. HIDE DEF k
  <2>. QED  BY <1>0, <2>1, <2>2, <2>3 DEF Job, CreateQueueAttempts, MaxStalls
<1>4. /\ Stalled(j) \in Job /\ Stalled(j).state \in {"waiting", "failed"}
      /\ Stalled(j).made = j.made
  <2>1. CASE j.stalls < MaxStalls
    <3>1. Stalled(j) = [state |-> "waiting", made |-> j.made, stalls |-> j.stalls + 1]
      BY <1>0, <2>1 DEF Stalled
    <3>. QED  BY <1>0, <2>1, <3>1 DEF Job, CreateQueueAttempts, MaxStalls
  <2>2. CASE ~(j.stalls < MaxStalls)
    <3>1. Stalled(j) = [j EXCEPT !.state = "failed"]
      BY <2>2 DEF Stalled
    <3>. QED  BY <3>1 DEF Job
  <2>. QED  BY <2>1, <2>2
<1>. QED  BY <1>1, <1>2, <1>3, <1>4

\* However a run leaves the handler, it ends the job whose lock it has.
RunEnds(r) ==
    /\ run' = [run EXCEPT ![r] = IdleRun]
    /\ job' \in [Events -> Job]
    /\ \A e \in Events :
          \/ job'[e] = job[e]
          \/ run[r].locked /\ run[r].event = e /\ job'[e].state \in {"completed", "failed"}

LEMMA RunReturns ==
    ASSUME BillingInv, NEW r \in Runs, run[r].pc # "idle", EndRun(r, Returned)
    PROVE  RunEnds(r)
<1>. DEFINE e == run[r].event
<1>1. e \in Events /\ job[e] \in Job /\ job \in [Events -> Job]
  BY DEF BillingInv, RunsOK, TypeOK
<1>2. CASE run[r].locked
  <2>1. job' = [job EXCEPT ![e] = Returned(job[e])]
    BY <1>2 DEF EndRun
  <2>2. Returned(job[e]) \in Job /\ Returned(job[e]).state = "completed"
    BY <1>1, JobOutcomes
  <2>. QED  BY <1>1, <1>2, <2>1, <2>2 DEF EndRun, RunEnds
<1>3. CASE ~run[r].locked
  BY <1>1, <1>3 DEF EndRun, RunEnds
<1>. QED  BY <1>2, <1>3

LEMMA RunThrows ==
    ASSUME BillingInv, NEW r \in Runs, Throw(r)
    PROVE  RunEnds(r)
<1>. DEFINE e == run[r].event
<1>1. e \in Events /\ job[e] \in Job /\ job \in [Events -> Job]
      /\ run' = [run EXCEPT ![r] = IdleRun]
  BY DEF Throw, EndRun, BillingInv, RunsOK, TypeOK
<1>2. CASE run[r].locked
  <2>1. job' = [job EXCEPT ![e] = Thrown(job[e], DefaultAttempts)]
    BY <1>2 DEF Throw, EndRun
  <2>2. job[e].made < DefaultAttempts
    BY <1>1, <1>2 DEF BillingInv, RunsOK, JobsOK
  <2>3. /\ Thrown(job[e], DefaultAttempts) \in Job
        /\ Thrown(job[e], DefaultAttempts).state = "failed"
    BY <1>1, <2>2, JobOutcomes
  <2>. QED  BY <1>1, <1>2, <2>1, <2>3 DEF RunEnds
<1>3. CASE ~run[r].locked
  BY <1>1, <1>3 DEF Throw, EndRun, RunEnds
<1>. QED  BY <1>2, <1>3

\* A run ends in the last step of the handler or in a throw.
LEMMA RunsEnd ==
    ASSUME BillingInv, NEW r \in Runs, LoadProcessed(r) \/ Mark(r) \/ Throw(r)
    PROVE  RunEnds(r) /\ run[r].pc # "idle" /\ UNCHANGED <<kind, clock, stamp, stallings, delivery, customer, acked, applied>>
<1>1. CASE LoadProcessed(r)
  BY <1>1, RunReturns DEF LoadProcessed, world
<1>2. CASE Mark(r)
  BY <1>2, RunReturns DEF Mark, world
<1>3. CASE Throw(r)
  BY <1>3, RunThrows DEF Throw, world
<1>. QED  BY <1>1, <1>2, <1>3

\* A job that was added stays, with its time.
LEMMA JobsStay ==
    ASSUME BillingInv, [Next]_vars, NEW e \in Events, job[e] # NoJob
    PROVE  job'[e] # NoJob /\ stamp'[e] = stamp[e]
<1>0. TypeOK
  BY DEF BillingInv
<1>1. CASE UNCHANGED <<job, stamp>>
  BY <1>1
<1>2. ASSUME NEW d \in Deliveries, Enqueue(d)
      PROVE  job'[e] # NoJob /\ stamp'[e] = stamp[e]
  BY <1>0, <1>2 DEF Enqueue, TypeOK
<1>3. ASSUME NEW r \in Runs, NEW f \in Events, StartRun(r, f)
      PROVE  job'[e] # NoJob /\ stamp'[e] = stamp[e]
  <2>1. job' = [job EXCEPT ![f] = Taken(job[f])] /\ stamp' = stamp
    BY <1>3 DEF StartRun
  <2>2. Taken(job[f]).state = "active"
    BY <1>0, JobOutcomes DEF TypeOK
  <2>. QED  BY <1>0, <2>1, <2>2 DEF NoJob, TypeOK
<1>4. ASSUME NEW r \in Runs, LoadProcessed(r) \/ Mark(r) \/ Throw(r)
      PROVE  job'[e] # NoJob /\ stamp'[e] = stamp[e]
  BY <1>4, RunsEnd DEF RunEnds, NoJob
<1>5. ASSUME NEW f \in Events, Stall(f)
      PROVE  job'[e] # NoJob /\ stamp'[e] = stamp[e]
  <2>1. job' = [job EXCEPT ![f] = Stalled(job[f])] /\ stamp' = stamp
    BY <1>5 DEF Stall
  <2>2. Stalled(job[f]).state \in {"waiting", "failed"}
    BY <1>0, JobOutcomes DEF TypeOK
  <2>. QED  BY <1>0, <2>1, <2>2 DEF NoJob, TypeOK
<1>. QED
  BY <1>1, <1>2, <1>3, <1>4, <1>5
  DEF Next, RunStep, vars, Advance, Receive, Ack, DeliveryFails, Load, Apply
-----------------------------------------------------------------------------
(***************************************************************************)
(* The invariant, one part at a time.                                      *)
(***************************************************************************)
LEMMA InitialInv == Init => BillingInv
<1>. SUFFICES ASSUME Init
              PROVE  BillingInv
  OBVIOUS
<1>1. NoJob \in Job /\ NoJob.state = "none"
  BY DEF NoJob, Job, CreateQueueAttempts, MaxStalls
<1>2. TypeOK
  <2>1. kind \in [Events -> Kinds] /\ clock \in Events /\ stallings \in 0..MaxStallings
        /\ stamp \in [Events -> 0..NumEvents]
    BY DEF Init, Events
  <2>2. event \in [Events -> {"none", "pending", "processed", "failed"}] /\ job \in [Events -> Job]
    BY <1>1 DEF Init
  <2>3. delivery \in [Deliveries -> [pc : {"idle", "enqueue", "ack"}, event : Events \cup {NoEvent},
                                     occurredAt : 0..NumEvents]]
    BY DEF Init, IdleDelivery
  <2>4. run \in [Runs -> [pc : {"idle", "load", "apply", "mark"}, event : Events \cup {NoEvent},
                          locked : BOOLEAN]]
    BY DEF Init, IdleRun
  <2>5. customer \in [status : {"inactive", "active", "canceled", "past_due"}, last : 0..NumEvents]
        /\ acked \subseteq Events /\ applied \subseteq Events
    BY DEF Init
  <2>. QED  BY <2>1, <2>2, <2>3, <2>4, <2>5 DEF TypeOK
<1>3. DeliveriesOK /\ RunsOK /\ AckedHasJob
  BY DEF Init, DeliveriesOK, RunsOK, AckedHasJob, IdleDelivery, IdleRun
<1>4. JobsOK
  BY <1>1 DEF Init, JobsOK
<1>5. CustomerOK
  BY DEF Init, CustomerOK, Telling
<1>. QED  BY <1>2, <1>3, <1>4, <1>5 DEF BillingInv

RunType == [pc : {"idle", "load", "apply", "mark"}, event : Events \cup {NoEvent}, locked : BOOLEAN]

LEMMA AppliedType ==
    ASSUME TypeOK, NEW e \in Events
    PROVE  Applied(e) \in [status : {"inactive", "active", "canceled", "past_due"}, last : 0..NumEvents]
<1>1. kind[e] \in AllKinds /\ clock \in 0..NumEvents /\ stamp[e] \in 0..NumEvents
  BY DEF TypeOK, Events
<1>2. CASE kind[e] = "checkout"
  BY <1>1, <1>2 DEF Applied
<1>3. CASE kind[e] = "paid"
  BY <1>3 DEF Applied, TypeOK
<1>4. CASE kind[e] \in {"active", "canceled", "past_due"} /\ customer.last < stamp[e]
  <2>1. Applied(e) = [status |-> kind[e], last |-> stamp[e]]
    BY <1>4 DEF Applied
  <2>. QED  BY <1>1, <1>4, <2>1
<1>5. CASE kind[e] \in {"active", "canceled", "past_due"} /\ ~(customer.last < stamp[e])
  <2>1. Applied(e) = customer
    BY <1>5 DEF Applied
  <2>. QED  BY <2>1 DEF TypeOK
<1>. QED  BY <1>1, <1>2, <1>3, <1>4, <1>5 DEF AllKinds

LEMMA TypeStep == BillingInv /\ [Next]_vars => TypeOK'
<1>. SUFFICES ASSUME BillingInv, [Next]_vars
              PROVE  TypeOK'
  OBVIOUS
<1>0. TypeOK
  BY DEF BillingInv
<1>t. run \in [Runs -> RunType] /\ (TypeOK' <=>
        /\ kind' \in [Events -> Kinds]
        /\ clock' \in Events /\ stallings' \in 0..MaxStallings
        /\ stamp' \in [Events -> 0..NumEvents]
        /\ event' \in [Events -> {"none", "pending", "processed", "failed"}]
        /\ job' \in [Events -> Job]
        /\ delivery' \in [Deliveries -> [pc : {"idle", "enqueue", "ack"}, event : Events \cup {NoEvent},
                                         occurredAt : 0..NumEvents]]
        /\ run' \in [Runs -> RunType]
        /\ customer' \in [status : {"inactive", "active", "canceled", "past_due"}, last : 0..NumEvents]
        /\ acked' \subseteq Events /\ applied' \subseteq Events)
  BY <1>0 DEF TypeOK, RunType
<1>u. IdleRun \in RunType
  BY DEF IdleRun, RunType
<1>1. CASE UNCHANGED vars
  BY <1>0, <1>1 DEF vars, TypeOK
<1>2. CASE Advance
  BY <1>0, <1>2 DEF Advance, TypeOK, world, Events
<1>3. ASSUME NEW d \in Deliveries, NEW e \in Events, Receive(d, e)
      PROVE  TypeOK'
  <2>1. event' \in [Events -> {"none", "pending", "processed", "failed"}]
    BY <1>0, <1>3 DEF Receive, TypeOK
  <2>2. clock \in 0..NumEvents
    BY <1>0 DEF TypeOK, Events
  <2>3. PICK p \in {"enqueue", "ack"} :
          delivery' = [delivery EXCEPT ![d] = [pc |-> p, event |-> e, occurredAt |-> clock]]
    BY <1>3 DEF Receive, OccurredAt
  <2>. QED  BY <1>0, <1>3, <2>1, <2>2, <2>3 DEF Receive, TypeOK, world
<1>4. ASSUME NEW d \in Deliveries, Enqueue(d)
      PROVE  TypeOK'
  <2>1. AddedJob \in Job
    BY DEF AddedJob, NoJob, Job, CreateQueueAttempts, MaxStalls
  <2>2. job' \in [Events -> Job] /\ stamp' \in [Events -> 0..NumEvents]
    BY <1>0, <1>4, <2>1 DEF Enqueue, TypeOK
  <2>3. delivery' \in [Deliveries -> [pc : {"idle", "enqueue", "ack"}, event : Events \cup {NoEvent},
                                      occurredAt : 0..NumEvents]]
    BY <1>0, <1>4 DEF Enqueue, TypeOK
  <2>. QED  BY <1>0, <1>4, <2>2, <2>3 DEF Enqueue, TypeOK, world
<1>5. ASSUME NEW d \in Deliveries, Ack(d) \/ DeliveryFails(d)
      PROVE  TypeOK'
  <2>1. acked' \subseteq Events
    BY <1>0, <1>5 DEF Ack, DeliveryFails, BillingInv, DeliveriesOK, TypeOK
  <2>2. delivery' = [delivery EXCEPT ![d] = IdleDelivery]
    BY <1>5 DEF Ack, DeliveryFails
  <2>. QED  BY <1>0, <1>5, <2>1, <2>2 DEF Ack, DeliveryFails, TypeOK, world, IdleDelivery
<1>6. ASSUME NEW r \in Runs, NEW e \in Events, StartRun(r, e)
      PROVE  TypeOK'
  <2>1. job' \in [Events -> Job]
    BY <1>0, <1>6, JobOutcomes DEF StartRun, TypeOK
  <2>2. run' \in [Runs -> RunType]
    <3>1. [pc |-> "load", event |-> e, locked |-> TRUE] \in RunType
      BY DEF RunType
    <3>. QED  BY <1>t, <1>6, <3>1 DEF StartRun
  <2>. QED  BY <1>0, <1>t, <1>6, <2>1, <2>2 DEF StartRun, TypeOK, world
<1>7. ASSUME NEW r \in Runs, LoadProcessed(r) \/ Mark(r) \/ Throw(r)
      PROVE  TypeOK'
  <2>1. run' \in [Runs -> RunType] /\ job' \in [Events -> Job]
    BY <1>t, <1>u, <1>7, RunsEnd DEF RunEnds
  <2>2. event' \in [Events -> {"none", "pending", "processed", "failed"}]
    BY <1>0, <1>7 DEF LoadProcessed, Mark, Throw, TypeOK
  <2>. QED  BY <1>0, <1>t, <1>7, <2>1, <2>2, RunsEnd DEF TypeOK
<1>8. ASSUME NEW r \in Runs, Load(r) \/ Apply(r)
      PROVE  TypeOK'
  <2>1. run' \in [Runs -> RunType]
    BY <1>t, <1>8 DEF Load, Apply, RunType
  <2>2. customer' \in [status : {"inactive", "active", "canceled", "past_due"}, last : 0..NumEvents]
        /\ applied' \subseteq Events
    BY <1>0, <1>8, AppliedType DEF Load, Apply, BillingInv, RunsOK, TypeOK
  <2>. QED  BY <1>0, <1>t, <1>8, <2>1, <2>2 DEF Load, Apply, TypeOK, world
<1>9. ASSUME NEW e \in Events, Stall(e)
      PROVE  TypeOK'
  <2>1. job' \in [Events -> Job]
    BY <1>0, <1>9, JobOutcomes DEF Stall, TypeOK
  <2>2. run' \in [Runs -> RunType]
    <3>1. ASSUME NEW k \in RunType PROVE [k EXCEPT !.locked = FALSE] \in RunType
      BY DEF RunType
    <3>. QED  BY <1>t, <1>u, <1>9, <3>1 DEF Stall
  <2>3. stallings' \in 0..MaxStallings
    BY <1>0, <1>9 DEF Stall, TypeOK
  <2>. QED  BY <1>0, <1>t, <1>9, <2>1, <2>2, <2>3 DEF Stall, TypeOK, world
<1>. QED
  BY <1>1, <1>2, <1>3, <1>4, <1>5, <1>6, <1>7, <1>8, <1>9 DEF Next, RunStep
\* Time goes on.
LEMMA ClockStep == BillingInv /\ [Next]_vars => clock \in Nat /\ clock >= 1 /\ clock' \in Nat /\ clock' >= clock
<1>. SUFFICES ASSUME BillingInv, [Next]_vars
              PROVE  clock \in Nat /\ clock >= 1 /\ clock' \in Nat /\ clock' >= clock
  OBVIOUS
<1>1. clock \in Nat /\ clock >= 1
  BY DEF BillingInv, TypeOK, Events
<1>2. clock' = clock \/ clock' = clock + 1
  <2>1. \A r \in Runs : LoadProcessed(r) \/ Mark(r) \/ Throw(r) => clock' = clock
    BY DEF LoadProcessed, Mark, Throw
  <2>. QED
    BY <2>1 DEF Next, RunStep, vars, Advance, Receive, Enqueue, Ack, DeliveryFails, StartRun,
                Load, Apply, Stall
<1>. QED  BY <1>1, <1>2

LEMMA DeliveriesStep == BillingInv /\ [Next]_vars => DeliveriesOK'
<1>. SUFFICES ASSUME BillingInv, [Next]_vars, NEW d \in Deliveries, delivery'[d].pc # "idle"
              PROVE  /\ delivery'[d].event \in Events
                     /\ delivery'[d].occurredAt \in 1..clock'
                     /\ delivery'[d].pc = "ack" => job'[delivery'[d].event] # NoJob
  BY DEF DeliveriesOK
<1>. DEFINE Good == /\ delivery'[d].event \in Events
                    /\ delivery'[d].occurredAt \in 1..clock'
                    /\ delivery'[d].pc = "ack" => job'[delivery'[d].event] # NoJob
<1>0. TypeOK /\ clock \in Nat /\ clock >= 1 /\ clock' \in Nat /\ clock' >= clock
  BY ClockStep DEF BillingInv
<1>1. CASE delivery'[d] = delivery[d]
  <2>1. /\ delivery[d].event \in Events /\ delivery[d].occurredAt \in 1..clock
        /\ delivery[d].pc = "ack" => job[delivery[d].event] # NoJob
    BY <1>1 DEF BillingInv, DeliveriesOK
  <2>. QED  BY <1>0, <1>1, <2>1, JobsStay
<1>2. ASSUME NEW c \in Deliveries, NEW e \in Events, Receive(c, e)
      PROVE  Good
  <2>1. CASE c = d
    <3>1. delivery'[d] = [pc |-> IF event'[e] = "pending" THEN "enqueue" ELSE "ack", event |-> e,
                          occurredAt |-> clock]
      BY <1>0, <1>2, <2>1 DEF Receive, OccurredAt, TypeOK
    <3>2. event'[e] # "pending" => event[e] \in {"processed", "failed"}
      BY <1>0, <1>2 DEF Receive, TypeOK
    <3>3. event'[e] # "pending" => job'[e] # NoJob
      BY <3>2, JobsStay DEF BillingInv, JobsOK
    <3>. QED  BY <1>0, <3>1, <3>3
  <2>2. CASE c # d
    BY <1>0, <1>1, <1>2, <2>2 DEF Receive, TypeOK
  <2>. QED  BY <2>1, <2>2
<1>3. ASSUME NEW c \in Deliveries, Enqueue(c)
      PROVE  Good
  <2>1. CASE c = d
    <3>1. /\ delivery'[d].event = delivery[d].event
          /\ delivery'[d].occurredAt = delivery[d].occurredAt
          /\ delivery[d].pc = "enqueue" /\ clock' = clock
      BY <1>0, <1>3, <2>1 DEF Enqueue, TypeOK
    <3>2. delivery[d].event \in Events /\ delivery[d].occurredAt \in 1..clock
      BY <3>1 DEF BillingInv, DeliveriesOK
    <3>3. job'[delivery[d].event] # NoJob
      BY <1>0, <1>3, <2>1, <3>2 DEF Enqueue, AddedJob, NoJob, TypeOK
    <3>. QED  BY <3>1, <3>2, <3>3
  <2>2. CASE c # d
    BY <1>0, <1>1, <1>3, <2>2 DEF Enqueue, TypeOK
  <2>. QED  BY <2>1, <2>2
<1>4. ASSUME NEW c \in Deliveries, Ack(c) \/ DeliveryFails(c)
      PROVE  Good
  <2>1. delivery' = [delivery EXCEPT ![c] = IdleDelivery]
    BY <1>4 DEF Ack, DeliveryFails
  <2>2. c # d
    BY <1>0, <2>1 DEF IdleDelivery, TypeOK
  <2>. QED  BY <1>0, <1>1, <2>1, <2>2 DEF TypeOK
<1>5. ASSUME UNCHANGED delivery
      PROVE  Good
  BY <1>1, <1>5
<1>6. \A r \in Runs : LoadProcessed(r) \/ Mark(r) \/ Throw(r) => UNCHANGED delivery
  BY DEF LoadProcessed, Mark, Throw
<1>. QED
  BY <1>2, <1>3, <1>4, <1>5, <1>6
  DEF Next, RunStep, vars, Advance, StartRun, Load, Apply, Stall

LEMMA RunsStep == BillingInv /\ [Next]_vars => RunsOK'
<1>. SUFFICES ASSUME BillingInv, [Next]_vars
              PROVE  RunsOK'
  OBVIOUS
<1>0. TypeOK /\ RunsOK
  BY DEF BillingInv
<1>1. ASSUME NEW r \in Runs, run'[r].event = run[r].event, run[r].pc # "idle"
      PROVE  run'[r].event \in Events /\ job'[run'[r].event] # NoJob
  BY <1>0, <1>1, JobsStay DEF RunsOK
\* Steps that leave the locks and the active jobs alone.
<1>2. ASSUME \A r \in Runs : /\ run'[r].event = run[r].event /\ run'[r].locked = run[r].locked
                             /\ run'[r].pc = "idle" <=> run[r].pc = "idle",
             \A e \in Events : job[e].state = "active" => job'[e] = job[e]
      PROVE  RunsOK'
  BY <1>0, <1>1, <1>2 DEF RunsOK
<1>3. CASE UNCHANGED <<run, job>>
  BY <1>2, <1>3
<1>4. ASSUME NEW d \in Deliveries, Enqueue(d)
      PROVE  RunsOK'
  <2>1. run' = run /\ \A e \in Events : job[e].state = "active" => job'[e] = job[e]
    BY <1>0, <1>4 DEF Enqueue, NoJob, TypeOK
  <2>. QED  BY <1>2, <2>1
<1>5. ASSUME NEW s \in Runs, NEW e \in Events, StartRun(s, e)
      PROVE  RunsOK'
  <2>1. /\ run'[s] = [pc |-> "load", event |-> e, locked |-> TRUE]
        /\ \A r \in Runs \ {s} : run'[r] = run[r]
        /\ \A f \in Events \ {e} : job'[f] = job[f]
        /\ job'[e].state = "active"
    BY <1>0, <1>5, JobOutcomes DEF StartRun, TypeOK
  <2>2. \A r \in Runs : run[r].locked => run[r].event # e
    BY <1>0, <1>5 DEF StartRun, RunsOK
  <2>3. job'[e] # NoJob
    BY <2>1 DEF NoJob
  <2>4. ASSUME NEW r \in Runs, r # s
        PROVE  /\ run'[r].pc # "idle" => run'[r].event \in Events /\ job'[run'[r].event] # NoJob
               /\ run'[r].locked => run'[r].pc # "idle" /\ job'[run'[r].event].state = "active"
    BY <1>0, <1>1, <2>1, <2>2, <2>4 DEF RunsOK
  <2>5. \A r, q \in Runs : run'[r].locked /\ run'[q].locked /\ run'[r].event = run'[q].event => r = q
    BY <1>0, <2>1, <2>2 DEF RunsOK
  <2>. QED  BY <2>1, <2>3, <2>4, <2>5 DEF RunsOK
<1>6. ASSUME NEW s \in Runs, LoadProcessed(s) \/ Mark(s) \/ Throw(s)
      PROVE  RunsOK'
  <2>1. /\ run'[s] = IdleRun /\ \A r \in Runs \ {s} : run'[r] = run[r]
        /\ \A e \in Events : job'[e] = job[e] \/ (run[s].locked /\ run[s].event = e)
    BY <1>0, <1>6, RunsEnd DEF RunEnds, TypeOK
  <2>2. ~IdleRun.locked /\ IdleRun.pc = "idle"
    BY DEF IdleRun
  <2>3. ASSUME NEW r \in Runs, r # s, run[r].locked
        PROVE  job'[run[r].event] = job[run[r].event]
    BY <1>0, <2>1, <2>3 DEF RunsOK
  <2>. QED  BY <1>0, <1>1, <2>1, <2>2, <2>3 DEF RunsOK
<1>7. ASSUME NEW s \in Runs, Load(s) \/ Apply(s)
      PROVE  RunsOK'
  <2>1. /\ \A r \in Runs : /\ run'[r].event = run[r].event /\ run'[r].locked = run[r].locked
                           /\ run'[r].pc = "idle" <=> run[r].pc = "idle"
        /\ job' = job
    BY <1>0, <1>7 DEF Load, Apply, TypeOK
  <2>. QED  BY <1>2, <2>1
<1>8. ASSUME NEW e \in Events, Stall(e)
      PROVE  RunsOK'
  <2>1. \A f \in Events \ {e} : job'[f] = job[f]
    BY <1>0, <1>8 DEF Stall, TypeOK
  <2>2. ASSUME NEW r \in Runs
        PROVE  \/ run[r].event = e /\ (run'[r] = [run[r] EXCEPT !.locked = FALSE] \/ run'[r] = IdleRun)
               \/ run[r].event # e /\ run'[r] = run[r]
    BY <1>8 DEF Stall
  <2>3. ASSUME NEW r \in Runs
        PROVE  \/ run[r].event = e /\ ~run'[r].locked
                  /\ (run'[r].pc = "idle" \/ (run'[r].pc = run[r].pc /\ run'[r].event = e))
               \/ run[r].event # e /\ run'[r] = run[r]
    <3>1. CASE run[r].event = e /\ run'[r] = [run[r] EXCEPT !.locked = FALSE]
      <4>1. run[r] \in RunType
        BY <1>0 DEF TypeOK, RunType
      <4>. QED  BY <3>1, <4>1 DEF RunType
    <3>2. CASE run[r].event = e /\ run'[r] = IdleRun
      BY <3>2 DEF IdleRun
    <3>. QED  BY <2>2, <3>1, <3>2
  <2>. QED  BY <1>0, <1>1, <2>1, <2>3 DEF RunsOK
<1>. QED
  BY <1>3, <1>4, <1>5, <1>6, <1>7, <1>8
  DEF Next, RunStep, vars, Advance, Receive, Ack, DeliveryFails

LEMMA JobsStep == BillingInv /\ [Next]_vars => JobsOK'
<1>. SUFFICES ASSUME BillingInv, [Next]_vars, NEW e \in Events
              PROVE  /\ job'[e] # NoJob => stamp'[e] \in 1..clock'
                     /\ job'[e].state \in {"waiting", "active"} => job'[e].made < DefaultAttempts
                     /\ event'[e] \in {"processed", "failed"} => job'[e] # NoJob
  BY DEF JobsOK
<1>0. TypeOK /\ clock \in Nat /\ clock >= 1 /\ clock' \in Nat /\ clock' >= clock
  BY ClockStep DEF BillingInv
<1>1. job'[e] # NoJob => stamp'[e] \in 1..clock'
  <2>1. CASE job[e] # NoJob
    <3>1. stamp'[e] = stamp[e] /\ stamp[e] \in 1..clock
      BY <2>1, JobsStay DEF BillingInv, JobsOK
    <3>. QED  BY <1>0, <3>1
  <2>2. CASE job'[e] = job[e]
    BY <2>1, <2>2
  <2>3. ASSUME NEW d \in Deliveries, Enqueue(d), job[e] = NoJob, job'[e] # NoJob
        PROVE  stamp'[e] \in 1..clock'
    <3>1. delivery[d].event = e /\ stamp'[e] = delivery[d].occurredAt /\ clock' = clock
      BY <1>0, <2>3 DEF Enqueue, TypeOK
    <3>. QED  BY <2>3, <3>1 DEF Enqueue, BillingInv, DeliveriesOK
  <2>4. ASSUME NEW r \in Runs, NEW f \in Events, StartRun(r, f), job[e] = NoJob
        PROVE  job'[e] = job[e]
    BY <1>0, <2>4 DEF StartRun, NoJob, TypeOK
  <2>5. ASSUME NEW r \in Runs, LoadProcessed(r) \/ Mark(r) \/ Throw(r), job[e] = NoJob
        PROVE  job'[e] = job[e]
    BY <2>5, RunsEnd DEF RunEnds, BillingInv, RunsOK
  <2>6. ASSUME NEW f \in Events, Stall(f), job[e] = NoJob
        PROVE  job'[e] = job[e]
    BY <1>0, <2>6 DEF Stall, NoJob, TypeOK
  <2>. QED
    BY <2>1, <2>2, <2>3, <2>4, <2>5, <2>6
    DEF Next, RunStep, vars, Advance, Receive, Ack, DeliveryFails, Load, Apply
<1>2. job'[e].state \in {"waiting", "active"} => job'[e].made < DefaultAttempts
  <2>0. job[e].state \in {"waiting", "active"} => job[e].made < DefaultAttempts
    BY DEF BillingInv, JobsOK
  <2>1. CASE job'[e] = job[e]
    BY <2>0, <2>1
  <2>2. ASSUME NEW d \in Deliveries, Enqueue(d)
        PROVE  job'[e] = job[e] \/ job'[e].made = 0
    BY <1>0, <2>2 DEF Enqueue, AddedJob, NoJob, TypeOK
  <2>3. ASSUME NEW r \in Runs, NEW f \in Events, StartRun(r, f)
        PROVE  job'[e] = job[e] \/ (job'[e].made = job[e].made /\ job[e].state = "waiting")
    BY <1>0, <2>3, JobOutcomes DEF StartRun, TypeOK
  <2>4. ASSUME NEW r \in Runs, LoadProcessed(r) \/ Mark(r) \/ Throw(r)
        PROVE  job'[e] = job[e] \/ job'[e].state \in {"completed", "failed"}
    BY <2>4, RunsEnd DEF RunEnds
  <2>5. ASSUME NEW f \in Events, Stall(f)
        PROVE  job'[e] = job[e] \/ (job'[e].made = job[e].made /\ job[e].state = "active")
    BY <1>0, <2>5, JobOutcomes DEF Stall, TypeOK
  <2>6. 0 < DefaultAttempts
    BY DEF DefaultAttempts
  <2>. QED
    BY <2>0, <2>1, <2>2, <2>3, <2>4, <2>5, <2>6
    DEF Next, RunStep, vars, Advance, Receive, Ack, DeliveryFails, Load, Apply
<1>3. event'[e] \in {"processed", "failed"} => job'[e] # NoJob
  <2>0. event[e] \in {"processed", "failed"} => job'[e] # NoJob
    BY JobsStay DEF BillingInv, JobsOK
  <2>1. CASE event'[e] = event[e]
    BY <2>0, <2>1
  <2>2. ASSUME NEW d \in Deliveries, NEW f \in Events, Receive(d, f)
        PROVE  event'[e] = event[e] \/ event'[e] = "pending"
    BY <1>0, <2>2 DEF Receive, TypeOK
  <2>3. ASSUME NEW r \in Runs, LoadProcessed(r) \/ Mark(r) \/ Throw(r)
        PROVE  event'[e] = event[e] \/ run[r].event = e
    BY <1>0, <2>3 DEF LoadProcessed, Mark, Throw, TypeOK
  <2>4. ASSUME NEW r \in Runs, LoadProcessed(r) \/ Mark(r) \/ Throw(r), run[r].event = e
        PROVE  job'[e] # NoJob
    BY <2>4, RunsEnd, JobsStay DEF BillingInv, RunsOK
  <2>. QED
    BY <2>1, <2>2, <2>3, <2>4
    DEF Next, RunStep, vars, Advance, Enqueue, Ack, DeliveryFails, StartRun, Load, Apply, Stall
<1>. QED  BY <1>1, <1>2, <1>3
LEMMA AckedStep == BillingInv /\ [Next]_vars => AckedHasJob'
<1>. SUFFICES ASSUME BillingInv, [Next]_vars, NEW e \in acked'
              PROVE  job'[e] # NoJob
  BY DEF AckedHasJob
<1>1. e \in Events
  <2>1. acked' \subseteq Events
    BY TypeStep DEF TypeOK
  <2>. QED  BY <2>1
<1>2. CASE e \in acked
  BY <1>1, <1>2, JobsStay DEF BillingInv, AckedHasJob
<1>3. ASSUME NEW d \in Deliveries, Ack(d)
      PROVE  job'[e] # NoJob
  <2>1. e \in acked \/ e = delivery[d].event
    BY <1>3 DEF Ack
  <2>2. job[delivery[d].event] # NoJob
    BY <1>3 DEF Ack, BillingInv, DeliveriesOK
  <2>. QED  BY <1>1, <1>2, <2>1, <2>2, JobsStay
<1>4. \A r \in Runs : LoadProcessed(r) \/ Mark(r) \/ Throw(r) => UNCHANGED acked
  BY DEF LoadProcessed, Mark, Throw
<1>. QED
  BY <1>2, <1>3, <1>4
  DEF Next, RunStep, vars, Advance, Receive, Enqueue, DeliveryFails, StartRun, Load, Apply, Stall

\* The handler of an event, on what the row was before: it takes the event's time if
\* that is later, and the row is as late as the event afterwards.
LEMMA AppliedIsLatest ==
    ASSUME TypeOK, NEW e \in Events, kind[e] \in {"active", "canceled", "past_due"}
    PROVE  \/ /\ customer.last < stamp[e]
              /\ Applied(e).status = kind[e] /\ Applied(e).last = stamp[e]
           \/ ~(customer.last < stamp[e]) /\ Applied(e) = customer
<1>1. CASE customer.last < stamp[e]
  <2>1. Applied(e) = [status |-> kind[e], last |-> stamp[e]]
    BY <1>1 DEF Applied
  <2>. QED  BY <1>1, <2>1
<1>2. CASE ~(customer.last < stamp[e])
  BY <1>2 DEF Applied
<1>. QED  BY <1>1, <1>2

LEMMA CustomerStep == BillingInv /\ [Next]_vars => CustomerOK'
<1>. SUFFICES ASSUME BillingInv, [Next]_vars
              PROVE  CustomerOK'
  OBVIOUS
<1>0. TypeOK /\ CustomerOK /\ clock \in Nat /\ clock >= 1 /\ clock' \in Nat /\ clock' >= clock
  BY ClockStep DEF BillingInv
<1>t. customer.last \in Nat /\ \A e \in Events : stamp[e] \in Nat
  BY <1>0 DEF TypeOK
<1>1. ASSUME UNCHANGED <<kind, customer, applied>>
      PROVE  CustomerOK'
  <2>1. \A e \in applied : e \in Events /\ job'[e] # NoJob /\ stamp'[e] = stamp[e]
    BY <1>0, JobsStay DEF CustomerOK, TypeOK
  <2>2. Telling' = Telling /\ Telling \subseteq applied
    BY <1>1 DEF Telling
  <2>3. customer'.last <= clock'
    BY <1>0, <1>1, <1>t DEF CustomerOK
  <2>4. (\A e \in applied : kind[e] # "checkout") =>
           IF Telling = {} THEN customer.status = "inactive" /\ customer.last = 0
           ELSE /\ \A o \in Telling : stamp'[o] <= customer.last
                /\ \E e \in Telling : stamp'[e] = customer.last /\ kind[e] = customer.status
    BY <1>0, <2>1, <2>2 DEF CustomerOK
  <2>. QED  BY <1>1, <2>1, <2>2, <2>3, <2>4 DEF CustomerOK
<1>2. ASSUME NEW r \in Runs, Apply(r)
      PROVE  CustomerOK'
  <2>. DEFINE e == run[r].event
  <2>0. /\ customer' = Applied(e) /\ applied' = applied \cup {e}
        /\ kind' = kind /\ clock' = clock /\ stamp' = stamp /\ job' = job
    BY <1>2 DEF Apply, world
  <2>1. e \in Events /\ job[e] # NoJob
    BY <1>2 DEF Apply, BillingInv, RunsOK
  <2>2. stamp[e] \in 1..clock
    BY <2>1 DEF BillingInv, JobsOK
  <2>. HIDE DEF e
  <2>3. \A f \in applied' : job'[f] # NoJob
    BY <1>0, <2>0, <2>1 DEF CustomerOK
  <2>4. kind[e] \in AllKinds
    BY <1>0, <2>1 DEF TypeOK
  <2>5. CASE kind[e] = "checkout"
    <3>1. customer' = [status |-> "active", last |-> clock]
      BY <2>0, <2>5 DEF Applied
    <3>2. ~(\A f \in applied' : kind'[f] # "checkout")
      BY <2>0, <2>5
    <3>. QED  BY <1>0, <2>0, <2>3, <3>1, <3>2 DEF CustomerOK
  <2>6. CASE kind[e] = "paid"
    <3>1. customer' = customer
      BY <2>0, <2>6 DEF Applied
    <3>2. Telling' = Telling
      BY <2>0, <2>6 DEF Telling
    <3>3. (\A f \in applied' : kind'[f] # "checkout") => (\A f \in applied : kind[f] # "checkout")
      BY <2>0
    <3>. QED  BY <1>0, <2>0, <2>3, <3>1, <3>2, <3>3 DEF CustomerOK
  <2>7. CASE kind[e] \in {"active", "canceled", "past_due"}
    <3>1. Telling' = Telling \cup {e}
      BY <2>0, <2>7 DEF Telling
    <3>2. (\A f \in applied' : kind'[f] # "checkout") => (\A f \in applied : kind[f] # "checkout")
      BY <2>0
    <3>3. CASE customer.last < stamp[e] /\ Applied(e).status = kind[e] /\ Applied(e).last = stamp[e]
      <4>1. customer'.last = stamp[e] /\ customer'.status = kind[e] /\ customer.last < stamp[e]
        BY <2>0, <3>3
      <4>2. customer'.last <= clock'
        BY <2>0, <2>2, <4>1
      <4>3. ASSUME \A f \in applied : kind[f] # "checkout"
            PROVE  \A o \in Telling \cup {e} : stamp[o] <= customer'.last
        <5>1. ASSUME NEW o \in Telling
              PROVE  stamp[o] <= customer.last /\ stamp[o] \in Nat
          BY <1>0, <1>t, <4>3, <5>1 DEF CustomerOK, TypeOK, Telling
        <5>. QED  BY <1>t, <2>1, <4>1, <5>1
      <4>. QED  BY <2>0, <2>3, <3>1, <3>2, <4>1, <4>2, <4>3 DEF CustomerOK
    <3>4. CASE ~(customer.last < stamp[e]) /\ Applied(e) = customer
      <4>1. customer' = customer /\ stamp[e] <= customer.last /\ customer.last # 0
        BY <1>t, <2>0, <2>1, <2>2, <3>4
      <4>2. ASSUME \A f \in applied : kind[f] # "checkout"
            PROVE  /\ \A o \in Telling \cup {e} : stamp[o] <= customer.last
                   /\ \E f \in Telling \cup {e} : stamp[f] = customer.last /\ kind[f] = customer.status
        BY <1>0, <4>1, <4>2 DEF CustomerOK
      <4>3. customer'.last <= clock'
        BY <1>0, <2>0, <4>1 DEF CustomerOK
      <4>. QED  BY <2>0, <2>3, <3>1, <3>2, <4>1, <4>2, <4>3 DEF CustomerOK
    <3>. QED  BY <1>0, <2>1, <2>7, <3>3, <3>4, AppliedIsLatest
  <2>. QED  BY <2>4, <2>5, <2>6, <2>7 DEF AllKinds
<1>3. \A r \in Runs : LoadProcessed(r) \/ Mark(r) \/ Throw(r) => UNCHANGED <<kind, customer, applied>>
  BY DEF LoadProcessed, Mark, Throw, world
<1>. QED
  BY <1>1, <1>2, <1>3
  DEF Next, RunStep, vars, world, Advance, Receive, Enqueue, Ack, DeliveryFails, StartRun, Load, Stall

LEMMA InvStep == BillingInv /\ [Next]_vars => BillingInv'
BY TypeStep, DeliveriesStep, RunsStep, JobsStep, CustomerStep, AckedStep DEF BillingInv

-----------------------------------------------------------------------------
(***************************************************************************)
(* The theorems.                                                           *)
(***************************************************************************)
\* What was acknowledged has its job, and, as long as no checkout was applied, the
\* customer has the state of the event that arrived last of those applied: whatever
\* was delivered again, applied twice or at once, stalled or died.
THEOREM EventsAlwaysApplied == Spec => []EventsApplied
<1>1. BillingInv => EventsApplied
  <2>. SUFFICES ASSUME BillingInv
                PROVE  FollowsLatest
    BY DEF BillingInv, EventsApplied
  <2>. DEFINE latest == {e \in Telling : \A o \in Telling : stamp[o] <= stamp[e]}
  <2>1. ASSUME \A e \in applied : kind[e] # "checkout"
        PROVE  IF Telling = {} THEN customer.status = "inactive"
                               ELSE \E e \in latest : customer.status = kind[e]
    BY <2>1 DEF BillingInv, CustomerOK
  <2>. QED  BY <2>1 DEF FollowsLatest, Telling
<1>. QED  BY <1>1, InitialInv, InvStep, PTL DEF Spec

\* The time of the customer's state never goes back, a checkout included, which
\* writes the time it is applied at.
THEOREM TimeNeverBackwards == Spec => NeverBackwards
<1>1. BillingInv /\ [Next]_vars => customer'.last >= customer.last \/ customer' = customer
  <2>. SUFFICES ASSUME BillingInv, Next, customer' # customer
                PROVE  customer'.last >= customer.last
    BY DEF vars
  <2>1. PICK r \in Runs : Apply(r)
    <3>1. \A r \in Runs : LoadProcessed(r) \/ Mark(r) \/ Throw(r) => UNCHANGED customer
      BY DEF LoadProcessed, Mark, Throw
    <3>. QED
      BY <3>1 DEF Next, RunStep, Advance, Receive, Enqueue, Ack, DeliveryFails, StartRun, Load,
                  Stall
  <2>. DEFINE e == run[r].event
  <2>2. e \in Events /\ customer' = Applied(e)
    BY <2>1 DEF Apply, BillingInv, RunsOK
  <2>3. /\ kind[e] \in AllKinds /\ customer.last \in Nat /\ stamp[e] \in Nat /\ clock \in Nat
        /\ customer.last <= clock
    BY <2>2 DEF BillingInv, TypeOK, CustomerOK, Events
  <2>. HIDE DEF e
  <2>4. CASE kind[e] = "checkout"
    <3>1. customer' = [status |-> "active", last |-> clock]
      BY <2>2, <2>4 DEF Applied
    <3>. QED  BY <2>3, <3>1
  <2>5. CASE kind[e] = "paid"
    BY <2>2, <2>5 DEF Applied
  <2>6. CASE kind[e] \in {"active", "canceled", "past_due"}
    BY <2>2, <2>3, <2>6, AppliedIsLatest DEF BillingInv
  <2>. QED  BY <2>3, <2>4, <2>5, <2>6 DEF AllKinds
<1>2. BillingInv /\ [Next]_vars => [customer'.last >= customer.last]_customer
  BY <1>1
<1>. QED  BY <1>2, InitialInv, InvStep, PTL DEF Spec, NeverBackwards
=============================================================================
