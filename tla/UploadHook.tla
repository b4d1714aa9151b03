----------------------------- MODULE UploadHook -----------------------------
(***************************************************************************)
(* useFileUpload of packages/ui: the rows of an upload widget, and the     *)
(* asynchronous flows that take each file from sign over PUT and complete  *)
(* to the page's onUploaded.  A flow is one call of process(id, resume);   *)
(* it reads the rows again only where the code does, so a click may come   *)
(* between any two of its steps.                                           *)
(*                                                                         *)
(* A click is one action: its handler and the render that React flushes at *)
(* the end of the event.  Inside the handler the rows that were just added *)
(* may or may not be visible to process(), because React runs the updater  *)
(* that copies them to itemsRef at once or with the render.                *)
(***************************************************************************)
EXTENDS Naturals, FiniteSets

CONSTANTS
    Items,       \* ids of rows
    Flows        \* calls of process() that may be under way at once

NoFlow == "no flow"
NoItem == "no item"
NamesAssumption == NoFlow \notin Flows /\ NoItem \notin Items

VARIABLES
    page,        \* the page that the widget is on
    mounted,     \* the widget is on the page
    ready,       \* the page knows the record that will own the file
    newest,      \* the row that was added last
    linked,      \* the file that the owner has now
    row,         \* the rows: status, error, fileId
    descriptor,  \* rows that hold an upload descriptor
    xhr,         \* xhrMap: the request that cancel would abort
    flow,        \* where each call of process() is
    uploads,     \* history: how often onUploaded was called for a row
    races        \* history: which of the races below have happened

vars == <<page, mounted, ready, newest, linked, row, descriptor, xhr, flow, uploads, races>>

\* "late": a row is cancelled, removed, replaced or unmounted while its flow is
\* where no request can be aborted and nothing is read again; "double": a row is
\* retried while a flow that was cancelled is still waiting for its answer;
\* "unheard": a retry that does nothing; "unlinked": the page could not attach a
\* file.
Races == {"late", "double", "unheard", "unlinked"}
NotesRace(kind, happens) == races' = IF happens THEN races \cup {kind} ELSE races

Statuses == {"absent", "idle", "signing", "uploading", "completing", "done", "error",
             "canceled", "gone"}
ActiveStatuses == {"signing", "uploading", "completing"}

Codes == {"oversize", "wrong_mime", "quota_exceeded", "network", "mime_mismatch",
          "sign_failed", "canceled"}
NoError == "none"
RetryableCodes == {"network", "sign_failed", "quota_exceeded"}

\* The statuses of a refused request: the quota's, and any other or none.
Refusals == {413, 0}
MapSignError(status) == IF status = 413 THEN "quota_exceeded" ELSE "sign_failed"
MapCompleteError(status) == IF status = 413 THEN "quota_exceeded" ELSE "mime_mismatch"
\* What the client checks before it signs, and whether it finds a fault.
ClientFaults == {"oversize", "wrong_mime", NoError}

Pages == {"avatar", "logo", "tenant"}
\* A single-mode widget replaces its row.
Multi == page = "tenant"

NoRow == [status |-> "absent", error |-> NoError, fileId |-> FALSE]
GoneRow == [NoRow EXCEPT !.status = "gone"]
IdleFlow == [pc |-> "idle", item |-> NoItem]

Shown(i) == row[i].status \notin {"absent", "gone"}
FlowsOf(i) == {f \in Flows : flow[f].item = i}
\* A call that goes on whatever is done to its row.
PastRecall(f) == flow[f].pc \in {"complete", "attach"}

\* update(): patches a row that is still there; nothing after the unmount.
Patched(i, patch) ==
    IF mounted /\ Shown(i) THEN [row EXCEPT ![i] = [@ EXCEPT !.status = patch.status,
                                                             !.error = patch.error]]
                           ELSE row
Failed(code) == [status |-> "error", error |-> code]
Canceled == [status |-> "canceled", error |-> "canceled"]
InStatus(s) == [status |-> s, error |-> NoError]

\* xhr.abort() for the rows S: their flows end.
FlowsAfterAbort(S) ==
    [f \in Flows |-> IF \E i \in S : xhr[i] = f THEN IdleFlow ELSE flow[f]]
XhrWithout(S) == [i \in Items |-> IF i \in S THEN NoFlow ELSE xhr[i]]

Init ==
    /\ page \in Pages
    /\ mounted = TRUE
    /\ ready = (page = "tenant")
    /\ newest = NoItem
    /\ linked = NoItem
    /\ row = [i \in Items |-> NoRow]
    /\ descriptor = {}
    /\ xhr = [i \in Items |-> NoFlow]
    /\ flow = [f \in Flows |-> IdleFlow]
    /\ uploads = [i \in Items |-> 0]
    /\ races = {}

-----------------------------------------------------------------------------
(***************************************************************************)
(* What the user does.                                                     *)
(***************************************************************************)
\* The profile or the active tenant is known from now on.
PageReady ==
    /\ mounted /\ ~ready
    /\ ready' = TRUE
    /\ UNCHANGED <<page, mounted, newest, linked, row, descriptor, xhr, flow, uploads, races>>

\* The zone takes a file, by drop, click or key.
Accepting == mounted /\ ready

\* What a single-mode widget drops when a file is added.
Replaced == IF Multi THEN {} ELSE {j \in Items : Shown(j)}

\* Mutant: the requests of the replaced row go on.
AddFiles_LetsGo(i, f, fault, seen) ==
    /\ Accepting /\ row[i] = NoRow /\ fault = NoError
    /\ flow[f].pc = "idle"
    /\ row' = [j \in Items |->
                  IF j = i THEN [NoRow EXCEPT !.status = IF seen THEN "signing" ELSE "idle"]
                  ELSE IF j \in Replaced THEN GoneRow ELSE row[j]]
    /\ newest' = i
    /\ flow' = IF seen THEN [flow EXCEPT ![f] = [pc |-> "sign", item |-> i]] ELSE flow
    /\ NotesRace("late", \E j \in Replaced : \E g \in FlowsOf(j) : PastRecall(g))
    /\ UNCHANGED <<page, mounted, ready, linked, descriptor, xhr, uploads>>

\* addFiles: in single mode the old rows go and their requests are aborted.  A
\* file with a fault gets a row with a final error; for the others process()
\* starts if it finds the row in itemsRef.
AddFiles(i, f, fault, seen) ==
    /\ Accepting /\ row[i] = NoRow
    /\ flow[f].pc = "idle"
    /\ LET starts == fault = NoError /\ seen
           first == IF fault # NoError THEN [NoRow EXCEPT !.status = "error", !.error = fault]
                    ELSE [NoRow EXCEPT !.status = IF seen THEN "signing" ELSE "idle"]
       IN /\ row' = [j \in Items |-> IF j = i THEN first
                                     ELSE IF j \in Replaced THEN GoneRow ELSE row[j]]
          /\ flow' = IF starts
                     THEN [FlowsAfterAbort(Replaced) EXCEPT ![f] = [pc |-> "sign", item |-> i]]
                     ELSE FlowsAfterAbort(Replaced)
    /\ newest' = i
    /\ descriptor' = descriptor \ Replaced
    /\ xhr' = XhrWithout(Replaced)
    /\ NotesRace("late", \E j \in Replaced : \E g \in FlowsOf(j) : PastRecall(g))
    /\ UNCHANGED <<page, mounted, ready, linked, uploads>>

IsRetryable(i) ==
    row[i].status = "canceled" \/ (row[i].status = "error" /\ row[i].error \in RetryableCodes)

\* The buttons of a row.
Offers(i) ==
    IF row[i].status \in ActiveStatuses THEN {"cancel"}
    ELSE IF Shown(i) THEN {"remove"} \cup (IF IsRetryable(i) THEN {"retry"} ELSE {}) ELSE {}

Resumes(i) == row[i].fileId /\ i \in descriptor

\* retry(): goes on with the PUT when the row has a fileId and a descriptor.
Retry(i, f) ==
    /\ mounted /\ "retry" \in Offers(i)
    /\ flow[f].pc = "idle"
    /\ Resumes(i) => row[i].status # "canceled"
    /\ IF Resumes(i)
       THEN /\ row' = Patched(i, InStatus("uploading"))
            /\ flow' = [flow EXCEPT ![f] = [pc |-> "put", item |-> i]]
            /\ xhr' = [xhr EXCEPT ![i] = f]
       ELSE /\ row' = [row EXCEPT ![i] = [NoRow EXCEPT !.status = "signing"]]
            /\ flow' = [flow EXCEPT ![f] = [pc |-> "sign", item |-> i]]
            /\ UNCHANGED xhr
    /\ NotesRace("double", FlowsOf(i) # {})
    /\ UNCHANGED <<page, mounted, ready, newest, linked, descriptor, uploads>>

\* A resumed call comes at once to the look at the row that is meant for a cancel
\* during sign(); a row that was cancelled while it was sent has kept that status.
RetryUnheard(i) ==
    /\ mounted /\ "retry" \in Offers(i)
    /\ Resumes(i) /\ row[i].status = "canceled"
    /\ NotesRace("unheard", TRUE)
    /\ UNCHANGED <<page, mounted, ready, newest, linked, row, descriptor, xhr, flow, uploads>>

\* Mutant: a request under way is left alone.
Cancel_KeepsRequest(i) ==
    /\ mounted /\ "cancel" \in Offers(i)
    /\ row' = Patched(i, Canceled)
    /\ NotesRace("late", \E f \in FlowsOf(i) : PastRecall(f))
    /\ UNCHANGED <<page, mounted, ready, newest, linked, descriptor, xhr, flow, uploads>>

\* cancel(), which an active row offers: aborts the request, or marks the row.
Cancel(i) ==
    /\ mounted /\ "cancel" \in Offers(i)
    /\ row' = Patched(i, Canceled)
    /\ flow' = FlowsAfterAbort({i})
    /\ xhr' = XhrWithout({i})
    /\ NotesRace("late", \E f \in FlowsOf(i) : PastRecall(f))
    /\ UNCHANGED <<page, mounted, ready, newest, linked, descriptor, uploads>>

\* remove(), which a row offers that is not active.
Remove(i) ==
    /\ mounted /\ "remove" \in Offers(i)
    /\ row' = [row EXCEPT ![i] = GoneRow]
    /\ descriptor' = descriptor \ {i}
    /\ flow' = FlowsAfterAbort({i})
    /\ xhr' = XhrWithout({i})
    /\ NotesRace("late", \E f \in FlowsOf(i) : PastRecall(f))
    /\ UNCHANGED <<page, mounted, ready, newest, linked, uploads>>

\* The clean-up effect.  The rows stay in itemsRef.
Unmount ==
    /\ mounted
    /\ mounted' = FALSE
    /\ flow' = FlowsAfterAbort(Items)
    /\ xhr' = XhrWithout(Items)
    /\ NotesRace("late", \E f \in Flows : flow[f].pc = "sign" \/ PastRecall(f))
    /\ UNCHANGED <<page, ready, newest, linked, row, descriptor, uploads>>

-----------------------------------------------------------------------------
(***************************************************************************)
(* What the network answers.                                               *)
(***************************************************************************)
\* Mutant: the row is not looked at again.
Recalled_Never(i) == FALSE

\* "cancel()/remove() may have landed while sign() was in-flight".
Recalled(i) == ~Shown(i) \/ row[i].status = "canceled"

SignOk(f) ==
    /\ flow[f].pc = "sign"
    /\ LET i == flow[f].item
           signed == IF mounted /\ Shown(i) THEN [row EXCEPT ![i].fileId = TRUE] ELSE row
       IN /\ descriptor' = descriptor \cup {i}
          /\ IF Recalled(i)
             THEN /\ row' = signed
                  /\ flow' = [flow EXCEPT ![f] = IdleFlow]
                  /\ UNCHANGED xhr
             ELSE /\ row' = IF mounted /\ Shown(i)
                            THEN [signed EXCEPT ![i].status = "uploading"]
                            ELSE row
                  /\ flow' = [flow EXCEPT ![f].pc = "put"]
                  /\ xhr' = [xhr EXCEPT ![i] = f]
    /\ UNCHANGED <<page, mounted, ready, newest, linked, uploads, races>>

\* Any refusal to sign may be retried.
SignFails(f, status) ==
    /\ flow[f].pc = "sign"
    /\ row' = Patched(flow[f].item, Failed(MapSignError(status)))
    /\ flow' = [flow EXCEPT ![f] = IdleFlow]
    /\ UNCHANGED <<page, mounted, ready, newest, linked, descriptor, xhr, uploads, races>>

\* onload, whose entry in xhrMap may by now be another request's.
PutOk(f) ==
    /\ flow[f].pc = "put"
    /\ row' = Patched(flow[f].item, InStatus("completing"))
    /\ xhr' = XhrWithout({flow[f].item})
    /\ flow' = [flow EXCEPT ![f].pc = "complete"]
    /\ UNCHANGED <<page, mounted, ready, newest, linked, descriptor, uploads, races>>

\* Mutant: the failed request stays in xhrMap.
PutFails_KeepsEntry(f, code) ==
    /\ flow[f].pc = "put"
    /\ flow' = [flow EXCEPT ![f] = IdleFlow]
    /\ UNCHANGED <<page, mounted, ready, newest, linked, row, descriptor, xhr, uploads, races>>

\* onerror, ontimeout, or a status that is not 2xx.
PutFails(f, code) ==
    /\ flow[f].pc = "put"
    /\ row' = Patched(flow[f].item, Failed(code))
    /\ xhr' = XhrWithout({flow[f].item})
    /\ flow' = [flow EXCEPT ![f] = IdleFlow]
    /\ UNCHANGED <<page, mounted, ready, newest, linked, descriptor, uploads, races>>

CompleteOk(f) ==
    /\ flow[f].pc = "complete"
    /\ row' = Patched(flow[f].item, InStatus("done"))
    /\ flow' = [flow EXCEPT ![f].pc = "attach"]
    /\ UNCHANGED <<page, mounted, ready, newest, linked, descriptor, xhr, uploads, races>>

\* A 413 may be retried; anything else counts as a rejected file.
CompleteFails(f, status) ==
    /\ flow[f].pc = "complete"
    /\ row' = Patched(flow[f].item, Failed(MapCompleteError(status)))
    /\ flow' = [flow EXCEPT ![f] = IdleFlow]
    /\ UNCHANGED <<page, mounted, ready, newest, linked, descriptor, xhr, uploads, races>>

\* attachFile: the owner's file is replaced by this one.  The tenant's page only
\* reads its list again.
Linked(i, ok) == IF ok /\ ~Multi THEN i ELSE linked

\* onUploaded, whose failure is dropped.
Uploaded(f, ok) ==
    /\ flow[f].pc = "attach"
    /\ ok \/ ~Multi
    /\ linked' = Linked(flow[f].item, ok)
    /\ NotesRace("unlinked", ~ok)
    /\ uploads' = [uploads EXCEPT ![flow[f].item] = @ + 1]
    /\ flow' = [flow EXCEPT ![f] = IdleFlow]
    /\ UNCHANGED <<page, mounted, ready, newest, row, descriptor, xhr>>

-----------------------------------------------------------------------------
Answered(f) ==
    \/ SignOk(f) \/ PutOk(f) \/ CompleteOk(f)
    \/ \E status \in Refusals : SignFails(f, status) \/ CompleteFails(f, status)
    \/ \E code \in {"network", "quota_exceeded"} : PutFails(f, code)
    \/ \E ok \in BOOLEAN : Uploaded(f, ok)

Next ==
    \/ PageReady
    \/ \E i \in Items, f \in Flows :
          \/ \E fault \in ClientFaults, seen \in BOOLEAN : AddFiles(i, f, fault, seen)
          \/ Retry(i, f)
    \/ \E i \in Items : RetryUnheard(i) \/ Cancel(i) \/ Remove(i)
    \/ Unmount
    \/ \E f \in Flows : Answered(f)

Spec == Init /\ [][Next]_vars

\* Every request is answered or fails in the end; nothing is assumed of the user.
Fairness == \A f \in Flows : WF_vars(Answered(f))

FairSpec == Spec /\ Fairness

-----------------------------------------------------------------------------
TypeOK ==
    /\ page \in Pages /\ mounted \in BOOLEAN /\ ready \in BOOLEAN
    /\ newest \in Items \cup {NoItem} /\ linked \in Items \cup {NoItem}
    /\ row \in [Items -> [status : Statuses, error : Codes \cup {NoError}, fileId : BOOLEAN]]
    /\ descriptor \subseteq Items
    /\ xhr \in [Items -> Flows \cup {NoFlow}]
    /\ flow \in [Flows -> [pc : {"idle", "sign", "put", "complete", "attach"},
                           item : Items \cup {NoItem}]]
    /\ uploads \in [Items -> Nat]
    /\ races \subseteq Races

\* While bytes are being sent the widget knows it: the row is shown as uploading,
\* so that the page warns before it is left, and cancel finds the request.  The
\* rows whose requests were overtaken are excepted.
InFlightShown ==
    races \cap {"late", "double"} = {} => \A f \in Flows : flow[f].pc = "put" =>
        LET i == flow[f].item IN row[i].status = "uploading" /\ xhr[i] = f /\ mounted

\* A row's file is handed to the page once, and never after the user has
\* cancelled, removed or replaced the row ("otherwise we'd silently start the
\* PUT").
HandedOverOnce ==
    [][\A f \in Flows : (\E ok \in BOOLEAN : Uploaded(f, ok)) /\ races \cap {"late", "double"} = {} =>
          LET i == flow[f].item IN row[i].status = "done" /\ uploads[i] = 0]_vars

\* When nothing is under way, the profile or organization has the file that was
\* picked last, if it was uploaded: an older upload never wins.
PickedLastWins ==
    (~Multi /\ newest # NoItem /\ races = {} /\ \A f \in Flows : flow[f].pc = "idle")
        => (row[newest].status = "done" => linked = newest)

\* A row does not stay signing, uploading or completing for ever.
ActiveEnds ==
    \A i \in Items : (mounted /\ row[i].status \in ActiveStatuses)
                         ~> (~mounted \/ row[i].status \notin ActiveStatuses)

\* "A retryable item: failed with a transient code, or user-canceled": a retry is
\* never without effect.
RetryHeard == "unheard" \notin races

=============================================================================
