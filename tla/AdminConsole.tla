---------------------------- MODULE AdminConsole ----------------------------
(***************************************************************************)
(* The operator's console: the admin routes of the API and the pages that  *)
(* read and change platform state over a query cache, while other          *)
(* operators and the workers change the same rows.                         *)
(*                                                                         *)
(* The operator has one of five screens open, `screen`.  Three of them     *)
(* show one flag of one row, in a list and (for tenants and users) on a    *)
(* page of its own: a tenant deactivated, a user banned, a webhook         *)
(* disabled by an operator.  The others manage the roles of the tenants    *)
(* and the files of one tenant.                                            *)
(***************************************************************************)
EXTENDS QueryCache, FiniteSets

CONSTANTS
    Screens,    \* the screens the operator may have open
    Own,        \* bound: role calls of the page under way at the same time
    MaxRoles,   \* roles a tenant may have: 50 in the code
    Files,      \* files of the tenant shown, a set of naturals
    Images      \* those that a worker transforms

VARIABLES
    screen,     \* constant
    \* Flags.
    flag,       \* the row's flag in the database
    page,       \* "list" or "detail"
    q,          \* the query of each page: one family, invalidated together
    dialog,     \* the dialog that asks for confirmation, with the flag of the
                \* row it was opened for (lists keep the row, the detail page
                \* looks at its own query)
    mut,        \* the mutation: progress, flag it sets, "sure" if the page had
                \* nothing under way that could change what it says
    told,       \* what the operator was last told of the flag; "nothing" also
                \* once another has changed it, or an answer was lost
    \* Roles.
    role,       \* in one tenant, the permission of one role
    others,     \* and the number of its other custom roles
    call,       \* role calls in the API: the page's save and delete, and
                \* those of another operator
    sel,        \* the tenant selected: "none", "it" or "another"
    rq,         \* the query ["admin", "tenant-roles", tenant] of that tenant
    editing,    \* the role in the dialog, if it is open
    toldRole,   \* what the operator was last told of the role
    overlap,    \* two roles were being created in one tenant at the same time
    \* Files.
    file,       \* status of each file
    fq,         \* the query of the files card
    upload,     \* the card's upload of each file
    del,        \* the card's delete: the dialog's file and progress
    toldFile    \* files the operator was told are uploaded, or deleted

NamesAssumption == MaxRoles \in Nat

flagVars == <<flag, page, q, dialog, mut, told>>
roleVars == <<role, others, call, sel, rq, editing, toldRole, overlap>>
fileVars == <<file, fq, upload, del, toldFile>>
vars == <<screen, flagVars, roleVars, fileVars>>

FlagScreens == {"tenants", "users", "webhooks"}
Values == {"on", "off"}
Not(v) == IF v = "on" THEN "off" ELSE "on"
Pages == {"list", "detail"}
NoId == 0
Perms == {"r", "w"}
Grants == Perms \cup {"none"}
Procs == {"save", "delete", "other"}
Statuses == {"absent", "pending", "uploaded", "transforming", "ready", "failed", "deleted"}

IdleMut == [at |-> "idle", to |-> "off", sure |-> TRUE]
IdleCall == [pc |-> "idle", op |-> "create", it |-> TRUE, perm |-> "none"]
Closed == [open |-> FALSE, original |-> FALSE, perm |-> "none"]
NoDelete == [file |-> NoId, at |-> "idle", of |-> NoId]

TypeOK ==
    /\ screen \in Screens
    /\ flag \in Values /\ page \in Pages
    /\ DOMAIN q = Pages /\ \A p \in Pages : q[p] \in QueryOf(Values)
    /\ dialog \in [open : BOOLEAN, row : Values]
    /\ mut \in [at : {"idle", "asked", "done", "failed"}, to : Values, sure : BOOLEAN]
    /\ told \in Values \cup {"nothing"}
    /\ role \in Grants /\ others \in Nat
    /\ call \in [Procs -> [pc : {"idle", "look", "tally", "write", "done"},
                           op : {"create", "edit", "delete"},
                           it : BOOLEAN, perm : Grants]]
    /\ sel \in {"none", "it", "another"}
    /\ rq \in QueryOf(Grants)
    /\ editing \in [open : BOOLEAN, original : BOOLEAN, perm : Grants]
    /\ toldRole \in Grants \cup {"nothing"}
    /\ file \in [Files -> Statuses]
    /\ fq \in QueryOf([Files -> Statuses])
    /\ upload \in [Files -> {"none", "signed", "completed", "ended"}]
    /\ del \in [file : Files \cup {NoId}, at : {"idle", "asked", "done", "failed"},
                of : Files \cup {NoId}]
    /\ toldFile \in [Files -> {"nothing", "uploaded", "deleted", "unsure"}]

Init ==
    /\ screen \in Screens
    /\ flag = "off" /\ page = "list"
    /\ q = [p \in Pages |-> NoQuery("off")]
    /\ dialog = [open |-> FALSE, row |-> "off"]
    /\ mut = IdleMut /\ told = "nothing"
    /\ role = "none" /\ others = 0
    /\ call = [c \in Procs |-> IdleCall]
    /\ sel = "none"
    /\ rq = NoQuery("none")
    /\ editing = Closed /\ toldRole = "nothing" /\ overlap = FALSE
    /\ file \in [Files -> {"absent", "pending"}] /\ (screen # "files" => \A f \in Files : file[f] = "absent")
    /\ fq = NoQuery([f \in Files |-> "absent"])
    /\ upload = [f \in Files |-> "none"]
    /\ del = NoDelete
    /\ toldFile = [f \in Files |-> "nothing"]

\* A query with an answer that invalidateQueries leaves to settle: a first
\* fetch, or one of a page that is not shown.
LeftToSettle(x, isShown) == x.at = "read" /\ (~isShown \/ ~x.has)

-----------------------------------------------------------------------------
(* Flags.                                                                  *)

OnFlag == screen \in FlagScreens /\ UNCHANGED <<screen, roleVars, fileVars>>

\* What the routes answer for the flag.  The route of one user does not select
\* the columns of a ban: its page never sees one.
RowAnswers == flag
UserAnswers(p) == IF p = "detail" THEN "off" ELSE flag

\* The list's menu and the page's Back button.  Webhooks have no page.
Navigate(p) ==
    /\ OnFlag /\ screen # "webhooks" /\ p # page /\ ~dialog.open
    /\ page' = p
    /\ UNCHANGED <<flag, q, dialog, mut, told>>

\* On mount if the data is old (staleTime), and by the Retry button.
FlagAsked ==
    /\ OnFlag /\ q[page].at = "idle" /\ q[page].stale
    /\ q' = [q EXCEPT ![page] = Asked(@)]
    /\ UNCHANGED <<flag, page, dialog, mut, told>>

FlagAnswered(p) ==
    /\ OnFlag /\ q[p].at = "asked"
    /\ q' = [q EXCEPT ![p] = Answered(@, IF screen = "users" THEN UserAnswers(p) ELSE RowAnswers)]
    /\ UNCHANGED <<flag, page, dialog, mut, told>>

FlagSettles(p) ==
    /\ OnFlag /\ q[p].at # "idle"
    /\ q' = [q EXCEPT ![p] = IF @.at = "read" THEN Settled(@) ELSE FetchFailed(@)]
    /\ UNCHANGED <<flag, page, dialog, mut, told>>

\* A row of the list, or the page, is asked to change.  A webhook that is
\* disabled is enabled at once, without a dialog.
OpenDialog ==
    /\ OnFlag /\ q[page].has /\ ~dialog.open
    /\ ~(screen = "webhooks" /\ q[page].data = "on")
    /\ dialog' = [open |-> TRUE, row |-> q[page].data]
    /\ UNCHANGED <<flag, page, q, mut, told>>

CloseDialog ==
    /\ OnFlag /\ dialog.open
    /\ dialog' = [dialog EXCEPT !.open = FALSE]
    /\ UNCHANGED <<flag, page, q, mut, told>>

\* The lists of tenants and webhooks only disable; the list of users keeps the
\* row the dialog was opened for; the pages look at what they show now.
ListTarget == IF screen = "users" THEN Not(dialog.row) ELSE "on"
PageTarget == Not(q["detail"].data)
Target == IF page = "list" THEN ListTarget ELSE PageTarget

Confirm ==
    /\ OnFlag /\ dialog.open /\ mut.at = "idle"
    /\ mut' = [at |-> "asked", to |-> Target, sure |-> page = "list" \/ Fresh(q[page])]
    /\ UNCHANGED <<flag, page, q, dialog, told>>

Enable ==
    /\ OnFlag /\ screen = "webhooks" /\ mut.at = "idle" /\ ~dialog.open
    /\ q[page].has /\ q[page].data = "on"
    /\ mut' = [at |-> "asked", to |-> "off", sure |-> TRUE]
    /\ UNCHANGED <<flag, page, q, dialog, told>>

\* PATCH: the whole metadata, the ban or the status is overwritten, whatever
\* it was.  The call may also be refused.
FlagWritten ==
    /\ OnFlag /\ mut.at = "asked"
    /\ flag' = mut.to
    /\ mut' = [mut EXCEPT !.at = "done"]
    /\ UNCHANGED <<page, q, dialog, told>>

FlagRefused ==
    /\ OnFlag /\ mut.at = "asked"
    /\ mut' = [mut EXCEPT !.at = "failed"]
    /\ UNCHANGED <<flag, page, q, dialog, told>>

FamilyInvalidated ==
    q' = [p \in Pages |-> IF p = page THEN Invalidated(q[p]) ELSE [q[p] EXCEPT !.stale = TRUE]]

\* MUTANT: the list is not invalidated by a change made on the page.
FlagDone_PageOnly ==
    /\ OnFlag /\ mut.at = "done"
    /\ q' = [q EXCEPT ![page] = Invalidated(@)]
    /\ dialog' = [dialog EXCEPT !.open = FALSE]
    /\ mut' = IdleMut
    /\ told' = IF mut.sure /\ ~\E p \in Pages : LeftToSettle(q[p], p = page)
               THEN mut.to ELSE "nothing"
    /\ UNCHANGED <<flag, page>>

\* The toast, the whole family and the dialog.  Nothing is promised of a page
\* whose answer was under way.
FlagDone ==
    /\ OnFlag /\ mut.at = "done"
    /\ FamilyInvalidated
    /\ dialog' = [dialog EXCEPT !.open = FALSE]
    /\ mut' = IdleMut
    /\ told' = IF mut.sure /\ ~\E p \in Pages : LeftToSettle(q[p], p = page)
               THEN mut.to ELSE "nothing"
    /\ UNCHANGED <<flag, page>>

\* onError: refused, or carried out and the answer is lost.  A toast, and nothing
\* is read again.  A call given up before it is carried out may be later: to the
\* page that is a change made by another operator.
FlagFailed ==
    /\ OnFlag /\ mut.at \in {"done", "failed"}
    /\ mut' = IdleMut
    /\ told' = IF mut.at = "done" THEN "nothing" ELSE told
    /\ UNCHANGED <<flag, page, q, dialog>>

\* Another operator's console.
OthersFlag ==
    /\ OnFlag
    /\ flag' = Not(flag)
    /\ told' = "nothing"
    /\ mut' = [mut EXCEPT !.sure = @ /\ mut.at # "done"]
    /\ UNCHANGED <<page, q, dialog>>

-----------------------------------------------------------------------------
(* Roles.                                                                  *)

OnRoles == screen = "roles" /\ UNCHANGED <<screen, flagVars, fileVars>>

Count == others + IF role = "none" THEN 0 ELSE 1
\* The role a call names is there.
Here(x) == IF x.it THEN role # "none" ELSE x.op # "create" /\ others > 0
\* A call that fails tells its caller so and nothing else.
Goes(c, pc) ==
    call' = [call EXCEPT ![c] = IF pc = "failed" \/ (c = "other" /\ pc = "done")
                                THEN IdleCall ELSE [@ EXCEPT !.pc = pc]]

\* Built-in names and permissions that are not in the catalogue are refused
\* before anything is read; so is a tenant that does not exist.  Or the answer is
\* lost, and the page does as if the call were refused.  One given up before it is
\* carried out may be later, as a call of another operator.
RoleFails(c) ==
    /\ OnRoles /\ call[c].pc \in {"look", "done"}
    /\ Goes(c, "failed")
    /\ UNCHANGED <<role, others, sel, rq, editing, toldRole, overlap>>

\* The role is looked up: a role to create must be new, the others must exist.
RoleLooked(c) ==
    /\ OnRoles /\ call[c].pc = "look"
    /\ Goes(c, IF Here(call[c]) = (call[c].op = "create") THEN "failed"
               ELSE IF call[c].op = "create" THEN "tally" ELSE "write")
    /\ UNCHANGED <<role, others, sel, rq, editing, toldRole, overlap>>

Overlaps(c) == \E d \in Procs \ {c} : call[d].pc = "write" /\ call[d].op = "create"

\* MUTANT: one role too many.
RoleTallied_OffByOne(c) ==
    /\ OnRoles /\ call[c].pc = "tally"
    /\ Goes(c, IF Count > MaxRoles THEN "failed" ELSE "write")
    /\ overlap' = (overlap \/ Overlaps(c))
    /\ UNCHANGED <<role, others, sel, rq, editing, toldRole>>

RoleTallied(c) ==
    /\ OnRoles /\ call[c].pc = "tally"
    /\ Goes(c, IF Count >= MaxRoles THEN "failed" ELSE "write")
    /\ overlap' = (overlap \/ Overlaps(c))
    /\ UNCHANGED <<role, others, sel, rq, editing, toldRole>>

\* The statement that writes.  A duplicate is stopped by the unique index; an
\* update of a row that has gone changes nothing and is answered as a success.
RoleWritten(c) ==
    /\ OnRoles /\ call[c].pc = "write"
    /\ LET x == call[c]
           writes == Here(x) # (x.op = "create")
       IN /\ Goes(c, IF x.op = "create" /\ ~writes THEN "failed" ELSE "done")
          /\ role' = IF writes /\ x.it THEN x.perm ELSE role
          /\ others' = IF ~writes \/ x.it THEN others
                       ELSE CASE x.op = "create" -> others + 1
                              [] x.op = "delete" -> others - 1
                              [] OTHER -> others
          /\ toldRole' = IF role' # role THEN "nothing" ELSE toldRole
    /\ UNCHANGED <<sel, rq, editing, overlap>>

\* Another operator: the outcome is of no concern here.
OthersRole(op, it, p) ==
    /\ OnRoles /\ call["other"].pc = "idle"
    /\ (op = "delete") = (p = "none")
    /\ call' = [call EXCEPT !["other"] =
                   [pc |-> "look", op |-> op, it |-> it, perm |-> p]]
    /\ UNCHANGED <<role, others, sel, rq, editing, toldRole, overlap>>

\* The tenant is chosen where no dialog covers it.
SelectTenant(t) ==
    /\ OnRoles /\ ~editing.open /\ sel # t
    /\ sel' = t
    /\ UNCHANGED <<role, others, call, rq, editing, toldRole, overlap>>

RolesAsked ==
    /\ OnRoles /\ sel = "it" /\ rq.at = "idle" /\ rq.stale
    /\ rq' = Asked(rq)
    /\ UNCHANGED <<role, others, call, sel, editing, toldRole, overlap>>

RolesAnswered ==
    /\ OnRoles /\ rq.at = "asked"
    /\ rq' = Answered(rq, role)
    /\ UNCHANGED <<role, others, call, sel, editing, toldRole, overlap>>

RolesSettle ==
    /\ OnRoles /\ rq.at # "idle"
    /\ rq' = IF rq.at = "read" THEN Settled(rq) ELSE FetchFailed(rq)
    /\ UNCHANGED <<role, others, call, sel, editing, toldRole, overlap>>

\* The dialog, for a new role or for one of the list.
EditRole(isNew) ==
    /\ OnRoles /\ sel = "it" /\ ~editing.open
    /\ isNew \/ (rq.has /\ rq.data # "none")
    /\ \E p \in Perms : editing' = [open |-> TRUE, original |-> ~isNew, perm |-> p]
    /\ UNCHANGED <<role, others, call, sel, rq, toldRole, overlap>>

CancelRole ==
    /\ OnRoles /\ editing.open
    /\ editing' = Closed
    /\ UNCHANGED <<role, others, call, sel, rq, toldRole, overlap>>

PageIdle(c) == /\ call[c].pc = "idle"
               /\ Cardinality({d \in Procs \ {"other"} : call[d].pc # "idle"}) < Own

SaveRole ==
    /\ OnRoles /\ editing.open /\ PageIdle("save")
    /\ call' = [call EXCEPT !["save"] =
                   [pc |-> "look", op |-> IF editing.original THEN "edit" ELSE "create",
                    it |-> TRUE, perm |-> editing.perm]]
    /\ UNCHANGED <<role, others, sel, rq, editing, toldRole, overlap>>

DeleteRole ==
    /\ OnRoles /\ sel = "it" /\ ~editing.open /\ PageIdle("delete")
    /\ rq.has /\ rq.data # "none"
    /\ call' = [call EXCEPT !["delete"] =
                   [pc |-> "look", op |-> "delete", it |-> TRUE, perm |-> "none"]]
    /\ UNCHANGED <<role, others, sel, rq, editing, toldRole, overlap>>

\* What the operator may rely on once the answer of c has come: the tenant is
\* the one still selected, the row is as written, no answer is left to settle.
Relied(c) ==
    IF sel = "it" /\ role = call[c].perm /\ ~LeftToSettle(rq, TRUE)
    THEN role ELSE "nothing"

\* MUTANT: the list is not read again.
RoleDone_NoRefetch(c) ==
    /\ OnRoles /\ c # "other" /\ call[c].pc = "done"
    /\ Goes(c, "idle")
    /\ toldRole' = Relied(c)
    /\ editing' = IF c = "save" THEN Closed ELSE editing
    /\ UNCHANGED <<role, others, sel, rq, overlap>>

\* onSuccess belongs to the last render: it invalidates the list of the tenant
\* that is selected now, and closes the dialog that is open now.
RoleDone(c) ==
    /\ OnRoles /\ c # "other" /\ call[c].pc = "done"
    /\ call' = [call EXCEPT ![c] = IdleCall]
    /\ toldRole' = Relied(c)
    /\ rq' = IF sel = "it" THEN Invalidated(rq) ELSE rq
    /\ editing' = IF c = "save" THEN Closed ELSE editing
    /\ UNCHANGED <<role, others, sel, overlap>>

-----------------------------------------------------------------------------
(* The files of a tenant.                                                  *)

OnFiles == screen = "files" /\ UNCHANGED <<screen, flagVars, roleVars>>

Live(f) == file[f] \notin {"absent", "deleted"}
Listed == [f \in Files |-> IF Live(f) THEN file[f] ELSE "absent"]

\* isInFlight: an image that has no variants yet.
InFlight(f, status) == f \in Images /\ status \in {"transforming", "uploaded"}
Polling == fq.has /\ \E f \in Files : InFlight(f, fq.data[f])

\* adminSignUpload for a file the card uploads: a reservation, a pending row
\* and a signed URL; a failure takes back the two first.
AdminSignUpload(f) ==
    /\ OnFiles /\ file[f] = "absent" /\ upload[f] = "none"
    /\ file' = [file EXCEPT ![f] = "pending"]
    /\ upload' = [upload EXCEPT ![f] = "signed"]
    /\ UNCHANGED <<fq, del, toldFile>>

AdminSignFails(f) ==
    /\ OnFiles /\ file[f] = "absent" /\ upload[f] = "none"
    /\ upload' = [upload EXCEPT ![f] = "ended"]
    /\ UNCHANGED <<file, fq, del, toldFile>>

\* adminCompleteUpload: a pending row becomes uploaded, or is removed with its
\* object if the object is not what was signed for; a row that is no longer
\* pending is answered as it is.
AdminCompleteUpload(f) ==
    /\ OnFiles /\ upload[f] = "signed" /\ Live(f)
    /\ \/ /\ file' = [file EXCEPT ![f] = IF @ = "pending" THEN "uploaded" ELSE @]
          /\ upload' = [upload EXCEPT ![f] = "completed"]
       \/ /\ file[f] = "pending"
          /\ file' = [file EXCEPT ![f] = "deleted"]
          /\ upload' = [upload EXCEPT ![f] = "ended"]
    /\ UNCHANGED <<fq, del, toldFile>>

AdminCompleteNotFound(f) ==
    /\ OnFiles /\ upload[f] = "signed" /\ ~Live(f)
    /\ upload' = [upload EXCEPT ![f] = "ended"]
    /\ UNCHANGED <<file, fq, del, toldFile>>

\* MUTANT: the list is not read again.
Uploaded_NoRefetch(f) ==
    /\ OnFiles /\ upload[f] = "completed"
    /\ upload' = [upload EXCEPT ![f] = "ended"]
    /\ toldFile' = [toldFile EXCEPT ![f] = "uploaded"]
    /\ UNCHANGED <<file, fq, del>>

\* onUploaded: a toast, and the list is read again.
Uploaded(f) ==
    /\ OnFiles /\ upload[f] = "completed"
    /\ upload' = [upload EXCEPT ![f] = "ended"]
    /\ toldFile' = [toldFile EXCEPT ![f] =
                       IF LeftToSettle(fq, TRUE) \/ ~Live(f) THEN "unsure" ELSE "uploaded"]
    /\ fq' = Invalidated(fq)
    /\ UNCHANGED <<file, del>>

\* The completion is answered by no one, and the list is not read again.
UploadFails(f) ==
    /\ OnFiles /\ upload[f] = "completed"
    /\ upload' = [upload EXCEPT ![f] = "ended"]
    /\ UNCHANGED <<file, fq, del, toldFile>>

\* A member of the tenant completes an upload of his own.
OthersComplete(f) ==
    /\ OnFiles /\ file[f] = "pending" /\ upload[f] = "none"
    /\ file' = [file EXCEPT ![f] = "uploaded"]
    /\ UNCHANGED <<fq, upload, del, toldFile>>

\* The transform worker, which may never be told of the file.
WorkerStarts(f) ==
    /\ OnFiles /\ f \in Images /\ file[f] = "uploaded"
    /\ file' = [file EXCEPT ![f] = "transforming"]
    /\ UNCHANGED <<fq, upload, del, toldFile>>

WorkerEnds(f) ==
    /\ OnFiles /\ file[f] = "transforming"
    /\ \E s \in {"ready", "failed"} : file' = [file EXCEPT ![f] = s]
    /\ UNCHANGED <<fq, upload, del, toldFile>>

\* The first fetch, and the poll while an image is in flight.
FilesAsked ==
    /\ OnFiles /\ fq.at = "idle" /\ (~fq.has \/ Polling)
    /\ fq' = Asked(fq)
    /\ UNCHANGED <<file, upload, del, toldFile>>

\* adminListFilesForTenant.
FilesAnswered ==
    /\ OnFiles /\ fq.at = "asked"
    /\ fq' = Answered(fq, Listed)
    /\ UNCHANGED <<file, upload, del, toldFile>>

FilesSettle ==
    /\ OnFiles /\ fq.at = "read"
    /\ fq' = Settled(fq)
    /\ UNCHANGED <<file, upload, del, toldFile>>

\* The list that an upload has asked for does not come, and unless an image is
\* in flight nothing will ask for it again.
FilesFail ==
    /\ OnFiles /\ fq.at = "asked"
    /\ fq' = FetchFailed(fq)
    /\ toldFile' = [f \in Files |-> IF toldFile[f] = "uploaded" /\ fq.has /\ ~InFlight(f, fq.data[f])
                                    THEN "unsure" ELSE toldFile[f]]
    /\ UNCHANGED <<file, upload, del>>

\* setFileToDelete, from a row; the dialog's Cancel.
AskDelete(f) ==
    /\ OnFiles /\ fq.has /\ fq.data[f] # "absent" /\ del.file = NoId
    /\ del' = [del EXCEPT !.file = f]
    /\ UNCHANGED <<file, fq, upload, toldFile>>

KeepFile ==
    /\ OnFiles /\ del.file # NoId
    /\ del' = [del EXCEPT !.file = NoId]
    /\ UNCHANGED <<file, fq, upload, toldFile>>

ConfirmDelete ==
    /\ OnFiles /\ del.file # NoId /\ del.at = "idle"
    /\ del' = [del EXCEPT !.at = "asked", !.of = del.file]
    /\ UNCHANGED <<file, fq, upload, toldFile>>

\* adminDeleteFile: the row is locked and tombstoned; one that is not live is
\* not found.
AdminDeleteFile ==
    /\ OnFiles /\ del.at = "asked"
    /\ \/ /\ Live(del.of)
          /\ file' = [file EXCEPT ![del.of] = "deleted"]
          /\ del' = [del EXCEPT !.at = "done"]
       \/ /\ del' = [del EXCEPT !.at = "failed"]
          /\ UNCHANGED file
    /\ UNCHANGED <<fq, upload, toldFile>>

\* A member deletes it, or it is replaced.
OthersDelete(f) ==
    /\ OnFiles /\ Live(f)
    /\ file' = [file EXCEPT ![f] = "deleted"]
    /\ UNCHANGED <<fq, upload, del, toldFile>>

\* The toast, the list, and the dialog that is open now.
DeleteDone ==
    /\ OnFiles /\ del.at = "done"
    /\ del' = NoDelete
    /\ toldFile' = [toldFile EXCEPT ![del.of] =
                       IF LeftToSettle(fq, TRUE) THEN "unsure" ELSE "deleted"]
    /\ fq' = Invalidated(fq)
    /\ UNCHANGED <<file, upload>>

\* Not found, or deleted and the answer is lost.
DeleteFailed ==
    /\ OnFiles /\ del.at \in {"done", "failed"}
    /\ del' = [del EXCEPT !.at = "idle", !.of = NoId]
    /\ UNCHANGED <<file, fq, upload, toldFile>>

-----------------------------------------------------------------------------
Next ==
    \/ \E p \in Pages : Navigate(p) \/ FlagAnswered(p) \/ FlagSettles(p)
    \/ FlagAsked \/ OpenDialog \/ CloseDialog \/ Confirm \/ Enable
    \/ FlagWritten \/ FlagRefused \/ FlagDone \/ FlagFailed \/ OthersFlag
    \/ \E c \in Procs : RoleFails(c) \/ RoleLooked(c) \/ RoleTallied(c) \/ RoleWritten(c)
                        \/ RoleDone(c)
    \/ \E t \in {"it", "another"} : SelectTenant(t)
    \/ \E op \in {"create", "edit", "delete"}, it \in BOOLEAN, p \in Grants : OthersRole(op, it, p)
    \/ \E isNew \in BOOLEAN : EditRole(isNew)
    \/ RolesAsked \/ RolesAnswered \/ RolesSettle \/ DeleteRole \/ CancelRole \/ SaveRole
    \/ \E f \in Files : AdminSignUpload(f) \/ AdminSignFails(f) \/ AdminCompleteUpload(f)
                        \/ AdminCompleteNotFound(f) \/ Uploaded(f) \/ UploadFails(f)
                        \/ OthersComplete(f)
                        \/ WorkerStarts(f) \/ WorkerEnds(f) \/ AskDelete(f) \/ OthersDelete(f)
    \/ FilesAsked \/ FilesAnswered \/ FilesSettle \/ FilesFail
    \/ KeepFile \/ ConfirmDelete \/ AdminDeleteFile \/ DeleteDone \/ DeleteFailed

Spec == Init /\ [][Next]_vars

\* The browser goes on polling and a request that is repeated is answered in
\* the end; no one has to click, and the worker may never start.
Fairness ==
    /\ WF_vars(FilesAsked) /\ SF_vars(FilesAnswered) /\ WF_vars(FilesSettle)

FairSpec == Spec /\ Fairness

-----------------------------------------------------------------------------
(* Properties.                                                             *)

\* A page that is up to date shows the flag the operator was told he has set,
\* wherever in the console he set it, if nothing has changed it since, heard or
\* not: but for the page of a user, whose route leaves the ban out.
FlagAsTold ==
    /\ screen \in FlagScreens /\ ~(screen = "users" /\ page = "detail")
    /\ told # "nothing" /\ mut.at = "idle" /\ Fresh(q[page])
    => q[page].data = told

\* The page of a user shows, once it is up to date, that the user is banned.
BanShown ==
    screen = "users" /\ page = "detail" /\ told # "nothing" /\ mut.at = "idle" /\ Fresh(q[page])
    => q[page].data = told

\* The list of roles that is up to date shows the role as it was saved.
RolesAsTold ==
    toldRole # "nothing" /\ sel = "it" /\ Fresh(rq) => rq.data = toldRole

\* A tenant has no more roles than the limit, unless two calls have counted
\* them at the same time.
RolesWithinLimit == Count <= MaxRoles \/ overlap

\* A list of files that is up to date does not show a file that the operator
\* was told is deleted.
FilesAsTold == \A f \in Files : toldFile[f] = "deleted" /\ Fresh(fq) => fq.data[f] = "absent"

\* An image that was uploaded here is shown ready once it is: the card polls
\* until then, and its first list was not under way during the upload.
ReadyShown ==
    \A f \in Images : (toldFile[f] = "uploaded" /\ file[f] = "ready")
                      ~> (fq.data[f] = "ready" \/ toldFile[f] # "uploaded" \/ file[f] # "ready")

=============================================================================
