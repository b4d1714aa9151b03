---------------------------- MODULE Invitations -----------------------------
(***************************************************************************)
(* The invitations of one organization: the routes of the API processes    *)
(* over the organization service (external), the pending list and the      *)
(* invite dialog of an administrator's browser, and the page, the sign-up  *)
(* form and the log-in form of the person invited.  One e-mail address is  *)
(* invited by e-mail; links have an address of their own each.             *)
(*                                                                         *)
(* A call is cut at every await of its handler; each process keeps the     *)
(* set of the resends it has under way, and loses it when it crashes.      *)
(***************************************************************************)
EXTENDS QueryCache, FiniteSets

CONSTANTS
    Ids,        \* invitation ids, a set of naturals: bounds the rows created
    Calls,      \* calls the API answers at the same time
    Procs,      \* API processes
    Parties     \* the sets of parties to consider: "list", "dialog", "api", "invited"

VARIABLES
    inv,        \* the invitations: status, kind, and the one they replace
    inflight,   \* inFlightResends, one set per process
    call,       \* the calls under way
    wanted,     \* the address should have an invitation it can accept
    list,       \* the browser's query ["invitations"]
    panel,      \* PendingInvitations and InviteDialog: what they show
    page,       \* the page of the person invited
    refused,    \* the page's accept or decline was answered with an error
    withdrawn,  \* the invitations this browser was told are cancelled
    present     \* the parties that take part, constant

vars == <<inv, inflight, call, wanted, list, panel, page, refused, withdrawn,
          present>>
serverVars == <<inv, inflight, call, wanted>>
pageVars == <<page, refused, withdrawn, present>>

NoId == 0

\* Names are told apart from their absence, and there is an invitation to begin with.
NamesAssumption == /\ Ids \subseteq Nat \ {NoId} /\ 1 \in Ids
                   /\ NoId \notin Procs /\ IsFiniteSet(Calls)

Kinds == {"email", "link"}
Statuses == {"unused", "pending", "accepted", "rejected", "canceled"}

UnusedRow == [st |-> "unused", kind |-> "link", from |-> NoId]
IdleCall == [pc |-> "idle", id |-> NoId, kind |-> "link", proc |-> NoId,
             by |-> "api"]

\* Where a resend stands between taking its key and giving it back.
ResendSteps == {"lookup", "linkCreate", "linkCancel",
                "emailCancel", "emailCreate", "reissue"}
CallSteps == {"idle", "create", "cancel", "resend", "ok", "failed"}
             \cup ResendSteps

PageStates == {"signup", "joining", "login", "loading", "invalid", "offer",
               "accepting", "activating", "declining", "declined", "already",
               "home"}

TypeOK ==
    /\ inv \in [Ids -> [st : Statuses, kind : Kinds, from : Ids \cup {NoId}]]
    /\ inflight \in [Procs -> SUBSET Ids]
    /\ call \in [Calls -> [pc : CallSteps, id : Ids \cup {NoId},
                           kind : Kinds, proc : Procs \cup {NoId},
                           by : {"list", "confirm", "dialog", "api"}]]
    /\ wanted \in BOOLEAN
    /\ list \in QueryOf(SUBSET (Ids \X Statuses))
    /\ panel \in [resending : Ids \cup {NoId}, target : Ids \cup {NoId},
                  open : BOOLEAN, link : BOOLEAN, url : Ids \cup {NoId}]
    /\ page \in [at : PageStates, token : Ids, dialog : BOOLEAN]
    /\ refused \in BOOLEAN
    /\ withdrawn \subseteq Ids
    /\ present \in Parties

Pending == {i \in Ids : inv[i].st = "pending"}
PendingEmail == {i \in Pending : inv[i].kind = "email"}

Init ==
    /\ \E k \in Kinds, st \in {"unused", "pending"} :
          inv = [i \in Ids |-> IF i = 1 THEN [UnusedRow EXCEPT !.st = st, !.kind = k]
                              ELSE UnusedRow]
    /\ inflight = [p \in Procs |-> {}]
    /\ call = [c \in Calls |-> IdleCall]
    /\ wanted = (PendingEmail # {})
    /\ list = Asked(NoQuery({}))
    /\ panel = [resending |-> NoId, target |-> NoId,
                open |-> FALSE, link |-> FALSE, url |-> NoId]
    /\ page \in [at : {"signup", "login", "loading"}, token : {1},
                 dialog : {FALSE}]
    /\ refused = FALSE
    /\ withdrawn = {}
    /\ present \in Parties

-----------------------------------------------------------------------------
(* The organization service.                                               *)

Unused == {i \in Ids : inv[i].st = "unused"}
NextId == CHOOSE i \in Unused : \A j \in Unused : i <= j

\* createInvitation: a second pending invitation of an address is refused.
Creatable(kind) == Unused # {} /\ (kind = "email" => PendingEmail = {})
Created(kind, from) ==
    [inv EXCEPT ![NextId] = [st |-> "pending", kind |-> kind, from |-> from]]

CanceledRow(i) == [inv EXCEPT ![i].st = "canceled"]

At(c, pc) == call[c].pc = pc
To(c, pc) == call' = [call EXCEPT ![c].pc = pc]

\* The call is answered and the resend's key given back.
Finishes(c, pc) ==
    /\ To(c, pc)
    /\ inflight' = [inflight EXCEPT ![call[c].proc] = @ \ {call[c].id}]

-----------------------------------------------------------------------------
(* The routes.                                                             *)

Free(c) == At(c, "idle")
Starts(c, pc, i, kind, p, by) ==
    call' = [call EXCEPT ![c] = [pc |-> pc, id |-> i, kind |-> kind,
                                 proc |-> p, by |-> by]]

\* POST /api/invitations.
CreateOk(c) ==
    /\ At(c, "create")
    /\ Creatable(call[c].kind)
    /\ inv' = Created(call[c].kind, NoId)
    /\ call' = [call EXCEPT ![c].pc = "ok", ![c].id = NextId]
    /\ wanted' = (wanted \/ call[c].kind = "email")
    /\ UNCHANGED <<inflight, list, panel, pageVars>>

\* Any of the two may be refused, by the service or on the way.
Refused(c) ==
    /\ At(c, "create") \/ At(c, "cancel")
    /\ To(c, "failed")
    /\ UNCHANGED <<inv, inflight, wanted, list, panel, pageVars>>

\* DELETE /api/invitations/:id: an administrator withdraws it.
CancelOk(c) ==
    /\ At(c, "cancel")
    /\ inv' = CanceledRow(call[c].id)
    /\ wanted' = (wanted /\ call[c].id \notin PendingEmail)
    /\ To(c, "ok")
    /\ UNCHANGED <<inflight, list, panel, pageVars>>

\* POST /api/invitations/:id/resend: 409 while this process resends it.
ResendStarts(c) ==
    LET p == call[c].proc IN
    /\ At(c, "resend")
    /\ \/ /\ call[c].id \in inflight[p]
          /\ To(c, "failed")
          /\ UNCHANGED inflight
       \/ /\ call[c].id \notin inflight[p]
          /\ inflight' = [inflight EXCEPT ![p] = @ \cup {call[c].id}]
          /\ To(c, "lookup")
    /\ UNCHANGED <<inv, wanted, list, panel, pageVars>>

\* The row is read, whatever its status; its address tells the mode.
LookupOk(c) ==
    /\ At(c, "lookup")
    /\ To(c, IF inv[call[c].id].kind = "link" THEN "linkCreate"
             ELSE "emailCancel")
    /\ UNCHANGED <<inv, inflight, wanted, list, panel, pageVars>>

\* MUTANT: the early returns are outside the try block.
ResendRefused_KeepsKey(c) ==
    /\ \E pc \in {"lookup", "linkCreate", "emailCancel"} : At(c, pc)
    /\ To(c, "failed")
    /\ UNCHANGED <<inv, inflight, wanted, list, panel, pageVars>>

\* 404, or an early 400: nothing has been changed yet.
ResendRefused(c) ==
    /\ \E pc \in {"lookup", "linkCreate", "emailCancel"} : At(c, pc)
    /\ Finishes(c, "failed")
    /\ UNCHANGED <<inv, wanted, list, panel, pageVars>>

\* A link is replaced before it is cancelled.
LinkCreate(c) ==
    /\ At(c, "linkCreate")
    /\ Creatable("link")
    /\ inv' = Created("link", call[c].id)
    /\ To(c, "linkCancel")
    /\ UNCHANGED <<inflight, wanted, list, panel, pageVars>>

\* The cancel is best effort: the resend has succeeded either way.
LinkCancel(c) ==
    /\ At(c, "linkCancel")
    /\ inv' \in {inv, CanceledRow(call[c].id)}
    /\ Finishes(c, "ok")
    /\ UNCHANGED <<wanted, list, panel, pageVars>>

\* An e-mail invitation is cancelled first.
EmailCancel(c) ==
    /\ At(c, "emailCancel")
    /\ inv' = CanceledRow(call[c].id)
    /\ To(c, "emailCreate")
    /\ UNCHANGED <<inflight, wanted, list, panel, pageVars>>

EmailCreate(c) ==
    /\ At(c, "emailCreate")
    /\ Creatable("email")
    /\ inv' = Created("email", call[c].id)
    /\ Finishes(c, "ok")
    /\ UNCHANGED <<wanted, list, panel, pageVars>>

\* MUTANT: no compensation.
EmailCreateFails_NoReissue(c) ==
    /\ At(c, "emailCreate")
    /\ Finishes(c, "failed")
    /\ UNCHANGED <<inv, wanted, list, panel, pageVars>>

EmailCreateFails(c) ==
    /\ At(c, "emailCreate")
    /\ To(c, "reissue")
    /\ UNCHANGED <<inv, inflight, wanted, list, panel, pageVars>>

\* The compensation re-creates the invitation and still answers 400.
Reissue(c) ==
    /\ At(c, "reissue")
    /\ Creatable("email")
    /\ inv' = Created("email", call[c].id)
    /\ Finishes(c, "failed")
    /\ UNCHANGED <<wanted, list, panel, pageVars>>

\* When that fails as well the administrator is told to invite again.
ReissueFails(c) ==
    /\ At(c, "reissue")
    /\ wanted' = (wanted /\ PendingEmail # {})
    /\ Finishes(c, "failed")
    /\ UNCHANGED <<inv, list, panel, pageVars>>

\* A process stops: its keys are gone, its callers get a network error.  A
\* crash between the cancel and the create is the one that loses.
Crash(p) ==
    LET dies == {c \in Calls : call[c].proc = p
                               /\ call[c].pc \notin {"idle", "ok", "failed"}}
    IN
    /\ dies # {}
    /\ inflight' = [inflight EXCEPT ![p] = {}]
    /\ call' = [c \in Calls |-> IF c \in dies THEN [call[c] EXCEPT !.pc = "failed"]
                                ELSE call[c]]
    /\ wanted' = (wanted /\ \A c \in dies :
                              call[c].pc \notin {"emailCreate", "reissue"})
    /\ UNCHANGED <<inv, list, panel, pageVars>>

\* A second administrator, or a script, uses the API.
OtherCalls(c, p) ==
    /\ "api" \in present /\ Free(c)
    /\ \/ \E k \in Kinds : Starts(c, "create", NoId, k, p, "api")
       \/ \E i \in Ids \ Unused, pc \in {"cancel", "resend"} :
              Starts(c, pc, i, inv[i].kind, p, "api")
    /\ UNCHANGED <<inv, inflight, wanted, list, panel, pageVars>>

OtherDone(c) ==
    /\ call[c].by = "api" /\ (At(c, "ok") \/ At(c, "failed"))
    /\ call' = [call EXCEPT ![c] = IdleCall]
    /\ UNCHANGED <<inv, inflight, wanted, list, panel, pageVars>>

Routes(c) ==
    \/ CreateOk(c) \/ Refused(c) \/ CancelOk(c)
    \/ ResendStarts(c) \/ LookupOk(c) \/ ResendRefused(c)
    \/ LinkCreate(c) \/ LinkCancel(c)
    \/ EmailCancel(c) \/ EmailCreate(c) \/ EmailCreateFails(c)
    \/ Reissue(c) \/ ReissueFails(c)

-----------------------------------------------------------------------------
(* The administrator's browser: PendingInvitations and InviteDialog.       *)

Sends(c, pc, i, kind, p, by) == Free(c) /\ Starts(c, pc, i, kind, p, by)
Handles(c, by, res) ==
    /\ call[c].by = by /\ At(c, res)
    /\ call' = [call EXCEPT ![c] = IdleCall]

\* useMutation: isPending, while its call is not settled.
Mutating(by) == \E c \in Calls : call[c].by = by /\ ~At(c, "idle")

\* GET /api/invitations answers every invitation, whatever its status.
ListRead ==
    /\ list.at = "asked"
    /\ list' = Answered(list, {<<i, inv[i].st>> : i \in Ids \ Unused})
    /\ UNCHANGED <<serverVars, panel, pageVars>>

ListSettles ==
    /\ list.at = "read"
    /\ list' = Settled(list)
    /\ UNCHANGED <<serverVars, panel, pageVars>>

ListFails ==
    /\ list.at # "idle"
    /\ list' = FetchFailed(list)
    /\ UNCHANGED <<serverVars, panel, pageVars>>

\* The window is focused again, or the page is opened again.
Refetch ==
    /\ list.at = "idle"
    /\ list' = Asked(list)
    /\ UNCHANGED <<serverVars, panel, pageVars>>

\* Rows are shown as they come: the list is not filtered by status, only a
\* link has no resend button.
Shown == {r[1] : r \in list.data}

ClickResend(c, i, p) ==
    /\ list.has /\ i \in Shown /\ inv[i].kind = "email"
    /\ panel.resending # i
    /\ Sends(c, "resend", i, "email", p, "list")
    /\ panel' = [panel EXCEPT !.resending = i]
    /\ UNCHANGED <<inv, inflight, wanted, list, pageVars>>

\* onSettled forgets which row was being resent, whichever it was.
ResendSettles(c) ==
    /\ \/ Handles(c, "list", "ok") /\ list' = Invalidated(list)
       \/ Handles(c, "list", "failed") /\ UNCHANGED list
    /\ panel' = [panel EXCEPT !.resending = NoId]
    /\ UNCHANGED <<inv, inflight, wanted, pageVars>>

OpenCancel(i) ==
    /\ list.has /\ i \in Shown /\ panel.target = NoId
    /\ panel' = [panel EXCEPT !.target = i]
    /\ UNCHANGED <<serverVars, list, pageVars>>

\* The dialog may be closed with the call under way.
CloseCancel ==
    /\ panel.target # NoId
    /\ panel' = [panel EXCEPT !.target = NoId]
    /\ UNCHANGED <<serverVars, list, pageVars>>

ConfirmCancel(c, p) ==
    /\ panel.target # NoId /\ ~Mutating("confirm")
    /\ Sends(c, "cancel", panel.target, inv[panel.target].kind, p, "confirm")
    /\ UNCHANGED <<inv, inflight, wanted, list, panel, pageVars>>

\* MUTANT: the list is not read again.
CancelSettles_NoRefetch(c) ==
    /\ Handles(c, "confirm", "ok")
    /\ panel' = [panel EXCEPT !.target = NoId]
    /\ withdrawn' = withdrawn \cup {call[c].id}
    /\ UNCHANGED <<inv, inflight, wanted, list, page, refused, present>>

CancelSettles(c) ==
    /\ \/ /\ Handles(c, "confirm", "ok")
          /\ list' = Invalidated(list)
          /\ panel' = [panel EXCEPT !.target = NoId]
          /\ withdrawn' = withdrawn \cup {call[c].id}
       \/ /\ Handles(c, "confirm", "failed")
          /\ UNCHANGED <<list, panel, withdrawn>>
    /\ UNCHANGED <<inv, inflight, wanted, page, refused, present>>

OpenDialog ==
    /\ ~panel.open
    /\ panel' = [panel EXCEPT !.open = TRUE]
    /\ UNCHANGED <<serverVars, list, pageVars>>

ToggleLink ==
    /\ panel.open /\ panel.url = NoId
    /\ panel' = [panel EXCEPT !.link = ~@]
    /\ UNCHANGED <<serverVars, list, pageVars>>

\* handleClose.
Closed == [panel EXCEPT !.open = FALSE, !.link = FALSE, !.url = NoId]

CloseDialog ==
    /\ panel.open
    /\ panel' = Closed
    /\ UNCHANGED <<serverVars, list, pageVars>>

\* onSubmit.
Submit(c, p) ==
    /\ panel.open /\ panel.url = NoId /\ ~Mutating("dialog")
    /\ Sends(c, "create", NoId, IF panel.link THEN "link" ELSE "email", p, "dialog")
    /\ UNCHANGED <<inv, inflight, wanted, list, panel, pageVars>>

\* onSuccess closes the dialog or shows the link in it, even if it has been
\* closed or opened anew in the meantime; onError only says so.
InviteSettles(c) ==
    /\ \/ /\ Handles(c, "dialog", "ok")
          /\ list' = Invalidated(list)
          /\ panel' = IF call[c].kind = "email" THEN Closed
                      ELSE [panel EXCEPT !.url = call[c].id]
       \/ Handles(c, "dialog", "failed") /\ UNCHANGED <<list, panel>>
    /\ UNCHANGED <<inv, inflight, wanted, pageVars>>

-----------------------------------------------------------------------------
(* The person invited: the sign-up and log-in forms and the invite page.   *)
(* The authentication client answers a refusal as {error} and does not     *)
(* throw: only a failed connection reaches the catch branches.             *)

Goes(at) == page' = [page EXCEPT !.at = at, !.dialog = FALSE]
Open == inv[page.token].st = "pending"

\* The service closes the invitation, or refuses: it is not pending, or not
\* for this account.
Closes(st) ==
    \/ /\ Open
       /\ inv' = [inv EXCEPT ![page.token].st = st]
       /\ wanted' = (wanted /\ inv[page.token].kind # "email")
       /\ UNCHANGED refused
    \/ /\ refused' = TRUE
       /\ UNCHANGED <<inv, wanted>>

Elsewhere == UNCHANGED <<inflight, call, list, panel, withdrawn, present>>
PageOnly == UNCHANGED <<inv, wanted, refused>> /\ Elsewhere

SignUp ==
    /\ page.at = "signup"
    /\ Goes("joining")
    /\ PageOnly

\* Accept, then home, whatever was answered: the fetch that should tell the
\* organization reads a field of the envelope instead of its data.
AutoAccept ==
    /\ page.at = "joining"
    /\ \/ Closes("accepted")
       \/ UNCHANGED <<inv, wanted, refused>>
    /\ Goes("home")
    /\ Elsewhere

LogIn ==
    /\ page.at = "login"
    /\ Goes("loading")
    /\ PageOnly

\* GET /api/invitations/:id, read once: the offer may be stale when it is
\* taken up.
Load ==
    /\ page.at = "loading"
    /\ Goes(IF Open THEN "offer" ELSE "invalid")
    /\ PageOnly

LoadFails ==
    /\ page.at = "loading"
    /\ Goes("invalid")
    /\ PageOnly

\* Not logged in: the page sends to the log-in or the sign-up form.
LeaveOffer ==
    /\ page.at = "offer" /\ ~page.dialog
    /\ \E at \in {"login", "signup"} : Goes(at)
    /\ PageOnly

ClickAccept ==
    /\ page.at = "offer" /\ ~page.dialog
    /\ Goes("accepting")
    /\ PageOnly

AcceptAnswered ==
    /\ page.at = "accepting"
    /\ Closes("accepted")
    /\ Goes("activating")
    /\ Elsewhere

\* setActive, then every query is invalidated and the dashboard opened.
Activated ==
    /\ page.at = "activating"
    /\ Goes("home")
    /\ PageOnly

\* No answer: the accept may have been done all the same.
AcceptThrows ==
    /\ page.at \in {"accepting", "activating"}
    /\ IF page.at = "accepting" THEN Closes("accepted")
       ELSE UNCHANGED <<inv, wanted, refused>>
    /\ \E at \in {"already", "offer"} : Goes(at)
    /\ Elsewhere

AskDecline ==
    /\ page.at = "offer" /\ ~page.dialog
    /\ page' = [page EXCEPT !.dialog = TRUE]
    /\ PageOnly

KeepOffer ==
    /\ page.dialog /\ page.at = "offer"
    /\ page' = [page EXCEPT !.dialog = FALSE]
    /\ PageOnly

\* MUTANT: the page does not wait for the answer.
ConfirmDecline_Optimistic ==
    /\ page.dialog /\ page.at = "offer"
    /\ Goes("declined")
    /\ PageOnly

ConfirmDecline ==
    /\ page.dialog /\ page.at = "offer"
    /\ page' = [page EXCEPT !.at = "declining"]
    /\ PageOnly

DeclineAnswered ==
    /\ page.at = "declining"
    /\ Closes("rejected")
    /\ Goes("declined")
    /\ Elsewhere

DeclineThrows ==
    /\ page.at = "declining"
    /\ \/ Closes("rejected")
       \/ UNCHANGED <<inv, wanted, refused>>
    /\ Goes("offer")
    /\ Elsewhere

-----------------------------------------------------------------------------
List ==
    \/ ListRead \/ ListSettles \/ ListFails \/ Refetch \/ CloseCancel
    \/ \E i \in Ids : OpenCancel(i)
    \/ \E c \in Calls : \/ ResendSettles(c) \/ CancelSettles(c)
                        \/ \E p \in Procs : \/ ConfirmCancel(c, p)
                                            \/ \E i \in Ids : ClickResend(c, i, p)

Dialog ==
    \/ OpenDialog \/ ToggleLink \/ CloseDialog
    \/ \E c \in Calls : InviteSettles(c) \/ \E p \in Procs : Submit(c, p)

Invited ==
    \/ SignUp \/ AutoAccept \/ LogIn \/ Load \/ LoadFails \/ LeaveOffer
    \/ ClickAccept \/ AcceptAnswered \/ Activated \/ AcceptThrows
    \/ AskDecline \/ KeepOffer \/ ConfirmDecline
    \/ DeclineAnswered \/ DeclineThrows

Next ==
    \/ \E c \in Calls : Routes(c) \/ OtherDone(c)
                        \/ \E p \in Procs : OtherCalls(c, p)
    \/ \E p \in Procs : Crash(p)
    \/ "list" \in present /\ List
    \/ "dialog" \in present /\ Dialog
    \/ "invited" \in present /\ Invited

Spec == Init /\ [][Next]_vars

-----------------------------------------------------------------------------
(* Properties.                                                             *)

Running(p) == {c \in Calls : call[c].proc = p /\ call[c].pc \in ResendSteps}

\* An address that has been invited can accept an invitation until it has
\* accepted or declined, or an administrator has withdrawn it, or a resend is
\* about to create the replacement; only a crash inside the resend and a
\* compensation that fails too leave it with none.
NeverStranded ==
    wanted => \/ PendingEmail # {}
              \/ \E c \in Calls : call[c].pc \in {"emailCreate", "reissue"}

\* A process holds the keys of the resends it has under way, one for each, and
\* no other: none runs twice and none stays locked after an early return.
ResendKeysExact ==
    \A p \in Procs :
        /\ inflight[p] = {call[c].id : c \in Running(p)}
        /\ Cardinality(inflight[p]) = Cardinality(Running(p))

\* An invitation that this browser was told is cancelled is not shown as
\* pending once its list is up to date: an answer read before the cancel
\* cannot settle after it.
CancelShown ==
    Fresh(list) => \A i \in withdrawn : <<i, "pending">> \notin list.data

\* The page says "declined" of an invitation that can no longer be accepted,
\* unless the service refused the decline.
DeclinedIsClosed == page.at = "declined" /\ ~refused => ~Open

\* The pending list shows pending invitations.
OnlyPendingListed == \A r \in list.data : r[2] = "pending"

=============================================================================
