--------------------------- MODULE WebhooksPanel ---------------------------
(***************************************************************************)
(* The tenant's settings page of webhook endpoints: the list, the menu of  *)
(* each endpoint, and the dialog that creates and edits them and shows a   *)
(* new endpoint's signing secret once.  What the endpoints do with         *)
(* deliveries is in WebhookEndpoints; here they also change by the hand of *)
(* a platform admin and of the delivery job, which tell the page nothing.  *)
(***************************************************************************)
EXTENDS QueryCache, FiniteSets

CONSTANTS
    Hooks,      \* ids of endpoints
    Requests,   \* requests of the page that may be under way at once
    NoHook,     \* no endpoint: a dialog that creates one
    MaxSecret   \* bound: secrets an endpoint has in its time

VARIABLES
    hook,      \* the rows: status, and which secret of theirs it is
    list,      \* the page's query: the statuses shown
    request,   \* the page's mutations
    dialog,    \* the form dialog, with the secret it shows
    seen,      \* history: the secrets that the tenant has been shown
    untold,    \* history: endpoints changed by others since the list was read
    left       \* history: endpoints whose dialog was closed before their answer, or
               \* whose answer was lost

vars == <<hook, list, request, dialog, seen, untold, left>>

NamesAssumption == MaxSecret \in Nat \ {0}

NoSecret == <<>>
NoRequest == [at |-> "idle", op |-> "create", hook |-> NoHook, ok |-> FALSE]
ClosedDialog == [open |-> FALSE, editing |-> NoHook, secret |-> NoSecret, submitting |-> FALSE]
Secret(h) == <<h, hook[h].secret>>
Statuses == [h \in Hooks |-> hook[h].status]
Living(h) == hook[h].status \notin {"none", "gone"}
Creating == {request[r].hook : r \in {r \in Requests : request[r].at # "idle" /\ request[r].op = "create"}}
Listed(h) == list.has /\ list.data[h] \notin {"none", "gone"}

Init ==
    /\ hook = [h \in Hooks |-> [status |-> "none", secret |-> 0]]
    /\ list = Asked(NoQuery(Statuses))
    /\ request = [r \in Requests |-> NoRequest]
    /\ dialog = ClosedDialog
    /\ seen = {} /\ untold = {} /\ left = {}

-----------------------------------------------------------------------------
ListAnswered ==
    /\ list.at = "asked"
    /\ list' = Answered(list, Statuses)
    /\ untold' = {}
    /\ UNCHANGED <<hook, request, dialog, seen, left>>

ListSettles ==
    /\ list.at = "read"
    /\ list' = Settled(list)
    /\ UNCHANGED <<hook, request, dialog, seen, untold, left>>

ListFails ==
    /\ list.at # "idle"
    /\ list' = FetchFailed(list)
    /\ UNCHANGED <<hook, request, dialog, seen, untold, left>>

\* The effect on opening: the form is filled for what is edited, no secret is shown.
OpenDialog(h) ==
    /\ ~dialog.open
    /\ h # NoHook => Listed(h) /\ list.data[h] # "admin_disabled"
    /\ dialog' = [ClosedDialog EXCEPT !.open = TRUE, !.editing = h]
    /\ UNCHANGED <<hook, list, request, seen, untold, left>>

CloseDialog ==
    /\ dialog.open
    /\ dialog' = ClosedDialog
    /\ left' = left \cup Creating
    /\ UNCHANGED <<hook, list, request, seen, untold>>

Sends(r, op, h) ==
    /\ request[r] = NoRequest
    /\ request' = [request EXCEPT ![r] = [at |-> "sent", op |-> op, hook |-> h, ok |-> FALSE]]

\* onSubmit; a dialog that shows a secret has no form.  An edit changes nothing here.
Submit(r, h) ==
    /\ dialog.open /\ dialog.secret = NoSecret /\ ~dialog.submitting
    /\ dialog' = [dialog EXCEPT !.submitting = TRUE]
    /\ IF dialog.editing = NoHook
       THEN /\ hook[h].status = "none" /\ \A q \in Requests : request[q].hook # h
            /\ Sends(r, "create", h)
       ELSE h = dialog.editing /\ Sends(r, "edit", h)
    /\ UNCHANGED <<hook, list, seen, untold, left>>

\* An endpoint's menu, as its status is shown.
Choose(r, op, h) ==
    /\ ~dialog.open
    /\ Listed(h) /\ list.data[h] # "admin_disabled"
    /\ op \in {"enable", "disable", "rotate", "delete"}
    /\ op = "disable" => list.data[h] = "active"
    /\ op = "enable" => list.data[h] # "active"
    /\ Sends(r, op, h)
    /\ UNCHANGED <<hook, list, dialog, seen, untold, left>>

\* What the page does not know of: an endpoint changed, or created, without it.
Unknown(hs) == untold' = untold \cup hs /\ left' = left \cup hs

\* The command, in one step: it refuses an endpoint that is locked or gone, and a
\* new one whose data it will not have.
Carry(r) ==
    /\ request[r].at \in {"sent", "adrift"}
    /\ LET h == request[r].hook
           does == CASE request[r].op = "create"  -> [status |-> "active", secret |-> 1]
                     [] request[r].op = "edit"    -> hook[h]
                     [] request[r].op = "enable"  -> [hook[h] EXCEPT !.status = "active"]
                     [] request[r].op = "disable" -> [hook[h] EXCEPT !.status = "disabled"]
                     [] request[r].op = "rotate"  -> [hook[h] EXCEPT !.secret = @ + 1]
                     [] request[r].op = "delete"  -> [hook[h] EXCEPT !.status = "gone"]
           may == request[r].op = "create" \/ (Living(h) /\ hook[h].status # "admin_disabled")
       IN /\ request[r].op = "rotate" => hook[h].secret < MaxSecret
          /\ \E ok \in BOOLEAN :
                /\ ok => may
                /\ may /\ request[r].op # "create" => ok
                /\ hook' = IF ok THEN [hook EXCEPT ![h] = does] ELSE hook
                /\ IF request[r].at = "sent"
                   THEN /\ request' = [request EXCEPT ![r].at = "done", ![r].ok = ok]
                        /\ UNCHANGED <<untold, left>>
                   ELSE /\ request' = [request EXCEPT ![r] = NoRequest]
                        /\ Unknown(IF ok THEN {h} ELSE {})
    /\ UNCHANGED <<list, dialog, seen>>

\* Mutant: the dialog is closed after a creation as it is after an edit.
Succeeds_AlwaysCloses(r) ==
    /\ request[r].at = "done" /\ request[r].ok
    /\ list' = Invalidated(list)
    /\ dialog' = IF request[r].op \in {"create", "edit"} THEN ClosedDialog ELSE dialog
    /\ request' = [request EXCEPT ![r] = NoRequest]
    /\ UNCHANGED <<hook, seen, untold, left>>

\* The list is fetched again, unless its first fetch is under way.  An edit closes
\* the dialog that is open by now; a creation shows its secret in it; what a
\* rotation answers is shown nowhere.
Succeeds(r) ==
    LET h == request[r].hook
        op == request[r].op
    IN /\ request[r].at = "done" /\ request[r].ok
       /\ list' = Invalidated(list)
       /\ untold' = IF ~list.has /\ list.at = "read" THEN untold \cup {h} ELSE untold
       /\ dialog' = CASE op = "edit" -> ClosedDialog
                      [] op = "create" /\ dialog.open ->
                            [dialog EXCEPT !.secret = <<h, 1>>, !.submitting = FALSE]
                      [] OTHER -> dialog
       /\ seen' = IF op = "create" /\ dialog.open THEN seen \cup {<<h, 1>>} ELSE seen
       /\ left' = IF op = "edit" THEN left \cup Creating ELSE left
       /\ request' = [request EXCEPT ![r] = NoRequest]
       /\ UNCHANGED hook

\* Refused, or the answer does not come: a toast and nothing else.  A request that
\* was not carried out may still be on its way.
Fails(r) ==
    /\ request[r].at \in {"sent", "done"}
    /\ Unknown(IF request[r].ok THEN {request[r].hook} ELSE {})
    /\ dialog' = IF request[r].op \in {"create", "edit"} THEN [dialog EXCEPT !.submitting = FALSE] ELSE dialog
    /\ \/ request' = [request EXCEPT ![r] = NoRequest]
       \/ request[r].at = "sent" /\ request' = [request EXCEPT ![r].at = "adrift"]
    /\ UNCHANGED <<hook, list, seen>>

\* adminForceDisableWebhook, adminReenableWebhook, and the delivery job.
ByOthers(h, status) ==
    /\ Living(h) /\ hook[h].status # status
    /\ status = "auto_disabled" => hook[h].status = "active"
    /\ hook' = [hook EXCEPT ![h].status = status]
    /\ untold' = untold \cup {h}
    /\ UNCHANGED <<list, request, dialog, seen, left>>

-----------------------------------------------------------------------------
Ops == {"create", "edit", "enable", "disable", "rotate", "delete"}

Next ==
    \/ ListAnswered \/ ListSettles \/ ListFails
    \/ (\E h \in Hooks \cup {NoHook} : OpenDialog(h)) \/ CloseDialog
    \/ \E r \in Requests, h \in Hooks : Submit(r, h) \/ \E op \in Ops : Choose(r, op, h)
    \/ \E r \in Requests : Carry(r) \/ Succeeds(r) \/ Fails(r)
    \/ \E h \in Hooks, status \in {"active", "auto_disabled", "admin_disabled"} : ByOthers(h, status)

Spec == Init /\ [][Next]_vars

-----------------------------------------------------------------------------
StatusNames == {"none", "active", "disabled", "auto_disabled", "admin_disabled", "gone"}

TypeOK ==
    /\ hook \in [Hooks -> [status : StatusNames, secret : 0..MaxSecret]]
    /\ list \in QueryOf([Hooks -> StatusNames])
    /\ request \in [Requests -> [at : {"idle", "sent", "done", "adrift"}, op : Ops,
                                 hook : Hooks \cup {NoHook}, ok : BOOLEAN]]
    /\ dialog \in [open : BOOLEAN, editing : Hooks \cup {NoHook},
                   secret : {NoSecret} \cup (Hooks \X {1}), submitting : BOOLEAN]
    /\ seen \subseteq (Hooks \X {1}) /\ untold \subseteq Hooks
    /\ left \subseteq Hooks

Settles == \A r \in Requests : request[r].at \in {"idle", "adrift"}

\* Once everything has settled the list shows the status that each endpoint has,
\* but for what others have changed since it was read; and the secret that an
\* endpoint was created with has been shown, unless its dialog was closed first.
PanelTrue ==
    Settles =>
        /\ Fresh(list) => \A h \in Hooks \ untold : list.data[h] = hook[h].status
        /\ \A h \in Hooks \ left : Living(h) => <<h, 1>> \in seen

\* The secret that an endpoint signs with has been shown to its tenant
\* (webhook-endpoint.ts: "Shown to the tenant once, then never again").
SecretShown ==
    Settles => \A h \in Hooks \ left : Living(h) => Secret(h) \in seen

=============================================================================
