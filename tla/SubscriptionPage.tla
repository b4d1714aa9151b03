-------------------------- MODULE SubscriptionPage --------------------------
(***************************************************************************)
(* The tenant's billing page: the card that shows the stored status and    *)
(* cancels the subscription from a dialog, the plans and the portal that   *)
(* lead away to the provider's pages, and the history of invoices.         *)
(* What the commands do with the provider is in BillingAccount; here the   *)
(* status changes when a webhook says so, which tells the page nothing.    *)
(***************************************************************************)
EXTENDS QueryCache

CONSTANTS
    Statuses,   \* of billing_customers; "none" is a tenant without a row
    MaxTold     \* bound: webhooks that change the status

VARIABLES
    status,     \* what is stored
    told,       \* how often a webhook has changed it
    card,       \* the query of the subscription: how often it had been changed
    invoices,   \* the query of the history: how many payments it has
    dialog,     \* the dialog that asks for a confirmation is open
    cancel,     \* the mutation that cancels
    away,       \* the mutation of the portal or a checkout; "left": the browser has gone there
    since       \* history: what had been told when the last cancellation was answered

vars == <<status, told, card, invoices, dialog, cancel, away, since>>

NamesAssumption == "inactive" \in Statuses /\ MaxTold \in Nat

\* getSubscriptionStatus: without a row the status is "inactive".
Shown(s) == IF s = "none" THEN "inactive" ELSE s
Data == [told : 0..MaxTold, status : Statuses]
Reading == [told |-> told, status |-> Shown(status)]

Init ==
    /\ status \in Statuses
    /\ told = 0
    /\ card = Asked(NoQuery([told |-> 0, status |-> "inactive"]))
    /\ invoices = NoQuery(0)
    /\ dialog = FALSE
    /\ cancel = "idle" /\ away = "idle"
    /\ since = 0

Here == away # "left"

-----------------------------------------------------------------------------
\* The page comes back into focus, or its retry button is used.
CardAsked ==
    /\ Here /\ card.at = "idle"
    /\ card' = Asked(card)
    /\ UNCHANGED <<status, told, invoices, dialog, cancel, away, since>>

CardAnswered ==
    /\ card.at = "asked"
    /\ card' = Answered(card, Reading)
    /\ UNCHANGED <<status, told, invoices, dialog, cancel, away, since>>

CardSettles ==
    /\ Here /\ card.at = "read"
    /\ card' = Settled(card)
    /\ UNCHANGED <<status, told, invoices, dialog, cancel, away, since>>

CardFails ==
    /\ Here /\ card.at # "idle"
    /\ card' = FetchFailed(card)
    /\ UNCHANGED <<status, told, invoices, dialog, cancel, away, since>>

\* The history's tab is chosen; the provider is asked for the invoices.
HistoryAsked ==
    /\ Here /\ invoices.at = "idle"
    /\ invoices' = Asked(invoices)
    /\ UNCHANGED <<status, told, card, dialog, cancel, away, since>>

HistoryEnds ==
    /\ Here /\ invoices.at = "asked"
    /\ invoices' \in {Settled(Answered(invoices, told)), FetchFailed(invoices)}
    /\ UNCHANGED <<status, told, card, dialog, cancel, away, since>>

-----------------------------------------------------------------------------
\* The card's buttons are there once a status is; only an active one is cancelled.
OpenCancel ==
    /\ Here /\ card.has /\ ~dialog
    /\ card.data.status = "active"
    /\ dialog' = TRUE
    /\ UNCHANGED <<status, told, card, invoices, cancel, away, since>>

CloseCancel ==
    /\ Here /\ dialog
    /\ dialog' = FALSE
    /\ UNCHANGED <<status, told, card, invoices, cancel, away, since>>

\* The button is disabled while its mutation is under way.
ConfirmCancel ==
    /\ Here /\ dialog /\ cancel = "idle"
    /\ cancel' = "sent"
    /\ UNCHANGED <<status, told, card, invoices, dialog, away, since>>

\* The command is done; what it changes is at the provider.
CancelCarried ==
    /\ cancel = "sent"
    /\ cancel' = "done"
    /\ UNCHANGED <<status, told, card, invoices, dialog, away, since>>

\* Mutant: the toast only.
CancelDone_NoRefetch ==
    /\ Here /\ cancel = "done"
    /\ dialog' = FALSE
    /\ cancel' = "idle"
    /\ since' = told
    /\ UNCHANGED <<status, told, card, invoices, away>>

\* The card is fetched again and the dialog closed, also one that was opened since.
CancelDone ==
    /\ Here /\ cancel = "done"
    /\ card' = Invalidated(card)
    /\ dialog' = FALSE
    /\ cancel' = "idle"
    /\ since' = told
    /\ UNCHANGED <<status, told, invoices, away>>

CancelFails ==
    /\ Here /\ cancel \in {"sent", "done"}
    /\ cancel' = "idle"
    /\ UNCHANGED <<status, told, card, invoices, dialog, away, since>>

-----------------------------------------------------------------------------
\* Manage billing, which the card has, or one of the plans, which the page has.
GoAway ==
    /\ Here /\ away = "idle"
    /\ away' = "sent"
    /\ UNCHANGED <<status, told, card, invoices, dialog, cancel, since>>

\* A url in the answer is gone to; an error leaves the page where it is.
AwayAnswered ==
    /\ away = "sent"
    /\ away' \in {"left", "idle"}
    /\ UNCHANGED <<status, told, card, invoices, dialog, cancel, since>>

\* The provider's pages lead back to this one, which begins anew.
ComeBack ==
    /\ away = "left"
    /\ card' = Asked(NoQuery([told |-> 0, status |-> "inactive"]))
    /\ invoices' = NoQuery(0)
    /\ dialog' = FALSE
    /\ cancel' = "idle" /\ away' = "idle"
    /\ since' = told
    /\ UNCHANGED <<status, told>>

WebhookTells(s) ==
    /\ told < MaxTold
    /\ status # "none" /\ s \notin {status, "none"}
    /\ status' = s
    /\ told' = told + 1
    /\ UNCHANGED <<card, invoices, dialog, cancel, away, since>>

-----------------------------------------------------------------------------
Next ==
    \/ CardAsked \/ CardAnswered \/ CardSettles \/ CardFails
    \/ HistoryAsked \/ HistoryEnds
    \/ OpenCancel \/ CloseCancel \/ ConfirmCancel \/ CancelCarried \/ CancelDone \/ CancelFails
    \/ GoAway \/ AwayAnswered \/ ComeBack
    \/ \E s \in Statuses : WebhookTells(s)

Spec == Init /\ [][Next]_vars

TypeOK ==
    /\ status \in Statuses /\ told \in 0..MaxTold
    /\ card \in QueryOf(Data)
    /\ invoices \in QueryOf(0..MaxTold)
    /\ dialog \in BOOLEAN
    /\ cancel \in {"idle", "sent", "done"} /\ away \in {"idle", "sent", "left"}
    /\ since \in 0..MaxTold

\* Once its fetch has settled the card shows what had been stored by the time that
\* the last cancellation was answered, or later: it does not offer again what it has
\* heard the provider end.
CardSince == Fresh(card) => card.data.told >= since

=============================================================================
