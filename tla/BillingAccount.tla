--------------------------- MODULE BillingAccount ---------------------------
(***************************************************************************)
(* A tenant's account with the payment provider: the job that provisions   *)
(* its customer, the commands that a request runs against the provider     *)
(* after reading the customer's row, what the customer does in the         *)
(* provider's pages, and the events that write the subscription back.      *)
(*                                                                         *)
(* Redelivery, crashes and retries of an event are in BillingWebhooks;     *)
(* here each event arrives once, in any order, is stamped by its arrival,  *)
(* and is handled some time later.  Stripe remembers the answer given      *)
(* under an idempotency key; Pagar.me has neither keys nor checkout.       *)
(***************************************************************************)
EXTENDS Integers, FiniteSets

CONSTANTS
    Sessions,      \* checkout sessions; a paid one's subscription has its name
    Prices,        \* plans
    Calls,         \* requests that may be under way at once
    MaxAttempts,   \* attempts of the provisioning job
    MaxEvents,     \* bound: events that the provider sends
    None           \* no subscription, no price

VARIABLES
    provider,      \* PAYMENT_PROVIDER
    made,          \* the customers that the provider has for the tenant
    job,           \* billing-provision-customer
    row,           \* billing_customers
    session,       \* the provider's checkout sessions
    sub,           \* its subscriptions, by the session that started them
    keys,          \* Stripe: idempotency keys that have been answered
    sent,          \* events on their way
    inbox,         \* events that have arrived, with their stamps
    arrivals,      \* how many have
    call,          \* locals of the commands
    done,          \* history: the requests that were answered as done
    again,         \* history: subscriptions for which one was made once more
    wish           \* history: what the last answer told of each subscription

vars == <<provider, made, job, row, session, sub, keys, sent, inbox, arrivals, call, done, again, wish>>
webhooks == <<sent, inbox, arrivals>>
history == <<done, again, wish>>

\* What names and bounds are taken for: theorems need it, the instances have it.
NamesAssumption == None \notin Sessions \cup Prices /\ MaxAttempts \in Nat \ {0} /\ MaxEvents \in Nat

Ref(kind, s) == [kind |-> kind, of |-> s]
NoRef == Ref("none", None)
NoRow == [exists |-> FALSE, sub |-> NoRef, price |-> None, status |-> "inactive", last |-> 0]
NoSub == [status |-> "none", price |-> None, ending |-> FALSE]
NoCall == [at |-> "idle", op |-> "portal", price |-> None, sub |-> NoRef]

Init ==
    /\ provider \in {"stripe", "pagarme"}
    /\ made = 0
    /\ job = [at |-> "waiting", attempts |-> 0]
    /\ row = NoRow
    /\ session = [s \in Sessions |-> [at |-> "none", mode |-> "payment", price |-> None]]
    /\ sub = [s \in Sessions |-> NoSub]
    /\ keys = {} /\ sent = {} /\ inbox = {} /\ arrivals = 0
    /\ call = [c \in Calls |-> NoCall]
    /\ done = {} /\ again = {}
    /\ wish = [s \in Sessions |-> [price |-> None, ending |-> FALSE]]

-----------------------------------------------------------------------------
(***************************************************************************)
(* provisionCustomer, and the queue that runs it again when it throws.     *)
(***************************************************************************)
\* A row that exists ends the job.
ProvisionStarts ==
    /\ job.at = "waiting"
    /\ job' = [at |-> IF row.exists THEN "done" ELSE "creating", attempts |-> job.attempts + 1]
    /\ UNCHANGED <<provider, made, row, session, sub, keys, webhooks, call, history>>

\* Mutant: the request carries no key.
CustomerMade_NoKey ==
    /\ job.at = "creating"
    /\ made' = made + 1
    /\ job' = [job EXCEPT !.at = "inserting"]
    /\ UNCHANGED <<provider, row, session, sub, keys, webhooks, call, history>>

\* createCustomer: Stripe's key is the tenant's.
CustomerMade ==
    /\ job.at = "creating"
    /\ made' = IF <<"customer">> \in keys THEN made ELSE made + 1
    /\ keys' = IF provider = "stripe" THEN keys \cup {<<"customer">>} ELSE keys
    /\ job' = [job EXCEPT !.at = "inserting"]
    /\ UNCHANGED <<provider, row, session, sub, webhooks, call, history>>

RowInserted ==
    /\ job.at = "inserting"
    /\ row' = [row EXCEPT !.exists = TRUE]
    /\ job' = [job EXCEPT !.at = "done"]
    /\ UNCHANGED <<provider, made, session, sub, keys, webhooks, call, history>>

\* The provider or the database fails, or the worker dies.
ProvisionFails ==
    /\ job.at \in {"creating", "inserting"}
    /\ job' = [job EXCEPT !.at = IF job.attempts < MaxAttempts THEN "waiting" ELSE "failed"]
    /\ UNCHANGED <<provider, made, row, session, sub, keys, webhooks, call, history>>

-----------------------------------------------------------------------------
(***************************************************************************)
(* The commands.  Each reads the row, refuses without what it needs, and   *)
(* asks the provider; nothing is written here.                             *)
(***************************************************************************)
Ops == {"checkout", "once", "portal", "change", "cancel"}
ForSubscription == {"change", "cancel"}
Priced == {"checkout", "once", "change"}

\* BILLING_NOT_CONFIGURED and NO_ACTIVE_SUBSCRIPTION end the request where it is.
Command(c, op, p) ==
    /\ call[c] = NoCall
    /\ row.exists
    /\ op \in ForSubscription => row.sub # NoRef
    /\ p \in (IF op \in Priced THEN Prices ELSE {None})
    /\ call' = [call EXCEPT ![c] = [at |-> "asking", op |-> op, price |-> p,
                                    sub |-> IF op \in ForSubscription THEN row.sub ELSE NoRef]]
    /\ UNCHANGED <<provider, made, job, row, session, sub, keys, webhooks, history>>

\* An answer, of the portal the only effect; an error of the provider's; none at all.
CommandEnds(c) ==
    /\ call[c].at = "asking"
    /\ call' = [call EXCEPT ![c] = NoCall]
    /\ UNCHANGED <<provider, made, job, row, session, sub, keys, webhooks, history>>

\* createCheckoutSession and createOneTimePayment: a new key each time.
SessionMade(c, s) ==
    /\ call[c].at = "asking" /\ call[c].op \in {"checkout", "once"}
    /\ provider = "stripe"
    /\ session[s].at = "none"
    /\ session' = [session EXCEPT ![s] = [at |-> "open", price |-> call[c].price,
                       mode |-> IF call[c].op = "checkout" THEN "subscription" ELSE "payment"]]
    /\ call' = [call EXCEPT ![c] = NoCall]
    /\ UNCHANGED <<provider, made, job, row, sub, keys, webhooks, history>>

Emits(kind, s, status, price) ==
    sent' = sent \cup {[kind |-> kind, of |-> s, status |-> status, price |-> price]}

\* The events there have been.
Sending == arrivals + Cardinality(sent)

\* Mutant: the keys tell what is done, but not to which subscription.
Key_NoSubscription(c) == <<call[c].op, call[c].price>>

\* The idempotency keys of changeSubscription and cancelSubscription.
Key(c) == <<call[c].op, call[c].price, call[c].sub.of>>

\* What was asked for is done, unless it has been answered before: then Stripe
\* answers as it did then.  A canceled subscription, or an id that is not one, is an
\* error.
SubscriptionSet(c) ==
    LET s == call[c].sub.of
        request == <<call[c].op, s, call[c].price>>
    IN /\ call[c].at = "asking" /\ call[c].op \in ForSubscription
       /\ call[c].sub.kind = "sub" /\ sub[s].status = "active"
       /\ wish' = IF call[c].op = "cancel" THEN [wish EXCEPT ![s].ending = TRUE]
                                           ELSE [wish EXCEPT ![s].price = call[c].price]
       /\ IF Key(c) \in keys
          THEN UNCHANGED <<sub, keys, sent>>
          ELSE /\ Sending < MaxEvents
               /\ sub' = IF call[c].op = "cancel" THEN [sub EXCEPT ![s].ending = TRUE]
                                                  ELSE [sub EXCEPT ![s].price = call[c].price]
               /\ keys' = keys \cup {Key(c)}
               /\ Emits("updated", s, "active", sub'[s].price)
       /\ again' = IF request \in done THEN again \cup {s} ELSE again
       /\ done' = done \cup {request}
       /\ call' = [call EXCEPT ![c] = NoCall]
       /\ UNCHANGED <<provider, made, job, row, session, inbox, arrivals>>

-----------------------------------------------------------------------------
(***************************************************************************)
(* The provider: the customer pays, comes back in the portal, a period     *)
(* ends.                                                                   *)
(***************************************************************************)
Pay(s) ==
    /\ session[s].at = "open"
    /\ Sending + 1 < MaxEvents
    /\ session' = [session EXCEPT ![s].at = "paid"]
    /\ LET checkout == [kind |-> "checkout", of |-> s, status |-> "complete", price |-> None]
           created == [kind |-> "created", of |-> s, status |-> "active", price |-> session[s].price]
       IN IF session[s].mode = "payment"
          THEN sent' = sent \cup {checkout} /\ UNCHANGED <<sub, wish>>
          ELSE /\ sent' = sent \cup {checkout, created}
               /\ sub' = [sub EXCEPT ![s] = [status |-> "active", price |-> session[s].price, ending |-> FALSE]]
               /\ wish' = [wish EXCEPT ![s].price = session[s].price]
    /\ UNCHANGED <<provider, made, job, row, keys, inbox, arrivals, call, done, again>>

Resume(s) ==
    /\ sub[s].status = "active" /\ sub[s].ending
    /\ Sending < MaxEvents
    /\ sub' = [sub EXCEPT ![s].ending = FALSE]
    /\ wish' = [wish EXCEPT ![s].ending = FALSE]
    /\ Emits("updated", s, "active", sub[s].price)
    /\ UNCHANGED <<provider, made, job, row, session, keys, inbox, arrivals, call, done, again>>

PeriodEnds(s) ==
    /\ sub[s].status = "active" /\ sub[s].ending
    /\ Sending < MaxEvents
    /\ sub' = [sub EXCEPT ![s].status = "canceled"]
    /\ Emits("cancelled", s, "canceled", sub[s].price)
    /\ UNCHANGED <<provider, made, job, row, session, keys, inbox, arrivals, call, history>>

-----------------------------------------------------------------------------
(***************************************************************************)
(* The webhooks.                                                           *)
(***************************************************************************)
Arrive(e) ==
    /\ sent' = sent \ {e}
    /\ arrivals' = arrivals + 1
    /\ inbox' = inbox \cup {[event |-> e, stamp |-> arrivals + 1]}
    /\ UNCHANGED <<provider, made, job, row, session, sub, keys, call, history>>

\* subscriptionId is the object's own id when it has one.
SubscriptionId(e) == Ref(IF e.kind = "checkout" THEN "session" ELSE "sub", e.of)

\* The customer's row after an event: a checkout is written over anything, the others
\* only over what arrived before them; a cancellation has the status alone.
Written(e, stamp) ==
    CASE e.kind = "checkout" ->
            [row EXCEPT !.sub = SubscriptionId(e), !.status = "active", !.last = arrivals]
      [] e.kind # "checkout" /\ stamp <= row.last -> row
      [] e.kind = "cancelled" /\ stamp > row.last -> [row EXCEPT !.status = "canceled", !.last = stamp]
      [] OTHER -> [row EXCEPT !.sub = SubscriptionId(e), !.price = e.price, !.status = e.status, !.last = stamp]

Handle(i) ==
    /\ inbox' = inbox \ {i}
    /\ row' = IF row.exists THEN Written(i.event, i.stamp) ELSE row
    /\ UNCHANGED <<provider, made, job, session, sub, keys, sent, arrivals, call, history>>

-----------------------------------------------------------------------------
Next ==
    \/ ProvisionStarts \/ CustomerMade \/ RowInserted \/ ProvisionFails
    \/ \E c \in Calls, op \in Ops, p \in Prices \cup {None} : Command(c, op, p)
    \/ \E c \in Calls : CommandEnds(c) \/ SubscriptionSet(c) \/ \E s \in Sessions : SessionMade(c, s)
    \/ \E s \in Sessions : Pay(s) \/ Resume(s) \/ PeriodEnds(s)
    \/ \E e \in sent : Arrive(e)
    \/ \E i \in inbox : Handle(i)

Spec == Init /\ [][Next]_vars

-----------------------------------------------------------------------------
Refs == [kind : {"none", "session", "sub"}, of : Sessions \cup {None}]
Events == [kind : {"checkout", "created", "updated", "cancelled"}, of : Sessions,
           status : {"complete", "active", "canceled"}, price : Prices \cup {None}]

TypeOK ==
    /\ provider \in {"stripe", "pagarme"} /\ made \in 0..MaxAttempts
    /\ job \in [at : {"waiting", "creating", "inserting", "done", "failed"}, attempts : 0..MaxAttempts]
    /\ row \in [exists : BOOLEAN, sub : Refs, price : Prices \cup {None},
                status : {"inactive", "active", "canceled"}, last : 0..MaxEvents]
    /\ session \in [Sessions -> [at : {"none", "open", "paid"}, mode : {"payment", "subscription"},
                                 price : Prices \cup {None}]]
    /\ sub \in [Sessions -> [status : {"none", "active", "canceled"}, price : Prices \cup {None},
                             ending : BOOLEAN]]
    /\ sent \subseteq Events
    /\ inbox \subseteq [event : Events, stamp : 1..MaxEvents]
    /\ arrivals \in 0..MaxEvents
    /\ call \in [Calls -> [at : {"idle", "asking"}, op : Ops, price : Prices \cup {None}, sub : Refs]]

\* However often provisioning fails and is tried again, Stripe has one customer for
\* the tenant (provision-customer.ts: "a retried or re-delivered job never creates a
\* duplicate provider customer"); Pagar.me is given no key, and may have more.
OneCustomer == provider = "stripe" => made <= 1

\* What a request was told is done, is done: a cancelled subscription will end unless
\* it is resumed, a changed one has its new price.  But for a request that repeats an
\* earlier one, which Stripe answers without doing anything.
AnswersHold ==
    \A s \in Sessions \ again :
        sub[s].status = "active" =>
            /\ sub[s].ending = wish[s].ending
            /\ sub[s].price = wish[s].price

\* What the provisioning job and the commands promise.
AccountHolds == TypeOK /\ OneCustomer /\ AnswersHold

\* A subscription id that the commands will use is a subscription's
\* (process-webhook.ts: "link subscription to billing customer").
LinkedSubscription == row.sub.kind # "session"

=============================================================================
