------------------------- MODULE NotificationFanout -------------------------
(***************************************************************************)
(* notify() of packages/modules/notifications and the emails it causes:    *)
(* the opt-outs are read once, each recipient's rows are committed in a    *)
(* transaction of its own, and the jobs of all the emails are added after  *)
(* the last one; the worker of notifications-deliver sends a mail and then *)
(* records it.  Mails to an address alone (auth, billing) have a job and   *)
(* no row.                                                                 *)
(***************************************************************************)
EXTENDS JobQueue, FiniteSets

CONSTANTS
    Users,       \* who may be notified, members of one tenant
    Holders,     \* those of them with the role that a notification may name
    Calls,       \* calls of notify(), each for one notification
    Addressed,   \* mails to an address alone
    Runs,        \* jobs that may be processed at once
    MaxAttempts  \* the attempts of createQueue, at most CreateQueueAttempts

Deliveries == Calls \X Users
Mails == Deliveries \cup Addressed

\* What the catalog says of a type: its category may be muted, the type is sent to
\* everyone all the same, or the category may not be muted.
Kinds == {"mutable", "required", "locked"}
Bypasses(kind) == kind # "mutable"

VARIABLES
    optedOut,   \* notification_preference: who has email off for the category
    call,       \* notify()'s locals
    row,        \* the delivery row of each email
    job,        \* the job of each mail
    run,        \* locals of the job's runs
    firmly,     \* history: who has had email off from the call's start to its gate
    ever        \* history: who has had email off at some time between them

\* What names and bounds are taken for: theorems need it, the instances have it.
NamesAssumption ==
    /\ Holders \subseteq Users /\ Addressed \cap Deliveries = {}
    /\ MaxAttempts \in 1..CreateQueueAttempts

vars == <<optedOut, call, row, job, run, firmly, ever>>

NoCall == [pc |-> "idle", kind |-> "mutable", all |-> {}, to |-> {}, muted |-> {}]
NoMail == <<>>
IdleRun == [pc |-> "idle", mail |-> NoMail, locked |-> FALSE]

Init ==
    /\ optedOut = {}
    /\ call = [c \in Calls |-> NoCall]
    /\ row = [d \in Deliveries |-> "none"]
    /\ job = [m \in Mails |-> NoJob]
    /\ run = [r \in Runs |-> IdleRun]
    /\ firmly = [c \in Calls |-> {}]
    /\ ever = [c \in Calls |-> {}]

-----------------------------------------------------------------------------
\* setPreferences: a category that may not be muted is refused.
SetPreferences(u, kind, enabled) ==
    /\ kind # "locked" \/ enabled
    /\ optedOut' = IF kind = "locked" THEN optedOut
                   ELSE IF enabled THEN optedOut \ {u} ELSE optedOut \cup {u}
    /\ firmly' = [c \in Calls |-> IF call[c].pc = "gate" THEN firmly[c] \cap optedOut' ELSE firmly[c]]
    /\ ever' = [c \in Calls |-> IF call[c].pc = "gate" THEN ever[c] \cup (optedOut' \cap call[c].all) ELSE ever[c]]
    /\ UNCHANGED <<call, row, job, run>>

\* resolveRecipients: the users named and those with the role, unless looking them
\* up fails.
NotifyStarts(c, kind, named, found) ==
    /\ call[c].pc = "idle"
    /\ named \cup found # {}
    /\ call' = [call EXCEPT ![c] = [pc |-> IF Bypasses(kind) THEN "loop" ELSE "gate", kind |-> kind,
                                    all |-> named \cup found, to |-> named \cup found, muted |-> {}]]
    /\ firmly' = [firmly EXCEPT ![c] = optedOut \cap (named \cup found)]
    /\ ever' = [ever EXCEPT ![c] = optedOut \cap (named \cup found)]
    /\ UNCHANGED <<optedOut, row, job, run>>

\* Mutant: the opt-outs of the recipients are taken for the opt-ins.
Gate_Inverted(c) ==
    /\ call[c].pc = "gate"
    /\ call' = [call EXCEPT ![c].pc = "loop", ![c].muted = call[c].to \ optedOut]
    /\ UNCHANGED <<optedOut, row, job, run, firmly, ever>>

Gate(c) ==
    /\ call[c].pc = "gate"
    /\ call' = [call EXCEPT ![c].pc = "loop", ![c].muted = call[c].to \cap optedOut]
    /\ UNCHANGED <<optedOut, row, job, run, firmly, ever>>

\* One recipient's transaction.
WriteRows(c, u) ==
    /\ call[c].pc = "loop" /\ u \in call[c].to
    /\ LET to == call[c].to \ {u}
       IN call' = [call EXCEPT ![c].to = to, ![c].pc = IF to = {} THEN "queue" ELSE "loop"]
    /\ row' = IF u \in call[c].muted THEN row ELSE [row EXCEPT ![<<c, u>>] = "pending"]
    /\ UNCHANGED <<optedOut, job, run, firmly, ever>>

Unqueued(c) == {d \in {c} \X Users : row[d] = "pending" /\ job[d] = NoJob}

Adds(ds) == job' = [m \in Mails |-> IF m \in ds THEN AddedJob ELSE job[m]]

\* Mutant: the list of jobs is started anew for each recipient.
QueueAll_LastOnly(c) ==
    /\ call[c].pc = "queue"
    /\ call' = [call EXCEPT ![c].pc = "done"]
    /\ \E ds \in SUBSET Unqueued(c) : Cardinality(ds) <= 1 /\ Adds(ds)
    /\ UNCHANGED <<optedOut, row, run, firmly, ever>>

QueueAll(c) ==
    /\ call[c].pc = "queue"
    /\ call' = [call EXCEPT ![c].pc = "done"]
    /\ Adds(Unqueued(c))
    /\ UNCHANGED <<optedOut, row, run, firmly, ever>>

\* A statement or queue.add fails, or the process dies: what is committed stays,
\* and of the jobs some have been added.
NotifyBreaksOff(c) ==
    /\ call[c].pc \notin {"idle", "done", "broken"}
    /\ call' = [call EXCEPT ![c] = [NoCall EXCEPT !.pc = "broken"]]
    /\ \E ds \in SUBSET Unqueued(c) :
        /\ ds # {} => call[c].pc = "queue"
        /\ Adds(ds)
    /\ UNCHANGED <<optedOut, row, run, firmly, ever>>

\* sendTransactionalEmail, and the callbacks of auth that add the same job.
SendTransactionalEmail(m) ==
    /\ m \in Addressed /\ job[m] = NoJob
    /\ Adds({m})
    /\ UNCHANGED <<optedOut, call, row, run, firmly, ever>>

-----------------------------------------------------------------------------
(***************************************************************************)
(* deliver().                                                              *)
(***************************************************************************)
\* What a job has been through does not matter once it has ended.
Ended(j) == IF j.state \in {"completed", "failed"} THEN [NoJob EXCEPT !.state = j.state] ELSE j

EndRun(r, Outcome(_)) ==
    /\ run' = [run EXCEPT ![r] = IdleRun]
    /\ job' = IF run[r].locked THEN [job EXCEPT ![run[r].mail] = Ended(Outcome(@))] ELSE job

StartRun(r, m) ==
    /\ run[r].pc = "idle"
    /\ job[m].state = "waiting"
    /\ job' = [job EXCEPT ![m] = Taken(@)]
    /\ run' = [run EXCEPT ![r] = [pc |-> "send", mail |-> m, locked |-> TRUE]]
    /\ UNCHANGED <<optedOut, call, row, firmly, ever>>

\* A job was added once its row had been committed, so that the row is there.  The
\* provider takes the mail, refuses it, or there is no address or no provider.
\* A delivery records what happened; a mail to an address alone that is refused
\* is left to the queue.
Send(r, outcome) ==
    /\ run[r].pc = "send"
    /\ IF run[r].mail \in Addressed
       THEN EndRun(r, LAMBDA j : IF outcome = "failed" THEN Thrown(j, MaxAttempts) ELSE Returned(j))
       ELSE run' = [run EXCEPT ![r].pc = outcome] /\ UNCHANGED job
    /\ UNCHANGED <<optedOut, call, row, firmly, ever>>

Outcomes == {"sent", "failed", "skipped"}

Record(r) ==
    /\ run[r].pc \in Outcomes
    /\ row' = [row EXCEPT ![run[r].mail] = run[r].pc]
    /\ EndRun(r, Returned)
    /\ UNCHANGED <<optedOut, call, firmly, ever>>

\* A statement throws, and so does the handler.
Throw(r) ==
    /\ run[r].pc # "idle" /\ run[r].mail \in Deliveries
    /\ EndRun(r, LAMBDA j : Thrown(j, MaxAttempts))
    /\ UNCHANGED <<optedOut, call, row, firmly, ever>>

Die(r) ==
    /\ run[r].pc # "idle"
    /\ run' = [run EXCEPT ![r] = IdleRun]
    /\ UNCHANGED <<optedOut, call, row, job, firmly, ever>>

Stall(m) ==
    /\ job[m].state = "active"
    /\ job' = [job EXCEPT ![m] = Ended(Stalled(@))]
    /\ run' = [r \in Runs |-> IF run[r].mail = m THEN [run[r] EXCEPT !.locked = FALSE] ELSE run[r]]
    /\ UNCHANGED <<optedOut, call, row, firmly, ever>>

-----------------------------------------------------------------------------
CallStep(c) ==
    \/ \E kind \in Kinds, named \in SUBSET Users, found \in {{}, Holders} :
            NotifyStarts(c, kind, named, found)
    \/ Gate(c) \/ (\E u \in Users : WriteRows(c, u)) \/ QueueAll(c) \/ NotifyBreaksOff(c)

RunStep(r) ==
    \/ (\E m \in Mails : StartRun(r, m))
    \/ (\E outcome \in Outcomes : Send(r, outcome)) \/ Record(r)
    \/ Throw(r) \/ Die(r)

Next ==
    \/ \E u \in Users, kind \in Kinds, enabled \in BOOLEAN : SetPreferences(u, kind, enabled)
    \/ \E c \in Calls : CallStep(c)
    \/ \E m \in Mails : SendTransactionalEmail(m) \/ Stall(m)
    \/ \E r \in Runs : RunStep(r)

Spec == Init /\ [][Next]_vars

-----------------------------------------------------------------------------
TypeOK ==
    /\ optedOut \subseteq Users
    /\ call \in [Calls -> [pc : {"idle", "gate", "loop", "queue", "done", "broken"}, kind : Kinds,
                           all : SUBSET Users, to : SUBSET Users, muted : SUBSET Users]]
    /\ row \in [Deliveries -> {"none", "pending"} \cup Outcomes]
    /\ job \in [Mails -> Job]
    /\ run \in [Runs -> [pc : {"idle", "send"} \cup Outcomes, mail : Mails \cup {NoMail},
                         locked : BOOLEAN]]
    /\ firmly \in [Calls -> SUBSET Users] /\ ever \in [Calls -> SUBSET Users]

\* A call that has written a recipient's rows has an email for it, unless the type
\* may be muted and the recipient had email off at some time before the gate; and it
\* has none where the recipient has had it off all that time (notify.ts: "Bypassed
\* entirely for `required` types or for categories that are not `mutable`").
GateHonoured ==
    \A c \in Calls : \A u \in call[c].all \ call[c].to :
        /\ row[<<c, u>>] = "none" => ~Bypasses(call[c].kind) /\ u \in ever[c]
        /\ row[<<c, u>>] # "none" => Bypasses(call[c].kind) \/ u \notin firmly[c]

\* An email is not left pending: its call still has to add its job, or broke off
\* before; or its job is going on, or failed itself (notify.ts: "Enqueued AFTER
\* the tenant tx commits so the worker can read the persisted rows").
NoMailForgotten ==
    \A d \in Deliveries : row[d] = "pending" =>
        \/ call[d[1]].pc \in {"loop", "queue", "broken"}
        \/ job[d].state \in {"waiting", "active", "failed"}

\* What the fan-out and the job that sends promise of the mails.
MailsHold == TypeOK /\ NoMailForgotten /\ GateHonoured

=============================================================================
