-------------------------- MODULE LiveNotifications --------------------------
(***************************************************************************)
(* How a user's open pages learn of a new notification: notify() inserts   *)
(* the row and publishes a signal before its transaction commits, Redis    *)
(* hands the signal to the process's one subscriber connection, the        *)
(* SseBridge fans it out to the emitters registered for the user's         *)
(* channel, and the bell of the page that hears it fetches again.          *)
(*                                                                         *)
(* One user and one API process.  One page's bell is followed; the other   *)
(* connections are other pages of the same user.  A Set of emitters is     *)
(* named by the connection that created it.                                *)
(***************************************************************************)
EXTENDS QueryCache, Sequences, FiniteSets, SequencesExt

CONSTANTS
    Notes,    \* ids of notifications to the user
    Conns,    \* connections to /stream, each used once
    None,     \* no connection
    All       \* "mark all as read"

VARIABLES
    note,       \* the notification row: in its transaction, committed, read
    signal,     \* its signal: on its way to Redis, from Redis, gone
    conn,       \* a connection's stream, its start() and the Set it was given
    current,    \* the Set that the bridge's Map has for the channel
    members,    \* the emitters of each Set, in order of insertion
    wire,       \* commands on their way to Redis: SUBSCRIBE for a connection, or
                \* UNSUBSCRIBE (None)
    listens,    \* Redis: the process is subscribed to the channel
    page,       \* the connection that the page's EventSource uses
    bell,       \* the page's query: the unread notifications
    marking,    \* its mutations: a notification is marked as read, or all are
    missed,     \* history: notes that the bell shows wrongly, with nothing under
                \* way that would tell it
    raced       \* history: one of the bridge's races has happened

stream == <<conn, current, members, wire, listens>>
vars == <<note, signal, stream, page, bell, marking, missed, raced>>

\* What names are taken for: theorems need it, the instance has it.
NamesAssumption == None \notin Conns

NewConn == [stream |-> "none", start |-> "none", set |-> None]
Unread == {n \in Notes : note[n] = "unread"}

Init ==
    /\ note = [n \in Notes |-> "none"]
    /\ signal = [n \in Notes |-> "none"]
    /\ conn = [c \in Conns |-> NewConn]
    /\ current = None
    /\ members = [c \in Conns |-> <<>>]
    /\ wire = <<>>
    /\ listens = FALSE
    /\ page = None
    /\ bell = Asked(NoQuery({}))
    /\ marking = [m \in Notes \cup {All} |-> "idle"]
    /\ missed = {}
    /\ raced = FALSE

\* The bell is not told of n: it stays wrong unless a fetch will still be answered.
NotTold(ns) == missed' = IF bell.at = "asked" THEN missed ELSE missed \cup ns

-----------------------------------------------------------------------------
(***************************************************************************)
(* The stream and the bridge.                                              *)
(***************************************************************************)
\* The effect of useNotificationStream: it opens an EventSource, and another one
\* each time that the bell renders, as its callback is a new one then.  The
\* browser opens a new one too when the connection breaks.
PageOpens(c) ==
    /\ conn[c] = NewConn /\ page # c
    /\ page' = c
    /\ UNCHANGED <<note, signal, stream, bell, marking, missed, raced>>

\* GET /stream up to the first await: the first emitter of the channel creates its
\* Set and sends SUBSCRIBE, a later one joins the Set at once.
Connect(c) ==
    /\ conn[c] = NewConn
    /\ IF current = None
       THEN /\ conn' = [conn EXCEPT ![c] = [stream |-> "open", start |-> "sent", set |-> c]]
            /\ current' = c
            /\ wire' = Append(wire, c)
            /\ UNCHANGED members
       ELSE /\ conn' = [conn EXCEPT ![c] = [stream |-> "open", start |-> "done", set |-> current]]
            /\ members' = [members EXCEPT ![current] = Append(@, c)]
            /\ UNCHANGED <<current, wire>>
    /\ UNCHANGED <<note, signal, listens, page, bell, marking, missed, raced>>

\* Redis takes the next command of the connection; its reply may still be on its way
\* when the next message is.
RedisTakes ==
    /\ wire # <<>>
    /\ wire' = Tail(wire)
    /\ listens' = (Head(wire) # None)
    /\ conn' = IF Head(wire) # None THEN [conn EXCEPT ![Head(wire)].start = "replied"] ELSE conn
    /\ UNCHANGED <<note, signal, current, members, page, bell, marking, missed, raced>>

\* start() goes on: the emitter joins the Set that it created, and there is a
\* cleanup for cancel() to call.
Subscribed(c) ==
    /\ conn[c].start = "replied"
    /\ members' = [members EXCEPT ![conn[c].set] = Append(@, c)]
    /\ conn' = [conn EXCEPT ![c].start = "done"]
    /\ UNCHANGED <<note, signal, current, wire, listens, page, bell, marking, missed, raced>>

Starting(c) == conn[c].start \in {"sent", "replied"}

\* Mutant: the first one to leave takes the Set with it.
Cancel_TakesSet(c) ==
    /\ conn[c].stream = "open" /\ page # c
    /\ conn' = [conn EXCEPT ![c].stream = "closed"]
    /\ IF conn[c].start = "done" /\ current # None
       THEN /\ members' = [members EXCEPT ![current] = RemoveFirst(@, c)]
            /\ current' = None /\ wire' = Append(wire, None)
            /\ raced' = (raced \/ \E b \in Conns : Starting(b) /\ conn[b].set = current)
       ELSE /\ raced' = (raced \/ Starting(c))
            /\ UNCHANGED <<current, members, wire>>
    /\ UNCHANGED <<note, signal, listens, page, bell, marking, missed>>

\* The server learns that a connection is gone: a page was closed, or this one has
\* opened another.  The emitter leaves the Set that the Map has now, and the last
\* one to leave takes the Set with it; before the end of start() there is no
\* cleanup and nothing happens.  The races: start() has not ended, or the Set goes
\* while another start() waits to join it.
Cancel(c) ==
    /\ conn[c].stream = "open" /\ page # c
    /\ conn' = [conn EXCEPT ![c].stream = "closed"]
    /\ IF conn[c].start = "done" /\ current # None
       THEN LET left == RemoveFirst(members[current], c)
            IN /\ members' = [members EXCEPT ![current] = left]
               /\ IF left = <<>>
                  THEN current' = None /\ wire' = Append(wire, None)
                  ELSE UNCHANGED <<current, wire>>
               /\ raced' = (raced \/ (left = <<>> /\ \E b \in Conns : Starting(b) /\ conn[b].set = current))
       ELSE /\ raced' = (raced \/ Starting(c))
            /\ UNCHANGED <<current, members, wire>>
    /\ UNCHANGED <<note, signal, listens, page, bell, marking, missed>>

-----------------------------------------------------------------------------
(***************************************************************************)
(* notify() for this user, and the signal.                                 *)
(***************************************************************************)
\* The row is inserted and the signal published inside the transaction, which does
\* not wait for Redis to take it.
Insert(n) ==
    /\ note[n] = "none"
    /\ note' = [note EXCEPT ![n] = "open"]
    /\ signal' = [signal EXCEPT ![n] = "sent"]
    /\ UNCHANGED <<stream, page, bell, marking, missed, raced>>

\* A transaction that commits after the bell has fetched for its signal is missed.
Commit(n) ==
    /\ note[n] = "open"
    /\ note' = [note EXCEPT ![n] = "unread"]
    /\ IF signal[n] = "done" THEN NotTold({n}) ELSE UNCHANGED missed
    /\ UNCHANGED <<signal, stream, page, bell, marking, raced>>

RollBack(n) ==
    /\ note[n] = "open"
    /\ note' = [note EXCEPT ![n] = "gone"]
    /\ UNCHANGED <<signal, stream, page, bell, marking, missed, raced>>

Gone(n) ==
    /\ signal' = [signal EXCEPT ![n] = "done"]
    /\ IF note[n] = "unread" THEN NotTold({n}) ELSE UNCHANGED missed

\* Redis keeps nothing for a process that is not subscribed.
Publish(n) ==
    /\ signal[n] = "sent"
    /\ IF listens
       THEN signal' = [signal EXCEPT ![n] = "inbox"] /\ UNCHANGED missed
       ELSE Gone(n)
    /\ UNCHANGED <<note, stream, page, bell, marking, raced>>

\* The subscriber's connection to Redis breaks, and is subscribed again.
SignalLost(n) ==
    /\ signal[n] = "inbox"
    /\ Gone(n)
    /\ UNCHANGED <<note, stream, page, bell, marking, raced>>

\* The emitters that a message reaches: enqueue throws on a stream that was
\* cancelled, and the ones after it are not called.
Reached ==
    IF current = None THEN {}
    ELSE {members[current][i] : i \in
            {i \in DOMAIN members[current] :
                \A j \in 1..i : conn[members[current][j]].stream = "open"}}

\* Mutant: only the list is fetched again.
Heard_NoRefetch(n) ==
    /\ signal[n] = "inbox"
    /\ page \in Reached
    /\ signal' = [signal EXCEPT ![n] = "done"]
    /\ UNCHANGED <<note, stream, page, bell, marking, missed, raced>>

\* The page hears it: both queries are fetched again, but not a first fetch that
\* has been answered already.
Heard(n) ==
    /\ signal[n] = "inbox"
    /\ page \in Reached
    /\ signal' = [signal EXCEPT ![n] = "done"]
    /\ bell' = Invalidated(bell)
    /\ missed' = IF ~bell.has /\ bell.at = "read"
                 THEN missed \cup (Unread \ bell.answer) ELSE missed
    /\ UNCHANGED <<note, stream, page, marking, raced>>

Unheard(n) ==
    /\ signal[n] = "inbox"
    /\ page \notin Reached
    /\ Gone(n)
    /\ UNCHANGED <<note, stream, page, bell, marking, raced>>

-----------------------------------------------------------------------------
(***************************************************************************)
(* The bell.                                                               *)
(***************************************************************************)
BellAnswered ==
    /\ bell.at = "asked"
    /\ bell' = Answered(bell, Unread)
    /\ missed' = {}
    /\ UNCHANGED <<note, signal, stream, page, marking, raced>>

BellSettles ==
    /\ bell.at = "read"
    /\ bell' = Settled(bell)
    /\ UNCHANGED <<note, signal, stream, page, marking, missed, raced>>

BellFails ==
    /\ bell.at # "idle"
    /\ bell' = FetchFailed(bell)
    /\ UNCHANGED <<note, signal, stream, page, marking, missed, raced>>

\* An item is chosen, or "mark all as read", which is offered while some are unread.
Choose(m) ==
    /\ marking[m] = "idle"
    /\ IF m = All THEN bell.data # {} ELSE m \in bell.data
    /\ marking' = [marking EXCEPT ![m] = "sent"]
    /\ UNCHANGED <<note, signal, stream, page, bell, missed, raced>>

\* markRead, markAllRead: all that are committed by then, shown or not.  The bell
\* does not ask again after a request that it has given up.
Marks(m) ==
    /\ marking[m] \in {"sent", "adrift"}
    /\ LET read == {n \in Notes : note[n] = "unread" /\ m \in {n, All}}
       IN /\ note' = [n \in Notes |-> IF n \in read THEN "read" ELSE note[n]]
          /\ IF marking[m] = "adrift" THEN NotTold(read) ELSE UNCHANGED missed
    /\ marking' = [marking EXCEPT ![m] = IF @ = "sent" THEN "done" ELSE "idle"]
    /\ UNCHANGED <<signal, stream, page, bell, raced>>

MarkSettles(m) ==
    /\ marking[m] = "done"
    /\ marking' = [marking EXCEPT ![m] = "idle"]
    /\ bell' = Invalidated(bell)
    /\ UNCHANGED <<note, signal, stream, page, missed, raced>>

\* The request fails, and may still be on its way, or its answer is lost and the
\* bell goes on showing the note.
MarkFails(m) ==
    /\ marking[m] \in {"sent", "done"}
    /\ marking' \in {[marking EXCEPT ![m] = to] :
                        to \in {"idle"} \cup IF marking[m] = "sent" THEN {"adrift"} ELSE {}}
    /\ IF marking[m] = "done" THEN NotTold({n \in Notes : note[n] = "read"}) ELSE UNCHANGED missed
    /\ UNCHANGED <<note, signal, stream, page, bell, raced>>

-----------------------------------------------------------------------------
StreamStep(c) == PageOpens(c) \/ Connect(c) \/ Subscribed(c) \/ Cancel(c)
NoteStep(n) ==
    \/ Insert(n) \/ Commit(n) \/ RollBack(n)
    \/ Publish(n) \/ SignalLost(n) \/ Heard(n) \/ Unheard(n)
MarkStep(m) == Choose(m) \/ Marks(m) \/ MarkSettles(m) \/ MarkFails(m)

Next ==
    \/ \E c \in Conns : StreamStep(c)
    \/ RedisTakes
    \/ \E n \in Notes : NoteStep(n)
    \/ BellAnswered \/ BellSettles \/ BellFails
    \/ \E m \in Notes \cup {All} : MarkStep(m)

Spec == Init /\ [][Next]_vars

-----------------------------------------------------------------------------
TypeOK ==
    /\ note \in [Notes -> {"none", "open", "unread", "read", "gone"}]
    /\ signal \in [Notes -> {"none", "sent", "inbox", "done"}]
    /\ conn \in [Conns -> [stream : {"none", "open", "closed"},
                           start : {"none", "sent", "replied", "done"},
                           set : Conns \cup {None}]]
    /\ current \in Conns \cup {None} /\ page \in Conns \cup {None}
    /\ members \in [Conns -> Seq(Conns)] /\ wire \in Seq(Conns \cup {None})
    /\ listens \in BOOLEAN /\ raced \in BOOLEAN
    /\ bell \in QueryOf(SUBSET Notes)
    /\ marking \in [Notes \cup {All} -> {"idle", "sent", "done", "adrift"}]
    /\ missed \subseteq Notes

\* What Redis will do for the channel once it has taken every command.
WillListen == IF wire = <<>> THEN listens ELSE Last(wire) # None

\* Unless a connection ends in the middle of another's start(), every open stream
\* hears what is published, and the bridge and Redis hold nothing for streams that
\* are gone (bridge.ts: "refcounted per-channel emitter set ... fanned out to that
\* user's open streams").
BridgeExact ==
    ~raced =>
        /\ \A c \in Conns : conn[c].stream = "open" /\ conn[c].start = "done"
                                => c \in Reached /\ WillListen
        /\ (\A c \in Conns : conn[c].stream # "open") => current = None /\ ~WillListen

\* routes.ts: cancel() "reliably unsubscribes (verified: the bridge refcount
\* returns to empty on disconnect)".
RefcountEmpties ==
    (\A c \in Conns : conn[c].stream # "open" /\ ~Starting(c)) => current = None

\* When its queries are fresh and nothing is under way, the bell shows a
\* notification as unread exactly when it is, but for those it could not be told
\* of: published while the page had no stream, committed after the fetch that
\* their signal caused, or marked by a request whose answer was lost
\* (notification-bell.tsx: "SSE -> refetch list + unread").
BellTrue ==
    Fresh(bell) /\ (\A m \in Notes \cup {All} : marking[m] \in {"idle", "adrift"}) =>
        \A n \in Notes \ missed :
            signal[n] \in {"none", "done"} => (n \in bell.data <=> note[n] = "unread")

=============================================================================
