----------------------------- MODULE ErrorWindow -----------------------------
(***************************************************************************)
(* Where an error goes in an API process: the error tracker of the         *)
(* deployment, and the window of recent errors that /health/detailed       *)
(* shows.  The window is a decorator of the tracker; the bus of commands   *)
(* and the handlers of fatal errors were given the decorator, the error    *)
(* middleware takes the tracker itself.                                    *)
(***************************************************************************)
EXTENDS Integers, Sequences, FiniteSets

CONSTANTS
    Keys,       \* errors, told apart by their message and first frame
    Capacity,   \* of the window
    MaxCount,   \* bound: occurrences of one error that are counted
    None

VARIABLES
    running,    \* the process; a new one starts with an empty window
    buffer,     \* the window, the oldest entry first: its key and its count
    index,      \* dedupIndex: the place of a key in the buffer, 0 when absent
    reports,    \* what the tracker of the deployment has received
    carried,    \* an error the bus has thrown on to the route
    latest      \* history: the last thing that happened to an error

vars == <<running, buffer, index, reports, carried, latest>>

\* What the theorems take bounds for.
NamesAssumption == Capacity \in Nat \ {0} /\ MaxCount \in Nat \ {0}

Capped(n) == IF n < MaxCount THEN n + 1 ELSE n
Happened(w, k) == latest' = [what |-> w, key |-> k]
InWindow == {buffer[i].key : i \in DOMAIN buffer}

Init ==
    /\ running = TRUE
    /\ buffer = <<>>
    /\ index = [k \in Keys |-> 0]
    /\ reports = [k \in Keys |-> 0]
    /\ carried = None
    /\ latest = [what |-> "none", key |-> None]

-----------------------------------------------------------------------------
Reported(k) == reports' = [reports EXCEPT ![k] = Capped(@)]

\* append(): a known error is counted at its place; a new one goes to the end,
\* and when the window is full the first leaves and every place drops by one.
Counted(k) ==
    /\ buffer' = [buffer EXCEPT ![index[k]].count = Capped(@)]
    /\ UNCHANGED index
Added(k) ==
    /\ Len(buffer) < Capacity
    /\ buffer' = Append(buffer, [key |-> k, count |-> 1])
    /\ index' = [index EXCEPT ![k] = Len(buffer) + 1]
Dropped_KeepsPlaces(k) ==
    /\ Len(buffer) = Capacity
    /\ buffer' = Append(Tail(buffer), [key |-> k, count |-> 1])
    /\ index' = [index EXCEPT ![Head(buffer).key] = 0, ![k] = Capacity]
Dropped(k) ==
    /\ Len(buffer) = Capacity
    /\ buffer' = Append(Tail(buffer), [key |-> k, count |-> 1])
    /\ index' = [j \in Keys |-> IF j = k THEN Capacity
                                ELSE IF index[j] = 0 THEN 0 ELSE index[j] - 1]
Known(k) == index[k] # 0 /\ index[k] <= Len(buffer)
Appended(k) == (Known(k) /\ Counted(k)) \/ (~Known(k) /\ (Added(k) \/ Dropped(k)))

\* wrapCqrsBus: what a command or a query throws is captured and thrown on.
CommandThrows(k) ==
    /\ running /\ carried = None
    /\ Reported(k) /\ Appended(k)
    /\ carried' = k
    /\ Happened("captured", k)
    /\ UNCHANGED running

\* errorMiddleware: a typed or a validation error is the client's ...
ClientError(k) ==
    /\ running /\ carried = None
    /\ Happened("refused", k)
    /\ UNCHANGED <<running, buffer, index, reports, carried>>

\* ... and so is a typed one that came through the bus ...
CarriedRefused ==
    /\ running /\ carried # None
    /\ Happened("refused", carried) /\ carried' = None
    /\ UNCHANGED <<running, buffer, index, reports>>

\* ... anything else is reported and answered with a 500.
CarriedFails ==
    /\ running /\ carried # None
    /\ Reported(carried)
    /\ Happened("failed", carried) /\ carried' = None
    /\ UNCHANGED <<running, buffer, index>>

RouteThrows(k) ==
    /\ running /\ carried = None
    /\ Reported(k)
    /\ Happened("failed", k)
    /\ UNCHANGED <<running, buffer, index, carried>>

\* uncaughtException, unhandledRejection: captured, flushed, exit(1).
Fatal(k) ==
    /\ running
    /\ Reported(k) /\ Appended(k)
    /\ Happened("captured", k)
    /\ running' = FALSE /\ carried' = None

Restart ==
    /\ ~running
    /\ running' = TRUE
    /\ buffer' = <<>> /\ index' = [k \in Keys |-> 0]
    /\ latest' = [what |-> "none", key |-> None]
    /\ UNCHANGED <<reports, carried>>

Next ==
    \/ CarriedRefused \/ CarriedFails \/ Restart
    \/ \E k \in Keys : CommandThrows(k) \/ ClientError(k) \/ RouteThrows(k) \/ Fatal(k)
Spec == Init /\ [][Next]_vars

-----------------------------------------------------------------------------
TypeOK ==
    /\ running \in BOOLEAN
    /\ \A i \in DOMAIN buffer : buffer[i] \in [key : Keys, count : 1..MaxCount]
    /\ index \in [Keys -> 0..Capacity] /\ reports \in [Keys -> 0..MaxCount]
    /\ carried \in Keys \cup {None}
    /\ latest \in [what : {"none", "captured", "refused", "failed"}, key : Keys \cup {None}]

(* The window and its index agree through any number of evictions: every   *)
(* error has one entry, which the index finds, an error that is not in     *)
(* the window has no place, and what was captured last is in the window,   *)
(* which never lists an error the tracker has not received as often.       *)
WindowExact ==
    /\ Len(buffer) <= Capacity
    /\ \A k \in Keys :
         IF k \in InWindow THEN {i \in DOMAIN buffer : buffer[i].key = k} = {index[k]}
         ELSE index[k] = 0
    /\ \A i \in DOMAIN buffer : buffer[i].count <= reports[buffer[i].key]
    /\ latest.what = "captured" => latest.key \in InWindow

(* An error for which a request has just been answered with a 500 is       *)
(* among the recent errors.                                                *)
HttpErrorsSurface == latest.what = "failed" => latest.key \in InWindow
=============================================================================
