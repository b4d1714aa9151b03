----------------------------- MODULE QueryCache -----------------------------
(***************************************************************************)
(* One query of the browsers' query cache (TanStack Query, external), as   *)
(* the web and admin pages use it through useQuery and invalidateQueries:  *)
(* a fetch is asked for, the server reads what it answers, the answer      *)
(* settles in the cache.  An invalidation starts the fetch again and drops *)
(* the answer under way, unless nothing has been cached yet: the first     *)
(* fetch is left to finish.                                                *)
(***************************************************************************)
EXTENDS Naturals

QueryOf(Data) == [has : BOOLEAN, stale : BOOLEAN, data : Data,
                  at : {"idle", "asked", "read"}, answer : Data]

NoQuery(d) == [has |-> FALSE, stale |-> TRUE, data |-> d,
               at |-> "idle", answer |-> d]

\* useQuery on mount, a poll, a retry.
Asked(q) == [q EXCEPT !.at = "asked", !.answer = q.data]

\* The server reads v for the fetch under way.
Answered(q, v) == [q EXCEPT !.at = "read", !.answer = v]

Settled(q) == [q EXCEPT !.at = "idle", !.has = TRUE, !.stale = FALSE,
                        !.data = q.answer]

\* The fetch failed, its retry too: the data that was cached is still shown.
FetchFailed(q) == [q EXCEPT !.at = "idle", !.answer = q.data]

Invalidated(q) ==
    [(IF q.has \/ q.at = "idle" THEN Asked(q) ELSE q) EXCEPT !.stale = TRUE]

Fresh(q) == q.at = "idle" /\ ~q.stale

=============================================================================
