---------------------- MODULE NotificationPreferences ----------------------
(***************************************************************************)
(* A user's page of email preferences: each switch is set at once and      *)
(* saved by a request of its own, which is rolled back to what the page    *)
(* showed before it if it fails, and is followed by a fetch either way.    *)
(***************************************************************************)
EXTENDS QueryCache, FiniteSets

CONSTANTS
    Categories,   \* the categories that may be muted; the others have no switch
    Saves         \* saves that may be under way at once

VARIABLES
    off,       \* notification_preference: the categories with email off
    page,      \* the page's query: the categories it shows as off
    save,      \* the saves under way, and those given up that may still arrive
    crossed,   \* history: saves with which another save or a fetch overlapped
    late       \* history: categories that a save given up has set since page.data
               \* and page.answer were read

vars == <<off, page, save, crossed, late>>

NoCategory == "none"

NoSave == [at |-> "idle", category |-> NoCategory, on |-> TRUE, prev |-> {}]
UnderWay == {s \in Saves : save[s].at \in {"sent", "done"}}

Put(set, category, on) == IF on THEN set \ {category} ELSE set \cup {category}

Init ==
    /\ off \in SUBSET Categories
    /\ page = Asked(NoQuery({}))
    /\ save = [s \in Saves |-> NoSave]
    /\ crossed = {}
    /\ late = [data |-> {}, answer |-> {}]

\* A fetch that no save started: its answer may be from before a save.
Refetch ==
    /\ page.at = "idle"
    /\ page' = Asked(page)
    /\ crossed' = crossed \cup UnderWay
    /\ UNCHANGED <<off, save, late>>

PageAnswered ==
    /\ page.at = "asked"
    /\ page' = Answered(page, off)
    /\ late' = [late EXCEPT !.answer = {}]
    /\ UNCHANGED <<off, save, crossed>>

PageSettles ==
    /\ page.at = "read"
    /\ page' = Settled(page)
    /\ late' = [late EXCEPT !.data = late.answer]
    /\ UNCHANGED <<off, save, crossed>>

PageFails ==
    /\ page.at # "idle"
    /\ page' = FetchFailed(page)
    /\ UNCHANGED <<off, save, crossed, late>>

\* Mutant: a fetch under way is left to overwrite the switch.
SetEmail_KeepsFetch(s, category, on) ==
    /\ page.has /\ save[s] = NoSave
    /\ page' = [page EXCEPT !.stale = FALSE, !.data = Put(page.data, category, on)]
    /\ save' = [save EXCEPT ![s] = [at |-> "sent", category |-> category, on |-> on, prev |-> page.data]]
    /\ crossed' = IF UnderWay = {} THEN {} ELSE crossed \cup UnderWay \cup {s}
    /\ UNCHANGED <<off, late>>

\* onMutate: a fetch under way is cancelled, and the switch set in the cache, which
\* makes it fresh.
SetEmail(s, category, on) ==
    /\ page.has /\ save[s] = NoSave
    /\ page' = [FetchFailed(page) EXCEPT !.stale = FALSE, !.data = Put(page.data, category, on),
                                         !.answer = Put(page.data, category, on)]
    /\ save' = [save EXCEPT ![s] = [at |-> "sent", category |-> category, on |-> on, prev |-> page.data]]
    /\ crossed' = IF UnderWay = {} THEN {} ELSE crossed \cup UnderWay \cup {s}
    /\ UNCHANGED <<off, late>>

SavePreferences(s) ==
    /\ save[s].at = "sent"
    /\ off' = Put(off, save[s].category, save[s].on)
    /\ save' = [save EXCEPT ![s].at = "done"]
    /\ UNCHANGED <<page, crossed, late>>

Saved(s) ==
    /\ save[s].at = "done"
    /\ page' = Invalidated(page)
    /\ save' = [save EXCEPT ![s] = NoSave]
    /\ crossed' = (crossed \ {s}) \cup (UnderWay \ {s})
    /\ UNCHANGED <<off, late>>

\* The request fails, before or after it was carried out.  One that was not may
\* still be on its way when the page has read what it fetches again.
SaveFails(s) ==
    /\ s \in UnderWay
    /\ page' = Invalidated([page EXCEPT !.data = save[s].prev, !.answer = save[s].prev])
    /\ \/ save' = [save EXCEPT ![s] = NoSave]
       \/ save[s].at = "sent" /\ save' = [save EXCEPT ![s].at = "adrift", ![s].prev = {}]
    /\ crossed' = (crossed \ {s}) \cup (UnderWay \ {s})
    /\ UNCHANGED <<off, late>>

\* The page is not told, and fetches nothing.
SaveArrives(s) ==
    /\ save[s].at = "adrift"
    /\ off' = Put(off, save[s].category, save[s].on)
    /\ save' = [save EXCEPT ![s] = NoSave]
    /\ late' = [data |-> late.data \cup {save[s].category},
                answer |-> late.answer \cup {save[s].category}]
    /\ UNCHANGED <<page, crossed>>

Next ==
    \/ Refetch \/ PageAnswered \/ PageSettles \/ PageFails
    \/ \E s \in Saves, category \in Categories, on \in BOOLEAN : SetEmail(s, category, on)
    \/ \E s \in Saves : SavePreferences(s) \/ Saved(s) \/ SaveFails(s) \/ SaveArrives(s)

Spec == Init /\ [][Next]_vars

TypeOK ==
    /\ off \subseteq Categories
    /\ page \in QueryOf(SUBSET Categories)
    /\ save \in [Saves -> [at : {"idle", "sent", "done", "adrift"}, category : Categories \cup {NoCategory},
                           on : BOOLEAN, prev : SUBSET Categories]]
    /\ crossed \subseteq Saves
    /\ late \in [data : SUBSET Categories, answer : SUBSET Categories]

\* A switch stays as the user has set it while its save is under way and no other
\* save or fetch overlaps with it; once all have settled the page shows what
\* notify() will read (use-notification-preferences.ts, the optimistic update), but
\* for a save that was given up and arrived after the page had read.
SwitchesTrue ==
    /\ \A s \in UnderWay \ crossed :
            (save[s].category \in page.data) = ~save[s].on
    /\ Fresh(page) /\ UnderWay = {} =>
            \A c \in Categories \ late.data : (c \in page.data) = (c \in off)

=============================================================================
