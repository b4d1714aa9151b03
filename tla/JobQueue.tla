------------------------------ MODULE JobQueue ------------------------------
(***************************************************************************)
(* What a BullMQ job goes through, as the worker loop of apps/api uses it: *)
(* a job is taken by a worker, completes when the processor returns, is    *)
(* retried when it throws until its attempts are used up, and is given to  *)
(* another worker when its lock runs out, because the worker died or was   *)
(* too busy to renew it.                                                   *)
(***************************************************************************)
EXTENDS Naturals

\* attempts of a queue made by createQueue, and BullMQ's own default.
CreateQueueAttempts == 3
DefaultAttempts == 1
\* maxStalledCount, left at BullMQ's default by createWorker.
MaxStalls == 1

Job == [state : {"none", "waiting", "active", "completed", "failed"},
        made : 0..CreateQueueAttempts, stalls : 0..MaxStalls]

NoJob == [state |-> "none", made |-> 0, stalls |-> 0]
AddedJob == [NoJob EXCEPT !.state = "waiting"]

Taken(j) == [j EXCEPT !.state = "active"]

Returned(j) == [j EXCEPT !.state = "completed"]

Thrown(j, attempts) ==
    [j EXCEPT !.made = @ + 1,
              !.state = IF j.made + 1 < attempts THEN "waiting" ELSE "failed"]

Stalled(j) ==
    IF j.stalls < MaxStalls THEN [j EXCEPT !.state = "waiting", !.stalls = @ + 1]
                            ELSE [j EXCEPT !.state = "failed"]

=============================================================================
