----------------------------- MODULE Processes -----------------------------
(***************************************************************************)
(* The processes that serve: the supervisor of the API's children          *)
(* (Supervisor), and one API process and one worker from boot to exit      *)
(* (ProcessLife).  A child meets its supervisor through signals only,      *)
(* which both have at their border, so that each is a specification by     *)
(* itself.                                                                 *)
(***************************************************************************)
EXTENDS Supervisor

CONSTANTS Lists, Declares, Requests, Jobs, Signals      \* ProcessLife

VARIABLES modules, loaded, handler, api, parent, watched, req, redis, db, call, faulty,
          worker, job, wredis, wcall

Proc == INSTANCE ProcessLife

ASSUME ListsAssumption == Proc!ListsAssumption

\* ProcessLife: a process that serves has all of every configured module, and
\* closes its connections only when no request and no job is in progress.
ProcessWhole == Proc!TypeOK /\ Proc!ServesWhole /\ Proc!DrainsFirst
=============================================================================
