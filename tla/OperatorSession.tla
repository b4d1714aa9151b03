-------------------------- MODULE OperatorSession ---------------------------
(***************************************************************************)
(* The admin app's way in and out (apps/admin): the login page, which      *)
(* looks for a workspace the user owns before it lets anyone on, AuthGuard *)
(* and the server's requirePlatformAdmin, which go by the platform role of *)
(* the session's user, and impersonation, which swaps the browser's        *)
(* session cookie under a console whose useSession does not hear of it     *)
(* until the page asks again, and keeps the operator's own session in a    *)
(* second cookie for the banner to return to.                              *)
(*                                                                         *)
(* One browser, one tab.  A session is its user, the operator that         *)
(* impersonates and the platform role it was stored with: with a secondary *)
(* storage better-auth answers getSession from there.  Roles are only ever *)
(* given, by promoteConfiguredAdmins at the start of an API process.       *)
(***************************************************************************)
CONSTANTS Users,      \* accounts with a password
          Listed,     \* those whose address is in ADMIN_EMAILS
          None

VARIABLES admin,      \* users whose row has the platform role
          owns,       \* users who own a workspace
          cookie,     \* the browser's session, or None
          saved,      \* the admin_session cookie
          page,       \* useSession: whether it is pending, and what it shows
          route,      \* the login page or the console
          login       \* how far the login page's submission has come

vars == <<admin, owns, cookie, saved, page, route, login>>

Session(u, by, r) == [user |-> u, by |-> by, role |-> r]
Sessions == [user : Users, by : Users \cup {None}, role : BOOLEAN]

\* What stands for no session and no impersonator is neither.
NamesAssumption == None \notin Users \cup Sessions

Init == /\ admin = {}
        /\ owns \in SUBSET Users
        /\ cookie = None /\ saved = None
        /\ page = [pending |-> TRUE, told |-> None]
        /\ route = "login" /\ login = "idle"

\* requirePlatformAdmin of a request with this cookie.
Admitted == cookie # None /\ cookie.role

\* AuthGuard: pending, or the session it was told is an operator's.
ConsoleShown == /\ route = "console" /\ ~page.pending
                /\ page.told # None /\ page.told.role
Denied == /\ route = "console" /\ ~page.pending
          /\ page.told # None /\ ~page.told.role
BannerShown == route = "console" /\ page.told # None /\ page.told.by # None

-----------------------------------------------------------------------------
(* The server's side *)

Promote == /\ admin' = admin \cup Listed
           /\ UNCHANGED <<owns, cookie, saved, page, route, login>>

\* A workspace is made, deleted or handed on.
OwnerChanges(u) == /\ owns' = IF u \in owns THEN owns \ {u} ELSE owns \cup {u}
                   /\ UNCHANGED <<admin, cookie, saved, page, route, login>>

\* The session has run out: of an impersonation, after an hour.
Expires == /\ cookie # None /\ cookie' = None
           /\ UNCHANGED <<admin, owns, saved, page, route, login>>

-----------------------------------------------------------------------------
(* The page's session *)

Pending(p) == [p EXCEPT !.pending = TRUE]

\* A mount, a reload, the window's focus.
Ask == /\ ~page.pending /\ page' = Pending(page)
       /\ UNCHANGED <<admin, owns, cookie, saved, route, login>>

Told == /\ page.pending
        /\ page' = [pending |-> FALSE, told |-> cookie]
        /\ UNCHANGED <<admin, owns, cookie, saved, route, login>>

\* AuthGuard's effect: no user, so to the login page.
SendsAway == /\ route = "console" /\ ~page.pending /\ page.told = None
             /\ route' = "login"
             /\ UNCHANGED <<admin, owns, cookie, saved, page, login>>

-----------------------------------------------------------------------------
(* The login page *)

\* signIn.email: a session of the user's, with the role as it now is.
SignIn(u) == /\ route = "login" /\ login = "idle"
             /\ cookie' = Session(u, None, u \in admin)
             /\ page' = Pending(page)
             /\ login' = "signed"
             /\ UNCHANGED <<admin, owns, saved, route>>

\* organization.list and getFullOrganization of each: an error of either
\* reads as no ownership.
Checks == /\ login = "signed" /\ cookie # None
          /\ \/ login' = "refuses"
             \/ cookie.user \in owns /\ login' = "admits"
          /\ UNCHANGED <<admin, owns, cookie, saved, page, route>>

\* A request that throws: an error is shown, the session stays.
Throws == /\ login = "signed" /\ login' = "idle"
          /\ UNCHANGED <<admin, owns, cookie, saved, page, route>>

\* signOut answers an error or takes the session away; no one looks which.
Refuses == /\ login = "refuses" /\ login' = "idle"
           /\ \/ cookie' = None /\ page' = Pending(page)
              \/ UNCHANGED <<cookie, page>>
           /\ UNCHANGED <<admin, owns, saved, route>>

Admits == /\ login = "admits" /\ login' = "idle"
          /\ route' = "console"
          /\ UNCHANGED <<admin, owns, cookie, saved, page>>

\* The console's address is opened with whatever session there is.
Opens == /\ route = "login" /\ login = "idle"
         /\ route' = "console" /\ page' = Pending(page)
         /\ UNCHANGED <<admin, owns, cookie, saved, login>>

-----------------------------------------------------------------------------
(* The console *)

\* The sidebar's sign out, or the one under "Access Denied".
SignOut == /\ ConsoleShown \/ Denied
           /\ \/ cookie' = None /\ page' = Pending(page)
              \/ UNCHANGED <<cookie, page>>
           /\ route' = "login"
           /\ UNCHANGED <<admin, owns, saved, login>>

Impersonate_Unguarded(u) ==
    /\ ConsoleShown /\ cookie # None /\ u # cookie.user /\ u \notin admin
    /\ cookie' = Session(u, cookie.user, FALSE)
    /\ saved' = cookie
    /\ UNCHANGED <<admin, owns, page, route, login>>

\* POST /users/:id/impersonate, which only an operator's session passes and
\* which takes no operator as its target: the answer's cookies are forwarded.
\* It does not go through the auth client, so useSession is not asked again.
Impersonate(u) == /\ ConsoleShown /\ Admitted
                  /\ u # cookie.user /\ u \notin admin
                  /\ cookie' = Session(u, cookie.user, FALSE)
                  /\ saved' = cookie
                  /\ UNCHANGED <<admin, owns, page, route, login>>

\* The banner's stopImpersonating and reload: the saved session is back, or,
\* when the cookie is no impersonation's, an error no one looks at.
Stop == /\ BannerShown
        /\ IF cookie # None /\ cookie.by # None
           THEN cookie' = saved /\ saved' = None
           ELSE UNCHANGED <<cookie, saved>>
        /\ page' = Pending(page)
        /\ UNCHANGED <<admin, owns, route, login>>

-----------------------------------------------------------------------------
Next == \/ Promote \/ Expires \/ Ask \/ Told \/ SendsAway
        \/ Checks \/ Throws \/ Refuses \/ Admits \/ Opens \/ SignOut \/ Stop
        \/ \E u \in Users : OwnerChanges(u) \/ SignIn(u) \/ Impersonate(u)

Spec == Init /\ [][Next]_vars

-----------------------------------------------------------------------------
TypeOK == /\ admin \in {{}, Listed} /\ owns \subseteq Users
          /\ cookie \in Sessions \cup {None} /\ saved \in Sessions \cup {None}
          /\ page.pending \in BOOLEAN /\ page.told \in Sessions \cup {None}
          /\ route \in {"login", "console"}
          /\ login \in {"idle", "signed", "refuses", "admits"}

\* An impersonation is left for nobody else: while the browser acts as
\* another user, the session kept for the return is the impersonating
\* operator's own, whatever the stale console was made to ask meanwhile.
Returnable == cookie # None /\ cookie.by # None =>
                  saved = Session(cookie.by, None, TRUE)

\* The login page resolves who may pass "the same way AuthGuard does": it
\* turns away no session that AuthGuard would show the console to.
LoginMirrorsGuard == login = "refuses" => ~Admitted

=============================================================================
