--------------------------- MODULE TenantSession ----------------------------
(***************************************************************************)
(* The tenant a user works in: the sign-up hook that creates a personal    *)
(* workspace, the tenant middleware that binds each request to a tenant,   *)
(* and the web client that switches tenants and manages their members over *)
(* a query cache.  The session and the organizations are the               *)
(* authentication service's (external); the middleware awaits it at every  *)
(* step, so requests of one page load interleave.                          *)
(*                                                                         *)
(* One user, and in each tenant one other member whose role is followed.   *)
(***************************************************************************)
EXTENDS QueryCache, FiniteSets

CONSTANTS
    Orgs,       \* tenant ids, a set of naturals: bounds the tenants created
    Reqs        \* requests under way at the same time

VARIABLES
    mine,       \* the tenants the user belongs to
    personal,   \* the personal workspaces among those ever created
    active,     \* activeOrganizationId of the session
    role,       \* the other member's role in each tenant
    req,        \* the requests in the tenant middleware
    shown,      \* activeTenant of TenantProvider
    switch,     \* setActiveTenant: the tenant asked for
    screen,     \* what the user has open: "other", "list" or "members", constant
    lst,        \* a query whose key has no tenant, as ["invitations"]
    mem,        \* the queries ["members", tenant]
    edit,       \* removeMutation and setRoleMutation of MembersList
    adrift,     \* an edit whose answer was given up, on its way to the service
    chosen,     \* the tenant the user was last told is active
    overtaken,  \* set since by an older request, or by a switch that went unheard
    raced,      \* two requests found no tenant at the same time
    told,       \* the roles the page said it has set; "unheard" after an error
                \* or an edit that arrived after its error; "late" when the
                \* members of a tenant that is not shown were being read
    misled,     \* the tenants where what the page said last was not so
    lateFirst   \* lst was being read for the first time during a switch
tenantVars == <<mine, personal, role>>
editVars == <<edit, adrift, told, misled>>
clientVars == <<shown, switch, screen, lst, mem, editVars>>
ghostVars == <<chosen, overtaken, raced, lateFirst>>
vars == <<tenantVars, active, req, clientVars, ghostVars>>

NoId == 0

\* The workspaces that Init has are among the tenants.
NamesAssumption == Orgs \subseteq Nat \ {NoId} /\ {1, 2} \subseteq Orgs

Screens == {"other", "list", "members"}
Roles == {"none", "member", "admin"}
\* A list without anyone, the user neither, says nothing of the other member.
Views == Roles \cup {"blank"}
NoEdit == [at |-> "idle", org |-> NoId, to |-> "none"]

\* "signup" precedes every request: the hook is part of the sign-up call.
Steps == {"idle", "session", "list", "create", "activate", "bound",
          "refused", "failed"}
IdleReq == [pc |-> "idle", tenant |-> NoId, early |-> FALSE]

TypeOK ==
    /\ mine \subseteq Orgs /\ personal \subseteq Orgs
    /\ active \in Orgs \cup {NoId}
    /\ role \in [Orgs -> Roles]
    /\ req \in [Reqs -> [pc : Steps, tenant : Orgs \cup {NoId}, early : BOOLEAN]]
    /\ shown \in Orgs \cup {NoId}
    /\ switch \in Orgs \cup {NoId}
    /\ screen \in Screens
    /\ lst \in QueryOf(Orgs \cup {NoId})
    /\ DOMAIN mem = Orgs /\ \A o \in Orgs : mem[o] \in QueryOf(Views)
    /\ {edit, adrift} \subseteq [at : {"idle", "asked", "done", "undone"},
                                org : Orgs \cup {NoId}, to : Roles]
    /\ chosen \in Orgs \cup {NoId}
    /\ overtaken \in BOOLEAN /\ raced \in BOOLEAN /\ lateFirst \in BOOLEAN
    /\ told \in [Orgs -> Roles \cup {"unknown", "unheard", "late"}]
    /\ misled \subseteq Orgs

\* The user has just signed up, and may have been invited elsewhere: the
\* sign-up hook has created the workspace, or has failed and said so to the
\* error tracker only.  The session has no active tenant.
Init ==
    /\ mine \in {{}, {1}, {1, 2}}
    /\ personal = mine \cap {1}
    /\ active = NoId
    /\ role \in [Orgs -> {"member"}]
    /\ req = [r \in Reqs |-> IdleReq]
    /\ shown = NoId /\ switch = NoId
    /\ screen \in Screens
    /\ lst = NoQuery(NoId)
    /\ mem = [o \in Orgs |-> NoQuery("none")]
    /\ edit = NoEdit /\ adrift = NoEdit /\ misled = {}
    /\ chosen = NoId /\ overtaken = FALSE /\ raced = FALSE
    /\ lateFirst = FALSE
    /\ told = [o \in Orgs |-> "unknown"]

First(S) == CHOOSE o \in S : \A p \in S : o <= p

At(r, pc) == req[r].pc = pc
Bound(r, o) == req' = [req EXCEPT ![r] = [pc |-> "bound", tenant |-> o, early |-> FALSE]]
To(r, pc, o) == req' = [req EXCEPT ![r].pc = pc, ![r].tenant = o]

-----------------------------------------------------------------------------
(* tenantMiddleware.                                                       *)

Arrives(r) ==
    /\ At(r, "idle") /\ screen # "members"
    /\ To(r, "session", NoId)
    /\ UNCHANGED <<tenantVars, active, clientVars, ghostVars>>

\* MUTANT: a session that has an active tenant is completed as well.
SessionRead_AlwaysLists(r) ==
    /\ At(r, "session")
    /\ To(r, "list", NoId)
    /\ UNCHANGED <<tenantVars, active, clientVars, ghostVars>>

\* A session with an active tenant is trusted; one without is completed.
SessionRead(r) ==
    /\ At(r, "session")
    /\ IF active # NoId THEN Bound(r, active) ELSE To(r, "list", NoId)
    /\ UNCHANGED <<tenantVars, active, clientVars, ghostVars>>

\* The tenants sorted by id: every such request picks the same one.
ListFinds(r) ==
    /\ At(r, "list") /\ mine # {}
    /\ To(r, "activate", First(mine))
    /\ UNCHANGED <<tenantVars, active, clientVars, ghostVars>>

\* MUTANT: a workspace is created whenever none is active.
ListEmpty_Always(r) ==
    /\ At(r, "list")
    /\ To(r, "create", NoId)
    /\ raced' = (raced \/ \E q \in Reqs : At(q, "create"))
    /\ UNCHANGED <<tenantVars, active, clientVars, chosen, overtaken, lateFirst>>

\* No tenant at all: create a personal workspace now.
ListEmpty(r) ==
    /\ At(r, "list") /\ mine = {}
    /\ To(r, "create", NoId)
    /\ raced' = (raced \/ \E q \in Reqs : At(q, "create"))
    /\ UNCHANGED <<tenantVars, active, clientVars, chosen, overtaken, lateFirst>>

ListFails(r) ==
    /\ At(r, "list")
    /\ To(r, "failed", NoId)
    /\ UNCHANGED <<tenantVars, active, clientVars, ghostVars>>

\* The slug has a random suffix: a second workspace does not collide.
Create(r) ==
    /\ At(r, "create")
    /\ \E o \in Orgs \ (mine \cup personal) :
          /\ mine' = mine \cup {o}
          /\ personal' = personal \cup {o}
          /\ To(r, "activate", o)
    /\ UNCHANGED <<role, active, clientVars, ghostVars>>

CreateFails(r) ==
    /\ At(r, "create")
    /\ To(r, "failed", NoId)
    /\ UNCHANGED <<tenantVars, active, clientVars, ghostVars>>

\* setActiveOrganization for the requests to come: best effort.
Activate(r) ==
    /\ At(r, "activate")
    /\ \/ /\ active' = req[r].tenant
          /\ overtaken' = (overtaken \/ (req[r].early /\ chosen # active'))
       \/ UNCHANGED <<active, overtaken>>
    /\ Bound(r, req[r].tenant)
    /\ UNCHANGED <<tenantVars, clientVars, chosen, raced, lateFirst>>

\* NoActiveTenantError, if the calls above have failed.
Refuse(r) ==
    /\ At(r, "failed")
    /\ To(r, "refused", NoId)
    /\ UNCHANGED <<tenantVars, active, clientVars, ghostVars>>

Leaves(r) ==
    /\ At(r, "bound") \/ At(r, "refused")
    /\ req' = [req EXCEPT ![r] = IdleReq]
    /\ UNCHANGED <<tenantVars, active, clientVars, ghostVars>>

-----------------------------------------------------------------------------
(* TenantProvider and TenantSwitcher.                                      *)

\* The client's own copy of the active tenant follows the session.
ProviderRefreshes ==
    /\ shown # active
    /\ shown' = active
    /\ UNCHANGED <<tenantVars, active, req, switch, screen, lst, mem, editVars, ghostVars>>

\* The switcher is there when there are two tenants to choose from.
PickTenant(o) ==
    /\ Cardinality(mine) > 1 /\ o \in mine /\ switch = NoId
    /\ switch' = o
    /\ UNCHANGED <<tenantVars, active, req, shown, screen, lst, mem, editVars, ghostVars>>

Refreshed == /\ lst' = IF screen = "list" THEN Invalidated(lst) ELSE lst
             /\ mem' = [o \in Orgs |-> IF o = shown /\ screen = "members" THEN Invalidated(mem[o])
                                       ELSE [mem[o] EXCEPT !.stale = TRUE]]

\* MUTANT: only the members are read again.
SwitchDone_KeepsList ==
    /\ switch # NoId
    /\ switch' = NoId
    /\ active' = switch
    /\ chosen' = switch
    /\ overtaken' = FALSE
    /\ mem' = [o \in Orgs |-> [mem[o] EXCEPT !.stale = TRUE]]
    /\ UNCHANGED <<tenantVars, req, shown, screen, lst, editVars, raced, lateFirst>>

\* setActive is answered, then every query is invalidated.  A refusal is an
\* {error} nobody looks at: the queries are invalidated all the same.
SwitchDone ==
    /\ switch # NoId
    /\ switch' = NoId
    /\ \/ /\ switch \in mine
          /\ active' = switch
          /\ chosen' = switch
          /\ overtaken' = FALSE
          /\ req' = [r \in Reqs |-> [req[r] EXCEPT
                        !.early = ~At(r, "idle") /\ ~At(r, "bound")]]
       \/ UNCHANGED <<active, req, chosen, overtaken>>
    /\ Refreshed
    /\ lateFirst' = (lateFirst \/ (~lst.has /\ lst.at # "idle"))
    /\ UNCHANGED <<tenantVars, shown, screen, editVars, raced>>

\* setActive is not answered, and nothing is read again.  It was carried out, or
\* goes on as a request that sets a tenant does, if there is a slot, or is lost.
SwitchLost ==
    /\ switch # NoId
    /\ switch' = NoId
    /\ \/ /\ switch \in mine
          /\ active' = switch
          /\ overtaken' = (overtaken \/ chosen # switch)
          /\ UNCHANGED req
       \/ /\ \E r \in Reqs : At(r, "idle") /\ req' = [req EXCEPT ![r] =
                   [pc |-> "activate", tenant |-> switch, early |-> TRUE]]
          /\ UNCHANGED <<active, overtaken>>
       \/ UNCHANGED <<active, req, overtaken>>
    /\ UNCHANGED <<tenantVars, shown, screen, lst, mem, editVars, chosen, raced, lateFirst>>

-----------------------------------------------------------------------------
(* The pages of the active tenant.                                         *)

Open ==
    /\ screen = "list" /\ ~lst.has /\ lst.at = "idle"
    /\ lst' = Asked(lst)
    /\ UNCHANGED <<tenantVars, active, req, shown, switch, screen, mem, editVars, ghostVars>>

\* The route answers for the tenant that is active when it reads the session;
\* without one it answers 400.
ListAnswered ==
    /\ lst.at = "asked"
    /\ lst' = IF active = NoId THEN FetchFailed(lst) ELSE Answered(lst, active)
    /\ UNCHANGED <<tenantVars, active, req, shown, switch, screen, mem, editVars, ghostVars>>

ListSettles ==
    /\ lst.at = "read"
    /\ lst' = Settled(lst)
    /\ UNCHANGED <<tenantVars, active, req, shown, switch, screen, mem, editVars, ghostVars>>

\* MembersList: a query for each tenant, read when it is the one shown.
MembersAsked(o) ==
    /\ screen = "members" /\ o = shown /\ mem[o].at = "idle" /\ mem[o].stale
    /\ mem' = [mem EXCEPT ![o] = Asked(@)]
    /\ UNCHANGED <<tenantVars, active, req, shown, switch, screen, lst, editVars, ghostVars>>

\* An {error} is not looked at: it makes an empty list.
MembersAnswered(o) ==
    /\ mem[o].at = "asked"
    /\ \E v \in {role[o], "blank"} : mem' = [mem EXCEPT ![o] = Answered(@, v)]
    /\ UNCHANGED <<tenantVars, active, req, shown, switch, screen, lst, editVars, ghostVars>>

MembersSettle(o) ==
    /\ mem[o].at = "read"
    /\ mem' = [mem EXCEPT ![o] = Settled(@)]
    /\ UNCHANGED <<tenantVars, active, req, shown, switch, screen, lst, editVars, ghostVars>>

\* A row of the list is removed, or given another role: never one's own row.
Edit(to) ==
    /\ edit.at = "idle" /\ shown # NoId
    /\ mem[shown].has /\ mem[shown].data \notin {"none", "blank", to}
    /\ edit' = [at |-> "asked", org |-> shown, to |-> to]
    /\ UNCHANGED <<tenantVars, active, req, shown, switch, screen, lst, mem, adrift, told, misled,
                   ghostVars>>

\* The service does it, or refuses with an {error} that is not looked at.
EditAnswered ==
    /\ edit.at = "asked"
    /\ \/ /\ role[edit.org] # "none"
          /\ role' = [role EXCEPT ![edit.org] = edit.to]
          /\ edit' = [edit EXCEPT !.at = "done"]
       \/ /\ edit' = [edit EXCEPT !.at = "undone"]
          /\ UNCHANGED role
    /\ UNCHANGED <<mine, personal, active, req, shown, switch, screen, lst, mem, adrift, told, misled,
                   ghostVars>>

\* Nothing takes back the doubt about what a tenant's query was reading.
Told(o, what) == told' = [told EXCEPT ![o] = IF @ = "late" THEN "late" ELSE what]

\* MUTANT: the members are not read again.
EditSettles_NoRefetch ==
    /\ edit.at = "done"
    /\ edit' = NoEdit
    /\ Told(edit.org, edit.to)
    /\ misled' = misled \ {edit.org}
    /\ UNCHANGED <<tenantVars, active, req, shown, switch, screen, lst, mem, adrift, ghostVars>>

\* onSuccess, also of a refusal: the toast says that it is done, and every
\* list is read again.
EditSettles ==
    /\ edit.at \in {"done", "undone"}
    /\ edit' = NoEdit
    /\ Told(edit.org, IF mem[edit.org].at = "read" /\ edit.org # shown THEN "late" ELSE edit.to)
    /\ misled' = IF edit.at = "done" THEN misled \ {edit.org} ELSE misled \cup {edit.org}
    /\ mem' = [o \in Orgs |-> IF o = shown THEN Invalidated(mem[o])
                              ELSE [mem[o] EXCEPT !.stale = TRUE]]
    /\ UNCHANGED <<tenantVars, active, req, shown, switch, screen, lst, adrift, ghostVars>>

\* onError: no answer comes, whether or not the edit was carried out.  The toast
\* is an error, nothing is read again, and the edit may still be on its way.
\* Bound: the last one only.
EditLost ==
    /\ edit.at # "idle"
    /\ edit' = NoEdit
    /\ adrift' = adrift \/ (edit.at = "asked" /\ adrift' = edit)
    /\ Told(edit.org, "unheard")
    /\ UNCHANGED <<tenantVars, active, req, shown, switch, screen, lst, mem, misled, ghostVars>>

\* An edit given up is carried out after all, also over one answered since.
EditArrives ==
    /\ adrift.at = "asked" /\ role[adrift.org] # "none"
    /\ role' = [role EXCEPT ![adrift.org] = adrift.to]
    /\ edit' = IF edit.at = "done" /\ edit.org = adrift.org THEN [edit EXCEPT !.at = "undone"]
               ELSE edit
    /\ adrift' = NoEdit
    /\ Told(adrift.org, "unheard")
    /\ UNCHANGED <<mine, personal, active, req, shown, switch, screen, lst, mem, misled, ghostVars>>

-----------------------------------------------------------------------------
Next ==
    \/ \E r \in Reqs :
          \/ Arrives(r) \/ SessionRead(r) \/ ListFinds(r) \/ ListEmpty(r)
          \/ ListFails(r) \/ Create(r) \/ CreateFails(r) \/ Activate(r)
          \/ Refuse(r) \/ Leaves(r)
    \/ ProviderRefreshes \/ SwitchDone \/ SwitchLost
    \/ Open \/ ListAnswered \/ ListSettles
    \/ \E o \in Orgs :
          \/ PickTenant(o) \/ MembersAsked(o) \/ MembersAnswered(o) \/ MembersSettle(o)
    \/ \E to \in Roles : Edit(to)
    \/ EditAnswered \/ EditSettles \/ EditLost \/ EditArrives

Spec == Init /\ [][Next]_vars

-----------------------------------------------------------------------------
(* Properties.                                                             *)

\* The tenant the user has switched to stays the session's until the next
\* switch: a request that completes a session without an active tenant
\* cannot take it back, unless it began before the switch; only a switch whose
\* answer was lost can.
SwitchHolds == chosen # NoId => active = chosen \/ overtaken

\* A user gets one personal workspace, from the hook or from the first request
\* that finds none, unless two requests find none at the same time.
OneWorkspace == Cardinality(personal) <= 1 \/ raced

\* A list without the tenant in its key shows, once it is up to date, the
\* tenant that the user was told is active.
ListOfChosen == Fresh(lst) /\ chosen # NoId /\ ~overtaken /\ ~lateFirst => lst.data = chosen

\* The members page that is up to date shows the role the other member has, or
\* nobody at all, unless an edit ended in an error since; and that is the role
\* the page said it has set, unless the service had refused it.
MembersAsTold ==
    \A o \in Orgs : o = shown /\ Fresh(mem[o]) /\ told[o] \in Roles /\ edit.at = "idle" =>
        /\ mem[o].data \in {role[o], "blank"}
        /\ told[o] = role[o] \/ o \in misled

=============================================================================
