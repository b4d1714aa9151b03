------------------------------- MODULE Pages --------------------------------
(***************************************************************************)
(* The stateful pages of the web and admin apps: the upload widget         *)
(* (UploadHook), the invitations of an organization (Invitations), the     *)
(* tenant of a user's session (TenantSession), the operator's session      *)
(* (OperatorSession), the console's flags, roles and files (AdminConsole), *)
(* the notification switches (NotificationPreferences), the webhook        *)
(* endpoints (WebhooksPanel), the bell (LiveNotifications) and the         *)
(* subscription (SubscriptionPage).  Each is a specification by itself, of *)
(* a page with a query cache of its own and the part of the server that it *)
(* asks; the names are their own, so that MCPages can check them side by   *)
(* side.                                                                   *)
(***************************************************************************)
EXTENDS Naturals

CONSTANTS
    Items, Flows,                         \* UploadHook
    Ids, InviteCalls, ApiProcs, Parties,  \* Invitations
    Orgs, Reqs,                           \* TenantSession
    Accounts, Promoted, Nobody,           \* OperatorSession
    Consoles, MaxRoles, Own, Files, Images, \* AdminConsole
    Categories, Saves,                    \* NotificationPreferences
    Hooks, HookRequests, NoHook, MaxSecret, \* WebhooksPanel
    Notes, Conns, All, None,              \* LiveNotifications
    PlanStatuses, MaxTold                 \* SubscriptionPage

VARIABLES
    uploadPage, mounted, ready, newest, linked, uploadRow, descriptor, xhr, uploadFlow, uploads,
    uploadRaces,
    inv, inflight, inviteCall, wanted, inviteList, panel, offer, refused, withdrawn, present,
    mine, personal, active, memberRole, req, shownTenant, switch, tenantScreen, lst, mem, edit,
    adrift, chosen, overtaken, twoCreate, toldMember, misled, lateFirst,
    admin, owns, cookie, saved, operatorPage, route, login,
    screen, flag, flagPage, flagQuery, flagDialog, mut, toldFlag, role, others, call, sel, rq, editing,
    toldRole, overlap, file, fq, upload, del, toldFile,
    off, switches, save, crossed, late,
    hook, list, request, hookDialog, seen, untold, left,
    note, signal, conn, current, members, wire, listens, tab, bell, marking, missed, lostRace,
    status, told, card, invoices, dialog, cancel, away, since

Upload == INSTANCE UploadHook WITH
    page <- uploadPage, row <- uploadRow, flow <- uploadFlow, races <- uploadRaces
Inv == INSTANCE Invitations WITH
    Calls <- InviteCalls, Procs <- ApiProcs, call <- inviteCall, list <- inviteList, page <- offer
Tenant == INSTANCE TenantSession WITH
    role <- memberRole, shown <- shownTenant, screen <- tenantScreen, raced <- twoCreate,
    told <- toldMember
Operator == INSTANCE OperatorSession WITH
    Users <- Accounts, Listed <- Promoted, None <- Nobody, page <- operatorPage
Console == INSTANCE AdminConsole WITH
    Screens <- Consoles, page <- flagPage, q <- flagQuery, dialog <- flagDialog, told <- toldFlag
Prefs == INSTANCE NotificationPreferences WITH page <- switches
Panel == INSTANCE WebhooksPanel WITH Requests <- HookRequests, dialog <- hookDialog
Bell == INSTANCE LiveNotifications WITH page <- tab, raced <- lostRace
Plan == INSTANCE SubscriptionPage WITH Statuses <- PlanStatuses

\* What the pages take their names and bounds for.
ASSUME PagesAssumption ==
    /\ Upload!NamesAssumption /\ Inv!NamesAssumption /\ Tenant!NamesAssumption
    /\ Operator!NamesAssumption /\ Console!NamesAssumption /\ Panel!NamesAssumption
    /\ Bell!NamesAssumption /\ Plan!NamesAssumption

-----------------------------------------------------------------------------
\* UploadHook: bytes in flight are shown, and the file picked last wins.
UploadsShown == Upload!TypeOK /\ Upload!InFlightShown /\ Upload!PickedLastWins

\* UploadHook: a file is handed to the page once, and not after it was given up.
HandedOverOnce == Upload!HandedOverOnce

\* Invitations: an address that is invited can accept until someone says no, the
\* resend's keys are those of the resends under way, and what the pages say of a
\* cancel or a decline is so.
InvitationsHold == /\ Inv!TypeOK /\ Inv!NeverStranded /\ Inv!ResendKeysExact
                   /\ Inv!CancelShown /\ Inv!DeclinedIsClosed

\* TenantSession, OperatorSession: the session is of the tenant chosen last, the user
\* has one workspace, the lists are of that tenant, the members page shows the role that
\* it said it has set, and an impersonation can be left.
SessionHolds == /\ Tenant!TypeOK /\ Tenant!SwitchHolds /\ Tenant!OneWorkspace
                /\ Tenant!ListOfChosen /\ Tenant!MembersAsTold
                /\ Operator!TypeOK /\ Operator!Returnable

\* AdminConsole, NotificationPreferences, WebhooksPanel, LiveNotifications,
\* SubscriptionPage: a page that has settled shows what its user was told, and what
\* the server holds, but for what a lost answer kept from it.
ConsoleAsTold == /\ Console!TypeOK /\ Console!FlagAsTold /\ Console!RolesAsTold
                 /\ Console!RolesWithinLimit /\ Console!FilesAsTold
PagesAsTold ==
    /\ ConsoleAsTold
    /\ Prefs!TypeOK /\ Prefs!SwitchesTrue
    /\ Panel!TypeOK /\ Panel!PanelTrue
    /\ Bell!TypeOK /\ Bell!BellTrue
    /\ Plan!TypeOK /\ Plan!CardSince
=============================================================================
