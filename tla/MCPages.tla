------------------------------ MODULE MCPages -------------------------------
(***************************************************************************)
(* What the pages of the web and admin apps show, for TLC: the upload      *)
(* widget (UploadHook), the invitations (Invitations), the tenant of the   *)
(* session (TenantSession), the console's flags, roles and files           *)
(* (AdminConsole), the notification switches (NotificationPreferences),    *)
(* the webhook endpoints (WebhooksPanel), the bell (LiveNotifications),    *)
(* the subscription (SubscriptionPage) and the operator's session          *)
(* (OperatorSession).  Each is a page with a query cache of its own and    *)
(* the part of the server it asks; a behaviour is of one of them, the one  *)
(* in focus, and one run for all of them is the sum of their runs.         *)
(*                                                                         *)
(* Two rows of the widget, one to replace the other, and two calls of      *)
(* process(); two invitations, so that one can replace the other, and two  *)
(* calls; two tenants; one endpoint, with two requests at once, or with    *)
(* one and a secret that may be rotated; one notification.                 *)
(***************************************************************************)
EXTENDS Pages, TLC

CONSTANTS i1, i2, f1, f2,       \* UploadHook
          ic1, ic2,             \* Invitations
          k1, k2, s1, s2,       \* NotificationPreferences
          h1, q1, q2,           \* WebhooksPanel
          n1, e1,               \* LiveNotifications
          op1, al, bo           \* OperatorSession

TwoItems == {i1, i2}
TwoFlows == {f1, f2}
TwoCalls == {ic1, ic2}
PartiesAtATime == {{"list"}, {"dialog"}, {"api"}, {"api", "invited"}}
Operators == {op1}
Everyone == {op1, al, bo}

VARIABLE focus

uploadVars == <<uploadPage, mounted, ready, newest, linked, uploadRow, descriptor, xhr, uploadFlow,
                uploads, uploadRaces>>

invVars == <<inv, inflight, inviteCall, wanted, inviteList, panel, offer, refused, withdrawn, present>>
tenantVars == <<mine, personal, active, memberRole, req, shownTenant, switch, tenantScreen, lst, mem,
                edit, adrift, chosen, overtaken, twoCreate, toldMember, misled, lateFirst>>
consoleVars == <<screen, flag, flagPage, flagQuery, flagDialog, mut, toldFlag, role, others, call, sel, rq,
                 editing, toldRole, overlap, file, fq, upload, del, toldFile>>
prefVars == <<off, switches, save, crossed, late>>
hookVars == <<hook, list, request, hookDialog, seen, untold, left>>
bellVars == <<note, signal, conn, current, members, wire, listens, tab, bell, marking, missed,
              lostRace>>
planVars == <<status, told, card, invoices, dialog, cancel, away, since>>
operatorVars == <<admin, owns, cookie, saved, operatorPage, route, login>>

\* Everything but the component c is as it was.
Others(c) ==
    /\ UNCHANGED focus
    /\ IF c = "upload" THEN TRUE ELSE UNCHANGED uploadVars
    /\ IF c = "invite" THEN TRUE ELSE UNCHANGED invVars
    /\ IF c = "tenant" THEN TRUE ELSE UNCHANGED tenantVars
    /\ IF c = "console" THEN TRUE ELSE UNCHANGED consoleVars
    /\ IF c = "prefs" THEN TRUE ELSE UNCHANGED prefVars
    /\ IF c \in {"hooks", "rotation"} THEN TRUE ELSE UNCHANGED hookVars
    /\ IF c = "bell" THEN TRUE ELSE UNCHANGED bellVars
    /\ IF c = "plan" THEN TRUE ELSE UNCHANGED planVars
    /\ IF c = "operator" THEN TRUE ELSE UNCHANGED operatorVars

\* Where a page has several initial states, one of them will do while it is not in
\* focus.  A user without a tenant begins with no list open.
AllInit ==
    /\ focus \in {"upload", "invite", "tenant", "console", "prefs", "hooks", "rotation", "bell", "plan",
                 "operator"}
    /\ Upload!Init /\ (focus # "upload" => uploadPage = "tenant")
    /\ Inv!Init /\ ("invited" \notin present => offer.at = "login")
                /\ (focus # "invite" => present = {"list"} /\ inv[1].st = "unused" /\ inv[1].kind = "link")
    /\ Tenant!Init /\ (focus # "tenant" => mine = {} /\ tenantScreen = "other")
                   /\ (tenantScreen = "list" => mine # {})
    /\ Console!Init /\ (focus # "console" => screen = "tenants")
    /\ Prefs!Init /\ (focus # "prefs" => off = {})
    /\ Panel!Init
    /\ Bell!Init
    /\ Plan!Init /\ (focus # "plan" => status = "none")
    /\ Operator!Init /\ (focus # "operator" => owns = {})

\* Bounds, each in the guard of its page.
\* The rows of the widget are interchangeable: they are added in one order.
InOrder == uploadRow'[i2].status # "absent" => uploadRow'[i1].status # "absent"
\* The list's administrator withdraws the first of the two invitations, resends both.
WithdrawsFirst == panel'.target # 2
\* While the person invited acts, the second call is a resend and no call makes a link of
\* its own; with nobody invited the two calls are any two.
ResendIsSecond ==
    "invited" \in present =>
        /\ inviteCall'[ic2].pc \notin {"create", "cancel"}
        /\ \A c \in InviteCalls : ~(inviteCall'[c].pc = "create" /\ inviteCall'[c].kind = "link")
\* The members of one of the two tenants are read and edited, and while they are
\* a switch that goes unheard is not carried out.
EditsOne == edit'.org # 2 /\ mem'[2].at = "idle"
EditsHeard == tenantScreen = "members" => req' = req /\ ~overtaken'
\* One of the two switches has its saves given up on their way, and the second of
\* two requests of the webhooks' page is.
OneSwitchAdrift == \A s \in Saves : save'[s].at = "adrift" => save'[s].category = k1
SecondAdrift == request'[q1].at # "adrift"
\* The page's operator and the other one grant a permission each.
EachGrantsOne == call'["other"].perm # "w" /\ editing'.perm # "r"
\* Two requests at once where no secret is rotated and it is an admin who disables;
\* one request where a secret may be rotated and the delivery job disables as well.
NoneRotates == \A r \in HookRequests : request'[r].op # "rotate"
AdminDisables == hook'[h1].status # "auto_disabled"
OneRequest == request'[q2].at = "idle"

AllNext ==
    \/ focus = "upload" /\ Upload!Next /\ InOrder /\ Others("upload")
    \/ focus = "invite" /\ Inv!Next /\ WithdrawsFirst /\ ResendIsSecond /\ Others("invite")
    \/ focus = "tenant" /\ Tenant!Next /\ EditsOne /\ EditsHeard /\ Others("tenant")
    \/ focus = "console" /\ Console!Next /\ EachGrantsOne /\ Others("console")
    \/ focus = "prefs" /\ Prefs!Next /\ OneSwitchAdrift /\ Others("prefs")
    \/ focus = "hooks" /\ Panel!Next /\ NoneRotates /\ AdminDisables /\ SecondAdrift
       /\ Others("hooks")
    \/ focus = "rotation" /\ Panel!Next /\ OneRequest /\ Others("rotation")
    \/ focus = "bell" /\ Bell!Next /\ Others("bell")
    \/ focus = "plan" /\ Plan!Next /\ Others("plan")
    \/ focus = "operator" /\ Operator!Next /\ Others("operator")

AllSpec == AllInit /\ [][AllNext]_<<focus, uploadVars, invVars, tenantVars, consoleVars, prefVars, hookVars,
                                    bellVars, planVars, operatorVars>>
=============================================================================
