CONSTANTS
    Items <- TwoItems
    Flows <- TwoFlows
    i1 = i1
    i2 = i2
    f1 = f1
    f2 = f2
    Ids = {1, 2}
    InviteCalls <- TwoCalls
    ApiProcs = {1}
    Parties <- PartiesAtATime
    Orgs = {1, 2}
    Reqs = {1, 2}
    Accounts <- Everyone
    Promoted <- Operators
    Nobody = Nobody
    Consoles = {"tenants", "users", "webhooks", "roles", "files"}
    MaxRoles = 1
    Own = 1
    Files = {1}
    Images = {1}
    Categories = {k1, k2}
    Saves = {s1, s2}
    Hooks = {h1}
    HookRequests = {q1, q2}
    MaxSecret = 2
    Notes = {n1}
    Conns = {e1}
    PlanStatuses = {"none", "inactive", "active", "canceled"}
    MaxTold = 2
    ic1 = ic1
    ic2 = ic2
    k1 = k1
    k2 = k2
    s1 = s1
    s2 = s2
    h1 = h1
    q1 = q1
    q2 = q2
    NoHook = NoHook
    n1 = n1
    e1 = e1
    All = All
    op1 = op1
    al = al
    bo = bo
    None = None
SPECIFICATION AllSpec
INVARIANTS
    UploadsShown
    InvitationsHold
    SessionHolds
    PagesAsTold
PROPERTIES
    HandedOverOnce
\* Rows and ids are used up, and a page may be gone.
CHECK_DEADLOCK FALSE
