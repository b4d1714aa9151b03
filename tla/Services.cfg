CONSTANTS
    r1 = r1
    r2 = r2
    r3 = r3
    t1 = t1
    t2 = t2
    tick = tick
    k1 = k1
    k2 = k2
    slot1 = slot1
    u1 = u1
    u2 = u2
    n1 = n1
    a1 = a1
    a2 = a2
    run1 = run1
    run2 = run2
    e1 = e1
    e2 = e2
    e3 = e3
    All = All
    s1 = s1
    s2 = s2
    p1 = p1
    b1 = b1
    m1 = m1
    m2 = m2
    j1 = j1
    j2 = j2
    x1 = x1
    x2 = x2
    x3 = x3
    x4 = x4
    w1 = w1
    w2 = w2
    c1 = c1
    c2 = c2
    page = page
    curl = curl
    None = None
    Requests = {r1, r2, r3}
    Creates = {r1, r2}
    TenantOf <- TenantOfRequest
    Ticks = {tick}
    Conns = {k1, k2}
    Slots = {slot1}
    Page = 2
    StallBound = 1
    Users = {u1, u2}
    Holders = {u2}
    Calls = {n1}
    Addressed = {a1, a2}
    Runs = {run1, run2}
    MaxAttempts = 2
    Notes = {}
    Streams = {e1, e2, e3}
    Sessions = {s1, s2}
    Prices = {p1}
    Commands = {b1}
    MaxTries = 2
    MaxEvents = 5
    Records = {1, 2, 3}
    Metrics = {m1, m2}
    Syncs = {j1, j2}
    MaxQuantity = 1
    MaxSecond = 2
    Keys = {x1, x2, x3, x4}
    Capacity = 3
    MaxCount = 2
    Workers = {w1, w2}
    MaxSent = 1
    Contributors = {c1, c2}
    Timeout <- TimeoutOfProbe
    Cache = 2
    Readers = {page, curl}
    ReportPage = page
SPECIFICATION MCSpec
INVARIANTS
    ScopeHolds
    MailsHold
    BridgeExact
    AccountHolds
    UsageReported
    ObservedIsTrue
PROPERTIES
    OwnRows
\* Requests, file ids and prices are used up: the components stop.
CHECK_DEADLOCK FALSE
