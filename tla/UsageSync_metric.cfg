CONSTANTS
    m1 = m1
    m2 = m2
    j1 = j1
    j2 = j2
    None = None
    Records = {1, 2, 3}
    Metrics = {m1, m2}
    Jobs = {j1, j2}
    MaxQuantity = 1
    MaxSecond = 2
SPECIFICATION Spec
INVARIANT SyncedIsCounted
CHECK_DEADLOCK FALSE
