CONSTANTS
    ClusterMin = 1
    ClusterMax = 2
    MaxDraining = 2
    MaxBackoffs = 2
    MaxPauses = 2
    stream = stream
    request = request
    j1 = j1
    Lists <- ListsOfModules
    Declares <- KeysOfModules
    Requests = {request, stream}
    Jobs = {j1}
    Signals = {1, 2}
    w1 = w1
    c1 = c1
    c2 = c2
    page = page
    None = None
SPECIFICATION AllSpec
INVARIANTS
    PoolWithinMax
    ProcessWhole
PROPERTIES
    PoolKeepsLimits
    FloorRestored
    ShutdownEnds
    ShutdownExits
    HealthFresh
\* A process exits when its shutdown is complete.
CHECK_DEADLOCK FALSE
