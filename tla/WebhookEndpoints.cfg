CONSTANTS
    d1 = d1
    d2 = d2
    r1 = r1
    r2 = r2
    Deliveries <- TwoDeliveries
    Runs <- TwoRuns
    Commands <- LockCommands
    MaxAttempts = 2
    Threshold = 2
SPECIFICATION Spec
SYMMETRY Symmetry
INVARIANTS
    AutoDisableFires
    DeliveriesHold
PROPERTIES
    FailuresCountAndLock
\* Every delivery id is used once: the system stops when all are gone.
CHECK_DEADLOCK FALSE
