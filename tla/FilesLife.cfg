CONSTANTS
    f1 = f1
    f2 = f2
    r1 = r1
    r2 = r2
    o1 = o1
    a1 = a1
    c1 = c1
    NoFile = NoFile
    NoOwner = NoOwner
    Files <- OneFile
    Runs <- TwoRuns
    MaxBytes = 3
    MaxVariants = 2
SPECIFICATION AllSpec
INVARIANTS
    ManifestsHold
PROPERTIES
    TransformDriftHeals
    OrphansReaped
    PendingDrains
\* Every file id is used once: the system stops when all are gone.
CHECK_DEADLOCK FALSE
