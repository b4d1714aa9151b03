CONSTANTS
    f1 = f1
    f2 = f2
    c1 = c1
    c2 = c2
    NoFile = NoFile
    Files <- TwoFiles
    Calls <- TwoCalls
    MaxBytes = 1
    MaxObject = 2
    Limit = 2
    OneCompletePerFile = FALSE
    PutsWithinClaim = FALSE
    StatementsMayFail = TRUE
SPECIFICATION Spec
SYMMETRY Symmetry
INVARIANTS
    TypeOK
    UsedCoversStored
PROPERTIES
    NoResurrection
\* Every file id is used once: the system stops when both have had their life.
CHECK_DEADLOCK FALSE
