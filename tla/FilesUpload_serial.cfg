CONSTANTS
    f1 = f1
    f2 = f2
    c1 = c1
    c2 = c2
    NoFile = NoFile
    Files <- TwoFiles
    Calls <- TwoCalls
    MaxBytes = 2
    MaxObject = 2
    Limit = 3
    OneCompletePerFile = TRUE
    PutsWithinClaim = TRUE
    StatementsMayFail = FALSE
SPECIFICATION Spec
SYMMETRY Symmetry
INVARIANTS
    QuotaExact
    WithinLimit
    StoredHaveObject
PROPERTIES
    UploadedEndsInTombstone
    ImplementsLedger
\* Every file id is used once: the system stops when both have had their life.
CHECK_DEADLOCK FALSE
