CONSTANTS
    NoOwner = NoOwner
    NoFile = NoFile
    f1 = f1
    f2 = f2
    o1 = o1
    o2 = o2
    a1 = a1
    a2 = a2
    Files <- TwoFiles
    Owners <- TwoOwners
    Attachers <- TwoAttachers
    ScanLimit = 2
SPECIFICATION Spec
SYMMETRY Symmetry
INVARIANTS
    OneFilePerOwner
    BytesCharged
PROPERTIES
    FilesStayWithOwners
\* Every file id is used once: the system stops when all are gone.
CHECK_DEADLOCK FALSE
