CONSTANTS
    d1 = d1
    d2 = d2
    r1 = r1
    r2 = r2
    Deliveries <- TwoDeliveries
    Runs <- OneRun
    Commands <- AllCommands
    MaxAttempts = 2
    Threshold = 2
SPECIFICATION Spec
PROPERTIES
    TenantKeepsLock
