CONSTANTS
    d1 = d1
    r1 = r1
    r2 = r2
    NumEvents = 2
    Kinds <- ThreeKinds
    Deliveries <- OneDelivery
    Runs <- TwoRuns
    MaxStallings = 1
SPECIFICATION FairSpec
INVARIANTS
    EventsApplied
PROPERTIES
    NeverBackwards
    NoEventLost
\* The system stops when time and the queue have run out.
CHECK_DEADLOCK FALSE
