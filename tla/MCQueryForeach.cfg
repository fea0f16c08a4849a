SPECIFICATION FairSpec
CONSTANTS
    MaxResults = 5
    QueueSize = 2
    SignalEvery = 2
CHECK_DEADLOCK FALSE
INVARIANTS
    InOrder
    ObjectInUse
PROPERTIES
    ImplementsDelivery
    Finishes
