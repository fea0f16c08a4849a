SPECIFICATION FairSpec
CONSTANT MaxEvents = 4
CHECK_DEADLOCK FALSE
INVARIANTS
    MemoryInUse
    NoneLost
PROPERTIES
    EventsAreEmitted
    HandleIsReleased
