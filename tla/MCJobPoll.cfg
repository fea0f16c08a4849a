SPECIFICATION FairJobSpec
CONSTANTS
    Node = {n1, n2}
    Slot = {s1, s2}
CHECK_DEADLOCK FALSE
INVARIANTS
    ResolvedMeansDone
    TimerOnlyWhilePending
PROPERTIES
    WaitEnds
