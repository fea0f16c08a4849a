SPECIFICATION FairSpec
CONSTANTS
    Commands = {c1, c2, c3}
    Workers = 1
CHECK_DEADLOCK FALSE
INVARIANTS
    ObjectWhileOut
    ToldOnce
PROPERTIES
    NeverDuringExecute
    EveryCommandIsAnswered
