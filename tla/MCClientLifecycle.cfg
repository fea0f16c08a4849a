SPECIFICATION FairSpec
CONSTANTS
    Clients = {c1, c2, c3}
    MaxConnects = 1
    MaxCloses = 2
    ThrowingClients = {c3}
CHECK_DEADLOCK FALSE
INVARIANTS
    CounterMatches
    NativeMatches
    ReleasedMeansUnused
    ExitAllowed
PROPERTY ReleaseHappens
