SPECIFICATION BoundedSpec
CONSTANTS
    Half = 8
    Subject <- AllBuilders
    Companion <- Companions
    Step <- Steps
    MaxOdd = 2
    MaxSteps = 2
INVARIANTS
    LegalCallsAccepted
    CalledInListOrder
    NothingIgnored
    NothingMissing
    ContextMeant
    FailureReleases
