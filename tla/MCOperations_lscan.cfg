SPECIFICATION BoundedSpec
CONSTANTS
    Half = 8
    Subject <- AllBuilders
    Companion <- Companions
    Step <- Steps
    MaxOdd = 0
    MaxSteps = 0
INVARIANT RightOperation
