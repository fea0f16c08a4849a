SPECIFICATION FairSpec
CONSTANTS
    Records = {r1, r2, r3}
    Streams = {s1, s2, s3}
    Paginated = TRUE
    PageSize = 2
    MaxAborts = 1
CHECK_DEADLOCK FALSE
INVARIANTS
    Orderly
    NothingSkipped
PROPERTIES
    NoRecordTwice
    CompleteMeansAll
    StreamFinishes
