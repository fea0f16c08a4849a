SPECIFICATION Spec
CHECK_DEADLOCK FALSE
CONSTANTS
    WithBin = {p1}
    WithoutBin = {p2}
    Udfs = {u1, u2}
    Ops = {o1}
    MaxRequests = 2
SYMMETRY Symmetry
INVARIANTS
    DocumentedCallsArrive
    RequestsAreTheirOwn
    JobIsOfItsRequest
