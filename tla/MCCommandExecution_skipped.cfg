SPECIFICATION Spec
CONSTANTS
    Commands = {c1, c2}
    Workers = 1
CHECK_DEADLOCK FALSE
INVARIANT SuccessMeansSent
