SPECIFICATION Spec
CONSTANTS
    Clients = {c1, c2}
    MaxConnects = 1
    MaxCloses = 2
    ThrowingClients = {}
CHECK_DEADLOCK FALSE
INVARIANT ActiveClientKeepsLoop
