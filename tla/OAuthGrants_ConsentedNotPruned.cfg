SPECIFICATION Spec
CONSTANTS
    Clients = {k1, k2, k3}
    Requests = {r1, r2}
    MaxClients = 1
    RefreshTtl = 2
    MaxCodes = 2
    MaxPairs = 3
    MaxEpoch = 2
    MaxNow = 2
    NoClient = NoClient
CONSTRAINT Focus
SYMMETRY Symmetry

PROPERTIES ConsentedNotPruned
CHECK_DEADLOCK FALSE
