CONSTANTS
    k1 = k1
    k2 = k2
    Keys = {k1, k2}
    MaxRequests = 2
    MaxConnections = 1
    MaxCrashes = 1
    Kinds <- MCKinds
SPECIFICATION Spec
INVARIANTS
    TypeOK
    OwnRow
    CountedOnce
    ConnectionsReturned
PROPERTY TokensArrive
CHECK_DEADLOCK FALSE
