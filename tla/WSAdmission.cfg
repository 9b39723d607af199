\* Two clients, room for one connection, a breaker that opens at once.
\* A stopped server does nothing.
SPECIFICATION FairSpec
CONSTANTS
    Clients = {c1, c2}
    MaxConnections = 1
    FailureThreshold = 1
    HalfOpenMaxReqs = 1
INVARIANTS
    TypeOK
    CapacityKeptUnlessOverlapped
    KeysFollowConnections
    StopLeavesNoneOpen
PROPERTIES
    HalfOpenDecided
CHECK_DEADLOCK FALSE
