\* Two goroutines on one call, two engines at their own addresses.
SPECIFICATION FairSpec
CONSTANTS
    p1 = p1
    p2 = p2
    c1 = c1
    Procs <- MCProcs
    Calls <- MCCalls
    NoProc = NoProc
    N = 2
    Address <- MCAddress
    FailureThreshold = 2
INVARIANTS
    TypeOK
    NoSelfDeadlock
    HealthMatchesCount
    StoredSessionAnswered
PROPERTIES
    CallsReturn
