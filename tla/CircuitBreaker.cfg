\* Three goroutines, one of which may return without recording.
SPECIFICATION FairSpec
CONSTANTS
    p1 = p1
    p2 = p2
    p3 = p3
    Procs <- MCProcs
    Abandoners <- MCAbandoners
    FailureThreshold = 2
    ResetTimeout = 1
    HalfOpenMaxReqs = 1
INVARIANTS
    TypeOK
    HalfOpenHasProber
    ProbesPerClear
    EarlyProbeIsStale
PROPERTIES
    HalfOpenResolves
