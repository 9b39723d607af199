\* Two instances, two ticks to the second, one tick of delay, one crash.
SPECIFICATION FairSpec
CONSTANTS
    i1 = i1
    i2 = i2
    Instances <- MCInstances
    NoOne = NoOne
    TicksPerSec = 2
    LeaseTimeout = 5
    Heartbeat = 2
    MaxStalls = 1
    MaxCrashes = 1
INVARIANTS
    TypeOK
    SupersededStandsDown
    LeaseSkewBounded
PROPERTIES
    LeaderElected
    StoppedKeyGoes
