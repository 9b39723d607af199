\* Two instances, no delay and no crash.
SPECIFICATION Spec
CONSTANTS
    i1 = i1
    i2 = i2
    Instances <- MCInstances
    NoOne = NoOne
    TicksPerSec = 2
    LeaseTimeout = 5
    Heartbeat = 2
    MaxStalls = 0
    MaxCrashes = 0
SYMMETRY MCSymmetry
INVARIANT AtMostOneLeader
