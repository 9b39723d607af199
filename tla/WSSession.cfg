\* Two backends, failover on the first error, three connections.
\* A closed session stops.
SPECIFICATION FairSessionSpec
CONSTANTS
    NumBackends = 2
    FailoverThreshold = 1
    MaxDials = 3
    MaxChecks = 1
INVARIANTS
    SessionTypeOK
    LateDialsBounded
PROPERTIES
    SessionEnds
CHECK_DEADLOCK FALSE
