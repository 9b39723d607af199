\* Two clients, one sender, one pending action, two faults, two refusals.
SPECIFICATION FairSpec
CONSTANTS
    NumClients = 2
    Users = {u1}
    Actions = {a1}
    NoAction = NoAction
    ReplayLimit = 0
    FailThreshold = 1
    MaxRetries = 1
    MaxBusy = 2
    MaxFaults = 2
    MaxRefusals = 2
INVARIANTS
    TypeOK
    ReplayBoundedUnlessOverlapped
PROPERTIES
    ServiceRestored
CHECK_DEADLOCK FALSE
