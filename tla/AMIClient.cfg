\* Two callers, two connection attempts, room for one event.
\* The client can deadlock on its own mutex and can panic.
SPECIFICATION FairSpec
CONSTANTS
    p1 = p1
    p2 = p2
    Procs <- MCProcs
    NoProc = NoProc
    ActionIDs = {a1}
    NoID = NoID
    MaxAttempts = 2
    EventCap = 1
INVARIANTS
    TypeOK
    ConnectedIsOpen
    OpenIsCurrent
    AttemptsRecorded
PROPERTIES
    MutexReleased
CHECK_DEADLOCK FALSE
