\* Channels closed twice.
SPECIFICATION Spec
CONSTANTS
    p1 = p1
    p2 = p2
    Procs <- MCProcs
    NoProc = NoProc
    ActionIDs = {a1}
    NoID = NoID
    MaxAttempts = 2
    EventCap = 1
SYMMETRY MCSymmetry
INVARIANT
    NeverPanics
CHECK_DEADLOCK FALSE
