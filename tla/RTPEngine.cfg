\* Three callers, cookies that may be equal, four requests in all.
\* The model stops when its sockets are used up.
SPECIFICATION Spec
CONSTANTS
    Callers = {p1, p2, p3}
    Cookies = {k1, k2}
    MaxDials = 4
SYMMETRY Symmetry
INVARIANTS
    UndisturbedWhenAlone
    OwnAnswer
CHECK_DEADLOCK FALSE
