\* Where failoverOffer sends an offer that one engine did not answer.
SPECIFICATION Spec
CONSTANTS
    p1 = p1
    p2 = p2
    c1 = c1
    Procs <- MCProcs
    Calls <- MCCalls
    NoProc = NoProc
    N = 2
    Address <- MCAddress
    FailureThreshold = 3
INVARIANT
    OfferRetriesElsewhere
