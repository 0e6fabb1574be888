CONSTANTS
    p1 = p1
    p2 = p2
    p3 = p3
    r1 = r1
    r2 = r2
    r3 = r3
    People    <- Pair
    Actors    <- Pair
    Cap       = 2
    Initial   <- SingleEntries
    Payloads  <- NoUpdates
    Requests  <- TwoRequests
    MaxActive = 2
    MaxFaults = 0

SPECIFICATION MCSpec

\* Every request ends.
CHECK_DEADLOCK FALSE

SYMMETRY Symmetry

INVARIANTS
    RevokedStaysRevoked
