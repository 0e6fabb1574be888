CONSTANTS
    p1 = p1
    p2 = p2
    p3 = p3
    r1 = r1
    r2 = r2
    r3 = r3
    People    <- Trio
    Actors    <- Pair
    Cap       = 2
    Initial   <- AllEntries
    Payloads  <- AllUpdates
    Requests  <- TwoRequests
    MaxActive = 2
    MaxFaults = 1

SPECIFICATION MCSpec

\* Every request ends.
CHECK_DEADLOCK FALSE

SYMMETRY Symmetry

INVARIANTS
    ListsBounded
    PublishedAlone
    PendingAlone

PROPERTIES
    Atomic
    LastAdmin
