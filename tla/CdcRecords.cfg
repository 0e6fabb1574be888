CONSTANTS
    Accounts  = {a1}
    Assets    = {s1}
    MaxEvents = 3
    MaxFaults = 3
    Buffered  = 0

    Children  = {c1, c2}
    Heads     = {h1, h2}
    NoOrg     = NoOrg
    MaxMoves  = 2
    MaxFailures   = 2
    MaxHappenings = 3

SPECIFICATION MCSpec

\* The bounds on events, changes and faults end every behaviour.
CHECK_DEADLOCK FALSE

SYMMETRY Symmetry

INVARIANTS
    TypesOK
    PurgeAddressed
    RemovalQueued
    RestoredTuples
    StrayQueued
    LinksExact
    ParentsShown

PROPERTIES
    WithdrawnOnlyByDelete
