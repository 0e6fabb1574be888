CONSTANTS
    Accounts   = {a1}
    Drains     = {d1, d2}
    First      = d1
    PageCap    = 1
    Kinds      = {"create", "update", "delete"}
    Handling   = {"queue", "publish"}
    MaxChanges = 3
    MaxFaults  = 2
    SharedChanges = 2
    SharedFaults  = 1

    Assets    = {m1, m2}
    LastDay   = 1
    PageSize  = 1
    MaxEdits  = 2
    MaxBreaks = 1

SPECIFICATION MCSpec
SYMMETRY Symmetry

\* The bounds on changes and faults end every behaviour.
CHECK_DEADLOCK FALSE

INVARIANTS
    ConvergesAlone
    NoMarkerLost
    ReindexExact
