CONSTANTS
    Children  = {c1}
    Heads     = {h1, h2}
    NoOrg     = NoOrg
    MaxMoves    = 1
    MaxFailures = 0

SPECIFICATION HSpec

\* The one change ends every behaviour.
CHECK_DEADLOCK FALSE

INVARIANTS
    FormerParentShown
