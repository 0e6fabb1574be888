CONSTANTS
    Accounts  = {a1, a2}
    Assets    = {}
    MaxEvents = 2
    MaxFaults = 3
    Buffered  = 2

    Capacity  = 2
    MaxLogged = 4
    MaxBreaks = 2

    StaleAfter = 2
    MaxUnread  = 2

SPECIFICATION MCSpec

\* The bounds on events and faults end every behaviour.
CHECK_DEADLOCK FALSE

INVARIANTS
    AtLeastOnce

PROPERTIES
    CatchesUp
    ResetKeepsNewer
    CursorCatchesUp
    GuardFollows
