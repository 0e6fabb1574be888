CONSTANTS
    Uploads = {u1, u2}
    Edits   = {}
    PerSecond = 2
    MaxTicks  = 3
    MaxOutages = 1

SPECIFICATION OSpec

\* Every request ends, and no fairness is assumed.
CHECK_DEADLOCK FALSE

INVARIANTS
    Recoverable
