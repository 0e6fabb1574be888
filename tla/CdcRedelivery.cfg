CONSTANTS
    Accounts  = {a1}
    Assets    = {}
    MaxEvents = 2
    MaxFaults = 2
    Buffered  = 2

SPECIFICATION FairSpec

\* The bounds on events and faults end every behaviour.
CHECK_DEADLOCK FALSE

INVARIANTS
    RedeliverySafe
