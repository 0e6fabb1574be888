CONSTANTS
    Accounts   = {a1}
    Drains     = {d1, d2}
    PageCap    = 1
    Kinds      = {"create", "update"}
    Handling   = {"queue"}
    MaxChanges = 3
    MaxFaults  = 0

SPECIFICATION Spec

\* The bounds on changes and faults end every behaviour.
CHECK_DEADLOCK FALSE

INVARIANTS
    Converges
