CONSTANTS
    Contacts = {k1}
    Pairs = {p1}
    Consumer = cdc
    Writers = {w1}
    None = None
    MaxChanges = 2
    MaxFaults = 0
SPECIFICATION Spec
\* The changes are bounded and no fairness is assumed: every behaviour may end.
CHECK_DEADLOCK FALSE
INVARIANT InactiveHoldsNothing
