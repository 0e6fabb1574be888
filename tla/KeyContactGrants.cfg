CONSTANTS
    Contacts = {k1, k2}
    Pairs = {p1, p2, p3}
    Consumer = cdc
    Writers = {w1}
    None = None
    MaxChanges = 3
    MaxFaults = 1
    MaxInterleaved = 2
SPECIFICATION MCSpec
\* The changes are bounded and no fairness is assumed: every behaviour may end.
CHECK_DEADLOCK FALSE
SYMMETRY Sym
INVARIANTS CalmNoDangling CalmWithdrawn CalmGranted OvertakenSettled
PROPERTY CalmAddressKept
