CONSTANTS
    Runs      = {r1, r2, r3}
    LongRuns  = TRUE
    MaxLosses = 2

    Requests = {w1, w2, w3}
    Home     = home
    Names    = {n1, n2}
    Slugs    = {s1, s2}
    MaxWriteFaults = 1

    Readers     = {q1, q2}
    MaxVersions = 2
    MaxWrites   = 4

    Uploads = {u1, u2, u3}
    Edits   = {e1}
    PerSecond = 2
    MaxTicks  = 3
    MaxOutages = 2

SPECIFICATION MCSpec

\* Every request ends.
CHECK_DEADLOCK FALSE

INVARIANTS
    ExclusiveUntilLoss
    Unique
    CascadedAlone
    IndexedAlone
    EvictionHolds
    LogoServed
    ShownAlone
    RecoverableAlone
    EtagUsable

PROPERTIES
    Takeover
    WholeCalls
    NeverOlder
    OwnersKept
    ConditionsHeld
