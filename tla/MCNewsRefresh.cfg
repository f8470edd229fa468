SPECIFICATION Spec
CONSTANTS
    Replicas = {r1, r2}
    Accounts = {a1, a2}
    MaxTurns = 1
    MaxRefreshes = 2
    MaxPeriods = 2
SYMMETRY Symmetry
INVARIANTS
    OncePerPeriod
    OneSnapshotUnlessOverlapped
    RefreshingIsUnderWay
CHECK_DEADLOCK FALSE
