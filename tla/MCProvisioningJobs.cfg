SPECIFICATION FairSpec
CONSTANTS
    Replicas = {r1, r2}
    Jobs = {j1, j2}
    NoJob = NoJob
    MaxCancels = 1
    FaultyCalls = {"cancel", "claim", "start", "save", "clear"}
    MaxFaults = 1
    MaxCrashes = 1
INVARIANTS
    TypeOK
    AtMostOnce
    SerialUnlessBreached
    GuardHasHolder
PROPERTIES
    FinalUnlessBreached
    EveryJobSettles
    KeepsPromise
CHECK_DEADLOCK FALSE
