SPECIFICATION Spec
CONSTANTS
    Replicas = {r1, r2}
    Jobs = {j1, j2}
    NoJob = NoJob
    MaxCancels = 1
    FaultyCalls = {"cancel", "claim", "start", "save", "clear"}
    MaxFaults = 0
    MaxCrashes = 0
INVARIANT SerialUnlessBoot
CHECK_DEADLOCK FALSE
