SPECIFICATION Spec
CONSTANTS
    Windows = {w1, w2}
    MaxTurns = 2
    MaxIterations = 2
    MaxNudges = 1
    MaxCalls = 2
    MaxCrashes = 1
INVARIANTS
    PairedUnlessCut
PROPERTIES
    HistoryGrows
    NeverEndsSilently
    WindowsAreFreed
CHECK_DEADLOCK FALSE
