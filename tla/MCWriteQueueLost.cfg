SPECIFICATION Spec
CONSTANTS
    MaxEdits = 3
    MaxEntries = 3
    MaxFaults = 0
    MaxReloads = 0
INVARIANT NothingLost
