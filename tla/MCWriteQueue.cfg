SPECIFICATION FairSpec
CONSTANTS
    MaxEdits = 4
    MaxEntries = 2
    MaxFaults = 1
    MaxReloads = 1
INVARIANTS
    TypeOK
    NothingLostUnlessRaced
    LandsOnce
    OnlineMeansDrained
PROPERTIES
    LandsInOrderUnlessLate
    OnlineDrains
