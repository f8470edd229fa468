SPECIFICATION Spec
CONSTANTS
    Resources <- MCInlined
    Rank <- MCOneRank
    MaxBirths <- MCOneBirths
    Palo = {}
    Skips = {}
    Inlined <- MCInlined
    Inlines = {"reconcile"}
    Deletes = FALSE
INVARIANT NoOrphan
