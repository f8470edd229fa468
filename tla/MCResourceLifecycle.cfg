SPECIFICATION Spec
CONSTANTS
    Resources <- MCResources
    Rank <- MCRank
    MaxBirths <- MCBirths
    Palo = {"fw"}
    Skips = {"vm"}
    Inlined <- MCInlined
    Inlines = {"reconcile", "power"}
    Deletes = TRUE
INVARIANTS
    TypeOK
    NoOrphanUnlessRaced
    ReadyIsLive
PROPERTIES
    DeprovisionLeavesNothing
    MarkedOnlyIfGone
CHECK_DEADLOCK FALSE
