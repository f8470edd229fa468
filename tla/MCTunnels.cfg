SPECIFICATION MCSpec
CONSTANTS
    a1 = a1
    a2 = a2
    b = b
    ha = ha
    hb = hb
    MaxCalls = 3
    Expiring = {1}
    Targets <- MCTargets
    Hosts <- MCHosts
    Host <- MCHost
    Keys <- MCHosts
    Id <- MCId
    PublicPorts = {p1, p2}
    LocalPorts = {l1, l2}
    None = None
SYMMETRY Symmetry
CHECK_DEADLOCK FALSE
INVARIANTS
    TypeOK
    ClosedHoldsNothingUnlessCut
    ReachesItsOwnUnlessRaced
    ExpiresEvenIfUnlisted
    AcceptsOnlyIfListedUnlessRaced
