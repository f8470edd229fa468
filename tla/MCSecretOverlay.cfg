SPECIFICATION OverlaySpec
CONSTANTS
    InlineCalls = {c1, c2, c3}
    Job = Job
    Nobody = Nobody
SYMMETRY CallSymmetry
INVARIANTS
    OverlayTypeOK
    NothingLeftBehind
    JobKeepsSecretsUnlessRaced
