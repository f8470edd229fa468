SPECIFICATION MCSpec
CONSTANTS
    Accounts = {1, 2}
    Events = {e}
    Notes = {n1, n2}
    Rows = {r1, r2, r3}
    Deliveries = {d1, d2}
    Requests = {u1, u2}
    MaxDeliveries = 2
    MaxRequests = 3
SYMMETRY Symmetry
INVARIANTS
    TypeOK
    ImportedOnce
    NotesStayVisible
PROPERTY
    ImportKeepsEdits
CHECK_DEADLOCK FALSE
