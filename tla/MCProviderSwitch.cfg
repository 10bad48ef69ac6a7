CONSTANTS
    p = p
    q = q
    h1 = h1
    Providers = {p, q}
    Requests = {h1}
    None = None
    MaxChanges = 3
    MaxFaults = 1
    MaxInflight = 1
SPECIFICATION Spec
INVARIANTS TypeOK ScimHasConnection NoStrandedConnection OneOfEach  CleanupNotBlocked
PROPERTIES ServingKept CleanupSparesServing
CHECK_DEADLOCK FALSE
SYMMETRY Symmetry
