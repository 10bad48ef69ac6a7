CONSTANTS
    Replicas = {r1, r2}
    Changes = {c1, c2}
    Updates = {c1}
    MaxFaults = 1
SPECIFICATION FairSpec
INVARIANTS TypeOK NoLostChange AppliedIsLoaded
PROPERTIES Convergence
CHECK_DEADLOCK FALSE
