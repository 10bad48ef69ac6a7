CONSTANTS
    r1 = r1
    r2 = r2
    c1 = c1
    a1 = a1
    a2 = a2
    b1 = b1
    Nowhere = Nowhere
    Replicas = {r1, r2}
    Sessions = {c1}
    Admins = {a1, a2}
    Bridges = {b1}
    MaxFaults = 2
SPECIFICATION Spec
SYMMETRY Symmetry
CHECK_DEADLOCK FALSE
INVARIANTS TypeOK DisconnectedHere OpenIsTracked
PROPERTIES CredentialNeverReturns 
