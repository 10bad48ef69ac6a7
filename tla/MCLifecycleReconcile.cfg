CONSTANTS
    u1 = u1
    r1 = r1
    r2 = r2
    i1 = i1
    i2 = i2
    c1 = c1
    Users = {u1}
    Replicas = {r1, r2}
    Browsers = {u1}
    Issuers = {i1}
    Codes = {c1}
    CodeOwner <- OneUser
    BatchSize = 2
    MaxDisables = 0
    MaxReconciles = 2
    MaxGrants = 0
    MaxFaults = 0
SPECIFICATION Spec
SYMMETRY Symmetry
INVARIANTS NoReconcileLost
