CONSTANTS
    u1 = u1
    r1 = r1
    r2 = r2
    i1 = i1
    i2 = i2
    c1 = c1
    Users = {u1}
    Replicas = {r1, r2}
    Browsers = {u1}
    Issuers = {i1}
    Codes = {c1}
    CodeOwner <- OneUser
    BatchSize = 2
    MaxDisables = 2
    MaxReconciles = 0
    MaxGrants = 1
    MaxFaults = 1
SPECIFICATION Spec
SYMMETRY Symmetry
INVARIANTS TypeOK NoGrantOutlivesDenial NoSessionOutlivesDenial
