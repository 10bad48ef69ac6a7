CONSTANTS
    u1 = u1
    r1 = r1
    r2 = r2
    i1 = i1
    i2 = i2
    c1 = c1
    Users = {u1}
    Replicas = {r1}
    Browsers = {u1}
    Issuers = {}
    Codes = {}
    CodeOwner <- OneUser
    BatchSize = 2
    MaxDisables = 1
    MaxReconciles = 1
    MaxGrants = 1
    MaxFaults = 1
SPECIFICATION FairSpec
PROPERTIES EventsDelivered
