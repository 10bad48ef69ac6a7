CONSTANTS
    r1 = r1
    r2 = r2
    q1 = q1
    q2 = q2
    q3 = q3
    Replicas = {r1}
    Requests = {q1, q2}
    Home <- TwoOnOne
    p1 = p1
    p2 = p2
    NoPort = NoPort
    Ports = {p1, p2}
    MaxConfig = 1
    MaxRevision = 2
    MaxGen = 3
    MaxRestarts = 1
SPECIFICATION FairSpec
INVARIANTS TypeOK NoOrphanDaemon LaunchKeepsEntry PortsAccounted
PROPERTIES RevisionTakenUp
CHECK_DEADLOCK FALSE
