CONSTANTS
    r1 = r1
    r2 = r2
    q1 = q1
    q2 = q2
    q3 = q3
    Replicas = {r1}
    Requests = {q1, q2}
    Home <- TwoOnOne
    p1 = p1
    p2 = p2
    NoPort = NoPort
    Ports = {p1, p2}
    MaxConfig = 2
    MaxRevision = 2
    MaxGen = 1
    MaxRestarts = 0
SPECIFICATION Spec
INVARIANTS CurrentConfigurationServed
