CONSTANTS
    ra = ra
    rb = rb
    s1 = s1
    s2 = s2
    s3 = s3
    q1 = q1
    q2 = q2
    Nowhere = Nowhere
    NoSession = NoSession
    Replicas = {ra, rb}
    Sessions = {s1, s2, s3}
    Requests = {q1, q2}
    Closers = {ra}
    MaxFaults = 1
SPECIFICATION FairSpec
CHECK_DEADLOCK FALSE
INVARIANTS TypeOK RunOnceByOwner StoppedBeforeClosed
PROPERTIES RequestsEnd
