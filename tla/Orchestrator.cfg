SPECIFICATION FairSpec
CONSTANTS
    t1 = t1
    t2 = t2
    t3 = t3
    s1 = s1
    s2 = s2
    k1 = k1
    k2 = k2
    Turns = {t1, t2, t3}
    Scopes = {s1, s2}
    Scope <- MCScope
    Key <- MCKey
    At <- MCAt
    Interval = 1
    QueueMax = 2
    KnownMax = 1
    Workers = {w1, w2}
    Controllers = {c1}
    Flushers = {f1}
    None = None
    MaxTasks = 3
INVARIANTS
    AdmissionSound
    OneWorker
    FlushSettles
    StoredInOrder
PROPERTIES
    FlushCompletes
    StopCompletes
CHECK_DEADLOCK FALSE
