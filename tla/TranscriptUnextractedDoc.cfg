SPECIFICATION ProgressSpec
CONSTANTS
    u1 = u1
    a1 = a1
    t1 = t1
    a2 = a2
    u2 = u2
    a3 = a3
    u3 = u3
    a4 = a4
    Messages = {u1, a1, t1, a2, u2, a3, u3, a4}
    Role <- MCRole
    HasId = {u1, a1, t1, a2, u2, a3, u3, a4}
    Memorable = {u1, a2, u2, a3, u3, a4}
    Payloads <- Prefixes
    Live = {}
    None = None
    MaxFailures = 1
    MaxRuns = 3
INVARIANT
    CompletedRunExtractsAll
CHECK_DEADLOCK FALSE
