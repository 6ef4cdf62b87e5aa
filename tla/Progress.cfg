\* A talk is over, a server drained, a completion done: any of them may stop.
CHECK_DEADLOCK FALSE
SPECIFICATION ProgressSpec
CONSTANTS
    u1 = u1
    a1 = a1
    t1 = t1
    a2 = a2
    u2 = u2
    a3 = a3
    u3 = u3
    a4 = a4
    Messages = {u1, a1, t1, a2, u2, a3, u3, a4}
    Role <- MCRole
    HasId = {u1, a1, u2}
    Memorable = {u1, a2, u2, a3, u3, a4}
    Payloads <- Prefixes
    Live <- LiveTurn
    None = None
    MaxFailures = 2
    MaxRuns = 4
INVARIANTS
    RowsSound
    GrowingTalkKeepsOrder
    EvidenceCitesItsBlock
    RepeatCatchesUp
    UndisturbedRunsReadAll
PROPERTIES
    CompletionReturns
    CallsEnd
