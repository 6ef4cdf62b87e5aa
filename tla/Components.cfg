\* Proposals decided, a completion done, a server drained: any part may stop.
CHECK_DEADLOCK FALSE
SPECIFICATION ComponentsSpec
CONSTANTS
    Null = Null
    NoRow = NoRow
    Raised = Raised
    Auto = Auto
    m3 = m3
    q2 = q2
    r2 = r2
    m1 = m1
    m2 = m2
    q1 = q1
    x1 = x1
    x2 = x2
    a1 = a1
    r1 = r1
    p1 = p1
    p2 = p2
    Memories = {m1, m2}
    Seeded = {m1}
    Proposals = {q1}
    Texts = {x1, x2}
    Agents = {a1}
    Requests = {r1}
    Procs = {p1, p2}
    None = None
    MaxWrites = 2
    Posts = {"r1", "r2"}
    ApiKeys = {"k1"}
    Rpm = 1
    WriteRpm = 1
    MaxConcurrent = 1
    Minute = 1
    MaxTime = 2
    Expiries = {1, 3}
    Threads = {"l1", "l2", "l3"}
    Process <- ProcessOf
    Nobody = "nobody"
    LockFiles = 2
    MaxCalls = 1
    Savers = {"t1", "t2"}
    Files = {"x1"}
    MaxRuns = 2
    Places = {"policy"}
    MaxSaves = 2
    DemoProcs = {"p1", "p2"}
    Sessions = {"s1", "s2"}
    NoOne = "none"
    Capacity = 1
    MaxRequests = 3
    Reqs = {"r1", "r2"}
    Environments = {"modal", "e2b", "prime", "daytona", "docker", "kernel"}
    MaxServed = 1
    Cells = 2
    MaxAsks = 2
SYMMETRY Symmetry
INVARIANTS
    ExchangeSound
    AdministrationSound
    OneGuarded
    DemoSound
    EngineSound
    CallsSound
    GateSound
    WorkspacesSound
PROPERTIES
    DecisionsAreFinal
    ExactApprovedText
