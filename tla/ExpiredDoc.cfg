\* As the memories run, and one property more.
CHECK_DEADLOCK FALSE
SPECIFICATION MemoriesSpec
CONSTANTS
    Null = Null
    NoRow = NoRow
    x2 = x2
    p2 = p2
    m1 = m1
    m2 = m2
    m3 = m3
    q1 = q1
    q2 = q2
    x1 = x1
    a1 = a1
    r1 = r1
    r2 = r2
    p1 = p1
    Memories = {m1, m2, m3}
    Seeded = {m1}
    Proposals = {q1, q2}
    Texts = {x1}
    Agents = {a1}
    Requests = {r1, r2}
    Procs = {p1}
    None = None
    MaxWrites = 1
    MaxNodes = 3
    MaxEdges = 2
    Phrases = {"p1", "p3"}
    Near <- NearNone
    Opposed <- OpposedPair
    Relations = {"contradicts", "relates_to"}
    Given = {"none", "later"}
    MaxTold = 2
    MaxEdited = 1
    Nodes = {"n1", "n2"}
    Transcripts = {}
    Contents = {1}
    BatchSize = 1
    Nobody = "nobody"
SYMMETRY Symmetry
INVARIANT
    ExpiredStayOut
