\* Once every memory is deleted and every proposal decided, nothing is left to do.
CHECK_DEADLOCK FALSE
SPECIFICATION Spec
CONSTANTS
    m3 = m3
    q2 = q2
    x2 = x2
    r2 = r2
    m1 = m1
    m2 = m2
    q1 = q1
    x1 = x1
    a1 = a1
    r1 = r1
    p1 = p1
    p2 = p2
    Memories = {m1, m2}
    Seeded = {m1}
    Proposals = {q1}
    Texts = {x1}
    Agents = {a1}
    Requests = {r1}
    Procs = {p1, p2}
    None = None
    MaxWrites = 2
SYMMETRY Symmetry
PROPERTY
    NothingNewerIsOverwritten
