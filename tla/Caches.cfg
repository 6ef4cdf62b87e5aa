SPECIFICATION Spec
CONSTANTS
    NoWindow = NoWindow
    NodeIds = {n1, n2}
    Windows = {w1, w2}
    Texts = {x, y}
    Adders = {a1}
    VectorReaders = {r1}
    TopicReaders = {p1}
    MaxClock = 3
SYMMETRY Symmetry
INVARIANTS
    TopicsSound
    WindowRowsAccurate
