SPECIFICATION FairSpec
CONSTANTS
    Threads = {t1, t2, t3, t4}
    NoThread = NoThread
    Interruptible = {t1, t2, t3, t4}
    MaxDepth = 2
INVARIANTS
    CountersSound
    NoLostWakeup
PROPERTIES
    ImplementsRWLock
    WriterProgress
