\* Without a checkout timeout, two threads that each hold one connection and nest
\* a second checkout wait for each other: the system may stop there.
CHECK_DEADLOCK FALSE
SPECIFICATION PoolSpec
CONSTANTS
    c1 = c1
    c2 = c2
    t1 = t1
    t2 = t2
    t3 = t3
    Conns = {c1, c2}
    Threads = {t1, t2, t3}
    NoThread = NoThread
    CheckoutTimeout = FALSE
    Interruptible = {t1, t2, t3}
    MaxNest = 2
INVARIANTS
    HandlesSound
    NoStrandedCheckout
PROPERTIES
    NoLeaseAfterClose
    FairShutdownCompletes
