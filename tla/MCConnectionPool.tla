--------------------------- MODULE MCConnectionPool ---------------------------
(* TLC instance of ConnectionPool: two threads with checkout timeouts or      *)
(* without, fair, or a crowd of three with timeouts and nothing fair.        *)
EXTENDS ConnectionPool

CONSTANTS c1, c2, t1, t2, t3

VARIABLE mode

Timed == INSTANCE ConnectionPool WITH CheckoutTimeout <- TRUE

PoolNext ==
    /\ UNCHANGED mode
    /\ \/ mode = "untimed" /\ (Construct \/ \E t \in {t1, t2} : Step(t))
       \/ mode = "timed" /\ (Construct \/ \E t \in {t1, t2} : Timed!Step(t))
       \/ mode = "crowd" /\ Timed!Next

\* Fairness, for the two threads that have it.
PoolFairness ==
    \A t \in {t1, t2} :
        /\ WF_vars(mode # "crowd" /\ WakeCheckout(t)) /\ WF_vars(mode # "crowd" /\ WakeDrain(t))
        /\ WF_vars(mode = "untimed" /\ Expire(t)) /\ WF_vars(mode = "timed" /\ Timed!Expire(t))
        /\ WF_vars(mode # "crowd" /\ CloseIdleHandle(t))
        /\ \A c \in Conns :
               /\ SF_vars(mode # "crowd" /\ EndTransaction(t, c))
               /\ SF_vars(mode # "crowd" /\ (ReturnToPool(t, c) \/ CloseOnReturn(t, c)))

PoolInit == mode \in {"untimed", "timed", "crowd"} /\ Init

PoolSpec ==
    /\ PoolInit
    /\ [][PoolNext]_<<mode, vars>> /\ PoolFairness

\* With these threads ShutdownCompletes, whether or not checkouts time out.
FairShutdownCompletes == mode # "crowd" => ShutdownCompletes
===============================================================================
