---------------------------- MODULE ConnectionPool ----------------------------
(***************************************************************************)
(* waggle.connection_pool.SQLiteConnectionPool: the fixed set of SQLite    *)
(* connections every MemoryGraph operation borrows from.                   *)
(*                                                                         *)
(* _acquire, _release and the first half of close run under one            *)
(* threading.Condition.  The transaction of a borrowed connection ends     *)
(* before _release takes the condition, and close closes the idle handles  *)
(* after it let go of it: those are steps of their own.  A thread may hold *)
(* several connections, since checkouts nest.                              *)
(***************************************************************************)
EXTENDS Integers, Sequences, FiniteSets

CONSTANTS
    Conns,            \* the connections the factory makes: the pool's size
    Threads,          \* the threads of one server process
    NoThread,         \* holder of a connection nobody has borrowed
    CheckoutTimeout,  \* TRUE: checkouts give up at a deadline; FALSE: None
    Interruptible,    \* threads an exception may hit inside wait()
    MaxNest           \* bound on one thread's nested checkouts

ASSUME PoolAssumption ==
    /\ IsFiniteSet(Conns) /\ Conns # {}
    /\ NoThread \notin Threads
    /\ CheckoutTimeout \in BOOLEAN
    /\ Interruptible \subseteq Threads
    /\ MaxNest \in Nat \ {0}

VARIABLES
    created,   \* connections made so far by a running __init__
    ready,     \* __init__ has returned
    idle,      \* _idle, the deque
    leased,    \* _leased
    closed,    \* _closed
    open,      \* open[c]: the SQLite handle is usable
    tx,        \* tx[c]: the handle's transaction, "left" when its rollback failed
    holder,    \* the thread that borrowed c
    ended,     \* borrowed connections past their commit or rollback
    pc,        \* what the thread is doing beside the connections it holds
    asleep,    \* threads blocked in wait()
    expired,   \* threads whose deadline passed
    toClose,   \* the local list "idle" of a close() call
    interrupted \* whether an exception ever reached a waiting thread

vars == <<created, ready, idle, leased, closed, open, tx, holder, ended, pc,
          asleep, expired, toClose, interrupted>>

handles == <<open, tx, holder, ended>>
waiting == <<pc, asleep, expired>>

TxStates == {"none", "open", "left"}

Held(t) == {c \in Conns : holder[c] = t}

Init ==
    /\ created = <<>>
    /\ ready = FALSE
    /\ idle = <<>>
    /\ leased = 0
    /\ closed = FALSE
    /\ open = [c \in Conns |-> FALSE]
    /\ tx = [c \in Conns |-> "none"]
    /\ holder = [c \in Conns |-> NoThread]
    /\ ended = {}
    /\ pc = [t \in Threads |-> "run"]
    /\ asleep = {}
    /\ expired = {}
    /\ toClose = [t \in Threads |-> {}]
    /\ interrupted = FALSE

-----------------------------------------------------------------------------
(* __init__                                                                *)

Listed(s) == {s[i] : i \in DOMAIN s}

CreateConnection ==
    /\ ~ready
    /\ \E c \in Conns \ Listed(created) :
           /\ created' = Append(created, c)
           /\ open' = [open EXCEPT ![c] = TRUE]
    /\ UNCHANGED <<ready, idle, leased, closed, tx, holder, ended, waiting, toClose, interrupted>>

\* The factory raises: what was made is closed, and no pool exists.
ConstructionFails ==
    /\ ~ready
    /\ Listed(created) # Conns
    /\ open' = [c \in Conns |-> FALSE]
    /\ created' = <<>>
    /\ UNCHANGED <<ready, idle, leased, closed, tx, holder, ended, waiting, toClose, interrupted>>

PoolReady ==
    /\ ~ready
    /\ Listed(created) = Conns
    /\ ready' = TRUE
    /\ idle' = created
    /\ UNCHANGED <<created, leased, closed, handles, waiting, toClose, interrupted>>

-----------------------------------------------------------------------------
(* _acquire                                                                *)

\* Mutant: the connection is lent without leaving the deque.
Lease_Peek(t) ==
    /\ idle' = idle
    /\ leased' = leased + 1
    /\ holder' = [holder EXCEPT ![Head(idle)] = t]

\* Mutant: the lease is not counted.
Lease_Uncounted(t) ==
    /\ idle' = Tail(idle)
    /\ leased' = leased
    /\ holder' = [holder EXCEPT ![Head(idle)] = t]

Lease(t) ==
    /\ idle' = Tail(idle)
    /\ leased' = leased + 1
    /\ holder' = [holder EXCEPT ![Head(idle)] = t]

\* The wait loop is left: normally, or by raising.
LeaveWait(t) ==
    /\ pc' = [pc EXCEPT ![t] = "run"]
    /\ asleep' = asleep \ {t}
    /\ expired' = expired \ {t}

\* On a closed pool it raises ConnectionPoolClosedError and nothing changes.
Checkout(t) ==
    /\ ready /\ pc[t] = "run"
    /\ Cardinality(Held(t)) < MaxNest
    /\ ~closed
    /\ \/ idle # <<>> /\ Lease(t) /\ UNCHANGED waiting
       \/ /\ idle = <<>>
          /\ pc' = [pc EXCEPT ![t] = "checkout"]
          /\ asleep' = asleep \cup {t}
          /\ UNCHANGED <<idle, leased, holder, expired>>
    /\ UNCHANGED <<created, ready, closed, open, tx, ended, toClose, interrupted>>

\* A woken checkout takes a connection, raises, or waits for the rest of its time.
WakeCheckout(t) ==
    /\ pc[t] = "checkout"
    /\ t \notin asleep
    /\ \/ idle # <<>> /\ Lease(t) /\ LeaveWait(t)
       \/ /\ idle = <<>>
          /\ closed \/ t \in expired
          /\ LeaveWait(t)
          /\ UNCHANGED <<idle, leased, holder>>
       \/ /\ idle = <<>> /\ ~closed /\ t \notin expired
          /\ asleep' = asleep \cup {t}
          /\ UNCHANGED <<idle, leased, holder, pc, expired>>
    /\ UNCHANGED <<created, ready, closed, open, tx, ended, toClose, interrupted>>

\* wait(timeout) returns because the deadline of the checkout or drain passed.
Expire(t) ==
    /\ pc[t] = "drain" \/ (pc[t] = "checkout" /\ CheckoutTimeout)
    /\ t \notin expired
    /\ expired' = expired \cup {t}
    /\ asleep' = asleep \ {t}
    /\ UNCHANGED <<created, ready, idle, leased, closed, handles, pc, toClose, interrupted>>

-----------------------------------------------------------------------------
(* checkout: the with-block and how it ends                                *)

Working(t, c) == pc[t] = "run" /\ holder[c] = t /\ c \notin ended

WriteThrough(t, c) ==
    /\ Working(t, c)
    /\ tx' = [tx EXCEPT ![c] = IF @ = "none" THEN "open" ELSE @]
    /\ UNCHANGED <<created, ready, idle, leased, closed, open, holder, ended,
                   waiting, toClose, interrupted>>

\* Mutant: a commit that fails is not rolled back.
EndTransaction_NoRollback(t, c) ==
    /\ Working(t, c)
    /\ ended' = ended \cup {c}
    /\ \E outcome \in {"clean", "raises", "commit_fails"} :
           tx' = IF outcome = "commit_fails" THEN tx
                   ELSE [tx EXCEPT ![c] = "none"]
    /\ UNCHANGED <<created, ready, idle, leased, closed, open, holder, waiting, toClose, interrupted>>

\* A clean exit commits; a raising body, or a failing commit, rolls back.  An error of
\* the rollback is suppressed, and the connection released with what it could not undo.
EndTransaction(t, c) ==
    /\ Working(t, c)
    /\ ended' = ended \cup {c}
    /\ \/ tx' = [tx EXCEPT ![c] = "none"]
       \/ tx[c] # "none" /\ tx' = [tx EXCEPT ![c] = "left"]
    /\ UNCHANGED <<created, ready, idle, leased, closed, open, holder, waiting, toClose, interrupted>>

-----------------------------------------------------------------------------
(* _release                                                                *)

\* notify(): some thread blocked in wait(), if there is one.
NotifyOne ==
    IF asleep = {} THEN UNCHANGED asleep
    ELSE \E u \in asleep : asleep' = asleep \ {u}

Unlease(t, c) ==
    /\ pc[t] = "run" /\ holder[c] = t /\ c \in ended
    /\ leased' = leased - 1
    /\ holder' = [holder EXCEPT ![c] = NoThread]
    /\ ended' = ended \ {c}

\* Mutant: the connection goes back to the deque and nobody is notified.
ReturnToPool_Silent(t, c) ==
    /\ Unlease(t, c)
    /\ ~closed
    /\ idle' = Append(idle, c)
    /\ UNCHANGED <<created, ready, closed, open, tx, pc, asleep, expired, toClose, interrupted>>

\* Mutant: _closed is not looked at before the connection goes back.
ReturnToPool_Unchecked(t, c) ==
    /\ Unlease(t, c)
    /\ idle' = Append(idle, c)
    /\ NotifyOne
    /\ UNCHANGED <<created, ready, closed, open, tx, pc, expired, toClose, interrupted>>

ReturnToPool(t, c) ==
    /\ Unlease(t, c)
    /\ ~closed
    /\ idle' = Append(idle, c)
    /\ NotifyOne
    /\ UNCHANGED <<created, ready, closed, open, tx, pc, expired, toClose, interrupted>>

\* Mutant: a borrower returning to a closed pool leaves its handle open.
CloseOnReturn_Forgets(t, c) ==
    /\ Unlease(t, c)
    /\ closed
    /\ asleep' = IF leased = 1 THEN {} ELSE asleep
    /\ UNCHANGED <<created, ready, idle, closed, open, tx, pc, expired, toClose, interrupted>>

CloseOnReturn(t, c) ==
    /\ Unlease(t, c)
    /\ closed
    /\ open' = [open EXCEPT ![c] = FALSE]
    /\ asleep' = IF leased = 1 THEN {} ELSE asleep
    /\ UNCHANGED <<created, ready, idle, closed, tx, pc, expired, toClose, interrupted>>

-----------------------------------------------------------------------------
(* close                                                                   *)

\* Mutant: the connections in use are closed with the idle ones.
CloseIdleOnly_All(t) ==
    toClose' = [toClose EXCEPT ![t] = IF closed THEN {} ELSE Conns]

\* Only the first call finds connections to close.
CloseIdleOnly(t) ==
    toClose' = [toClose EXCEPT ![t] = IF closed THEN {} ELSE Listed(idle)]

\* notify_all() of the first call.
WakeAll == IF closed THEN asleep ELSE {}

Close(t) ==
    /\ ready /\ pc[t] = "run"
    /\ closed' = TRUE
    /\ idle' = <<>>
    /\ CloseIdleOnly(t)
    /\ \/ \* drain_timeout given and leases outstanding
          /\ leased > 0
          /\ pc' = [pc EXCEPT ![t] = "drain"]
          /\ asleep' = WakeAll \cup {t}
       \/ /\ pc' = [pc EXCEPT ![t] = "close"]
          /\ asleep' = WakeAll
    /\ UNCHANGED <<created, ready, leased, handles, expired, interrupted>>

WakeDrain(t) ==
    /\ pc[t] = "drain"
    /\ t \notin asleep
    /\ \/ /\ leased = 0 \/ t \in expired
          /\ pc' = [pc EXCEPT ![t] = "close"]
          /\ expired' = expired \ {t}
          /\ UNCHANGED asleep
       \/ /\ leased > 0 /\ t \notin expired
          /\ asleep' = asleep \cup {t}
          /\ UNCHANGED <<pc, expired>>
    /\ UNCHANGED <<created, ready, idle, leased, closed, handles, toClose, interrupted>>

\* Outside the condition, one handle after the other.
CloseIdleHandle(t) ==
    /\ pc[t] = "close"
    /\ \/ \E c \in toClose[t] :
              /\ open' = [open EXCEPT ![c] = FALSE]
              /\ toClose' = [toClose EXCEPT ![t] = @ \ {c}]
              /\ UNCHANGED pc
       \/ /\ toClose[t] = {}
          /\ pc' = [pc EXCEPT ![t] = "run"]
          /\ UNCHANGED <<open, toClose>>
    /\ UNCHANGED <<created, ready, idle, leased, closed, tx, holder, ended,
                   asleep, expired, interrupted>>

\* An exception inside wait() leaves _acquire, or close with its list unclosed.
Interrupt(t) ==
    /\ t \in Interruptible
    /\ pc[t] \in {"checkout", "drain"}
    /\ LeaveWait(t)
    /\ toClose' = [toClose EXCEPT ![t] = {}]
    /\ interrupted' = TRUE
    /\ UNCHANGED <<created, ready, idle, leased, closed, handles>>

-----------------------------------------------------------------------------

ConnStep(t, c) ==
    WriteThrough(t, c) \/ EndTransaction(t, c) \/ ReturnToPool(t, c) \/ CloseOnReturn(t, c)

Step(t) ==
    \/ Checkout(t) \/ WakeCheckout(t) \/ Expire(t)
    \/ Close(t) \/ WakeDrain(t) \/ CloseIdleHandle(t) \/ Interrupt(t)
    \/ \E c \in Conns : ConnStep(t, c)

Construct == CreateConnection \/ ConstructionFails \/ PoolReady

Next == Construct \/ \E t \in Threads : Step(t)

Spec == Init /\ [][Next]_vars

(***************************************************************************)
(* A notified thread runs again, a deadline passes, a started close() goes *)
(* on, and a with-block ends and its connection is released: strongly, for *)
(* a thread that keeps coming back to a block from calls it makes inside.  *)
(* Nothing says that anybody ever checks out, or closes the pool.          *)
(***************************************************************************)
Fairness ==
    \A t \in Threads :
        /\ WF_vars(WakeCheckout(t)) /\ WF_vars(WakeDrain(t))
        /\ WF_vars(Expire(t)) /\ WF_vars(CloseIdleHandle(t))
        /\ \A c \in Conns :
               SF_vars(EndTransaction(t, c)) /\ SF_vars(ReturnToPool(t, c) \/ CloseOnReturn(t, c))

FairSpec == Spec /\ Fairness

-----------------------------------------------------------------------------
(* Type invariant of the pool's fields and of its callers' states.         *)
TypeOK ==
    /\ created \in Seq(Conns) /\ idle \in Seq(Conns)
    /\ ready \in BOOLEAN /\ closed \in BOOLEAN
    /\ leased \in Nat
    /\ open \in [Conns -> BOOLEAN] /\ tx \in [Conns -> TxStates]
    /\ holder \in [Conns -> Threads \cup {NoThread}]
    /\ ended \subseteq Conns
    /\ pc \in [Threads -> {"run", "checkout", "drain", "close"}]
    /\ asleep \subseteq Threads /\ expired \subseteq Threads
    /\ toClose \in [Threads -> SUBSET Conns]
    /\ interrupted \in BOOLEAN

Leases == {c \in Conns : holder[c] # NoThread}

\* _leased counts the borrowed connections exactly: it alone tells a draining
\* close() that every borrower is gone.
LeasedExact == leased = Cardinality(Leases)

Distinct(s) == \A i, j \in DOMAIN s : s[i] = s[j] => i = j

\* One connection is in one place: twice in the deque, or in the deque and with
\* a borrower, would hand one SQLite handle to two threads.
OnePlace ==
    /\ Distinct(idle)
    /\ Listed(idle) \cap Leases = {}

\* A borrower's handle is never closed underneath it, by close() or otherwise,
\* and what waits in the deque is open.
UsableWhileHeld == \A c \in Leases \cup Listed(idle) : open[c]

\* The next borrower gets a handle whose last transaction was committed or rolled back,
\* unless that rollback failed: neither a raising body nor a failing commit returns it
\* without trying.
IdleHandlesWereEnded == \A c \in Listed(idle) : tx[c] # "open"

\* connection_pool.py: after a failing commit the rollback comes first "so a clean
\* connection goes back to the pool".  Not so when the rollback fails as well.
CleanHandlesGoBack == \A c \in Listed(idle) : tx[c] = "none"

\* What a borrower may rely on: its handle is its own, open and, when it gets it, without
\* a transaction that nobody ended, however the last lease went and whoever closes the pool.
HandlesSound == TypeOK /\ OnePlace /\ UsableWhileHeld /\ IdleHandlesWereEnded

AwakeCheckouts == {t \in Threads \ asleep : pc[t] = "checkout"}

\* While a checkout sleeps, every idle connection has an awake checkout coming
\* for it: notify() of one thread per return is enough, until an exception hits
\* a checkout that was notified and does not pass it on.
NoStrandedCheckout ==
    ~interrupted /\ (\E t \in asleep : pc[t] = "checkout") => Len(idle) <= Cardinality(AwakeCheckouts)

\* A closed pool has no checkout asleep, and a drain sleeps only for borrowers.
CloseWakesEveryone ==
    \A t \in asleep : IF pc[t] = "checkout" THEN ~closed ELSE leased > 0

\* A failed construction leaks no handle.
NothingLeaksBeforeReady == ~ready => \A c \in Conns : open[c] => c \in Listed(created)

\* A closed pool never lends again, also not to a checkout that was waiting.
NoLeaseAfterClose ==
    [][closed => \A c \in Conns : holder'[c] = holder[c] \/ holder'[c] = NoThread]_vars

\* Once close() was called, every handle ends up closed and no caller is left
\* waiting for one, although close() itself does not wait for the borrowers: only
\* an exception during a drain may leave idle handles unclosed.
ShutdownCompletes ==
    closed ~> \/ interrupted
              \/ /\ \A c \in Conns : ~open[c]
                 /\ \A t \in Threads : pc[t] # "checkout"
=============================================================================
