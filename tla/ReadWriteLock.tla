---------------------------- MODULE ReadWriteLock ----------------------------
(***************************************************************************)
(* waggle.graph._ReadWriteLock: the reader/writer lock every MemoryGraph   *)
(* operation takes, shared by all for_tenant clones of one graph.          *)
(*                                                                         *)
(* Each method body runs under one threading.Condition, so it is atomic up *)
(* to a cond.wait().  A thread inside wait() is in "asleep" until a        *)
(* notify_all() empties that set; it then re-tests its loop condition in a *)
(* step of its own and may go back to sleep.  An exception delivered       *)
(* inside wait() (KeyboardInterrupt on the main thread) leaves the method  *)
(* through its finally clause: the threads it may reach are Interruptible. *)
(***************************************************************************)
EXTENDS Integers, FiniteSets

CONSTANTS
    Threads,         \* the threads of one server process
    NoThread,        \* Python's None in _write_owner
    Interruptible,   \* threads an exception may hit inside cond.wait()
    MaxDepth         \* bound on the nesting of one thread's with-blocks

ASSUME LockAssumption ==
    /\ NoThread \notin Threads
    /\ Interruptible \subseteq Threads
    /\ MaxDepth \in Nat \ {0}

VARIABLES
    readers,         \* _readers
    waitingWriters,  \* _waiting_writers
    writeOwner,      \* _write_owner
    writeDepth,      \* _write_depth
    readerThreads,   \* _reader_threads, 0 standing for an absent key
    nestedReads,     \* read contexts a write owner has open (never counted)
    pc,              \* "run", or the method whose wait loop the thread is in
    asleep,          \* threads blocked in cond.wait()
    interrupted      \* whether an exception ever reached a waiting writer

vars == <<readers, waitingWriters, writeOwner, writeDepth, readerThreads,
          nestedReads, pc, asleep, interrupted>>

writeVars == <<waitingWriters, writeOwner, writeDepth>>
readVars  == <<readers, readerThreads>>

Init ==
    /\ readers = 0
    /\ waitingWriters = 0
    /\ writeOwner = NoThread
    /\ writeDepth = 0
    /\ readerThreads = [t \in Threads |-> 0]
    /\ nestedReads = [t \in Threads |-> 0]
    /\ pc = [t \in Threads |-> "run"]
    /\ asleep = {}
    /\ interrupted = FALSE

-----------------------------------------------------------------------------
(* The two wait conditions.                                                *)

\* Mutant: a writer tests the owner only.
LockFree_IgnoresReaders == writeOwner = NoThread

LockFree == readers = 0 /\ writeOwner = NoThread

\* Mutant: readers do not give way to waiting writers.
MayRead_NoPreference(t) == writeOwner = NoThread

MayRead(t) ==
    /\ writeOwner = NoThread
    /\ waitingWriters = 0 \/ readerThreads[t] > 0

\* A method that finds its condition false goes to sleep in cond.wait().
FallAsleep(t, method) ==
    /\ pc' = [pc EXCEPT ![t] = method]
    /\ asleep' = asleep \cup {t}

-----------------------------------------------------------------------------
(* _acquire_write                                                          *)

ReenterWrite(t) ==
    /\ pc[t] = "run"
    /\ writeOwner = t
    /\ writeDepth < MaxDepth
    /\ writeDepth' = writeDepth + 1
    /\ UNCHANGED <<readVars, waitingWriters, writeOwner, nestedReads, pc, asleep, interrupted>>

\* A thread that already reads is refused with RuntimeError and nothing changes.
MayAskToWrite(t) ==
    /\ pc[t] = "run"
    /\ writeOwner # t
    /\ readerThreads[t] = 0

AcquireWrite(t) ==
    /\ MayAskToWrite(t)
    /\ LockFree
    /\ writeOwner' = t
    /\ writeDepth' = 1
    /\ UNCHANGED <<readVars, waitingWriters, nestedReads, pc, asleep, interrupted>>

WaitToWrite(t) ==
    /\ MayAskToWrite(t)
    /\ ~LockFree
    /\ waitingWriters' = waitingWriters + 1
    /\ FallAsleep(t, "write")
    /\ UNCHANGED <<readVars, writeOwner, writeDepth, nestedReads, interrupted>>

WakeWriter(t) ==
    /\ pc[t] = "write"
    /\ t \notin asleep
    /\ \/ /\ LockFree
          /\ writeOwner' = t
          /\ writeDepth' = 1
          /\ waitingWriters' = waitingWriters - 1
          /\ pc' = [pc EXCEPT ![t] = "run"]
          /\ UNCHANGED asleep
       \/ /\ ~LockFree
          /\ asleep' = asleep \cup {t}
          /\ UNCHANGED <<writeVars, pc>>
    /\ UNCHANGED <<readVars, nestedReads, interrupted>>

\* Mutant: the decrement sits after the wait loop and not in a finally clause.
InterruptWriter_Leaks(t) ==
    /\ t \in Interruptible
    /\ pc[t] = "write"
    /\ pc' = [pc EXCEPT ![t] = "run"]
    /\ asleep' = asleep \ {t}
    /\ interrupted' = TRUE
    /\ UNCHANGED <<readVars, writeVars, nestedReads>>

InterruptWriter(t) ==
    /\ t \in Interruptible
    /\ pc[t] = "write"
    /\ waitingWriters' = waitingWriters - 1
    /\ pc' = [pc EXCEPT ![t] = "run"]
    /\ asleep' = asleep \ {t}
    /\ interrupted' = TRUE
    /\ UNCHANGED <<readVars, writeOwner, writeDepth, nestedReads>>

(* _release_write: with-blocks close innermost first, so the outermost     *)
(* write context closes only after the read contexts opened inside it.     *)
ReleaseWrite(t) ==
    /\ pc[t] = "run"
    /\ writeOwner = t
    /\ writeDepth > 1 \/ nestedReads[t] = 0
    /\ writeDepth' = writeDepth - 1
    /\ \/ /\ writeDepth > 1
          /\ UNCHANGED <<writeOwner, asleep>>
       \/ /\ writeDepth = 1
          /\ writeOwner' = NoThread
          /\ asleep' = {}
    /\ UNCHANGED <<readVars, waitingWriters, nestedReads, pc, interrupted>>

-----------------------------------------------------------------------------
(* _acquire_read and _release_read                                         *)

ReadInsideWrite(t) ==
    /\ pc[t] = "run"
    /\ writeOwner = t
    /\ nestedReads[t] < MaxDepth
    /\ nestedReads' = [nestedReads EXCEPT ![t] = @ + 1]
    /\ UNCHANGED <<readVars, writeVars, pc, asleep, interrupted>>

\* Mutant: a thread is counted once, however deep its read contexts nest.
CountReader_PerThread(t) ==
    /\ readerThreads' = [readerThreads EXCEPT ![t] = @ + 1]
    /\ readers' = IF readerThreads[t] = 0 THEN readers + 1 ELSE readers

CountReader(t) ==
    /\ readerThreads' = [readerThreads EXCEPT ![t] = @ + 1]
    /\ readers' = readers + 1

AcquireRead(t) ==
    /\ pc[t] = "run"
    /\ writeOwner # t
    /\ readerThreads[t] < MaxDepth
    /\ \/ MayRead(t) /\ CountReader(t) /\ UNCHANGED <<pc, asleep>>
       \/ ~MayRead(t) /\ FallAsleep(t, "read") /\ UNCHANGED readVars
    /\ UNCHANGED <<writeVars, nestedReads, interrupted>>

WakeReader(t) ==
    /\ pc[t] = "read"
    /\ t \notin asleep
    /\ \/ /\ MayRead(t)
          /\ CountReader(t)
          /\ pc' = [pc EXCEPT ![t] = "run"]
          /\ UNCHANGED asleep
       \/ /\ ~MayRead(t)
          /\ asleep' = asleep \cup {t}
          /\ UNCHANGED <<readVars, pc>>
    /\ UNCHANGED <<writeVars, nestedReads, interrupted>>

InterruptReader(t) ==
    /\ t \in Interruptible
    /\ pc[t] = "read"
    /\ pc' = [pc EXCEPT ![t] = "run"]
    /\ asleep' = asleep \ {t}
    /\ UNCHANGED <<readVars, writeVars, nestedReads, interrupted>>

LeaveNestedRead(t) ==
    /\ pc[t] = "run"
    /\ writeOwner = t
    /\ nestedReads[t] > 0
    /\ nestedReads' = [nestedReads EXCEPT ![t] = @ - 1]
    /\ UNCHANGED <<readVars, writeVars, pc, asleep, interrupted>>

\* Mutant: the last reader notifies only when it is the second to last.
ReleaseRead_OffByOne(t) ==
    /\ pc[t] = "run"
    /\ writeOwner # t
    /\ readerThreads[t] > 0
    /\ readerThreads' = [readerThreads EXCEPT ![t] = @ - 1]
    /\ readers' = readers - 1
    /\ asleep' = IF readers = 2 THEN {} ELSE asleep
    /\ UNCHANGED <<writeVars, nestedReads, pc, interrupted>>

ReleaseRead(t) ==
    /\ pc[t] = "run"
    /\ writeOwner # t
    /\ readerThreads[t] > 0
    /\ readerThreads' = [readerThreads EXCEPT ![t] = @ - 1]
    /\ readers' = readers - 1
    /\ asleep' = IF readers = 1 THEN {} ELSE asleep
    /\ UNCHANGED <<writeVars, nestedReads, pc, interrupted>>

-----------------------------------------------------------------------------

Step(t) ==
    \/ ReenterWrite(t) \/ AcquireWrite(t) \/ WaitToWrite(t) \/ WakeWriter(t)
    \/ InterruptWriter(t) \/ ReleaseWrite(t)
    \/ ReadInsideWrite(t) \/ AcquireRead(t) \/ WakeReader(t)
    \/ InterruptReader(t) \/ LeaveNestedRead(t) \/ ReleaseRead(t)

Next == \E t \in Threads : Step(t)

Spec == Init /\ [][Next]_vars

(***************************************************************************)
(* Scheduling: a notified thread eventually runs again, and every critical *)
(* section ends.  The bodies of the with-blocks are finite SQLite          *)
(* statements, so a thread that keeps returning to its outermost block     *)
(* also leaves it: that is the strong fairness.                            *)
(***************************************************************************)
Fairness ==
    \A t \in Threads :
        /\ WF_vars(WakeWriter(t)) /\ WF_vars(WakeReader(t))
        /\ WF_vars(ReleaseWrite(t)) /\ WF_vars(ReleaseRead(t))
        /\ WF_vars(LeaveNestedRead(t))
        /\ SF_vars(ReleaseRead(t) /\ readerThreads[t] = 1)
        /\ SF_vars(ReleaseWrite(t) /\ writeDepth = 1)

FairSpec == Spec /\ Fairness

-----------------------------------------------------------------------------
(* Type invariant: the counters are natural numbers and the owner and its  *)
(* depth agree, for the fields of _ReadWriteLock.__init__.                 *)
TypeOK ==
    /\ readers \in Nat
    /\ waitingWriters \in Nat
    /\ writeOwner \in Threads \cup {NoThread}
    /\ writeDepth \in 0..MaxDepth
    /\ readerThreads \in [Threads -> 0..MaxDepth]
    /\ nestedReads \in [Threads -> 0..MaxDepth]
    /\ pc \in [Threads -> {"run", "read", "write"}]
    /\ asleep \subseteq Threads
    /\ interrupted \in BOOLEAN

\* The write lock excludes every reader, the owner's own counted reads included.
MutualExclusion ==
    writeOwner # NoThread => \A t \in Threads : readerThreads[t] = 0

\* The with-blocks of reading threads, one token per nesting level.
HeldReads == {h \in Threads \X (1..MaxDepth) : h[2] <= readerThreads[h[1]]}

\* _readers is exactly the number of open read contexts: a drift would let a
\* writer in beside a reader, or keep every writer out for ever.
ReadersExact == readers = Cardinality(HeldReads)

WritersWaiting == {t \in Threads : pc[t] = "write"}

\* _waiting_writers is exactly the number of threads in the write wait loop,
\* also when wait() is left by an exception: a leaked increment would shut out
\* all new readers for ever.
WaitingWritersExact == waitingWriters = Cardinality(WritersWaiting)

\* What the counters of the lock and its users agree on, whoever is interrupted:
\* nobody writes beside a reader and no count drifts from the threads it counts.
CountersSound == TypeOK /\ MutualExclusion /\ ReadersExact /\ WaitingWritersExact

\* A thread blocked in cond.wait() on a free lock would need another thread to
\* come by: somebody awake is always on the way to take the lock.  Only a writer
\* that leaves its wait by an exception, without a notify, leaves readers behind.
NoLostWakeup ==
    ~interrupted /\ asleep # {} /\ LockFree =>
        \E t \in Threads : pc[t] # "run" /\ t \notin asleep

\* A writer never sleeps on a free lock, interrupts included.
WriterNotStranded == LockFree => asleep \cap WritersWaiting = {}

\* However many readers keep arriving, and although waits are interrupted, the
\* waiting writers' turn comes (though not a given writer's), unless they all
\* were interrupted.
WriterProgress ==
    (WritersWaiting # {}) ~> (writeOwner # NoThread \/ WritersWaiting = {})

-----------------------------------------------------------------------------
(* The lock implements the abstract reader/writer lock.                    *)
Mode(t) ==
    IF writeOwner = t THEN "write"
    ELSE IF readerThreads[t] > 0 THEN "read" ELSE "none"

Abs == INSTANCE RWLock WITH mode <- [t \in Threads |-> Mode(t)]

\* Whatever the waiting and waking, callers see only RWLock's grants and returns.
ImplementsRWLock == Abs!Spec
=============================================================================
