------------------------- MODULE ReadWriteLockProofs -------------------------
(***************************************************************************)
(* Safety of _ReadWriteLock for any set of threads, any nesting depth and  *)
(* any set of interruptible threads.  Threads need not be finite: only the *)
(* sets the two counters count are, and IInv says so.                      *)
(***************************************************************************)
EXTENDS ReadWriteLock, FiniteSetTheorems, TLAPS

-----------------------------------------------------------------------------
(* The strengthening.                                                      *)

CountersExact ==
    /\ IsFiniteSet(HeldReads) /\ ReadersExact
    /\ IsFiniteSet(WritersWaiting) /\ WaitingWritersExact

OwnerHasDepth == writeDepth = 0 <=> writeOwner = NoThread

NestedUnderOwner == \A t \in Threads : nestedReads[t] > 0 => writeOwner = t

WaitersHoldNothing ==
    \A t \in Threads : pc[t] # "run" => readerThreads[t] = 0 /\ writeOwner # t

SleepersWait == \A t \in asleep : pc[t] # "run"

IInv ==
    /\ TypeOK
    /\ MutualExclusion
    /\ CountersExact
    /\ OwnerHasDepth
    /\ NestedUnderOwner
    /\ WaitersHoldNothing
    /\ SleepersWait
    /\ WriterNotStranded

-----------------------------------------------------------------------------
(* The two counted sets change by one element at a time.                   *)

ReadsOf(f) == {h \in Threads \X (1..MaxDepth) : h[2] <= f[h[1]]}

\* Opening a read context adds one token to the set _readers counts.
LEMMA ReadsGrow ==
    ASSUME NEW f \in [Threads -> 0..MaxDepth], NEW t \in Threads,
           f[t] < MaxDepth, MaxDepth \in Nat
    PROVE  /\ ReadsOf([f EXCEPT ![t] = @ + 1])
                = ReadsOf(f) \cup {<<t, f[t] + 1>>}
           /\ <<t, f[t] + 1>> \notin ReadsOf(f)
<1> DEFINE g == [f EXCEPT ![t] = @ + 1]
           x == <<t, f[t] + 1>>
<1>1. ASSUME NEW u \in Threads, NEW n \in 1..MaxDepth
      PROVE  n <= g[u] <=> n <= f[u] \/ (u = t /\ n = f[t] + 1)
  OBVIOUS
<1>2. x \in Threads \X (1..MaxDepth)
  OBVIOUS
<1>3. ReadsOf(g) = ReadsOf(f) \cup {x}
  BY <1>1, <1>2 DEF ReadsOf
<1>4. x \notin ReadsOf(f)
  BY DEF ReadsOf
<1> QED
  BY <1>3, <1>4

\* Closing a read context removes one.
LEMMA ReadsShrink ==
    ASSUME NEW f \in [Threads -> 0..MaxDepth], NEW t \in Threads,
           f[t] > 0, MaxDepth \in Nat
    PROVE  /\ ReadsOf([f EXCEPT ![t] = @ - 1]) = ReadsOf(f) \ {<<t, f[t]>>}
           /\ <<t, f[t]>> \in ReadsOf(f)
<1> DEFINE g == [f EXCEPT ![t] = @ - 1]
           x == <<t, f[t]>>
<1>1. ASSUME NEW u \in Threads, NEW n \in 1..MaxDepth
      PROVE  n <= g[u] <=> n <= f[u] /\ ~(u = t /\ n = f[t])
  OBVIOUS
<1>2. x \in Threads \X (1..MaxDepth)
  OBVIOUS
<1>3. ReadsOf(g) = ReadsOf(f) \ {x}
  BY <1>1, <1>2 DEF ReadsOf
<1>4. x \in ReadsOf(f)
  BY <1>2 DEF ReadsOf
<1> QED
  BY <1>3, <1>4

\* A counted set that gains or loses one element keeps its count exact.
LEMMA CountUp ==
    ASSUME NEW S, IsFiniteSet(S), NEW x, x \notin S
    PROVE  /\ IsFiniteSet(S \cup {x})
           /\ Cardinality(S \cup {x}) = Cardinality(S) + 1
           /\ Cardinality(S) \in Nat
BY FS_AddElement, FS_CardinalityType

LEMMA CountDown ==
    ASSUME NEW S, IsFiniteSet(S), NEW x, x \in S
    PROVE  /\ IsFiniteSet(S \ {x})
           /\ Cardinality(S \ {x}) = Cardinality(S) - 1
           /\ Cardinality(S) \in Nat \ {0}
BY FS_RemoveElement, FS_CardinalityType, FS_EmptySet

-----------------------------------------------------------------------------
(* The counters, over each way a step may move them.                       *)

\* CountReader keeps _readers exact.
LEMMA CountReaderExact ==
    ASSUME TypeOK, IsFiniteSet(HeldReads), ReadersExact,
           NEW t \in Threads, readerThreads[t] < MaxDepth, CountReader(t)
    PROVE  /\ IsFiniteSet(HeldReads') /\ ReadersExact'
           /\ readers' \in Nat
           /\ readerThreads' \in [Threads -> 0..MaxDepth]
<1> USE LockAssumption
<1>1. HeldReads = ReadsOf(readerThreads) /\ HeldReads' = ReadsOf(readerThreads')
  BY DEF HeldReads, ReadsOf
<1>2. readerThreads \in [Threads -> 0..MaxDepth]
  BY DEF TypeOK
<1>3. /\ HeldReads' = HeldReads \cup {<<t, readerThreads[t] + 1>>}
      /\ <<t, readerThreads[t] + 1>> \notin HeldReads
  BY <1>1, <1>2, ReadsGrow DEF CountReader
<1> QED
  BY <1>2, <1>3, CountUp DEF CountReader, ReadersExact

\* Closing a counted read context keeps _readers exact, and it was positive.
LEMMA ReleaseReadExact ==
    ASSUME TypeOK, IsFiniteSet(HeldReads), ReadersExact,
           NEW t \in Threads, ReleaseRead(t)
    PROVE  /\ IsFiniteSet(HeldReads') /\ ReadersExact'
           /\ readers \in Nat \ {0}
           /\ readerThreads' \in [Threads -> 0..MaxDepth]
<1> USE LockAssumption
<1>1. HeldReads = ReadsOf(readerThreads) /\ HeldReads' = ReadsOf(readerThreads')
  BY DEF HeldReads, ReadsOf
<1>2. readerThreads \in [Threads -> 0..MaxDepth]
  BY DEF TypeOK
<1>3. /\ HeldReads' = HeldReads \ {<<t, readerThreads[t]>>}
      /\ <<t, readerThreads[t]>> \in HeldReads
  BY <1>1, <1>2, ReadsShrink DEF ReleaseRead
<1> QED
  BY <1>2, <1>3, CountDown DEF ReleaseRead, ReadersExact

\* A thread joins the writers' wait loop.
LEMMA WaitersGrow ==
    ASSUME TypeOK, IsFiniteSet(WritersWaiting), WaitingWritersExact,
           NEW t \in Threads, pc[t] # "write",
           pc' = [pc EXCEPT ![t] = "write"], waitingWriters' = waitingWriters + 1
    PROVE  /\ IsFiniteSet(WritersWaiting') /\ WaitingWritersExact'
           /\ waitingWriters' \in Nat
<1>1. WritersWaiting' = WritersWaiting \cup {t} /\ t \notin WritersWaiting
  BY DEF WritersWaiting, TypeOK
<1> QED
  BY <1>1, CountUp DEF WaitingWritersExact

\* A thread leaves it, with the lock or by an exception.
LEMMA WaitersShrink ==
    ASSUME TypeOK, IsFiniteSet(WritersWaiting), WaitingWritersExact,
           NEW t \in Threads, pc[t] = "write",
           pc' = [pc EXCEPT ![t] = "run"], waitingWriters' = waitingWriters - 1
    PROVE  /\ IsFiniteSet(WritersWaiting') /\ WaitingWritersExact'
           /\ waitingWriters' \in Nat
<1>1. WritersWaiting' = WritersWaiting \ {t} /\ t \in WritersWaiting
  BY DEF WritersWaiting, TypeOK
<1> QED
  BY <1>1, CountDown DEF WaitingWritersExact

\* Any other change of pc leaves the writers' wait loop alone.
LEMMA WaitersSame ==
    ASSUME TypeOK, IsFiniteSet(WritersWaiting), WaitingWritersExact,
           NEW t \in Threads, NEW m \in {"run", "read"},
           pc[t] # "write", pc' = [pc EXCEPT ![t] = m] \/ pc' = pc,
           UNCHANGED waitingWriters
    PROVE  IsFiniteSet(WritersWaiting') /\ WaitingWritersExact'
<1>1. WritersWaiting' = WritersWaiting
  BY DEF WritersWaiting, TypeOK
<1> QED
  BY <1>1 DEF WaitingWritersExact

\* HeldReads depends on readerThreads only.
LEMMA ReadsSame ==
    ASSUME IsFiniteSet(HeldReads), ReadersExact, UNCHANGED readVars
    PROVE  IsFiniteSet(HeldReads') /\ ReadersExact'
BY DEF HeldReads, ReadersExact, readVars

-----------------------------------------------------------------------------
(* The inductive step, action by action.                                   *)

\* What IInv says beside the two counters.
Shape ==
    /\ TypeOK
    /\ MutualExclusion
    /\ OwnerHasDepth
    /\ NestedUnderOwner
    /\ WaitersHoldNothing
    /\ SleepersWait
    /\ WriterNotStranded

LEMMA InitIInv == Init => IInv
<1> SUFFICES ASSUME Init PROVE IInv
  OBVIOUS
<1> USE LockAssumption DEF Init
<1>1. HeldReads = {} /\ WritersWaiting = {}
  BY DEF HeldReads, WritersWaiting
<1>2. CountersExact
  BY <1>1, FS_EmptySet DEF CountersExact, ReadersExact, WaitingWritersExact
<1>3. TypeOK
  <2>1. interrupted \in BOOLEAN
    BY Zenon
  <2> HIDE DEF Init
  <2> QED
    BY <2>1 DEF TypeOK, Init
<1>4. Shape
  BY <1>3 DEF Shape, MutualExclusion, OwnerHasDepth, NestedUnderOwner,
         WaitersHoldNothing, SleepersWait, WriterNotStranded
<1> QED
  BY <1>2, <1>4 DEF IInv, Shape

\* A set of open read contexts is empty only when no thread has any: with the
\* count exact, _readers = 0 means that nobody reads.
LEMMA NoReadersNobodyReads ==
    ASSUME TypeOK, CountersExact, readers = 0
    PROVE  \A t \in Threads : readerThreads[t] = 0
<1> USE LockAssumption
<1>1. HeldReads = {}
  BY FS_EmptySet DEF CountersExact, ReadersExact
<1>2. ASSUME NEW t \in Threads, readerThreads[t] # 0 PROVE FALSE
  <2>1. <<t, readerThreads[t]>> \in HeldReads
    BY <1>2 DEF HeldReads, TypeOK
  <2> QED
    BY <2>1, <1>1
<1> QED
  BY <1>2

LEMMA StepCounters ==
    ASSUME IInv, NEW t \in Threads, Step(t)
    PROVE  CountersExact'
<1> USE LockAssumption DEF IInv, CountersExact
<1>1. CASE ReenterWrite(t)
  BY <1>1, ReadsSame, WaitersSame DEF ReenterWrite
<1>2. CASE AcquireWrite(t)
  BY <1>2, ReadsSame, WaitersSame DEF AcquireWrite, MayAskToWrite
<1>3. CASE WaitToWrite(t)
  BY <1>3, ReadsSame, WaitersGrow DEF WaitToWrite, MayAskToWrite, FallAsleep
<1>4. CASE WakeWriter(t)
  <2>1. CASE LockFree
    BY <1>4, <2>1, ReadsSame, WaitersShrink DEF WakeWriter
  <2>2. CASE ~LockFree
    <3>1. WritersWaiting' = WritersWaiting /\ waitingWriters' = waitingWriters
      BY <1>4, <2>2 DEF WakeWriter, WritersWaiting, writeVars
    <3> QED
      BY <1>4, <3>1, ReadsSame DEF WakeWriter, WaitingWritersExact
  <2> QED
    BY <2>1, <2>2
<1>5. CASE InterruptWriter(t)
  BY <1>5, ReadsSame, WaitersShrink DEF InterruptWriter
<1>6. CASE ReleaseWrite(t)
  BY <1>6, ReadsSame, WaitersSame DEF ReleaseWrite
<1>7. CASE ReadInsideWrite(t)
  BY <1>7, ReadsSame, WaitersSame DEF ReadInsideWrite, writeVars
<1>8. CASE AcquireRead(t)
  <2>1. CASE MayRead(t)
    BY <1>8, <2>1, CountReaderExact, WaitersSame DEF AcquireRead, writeVars
  <2>2. CASE ~MayRead(t)
    BY <1>8, <2>2, ReadsSame, WaitersSame
       DEF AcquireRead, FallAsleep, writeVars
  <2> QED
    BY <2>1, <2>2
<1>9. CASE WakeReader(t)
  <2>1. CASE MayRead(t)
    <3>1. readerThreads[t] < MaxDepth
      BY <1>9 DEF WakeReader, WaitersHoldNothing
    <3> QED
      BY <1>9, <2>1, <3>1, CountReaderExact, WaitersSame
         DEF WakeReader, writeVars
  <2>2. CASE ~MayRead(t)
    BY <1>9, <2>2, ReadsSame, WaitersSame DEF WakeReader, writeVars
  <2> QED
    BY <2>1, <2>2
<1>10. CASE InterruptReader(t)
  BY <1>10, ReadsSame, WaitersSame DEF InterruptReader, writeVars
<1>11. CASE LeaveNestedRead(t)
  BY <1>11, ReadsSame, WaitersSame DEF LeaveNestedRead, writeVars
<1>12. CASE ReleaseRead(t)
  BY <1>12, ReleaseReadExact, WaitersSame DEF ReleaseRead, writeVars
<1> QED
  BY <1>1, <1>2, <1>3, <1>4, <1>5, <1>6, <1>7, <1>8, <1>9, <1>10, <1>11, <1>12
     DEF Step

LEMMA StepShape ==
    ASSUME IInv, NEW t \in Threads, Step(t)
    PROVE  Shape'
<1> USE LockAssumption
<1>0. /\ readers' \in Nat /\ waitingWriters' \in Nat
  BY StepCounters, FS_CardinalityType
     DEF CountersExact, ReadersExact, WaitingWritersExact
<1>n. readers = 0 => \A u \in Threads : readerThreads[u] = 0
  BY NoReadersNobodyReads DEF IInv
<1> USE DEF IInv, Shape, TypeOK, MutualExclusion, OwnerHasDepth,
            NestedUnderOwner, WaitersHoldNothing, SleepersWait,
            WriterNotStranded, WritersWaiting, LockFree
<1>1. CASE ReenterWrite(t)
  BY <1>0, <1>1 DEF ReenterWrite, readVars
<1>2. CASE AcquireWrite(t)
  BY <1>0, <1>2, <1>n DEF AcquireWrite, MayAskToWrite, readVars
<1>3. CASE WaitToWrite(t)
  BY <1>0, <1>3 DEF WaitToWrite, MayAskToWrite, FallAsleep, readVars
<1>4. CASE WakeWriter(t)
  BY <1>0, <1>4, <1>n DEF WakeWriter, writeVars, readVars
<1>5. CASE InterruptWriter(t)
  BY <1>0, <1>5 DEF InterruptWriter, readVars
<1>6. CASE ReleaseWrite(t)
  BY <1>0, <1>6 DEF ReleaseWrite, readVars
<1>7. CASE ReadInsideWrite(t)
  BY <1>0, <1>7 DEF ReadInsideWrite, writeVars, readVars
<1>8. CASE AcquireRead(t)
  BY <1>0, <1>8 DEF AcquireRead, CountReader, MayRead, FallAsleep, writeVars, readVars
<1>9. CASE WakeReader(t)
  BY <1>0, <1>9 DEF WakeReader, CountReader, MayRead, writeVars, readVars
<1>10. CASE InterruptReader(t)
  BY <1>0, <1>10 DEF InterruptReader, writeVars, readVars
<1>11. CASE LeaveNestedRead(t)
  BY <1>0, <1>11 DEF LeaveNestedRead, writeVars, readVars
<1>12. CASE ReleaseRead(t)
  BY <1>0, <1>12, ReleaseReadExact
     DEF ReleaseRead, CountersExact, writeVars, ReadersExact
<1> QED
  BY <1>1, <1>2, <1>3, <1>4, <1>5, <1>6, <1>7, <1>8, <1>9, <1>10, <1>11, <1>12
     DEF Step

LEMMA NextIInv == IInv /\ [Next]_vars => IInv'
<1> SUFFICES ASSUME IInv, [Next]_vars PROVE IInv'
  OBVIOUS
<1>1. CASE Next
  <2>1. PICK t \in Threads : Step(t)
    BY <1>1 DEF Next
  <2> QED
    BY <2>1, StepCounters, StepShape DEF IInv, Shape
<1>2. CASE UNCHANGED vars
  BY <1>2 DEF vars, IInv, TypeOK, MutualExclusion, CountersExact, OwnerHasDepth,
              NestedUnderOwner, WaitersHoldNothing, SleepersWait, ReadersExact,
              WaitingWritersExact, WriterNotStranded, HeldReads, WritersWaiting,
              LockFree
<1> QED
  BY <1>1, <1>2

LEMMA Invariance == Spec => []IInv
<1> QED
  BY InitIInv, NextIInv, PTL DEF Spec

-----------------------------------------------------------------------------
(* What a reader of graph/__init__.py may rely on.                         *)

\* The fields of _ReadWriteLock keep their types.
THEOREM TypeCorrect == Spec => []TypeOK
BY Invariance, PTL DEF IInv

\* A thread in a "with self._lock" block is never beside a reader.
THEOREM Exclusion == Spec => []MutualExclusion
BY Invariance, PTL DEF IInv

\* _readers never drifts from the number of open read contexts.
THEOREM ReadersNeverDrift == Spec => []ReadersExact
<1>1. IInv => ReadersExact
  BY DEF IInv, CountersExact
<1> QED
  BY <1>1, Invariance, PTL

\* _waiting_writers never drifts from the number of waiting writers, whichever
\* way they leave cond.wait().
THEOREM WaitersNeverDrift == Spec => []WaitingWritersExact
<1>1. IInv => WaitingWritersExact
  BY DEF IInv, CountersExact
<1> QED
  BY <1>1, Invariance, PTL

\* No writer sleeps on a free lock, also after an exception inside cond.wait().
THEOREM WritersWake == Spec => []WriterNotStranded
BY Invariance, PTL DEF IInv

-----------------------------------------------------------------------------
(* Until a waiting writer is interrupted nobody is stranded: a reader      *)
(* sleeps on a free lock only out of deference to a writer, and that       *)
(* writer is awake.                                                        *)

SleepersDefer == ~interrupted /\ asleep # {} /\ LockFree => waitingWriters > 0

\* The notify_all calls suffice until an exception reaches a waiting writer.
THEOREM NobodyStranded == Spec => []NoLostWakeup
<1>1. Init => SleepersDefer
  BY DEF Init, SleepersDefer
<1>2. IInv /\ SleepersDefer /\ [Next]_vars => SleepersDefer'
  <2> SUFFICES ASSUME IInv, SleepersDefer, [Next]_vars
               PROVE  SleepersDefer'
    OBVIOUS
  <2> USE DEF SleepersDefer, LockFree
  <2>1. CASE UNCHANGED vars
    BY <2>1 DEF vars
  <2>2. ASSUME NEW t \in Threads, Step(t) PROVE SleepersDefer'
    <3>0. readers' \in Nat /\ waitingWriters' \in Nat /\ readers \in Nat
      BY <2>2, StepShape DEF IInv, Shape, TypeOK
    <3>t. /\ t # NoThread /\ waitingWriters \in Nat
          /\ writeDepth = 0 <=> writeOwner = NoThread
      BY LockAssumption DEF IInv, TypeOK, OwnerHasDepth
    <3>1. CASE ReenterWrite(t)
      BY <3>1 DEF ReenterWrite, readVars
    <3>2. CASE AcquireWrite(t)
      BY <3>t, <3>2 DEF AcquireWrite
    <3>3. CASE WaitToWrite(t)
      BY <3>t, <3>3 DEF WaitToWrite
    <3>4. CASE WakeWriter(t)
      BY <3>t, <3>4 DEF WakeWriter, writeVars, readVars
    <3>5. CASE ReleaseWrite(t)
      BY <3>t, <3>5 DEF ReleaseWrite, readVars
    <3>6. CASE ReadInsideWrite(t)
      BY <3>6 DEF ReadInsideWrite, readVars, writeVars
    <3>7. CASE AcquireRead(t)
      BY <3>0, <3>t, <3>7
         DEF AcquireRead, CountReader, MayRead, FallAsleep, readVars, writeVars
    <3>8. CASE WakeReader(t)
      BY <3>0, <3>t, <3>8
         DEF WakeReader, CountReader, MayRead, readVars, writeVars
    <3>9. CASE LeaveNestedRead(t)
      BY <3>9 DEF LeaveNestedRead, readVars, writeVars
    <3>10. CASE ReleaseRead(t)
      BY <3>0, <3>t, <3>10 DEF ReleaseRead, writeVars
    <3>11. CASE InterruptWriter(t)
      BY <3>11 DEF InterruptWriter
    <3>12. CASE InterruptReader(t)
      BY <3>12 DEF InterruptReader, readVars, writeVars
    <3> QED
      BY <2>2, <3>1, <3>2, <3>3, <3>4, <3>5, <3>6, <3>7, <3>8, <3>9, <3>10, <3>11, <3>12
         DEF Step
  <2> QED
    BY <2>1, <2>2 DEF Next
<1>3. IInv /\ SleepersDefer => NoLostWakeup
  <2> SUFFICES ASSUME IInv, SleepersDefer, ~interrupted, asleep # {}, LockFree
               PROVE  \E t \in Threads : pc[t] # "run" /\ t \notin asleep
    BY DEF NoLostWakeup
  <2>1. waitingWriters > 0
    BY DEF SleepersDefer
  <2>2. WritersWaiting # {}
    BY <2>1, FS_EmptySet DEF IInv, CountersExact, WaitingWritersExact
  <2>3. asleep \cap WritersWaiting = {}
    BY DEF IInv, WriterNotStranded
  <2> QED
    BY <2>2, <2>3 DEF WritersWaiting
<1> QED
  BY <1>1, <1>2, <1>3, Invariance, PTL DEF Spec

-----------------------------------------------------------------------------
(* The lock implements RWLock.                                             *)

AbsMode == [t \in Threads |-> Mode(t)]

\* A step that leaves a thread's hold on the lock alone is a stutter, any
\* other is exactly one of the three abstract steps.
LEMMA StepSimulates ==
    ASSUME IInv, IInv', NEW t \in Threads, Step(t)
    PROVE  \/ AbsMode' = AbsMode
           \/ Abs!BeginRead(t) \/ Abs!BeginWrite(t) \/ Abs!End(t)
<1> USE LockAssumption
<1>t. /\ t # NoThread
      /\ readerThreads \in [Threads -> 0..MaxDepth]
      /\ writeDepth \in 0..MaxDepth
      /\ writeDepth = 0 <=> writeOwner = NoThread
  BY DEF IInv, TypeOK, OwnerHasDepth
<1>1. CASE AcquireWrite(t) \/ (WakeWriter(t) /\ LockFree)
  <2>1. /\ writeOwner = NoThread /\ writeOwner' = t
        /\ readerThreads' = readerThreads
    BY <1>1 DEF AcquireWrite, WakeWriter, LockFree, readVars
  <2>2. \A u \in Threads : readerThreads[u] = 0
    BY <1>1, NoReadersNobodyReads DEF AcquireWrite, WakeWriter, LockFree, IInv
  <2>3. /\ \A u \in Threads : Mode(u) = "none"
        /\ \A u \in Threads : Mode(u)' = IF u = t THEN "write" ELSE "none"
    BY <1>t, <2>1, <2>2 DEF Mode
  <2>4. Abs!BeginWrite(t)
    BY <2>3, Zenon DEF Abs!BeginWrite
  <2> QED
    BY <2>4
<1>2. CASE CountReader(t) /\ MayRead(t) /\ UNCHANGED writeVars
  <2>1. writeOwner = NoThread /\ writeOwner' = NoThread
    BY <1>2 DEF MayRead, writeVars
  <2>2. \A u \in Threads : Mode(u) # "write"
    BY <1>t, <2>1 DEF Mode
  <2>3. readerThreads' = [readerThreads EXCEPT ![t] = @ + 1]
    BY <1>2 DEF CountReader
  <2>4. Mode(t)' = "read" /\ \A u \in Threads \ {t} : Mode(u)' = Mode(u)
    BY <1>t, <2>1, <2>3 DEF Mode
  <2>5. CASE readerThreads[t] = 0
    <3>1. Mode(t) = "none"
      BY <2>1, <2>5, <1>t DEF Mode
    <3>2. Abs!BeginRead(t)
      BY <2>2, <2>4, <3>1 DEF Abs!BeginRead
    <3> QED
      BY <3>2
  <2>6. CASE readerThreads[t] > 0
    BY <1>t, <2>1, <2>4, <2>6 DEF AbsMode, Mode
  <2> QED
    BY <1>t, <2>5, <2>6
<1>3. CASE ReleaseWrite(t)
  <2>1. CASE writeDepth > 1
    BY <1>3, <2>1 DEF ReleaseWrite, readVars, AbsMode, Mode
  <2>2. CASE writeDepth = 1
    <3>1. writeOwner = t /\ writeOwner' = NoThread /\ readerThreads' = readerThreads
      BY <1>3, <2>2 DEF ReleaseWrite, readVars
    <3>2. \A u \in Threads : readerThreads[u] = 0
      BY <1>t, <3>1 DEF IInv, MutualExclusion
    <3>3. /\ \A u \in Threads : Mode(u)' = "none"
          /\ \A u \in Threads : Mode(u) = IF u = t THEN "write" ELSE "none"
      BY <1>t, <3>1, <3>2 DEF Mode
    <3>4. Abs!End(t)
      BY <3>3 DEF Abs!End
    <3> QED
      BY <3>4
  <2> QED
    BY <1>t, <1>3, <2>1, <2>2 DEF ReleaseWrite
<1>4. CASE ReleaseRead(t)
  <2>1. writeOwner' = writeOwner /\ writeOwner # t /\ readerThreads[t] > 0
    BY <1>4 DEF ReleaseRead, writeVars
  <2>2. readerThreads' = [readerThreads EXCEPT ![t] = @ - 1]
    BY <1>4 DEF ReleaseRead
  <2>3. \A u \in Threads \ {t} : Mode(u)' = Mode(u)
    BY <1>t, <2>1, <2>2 DEF Mode
  <2>4. CASE readerThreads[t] = 1
    <3>1. Mode(t) = "read" /\ Mode(t)' = "none"
      BY <1>t, <2>1, <2>2, <2>4 DEF Mode
    <3>2. Abs!End(t)
      BY <2>3, <3>1 DEF Abs!End
    <3> QED
      BY <3>2
  <2>5. CASE readerThreads[t] > 1
    BY <1>t, <2>1, <2>2, <2>3, <2>5 DEF AbsMode, Mode
  <2> QED
    BY <1>t, <2>1, <2>4, <2>5
<1>5. CASE UNCHANGED <<writeOwner, readerThreads>>
  BY <1>5 DEF AbsMode, Mode
<1> QED
  BY <1>1, <1>2, <1>3, <1>4, <1>5
     DEF Step, ReenterWrite, WaitToWrite, WakeWriter, InterruptWriter,
         ReadInsideWrite, AcquireRead, WakeReader, InterruptReader,
         LeaveNestedRead, FallAsleep, readVars, writeVars

\* Every behaviour of the lock is, seen by its callers, one of RWLock.
THEOREM Refinement == Spec => ImplementsRWLock
<1>1. Init => Abs!Init
  BY LockAssumption DEF Init, Abs!Init, Mode
<1>2. IInv /\ IInv' /\ [Next]_vars => [Abs!Next]_AbsMode
  <2> SUFFICES ASSUME IInv, IInv', [Next]_vars PROVE [Abs!Next]_AbsMode
    OBVIOUS
  <2>1. CASE UNCHANGED vars
    BY <2>1 DEF vars, AbsMode, Mode
  <2>2. CASE Next
    BY <2>2, StepSimulates DEF Next, Abs!Next
  <2> QED
    BY <2>1, <2>2
<1>3. IInv /\ [Next]_vars => [Abs!Next]_AbsMode
  BY <1>2, NextIInv
<1> QED
  BY <1>1, <1>3, Invariance, PTL DEF Spec, Abs!Spec, ImplementsRWLock, AbsMode

\* _readers and _waiting_writers count exactly, and writing excludes reading.
THEOREM CountersNeverDrift == Spec => []CountersSound
<1>1. IInv => CountersSound
  BY DEF IInv, CountersExact, CountersSound
<1> QED
  BY <1>1, Invariance, PTL

=============================================================================
