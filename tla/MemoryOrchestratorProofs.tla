----------------------- MODULE MemoryOrchestratorProofs -----------------------
(***************************************************************************)
(* Safety of AsyncMemoryOrchestrator for any turns, workers, controllers   *)
(* and flushes, and any size of queue and cache: the unfinished counter is *)
(* exact, an immediate retry is refused, and the interval guard measures   *)
(* from stored turns.                                                      *)
(***************************************************************************)
EXTENDS MemoryOrchestrator, FiniteSetTheorems, TLAPS

-----------------------------------------------------------------------------
(* The elements of a sequence.                                             *)

LEMMA AppendType ==
    ASSUME NEW S, NEW s \in Seq(S), NEW x \in S
    PROVE  /\ Append(s, x) \in Seq(S)
           /\ Len(Append(s, x)) = Len(s) + 1 /\ Len(s) \in Nat
OBVIOUS

LEMMA ElemsAppend ==
    ASSUME NEW S, NEW s \in Seq(S), NEW x
    PROVE  Elems(Append(s, x)) = Elems(s) \cup {x}
<1>1. /\ Len(s) \in Nat /\ DOMAIN s = 1..Len(s)
      /\ DOMAIN Append(s, x) = 1..(Len(s) + 1)
      /\ \A i \in 1..Len(s) : Append(s, x)[i] = s[i]
      /\ Append(s, x)[Len(s) + 1] = x
  OBVIOUS
<1> QED
  BY <1>1 DEF Elems

LEMMA ElemsTail ==
    ASSUME NEW S, NEW s \in Seq(S), s # <<>>
    PROVE  /\ Tail(s) \in Seq(S) /\ Len(s) > 0 /\ Len(Tail(s)) = Len(s) - 1
           /\ Head(s) \in Elems(s) /\ Elems(Tail(s)) \subseteq Elems(s)
<1>1. /\ Len(s) \in Nat /\ Len(s) > 0 /\ DOMAIN s = 1..Len(s)
      /\ Tail(s) \in Seq(S) /\ Head(s) = s[1]
      /\ Len(Tail(s)) = Len(s) - 1
      /\ DOMAIN Tail(s) = 1..(Len(s) - 1)
      /\ \A i \in 1..(Len(s) - 1) : Tail(s)[i] = s[i + 1]
  OBVIOUS
<1> QED
  BY <1>1 DEF Elems

\* move_to_end permutes the cache.
LEMMA MoveToEndKeeps ==
    ASSUME known \in Seq(Keys), NEW i \in 1..Len(known)
    PROVE  /\ MoveToEnd(i) \in Seq(Keys)
           /\ Len(MoveToEnd(i)) = Len(known)
           /\ Elems(known) \subseteq Elems(MoveToEnd(i))
<1> DEFINE m == MoveToEnd(i)
<1>1. Len(known) \in Nat /\ DOMAIN known = 1..Len(known)
  OBVIOUS
<1>2. m = [j \in 1..Len(known) |->
             IF j < i THEN known[j] ELSE IF j < Len(known) THEN known[j + 1] ELSE known[i]]
  BY DEF MoveToEnd
<1>3. \A j \in 1..Len(known) : m[j] \in Keys
  BY <1>1, <1>2
<1>4. m \in Seq(Keys) /\ Len(m) = Len(known) /\ DOMAIN m = 1..Len(known)
  BY <1>1, <1>2, <1>3
<1>5. ASSUME NEW j \in 1..Len(known) PROVE known[j] \in Elems(m)
  <2>1. CASE j < i
    BY <2>1, <1>2, <1>4 DEF Elems
  <2>2. CASE j = i
    <3>1. Len(known) \in 1..Len(known) /\ m[Len(known)] = known[i]
      BY <1>1, <1>2
    <3> QED
      BY <3>1, <2>2, <1>4 DEF Elems
  <2>3. CASE j > i
    <3>1. j - 1 \in 1..Len(known) /\ m[j - 1] = known[j]
      BY <2>3, <1>1, <1>2
    <3> QED
      BY <3>1, <1>4 DEF Elems
  <2> QED
    BY <2>1, <2>2, <2>3, <1>1
<1>6. Elems(known) \subseteq Elems(m)
  BY <1>5, <1>1 DEF Elems
<1> QED
  BY <1>4, <1>6

-----------------------------------------------------------------------------
(* The strengthening.                                                      *)

\* The key admitted last is still in the cache, however small it is.
LastIsKnown ==
    Len(tasks) > 0 => Key[tasks[Len(tasks)]] \in Elems(known)

\* A call that stored its turn, or came back, has it in the transcript.
StoredIsThere ==
    \A n \in Tasks : call[n] \in {"stored", "returned"} => n \in Elems(transcript)

\* Only admitted tasks reach a thread.
CalledIsAdmitted == \A n \in Tasks : call[n] # "none" => n \in 1..Len(tasks)

IInv ==
    /\ TypeOK
    /\ UnfinishedExact
    /\ CalledIsAdmitted
    /\ LastIsKnown
    /\ RetryNotAdmittedTwice
    /\ StoredIsThere
    /\ MarkedMeansStored

LEMMA InitIInv == Init => IInv
<1> SUFFICES ASSUME Init PROVE IInv
  OBVIOUS
<1> USE OrchestratorAssumption DEF Init
<1>1. Elems(<<>>) = {} /\ Len(<<>>) = 0
  BY DEF Elems
<1>2. TypeOK
  BY <1>1 DEF TypeOK
<1>3. Observing = {}
  BY DEF Observing
<1>4. UnfinishedExact
  BY <1>1, <1>3, FS_EmptySet DEF UnfinishedExact
<1>7. CalledIsAdmitted
  BY DEF CalledIsAdmitted
<1>5. LastIsKnown /\ RetryNotAdmittedTwice
  BY <1>1 DEF LastIsKnown, RetryNotAdmittedTwice
<1>6. StoredIsThere /\ MarkedMeansStored
  BY DEF StoredIsThere, MarkedMeansStored
<1> QED
  BY <1>2, <1>4, <1>5, <1>6, <1>7 DEF IInv

-----------------------------------------------------------------------------
(* The parts of a step that several actions share.                         *)

LEMMA ObservingFinite ==
    ASSUME NEW S, S \subseteq Workers
    PROVE  IsFiniteSet(S) /\ Cardinality(S) \in Nat
BY OrchestratorAssumption, FS_Subset, FS_CardinalityType

\* A worker at work has something counted.
LEMMA ObservingCounts ==
    ASSUME TypeOK, UnfinishedExact, NEW w \in Workers, worker[w] = "observing"
    PROVE  unfinished > 0
<1>1. w \in Observing /\ Observing \subseteq Workers
  BY DEF Observing
<1>2. Cardinality(Observing) \in Nat /\ Cardinality(Observing) # 0
  BY <1>1, ObservingFinite, FS_EmptySet
<1> QED
  BY <1>2 DEF UnfinishedExact, TypeOK

\* The head of the loop moves one task from the queue to the worker, or none.
LEMMA NextJobStep ==
    ASSUME TypeOK, NEW w \in Workers, NextJob(w)
    PROVE  /\ queue' \in Seq(Nat) /\ Len(queue') <= QueueMax
           /\ Elems(queue') \subseteq 1..Len(tasks)
           /\ worker' \in [Workers -> {"new", "waiting", "observing", "done"}]
           /\ job' \in [Workers -> Nat \cup {None}]
           /\ \A v \in Workers : worker'[v] = "observing" => job'[v] \in 1..Len(tasks)
           /\ call' \in [Tasks -> {"none", "running", "stored", "returned", "raised", "dropped"}]
           /\ \A n \in Tasks : call'[n] \in {"stored", "returned"} => call'[n] = call[n]
           /\ \A n \in Tasks : call'[n] # "none" => call[n] # "none" \/ n \in 1..Len(tasks)
           /\ Len(queue') + Cardinality(Observing') = Len(queue) + Cardinality(Observing \ {w})
<1>1. /\ IsFiniteSet(Observing \ {w}) /\ Cardinality(Observing \ {w}) \in Nat
      /\ Observing \ {w} \subseteq Workers
  BY ObservingFinite DEF Observing
<1>2. CASE queue = <<>>
  <2>1. /\ worker' = [worker EXCEPT ![w] = "waiting"]
        /\ job' = [job EXCEPT ![w] = None] /\ queue' = queue /\ call' = call
    BY <1>2 DEF NextJob
  <2>2. Observing' = Observing \ {w}
    BY <2>1 DEF Observing, TypeOK
  <2> QED
    BY <2>1, <2>2 DEF TypeOK
<1>3. CASE queue # <<>>
  <2>1. /\ worker' = [worker EXCEPT ![w] = "observing"]
        /\ job' = [job EXCEPT ![w] = Head(queue)]
        /\ call' = [call EXCEPT ![Head(queue)] = "running"]
        /\ queue' = Tail(queue)
    BY <1>3 DEF NextJob
  <2>2. /\ queue' \in Seq(Nat) /\ Len(queue) > 0 /\ Len(queue') = Len(queue) - 1
        /\ Head(queue) \in Elems(queue) /\ Elems(queue') \subseteq Elems(queue)
    BY <2>1, <1>3, ElemsTail DEF TypeOK
  <2>3. Head(queue) \in 1..Len(tasks) /\ Head(queue) \in Nat
    BY <2>2 DEF TypeOK
  <2>4. Observing' = (Observing \ {w}) \cup {w}
    BY <2>1 DEF Observing, TypeOK
  <2>5. Cardinality(Observing') = Cardinality(Observing \ {w}) + 1
    BY <2>4, <1>1, FS_AddElement
  <2>6. Len(queue) \in Nat /\ Len(queue) <= QueueMax /\ QueueMax \in Nat
    BY OrchestratorAssumption DEF TypeOK
  <2>7. Len(queue') <= QueueMax /\ Len(queue') + Cardinality(Observing')
          = Len(queue) + Cardinality(Observing \ {w})
    BY <2>2, <2>5, <2>6, <1>1
  <2>8. /\ worker' \in [Workers -> {"new", "waiting", "observing", "done"}]
        /\ job' \in [Workers -> Nat \cup {None}]
        /\ call' \in [Tasks -> {"none", "running", "stored", "returned", "raised", "dropped"}]
    BY <2>1, <2>3 DEF TypeOK
  <2>9. \A v \in Workers : worker'[v] = "observing" => job'[v] \in 1..Len(tasks)
    BY <2>1, <2>3 DEF TypeOK
  <2>10. \A n \in Tasks : call'[n] \in {"stored", "returned"} => call'[n] = call[n]
    BY <2>1 DEF TypeOK
  <2>12. \A n \in Tasks : call'[n] # "none" => call[n] # "none" \/ n \in 1..Len(tasks)
    BY <2>1, <2>3 DEF TypeOK
  <2>11. Elems(queue') \subseteq 1..Len(tasks)
    BY <2>2 DEF TypeOK
  <2> QED
    BY <2>2, <2>7, <2>8, <2>9, <2>10, <2>11, <2>12
<1> QED
  BY <1>2, <1>3

\* task_done() for a worker at work.
LEMMA TaskDoneStep ==
    ASSUME TypeOK, UnfinishedExact, NEW w \in Workers, worker[w] = "observing", TaskDone
    PROVE  /\ unfinished' \in Nat
           /\ unfinished' = Len(queue) + Cardinality(Observing \ {w})
           /\ flush' \in [Flushers -> {"idle", "joining", "released"}]
<1>1. unfinished > 0
  BY ObservingCounts
<1>2. w \in Observing /\ Observing \subseteq Workers
  BY DEF Observing
<1>3. /\ Cardinality(Observing) \in Nat
      /\ Cardinality(Observing \ {w}) = Cardinality(Observing) - 1
  BY <1>2, ObservingFinite, FS_RemoveElement
<1>4. unfinished' = unfinished - 1
  BY DEF TaskDone
<1>5. flush' \in [Flushers -> {"idle", "joining", "released"}]
  BY DEF TaskDone, TypeOK
<1> QED
  BY <1>1, <1>3, <1>4, <1>5 DEF TypeOK, UnfinishedExact

\* A step that admits nothing keeps what is said of the admissions.
LEMMA AdmissionKept ==
    ASSUME LastIsKnown, RetryNotAdmittedTwice, UNCHANGED admission
    PROVE  LastIsKnown' /\ RetryNotAdmittedTwice'
BY DEF LastIsKnown, RetryNotAdmittedTwice, admission, Elems

\* A step that neither stores nor marks keeps what is said of the transcript.
LEMMA TranscriptKept ==
    ASSUME StoredIsThere, MarkedMeansStored, UNCHANGED <<tasks, transcript, lastIngest>>,
           \A n \in Tasks : call'[n] \in {"stored", "returned"} => call'[n] = call[n]
    PROVE  StoredIsThere' /\ MarkedMeansStored'
BY DEF StoredIsThere, MarkedMeansStored, Elems

-----------------------------------------------------------------------------
(* Every step keeps the strengthening.                                     *)

LEMMA EnqueueStep ==
    ASSUME IInv, NEW t \in Turns, Enqueue(t) PROVE IInv'
<1> USE OrchestratorAssumption
<1>1. /\ tasks' = Append(tasks, t) /\ queue' = Append(queue, Len(tasks) + 1)
      /\ Len(tasks') = Len(tasks) + 1 /\ Len(queue') = Len(queue) + 1
      /\ tasks' \in Seq(Turns) /\ queue' \in Seq(Nat)
      /\ Len(tasks) \in Nat /\ Len(queue) \in Nat
      /\ \A i \in 1..Len(tasks) : tasks'[i] = tasks[i]
      /\ tasks'[Len(tasks) + 1] = t
      /\ Len(tasks') <= MaxTasks /\ Len(queue') <= QueueMax
  BY DEF Enqueue, IInv, TypeOK
<1>2. Elems(queue') \subseteq 1..Len(tasks')
  <2>1. Elems(queue') = Elems(queue) \cup {Len(tasks) + 1}
    BY <1>1, ElemsAppend DEF IInv, TypeOK
  <2> QED
    BY <2>1, <1>1 DEF IInv, TypeOK
<1>3. known' \in Seq(Keys) /\ Len(known') <= KnownMax /\ Key[t] \in Elems(known')
  <2>1. Key[t] \in Keys /\ known \in Seq(Keys) /\ known' = Remember(Key[t])
    BY DEF Keys, Enqueue, IInv, TypeOK
  <2>2. CASE Len(known) < KnownMax
    <3>1. known' = Append(known, Key[t])
      BY <2>1, <2>2 DEF Remember
    <3>4. /\ Append(known, Key[t]) \in Seq(Keys)
          /\ Len(Append(known, Key[t])) = Len(known) + 1 /\ Len(known) \in Nat
      BY <2>1, AppendType, Zenon
    <3>2. known' \in Seq(Keys) /\ Len(known') = Len(known) + 1 /\ Len(known) \in Nat
      BY <3>1, <3>4, Zenon
    <3>3. Elems(known') = Elems(known) \cup {Key[t]}
      BY <3>1, <2>1, ElemsAppend
    <3> QED
      BY <3>2, <3>3, <2>2
  <2>3. CASE ~(Len(known) < KnownMax)
    <3>1. known' = Append(Tail(known), Key[t])
      BY <2>1, <2>3 DEF Remember
    <3>2. Len(known) <= KnownMax /\ known # <<>>
      BY <2>1, <2>3 DEF IInv, TypeOK
    <3>3. Tail(known) \in Seq(Keys) /\ Len(Tail(known)) = Len(known) - 1
      BY <2>1, <3>2, ElemsTail
    <3>4. known' \in Seq(Keys) /\ Len(known') = Len(Tail(known)) + 1 /\ Len(known) \in Nat
      BY <3>1, <3>3, <2>1, AppendType
    <3>5. Elems(known') = Elems(Tail(known)) \cup {Key[t]}
      BY <3>1, <3>3, ElemsAppend
    <3> QED
      BY <3>2, <3>3, <3>4, <3>5
  <2> QED
    BY <2>2, <2>3
<1>4. UNCHANGED <<lastIngest, workerTask, stopping, worker, job, cancelled, flush,
                  covers, call, transcript>>
  BY DEF Enqueue, control, storing
<1>5. TypeOK'
  <2>1. unfinished' \in Nat
    BY DEF Enqueue, IInv, TypeOK
  <2>2. \A w \in Workers : worker'[w] = "observing" => job'[w] \in 1..Len(tasks')
    BY <1>1, <1>4 DEF IInv, TypeOK
  <2>3. transcript' \in Seq(Nat) /\ Elems(transcript') \subseteq 1..Len(tasks')
    <3>1. Elems(transcript) \subseteq 1..Len(tasks) /\ transcript \in Seq(Nat)
      BY DEF IInv, TypeOK
    <3>2. 1..Len(tasks) \subseteq 1..Len(tasks')
      BY <1>1
    <3> QED
      BY <3>1, <3>2, <1>4
  <2> QED
    BY <1>1, <1>2, <1>3, <1>4, <2>1, <2>2, <2>3 DEF IInv, TypeOK, Elems
<1>6. UnfinishedExact'
  <2>1. Observing' = Observing
    BY <1>4 DEF Observing
  <2>2. Cardinality(Observing) \in Nat
    BY ObservingFinite DEF Observing
  <2>3. unfinished' = unfinished + 1 /\ unfinished = Len(queue) + Cardinality(Observing)
    BY DEF Enqueue, IInv, UnfinishedExact
  <2> QED
    BY <1>1, <2>1, <2>2, <2>3 DEF UnfinishedExact
<1>7. LastIsKnown'
  BY <1>1, <1>3 DEF LastIsKnown, Elems
<1>8. RetryNotAdmittedTwice'
  <2> SUFFICES ASSUME NEW i \in 1..Len(tasks'), NEW j \in 1..Len(tasks'), i < j,
                      Key[tasks'[i]] = Key[tasks'[j]]
               PROVE  \E m \in i + 1..j - 1 : Key[tasks'[m]] # Key[tasks'[i]]
    BY DEF RetryNotAdmittedTwice
  <2>1. CASE j \in 1..Len(tasks)
    <3>1. i \in 1..Len(tasks) /\ Key[tasks[i]] = Key[tasks[j]]
      BY <2>1, <1>1
    <3>2. PICK m \in i + 1..j - 1 : Key[tasks[m]] # Key[tasks[i]]
      BY <2>1, <3>1 DEF IInv, RetryNotAdmittedTwice
    <3>3. m \in 1..Len(tasks)
      BY <2>1, <3>1, <1>1
    <3>4. tasks'[m] = tasks[m] /\ tasks'[i] = tasks[i]
      BY <3>1, <3>3, <1>1
    <3> QED
      BY <3>2, <3>4
  <2>2. CASE j = Len(tasks) + 1
    <3>1. Len(tasks) > 0 /\ Len(tasks) \in 1..Len(tasks) /\ i \in 1..Len(tasks)
      BY <2>2, <1>1
    <3>2. Key[tasks[Len(tasks)]] # Key[t]
      BY <3>1 DEF Enqueue, IInv, LastIsKnown
    <3>3. Key[tasks[i]] = Key[t]
      BY <2>2, <3>1, <1>1
    <3>4. i < Len(tasks)
      BY <3>1, <3>2, <3>3, <1>1
    <3>5. Len(tasks) \in i + 1..j - 1
      BY <2>2, <3>1, <3>4, <1>1
    <3>6. tasks'[Len(tasks)] = tasks[Len(tasks)] /\ tasks'[i] = tasks[i]
      BY <3>1, <1>1
    <3> QED
      BY <3>2, <3>3, <3>5, <3>6
  <2>3. j \in 1..Len(tasks) \/ j = Len(tasks) + 1
    <3> DEFINE a == Len(tasks)
               b == Len(tasks')
    <3>1. a \in Nat /\ b = a + 1 /\ j \in 1..b
      BY <1>1
    <3> HIDE DEF a, b
    <3>2. j \in 1..a \/ j = a + 1
      BY <3>1
    <3> QED
      BY <3>2 DEF a
  <2> QED
    BY <2>1, <2>2, <2>3, Zenon
<1>9. StoredIsThere' /\ MarkedMeansStored'
  <2>1. StoredIsThere'
    BY <1>4 DEF IInv, StoredIsThere, Elems
  <2>2. \A n \in Elems(transcript) : tasks'[n] = tasks[n]
    BY <1>1 DEF IInv, TypeOK
  <2>3. MarkedMeansStored'
    BY <1>4, <2>2 DEF IInv, MarkedMeansStored, Elems
  <2> QED
    BY <2>1, <2>3
<1>10. CalledIsAdmitted'
  <2>1. 1..Len(tasks) \subseteq 1..Len(tasks')
    BY <1>1
  <2> QED
    BY <2>1, <1>4 DEF IInv, CalledIsAdmitted
<1> QED
  BY <1>5, <1>6, <1>7, <1>8, <1>9, <1>10 DEF IInv

LEMMA DuplicateStep ==
    ASSUME IInv, NEW t \in Turns, Duplicate(t) PROVE IInv'
<1>1. PICK i \in 1..Len(known) : known' = MoveToEnd(i)
  BY DEF Duplicate
<1>2. /\ known' \in Seq(Keys) /\ Len(known') <= KnownMax
      /\ Elems(known) \subseteq Elems(known')
  BY <1>1, MoveToEndKeeps DEF IInv, TypeOK
<1>3. UNCHANGED <<tasks, queue, unfinished, lastIngest, workerTask, stopping, worker,
                  job, cancelled, flush, covers, call, transcript>>
  BY DEF Duplicate, control, storing
<1>4. TypeOK'
  BY <1>2, <1>3 DEF IInv, TypeOK, Elems
<1>5. UnfinishedExact'
  BY <1>3 DEF IInv, UnfinishedExact, Observing
<1>6. LastIsKnown'
  BY <1>2, <1>3 DEF IInv, LastIsKnown, Elems
<1>7. RetryNotAdmittedTwice' /\ CalledIsAdmitted'
  BY <1>3 DEF IInv, RetryNotAdmittedTwice, CalledIsAdmitted
<1>8. StoredIsThere' /\ MarkedMeansStored'
  BY <1>3 DEF IInv, StoredIsThere, MarkedMeansStored, Elems
<1> QED
  BY <1>4, <1>5, <1>6, <1>7, <1>8 DEF IInv

LEMMA TakeStep ==
    ASSUME IInv, NEW w \in Workers, Take(w) PROVE IInv'
<1>1. TypeOK /\ NextJob(w) /\ w \notin Observing
  BY DEF IInv, Take, Observing
<1>2. UNCHANGED <<tasks, known, unfinished, lastIngest, workerTask, stopping, cancelled,
                  flush, covers, transcript>>
  BY DEF Take, admission, control
<1>3. TypeOK'
  <2>1. /\ queue' \in Seq(Nat) /\ Len(queue') <= QueueMax
        /\ Elems(queue') \subseteq 1..Len(tasks)
        /\ worker' \in [Workers -> {"new", "waiting", "observing", "done"}]
        /\ job' \in [Workers -> Nat \cup {None}]
        /\ \A v \in Workers : worker'[v] = "observing" => job'[v] \in 1..Len(tasks)
        /\ call' \in [Tasks -> {"none", "running", "stored", "returned", "raised", "dropped"}]
    BY <1>1, NextJobStep
  <2> QED
    BY <2>1, <1>1, <1>2 DEF TypeOK, Elems
<1>4. UnfinishedExact'
  <2>1. Observing \ {w} = Observing
    BY <1>1
  <2>2. Len(queue') + Cardinality(Observing') = Len(queue) + Cardinality(Observing \ {w})
    BY <1>1, NextJobStep
  <2> QED
    BY <2>1, <2>2, <1>2 DEF IInv, UnfinishedExact
<1>5. LastIsKnown' /\ RetryNotAdmittedTwice'
  BY <1>2, AdmissionKept DEF IInv, admission
<1>6. StoredIsThere' /\ MarkedMeansStored'
  <2>1. \A n \in Tasks : call'[n] \in {"stored", "returned"} => call'[n] = call[n]
    BY <1>1, NextJobStep
  <2> QED
    BY <2>1, <1>2, TranscriptKept DEF IInv
<1>7. CalledIsAdmitted'
  <2>1. \A n \in Tasks : call'[n] # "none" => call[n] # "none" \/ n \in 1..Len(tasks)
    BY <1>1, NextJobStep
  <2> QED
    BY <2>1, <1>2 DEF IInv, CalledIsAdmitted
<1> QED
  BY <1>3, <1>4, <1>5, <1>6, <1>7 DEF IInv

LEMMA ResumeStep ==
    ASSUME IInv, NEW w \in Workers, Resume(w) PROVE IInv'
<1>1. /\ TypeOK /\ UnfinishedExact /\ NextJob(w) /\ TaskDone
      /\ worker[w] = "observing" /\ job[w] \in 1..Len(tasks) /\ job[w] \in Tasks
      /\ tasks[job[w]] \in Turns
  BY OrchestratorAssumption DEF IInv, TypeOK, Resume, Tasks
<1>2. UNCHANGED <<tasks, known, workerTask, stopping, cancelled, covers, transcript>>
  BY DEF Resume, admission, control
<1> DEFINE t == tasks[job[w]]
<1>3. lastIngest' = IF call[job[w]] = "returned"
                      THEN [lastIngest EXCEPT ![Scope[t]] = At[t]] ELSE lastIngest
  BY DEF Resume
<1>4. Scope[t] \in Scopes /\ At[t] \in Nat
  BY <1>1, OrchestratorAssumption
<1>5. lastIngest' \in [Scopes -> Nat \cup {None}]
  BY <1>3, <1>4, <1>1 DEF TypeOK
<1>6. TypeOK'
  <2>1. /\ queue' \in Seq(Nat) /\ Len(queue') <= QueueMax
        /\ Elems(queue') \subseteq 1..Len(tasks)
        /\ worker' \in [Workers -> {"new", "waiting", "observing", "done"}]
        /\ job' \in [Workers -> Nat \cup {None}]
        /\ \A v \in Workers : worker'[v] = "observing" => job'[v] \in 1..Len(tasks)
        /\ call' \in [Tasks -> {"none", "running", "stored", "returned", "raised", "dropped"}]
    BY <1>1, NextJobStep
  <2>2. unfinished' \in Nat /\ flush' \in [Flushers -> {"idle", "joining", "released"}]
    BY <1>1, TaskDoneStep
  <2> QED
    BY <2>1, <2>2, <1>1, <1>2, <1>5 DEF TypeOK, Elems
<1>7. UnfinishedExact'
  <2>1. unfinished' = Len(queue) + Cardinality(Observing \ {w})
    BY <1>1, TaskDoneStep
  <2>2. Len(queue') + Cardinality(Observing') = Len(queue) + Cardinality(Observing \ {w})
    BY <1>1, NextJobStep
  <2> QED
    BY <2>1, <2>2 DEF UnfinishedExact
<1>8. LastIsKnown' /\ RetryNotAdmittedTwice'
  BY <1>2, AdmissionKept DEF IInv, admission
<1>9. \A n \in Tasks : call'[n] \in {"stored", "returned"} => call'[n] = call[n]
  BY <1>1, NextJobStep
<1>10. StoredIsThere'
  BY <1>2, <1>9 DEF IInv, StoredIsThere, Elems
<1>11. MarkedMeansStored'
  <2> SUFFICES ASSUME NEW s \in Scopes, lastIngest'[s] # None
               PROVE  \E n \in Elems(transcript) :
                         Scope[tasks[n]] = s /\ At[tasks[n]] = lastIngest'[s]
    BY <1>2 DEF MarkedMeansStored, Elems
  <2>1. CASE lastIngest'[s] = lastIngest[s]
    BY <2>1 DEF IInv, MarkedMeansStored
  <2>2. CASE lastIngest'[s] # lastIngest[s]
    <3>1. call[job[w]] = "returned" /\ s = Scope[t] /\ lastIngest'[s] = At[t]
      BY <2>2, <1>3, <1>4, <1>1 DEF TypeOK
    <3>2. job[w] \in Elems(transcript)
      BY <3>1, <1>1 DEF IInv, StoredIsThere
    <3> QED
      BY <3>1, <3>2
  <2> QED
    BY <2>1, <2>2
<1>12. CalledIsAdmitted'
  <2>1. \A n \in Tasks : call'[n] # "none" => call[n] # "none" \/ n \in 1..Len(tasks)
    BY <1>1, NextJobStep
  <2> QED
    BY <2>1, <1>2 DEF IInv, CalledIsAdmitted
<1> QED
  BY <1>6, <1>7, <1>8, <1>10, <1>11, <1>12 DEF IInv

LEMMA CancelledStep ==
    ASSUME IInv, NEW w \in Workers, Cancelled(w) PROVE IInv'
<1>1. /\ TypeOK /\ UnfinishedExact
      /\ worker' = [worker EXCEPT ![w] = "done"] /\ job' = [job EXCEPT ![w] = None]
      /\ cancelled' = cancelled \ {w}
  BY DEF IInv, Cancelled
<1>2. UNCHANGED <<tasks, known, queue, lastIngest, workerTask, stopping, covers, transcript>>
  BY DEF Cancelled, admission, control
<1>3. Observing' = Observing \ {w}
  BY <1>1 DEF Observing, TypeOK
<1>4. /\ unfinished' \in Nat
      /\ unfinished' = Len(queue) + Cardinality(Observing')
      /\ flush' \in [Flushers -> {"idle", "joining", "released"}]
  <2>1. CASE worker[w] = "observing"
    <3>1. TaskDone
      BY <2>1 DEF Cancelled
    <3> QED
      BY <3>1, <2>1, <1>1, <1>3, TaskDoneStep
  <2>2. CASE worker[w] # "observing"
    <3>1. unfinished' = unfinished /\ flush' = flush
      BY <2>2 DEF Cancelled
    <3>2. Observing' = Observing
      BY <2>2, <1>3 DEF Observing
    <3> QED
      BY <3>1, <3>2, <1>1 DEF TypeOK, UnfinishedExact
  <2> QED
    BY <2>1, <2>2
<1>5. /\ call' \in [Tasks -> {"none", "running", "stored", "returned", "raised", "dropped"}]
      /\ \A n \in Tasks : call'[n] \in {"stored", "returned"} => call'[n] = call[n]
  <2>1. call' = call \/ call' = [call EXCEPT ![job[w]] = "dropped"]
    BY DEF Cancelled
  <2> QED
    BY <2>1, <1>1 DEF TypeOK
<1>6. TypeOK'
  <2>1. /\ worker' \in [Workers -> {"new", "waiting", "observing", "done"}]
        /\ job' \in [Workers -> Nat \cup {None}]
        /\ cancelled' \in SUBSET Workers
    BY <1>1 DEF TypeOK
  <2>2. \A v \in Workers : worker'[v] = "observing" => job'[v] \in 1..Len(tasks')
    BY <1>1, <1>2 DEF TypeOK
  <2> QED
    BY <2>1, <2>2, <1>1, <1>2, <1>4, <1>5 DEF TypeOK, Elems
<1>7. UnfinishedExact'
  BY <1>4, <1>2 DEF UnfinishedExact
<1>8. LastIsKnown' /\ RetryNotAdmittedTwice'
  BY <1>2, AdmissionKept DEF IInv, admission
<1>9. StoredIsThere' /\ MarkedMeansStored'
  BY <1>2, <1>5, TranscriptKept DEF IInv
<1>10. CalledIsAdmitted'
  <2>1. call' = call \/ (call' = [call EXCEPT ![job[w]] = "dropped"] /\ call[job[w]] = "running")
    BY DEF Cancelled
  <2> QED
    BY <2>1, <1>1, <1>2 DEF IInv, TypeOK, CalledIsAdmitted
<1> QED
  BY <1>6, <1>7, <1>8, <1>9, <1>10 DEF IInv

\* start(), stop() and flush() touch the workers' control and nothing they count.
LEMMA ControlStep ==
    ASSUME IInv,
           \/ \E c \in Controllers : Start(c) \/ Stop(c) \/ StopReturns(c)
           \/ \E f \in Flushers : Flush(f) \/ FlushReturns(f)
    PROVE  IInv'
<1> USE OrchestratorAssumption
<1>1. UNCHANGED <<tasks, known, queue, unfinished, lastIngest, job, call, transcript>>
  BY DEF Start, Stop, StopReturns, Flush, FlushReturns, admission, control, storing
<1>2. /\ worker' \in [Workers -> {"new", "waiting", "observing", "done"}]
      /\ \A w \in Workers : worker'[w] = "observing" <=> worker[w] = "observing"
  BY DEF IInv, TypeOK, Start, Stop, StopReturns, Flush, FlushReturns, control
<1>3. /\ workerTask' \in Workers \cup {None}
      /\ cancelled' \in SUBSET Workers
      /\ stopping' \in [Controllers -> Workers \cup {None}]
  <2>1. CASE \E c \in Controllers : Start(c)
    BY <2>1 DEF IInv, TypeOK, Start
  <2>2. CASE \E c \in Controllers : Stop(c)
    BY <2>2 DEF IInv, TypeOK, Stop
  <2>3. CASE \E c \in Controllers : StopReturns(c)
    BY <2>3 DEF IInv, TypeOK, StopReturns
  <2>4. CASE \E f \in Flushers : Flush(f) \/ FlushReturns(f)
    BY <2>4 DEF IInv, TypeOK, Flush, FlushReturns, control
  <2> QED
    BY <2>1, <2>2, <2>3, <2>4
<1>4. /\ flush' \in [Flushers -> {"idle", "joining", "released"}]
      /\ covers' \in [Flushers -> Nat]
  <2>1. CASE \E c \in Controllers : Start(c) \/ Stop(c) \/ StopReturns(c)
    BY <2>1 DEF IInv, TypeOK, Start, Stop, StopReturns
  <2>2. CASE \E f \in Flushers : Flush(f) \/ FlushReturns(f)
    <3>1. /\ Len(tasks) \in Nat
          /\ flush \in [Flushers -> {"idle", "joining", "released"}]
          /\ covers \in [Flushers -> Nat]
      BY DEF IInv, TypeOK
    <3>2. PICK f \in Flushers : Flush(f) \/ FlushReturns(f)
      BY <2>2
    <3>3. CASE Flush(f)
      BY <3>1, <3>3 DEF Flush
    <3>4. CASE FlushReturns(f)
      BY <3>1, <3>4 DEF FlushReturns
    <3> QED
      BY <3>2, <3>3, <3>4
  <2> QED
    BY <2>1, <2>2
<1>5. TypeOK'
  BY <1>1, <1>2, <1>3, <1>4 DEF IInv, TypeOK, Elems
<1>6. UnfinishedExact'
  <2>1. Observing' = Observing
    BY <1>2 DEF Observing
  <2> QED
    BY <2>1, <1>1 DEF IInv, UnfinishedExact
<1>7. LastIsKnown' /\ RetryNotAdmittedTwice'
  BY <1>1, AdmissionKept DEF IInv, admission
<1>8. StoredIsThere' /\ MarkedMeansStored'
  BY <1>1, TranscriptKept DEF IInv
<1>9. CalledIsAdmitted'
  BY <1>1 DEF IInv, CalledIsAdmitted
<1> QED
  BY <1>5, <1>6, <1>7, <1>8, <1>9 DEF IInv

LEMMA ThreadStepKeeps ==
    ASSUME IInv, NEW n \in Tasks, ThreadStep(n) PROVE IInv'
<1>1. UNCHANGED <<tasks, known, queue, unfinished, lastIngest, workerTask, stopping,
                  worker, job, cancelled, flush, covers>>
  BY DEF ThreadStep, StoreVerbatim, CallEnds, admission, control
<1>2. call' \in [Tasks -> {"none", "running", "stored", "returned", "raised", "dropped"}]
  BY DEF ThreadStep, StoreVerbatim, CallEnds, IInv, TypeOK
<1>3. /\ transcript' \in Seq(Nat) /\ Elems(transcript') \subseteq 1..Len(tasks)
      /\ Elems(transcript) \subseteq Elems(transcript')
      /\ StoredIsThere'
  <2>1. CASE StoreVerbatim(n)
    <3>1. /\ transcript' = Append(transcript, n) /\ n \in 1..Len(tasks) /\ n \in Nat
          /\ call' = [call EXCEPT ![n] = "stored"]
      BY <2>1 DEF StoreVerbatim, Tasks, IInv, CalledIsAdmitted
    <3>2. transcript' \in Seq(Nat) /\ Elems(transcript') = Elems(transcript) \cup {n}
      BY <3>1, ElemsAppend DEF IInv, TypeOK
    <3> QED
      BY <3>1, <3>2 DEF IInv, TypeOK, StoredIsThere, Elems
  <2>2. CASE CallEnds(n)
    <3>1. transcript' = transcript
      BY <2>2 DEF CallEnds
    <3>2. StoredIsThere'
      BY <2>2, <3>1 DEF CallEnds, IInv, TypeOK, StoredIsThere, Elems
    <3> QED
      BY <3>1, <3>2 DEF IInv, TypeOK
  <2> QED
    BY <2>1, <2>2 DEF ThreadStep
<1>4. TypeOK'
  BY <1>1, <1>2, <1>3 DEF IInv, TypeOK, Elems
<1>5. UnfinishedExact'
  BY <1>1 DEF IInv, UnfinishedExact, Observing
<1>6. LastIsKnown' /\ RetryNotAdmittedTwice'
  BY <1>1, AdmissionKept DEF IInv, admission
<1>7. MarkedMeansStored'
  BY <1>1, <1>3 DEF IInv, MarkedMeansStored, Elems
<1>8. CalledIsAdmitted'
  BY <1>1 DEF ThreadStep, StoreVerbatim, CallEnds, IInv, TypeOK, CalledIsAdmitted
<1> QED
  BY <1>3, <1>4, <1>5, <1>6, <1>7, <1>8 DEF IInv

-----------------------------------------------------------------------------
(* The theorems.                                                           *)

LEMMA Inductive == IInv /\ [Next]_vars => IInv'
<1> SUFFICES ASSUME IInv, [Next]_vars PROVE IInv'
  OBVIOUS
<1>1. CASE \E t \in Turns : Duplicate(t) \/ Enqueue(t)
  BY <1>1, DuplicateStep, EnqueueStep
<1>2. CASE \E w \in Workers : LoopStep(w)
  BY <1>2, TakeStep, ResumeStep, CancelledStep DEF LoopStep
<1>3. CASE \/ \E c \in Controllers : Start(c) \/ Stop(c) \/ StopReturns(c)
           \/ \E f \in Flushers : Flush(f) \/ FlushReturns(f)
  BY <1>3, ControlStep
<1>4. CASE \E n \in Tasks : ThreadStep(n)
  BY <1>4, ThreadStepKeeps
<1>5. CASE UNCHANGED vars
  BY <1>5 DEF vars, IInv, TypeOK, UnfinishedExact, Observing, CalledIsAdmitted, LastIsKnown,
              RetryNotAdmittedTwice, StoredIsThere, MarkedMeansStored, Elems
<1> QED
  BY <1>1, <1>2, <1>3, <1>4, <1>5 DEF Next

LEMMA Invariant == Spec => []IInv
BY InitIInv, Inductive, PTL DEF Spec

\* The fields keep their types and _unfinished_tasks never goes below zero.
THEOREM TypeCorrect == Spec => []TypeOK
BY Invariant, PTL DEF IInv

\* flush() waits on an exact count, through failures, cancellations and
\* restarts, for any number of workers and controllers.
THEOREM CountIsExact == Spec => []UnfinishedExact
BY Invariant, PTL DEF IInv

\* An immediate retry is refused, whatever the capacity of the cache.
THEOREM RetryRefused == Spec => []RetryNotAdmittedTwice
BY Invariant, PTL DEF IInv

\* The interval guard measures from a stored turn of that scope.
THEOREM GuardMeasuresStoredTurns == Spec => []MarkedMeansStored
BY Invariant, PTL DEF IInv

\* Admission is sound for any cache, interval, workers and cancellations.
THEOREM AdmissionIsSound == Spec => []AdmissionSound
<1>1. IInv => AdmissionSound
  BY DEF IInv, AdmissionSound
<1> QED
  BY <1>1, Invariant, PTL

-----------------------------------------------------------------------------
(* Where every task is.  Tasks leave the queue in the order they entered   *)
(* it, so that the taken ones are those up to a number.                    *)

Taken == Len(tasks) - Len(queue)

\* The queue holds the last tasks admitted, in order.
QueueIsLast == Taken \in Nat /\ \A i \in 1..Len(queue) : queue[i] = Taken + i

\* Exactly the taken tasks reached a thread.
CalledAreTaken == \A n \in Tasks : call[n] # "none" <=> n <= Taken

\* A worker holds a taken task while it observes, and no two the same one.
JobsApart ==
    /\ \A w \in Workers : job[w] # None => worker[w] = "observing" /\ job[w] \in 1..Taken
    /\ \A v, w \in Workers : job[v] = job[w] /\ job[v] # None => v = w

Held(n) == \E w \in Workers : job[w] = n

\* A call that has not ended is somebody's, or its worker was cancelled.
CallsHeld ==
    \A n \in Tasks : call[n] \in {"running", "stored", "dropped"} =>
        Held(n) \/ \E w \in Workers : worker[w] = "done"

CoversAdmitted == \A f \in Flushers : covers[f] <= Len(tasks)

\* A thread stores its turn once, and only a thread does.
StoredByCalls ==
    \A n \in Tasks :
        /\ call[n] = "running" => n \notin Elems(transcript)
        /\ n \in Elems(transcript) => call[n] # "none"

PlaceInv == QueueIsLast /\ CalledAreTaken /\ JobsApart /\ CallsHeld /\ CoversAdmitted /\ StoredByCalls

LEMMA InitPlace == Init => PlaceInv
<1> SUFFICES ASSUME Init PROVE PlaceInv
  OBVIOUS
<1> USE OrchestratorAssumption DEF Init
<1>1. Len(tasks) = 0 /\ Len(queue) = 0 /\ Elems(transcript) = {}
  BY DEF Elems
<1>2. QueueIsLast
  BY <1>1 DEF QueueIsLast, Taken
<1>3. CalledAreTaken
  BY <1>1 DEF CalledAreTaken, Taken, Tasks
<1>4. JobsApart /\ CallsHeld
  BY DEF JobsApart, CallsHeld
<1>5. CoversAdmitted /\ StoredByCalls
  BY <1>1 DEF CoversAdmitted, StoredByCalls
<1> QED
  BY <1>2, <1>3, <1>4, <1>5 DEF PlaceInv

\* The head of the loop takes the task after the last one taken, or none.
LEMMA NextJobTakes ==
    ASSUME TypeOK, QueueIsLast, NEW w \in Workers, NextJob(w), tasks' = tasks
    PROVE  /\ QueueIsLast' /\ Len(tasks) \in Nat
           /\ \/ /\ queue = <<>>
                 /\ Taken' = Taken /\ call' = call
                 /\ worker' = [worker EXCEPT ![w] = "waiting"]
                 /\ job' = [job EXCEPT ![w] = None]
              \/ /\ Taken' = Taken + 1 /\ Taken' <= Len(tasks) /\ Taken' \in Tasks
                 /\ call' = [call EXCEPT ![Taken'] = "running"]
                 /\ worker' = [worker EXCEPT ![w] = "observing"]
                 /\ job' = [job EXCEPT ![w] = Taken']
<1> DEFINE a == Len(tasks)
           b == Len(queue)
<1>0. a \in Nat /\ b \in Nat /\ a <= MaxTasks /\ MaxTasks \in Nat /\ Taken = a - b /\ Taken \in Nat
  BY OrchestratorAssumption DEF TypeOK, QueueIsLast, Taken
<1>1. CASE queue = <<>>
  <2>1. queue' = queue /\ call' = call
    BY <1>1 DEF NextJob
  <2>2. Taken' = Taken /\ QueueIsLast'
    BY <2>1 DEF QueueIsLast, Taken
  <2> QED
    BY <1>0, <1>1, <2>1, <2>2 DEF NextJob
<1>2. CASE queue # <<>>
  <2>1. /\ worker' = [worker EXCEPT ![w] = "observing"]
        /\ job' = [job EXCEPT ![w] = Head(queue)]
        /\ call' = [call EXCEPT ![Head(queue)] = "running"]
        /\ queue' = Tail(queue)
    BY <1>2 DEF NextJob
  <2>2. /\ queue \in Seq(Nat) /\ b > 0 /\ Head(queue) = queue[1] /\ Len(queue') = b - 1
        /\ \A i \in 1..(b - 1) : queue'[i] = queue[i + 1]
    BY <1>2, <2>1 DEF TypeOK
  <2>3. Taken' = a - (b - 1)
    BY <2>2 DEF Taken
  <2>4. Taken' = Taken + 1 /\ Taken' \in Nat /\ Taken' <= a /\ Taken' \in Tasks
    BY <1>0, <2>2, <2>3 DEF Tasks
  <2>5. Head(queue) = Taken'
    <3>1. queue[1] = Taken + 1
      BY <1>0, <2>2 DEF QueueIsLast
    <3> QED
      BY <2>2, <2>4, <3>1
  <2>6. QueueIsLast'
    <3>1. ASSUME NEW i \in 1..(b - 1) PROVE queue'[i] = Taken' + i
      <4> HIDE DEF a, b
      <4>1. i \in Nat /\ i + 1 \in 1..b
        BY <1>0
      <4>2. queue[i + 1] = Taken + (i + 1)
        BY <4>1 DEF QueueIsLast, b
      <4> QED
        BY <1>0, <2>2, <2>4, <4>1, <4>2
    <3> QED
      BY <2>2, <2>4, <3>1 DEF QueueIsLast
  <2> QED
    BY <1>0, <2>1, <2>4, <2>5, <2>6
<1> QED
  BY <1>1, <1>2

\* Where the tasks are after the head of the loop, if the worker had none in hand
\* whose call goes on.
LEMMA NextJobPlace ==
    ASSUME TypeOK, PlaceInv, NEW w \in Workers, NextJob(w),
           UNCHANGED <<tasks, covers, transcript>>,
           worker[w] \in {"waiting", "observing"},
           job[w] # None => call[job[w]] \in {"returned", "raised"}
    PROVE  PlaceInv'
<1> USE DEF PlaceInv
<1>1. Taken \in Nat /\ Len(tasks) \in Nat
  BY DEF QueueIsLast, TypeOK
<1>2. \A n \in Tasks : n \in Nat
  BY DEF Tasks
<1>3. CASE Taken' = Taken /\ call' = call /\ worker' = [worker EXCEPT ![w] = "waiting"]
           /\ job' = [job EXCEPT ![w] = None]
  <2>1. CalledAreTaken' /\ JobsApart'
    BY <1>1, <1>3 DEF CalledAreTaken, JobsApart, TypeOK
  <2>2. ASSUME NEW n \in Tasks, call'[n] \in {"running", "stored", "dropped"}
        PROVE  Held(n)' \/ \E v \in Workers : worker'[v] = "done"
    <3>1. CASE Held(n)
      <4>1. PICK v \in Workers : job[v] = n
        BY <3>1 DEF Held
      <4>2. v # w
        BY <1>2, <1>3, <2>2, <4>1, OrchestratorAssumption
      <4> QED
        BY <1>3, <4>1, <4>2 DEF Held, TypeOK
    <3>2. CASE \E v \in Workers : worker[v] = "done"
      BY <1>3, <3>2 DEF TypeOK
    <3> QED
      BY <1>3, <2>2, <3>1, <3>2 DEF CallsHeld
  <2>3. CallsHeld'
    BY <2>2 DEF CallsHeld
  <2>4. CoversAdmitted' /\ StoredByCalls'
    BY <1>3 DEF CoversAdmitted, StoredByCalls, Elems
  <2> QED
    BY <2>1, <2>3, <2>4, NextJobTakes
<1>4. CASE /\ Taken' = Taken + 1 /\ Taken' <= Len(tasks) /\ Taken' \in Tasks
           /\ call' = [call EXCEPT ![Taken'] = "running"]
           /\ worker' = [worker EXCEPT ![w] = "observing"]
           /\ job' = [job EXCEPT ![w] = Taken']
  <2>1. call[Taken'] = "none" /\ Taken' \in 1..Taken' /\ Taken' # None
    BY <1>1, <1>2, <1>4, OrchestratorAssumption DEF CalledAreTaken
  <2>2. CalledAreTaken'
    BY <1>1, <1>2, <1>4 DEF CalledAreTaken, TypeOK
  <2>3. \A v \in Workers : job[v] # Taken'
    BY <1>1, <1>4, <2>1 DEF JobsApart
  <2>4. JobsApart'
    BY <1>1, <1>4, <2>1, <2>3 DEF JobsApart, TypeOK
  <2>5. ASSUME NEW n \in Tasks, call'[n] \in {"running", "stored", "dropped"}
        PROVE  Held(n)' \/ \E v \in Workers : worker'[v] = "done"
    <3>1. CASE n = Taken'
      BY <1>4, <3>1 DEF Held, TypeOK
    <3>2. CASE n # Taken'
      <4>0. call'[n] = call[n]
        BY <1>4, <3>2 DEF TypeOK
      <4>1. CASE Held(n)
        <5>1. PICK v \in Workers : job[v] = n
          BY <4>1 DEF Held
        <5>2. v # w
          BY <1>2, <2>5, <4>0, <5>1, OrchestratorAssumption
        <5> QED
          BY <1>4, <5>1, <5>2 DEF Held, TypeOK
      <4>2. CASE \E v \in Workers : worker[v] = "done"
        BY <1>4, <4>2 DEF TypeOK
      <4> QED
        BY <2>5, <4>0, <4>1, <4>2 DEF CallsHeld
    <3> QED
      BY <3>1, <3>2
  <2>6. CallsHeld'
    BY <2>5 DEF CallsHeld
  <2>7. CoversAdmitted' /\ StoredByCalls'
    BY <1>4, <2>1 DEF CoversAdmitted, StoredByCalls, TypeOK, Elems
  <2> QED
    BY <2>2, <2>4, <2>6, <2>7, NextJobTakes
<1> QED
  BY <1>3, <1>4, NextJobTakes

LEMMA EnqueuePlace ==
    ASSUME IInv, PlaceInv, NEW t \in Turns, Enqueue(t) PROVE PlaceInv'
<1> DEFINE a == Len(tasks)
           b == Len(queue)
<1>1. /\ a \in Nat /\ b \in Nat /\ Len(tasks') = a + 1 /\ Len(queue') = b + 1
      /\ \A i \in 1..b : queue'[i] = queue[i]
      /\ queue'[b + 1] = a + 1
  BY DEF Enqueue, IInv, TypeOK
<1>2. UNCHANGED <<worker, job, covers, call, transcript>>
  BY DEF Enqueue, storing
<1>3. Taken' = Taken /\ Taken = a - b
  BY <1>1 DEF Taken
<1> HIDE DEF a, b
<1>4. QueueIsLast'
  <2>1. ASSUME NEW i \in 1..(b + 1) PROVE queue'[i] = Taken + i
    <3>1. CASE i \in 1..b
      BY <1>1, <3>1 DEF PlaceInv, QueueIsLast, b
    <3>2. CASE i = b + 1
      BY <1>1, <1>3, <3>2
    <3> QED
      BY <1>1, <3>1, <3>2
  <2> QED
    BY <1>1, <1>3, <2>1 DEF PlaceInv, QueueIsLast
<1>5. CalledAreTaken' /\ JobsApart' /\ CallsHeld' /\ StoredByCalls'
  BY <1>2, <1>3 DEF PlaceInv, CalledAreTaken, JobsApart, CallsHeld, Held, StoredByCalls, Elems
<1>6. CoversAdmitted'
  BY <1>1, <1>2 DEF PlaceInv, CoversAdmitted, IInv, TypeOK, a
<1> QED
  BY <1>4, <1>5, <1>6 DEF PlaceInv

\* A step that leaves tasks, queue, calls, jobs and transcript alone.
LEMMA PlaceKept ==
    ASSUME PlaceInv, UNCHANGED <<tasks, queue, job, call, transcript>>,
           \A w \in Workers : worker[w] \in {"observing", "done"} => worker'[w] = worker[w],
           CoversAdmitted'
    PROVE  PlaceInv'
<1>1. Taken' = Taken /\ QueueIsLast' /\ CalledAreTaken' /\ StoredByCalls'
  BY DEF PlaceInv, Taken, QueueIsLast, CalledAreTaken, StoredByCalls, Elems
<1>2. JobsApart'
  BY <1>1 DEF PlaceInv, JobsApart
<1>3. CallsHeld'
  BY DEF PlaceInv, CallsHeld, Held
<1> QED
  BY <1>1, <1>2, <1>3 DEF PlaceInv

LEMMA ControlPlace ==
    ASSUME IInv, PlaceInv,
           \/ \E t \in Turns : Duplicate(t)
           \/ \E c \in Controllers : Start(c) \/ Stop(c) \/ StopReturns(c)
           \/ \E f \in Flushers : Flush(f) \/ FlushReturns(f)
    PROVE  PlaceInv'
<1>1. UNCHANGED <<tasks, queue, job, call, transcript>>
  BY DEF Duplicate, Start, Stop, StopReturns, Flush, FlushReturns, admission, control, storing
<1>2. \A w \in Workers : worker[w] \in {"observing", "done"} => worker'[w] = worker[w]
  BY DEF Duplicate, Start, Stop, StopReturns, Flush, FlushReturns, control, IInv, TypeOK
<1>3. CoversAdmitted'
  <2>1. CASE covers' = covers
    BY <1>1, <2>1 DEF PlaceInv, CoversAdmitted
  <2>2. ASSUME NEW f \in Flushers, Flush(f) PROVE CoversAdmitted'
    BY <1>1, <2>2 DEF PlaceInv, CoversAdmitted, Flush, IInv, TypeOK
  <2> QED
    BY <2>1, <2>2 DEF Duplicate, Start, Stop, StopReturns, FlushReturns
<1> QED
  BY <1>1, <1>2, <1>3, PlaceKept

LEMMA CancelledPlace ==
    ASSUME IInv, PlaceInv, NEW w \in Workers, Cancelled(w) PROVE PlaceInv'
<1>1. /\ worker' = [worker EXCEPT ![w] = "done"] /\ job' = [job EXCEPT ![w] = None]
      /\ UNCHANGED <<tasks, queue, covers, transcript>>
      /\ \/ call' = call
         \/ call[job[w]] = "running" /\ call' = [call EXCEPT ![job[w]] = "dropped"]
  BY DEF Cancelled, admission
<1>2. Taken' = Taken /\ QueueIsLast' /\ CoversAdmitted'
  BY <1>1 DEF PlaceInv, Taken, QueueIsLast, CoversAdmitted
<1>3. \A n \in Tasks :
         call'[n] = call[n] \/ (call[n] = "running" /\ call'[n] = "dropped")
  BY <1>1 DEF IInv, TypeOK
<1>4. CalledAreTaken'
  BY <1>2, <1>3 DEF PlaceInv, CalledAreTaken
<1>5. StoredByCalls'
  BY <1>1, <1>3 DEF PlaceInv, StoredByCalls, Elems
<1>6. JobsApart' /\ CallsHeld'
  BY <1>1, <1>2 DEF PlaceInv, JobsApart, CallsHeld, IInv, TypeOK
<1> QED
  BY <1>2, <1>4, <1>5, <1>6 DEF PlaceInv

LEMMA ThreadPlace ==
    ASSUME IInv, PlaceInv, NEW n \in Tasks, ThreadStep(n) PROVE PlaceInv'
<1>1. UNCHANGED <<tasks, queue, worker, job, covers>>
  BY DEF ThreadStep, StoreVerbatim, CallEnds, admission
<1>2. Taken' = Taken /\ QueueIsLast' /\ CoversAdmitted' /\ JobsApart'
  BY <1>1 DEF PlaceInv, Taken, QueueIsLast, CoversAdmitted, JobsApart
<1>3. /\ call[n] \in {"running", "stored"}
      /\ call'[n] \in {"stored", "returned", "raised"}
      /\ \A m \in Tasks : m # n => call'[m] = call[m]
  BY DEF ThreadStep, StoreVerbatim, CallEnds, IInv, TypeOK
<1>4. Elems(transcript') \subseteq Elems(transcript) \cup {n}
  <2>1. CASE StoreVerbatim(n)
    <3>1. transcript' = Append(transcript, n) /\ transcript \in Seq(Nat)
      BY <2>1 DEF StoreVerbatim, IInv, TypeOK
    <3> QED
      BY <3>1, ElemsAppend
  <2>2. CASE CallEnds(n)
    BY <2>2 DEF CallEnds
  <2> QED
    BY <2>1, <2>2 DEF ThreadStep
<1>5. CalledAreTaken'
  BY <1>2, <1>3 DEF PlaceInv, CalledAreTaken
<1>6. CallsHeld'
  BY <1>1, <1>3 DEF PlaceInv, CallsHeld, Held
<1>7. StoredByCalls'
  <2>1. Elems(transcript)' = Elems(transcript')
    BY DEF Elems
  <2> QED
    BY <1>3, <1>4, <2>1 DEF PlaceInv, StoredByCalls
<1> QED
  BY <1>2, <1>5, <1>6, <1>7 DEF PlaceInv

LEMMA WorkerPlace ==
    ASSUME IInv, PlaceInv, NEW w \in Workers, Take(w) \/ Resume(w) PROVE PlaceInv'
<1>1. TypeOK /\ NextJob(w) /\ UNCHANGED <<tasks, covers, transcript>>
  BY DEF Take, Resume, admission, IInv
<1>2. worker[w] \in {"waiting", "observing"}
  BY DEF Take, Resume
<1>3. job[w] # None => call[job[w]] \in {"returned", "raised"}
  BY DEF Take, Resume, PlaceInv, JobsApart
<1> QED
  BY <1>1, <1>2, <1>3, NextJobPlace

LEMMA PlaceInvariant == Spec => []PlaceInv
<1>1. ASSUME IInv, PlaceInv, [Next]_vars PROVE PlaceInv'
  <2>1. CASE UNCHANGED vars
    <3>1. UNCHANGED <<tasks, queue, job, call, transcript>> /\ worker' = worker /\ CoversAdmitted'
      BY <1>1, <2>1 DEF vars, PlaceInv, CoversAdmitted
    <3> QED
      BY <1>1, <3>1, PlaceKept
  <2> QED
    BY <1>1, <2>1, EnqueuePlace, ControlPlace, CancelledPlace, ThreadPlace, WorkerPlace
       DEF Next, LoopStep
<1> QED
  BY <1>1, InitPlace, Invariant, PTL DEF Spec

-----------------------------------------------------------------------------
(* What flush() may rely on.                                               *)

Settled(n) == call[n] \in {"returned", "raised"} \/ Abandoned(n)

\* When nothing is counted, every admitted task is settled.
LEMMA NothingCounted ==
    IInv /\ PlaceInv /\ unfinished = 0 => \A n \in 1..Len(tasks) : Settled(n)
<1> SUFFICES ASSUME IInv, PlaceInv, unfinished = 0, NEW n \in 1..Len(tasks) PROVE Settled(n)
  OBVIOUS
<1>1. /\ Observing \subseteq Workers /\ IsFiniteSet(Observing)
      /\ Cardinality(Observing) \in Nat /\ Len(queue) \in Nat
  BY ObservingFinite DEF Observing, IInv, TypeOK
<1>2. Cardinality(Observing) = 0 /\ Len(queue) = 0
  BY <1>1 DEF IInv, UnfinishedExact
<1>3. Observing = {}
  BY <1>1, <1>2, FS_EmptySet
<1>4. \A w \in Workers : job[w] = None
  BY <1>3 DEF PlaceInv, JobsApart, Observing
<1>5. n \in Tasks /\ n <= Taken /\ n # None
  BY <1>2, OrchestratorAssumption DEF Tasks, Taken, IInv, TypeOK
<1>6. call[n] # "none" /\ \A w \in Workers : job[w] # n
  BY <1>4, <1>5 DEF PlaceInv, CalledAreTaken
<1>7. call[n] \in {"running", "stored", "dropped", "returned", "raised"}
  BY <1>5, <1>6 DEF IInv, TypeOK
<1> QED
  BY <1>5, <1>6, <1>7 DEF Settled, Abandoned, PlaceInv, CallsHeld, Held

\* What is settled stays so.
LEMMA SettledStays ==
    ASSUME IInv, PlaceInv, [Next]_vars, NEW n \in Tasks, Settled(n)
    PROVE  Settled(n)'
<1>1. n <= Taken /\ n \in Nat /\ n # None /\ call[n] # "none"
  BY OrchestratorAssumption DEF Settled, Abandoned, PlaceInv, CalledAreTaken, Tasks
<1>2. SUFFICES /\ \/ call'[n] = call[n]
                  \/ /\ call[n] \in {"running", "stored"}
                     /\ call'[n] \in {"stored", "returned", "raised", "dropped"}
               /\ \A w \in Workers : job'[w] = n => job[w] = n
               /\ \A w \in Workers : worker[w] = "done" => worker'[w] = "done"
  BY <1>2 DEF Settled, Abandoned
<1>3. ASSUME NEW w \in Workers, NextJob(w), tasks' = tasks, worker[w] # "done"
      PROVE  /\ call'[n] = call[n]
             /\ \A v \in Workers : job'[v] = n => job[v] = n
             /\ \A v \in Workers : worker[v] = "done" => worker'[v] = "done"
  <2>1. Taken \in Nat
    BY DEF PlaceInv, QueueIsLast
  <2>2. TypeOK /\ QueueIsLast
    BY DEF IInv, PlaceInv
  <2>3. CASE /\ call' = call
             /\ worker' = [worker EXCEPT ![w] = "waiting"]
             /\ job' = [job EXCEPT ![w] = None]
    BY <1>1, <1>3, <2>2, <2>3 DEF TypeOK
  <2>4. CASE /\ Taken' = Taken + 1
             /\ call' = [call EXCEPT ![Taken'] = "running"]
             /\ worker' = [worker EXCEPT ![w] = "observing"]
             /\ job' = [job EXCEPT ![w] = Taken']
    <3>1. Taken' # n
      BY <1>1, <2>1, <2>4
    <3> QED
      BY <1>3, <2>2, <2>4, <3>1 DEF TypeOK
  <2> QED
    BY <1>3, <2>2, <2>3, <2>4, NextJobTakes
<1>4. CASE \E w \in Workers : Take(w) \/ Resume(w)
  BY <1>3, <1>4 DEF Take, Resume, admission
<1>5. CASE \E w \in Workers : Cancelled(w)
  BY <1>1, <1>5 DEF Cancelled, IInv, TypeOK
<1>6. CASE \E m \in Tasks : ThreadStep(m)
  BY <1>6 DEF ThreadStep, StoreVerbatim, CallEnds, IInv, TypeOK
<1>7. CASE UNCHANGED <<call, job, worker>>
  BY <1>7
<1>8. CASE \E c \in Controllers : Start(c)
  BY <1>8 DEF Start, storing, IInv, TypeOK
<1>9. CASE \/ \E t \in Turns : Duplicate(t) \/ Enqueue(t)
           \/ \E c \in Controllers : Stop(c) \/ StopReturns(c)
           \/ \E f \in Flushers : Flush(f) \/ FlushReturns(f)
           \/ UNCHANGED vars
  BY <1>7, <1>9 DEF Duplicate, Enqueue, Stop, StopReturns, Flush, FlushReturns, storing, vars
<1> QED
  BY <1>4, <1>5, <1>6, <1>8, <1>9 DEF Next, LoopStep

\* A flush is released when nothing is counted, and covers what it did.
LEMMA ReleasedWhenEmpty ==
    ASSUME IInv, [Next]_vars, NEW f \in Flushers, flush'[f] = "released"
    PROVE  \/ flush[f] = "released" /\ covers'[f] = covers[f]
           \/ unfinished' = 0
<1>1. ASSUME TaskDone, covers' = covers
      PROVE  (flush[f] = "released" /\ covers'[f] = covers[f]) \/ unfinished' = 0
  BY <1>1 DEF TaskDone, IInv, TypeOK
<1>2. ASSUME NEW g \in Flushers, Flush(g)
      PROVE  (flush[f] = "released" /\ covers'[f] = covers[f]) \/ unfinished' = 0
  BY <1>2 DEF Flush, IInv, TypeOK
<1>3. ASSUME NEW g \in Flushers, FlushReturns(g)
      PROVE  flush[f] = "released" /\ covers'[f] = covers[f]
  BY <1>3 DEF FlushReturns, IInv, TypeOK
<1>4. ASSUME NEW w \in Workers, LoopStep(w)
      PROVE  (flush[f] = "released" /\ covers'[f] = covers[f]) \/ unfinished' = 0
  BY <1>1, <1>4 DEF LoopStep, Take, Resume, Cancelled
<1>5. CASE UNCHANGED <<flush, covers>>
  BY <1>5
<1>6. CASE \/ \E t \in Turns : Duplicate(t) \/ Enqueue(t)
           \/ \E c \in Controllers : Start(c) \/ Stop(c) \/ StopReturns(c)
           \/ \E n \in Tasks : ThreadStep(n)
           \/ UNCHANGED vars
  BY <1>5, <1>6 DEF Duplicate, Enqueue, Start, Stop, StopReturns, ThreadStep, StoreVerbatim,
                    CallEnds, vars
<1> QED
  BY <1>2, <1>3, <1>4, <1>6 DEF Next

\* FlushSettles: a flush that returns leaves no turn admitted before it unwritten,
\* for any number of workers, controllers and flushes, unless a stop() abandoned it.
THEOREM FlushedIsSettled == Spec => []FlushSettles
<1>1. Init => FlushSettles
  BY DEF Init, FlushSettles
<1>2. (IInv /\ PlaceInv /\ unfinished = 0 => \A n \in 1..Len(tasks) : Settled(n))'
  BY NothingCounted, PTL
<1>3. ASSUME IInv, PlaceInv, IInv', PlaceInv', FlushSettles, [Next]_vars
      PROVE  FlushSettles'
  <2> SUFFICES ASSUME NEW f \in Flushers, flush'[f] = "released", NEW n \in 1..covers'[f]
               PROVE  Settled(n)'
    BY DEF FlushSettles, Settled
  <2>1. CASE unfinished' = 0
    <3>1. n \in 1..Len(tasks')
      BY <1>3 DEF PlaceInv, CoversAdmitted, IInv, TypeOK
    <3> QED
      BY <1>2, <1>3, <2>1, <3>1
  <2>2. CASE flush[f] = "released" /\ covers'[f] = covers[f]
    <3>1. n \in Tasks
      BY <1>3, <2>2, OrchestratorAssumption DEF PlaceInv, CoversAdmitted, IInv, TypeOK, Tasks
    <3>2. Settled(n)
      BY <1>3, <2>2 DEF FlushSettles, Settled
    <3> QED
      BY <1>3, <3>1, <3>2, SettledStays
  <2> QED
    BY <1>3, <2>1, <2>2, ReleasedWhenEmpty
<1> QED
  BY <1>1, <1>3, Invariant, PlaceInvariant, PTL DEF Spec

-----------------------------------------------------------------------------
(* One worker at a time.                                                   *)

\* The head of the loop keeps its worker running and the others as they are.
LEMMA NextJobRuns ==
    ASSUME TypeOK, NEW w \in Workers, NextJob(w)
    PROVE  /\ worker' = [worker EXCEPT ![w] = worker'[w]]
           /\ worker'[w] \in {"waiting", "observing"}
<1>1. worker' = [worker EXCEPT ![w] = "waiting"] \/ worker' = [worker EXCEPT ![w] = "observing"]
  BY DEF NextJob
<1> QED
  BY <1>1 DEF TypeOK

\* The coroutines that run afterwards ran before, or were started just now.
LEMMA RunningBefore ==
    ASSUME TypeOK, [Next]_vars, NEW v \in Workers, Running(v)'
    PROVE  Running(v) \/ (workerTask = None /\ workerTask' = v)
<1>1. ASSUME NEW w \in Workers, Take(w) \/ Resume(w) PROVE Running(v)
  <2>1. NextJob(w) /\ Running(w)
    BY <1>1 DEF Take, Resume, Running
  <2>2. v # w => worker'[v] = worker[v]
    BY <2>1, NextJobRuns DEF TypeOK
  <2> QED
    BY <2>1, <2>2 DEF Running
<1>2. ASSUME NEW w \in Workers, Cancelled(w) PROVE Running(v)
  BY <1>2 DEF Cancelled, Running, TypeOK
<1>3. ASSUME NEW c \in Controllers, Start(c)
      PROVE  Running(v) \/ (workerTask = None /\ workerTask' = v)
  BY <1>3 DEF Start, Running, TypeOK
<1>4. CASE UNCHANGED worker
  BY <1>4 DEF Running
<1>5. CASE \/ \E t \in Turns : Duplicate(t) \/ Enqueue(t)
           \/ \E c \in Controllers : Stop(c) \/ StopReturns(c)
           \/ \E f \in Flushers : Flush(f) \/ FlushReturns(f)
           \/ \E n \in Tasks : ThreadStep(n)
           \/ UNCHANGED vars
  BY <1>4, <1>5 DEF Duplicate, Enqueue, Stop, StopReturns, Flush, FlushReturns, ThreadStep,
                    StoreVerbatim, CallEnds, vars
<1> QED
  BY <1>1, <1>2, <1>3, <1>5 DEF Next, LoopStep

\* Only start() and a stop() that returns move the name of the worker.
LEMMA NameMoves ==
    ASSUME TypeOK, [Next]_vars, workerTask' # workerTask
    PROVE  \E c \in Controllers : Start(c) \/ StopReturns(c)
BY DEF Next, LoopStep, Take, Resume, Cancelled, ThreadStep, StoreVerbatim, CallEnds, Duplicate,
       Enqueue, Stop, Flush, FlushReturns, control, vars

\* Only one controller: start() and stop() are called from one coroutine.
OneController == \A c, d \in Controllers : c = d

\* The name is of the worker that runs, and of the one a stop() waits for.
NamedWorker ==
    /\ \A w \in Workers : Running(w) => workerTask = w
    /\ \A c \in Controllers : stopping[c] # None => stopping[c] = workerTask

LEMMA NamedInvariant ==
    ASSUME OneController
    PROVE  Spec => []NamedWorker
<1>1. Init => NamedWorker
  BY DEF Init, NamedWorker, Running
<1>2. ASSUME TypeOK, NamedWorker, [Next]_vars PROVE NamedWorker'
  <2>1. ASSUME NEW v \in Workers, Running(v)' PROVE workerTask' = v
    <3>1. CASE workerTask = None /\ workerTask' = v
      BY <3>1
    <3>2. CASE Running(v)
      <4>1. workerTask = v /\ v # None
        BY <1>2, <3>2, OrchestratorAssumption DEF NamedWorker
      <4>2. SUFFICES ASSUME workerTask' # workerTask PROVE FALSE
        BY <4>1
      <4>3. PICK c \in Controllers : StopReturns(c)
        BY <1>2, <4>1, <4>2, NameMoves DEF Start
      <4> QED
        BY <1>2, <2>1, <4>1, <4>3 DEF NamedWorker, StopReturns, Running
    <3> QED
      BY <1>2, <2>1, <3>1, <3>2, RunningBefore
  <2>2. ASSUME NEW c \in Controllers, stopping'[c] # None PROVE stopping'[c] = workerTask'
    <3>1. CASE \E d \in Controllers : Start(d) \/ Stop(d) \/ StopReturns(d)
      BY <1>2, <2>2, <3>1 DEF OneController, Start, Stop, StopReturns, TypeOK
    <3>2. CASE UNCHANGED control
      BY <1>2, <2>2, <3>2 DEF control, NamedWorker
    <3>3. CASE \/ \E t \in Turns : Duplicate(t) \/ Enqueue(t)
               \/ \E w \in Workers : LoopStep(w)
               \/ \E f \in Flushers : Flush(f) \/ FlushReturns(f)
               \/ \E n \in Tasks : ThreadStep(n)
               \/ UNCHANGED vars
      BY <3>2, <3>3 DEF Duplicate, Enqueue, LoopStep, Take, Resume, Cancelled, Flush, FlushReturns,
                        ThreadStep, StoreVerbatim, CallEnds, vars, control
    <3> QED
      BY <1>2, <3>1, <3>3 DEF Next
  <2> QED
    BY <2>1, <2>2 DEF NamedWorker
<1> QED
  BY <1>1, <1>2, TypeCorrect, PTL DEF Spec

\* OneWorker: start() never finds the old worker at work, however often one
\* controller restarts it.
THEOREM NeverTwoWorkers ==
    ASSUME OneController
    PROVE  Spec => []OneWorker
<1>1. NamedWorker => OneWorker
  BY DEF NamedWorker, OneWorker
<1> QED
  BY <1>1, NamedInvariant, PTL

-----------------------------------------------------------------------------
(* The order of the transcript, as long as no worker ended.                *)

NobodyDone == \A w \in Workers : worker[w] # "done"

Increasing(s) == \A i, j \in 1..Len(s) : i < j => s[i] < s[j]

\* The worker that runs is the one started last, the call that runs is of the
\* task it took last, and the transcript is in order.
OrderInv ==
    NobodyDone =>
        /\ \A w \in Workers : Running(w) => workerTask = w
        /\ \A n \in Tasks : call[n] = "running" => n = Taken /\ Held(n)
        /\ Increasing(transcript)

\* A worker that ended stays ended.
LEMMA DoneBefore ==
    ASSUME TypeOK, [Next]_vars, NobodyDone'
    PROVE  NobodyDone /\ ~\E w \in Workers : Cancelled(w)
<1>1. ASSUME NEW w \in Workers, Cancelled(w) PROVE FALSE
  BY <1>1 DEF Cancelled, NobodyDone, TypeOK
<1>2. ASSUME NEW w \in Workers, Take(w) \/ Resume(w) PROVE NobodyDone
  <2>1. NextJob(w) /\ worker[w] # "done"
    BY <1>2 DEF Take, Resume
  <2> QED
    BY <2>1, NextJobRuns DEF NobodyDone, TypeOK
<1>3. ASSUME NEW c \in Controllers, Start(c) PROVE NobodyDone
  BY <1>3 DEF Start, NobodyDone, TypeOK
<1>4. ASSUME \/ \E t \in Turns : Duplicate(t) \/ Enqueue(t)
             \/ \E c \in Controllers : Stop(c) \/ StopReturns(c)
             \/ \E f \in Flushers : Flush(f) \/ FlushReturns(f)
             \/ \E n \in Tasks : ThreadStep(n)
             \/ UNCHANGED vars
      PROVE  NobodyDone
  BY <1>4 DEF Duplicate, Enqueue, Stop, StopReturns, Flush, FlushReturns, ThreadStep,
              StoreVerbatim, CallEnds, vars, NobodyDone
<1> QED
  BY <1>1, <1>2, <1>3, <1>4 DEF Next, LoopStep

\* An element larger than all others goes to the end.
LEMMA AppendIncreasing ==
    ASSUME NEW s \in Seq(Nat), NEW n \in Nat, Increasing(s), \A m \in Elems(s) : m < n
    PROVE  Increasing(Append(s, n))
<1>1. /\ Len(s) \in Nat /\ Len(Append(s, n)) = Len(s) + 1 /\ DOMAIN s = 1..Len(s)
      /\ \A i \in 1..Len(s) : Append(s, n)[i] = s[i]
      /\ Append(s, n)[Len(s) + 1] = n
  OBVIOUS
<1> DEFINE a == Append(s, n)
           k == Len(s)
<1> HIDE DEF a, k
<1>2. \A i \in 1..k : a[i] = s[i] /\ s[i] < n
  BY <1>1 DEF Elems, a, k
<1>3. ASSUME NEW i \in 1..(k + 1), NEW j \in 1..(k + 1), i < j PROVE a[i] < a[j]
  <2>1. k \in Nat /\ i \in 1..k /\ (j \in 1..k \/ j = k + 1)
    BY <1>1, <1>3 DEF k
  <2>2. CASE j \in 1..k
    BY <1>2, <1>3, <2>1, <2>2 DEF Increasing, k
  <2>3. CASE j = k + 1
    BY <1>1, <1>2, <2>1, <2>3 DEF a, k
  <2> QED
    BY <2>1, <2>2, <2>3
<1> QED
  BY <1>1, <1>3 DEF Increasing, a, k

LEMMA OrderStep ==
    ASSUME IInv, PlaceInv, OrderInv, [Next]_vars PROVE OrderInv'
<1> SUFFICES ASSUME NobodyDone'
             PROVE  /\ \A w \in Workers : Running(w)' => workerTask' = w
                    /\ \A n \in Tasks : call'[n] = "running" => n = Taken' /\ Held(n)'
                    /\ Increasing(transcript')
  BY DEF OrderInv, Increasing
<1>1. TypeOK /\ NobodyDone /\ ~\E w \in Workers : Cancelled(w)
  BY DoneBefore DEF IInv
<1>2. /\ \A w \in Workers : Running(w) => workerTask = w
      /\ \A n \in Tasks : call[n] = "running" => n = Taken /\ Held(n)
      /\ Increasing(transcript)
  BY <1>1 DEF OrderInv
<1>3. ASSUME NEW w \in Workers, Running(w)' PROVE workerTask' = w
  <2>1. CASE workerTask = None /\ workerTask' = w
    BY <2>1
  <2>2. CASE Running(w)
    <3>1. workerTask = w /\ w # None
      BY <1>2, <2>2, OrchestratorAssumption
    <3>2. SUFFICES ASSUME workerTask' # workerTask PROVE FALSE
      BY <3>1
    <3>3. PICK c \in Controllers : StopReturns(c)
      BY <1>1, <3>1, <3>2, NameMoves DEF Start
    <3> QED
      BY <1>1, <3>3 DEF StopReturns, NobodyDone, TypeOK
  <2> QED
    BY <1>1, <1>3, <2>1, <2>2, RunningBefore
<1>4. ASSUME NEW n \in Tasks, call'[n] = "running" PROVE n = Taken' /\ Held(n)'
  <2>1. ASSUME NEW w \in Workers, Take(w) \/ Resume(w) PROVE n = Taken' /\ Held(n)'
    <3>1. NextJob(w) /\ tasks' = tasks /\ QueueIsLast /\ Running(w)
      BY <2>1 DEF Take, Resume, admission, PlaceInv, Running
    <3>2. ASSUME call[n] = "running" PROVE FALSE
      <4>1. PICK v \in Workers : job[v] = n
        BY <1>2, <3>2 DEF Held
      <4>2. n # None
        BY OrchestratorAssumption DEF Tasks
      <4>3. worker[v] = "observing" /\ v = w
        BY <1>2, <3>1, <4>1, <4>2 DEF PlaceInv, JobsApart, Running
      <4> QED
        BY <2>1, <3>2, <4>1, <4>3 DEF Take, Resume
    <3>3. CASE call' = call
      BY <1>4, <3>2, <3>3
    <3>4. CASE /\ Taken' \in Tasks
               /\ call' = [call EXCEPT ![Taken'] = "running"]
               /\ job' = [job EXCEPT ![w] = Taken']
      <4>1. n = Taken'
        BY <1>4, <3>2, <3>4
      <4> QED
        BY <1>1, <3>4, <4>1 DEF Held, TypeOK
    <3> QED
      BY <1>1, <3>1, <3>3, <3>4, NextJobTakes
  <2>2. ASSUME call'[n] = call[n], Taken' = Taken, job' = job PROVE n = Taken' /\ Held(n)'
    BY <1>2, <1>4, <2>2 DEF Held
  <2>3. ASSUME NEW m \in Tasks, ThreadStep(m) PROVE call'[n] = call[n] /\ Taken' = Taken /\ job' = job
    BY <1>1, <1>4, <2>3 DEF ThreadStep, StoreVerbatim, CallEnds, admission, Taken, TypeOK
  <2>4. ASSUME NEW t \in Turns, Enqueue(t) PROVE call'[n] = call[n] /\ Taken' = Taken /\ job' = job
    <3>1. /\ Len(tasks) \in Nat /\ Len(queue) \in Nat
          /\ Len(tasks') = Len(tasks) + 1 /\ Len(queue') = Len(queue) + 1
      BY <1>1, <2>4 DEF Enqueue, TypeOK
    <3> QED
      BY <2>4, <3>1 DEF Enqueue, storing, Taken
  <2>5. CASE \/ \E t \in Turns : Duplicate(t)
             \/ \E c \in Controllers : Start(c) \/ Stop(c) \/ StopReturns(c)
             \/ \E f \in Flushers : Flush(f) \/ FlushReturns(f)
             \/ UNCHANGED vars
    <3>1. call' = call /\ Taken' = Taken /\ job' = job
      BY <2>5 DEF Duplicate, Start, Stop, StopReturns, Flush, FlushReturns, admission, storing,
                  vars, Taken
    <3> QED
      BY <2>2, <3>1
  <2> QED
    BY <1>1, <2>1, <2>2, <2>3, <2>4, <2>5 DEF Next, LoopStep
<1>5. Increasing(transcript')
  <2>1. ASSUME NEW n \in Tasks, StoreVerbatim(n) PROVE Increasing(transcript')
    <3>1. /\ transcript' = Append(transcript, n) /\ call[n] = "running" /\ n = Taken
          /\ transcript \in Seq(Nat) /\ n \in Nat
      BY <1>1, <1>2, <2>1 DEF StoreVerbatim, Tasks, TypeOK
    <3>2. ASSUME NEW m \in Elems(transcript) PROVE m < n
      <4>1. m \in Nat /\ m \in Tasks
        BY <1>1, OrchestratorAssumption DEF TypeOK, Tasks
      <4>2. m <= Taken /\ m # n
        BY <3>1, <4>1 DEF PlaceInv, CalledAreTaken, StoredByCalls
      <4> QED
        BY <3>1, <4>1, <4>2
    <3> QED
      BY <1>2, <3>1, <3>2, AppendIncreasing
  <2>2. ASSUME transcript' = transcript PROVE Increasing(transcript')
    BY <1>2, <2>2
  <2>3. ASSUME NEW n \in Tasks, CallEnds(n) PROVE transcript' = transcript
    BY <2>3 DEF CallEnds
  <2>4. CASE \/ \E t \in Turns : Duplicate(t) \/ Enqueue(t)
             \/ \E w \in Workers : LoopStep(w)
             \/ \E c \in Controllers : Start(c) \/ Stop(c) \/ StopReturns(c)
             \/ \E f \in Flushers : Flush(f) \/ FlushReturns(f)
             \/ UNCHANGED vars
    BY <2>2, <2>4 DEF Duplicate, Enqueue, LoopStep, Take, Resume, Cancelled, Start, Stop,
                      StopReturns, Flush, FlushReturns, storing, vars
  <2> QED
    BY <2>1, <2>2, <2>3, <2>4 DEF Next, ThreadStep
<1> QED
  BY <1>3, <1>4, <1>5

\* StoredInOrder: until a worker ends, the turns are stored in the order in which
\* they were admitted, each once, for any number of controllers and flushes.
THEOREM TranscriptInOrder == Spec => []StoredInOrder
<1>1. Init => OrderInv
  BY DEF Init, OrderInv, Running, Increasing
<1>2. IInv /\ OrderInv => StoredInOrder
  BY DEF OrderInv, NobodyDone, Increasing, StoredInOrder
<1> QED
  BY <1>1, <1>2, OrderStep, Invariant, PlaceInvariant, PTL DEF Spec

=============================================================================
