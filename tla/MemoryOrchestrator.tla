-------------------------- MODULE MemoryOrchestrator --------------------------
(***************************************************************************)
(* waggle.orchestrator.AsyncMemoryOrchestrator: completed chat turns are   *)
(* admitted by a policy and a deduplication cache, wait in a bounded       *)
(* asyncio.Queue and are written to the graph by one worker task, which    *)
(* runs MemoryGraph.observe_conversation in a thread.                      *)
(*                                                                         *)
(* On the event loop everything between two awaits is one step.  The       *)
(* threads interleave with the loop, and a thread outlives the             *)
(* cancellation of the worker that waits for it.  A turn stands for one    *)
(* the text filters of MemoryPolicy let through: the others change         *)
(* nothing.                                                                *)
(***************************************************************************)
EXTENDS Integers, Sequences, FiniteSets

CONSTANTS
    Turns,        \* the ConversationTurn objects the runtime hands over
    Scopes,       \* the MemoryScope values
    Scope,        \* Scope[t]: the scope turn t is handed over with
    Key,          \* Key[t]: its _turn_key, the turn_id or a content digest
    At,           \* At[t]: its occurred_at, chosen by the caller
    Interval,     \* min_turn_interval_seconds
    QueueMax,     \* queue_maxsize
    KnownMax,     \* known_turns_maxsize
    Workers,      \* the worker tasks start() may create, bounding restarts
    Controllers,  \* the coroutines that call start() and stop()
    Flushers,     \* the coroutines that call flush()
    None,         \* no worker, no task, never ingested
    MaxTasks      \* bound on the tasks admitted in a behaviour

ASSUME OrchestratorAssumption ==
    /\ Scope \in [Turns -> Scopes]
    /\ DOMAIN Key = Turns
    /\ At \in [Turns -> Nat]
    /\ Interval \in Nat
    /\ QueueMax \in Nat \ {0} /\ KnownMax \in Nat \ {0} /\ MaxTasks \in Nat
    /\ IsFiniteSet(Workers)
    /\ None \notin Workers /\ None \notin Nat

VARIABLES
    tasks,       \* every IngestTask made so far; a task is its index here
    queue,       \* _queue
    unfinished,  \* _queue._unfinished_tasks
    known,       \* _known_turn_ids, the oldest first
    lastIngest,  \* policy.last_ingest_at
    workerTask,  \* _worker_task
    worker,      \* worker[w]: where the coroutine of w is
    job,         \* job[w]: the task w is observing
    cancelled,   \* workers whose cancel() was called and not yet delivered
    stopping,    \* stopping[c]: the worker that c's stop() awaits
    flush,       \* flush[f]: where f's flush() is
    covers,      \* covers[f]: how many tasks there were when f called flush()
    call,        \* call[n]: where the thread observing task n is
    transcript   \* the verbatim turns in the graph, in the order stored

vars == <<tasks, queue, unfinished, known, lastIngest, workerTask, worker, job,
          cancelled, stopping, flush, covers, call, transcript>>

admission == <<tasks, known>>
control   == <<workerTask, stopping>>
storing   == <<call, transcript>>

Tasks == 1 .. MaxTasks
Keys  == {Key[t] : t \in Turns}
Elems(s) == {s[i] : i \in DOMAIN s}

Init ==
    /\ tasks = <<>> /\ queue = <<>> /\ unfinished = 0 /\ known = <<>>
    /\ lastIngest = [s \in Scopes |-> None]
    /\ workerTask = None
    /\ worker = [w \in Workers |-> "new"]
    /\ job = [w \in Workers |-> None]
    /\ cancelled = {}
    /\ stopping = [c \in Controllers |-> None]
    /\ flush = [f \in Flushers |-> "idle"]
    /\ covers = [f \in Flushers |-> 0]
    /\ call = [n \in Tasks |-> "none"]
    /\ transcript = <<>>
-----------------------------------------------------------------------------
(* on_assistant_turn.  put() never waits, since the queue was not full an   *)
(* instant before.  The rejections that change nothing have no action.      *)

\* The interval guard of plan_ingest.
PastInterval(t) ==
    LET last == lastIngest[Scope[t]]
    IN  last # None => At[t] - last >= Interval

\* popitem() without last=False: the newest entry leaves a full cache.
Remember_EvictsNewest(k) == IF Len(known) < KnownMax THEN Append(known, k) ELSE known

\* A new key at the end of the cache; the oldest leaves a full one.
Remember(k) ==
    IF Len(known) < KnownMax THEN Append(known, k) ELSE Append(Tail(known), k)

\* OrderedDict.move_to_end for the entry at position i.
MoveToEnd(i) ==
    [j \in 1 .. Len(known) |->
        IF j < i THEN known[j] ELSE IF j < Len(known) THEN known[j + 1] ELSE known[i]]

Duplicate(t) ==
    /\ PastInterval(t)
    /\ \E i \in 1 .. Len(known) : known[i] = Key[t] /\ known' = MoveToEnd(i)
    /\ UNCHANGED <<tasks, queue, unfinished, lastIngest, control, worker, job,
                   cancelled, flush, covers, storing>>

Enqueue(t) ==
    /\ PastInterval(t)
    /\ Key[t] \notin Elems(known)
    /\ Len(queue) < QueueMax
    /\ Len(tasks) < MaxTasks
    /\ known' = Remember(Key[t])
    /\ tasks' = Append(tasks, t)
    /\ queue' = Append(queue, Len(tasks) + 1)
    /\ unfinished' = unfinished + 1
    /\ UNCHANGED <<lastIngest, control, worker, job, cancelled, flush, covers,
                   storing>>
-----------------------------------------------------------------------------
(* The worker task: from one await to the next.                            *)

\* The head of the loop: take the next task, or wait in queue.get().
NextJob(w) ==
    IF queue = <<>>
      THEN /\ worker' = [worker EXCEPT ![w] = "waiting"]
           /\ job' = [job EXCEPT ![w] = None]
           /\ UNCHANGED <<queue, call>>
      ELSE /\ worker' = [worker EXCEPT ![w] = "observing"]
           /\ job' = [job EXCEPT ![w] = Head(queue)]
           /\ call' = [call EXCEPT ![Head(queue)] = "running"]
           /\ queue' = Tail(queue)

\* queue.task_done(): at zero every coroutine in join() is released.
TaskDone ==
    /\ unfinished' = unfinished - 1
    /\ flush' = IF unfinished = 1
                  THEN [f \in Flushers |->
                           IF flush[f] = "joining" THEN "released" ELSE flush[f]]
                  ELSE flush

Take(w) ==
    /\ worker[w] = "waiting" /\ w \notin cancelled
    /\ queue # <<>>
    /\ NextJob(w)
    /\ UNCHANGED <<admission, unfinished, lastIngest, control, cancelled, flush,
                   covers, transcript>>

\* The observation is started and not awaited.
Resume_NoAwait(w) ==
    /\ worker[w] = "observing" /\ w \notin cancelled
    /\ TaskDone
    /\ NextJob(w)
    /\ UNCHANGED <<admission, lastIngest, control, cancelled, covers, transcript>>

\* mark_ingested moved into the finally clause.
Resume_MarksAlways(w) ==
    /\ worker[w] = "observing" /\ w \notin cancelled
    /\ call[job[w]] \in {"returned", "raised"}
    /\ lastIngest' = [lastIngest EXCEPT ![Scope[tasks[job[w]]]] = At[tasks[job[w]]]]
    /\ TaskDone
    /\ NextJob(w)
    /\ UNCHANGED <<admission, control, cancelled, covers, transcript>>

\* task_done() only after a success.
Resume_DoneOnSuccess(w) ==
    /\ worker[w] = "observing" /\ w \notin cancelled
    /\ call[job[w]] \in {"returned", "raised"}
    /\ LET t == tasks[job[w]]
       IN  lastIngest' = IF call[job[w]] = "returned"
                           THEN [lastIngest EXCEPT ![Scope[t]] = At[t]]
                           ELSE lastIngest
    /\ IF call[job[w]] = "returned" THEN TaskDone ELSE UNCHANGED <<unfinished, flush>>
    /\ NextJob(w)
    /\ UNCHANGED <<admission, control, cancelled, covers, transcript>>

\* observe_conversation came back: only a success marks the scope.
Resume(w) ==
    /\ worker[w] = "observing" /\ w \notin cancelled
    /\ call[job[w]] \in {"returned", "raised"}
    /\ LET t == tasks[job[w]]
       IN  lastIngest' = IF call[job[w]] = "returned"
                           THEN [lastIngest EXCEPT ![Scope[t]] = At[t]]
                           ELSE lastIngest
    /\ TaskDone
    /\ NextJob(w)
    /\ UNCHANGED <<admission, control, cancelled, covers, transcript>>

\* get() inside the try: a worker cancelled while it waits calls task_done().
Cancelled_AlwaysDone(w) ==
    /\ w \in cancelled
    /\ cancelled' = cancelled \ {w}
    /\ worker' = [worker EXCEPT ![w] = "done"]
    /\ job' = [job EXCEPT ![w] = None]
    /\ TaskDone
    /\ UNCHANGED <<admission, queue, lastIngest, control, covers, storing>>

\* CancelledError at the await.  In get() it leaves the queue alone; in
\* to_thread it runs the finally clause, and the call goes on in its thread
\* unless the executor had not begun it.
Cancelled(w) ==
    /\ w \in cancelled
    /\ cancelled' = cancelled \ {w}
    /\ worker' = [worker EXCEPT ![w] = "done"]
    /\ job' = [job EXCEPT ![w] = None]
    /\ IF worker[w] = "observing"
         THEN /\ TaskDone
              /\ \/ UNCHANGED call
                 \/ /\ call[job[w]] = "running"
                    /\ call' = [call EXCEPT ![job[w]] = "dropped"]
         ELSE UNCHANGED <<unfinished, flush, call>>
    /\ UNCHANGED <<admission, queue, lastIngest, control, covers, transcript>>
-----------------------------------------------------------------------------
(* start, stop and flush.                                                  *)

Start(c) ==
    /\ stopping[c] = None
    /\ workerTask = None
    /\ \E w \in Workers :
           /\ worker[w] = "new"
           /\ workerTask' = w
           /\ worker' = [worker EXCEPT ![w] = "waiting"]
    /\ UNCHANGED <<admission, queue, unfinished, lastIngest, job, cancelled,
                   stopping, flush, covers, storing>>

\* stop() cancels the worker and forgets it without awaiting it.
Stop_NoAwait(c) ==
    /\ stopping[c] = None
    /\ workerTask # None
    /\ workerTask' = None
    /\ cancelled' = cancelled \cup {workerTask}
    /\ UNCHANGED <<admission, queue, unfinished, lastIngest, stopping, worker,
                   job, flush, covers, storing>>

\* stop() only sets _closing, which a worker inside get() does not look at.
Stop_NoCancel(c) ==
    /\ stopping[c] = None
    /\ workerTask # None
    /\ stopping' = [stopping EXCEPT ![c] = workerTask]
    /\ UNCHANGED <<admission, queue, unfinished, lastIngest, workerTask, worker,
                   job, cancelled, flush, covers, storing>>

Stop(c) ==
    /\ stopping[c] = None
    /\ workerTask # None
    /\ stopping' = [stopping EXCEPT ![c] = workerTask]
    /\ cancelled' = IF worker[workerTask] = "done" THEN cancelled
                                                   ELSE cancelled \cup {workerTask}
    /\ UNCHANGED <<admission, queue, unfinished, lastIngest, workerTask, worker,
                   job, flush, covers, storing>>

StopReturns(c) ==
    /\ stopping[c] # None
    /\ worker[stopping[c]] = "done"
    /\ stopping' = [stopping EXCEPT ![c] = None]
    /\ workerTask' = None
    /\ UNCHANGED <<admission, queue, unfinished, lastIngest, worker, job,
                   cancelled, flush, covers, storing>>

\* flush() returns as soon as the queue is empty.
Flush_QueueOnly(f) ==
    /\ flush[f] = "idle"
    /\ flush' = [flush EXCEPT ![f] = IF queue # <<>> THEN "joining" ELSE "released"]
    /\ covers' = [covers EXCEPT ![f] = Len(tasks)]
    /\ UNCHANGED <<admission, queue, unfinished, lastIngest, control, worker,
                   job, cancelled, storing>>

Flush(f) ==
    /\ flush[f] = "idle"
    /\ flush' = [flush EXCEPT ![f] = IF unfinished > 0 THEN "joining" ELSE "released"]
    /\ covers' = [covers EXCEPT ![f] = Len(tasks)]
    /\ UNCHANGED <<admission, queue, unfinished, lastIngest, control, worker,
                   job, cancelled, storing>>

\* The caller of flush() goes on, to export a checkpoint for instance.
FlushReturns(f) ==
    /\ flush[f] = "released"
    /\ flush' = [flush EXCEPT ![f] = "idle"]
    /\ UNCHANGED <<admission, queue, unfinished, lastIngest, control, worker,
                   job, cancelled, covers, storing>>
-----------------------------------------------------------------------------
(* The thread of observe_conversation: it commits the verbatim turn under   *)
(* a turn_pair_id of its own, whatever is stored already, then extracts     *)
(* from it; it may raise before or after that commit.                       *)

StoreVerbatim(n) ==
    /\ call[n] = "running"
    /\ call' = [call EXCEPT ![n] = "stored"]
    /\ transcript' = Append(transcript, n)
    /\ UNCHANGED <<admission, queue, unfinished, lastIngest, control, worker, job,
                   cancelled, flush, covers>>

CallEnds(n) ==
    /\ \/ /\ call[n] = "stored"
          /\ call' = [call EXCEPT ![n] = "returned"]
       \/ /\ call[n] \in {"running", "stored"}
          /\ call' = [call EXCEPT ![n] = "raised"]
    /\ UNCHANGED <<admission, queue, unfinished, lastIngest, control, worker, job,
                   cancelled, flush, covers, transcript>>

LoopStep(w) == Take(w) \/ Resume(w) \/ Cancelled(w)
ThreadStep(n) == StoreVerbatim(n) \/ CallEnds(n)

Next ==
    \/ \E t \in Turns : Duplicate(t) \/ Enqueue(t)
    \/ \E w \in Workers : LoopStep(w)
    \/ \E c \in Controllers : Start(c) \/ Stop(c) \/ StopReturns(c)
    \/ \E f \in Flushers : Flush(f) \/ FlushReturns(f)
    \/ \E n \in Tasks : ThreadStep(n)

Spec == Init /\ [][Next]_vars

\* The event loop runs every coroutine that can go on; it says nothing of the
\* threads.
LoopFairness ==
    /\ \A w \in Workers : WF_vars(LoopStep(w))
    /\ \A c \in Controllers : WF_vars(StopReturns(c))
    /\ \A f \in Flushers : WF_vars(FlushReturns(f))

\* Calls into the graph end: its locks and transactions are bounded by
\* busy_timeout and the checkout timeout.
ThreadFairness == \A n \in Tasks : WF_vars(ThreadStep(n))

FairSpec == Spec /\ LoopFairness
-----------------------------------------------------------------------------
(* Properties.                                                             *)

Running(w) == worker[w] \in {"waiting", "observing"}

\* Every field keeps its type; _unfinished_tasks never goes below zero, which
\* asyncio answers with a ValueError inside the worker.
TypeOK ==
    /\ tasks \in Seq(Turns) /\ Len(tasks) <= MaxTasks
    /\ queue \in Seq(Nat) /\ Len(queue) <= QueueMax
    /\ Elems(queue) \subseteq 1 .. Len(tasks)
    /\ unfinished \in Nat
    /\ known \in Seq(Keys) /\ Len(known) <= KnownMax
    /\ lastIngest \in [Scopes -> Nat \cup {None}]
    /\ workerTask \in Workers \cup {None}
    /\ worker \in [Workers -> {"new", "waiting", "observing", "done"}]
    /\ job \in [Workers -> Nat \cup {None}]
    /\ \A w \in Workers : worker[w] = "observing" => job[w] \in 1 .. Len(tasks)
    /\ cancelled \in SUBSET Workers
    /\ stopping \in [Controllers -> Workers \cup {None}]
    /\ flush \in [Flushers -> {"idle", "joining", "released"}]
    /\ covers \in [Flushers -> Nat]
    /\ call \in [Tasks -> {"none", "running", "stored", "returned", "raised", "dropped"}]
    /\ transcript \in Seq(Nat) /\ Elems(transcript) \subseteq 1 .. Len(tasks)

Observing == {w \in Workers : worker[w] = "observing"}

\* The counter flush() waits on is the tasks queued and those in a worker's
\* hands, through failures, cancellations and restarts of the worker: it can
\* neither release a flush early nor keep one waiting for nothing.
UnfinishedExact == unfinished = Len(queue) + Cardinality(Observing)

\* One controller never has two workers at once, however often it restarts:
\* stop() gives the name up only when the old worker has ended.
OneWorker == \A v, w \in Workers : Running(v) /\ Running(w) => v = w

\* The call lost its worker to a cancellation.
Abandoned(n) ==
    /\ call[n] \in {"running", "stored", "dropped"}
    /\ \A w \in Workers : job[w] # n
    /\ \E w \in Workers : worker[w] = "done"

\* When flush() returns, every turn admitted before the call has been written
\* or has failed, unless a stop() abandoned it on the way.
FlushSettles ==
    \A f \in Flushers : flush[f] = "released" =>
        \A n \in 1 .. covers[f] : call[n] \in {"returned", "raised"} \/ Abandoned(n)

\* A turn handed over again at once (a retry of the runtime) is never admitted
\* a second time: between two admissions of a key stands another key, whatever
\* the size of the cache.
RetryNotAdmittedTwice ==
    \A i, j \in 1 .. Len(tasks) :
        i < j /\ Key[tasks[i]] = Key[tasks[j]] =>
            \E m \in i + 1 .. j - 1 : Key[tasks[m]] # Key[tasks[i]]

\* While no worker was cancelled, turns enter the transcript in the order in
\* which they were admitted, each once.
StoredInOrder ==
    (\A w \in Workers : worker[w] # "done") =>
        \A i, j \in 1 .. Len(transcript) : i < j => transcript[i] < transcript[j]

\* The interval guard measures from a turn of that very scope which the graph
\* holds: a failed or refused turn never holds later ones back.
MarkedMeansStored ==
    \A s \in Scopes : lastIngest[s] # None =>
        \E n \in Elems(transcript) :
            Scope[tasks[n]] = s /\ At[tasks[n]] = lastIngest[s]

\* orchestrator.py says of a turn admitted again after its eviction that it is
\* safe because observe_conversation is idempotent: the graph would hold one
\* verbatim copy of it.
ReingestLeavesOneTurn ==
    \A i, j \in 1 .. Len(transcript) :
        tasks[transcript[i]] = tasks[transcript[j]] => i = j

\* With a worker at work and graph calls that end, a flush() returns unless
\* somebody stops that worker: failed turns and later arrivals do not hold it for
\* ever.
FlushCompletes ==
    ThreadFairness => \A f \in Flushers :
        flush[f] = "joining" /\ (\E w \in Workers : Running(w))
            ~> flush[f] # "joining" \/ \A w \in Workers : ~Running(w)

\* stop() returns also when the call the worker waits for never ends.
StopCompletes == \A c \in Controllers : stopping[c] # None ~> stopping[c] = None

\* What admission keeps, through failures, cancellations and evictions: no retry
\* is a second task, and the guards measure from what the graph holds.
AdmissionSound == TypeOK /\ RetryNotAdmittedTwice /\ MarkedMeansStored

=============================================================================
