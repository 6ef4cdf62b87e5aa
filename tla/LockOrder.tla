------------------------------- MODULE LockOrder -------------------------------
(***************************************************************************)
(* Three locks and who waits on whom: ProcessLock, an flock on a           *)
(* descriptor of <db>.lock that every call opens for itself; the           *)
(* process's graph lock, of which only writers matter here; and SQLite's   *)
(* write lock.  observe_conversation and ingest_transcript_handoff take    *)
(* the first and, one section after the other, the other two under it;     *)
(* initialisation and re-embedding have one section; every other mutation  *)
(* does without the first.                                                 *)
(***************************************************************************)
EXTENDS Naturals

CONSTANTS
    Threads, Process,   \* Process[t]: the process of thread t
    Nobody,
    LockFiles,          \* bound: the files that ever stand at the lock's path
    MaxCalls            \* bound: the calls of a thread

LockAssumption == LockFiles \in Nat /\ Nobody \notin Threads

VARIABLES
    at,       \* where a thread is
    guarded,  \* whether its call holds or wants the file lock
    left,     \* the sections of its call that are left
    calls,
    path,     \* the file at <db>.lock, 0 without one
    fd,       \* the file a thread has open, 0 for none
    flock,    \* flock[f]: the thread whose descriptor holds the lock of file f
    graph,    \* graph[p]: the thread that writes in process p
    writer    \* the thread with SQLite's write lock

lockVars == <<at, guarded, left, calls, path, fd, flock, graph, writer>>

Processes == {Process[t] : t \in Threads}

LockInit ==
    /\ at = [t \in Threads |-> "out"] /\ guarded = [t \in Threads |-> FALSE]
    /\ left = [t \in Threads |-> 0] /\ calls = [t \in Threads |-> 0]
    /\ path = 0 /\ fd = [t \in Threads |-> 0]
    /\ flock = [f \in 1 .. LockFiles |-> Nobody]
    /\ graph = [p \in Processes |-> Nobody] /\ writer = Nobody

Moves(t, place) == at' = [at EXCEPT ![t] = place]

Then_GraphFirst(g) ==      \* a mutant: the file is locked under the graph lock
    IF g THEN [out |-> "graph", graph |-> "open", flock |-> "write"]
         ELSE [out |-> "graph", graph |-> "write"]

\* What a call takes next: after the graph lock a connection and its first write.
Then(g) ==
    IF g THEN [out |-> "open", flock |-> "graph", graph |-> "write"]
         ELSE [out |-> "graph", graph |-> "write"]

Begin(t) ==
    /\ at[t] = "out" /\ calls[t] < MaxCalls
    /\ calls' = [calls EXCEPT ![t] = @ + 1]
    /\ \E g \in BOOLEAN, n \in 1 .. 2 :
         /\ guarded' = [guarded EXCEPT ![t] = g]
         /\ left' = [left EXCEPT ![t] = IF g THEN n ELSE 1]
         /\ Moves(t, Then(g).out)
    /\ UNCHANGED <<path, fd, flock, graph, writer>>

\* os.open with O_CREAT.
Open(t) ==
    /\ at[t] = "open" /\ Moves(t, "flock")
    /\ IF path # 0 THEN UNCHANGED path ELSE \E f \in 1 .. LockFiles : path' = f
    /\ fd' = [fd EXCEPT ![t] = path']
    /\ UNCHANGED <<guarded, left, calls, flock, graph, writer>>

\* A mutant: LOCK_SH for LOCK_EX.
Flock_Shared(t) ==
    /\ at[t] = "flock"
    /\ flock' = [flock EXCEPT ![fd[t]] = t]
    /\ Moves(t, Then(TRUE).flock)
    /\ UNCHANGED <<guarded, left, calls, path, fd, graph, writer>>

Flock(t) ==
    /\ at[t] = "flock" /\ flock[fd[t]] = Nobody
    /\ flock' = [flock EXCEPT ![fd[t]] = t]
    /\ Moves(t, Then(TRUE).flock)
    /\ UNCHANGED <<guarded, left, calls, path, fd, graph, writer>>

TakeGraph(t) ==
    /\ at[t] = "graph" /\ graph[Process[t]] = Nobody
    /\ graph' = [graph EXCEPT ![Process[t]] = t]
    /\ Moves(t, Then(guarded[t]).graph)
    /\ UNCHANGED <<guarded, left, calls, path, fd, flock, writer>>

TakeWriter(t) ==
    /\ at[t] = "write" /\ writer = Nobody
    /\ writer' = t /\ Moves(t, "commit")
    /\ UNCHANGED <<guarded, left, calls, path, fd, flock, graph>>

Without(f, t) == [x \in DOMAIN f |-> IF f[x] = t THEN Nobody ELSE f[x]]

\* The section commits; the next one begins with the graph lock anew.
Commit(t) ==
    /\ at[t] = "commit"
    /\ writer' = Nobody /\ graph' = Without(graph, t)
    /\ left' = [left EXCEPT ![t] = @ - 1]
    /\ Moves(t, IF left[t] > 1 THEN "graph" ELSE IF guarded[t] THEN "release" ELSE "out")
    /\ UNCHANGED <<guarded, calls, path, fd, flock>>

\* A section that raises, "database is locked" for instance, leaves by the same way.
Raises(t) ==
    /\ at[t] \in {"write", "commit"}
    /\ writer' = (IF writer = t THEN Nobody ELSE writer) /\ graph' = Without(graph, t)
    /\ left' = [left EXCEPT ![t] = 0]
    /\ Moves(t, IF guarded[t] THEN "release" ELSE "out")
    /\ UNCHANGED <<guarded, calls, path, fd, flock>>

\* acquire closes the descriptor of an flock that failed.
Fails(t) ==
    /\ at[t] \in {"open", "flock"} /\ Moves(t, "out")
    /\ fd' = [fd EXCEPT ![t] = 0] /\ graph' = Without(graph, t)
    /\ UNCHANGED <<guarded, left, calls, path, flock, writer>>

\* Closing the descriptor gives the lock back also when unlocking it failed.
Unlock(t) ==
    /\ at[t] = "release" /\ Moves(t, "out")
    /\ flock' = Without(flock, t) /\ fd' = [fd EXCEPT ![t] = 0]
    /\ UNCHANGED <<guarded, left, calls, path, graph, writer>>

\* The system closes the descriptors of a process that ends, and SQLite's locks with
\* them; its transaction is rolled back.
ProcessEnds(p) ==
    LET mine == {t \in Threads : Process[t] = p} IN
    /\ \E t \in mine : at[t] # "out"
    /\ at' = [t \in Threads |-> IF t \in mine THEN "out" ELSE at[t]]
    /\ fd' = [t \in Threads |-> IF t \in mine THEN 0 ELSE fd[t]]
    /\ flock' = [f \in DOMAIN flock |-> IF flock[f] \in mine THEN Nobody ELSE flock[f]]
    /\ graph' = [graph EXCEPT ![p] = Nobody]
    /\ writer' = IF writer \in mine THEN Nobody ELSE writer
    /\ UNCHANGED <<guarded, left, calls, path>>

Step(t) ==
    \/ Open(t) \/ Flock(t) \/ TakeGraph(t) \/ TakeWriter(t) \/ Commit(t) \/ Unlock(t)

LockNext ==
    \/ \E t \in Threads : Begin(t) \/ Step(t) \/ Raises(t) \/ Fails(t)
    \/ \E p \in Processes : ProcessEnds(p)

LockSpec == LockInit /\ [][LockNext]_lockVars

\* A thread that can go on does.  Nothing bounds a wait for the file or the graph lock.
LockFairness == \A t \in Threads : WF_lockVars(Step(t))
LockFairSpec == LockSpec /\ LockFairness
-----------------------------------------------------------------------------
Within(t) == guarded[t] /\ at[t] \in {"graph", "write", "commit", "release"}

\* Of all threads of all processes one at a time is between acquire and release,
\* whoever fails, raises or dies meanwhile.
OneGuarded == \A t, u \in Threads : Within(t) /\ Within(u) => t = u

\* Every call ends: no circle of the three locks, and none is lost with its holder.
CallsEnd == \A t \in Threads : at[t] # "out" ~> at[t] = "out"
=============================================================================
