----------------------------- MODULE MCProgress -----------------------------
(***************************************************************************)
(* A talk of TranscriptIngestion and, on instances of their own,           *)
(* the components whose calls must end: the re-embedding doctor, the       *)
(* recursive engine, the sandboxes' model calls, nested checkouts, the     *)
(* request gate, the locks and the VS Code extension.  They share nothing  *)
(* here: part, chosen in the initial state, says which of them a behaviour *)
(* is one of; the others stay in their initial states, where no fair       *)
(* action of theirs is enabled.                                            *)
(***************************************************************************)
EXTENDS TranscriptIngestion, TLC

\* The talk is u1 a1 t1 a2 u2 a3: two exchanges, the first answered in two parts around
\* a tool message.  The client hands over growing prefixes of it; u3 a4 is a live turn.
CONSTANTS u1, a1, t1, a2, u2, a3, u3, a4

MCRole ==
    (u1 :> "user") @@ (a1 :> "assistant") @@ (t1 :> "tool") @@ (a2 :> "assistant") @@
    (u2 :> "user") @@ (a3 :> "assistant") @@ (u3 :> "user") @@ (a4 :> "assistant")

Talk == <<u1, a1, t1, a2, u2, a3>>
Prefixes == {SubSeq(Talk, 1, n) : n \in 0 .. Len(Talk)}

LiveTurn == {<<u3, a4>>}

VARIABLES
    part,
    embRows, embMaker, embPending, embStep, embBatch, embTx, embBefore,
    rlmNow, rlmRun, rlmSpent, rlmHandlers, rlmTurns, rlmEnv, rlmOutcome,
    askEnv, askHost, askPoller, askList, askReady, askServing, askCell, askScript,
    askEntry, askWaiter, askOf, askAsked, askLost, askTracked, askReported,
    nestAt, nestHeld, nestLock, nestWriter,
    lockAt, lockGuarded, lockLeft, lockCalls, lockPath, lockFd, lockFlock, lockGraph, lockWriter,
    gateTime, gateKeyOf, gateAdmin, gateCall, gateWindow, gateConcurrent,
    gateDraining, gateAudit, gateAdmitted,
    manChild, manTracked, manPort, manSaved, manStart, manStopping, manShown, manOff,
    binInode, binDest, binTmp, binSidecar, binCall, binLone, binSpoilt

embVars  == <<embRows, embMaker, embPending, embStep, embBatch, embTx, embBefore>>
rlmVars  == <<rlmNow, rlmRun, rlmSpent, rlmHandlers, rlmTurns, rlmEnv, rlmOutcome>>
askVars  == <<askEnv, askHost, askPoller, askList, askReady, askServing, askCell, askScript,
              askEntry, askWaiter, askOf, askAsked, askLost, askTracked, askReported>>
nestVars == <<nestAt, nestHeld, nestLock, nestWriter>>
lockVars == <<lockAt, lockGuarded, lockLeft, lockCalls, lockPath, lockFd, lockFlock, lockGraph,
              lockWriter>>
gateVars == <<gateTime, gateKeyOf, gateAdmin, gateCall, gateWindow, gateConcurrent,
              gateDraining, gateAudit, gateAdmitted>>
manVars  == <<manChild, manTracked, manPort, manSaved, manStart, manStopping, manShown, manOff>>
binVars  == <<binInode, binDest, binTmp, binSidecar, binCall, binLone, binSpoilt>>
allVars  == <<part, vars, embVars, rlmVars, askVars, nestVars, lockVars, gateVars, manVars, binVars>>

\* A server and a doctor over one node and one transcript row.
Emb == INSTANCE EmbeddingStore WITH
    Nodes <- {"n1"}, Transcripts <- {"x1"}, Contents <- {1}, BatchSize <- 1, Nobody <- "nobody",
    rows <- embRows, maker <- embMaker, pending <- embPending, step <- embStep,
    batch <- embBatch, tx <- embTx, before <- embBefore

\* One child, two iterations, and a clock that runs out.
Rlm == INSTANCE RlmEngine WITH
    Root <- "root", Kids <- {"k1"}, MaxIterations <- 2, MaxErrors <- 2, MaxBudget <- 2,
    MaxTimeout <- 1, Persistent <- FALSE, Compaction <- FALSE, MaxClock <- 2, MaxCalls <- 1, Turns <- 1,
    now <- rlmNow, run <- rlmRun, spent <- rlmSpent, handlers <- rlmHandlers,
    turns <- rlmTurns, env <- rlmEnv, outcome <- rlmOutcome

Ask == INSTANCE SandboxCalls WITH
    Reqs <- {"r1", "r2"}, Environments <- {"modal", "e2b", "docker", "kernel"},
    MaxServed <- 1, Cells <- 1, MaxAsks <- 2,
    env <- askEnv, host <- askHost, poller <- askPoller, list <- askList, ready <- askReady,
    serving <- askServing, cell <- askCell, script <- askScript, entry <- askEntry,
    waiter <- askWaiter, of <- askOf, asked <- askAsked, lost <- askLost, tracked <- askTracked,
    reported <- askReported

\* As many audit writes as the pool has connections.
Nest == INSTANCE NestedCheckout WITH
    Resolvers <- {"r1", "r2"}, Auditors <- {"a1", "a2"}, NoCall <- "none", PoolSize <- 2,
    at <- nestAt, held <- nestHeld, lock <- nestLock, writer <- nestWriter

\* Two threads of a server and one of a hook, a call each.
Lock == INSTANCE LockOrder WITH
    Threads <- {"l1", "l2", "l3"}, Process <- [t \in {"l1", "l2", "l3"} |-> IF t = "l3" THEN "hook" ELSE "server"],
    Nobody <- "nobody", LockFiles <- 2, MaxCalls <- 1,
    at <- lockAt, guarded <- lockGuarded, left <- lockLeft, calls <- lockCalls, path <- lockPath,
    fd <- lockFd, flock <- lockFlock, graph <- lockGraph, writer <- lockWriter

Gate == INSTANCE RequestGate WITH
    Posts <- {"r1", "r2"}, ApiKeys <- {"k1"}, Rpm <- 1, WriteRpm <- 1, MaxConcurrent <- 1,
    Minute <- 1, MaxTime <- 1, Expiries <- {1, 2},
    time <- gateTime, keyOf <- gateKeyOf, admin <- gateAdmin, call <- gateCall, window <- gateWindow,
    concurrent <- gateConcurrent, draining <- gateDraining, audit <- gateAudit, admitted <- gateAdmitted

\* A window that starts a second server, and two calls for its binary.
Man == INSTANCE ServerManager WITH
    Windows <- {"v1"}, LastPort <- 2, MaxSpawns <- 2,
    child <- manChild, tracked <- manTracked, port <- manPort, saved <- manSaved, start <- manStart,
    stopping <- manStopping, shown <- manShown, off <- manOff

Bin == INSTANCE BinaryCache WITH
    Calls <- {"c1", "c2"}, Requested <- "requested", Latest <- "latest", AllowLatest <- FALSE,
    Chunks <- 1, Closing <- {"c1"}, Kinds <- {"resolve"},
    inode <- binInode, dest <- binDest, tmp <- binTmp, sidecar <- binSidecar, call <- binCall,
    lone <- binLone, spoilt <- binSpoilt

ASSUME Man!ManagerAssumption /\ Bin!CacheAssumption
ASSUME Emb!BatchAssumption /\ Rlm!EngineAssumption /\ Ask!CallsAssumption

Parts == {"transcript", "doctor", "engine", "calls", "nested", "locks", "gate", "server", "binary"}

ProgressInit ==
    /\ part \in Parts
    /\ Init /\ Emb!EmbInit /\ Rlm!Init /\ Ask!AskInit /\ Nest!Init /\ Lock!LockInit /\ Gate!GateInit /\ Man!Init /\ Bin!Init
    /\ part # "doctor" => embRows = Emb!Empty
    /\ part # "calls" => askEnv = "docker"

\* The step of one part leaves all the others' variables as they are.
Others(p) ==
    /\ part = p /\ UNCHANGED part
    /\ p # "transcript" => UNCHANGED vars
    /\ p # "doctor" => UNCHANGED embVars
    /\ p # "engine" => UNCHANGED rlmVars
    /\ p # "calls" => UNCHANGED askVars
    /\ p # "nested" => UNCHANGED nestVars
    /\ p # "locks" => UNCHANGED lockVars
    /\ p # "gate" => UNCHANGED gateVars
    /\ p # "server" => UNCHANGED manVars
    /\ p # "binary" => UNCHANGED binVars

ProgressNext ==
    \/ Others("transcript") /\ Next
    \/ Others("doctor") /\ Emb!EmbNext
    \/ Others("engine") /\ Rlm!Next
    \/ Others("calls") /\ Ask!AskNext
    \/ Others("nested") /\ Nest!Next
    \/ Others("locks") /\ Lock!LockNext
    \/ Others("gate") /\ Gate!GateNext
    \/ Others("server") /\ Man!Next
    \/ Others("binary") /\ Bin!Next

\* Each module's Fairness, for the behaviours that are its own.
ProgressFairness ==
    /\ WF_embVars(part = "doctor" /\ Emb!DoctorStep)
    /\ WF_embVars(part = "doctor" /\ embStep = "verdict" /\ Emb!DoctorExits)
    /\ \A a \in {"root", "k1"} : WF_rlmVars(part = "engine" /\ Rlm!Work(a))
    /\ WF_rlmVars(part = "engine" /\ Rlm!ChildReturns("k1"))
    /\ WF_rlmVars(part = "engine" /\ Rlm!PoolEnds)
    /\ WF_askVars(part = "calls" /\ Ask!Serves)
    /\ \A r \in {"r1", "r2"} :
          /\ WF_askVars(part = "calls" /\ Ask!Dispatch(r))
          /\ WF_askVars(part = "calls" /\ Ask!Dispatched(r))
          /\ WF_askVars(part = "calls" /\ askPoller # "on" /\ Ask!TimesOut(r))
          /\ WF_gateVars(part = "gate" /\ Gate!Finish(r))
          /\ WF_gateVars(part = "gate" /\ Gate!Proceed(r))
    /\ \A c \in {"r1", "r2", "a1", "a2"} :
          /\ WF_nestVars(part = "nested" /\ Nest!Checkout(c))
          /\ WF_nestVars(part = "nested" /\ Nest!Write(c))
          /\ WF_nestVars(part = "nested" /\ Nest!Commit(c))
          /\ WF_nestVars(part = "nested" /\ Nest!GivesUp(c))
    /\ \A t \in {"l1", "l2", "l3"} : WF_lockVars(part = "locks" /\ Lock!Step(t))
    /\ WF_manVars(part = "server" /\ Man!StartStep("v1"))
    /\ \A c \in {"c1", "c2"} : WF_binVars(part = "binary" /\ Bin!Step(c))

ProgressSpec == ProgressInit /\ [][ProgressNext]_allVars /\ ProgressFairness

-----------------------------------------------------------------------------
\* RlmEngine: every completion returns or raises.
CompletionReturns == Rlm!CompletionReturns

\* NestedCheckout and RequestGate: a call that waits for the pool, the lock or
\* SQLite's writer ends, and an admitted request is answered and frees its slot.
\* LockOrder: so does a call that waits for the file lock.  ServerManager and
\* BinaryCache: every start and every call for the binary ends.  SandboxCalls: no query
\* is left waiting for ever.  EmbeddingStore: a doctor that has begun gets through its
\* batches or gives up.
CallsEnd ==
    /\ Ask!QueriesReturn /\ Emb!DoctorEnds
    /\ Nest!CallsEnd /\ Gate!AdmittedIsAnswered /\ Man!StartsEnd /\ Bin!CallsReturn /\ Lock!CallsEnd
=============================================================================
