---------------------------- MODULE MCComponents ----------------------------
(***************************************************************************)
(* ProposalWorkflow in two processes and, on instances of their own, the   *)
(* safety of the components around the graph: documents and their          *)
(* exchange, GitHub events, the hand-off of a session's context,           *)
(* administration, the editor, the demo's tenants, the gate, the locks,    *)
(* the engine, its sandboxes, the calls of the MCP tools, the set-up of    *)
(* clients and the VS Code extension.  They share nothing here: part,      *)
(* chosen in the initial state, says which of them a behaviour is one of;  *)
(* the others do not move.  Small sets and bounds stand where they are     *)
(* given; what is compared with rows and tuples is a model value.          *)
(***************************************************************************)
EXTENDS MCProposalWorkflow, RequestGate, LockOrder, StoreAdministration, DemoTenants, SandboxCalls

CONSTANTS Null, NoRow, Raised, Auto

VARIABLES
    part,
    docPhase, docInput, docResult,
    exClock, exNodes, exEdges, exWindows, exDrive, exBackup, exJob, exTouched, exPreferred,
    edNodes, edEdges, edHandler, edOthers, edHandled,
    mdNodes, mdEdges, mdVault, mdWriting, mdEdits,
    rlmNow, rlmRun, rlmSpent, rlmHandlers, rlmTurns, rlmEnv, rlmOutcome,
    boxKind, boxOut, boxCwd, boxDirs, boxCell, boxText, boxPrinted, boxSeen, boxLeft, boxMixed,
    ghNow, ghNodes, ghEdges, ghRun, ghCheckpoint, ghContext, ghExports, ghRuns,
    ghWritten, ghRaced, ghTouched, ghFinished, ghTogether,
    hoDb, hoSaid, hoQueued, hoFile, hoManifest, hoCall, hoBegun, hoEdits, hoLatest, hoGone,
    manChild, manTracked, manPort, manSaved, manStart, manStopping, manShown, manOff,
    binInode, binDest, binTmp, binSidecar, binCall, binLone, binSpoilt,
    toolNodes, toolEdges, toolSaid, toolWindows, toolAccessed, toolFile, toolGauge, toolCounted,
    toolCall, toolBegun, toolUncounted, toolLag,
    setFile, setCall, setEdits, setWanted, setSpoilt

docVars  == <<docPhase, docInput, docResult>>
exVars   == <<exClock, exNodes, exEdges, exWindows, exDrive, exBackup, exJob, exTouched, exPreferred>>
edVars   == <<edNodes, edEdges, edHandler, edOthers, edHandled>>
rlmVars  == <<rlmNow, rlmRun, rlmSpent, rlmHandlers, rlmTurns, rlmEnv, rlmOutcome>>
boxVars  == <<boxKind, boxOut, boxCwd, boxDirs, boxCell, boxText, boxPrinted, boxSeen, boxLeft, boxMixed>>
manVars  == <<manChild, manTracked, manPort, manSaved, manStart, manStopping, manShown, manOff>>
ghVars   == <<ghNow, ghNodes, ghEdges, ghRun, ghCheckpoint, ghContext, ghExports, ghRuns,
              ghWritten, ghRaced, ghTouched, ghFinished, ghTogether>>
hoVars   == <<hoDb, hoSaid, hoQueued, hoFile, hoManifest, hoCall, hoBegun, hoEdits, hoLatest, hoGone>>
mdVars   == <<mdNodes, mdEdges, mdVault, mdWriting, mdEdits>>
binVars  == <<binInode, binDest, binTmp, binSidecar, binCall, binLone, binSpoilt>>
toolVars == <<toolNodes, toolEdges, toolSaid, toolWindows, toolAccessed, toolFile, toolGauge, toolCounted,
              toolCall, toolBegun, toolUncounted, toolLag>>
setVars  == <<setFile, setCall, setEdits, setWanted, setSpoilt>>
allVars  == <<part, vars, docVars, exVars, adminVars, edVars, demoVars, gateVars,
              rlmVars, boxVars, askVars, manVars, binVars, mdVars, ghVars, hoVars, lockVars, toolVars, setVars>>

-----------------------------------------------------------------------------
Doc == INSTANCE AbhiFiles WITH
    Absent <- NoRow, ChunkLimit <- 1, Keys <- {"k1"}, NodeIds <- {"n1", "n2"}, EdgeIds <- {"e1"}, MergedId <- "n1",
    Projects <- {"p1", "p2"}, Window <- "w1", MaxTime <- 2,
    phase <- docPhase, input <- docInput, result <- docResult

Md == INSTANCE MarkdownVault WITH
    Nodes <- {"n1", "n2"}, Stubs <- {"s1", "s2"}, Order <- <<"n1", "n2", "s1", "s2">>, MaxLabel <- 2,
    Texts <- {"x"}, StubText <- "stub", Shown <- 1, Absent <- NoRow, MaxEdits <- 2,
    nodes <- mdNodes, edges <- mdEdges, vault <- mdVault, writing <- mdWriting, edits <- mdEdits

\* An issue that is opened and closed and a push; a pull request, a workflow's run and an
\* event of no supported type.  Two deliveries in all, at once or after one another: of
\* all of them, or of the first three while somebody else edits or deletes a memory.
Delivery(kind, key, other, stamp, made, actor, text, commits) ==
    [kind |-> kind, key |-> key, other |-> other, title |-> text, at |-> stamp, made |-> made,
     actor |-> actor, text |-> text, commits |-> commits]
Issues == {Delivery("issue", "s1", NoRow, 1, NoRow, "a1", "open", <<>>),
           Delivery("issue", "s1", NoRow, 2, NoRow, NoRow, "closed", <<>>),
           Delivery("push", "s2", NoRow, 1, NoRow, NoRow, "push", <<[key |-> "c1", at |-> 1]>>)}
MoreEvents == {Delivery("pull-request", NoRow, "s2", NoRow, 1, NoRow, "merge", <<>>),
               Delivery("generic", "s2", NoRow, NoRow, NoRow, NoRow, "run", <<>>),
               Delivery("star", "s2", NoRow, 1, NoRow, NoRow, "star", <<>>)}

Gh1 == INSTANCE GithubEvents WITH
    Deliveries <- Issues \cup MoreEvents,
    Kinds <- {"issue", "pull-request", "discussion", "release", "push", "generic"},
    Subjects <- {"s1", "s2"}, Actors <- {"a1"}, Commits <- {"c1"}, MaxCommits <- 1, AtOnce <- 2,
    Missing <- NoRow, MaxTime <- 2, MaxRuns <- 2, MaxTouched <- 0,
    now <- ghNow, nodes <- ghNodes, edges <- ghEdges, run <- ghRun, checkpoint <- ghCheckpoint,
    context <- ghContext, exports <- ghExports, runs <- ghRuns, written <- ghWritten, raced <- ghRaced,
    touched <- ghTouched, finished <- ghFinished, together <- ghTogether

Gh2 == INSTANCE GithubEvents WITH
    Deliveries <- Issues,
    Kinds <- {"issue", "pull-request", "discussion", "release", "push", "generic"},
    Subjects <- {"s1", "s2"}, Actors <- {"a1"}, Commits <- {"c1"}, MaxCommits <- 1, AtOnce <- 2,
    Missing <- NoRow, MaxTime <- 2, MaxRuns <- 2, MaxTouched <- 1,
    now <- ghNow, nodes <- ghNodes, edges <- ghEdges, run <- ghRun, checkpoint <- ghCheckpoint,
    context <- ghContext, exports <- ghExports, runs <- ghRuns, written <- ghWritten, raced <- ghRaced,
    touched <- ghTouched, finished <- ghFinished, together <- ghTogether

\* Two sessions, three calls and one edit or clearing: calls of every kind, or two
\* checkpoints of transcripts that are there from the start, a clearing and a prompt.
Ho1 == INSTANCE ContextHandoff WITH
    Memories <- {"m1", "m2"}, Of <- [m \in {"m1", "m2"} |-> IF m = "m1" THEN "s1" ELSE "s2"],
    Sessions <- {"s1", "s2"}, All <- "all", Scopes <- {"all"}, Slug <- [s \in {"s1", "s2"} |-> s],
    Handoff <- "handoff", Prime <- "",
    Messages <- [q \in {"", "query"} |-> IF q = "" THEN {"m1", "m2"} ELSE {"m1"}],
    Kinds <- {"turn", "stop", "compact", "checkpoint", "prompt", "resume"},
    Missing <- NoRow, Torn <- Raised, AtOnce <- 2, MaxCalls <- 3, MaxEdits <- 1,
    db <- hoDb, said <- hoSaid, queued <- hoQueued, file <- hoFile, manifest <- hoManifest,
    call <- hoCall, begun <- hoBegun, edits <- hoEdits, latest <- hoLatest, gone <- hoGone

Ho2 == INSTANCE ContextHandoff WITH
    Memories <- {"m1", "m2"}, Of <- [m \in {"m1", "m2"} |-> IF m = "m1" THEN "s1" ELSE "s2"],
    Sessions <- {"s1", "s2"}, All <- "all", Scopes <- {"all"}, Slug <- [s \in {"s1", "s2"} |-> s],
    Handoff <- "handoff", Prime <- "",
    Messages <- [q \in {"", "query"} |-> IF q = "" THEN {"m1", "m2"} ELSE {"m1"}],
    Kinds <- {"compact", "prompt"},
    Missing <- NoRow, Torn <- Raised, AtOnce <- 1, MaxCalls <- 4, MaxEdits <- 1,
    db <- hoDb, said <- hoSaid, queued <- hoQueued, file <- hoFile, manifest <- hoManifest,
    call <- hoCall, begun <- hoBegun, edits <- hoEdits, latest <- hoLatest, gone <- hoGone

\* A row written three times, pulled with each strategy that takes one side or the later
\* stamp; or two rows and an edge that come and go, with the default strategy or the one
\* that makes edges of its own.
Ex1 == INSTANCE SnapshotExchange WITH
    Absent <- NoRow, ChunkLimit <- 1, NodeIds <- {"n1"}, EdgeIds <- {}, Window <- "w1", MaxClock <- 3,
    OneMedium <- TRUE, PullStrategies <- {"last_write_wins", "prefer_left", "prefer_right"},
    clock <- exClock, nodes <- exNodes, edges <- exEdges, windows <- exWindows, drive <- exDrive,
    backup <- exBackup, job <- exJob, touched <- exTouched, preferred <- exPreferred

Ex2 == INSTANCE SnapshotExchange WITH
    Absent <- NoRow, ChunkLimit <- 1, NodeIds <- {"n1", "n2"}, EdgeIds <- {"e1"}, Window <- "w1", MaxClock <- 2,
    OneMedium <- TRUE, PullStrategies <- {"last_write_wins", "contradict"},
    clock <- exClock, nodes <- exNodes, edges <- exEdges, windows <- exWindows, drive <- exDrive,
    backup <- exBackup, job <- exJob, touched <- exTouched, preferred <- exPreferred

\* Two edges and no other thread, or one edge and another thread's operation.
Ed1 == INSTANCE GraphEditor WITH
    Absent <- NoRow, NodeIds <- {"n1", "n2"}, Texts <- {"x", "y"}, EdgeIds <- {"e1", "e2"}, Opposed <- {<<"x", "y">>},
    MaxOthers <- 0, MaxHandlers <- 2,
    nodes <- edNodes, edges <- edEdges, handler <- edHandler, others <- edOthers, handled <- edHandled

Ed2 == INSTANCE GraphEditor WITH
    Absent <- NoRow, NodeIds <- {"n1", "n2"}, Texts <- {"x", "y"}, EdgeIds <- {"e1"}, Opposed <- {<<"x", "y">>},
    MaxOthers <- 1, MaxHandlers <- 2,
    nodes <- edNodes, edges <- edEdges, handler <- edHandler, others <- edOthers, handled <- edHandled

\* Two threads of a server and one of a hook, a call each.
ProcessOf == [t \in {"l1", "l2", "l3"} |-> IF t = "l3" THEN "hook" ELSE "server"]

\* Two children at once in one completion, or two completions of a persistent engine.
Rlm == INSTANCE RlmEngine WITH
    Root <- "root", Kids <- {"k1", "k2"}, MaxIterations <- 2, MaxErrors <- 1, MaxBudget <- 2,
    MaxTimeout <- 1, Persistent <- FALSE, Compaction <- FALSE, MaxClock <- 2,
    MaxCalls <- 2, Turns <- 1,
    now <- rlmNow, run <- rlmRun, spent <- rlmSpent, handlers <- rlmHandlers,
    turns <- rlmTurns, env <- rlmEnv, outcome <- rlmOutcome

Per == INSTANCE RlmEngine WITH
    Root <- "root", Kids <- {"k1", "k2"}, MaxIterations <- 2, MaxErrors <- 1, MaxBudget <- 1,
    MaxTimeout <- 1, Persistent <- TRUE, Compaction <- TRUE, MaxClock <- 1,
    MaxCalls <- 1, Turns <- 2,
    now <- rlmNow, run <- rlmRun, spent <- rlmSpent, handlers <- rlmHandlers,
    turns <- rlmTurns, env <- rlmEnv, outcome <- rlmOutcome

\* Two children's cells at once, of the four that max_concurrent_subcalls allows by
\* default; two are enough for a batch to mix.
Box == INSTANCE ReplSandbox WITH
    Root <- "root", Kids <- {"k1", "k2"}, Terminal <- "tty", Home <- "home", MaxWorkers <- 2,
    CellsOf <- 2, Kinds <- {"local", "ipython"},
    kind <- boxKind, out <- boxOut, cwd <- boxCwd, dirs <- boxDirs, cell <- boxCell, text <- boxText,
    printed <- boxPrinted, seen <- boxSeen, left <- boxLeft, mixed <- boxMixed

\* One window that spawns three servers, or two windows with one each.
Man1 == INSTANCE ServerManager WITH
    Windows <- {"v1"}, LastPort <- 2, MaxSpawns <- 3,
    child <- manChild, tracked <- manTracked, port <- manPort, saved <- manSaved, start <- manStart,
    stopping <- manStopping, shown <- manShown, off <- manOff

Man2 == INSTANCE ServerManager WITH
    Windows <- {"v1", "v2"}, LastPort <- 2, MaxSpawns <- 1,
    child <- manChild, tracked <- manTracked, port <- manPort, saved <- manSaved, start <- manStart,
    stopping <- manStopping, shown <- manShown, off <- manOff

\* Two calls that may fall back to the latest release, or three that may not.
Bin2 == INSTANCE BinaryCache WITH
    Calls <- {"c1", "c2"}, Requested <- "requested", Latest <- "latest", AllowLatest <- TRUE,
    Chunks <- 1, Closing <- {"c1"}, Kinds <- {"resolve", "ensure"},
    inode <- binInode, dest <- binDest, tmp <- binTmp, sidecar <- binSidecar, call <- binCall,
    lone <- binLone, spoilt <- binSpoilt

Bin3 == INSTANCE BinaryCache WITH
    Calls <- {"c1", "c2", "c3"}, Requested <- "requested", Latest <- "latest", AllowLatest <- FALSE,
    Chunks <- 1, Closing <- {}, Kinds <- {"resolve"},
    inode <- binInode, dest <- binDest, tmp <- binTmp, sidecar <- binSidecar, call <- binCall,
    lone <- binLone, spoilt <- binSpoilt

\* Two calls of tools, at once: of those that leave rows and sizes behind, of those that
\* hand a session on or drop it, or on a server whose embeddings are not ready; or any two
\* after one another.
ToolSession == [x \in {"n1", "n2", "t1"} |-> IF x = "n2" THEN "s2" ELSE "s1"]
ToolFile(kind) ==
    [kind |-> kind, nodes |-> {"n1"}, edges |-> {<<"n1", "n1">>}, said |-> {"t1"}, guarded |-> FALSE, seen |-> {},
     windows |-> [s \in {"s1", "s2"} |-> IF s = "s1" THEN "closed" ELSE "none"]]
ToolStore(ns, es, f) == [nodes |-> ns, edges |-> es, said |-> {}, file |-> f]

Tools1 == INSTANCE ToolCalls WITH
    Calls <- {"c1", "c2"}, NodeIds <- {"n1", "n2"}, Turns <- {"t1"}, Secrets <- {"t1"}, Nothing <- NoRow, MaxCalls <- 2,
    Tools <- {"store_node", "delete_node", "pull"},
    Session <- ToolSession, Project <- [s \in {"s1", "s2"} |-> "p1"], Unscoped <- NoRow,
    FastMode <- FALSE, Recursive <- TRUE, ServerCounts <- TRUE, Stores <- {ToolStore({"n2"}, {}, ToolFile("abhi"))},
    nodes <- toolNodes, edges <- toolEdges, said <- toolSaid, accessed <- toolAccessed,
    windows <- toolWindows, file <- toolFile, gauge <- toolGauge, counted <- toolCounted,
    call <- toolCall, begun <- toolBegun, uncounted <- toolUncounted, lag <- toolLag

Tools2 == INSTANCE ToolCalls WITH
    Calls <- {"c1", "c2"}, NodeIds <- {"n1", "n2"}, Turns <- {"t1"}, Secrets <- {"t1"}, Nothing <- NoRow, MaxCalls <- 2,
    Tools <- {"commit", "observe_conversation", "clear_session", "import_abhi"},
    Session <- ToolSession, Project <- [s \in {"s1", "s2"} |-> "p1"], Unscoped <- NoRow,
    FastMode <- FALSE, Recursive <- TRUE, ServerCounts <- FALSE, Stores <- {ToolStore({"n1"}, {}, NoRow)},
    nodes <- toolNodes, edges <- toolEdges, said <- toolSaid, accessed <- toolAccessed,
    windows <- toolWindows, file <- toolFile, gauge <- toolGauge, counted <- toolCounted,
    call <- toolCall, begun <- toolBegun, uncounted <- toolUncounted, lag <- toolLag

Tools3 == INSTANCE ToolCalls WITH
    Calls <- {"c1"}, NodeIds <- {"n1", "n2"}, Turns <- {"t1"}, Secrets <- {"t1"}, Nothing <- NoRow, MaxCalls <- 2,
    Tools <- {"store_node", "store_edge", "canonicalize_node", "resolve_conflict", "update_node", "delete_node",
              "clear_session", "clear_project", "clear_all", "decompose_and_store", "observe_conversation",
              "timeline", "prime_context", "build_context", "get_context_window", "close_context_window",
              "export_graph_html", "commit", "export_context_bundle", "import_abhi", "import_graph_backup",
              "merge_abhi", "fsck", "export_markdown_vault", "import_markdown_vault", "nonesuch"},
    Session <- ToolSession, Project <- [s \in {"s1", "s2"} |-> s], Unscoped <- "s2",
    FastMode <- FALSE, Recursive <- TRUE, ServerCounts <- TRUE, Stores <- {ToolStore({"n1", "n2"}, {<<"n1", "n2">>}, ToolFile(kind)) : kind \in {"abhi", "backup"}},
    nodes <- toolNodes, edges <- toolEdges, said <- toolSaid, accessed <- toolAccessed,
    windows <- toolWindows, file <- toolFile, gauge <- toolGauge, counted <- toolCounted,
    call <- toolCall, begun <- toolBegun, uncounted <- toolUncounted, lag <- toolLag

Tools4 == INSTANCE ToolCalls WITH
    Calls <- {"c1", "c2"}, NodeIds <- {"n1", "n2"}, Turns <- {"t1"}, Secrets <- {"t1"}, Nothing <- NoRow, MaxCalls <- 2,
    Tools <- {"query_graph", "build_context", "get_stats", "timeline", "export_context_bundle"},
    Session <- ToolSession, Project <- [s \in {"s1", "s2"} |-> "p1"], Unscoped <- NoRow,
    FastMode <- TRUE, Recursive <- FALSE, ServerCounts <- FALSE, Stores <- {ToolStore({"n1"}, {}, NoRow)},
    nodes <- toolNodes, edges <- toolEdges, said <- toolSaid, accessed <- toolAccessed,
    windows <- toolWindows, file <- toolFile, gauge <- toolGauge, counted <- toolCounted,
    call <- toolCall, begun <- toolBegun, uncounted <- toolUncounted, lag <- toolLag

\* The user's files: none, some with what the code takes for its own among it, some that
\* cannot be read.  One command of any kind beside an edit, or two commands at once.
SetupEntry(name, model) == [by |-> name, event |-> "", model |-> model]
NoFiles == [f \in {"cursor", "codex", "snippet", "agents", "settings"} |-> NoRow]
SetupStores ==
    {NoFiles,
     [NoFiles EXCEPT !["cursor"] = <<SetupEntry("u1", "")>>, !["settings"] = <<SetupEntry("mixed", ""), SetupEntry("u1", "")>>,
                     !["codex"] = <<SetupEntry("u1", ""), SetupEntry("waggle", "m1"), SetupEntry("noted", ""), SetupEntry("u2", "")>>],
     [NoFiles EXCEPT !["cursor"] = Auto, !["settings"] = <<>>, !["agents"] = <<SetupEntry("u1", "")>>]}
Command(kind, clients, model, rule, hooks) ==
    [kind |-> kind, clients |-> clients, model |-> model, rule |-> rule, hooks |-> hooks]
Uninstall == Command("uninstall", <<>>, "m1", FALSE, FALSE)

Setup1 == INSTANCE ClientSetup WITH
    Configs <- <<"cursor">>, Users <- {"u1", "u2", "mixed", "noted"}, Mixed <- {"mixed"}, Noted <- {"noted"},
    Events <- <<"prompt", "stop">>, Default <- "m1",
    Commands <- {Uninstall, Command("setup", <<>>, "m2", FALSE, TRUE), Command("init", <<"cursor">>, "m1", FALSE, FALSE),
                 Command("setup", <<"snippet", "codex">>, "m1", TRUE, FALSE)},
    Stores <- SetupStores, Procs <- {"c1"}, MaxEdits <- 1, Absent <- NoRow, Garbled <- Raised, Odd <- Auto,
    file <- setFile, call <- setCall, edits <- setEdits, wanted <- setWanted, spoilt <- setSpoilt

Setup2 == INSTANCE ClientSetup WITH
    Configs <- <<"cursor">>, Users <- {"u1", "u2", "mixed", "noted"}, Mixed <- {"mixed"}, Noted <- {"noted"},
    Events <- <<"prompt", "stop">>, Default <- "m1",
    Commands <- {Uninstall, Command("setup", <<"cursor">>, "m2", FALSE, TRUE), Command("init", <<"codex">>, "m1", FALSE, FALSE)},
    Stores <- SetupStores, Procs <- {"c1", "c2"}, MaxEdits <- 0, Absent <- NoRow, Garbled <- Raised, Odd <- Auto,
    file <- setFile, call <- setCall, edits <- setEdits, wanted <- setWanted, spoilt <- setSpoilt

ASSUME Setup1!SetupAssumption /\ Setup2!SetupAssumption
ASSUME Tools1!ToolsAssumption /\ Tools2!ToolsAssumption /\ Tools3!ToolsAssumption /\ Tools4!ToolsAssumption
ASSUME Man1!ManagerAssumption /\ Man2!ManagerAssumption /\ Bin2!CacheAssumption /\ Bin3!CacheAssumption
ASSUME Md!VaultAssumption /\ Gh1!EventsAssumption /\ Gh2!EventsAssumption /\ Ho1!HandoffAssumption /\ Ho2!HandoffAssumption
ASSUME Doc!ChunkAssumption /\ Ex1!ExchangeAssumption /\ Ex2!ExchangeAssumption
ASSUME GateAssumption /\ LockAssumption /\ AdminAssumption /\ DemoAssumption /\ Rlm!EngineAssumption /\ Per!EngineAssumption /\ Box!SandboxAssumption /\ CallsAssumption

-----------------------------------------------------------------------------
Parts == {"proposals", "documents", "vault", "github1", "github2", "handoff1", "handoff2", "exchange1", "exchange2", "administration",
          "editor1", "editor2", "demo", "gate", "locks", "engine", "persistent", "sandbox", "calls",
          "server1", "server2", "binary2", "binary3", "tools1", "tools2", "tools3", "tools4",
          "setup1", "setup2"}

\* What the variables of an instance are in behaviours of another part.
NoDocuments ==
    /\ docPhase = Null /\ docInput = Null /\ docResult = Null
NoVault ==
    /\ mdNodes = Null /\ mdEdges = Null /\ mdVault = Null /\ mdWriting = Null /\ mdEdits = Null
NoGithub ==
    /\ ghNow = Null /\ ghNodes = Null /\ ghEdges = Null /\ ghRun = Null /\ ghCheckpoint = Null
    /\ ghContext = Null /\ ghExports = Null /\ ghRuns = Null /\ ghWritten = Null /\ ghRaced = Null
    /\ ghTouched = Null /\ ghFinished = Null /\ ghTogether = Null
NoHandoff ==
    /\ hoDb = Null /\ hoSaid = Null /\ hoQueued = Null /\ hoFile = Null /\ hoManifest = Null /\ hoCall = Null
    /\ hoBegun = Null /\ hoEdits = Null /\ hoLatest = Null /\ hoGone = Null
NoExchange ==
    /\ exClock = Null /\ exNodes = Null /\ exEdges = Null /\ exWindows = Null /\ exDrive = Null
    /\ exBackup = Null /\ exJob = Null /\ exTouched = Null /\ exPreferred = Null
NoEditor ==
    /\ edNodes = Null /\ edEdges = Null /\ edHandler = Null /\ edOthers = Null /\ edHandled = Null
NoEngine ==
    /\ rlmNow = Null /\ rlmRun = Null /\ rlmSpent = Null /\ rlmHandlers = Null /\ rlmTurns = Null
    /\ rlmEnv = Null /\ rlmOutcome = Null
NoSandbox ==
    /\ boxKind = Null /\ boxOut = Null /\ boxCwd = Null /\ boxDirs = Null /\ boxCell = Null /\ boxText = Null
    /\ boxPrinted = Null /\ boxSeen = Null /\ boxLeft = Null /\ boxMixed = Null
NoServer ==
    /\ manChild = Null /\ manTracked = Null /\ manPort = Null /\ manSaved = Null /\ manStart = Null
    /\ manStopping = Null /\ manShown = Null /\ manOff = Null
NoBinary ==
    /\ binInode = Null /\ binDest = Null /\ binTmp = Null /\ binSidecar = Null /\ binCall = Null
    /\ binLone = Null /\ binSpoilt = Null
NoTools ==
    /\ toolNodes = Null /\ toolEdges = Null /\ toolSaid = Null /\ toolWindows = Null /\ toolAccessed = Null
    /\ toolFile = Null /\ toolGauge = Null /\ toolCounted = Null /\ toolCall = Null /\ toolBegun = Null
    /\ toolUncounted = Null /\ toolLag = Null
NoSetup ==
    /\ setFile = Null /\ setCall = Null /\ setEdits = Null /\ setWanted = Null /\ setSpoilt = Null

ComponentsInit ==
    /\ part \in Parts
    /\ Init /\ DemoInit /\ GateInit /\ LockInit
    /\ AdminInit /\ (part # "administration" => backend = "sqlite")
    /\ AskInit /\ (part # "calls" => env = "docker")
    /\ IF part = "documents" THEN Doc!Init ELSE NoDocuments
    /\ IF part = "vault" THEN Md!Init ELSE NoVault
    /\ IF part \in {"github1", "github2"} THEN Gh1!Init ELSE NoGithub
    /\ IF part \in {"handoff1", "handoff2"}
       THEN Ho1!Init /\ hoSaid = (IF part = "handoff2" THEN {"m1", "m2"} ELSE {})
       ELSE NoHandoff
    /\ CASE part = "exchange1" -> Ex1!Init [] part = "exchange2" -> Ex2!Init [] OTHER -> NoExchange
    /\ CASE part = "editor1" -> Ed1!Init [] part = "editor2" -> Ed2!Init [] OTHER -> NoEditor
    /\ CASE part = "engine" -> Rlm!Init [] part = "persistent" -> Per!Init [] OTHER -> NoEngine
    /\ IF part = "sandbox" THEN Box!Init ELSE NoSandbox
    /\ CASE part = "server1" -> Man1!Init [] part = "server2" -> Man2!Init [] OTHER -> NoServer
    /\ CASE part = "binary2" -> Bin2!Init [] part = "binary3" -> Bin3!Init [] OTHER -> NoBinary
    /\ CASE part = "tools1" -> Tools1!Init [] part \in {"tools2", "tools4"} -> Tools2!Init
         [] part = "tools3" -> Tools3!Init [] OTHER -> NoTools
    /\ CASE part = "setup1" -> Setup1!Init [] part = "setup2" -> Setup2!Init [] OTHER -> NoSetup

\* The step of one part leaves all the others' variables as they are.
Others(p) ==
    /\ part = p /\ UNCHANGED part
    /\ p # "proposals" => UNCHANGED vars
    /\ p # "documents" => UNCHANGED docVars
    /\ p # "vault" => UNCHANGED mdVars
    /\ p \notin {"github1", "github2"} => UNCHANGED ghVars
    /\ p \notin {"handoff1", "handoff2"} => UNCHANGED hoVars
    /\ p \notin {"exchange1", "exchange2"} => UNCHANGED exVars
    /\ p # "administration" => UNCHANGED adminVars
    /\ p \notin {"editor1", "editor2"} => UNCHANGED edVars
    /\ p # "demo" => UNCHANGED demoVars
    /\ p # "gate" => UNCHANGED gateVars
    /\ p # "locks" => UNCHANGED lockVars
    /\ p \notin {"engine", "persistent"} => UNCHANGED rlmVars
    /\ p # "sandbox" => UNCHANGED boxVars
    /\ p # "calls" => UNCHANGED askVars
    /\ p \notin {"server1", "server2"} => UNCHANGED manVars
    /\ p \notin {"binary2", "binary3"} => UNCHANGED binVars
    /\ p \notin {"tools1", "tools2", "tools3", "tools4"} => UNCHANGED toolVars
    /\ p \notin {"setup1", "setup2"} => UNCHANGED setVars

ComponentsNext ==
    \/ Others("proposals") /\ Next
    \/ Others("documents") /\ Doc!Next
    \/ Others("vault") /\ Md!Next
    \/ Others("github1") /\ Gh1!Next
    \/ Others("github2") /\ Gh2!Next
    \/ Others("handoff1") /\ Ho1!Next
    \/ Others("handoff2") /\ Ho2!Next
    \/ Others("exchange1") /\ Ex1!Next
    \/ Others("exchange2") /\ Ex2!Next
    \/ Others("administration") /\ AdminNext
    \/ Others("editor1") /\ Ed1!Next
    \/ Others("editor2") /\ Ed2!Next
    \/ Others("demo") /\ DemoNext
    \/ Others("gate") /\ GateNext
    \/ Others("locks") /\ LockNext
    \/ Others("engine") /\ Rlm!Next
    \/ Others("persistent") /\ Per!Next
    \/ Others("sandbox") /\ Box!Next
    \/ Others("calls") /\ AskNext
    \/ Others("server1") /\ Man1!Next
    \/ Others("server2") /\ Man2!Next
    \/ Others("binary2") /\ Bin2!Next
    \/ Others("binary3") /\ Bin3!Next
    \/ Others("tools1") /\ Tools1!Next
    \/ Others("tools2") /\ Tools2!Next
    \/ Others("tools3") /\ Tools3!Next
    \/ Others("tools4") /\ Tools4!Next
    \/ Others("setup1") /\ Setup1!Next
    \/ Others("setup2") /\ Setup2!Next

ComponentsSpec == ComponentsInit /\ [][ComponentsNext]_allVars

-----------------------------------------------------------------------------
\* What goes from store to store.  AbhiFiles: diff and merge agree on what changed, no
\* one-sided edit is lost, and a written file holds what its options say.  MarkdownVault:
\* what is exported and imported unedited changes nothing, and repeated imports settle.
\* SnapshotExchange: pulls and imports keep the store closed under its edges and every
\* stamp is that of a write somebody made, but for pulls that prefer the store's side,
\* which undo nothing here.  GithubEvents: a memory that no two runs raced for is of the
\* latest event written to it, a finished run's memories are whole, and what is handed on
\* is in step.
\* ContextHandoff: a checkpoint is complete, brings a cold session back and undoes nothing
\* newer.
ExchangeSound ==
    /\ part = "documents" => Doc!MergeSound /\ Doc!FilesSound
    /\ part = "vault" => Md!VaultSound
    /\ part = "exchange1" => Ex1!ExchangeSound
    /\ part = "exchange2" => Ex2!ExchangeSound
    /\ part = "github1" => Gh1!EventsSound
    /\ part = "github2" => Gh2!EventsSound
    /\ part = "handoff1" => Ho1!HandoffSound
    /\ part = "handoff2" => Ho2!HandoffSound

\* What is called on behalf of a model.  RlmEngine and ReplSandbox: handlers and turns are
\* accounted for, one-shot or persistent, an addition that no other overlaps is kept, a
\* cell that no other overlaps shows its own prints, none escapes and the process is
\* given back.  ToolCalls: a call of a tool is counted once, its annotations hold of
\* what it did, and the sizes that are reported lag only where the code lets them.
EngineSound ==
    /\ part = "engine" => Rlm!EngineSound
    /\ part = "persistent" => Per!EngineSound
    /\ part = "sandbox" => Box!SandboxSound
    /\ part = "tools1" => Tools1!ToolsSound
    /\ part = "tools2" => Tools2!ToolsSound
    /\ part = "tools3" => Tools3!ToolsSound
    /\ part = "tools4" => Tools4!ToolsSound

\* GraphEditor: an editor's save or restore lands on a graph closed under its edges and
\* keeps what was wanted.  ServerManager and BinaryCache: no server is forgotten or taken
\* for another's, and a call that no other overlaps gets a whole binary, whatever is left of
\* earlier ones, of releases that do not change meanwhile.
\* ClientSetup: the user's entries outlive the server's commands, which enter it once.
WorkspacesSound ==
    /\ part = "editor1" => Ed1!EditorSound
    /\ part = "editor2" => Ed2!EditorSound
    /\ part = "server1" => Man1!ManagerSound
    /\ part = "server2" => Man2!ManagerSound
    /\ part = "binary2" => Bin2!BinarySound
    /\ part = "binary3" => Bin3!BinarySound
    /\ part = "setup1" => Setup1!SetupSound
    /\ part = "setup2" => Setup2!SetupSound
=============================================================================
