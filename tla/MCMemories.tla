------------------------------ MODULE MCMemories ------------------------------
(***************************************************************************)
(* ProposalWorkflow in one process and, on instances of their own, what    *)
(* stores and finds memories: vectors and their maker, conflicts, the      *)
(* graph's answers, hybrid retrieval and context packs.  They share        *)
(* nothing here: part, chosen in the initial state, says which of them a   *)
(* behaviour is one of; the others do not move.                            *)
(***************************************************************************)
EXTENDS MCProposalWorkflow, ConflictAuthority, EmbeddingStore

CONSTANTS Null, NoRow

VARIABLES
    part,
    readNodes, readEdges, readAccess, readRouted, readAnswer, readWrites,
    findTurns, findNodes, findExpired, findSlot, findCall, findWrites,
    ctxNodes, ctxEdges, ctxBuild, ctxPack, ctxRead, ctxWarned, ctxEdits

readVars == <<readNodes, readEdges, readAccess, readRouted, readAnswer, readWrites>>
findVars == <<findTurns, findNodes, findExpired, findSlot, findCall, findWrites>>
ctxVars  == <<ctxNodes, ctxEdges, ctxBuild, ctxPack, ctxRead, ctxWarned, ctxEdits>>
allVars  == <<part, vars, embVars, authorityVars, readVars, findVars, ctxVars>>

-----------------------------------------------------------------------------
\* The phrases of ConflictAuthority: none near another, two opposed.  It has two parts: three
\* nodes that nobody updates or gives an end, or two that are told up to MaxTold times.
NearNone == {}
OpposedPair == {<<"p1", "p3">>}

\* Three memories and up to two of four edges, two of them between the same nodes: only
\* there their order says which is the last.  A node is a valid one of the project, an
\* expired one or elsewhere.
ReadEdges == <<[src |-> "n1", dst |-> "n2", rel |-> "contradicts"],
               [src |-> "n1", dst |-> "n2", rel |-> "similar_to"],
               [src |-> "n2", dst |-> "n3", rel |-> "similar_to"],
               [src |-> "n3", dst |-> "n1", rel |-> "contradicts"]>>
ReadPairs == {p \in (1 .. 4) \X (1 .. 4) : p[1] < p[2] \/ p = <<2, 1>>}

Reads == INSTANCE GraphReads WITH
    NodeIds <- {"n1", "n2", "n3"}, Windows <- {"w1", "w2"}, NoAnswer <- Null,
    Stored <- {[project |-> "p1", window |-> "w1", live |-> TRUE],
               [project |-> "p1", window |-> "w2", live |-> FALSE],
               [project |-> "p2", window |-> "w1", live |-> TRUE]},
    Graphs <- {<<>>} \cup {<<ReadEdges[i]>> : i \in 1 .. 4} \cup {<<ReadEdges[p[1]], ReadEdges[p[2]]>> : p \in ReadPairs},
    Priority <- [contradicts |-> 1000, similar_to |-> 300], MustPair <- {"contradicts"},
    Scope <- "p1", MaxNodes <- 2, MaxDepth <- 2, MaxWrites <- 1,
    Spans <- {{"n1", "n2", "n3"}, {"n1", "n3"}},
    nodes <- readNodes, edges <- readEdges, access <- readAccess, routed <- readRouted,
    answer <- readAnswer, writes <- readWrites

\* Two queries and one write; a turn pair and a node in each of two projects.
Find == INSTANCE HybridRetrieval WITH
    Calls <- {"c1", "c2"}, Pairs <- {11, 12}, NodeIds <- {1, 2},
    ProjectOf <- (11 :> "p1" @@ 12 :> "p2" @@ 1 :> "p1" @@ 2 :> "p2"), PairOf <- (1 :> 11 @@ 2 :> NoRow),
    Derived <- {<<1, 2>>}, Gone <- NoRow, TopK <- 2, Rerank <- TRUE, MaxWrites <- 1,
    turns <- findTurns, nodes <- findNodes, expired <- findExpired, slot <- findSlot,
    call <- findCall, writes <- findWrites

\* A decision, a fact and a question, three graphs of up to two edges and one write.
Link(src, dst, rel) == [src |-> src, dst |-> dst, rel |-> rel]
Ctx == INSTANCE RecursiveContext WITH
    Memories <- {"n1", "n2", "n3"}, Order <- <<"n1", "n2", "n3">>,
    Kind <- [n1 |-> "decision", n2 |-> "fact", n3 |-> "question"], Texts <- {1}, Scores <- {400},
    Cost <- [n1 |-> 1, n2 |-> 2, n3 |-> 1],
    Graphs <- {<<>>, <<Link("n1", "n2", "updates")>>,
               <<Link("n1", "n2", "contradicts"), Link("n2", "n3", "updates")>>},
    Links <- {Link("n3", "n1", "updates"), Link("n1", "n3", "contradicts")},
    MaxSubqueries <- 2, Depth <- 1, Budgets <- {2, 9}, TopHits <- 2, TopSeeds <- 1, Nothing <- Null, MaxEdits <- 1,
    nodes <- ctxNodes, edges <- ctxEdges, build <- ctxBuild, pack <- ctxPack,
    lastRead <- ctxRead, warned <- ctxWarned, edits <- ctxEdits

ASSUME BatchAssumption /\ AuthorityAssumption /\ Reads!ReadsAssumption /\ Find!RetrievalAssumption /\ Ctx!ContextAssumption

-----------------------------------------------------------------------------
\* What the variables of an instance are in behaviours of another part.
NoReads ==
    /\ readNodes = Null /\ readEdges = Null /\ readAccess = Null
    /\ readRouted = Null /\ readAnswer = Null /\ readWrites = Null
NoFind ==
    /\ findTurns = Null /\ findNodes = Null /\ findExpired = Null
    /\ findSlot = Null /\ findCall = Null /\ findWrites = Null
NoContext ==
    /\ ctxNodes = Null /\ ctxEdges = Null /\ ctxBuild = Null /\ ctxPack = Null
    /\ ctxRead = Null /\ ctxWarned = Null /\ ctxEdits = Null

MemoriesInit ==
    /\ part \in {"proposals", "vectors", "conflicts", "restated", "reads", "retrieval", "context"}
    /\ Init /\ AuthorityInit
    /\ EmbInit /\ (part # "vectors" => rows = Empty)
    /\ IF part = "reads" THEN Reads!Init ELSE NoReads
    /\ IF part = "retrieval" THEN Find!Init ELSE NoFind
    /\ IF part = "context" THEN Ctx!Init ELSE NoContext

\* The step of one part leaves all the others' variables as they are.
Others(p) ==
    /\ part = p /\ UNCHANGED part
    /\ p # "proposals" => UNCHANGED vars
    /\ p # "vectors" => UNCHANGED embVars
    /\ p \notin {"conflicts", "restated"} => UNCHANGED authorityVars
    /\ p # "reads" => UNCHANGED readVars
    /\ p # "retrieval" => UNCHANGED findVars
    /\ p # "context" => UNCHANGED ctxVars

MemoriesNext ==
    \/ Others("proposals") /\ Next
    \/ Others("vectors") /\ EmbNext
    \/ Others("conflicts") /\ AuthorityNext /\ made'.told = 0
    \/ Others("restated") /\ AuthorityNext /\ made'.nodes <= 2
    \/ Others("reads") /\ Reads!Next
    \/ Others("retrieval") /\ Find!Next
    \/ Others("context") /\ Ctx!Next

MemoriesSpec == MemoriesInit /\ [][MemoriesNext]_allVars

-----------------------------------------------------------------------------
\* HybridRetrieval: a shared lexical index is of the texts as they are unless a write
\* overtook its build.  GraphReads: an answer is in scope, valid, within its limit,
\* connected to its seeds and counted once.  RecursiveContext: a pack shows each memory
\* once, as it was last read, and nothing as current that was known to be updated.
AnswersSound ==
    /\ part = "retrieval" => Find!RetrievalSound
    /\ part = "reads" => Reads!ReadsSound
    /\ part = "context" => Ctx!PackSound

-----------------------------------------------------------------------------
\* What the repository says of these components and TLC refutes.
\* GraphReads: no expired node is in a default aggregate.
ExpiredStayOut == part = "reads" => Reads!ExpiredStayOut
===============================================================================
