--------------------------- MODULE HybridRetrieval ---------------------------
(***************************************************************************)
(* A hybrid query: turn pairs and nodes ranked by vector, a lexical index  *)
(* over both, what derived_from edges lead to, fusion, an optional         *)
(* language model that re-ranks, and the nodes that are fetched for the    *)
(* hits.  Each of these reads in a section of its own, so other threads    *)
(* and processes write in between; the lexical index is kept in one slot   *)
(* of the process under the signature of what it was built from.           *)
(***************************************************************************)
EXTENDS Naturals, Sequences, FiniteSets, SequencesExt

CONSTANTS
    Calls,        \* queries under way in one process
    Pairs, NodeIds,   \* turn pairs; nodes, numbered in the order of their ids
    ProjectOf,    \* their projects
    PairOf,       \* source_turn_pair_id of the nodes, or Gone
    Derived,      \* the derived_from edges, as pairs of nodes
    Gone,         \* no such row, no such call
    TopK,         \* the smaller of top_k and rerank_top_k_out
    Rerank,       \* rerank_enabled
    MaxWrites     \* bound on the writes beside the queries

RetrievalAssumption == NodeIds \subseteq Nat /\ TopK \in Nat /\ MaxWrites \in Nat /\ Rerank \in BOOLEAN

VARIABLES
    turns,    \* turn pairs: version of the text, or Gone
    nodes,    \* nodes: version of the text, or Gone
    expired,  \* the nodes whose valid_to has passed
    slot,     \* root_graph._lexical_cache: signature, index, and whether a write overtook its build
    call,     \* the queries
    writes

vars == <<turns, nodes, expired, slot, call, writes>>

Projects == {ProjectOf[n] : n \in NodeIds}
Of(rows, project) == [r \in {x \in DOMAIN rows : rows[x] # Gone /\ ProjectOf[x] = project} |-> rows[r]]

\* _get_lexical_db_signature, of hashes that tell versions apart.
\* Mutant: the nodes are only counted.
Signature_NoVersions(project, mode) ==
    [project |-> project, mode |-> mode, turns |-> Of(turns, project),
     nodes |-> IF mode = "hybrid" THEN DOMAIN Of(nodes, project) ELSE {}]

Signature(project, mode) ==
    [project |-> project, mode |-> mode, turns |-> Of(turns, project),
     nodes |-> IF mode = "hybrid" THEN Of(nodes, project) ELSE <<>>]

Step(c, next) == call' = [call EXCEPT ![c] = next]

\* _load_turn_pairs
LoadTurnPairs(c) ==
    /\ call[c] = Gone
    /\ \E project \in Projects, mode \in {"hybrid", "verbatim"} :
          Step(c, [at |-> "vectors", project |-> project, mode |-> mode, pairs |-> Of(turns, project),
                   near |-> {}, cached |-> Gone, index |-> Gone, arcs |-> {}, graph |-> {}, fused |-> Gone,
                   hits |-> Gone, served |-> {}, overtaken |-> FALSE, right |-> TRUE])
    /\ UNCHANGED <<turns, nodes, expired, slot, writes>>

\* A candidate: its turn pair, or Gone, and its nodes.
OfNode(n) == [pair |-> PairOf[n], nodes |-> {n}]

\* _rank_nodes: in hybrid mode, the scope's nodes by their vectors.
RankNodes(c) ==
    /\ call[c] # Gone /\ call[c].at = "vectors"
    /\ Step(c, [call[c] EXCEPT !.at = "cache",
                    !.near = IF call[c].mode = "verbatim" THEN {}
                             ELSE {OfNode(n) : n \in DOMAIN Of(nodes, call[c].project)}])
    /\ UNCHANGED <<turns, nodes, expired, slot, writes>>

\* _rank_lexical: the slot is read before the section...
PeekCache(c) ==
    /\ call[c] # Gone /\ call[c].at = "cache"
    /\ Step(c, [call[c] EXCEPT !.at = "lexical", !.cached = slot])
    /\ UNCHANGED <<turns, nodes, expired, slot, writes>>

\* ... in which its index counts if its signature is today's; else one built of the
\* turn pairs loaded before and the nodes of now, which takes the slot.
NodesFor(c) == IF call[c].mode = "hybrid" THEN Of(nodes, call[c].project) ELSE <<>>
Built(c) == [turns |-> call[c].pairs, nodes |-> NodesFor(c)]
Current(c) == [turns |-> Of(turns, call[c].project), nodes |-> NodesFor(c)]

RankLexical(c) ==
    /\ call[c] # Gone /\ call[c].at = "lexical"
    /\ LET sig == Signature(call[c].project, call[c].mode)
           cached == call[c].cached
           hit == cached # Gone /\ cached.sig = sig
           index == IF hit THEN cached.index ELSE Built(c)
           overtaken == IF hit THEN cached.overtaken ELSE call[c].overtaken
       IN /\ Step(c, [call[c] EXCEPT !.at = "edges", !.cached = Gone, !.index = index,
                          !.right = (index = Current(c)), !.overtaken = overtaken])
          /\ IF hit THEN UNCHANGED slot ELSE slot' = [sig |-> sig, index |-> index, overtaken |-> overtaken]
    /\ UNCHANGED <<turns, nodes, expired, writes>>

\* _expand_graph_candidates: the edges in one section...
ReadEdges(c) ==
    /\ call[c] # Gone /\ call[c].at = "edges"
    /\ Step(c, [call[c] EXCEPT !.at = "expand",
                    !.arcs = {e \in Derived : \A n \in {e[1], e[2]} : nodes[n] # Gone}])
    /\ UNCHANGED <<turns, nodes, expired, slot, writes>>

Beside(found, arcs) == found \cup {n \in NodeIds : \E m \in found : <<m, n>> \in arcs \/ <<n, m>> \in arcs}

\* ... and in others the nodes within two of them of each seed, of any project.
Around(seed, arcs) ==
    LET there == {n \in Beside(Beside({seed}, arcs), arcs) : nodes[n] # Gone}
        pairs == {PairOf[n] : n \in there} \ {Gone}
    IN IF Beside({seed}, arcs) = {seed} THEN {}
       ELSE {[pair |-> p, nodes |-> there] : p \in IF pairs = {} THEN {Gone} ELSE pairs}

ExpandGraph(c) ==
    /\ call[c] # Gone /\ call[c].at = "expand"
    /\ LET seeds == {s \in UNION {k.nodes : k \in call[c].near} : Around(s, call[c].arcs) # {}}
       IN \E pick \in [seeds -> UNION {Around(s, call[c].arcs) : s \in seeds}] :
          /\ \A s \in seeds : pick[s] \in Around(s, call[c].arcs)
          /\ Step(c, [call[c] EXCEPT !.at = "fuse", !.graph = {pick[s] : s \in seeds}])
    /\ UNCHANGED <<turns, nodes, expired, slot, writes>>

\* _fuse_candidates: one entry to a turn pair, or to a first node, with all the nodes
\* that came under it.
Key(k) ==
    IF k.pair # Gone THEN <<"tp", k.pair>>
    ELSE <<"node", IF k.nodes = {} THEN Gone ELSE CHOOSE n \in k.nodes : \A m \in k.nodes : n <= m>>

Fused(c) ==
    LET found == {[pair |-> p, nodes |-> {}] : p \in DOMAIN call[c].pairs \cup DOMAIN call[c].index.turns}
                    \cup call[c].near \cup {OfNode(n) : n \in DOMAIN call[c].index.nodes} \cup call[c].graph
    IN [key \in {Key(k) : k \in found} |-> UNION {k.nodes : k \in {x \in found : Key(x) = key}}]

\* _rerank: the answer's known candidates, each once, then the best of the others.
FirstOf(s, k) == SubSeq(s, 1, IF k < Len(s) THEN k ELSE Len(s))
\* Mutant: a candidate named twice is taken twice.
Picked_Repeats(reply, keys) == SelectSeq(FirstOf(reply, TopK), LAMBDA key : key \in keys)

Picked(reply, keys) ==
    FoldLeft(LAMBDA s, key : IF key \in keys /\ ~Contains(s, key) THEN Append(s, key) ELSE s, <<>>, FirstOf(reply, TopK))
Reranked(reply, order) ==
    LET picked == Picked(reply, ToSet(order))
    IN IF picked = <<>> THEN FirstOf(order, TopK)
       ELSE FirstOf(picked \o SelectSeq(order, LAMBDA key : ~Contains(picked, key)), TopK)

\* The model may fail, and name candidates it was not given or one of them twice.
Replies(keys) == {<<>>} \cup IF Rerank THEN (keys \cup {<<"tp", Gone>>}) \X (keys \cup {<<"tp", Gone>>}) ELSE {}

Fuse(c) ==
    /\ call[c] # Gone /\ call[c].at = "fuse"
    /\ LET fused == Fused(c)
       IN \E order \in SetToSeqs(DOMAIN fused), reply \in Replies(DOMAIN fused) :
             Step(c, [call[c] EXCEPT !.at = "fetch", !.fused = fused, !.hits = Reranked(reply, order)])
    /\ UNCHANGED <<turns, nodes, expired, slot, writes>>

\* _subgraph_from_hybrid_hits and the validity filter of query
FetchNodes(c) ==
    /\ call[c] # Gone /\ call[c].at = "fetch"
    /\ Step(c, [call[c] EXCEPT !.at = "done",
                    !.served = {n \in UNION {call[c].fused[k] : k \in ToSet(call[c].hits)} : nodes[n] # Gone} \ expired])
    /\ UNCHANGED <<turns, nodes, expired, slot, writes>>

-----------------------------------------------------------------------------
\* Another thread or process writes; versions tell every writing from the others.
Write ==
    /\ writes < MaxWrites /\ writes' = writes + 1 /\ UNCHANGED slot
    /\ call' = [c \in Calls |-> IF call[c] # Gone /\ call[c].at \in {"vectors", "cache", "lexical"}
                                THEN [call[c] EXCEPT !.overtaken = TRUE] ELSE call[c]]

StoreTurn(p)  == Write /\ turns' = [turns EXCEPT ![p] = writes + 1] /\ UNCHANGED <<nodes, expired>>
PruneTurn(p)  == Write /\ turns[p] # Gone /\ turns' = [turns EXCEPT ![p] = Gone] /\ UNCHANGED <<nodes, expired>>
StoreNode(n)  == Write /\ nodes' = [nodes EXCEPT ![n] = writes + 1] /\ UNCHANGED <<turns, expired>>
DeleteNode(n) == Write /\ nodes[n] # Gone /\ nodes' = [nodes EXCEPT ![n] = Gone] /\ UNCHANGED <<turns, expired>>
Expire(n)     == Write /\ nodes[n] # Gone /\ expired' = expired \cup {n} /\ UNCHANGED <<turns, nodes>>

Init ==
    /\ turns = [p \in Pairs |-> 0] /\ nodes = [n \in NodeIds |-> 0] /\ expired = {}
    /\ slot = Gone /\ call = [c \in Calls |-> Gone] /\ writes = 0

Next ==
    \/ \E c \in Calls : \/ LoadTurnPairs(c) \/ RankNodes(c) \/ PeekCache(c) \/ RankLexical(c)
                        \/ ReadEdges(c) \/ ExpandGraph(c) \/ Fuse(c) \/ FetchNodes(c)
    \/ \E p \in Pairs : StoreTurn(p) \/ PruneTurn(p)
    \/ \E n \in NodeIds : StoreNode(n) \/ DeleteNode(n) \/ Expire(n)

Spec == Init /\ [][Next]_vars

-----------------------------------------------------------------------------
TypeOK ==
    /\ turns \in [Pairs -> 0 .. MaxWrites \cup {Gone}] /\ nodes \in [NodeIds -> 0 .. MaxWrites \cup {Gone}]
    /\ expired \subseteq NodeIds /\ writes \in 0 .. MaxWrites

\* The lexical layer ranks the scope's texts as they are, though its index is shared by
\* all projects and modes, unless a write overtook the query that built the index.
LexicalIsCurrent == \A c \in Calls : call[c] # Gone /\ ~call[c].right => call[c].overtaken

\* What a query of a project finds in its index, its rankings and along derived_from
\* edges is of the project or at most two such edges from it.
FoundNearProject ==
    \A c \in Calls : call[c] # Gone /\ call[c].fused # Gone =>
        LET own == {n \in NodeIds : ProjectOf[n] = call[c].project}
        IN /\ UNION {call[c].fused[k] : k \in DOMAIN call[c].fused} \subseteq Beside(Beside(own, Derived), Derived)
           /\ \A p \in Pairs : <<"tp", p>> \in DOMAIN call[c].fused =>
                 \/ ProjectOf[p] = call[c].project
                 \/ \E n \in call[c].fused[<<"tp", p>>] : PairOf[n] = p

\* Whatever the re-ranking model answers, there are as many hits as there can be, each
\* of a candidate of its own.
HitsAreFilled ==
    \A c \in Calls : call[c] # Gone /\ call[c].hits # Gone =>
        /\ ToSet(call[c].hits) \subseteq DOMAIN call[c].fused
        /\ Len(call[c].hits) = Cardinality(ToSet(call[c].hits))
        /\ \/ Len(call[c].hits) = TopK
           \/ Len(call[c].hits) = Cardinality(DOMAIN call[c].fused) /\ Len(call[c].hits) <= TopK

RetrievalSound == TypeOK /\ LexicalIsCurrent /\ FoundNearProject /\ HitsAreFilled
===============================================================================
