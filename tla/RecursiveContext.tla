---------------------------- MODULE RecursiveContext ----------------------------
(***************************************************************************)
(* The context pack of a task: build_context asks the graph one subquery   *)
(* after the other, each in sections of its own and each free to fail,     *)
(* then for the neighbours of the best hits, while others write to the     *)
(* graph.  From what was read it settles updates and conflicts, keeps one  *)
(* reading of each memory, ranks, and writes what fits the budget.         *)
(* Scores are in thousandths; a bullet's length is its memory's Cost.      *)
(***************************************************************************)
EXTENDS Naturals, Sequences, FiniteSets, SequencesExt, TLC

CONSTANTS
    Memories, Order,        \* ids, and their order by label
    Kind,                   \* node type of a memory
    Texts, Scores,
    Cost,                   \* tokens of a memory's bullet
    Graphs,                 \* what the edges may be at first: sequences of [src, dst, rel]
    Links,                  \* the edges others add
    MaxSubqueries, Depth,
    Budgets,                \* token_budget * 1.15; a large one stands for no compression
    TopHits, TopSeeds,      \* 5 and 3 in the code
    Nothing,
    MaxEdits                \* bound on the writes beside the build

ContextAssumption ==
    /\ MaxSubqueries \in Nat \ {0} /\ Depth \in Nat /\ MaxEdits \in Nat
    /\ Scores \subseteq 0 .. 1000 /\ Budgets \subseteq Nat /\ ToSet(Order) = Memories

VARIABLES
    nodes,      \* text and validity, or Nothing once deleted
    edges,
    build,      \* the call: its plan, what it has read, its seeds, its settings
    pack,       \* what it returned
    lastRead,   \* ghost: per memory, the text and validity of its last reading
    warned,     \* ghost: <<a, b, rel>> of the edges at a memory when it was read
    edits

vars == <<nodes, edges, build, pack, lastRead, warned, edits>>

Here == {n \in Memories : nodes[n] # Nothing}
Live == {n \in Here : nodes[n].live}

-----------------------------------------------------------------------------
\* _decompose_query: the retrieval each template asks for; "hybrid" goes first where it
\* is one of the modes.
Templates(intent) ==
    CASE intent = "continuation" -> <<"hybrid", "hybrid", "hybrid", "graph", "hybrid", "hybrid">>
      [] intent = "project"      -> <<"hybrid", "hybrid", "hybrid", "hybrid", "graph", "hybrid">>
      [] intent = "generic"      -> <<"hybrid", "hybrid", "graph", "graph", "verbatim">>

FirstOf(s, k) == SubSeq(s, 1, IF k < Len(s) THEN k ELSE Len(s))

Decomposed(intent, mode) ==
    FirstOf(CASE mode = "fast" -> FirstOf(Templates(intent), 3)
              [] mode = "deep" -> Templates(intent) \o <<"hybrid", "hybrid">>
              [] OTHER         -> Templates(intent), MaxSubqueries)

\* The ablations: the query as it is, or up to as many random pieces of it.
Plans == {Decomposed(i, m) : i \in {"continuation", "project", "generic"}, m \in {"fast", "balanced", "deep"}}
            \cup {[i \in 1 .. k |-> "hybrid"] : k \in 0 .. MaxSubqueries}

-----------------------------------------------------------------------------
\* Mutant: only the edges between two of the memories.
Touching_Within(es, ids) == SelectSeq(es, LAMBDA e : e.src \in ids /\ e.dst \in ids)

\* _fetch_edges_for_nodes: the edges with an end among the memories, the oldest first.
Touching(es, ids) == SelectSeq(es, LAMBDA e : e.src \in ids \/ e.dst \in ids)

\* _node_to_hit: no score counts as 0, and some types are raised.
HighSignal == {"decision", "preference", "concept"}
Raised(n, s) == IF Kind[n] \notin HighSignal THEN s ELSE IF s > 900 THEN 1000 ELSE s + 100
Hit(n, s) == [id |-> n, text |-> nodes[n].text, live |-> nodes[n].live, score |-> Raised(n, s),
              superseded |-> FALSE, updates |-> 0]
Hits(ids, score) ==
    LET Its == SelectSeq(Order, LAMBDA n : n \in ids) IN [i \in DOMAIN Its |-> Hit(Its[i], score[Its[i]])]

\* What a section of the graph gave: hits, and the edges at the memories it looked at.
Reads(hits, looked) ==
    /\ build' = [build EXCEPT !.hits = @ \o hits, !.edges = @ \o Touching(edges, looked), !.plan = Tail(@)]
    /\ lastRead' = [n \in Memories |-> IF \E i \in DOMAIN hits : hits[i].id = n THEN nodes[n] ELSE lastRead[n]]
    /\ warned' = warned \cup {<<edges[i].src, edges[i].dst, edges[i].rel>> :
                    i \in {j \in DOMAIN edges : \E k \in DOMAIN hits : hits[k].id \in {edges[j].src, edges[j].dst}}}
    /\ UNCHANGED <<nodes, edges, pack, edits>>

Retrieving == build # Nothing /\ pack = Nothing /\ build.plan # <<>> /\ build.seeds = Nothing

\* Hybrid and verbatim answers come without scores; what has expired is filtered out
\* after its edges were read.
HybridQuery ==
    /\ Retrieving /\ Head(build.plan) # "graph"
    /\ \E found \in SUBSET Here :
          Reads(Hits(found \cap Live, [n \in Memories |-> 0]), found)

GraphQuery ==
    /\ Retrieving /\ Head(build.plan) = "graph"
    /\ \E found \in SUBSET Live : \E score \in [found -> Scores] :
          Reads(Hits(found, score), found)

\* A failure is swallowed; what was not a graph query is asked again as one.
QueryFails ==
    /\ Retrieving
    /\ build' = [build EXCEPT !.plan = IF Head(@) = "graph" THEN Tail(@) ELSE <<"graph">> \o Tail(@)]
    /\ UNCHANGED <<nodes, edges, pack, lastRead, warned, edits>>

-----------------------------------------------------------------------------
\* The best hits, a memory as often as it was hit; the first few of them are expanded.
Best(hits) ==
    LET Rank(i, j) == hits[i].score > hits[j].score \/ (hits[i].score = hits[j].score /\ i < j)
        ranked == SetToSortSeq(DOMAIN hits, Rank)
    IN FirstOf([i \in DOMAIN ranked |-> hits[ranked[i]].id], TopHits)

StartExpansion ==
    /\ build # Nothing /\ pack = Nothing /\ build.plan = <<>> /\ build.seeds = Nothing
    /\ build' = IF build.hits # <<>> /\ build.expand
                THEN [build EXCEPT !.seeds = Best(build.hits), !.plan = FirstOf(Best(build.hits), TopSeeds)]
                ELSE [build EXCEPT !.seeds = <<>>]
    /\ UNCHANGED <<nodes, edges, pack, lastRead, warned, edits>>

Ends(e) == {e.src, e.dst}
Around(ids) == ids \cup UNION {Ends(edges[i]) : i \in {j \in DOMAIN edges : Ends(edges[j]) \cap ids # {}}}
Along(ids)  == ids \cup {edges[i].dst : i \in {j \in DOMAIN edges : edges[j].src \in ids}}
Steps(Move(_), n, k) == FoldLeft(LAMBDA ids, i : Move(ids), {n}, [i \in 1 .. k |-> i])

\* get_related: neighbours either way, of any validity - both relations are strong
\* enough to be followed - scored by their distance along the edges' direction: it
\* raises where there is no such path.
Related(n)    == Steps(Around, n, IF Depth > 2 THEN 2 ELSE Depth)
Measurable(n) == Related(n) \subseteq Steps(Along, n, Cardinality(Memories))

ExpandSeed ==
    /\ build # Nothing /\ pack = Nothing /\ build.plan # <<>> /\ build.seeds # Nothing
    /\ LET n == Head(build.plan)
       IN IF n \in Here /\ Measurable(n)
          THEN \E score \in [Related(n) -> Scores] : Reads(Hits(Related(n) \ ToSet(build.seeds), score), Related(n))
          ELSE /\ build' = [build EXCEPT !.plan = Tail(@)]
               /\ UNCHANGED <<nodes, edges, pack, lastRead, warned, edits>>

-----------------------------------------------------------------------------
Copies(hits, n) == SelectSeq(hits, LAMBDA h : h.id = n)

\* Mutant: the best copy of each memory is kept, as deduplication says it does.
Kept_Best(hits, resolve) ==
    {CHOOSE h \in ToSet(Copies(hits, n)) : \A o \in ToSet(Copies(hits, n)) : h.score >= o.score
        : n \in {hits[i].id : i \in DOMAIN hits}}

\* hit_by_id keeps the last copy of each memory; without resolution the first of the best.
Kept(hits, resolve) ==
    {LET mine == Copies(hits, n)
     IN IF resolve THEN mine[Len(mine)]
        ELSE mine[CHOOSE i \in DOMAIN mine : /\ \A j \in DOMAIN mine : mine[i].score >= mine[j].score
                                             /\ \A j \in 1 .. (i - 1) : mine[j].score < mine[i].score]
        : n \in {hits[i].id : i \in DOMAIN hits}}

\* An edge read twice counts twice.
Weighed(h, e) ==
    CASE e.rel = "updates" /\ e.dst = h.id -> [h EXCEPT !.superseded = TRUE, !.score = (@ * 3) \div 10]
      [] e.rel = "updates" /\ e.src = h.id ->
            [h EXCEPT !.updates = @ + 1, !.score = IF @ > 850 THEN 1000 ELSE @ + 150]
      [] OTHER -> h
Aged(h) == IF h.live THEN h ELSE [h EXCEPT !.superseded = TRUE, !.score = (@ * 2) \div 10]

Resolved(hits, es) == {Aged(FoldLeft(Weighed, h, es)) : h \in Kept(hits, TRUE)}
Conflicts(hits, es) ==
    LET Known == {hits[i].id : i \in DOMAIN hits}
    IN SelectSeq(es, LAMBDA e : e.rel = "contradicts" /\ e.src \in Known /\ e.dst \in Known)

\* _rank_hits: superseded ones last, then by score, then by label.
Place(n) == CHOOSE i \in DOMAIN Order : Order[i] = n
Ranked(hits) ==
    LET Behind(h) == IF h.superseded THEN 1 ELSE 0
    IN SetToSortSeq(hits, LAMBDA g, h :
          \/ Behind(g) < Behind(h)
          \/ Behind(g) = Behind(h) /\ (g.score > h.score \/ (g.score = h.score /\ Place(g.id) < Place(h.id))))

-----------------------------------------------------------------------------
Spent(hits) == FoldLeft(LAMBDA sum, h : sum + Cost[h.id], 0, hits)

\* A section stops at its first bullet that does not fit.
Fitting(hits, room) ==
    LET k == CHOOSE i \in 0 .. Len(hits) : /\ Spent(SubSeq(hits, 1, i)) <= room
                                           /\ (i < Len(hits) => Spent(SubSeq(hits, 1, i + 1)) > room)
                                           /\ \A j \in 1 .. i : Spent(SubSeq(hits, 1, j)) <= room
    IN SubSeq(hits, 1, k)

Section(h) ==
    CASE h.superseded                               -> "superseded"
      [] Kind[h.id] = "decision"                    -> "decisions"
      [] Kind[h.id] \in {"preference", "concept"}   -> "constraints"
      [] Kind[h.id] = "question"                    -> "unfinished"
      [] OTHER                                      -> "implementation"
Sections == <<"decisions", "constraints", "implementation", "unfinished">>

\* _compress_to_budget: the current sections, then conflicts, each of one token here,
\* then up to three superseded memories, all out of one budget.
Compressed(ranked, conflicts, room) ==
    LET In(name)  == SelectSeq(ranked, LAMBDA h : Section(h) = name)
        current   == FoldLeft(LAMBDA shown, name : shown \o Fitting(In(name), room - Spent(shown)), <<>>, Sections)
        left      == room - Spent(current)
        listed    == FirstOf(conflicts, left)
    IN [current |-> current, listed |-> listed, room |-> room,
        superseded |-> Fitting(FirstOf(In("superseded"), 3), left - Len(listed))]

Finish ==
    /\ build # Nothing /\ pack = Nothing /\ build.plan = <<>> /\ build.seeds # Nothing
    /\ LET hits      == IF build.resolve THEN Resolved(build.hits, build.edges) ELSE Kept(build.hits, FALSE)
           conflicts == IF build.resolve THEN Conflicts(build.hits, build.edges) ELSE <<>>
       IN \E room \in Budgets :
             pack' = Compressed(Ranked(hits), conflicts, room) @@ [conflicts |-> conflicts]
    /\ UNCHANGED <<nodes, edges, build, lastRead, warned, edits>>

-----------------------------------------------------------------------------
\* build_context: an empty query never gets here.
Begin ==
    /\ build = Nothing
    /\ \E plan \in Plans, expand \in BOOLEAN, resolve \in BOOLEAN :
          build' = [plan |-> plan, hits |-> <<>>, edges |-> <<>>, seeds |-> Nothing,
                    expand |-> expand /\ Depth > 0, resolve |-> resolve]
    /\ UNCHANGED <<nodes, edges, pack, lastRead, warned, edits>>

\* Meanwhile a memory is rewritten, expires or is deleted with its edges, or gets related.
Edit ==
    /\ build # Nothing /\ pack = Nothing
    /\ edits < MaxEdits /\ edits' = edits + 1
    /\ \/ \E n \in Here, t \in Texts : nodes' = [nodes EXCEPT ![n].text = t] /\ UNCHANGED edges
       \/ \E n \in Live : nodes' = [nodes EXCEPT ![n].live = FALSE] /\ UNCHANGED edges
       \/ \E n \in Here : /\ nodes' = [nodes EXCEPT ![n] = Nothing]
                          /\ edges' = SelectSeq(edges, LAMBDA e : n \notin Ends(e))
       \/ \E e \in Links : Ends(e) \subseteq Here /\ edges' = Append(edges, e) /\ UNCHANGED nodes
    /\ UNCHANGED <<build, pack, lastRead, warned>>

Init ==
    /\ nodes = [n \in Memories |-> [text |-> 0, live |-> TRUE]]
    /\ edges \in Graphs
    /\ build = Nothing /\ pack = Nothing /\ edits = 0 /\ warned = {}
    /\ lastRead = [n \in Memories |-> Nothing]

Next ==
    \/ Begin \/ HybridQuery \/ GraphQuery \/ QueryFails
    \/ StartExpansion \/ ExpandSeed \/ Finish \/ Edit

-----------------------------------------------------------------------------
Shown == pack.current \o pack.superseded

\* Of a memory that several subqueries read while it was edited, the pack shows the last
\* reading, and shows the memory once.  (hit_by_id, and the order of the reads.)
ReadingsSound ==
    /\ \A i, j \in DOMAIN Shown : Shown[i].id = Shown[j].id => i = j
    /\ build.resolve => \A i \in DOMAIN Shown : Shown[i].text = lastRead[Shown[i].id].text

\* What the graph knew to be updated when a subquery hit it, whichever subquery that was
\* and whether the newer memory was hit at all, is not shown as current, nor is what had
\* expired when it was last read.  (_resolve_updates_and_conflicts on edges fetched at
\* either end.)
SupersededAside ==
    build.resolve => \A i \in DOMAIN pack.current :
        /\ \A w \in warned : ~(w[3] = "updates" /\ w[2] = pack.current[i].id)
        /\ lastRead[pack.current[i].id].live

\* Of two shown memories that contradicted each other when either was read, the reader
\* is told, or the budget is used up.
ConflictsTold ==
    build.resolve => \A i, j \in DOMAIN Shown :
        <<Shown[i].id, Shown[j].id, "contradicts">> \in warned =>
            \/ \E k \in DOMAIN pack.listed : pack.listed[k].src = Shown[i].id /\ pack.listed[k].dst = Shown[j].id
            \/ Spent(Shown) + Len(pack.listed) >= pack.room

PackSound == pack # Nothing => ReadingsSound /\ SupersededAside /\ ConflictsTold
===============================================================================
