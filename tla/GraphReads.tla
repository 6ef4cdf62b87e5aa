------------------------------ MODULE GraphReads ------------------------------
(***************************************************************************)
(* What the graph answers: the flat query and the tiered one, aggregation, *)
(* neighbours of a node and the priming context.  Each answer is computed  *)
(* in one section of the lock, but for the tiered query, which picks its   *)
(* context windows in sections before it.  Scores are left open - seeds    *)
(* and rankings are any the code could produce - so that what is checked   *)
(* is what holds whatever the embeddings say: the priority queue of the    *)
(* expansion, the filters, the limits and the counts of accesses.          *)
(***************************************************************************)
EXTENDS Naturals, Sequences, FiniteSets, SequencesExt

CONSTANTS
    NodeIds, Windows, NoRow, NoAnswer,
    Stored,      \* the rows a node may have: project, window, live
    Graphs,      \* the contents of the edges table: sequences of [src, dst, rel]
    Priority,    \* RELATION_WEIGHTS times the edge's weight, per relation, in thousandths
    MustPair,    \* MUST_PAIR_RELATIONS
    Scope,       \* the project asked about
    Spans,       \* the nodes a query's time window lets through: all of them when it names none
    MaxNodes, MaxDepth,   \* the arguments of the call
    MaxWrites    \* bound on the writes beside a call

ReadsAssumption == MaxNodes \in Nat \ {0} /\ MaxDepth \in Nat /\ MaxWrites \in Nat /\ NodeIds \in Spans

VARIABLES
    nodes, edges,
    access,      \* nodes.access_count, from 0 on
    routed,      \* the windows a tiered query has picked
    answer,      \* what the call returned
    writes

vars == <<nodes, edges, access, routed, answer, writes>>

Here     == {n \in NodeIds : nodes[n] # NoRow}
InScope  == {n \in Here : nodes[n].project = Scope}
Live     == {n \in Here : nodes[n].live}

\* The DiGraph: between two nodes and in one direction, the last edge counts.
Arc(u, v) == {i \in DOMAIN edges : edges[i].src = u /\ edges[i].dst = v}
Joins(u, v) == Arc(u, v) # {}
Data(u, v) == edges[CHOOSE i \in Arc(u, v) : \A j \in Arc(u, v) : j <= i].rel
First(u, v) == CHOOSE i \in Arc(u, v) : \A j \in Arc(u, v) : i <= j

\* Successors, then predecessors, in the order their first edge was read in.
Around(n) ==
    LET after  == {v \in NodeIds : Joins(n, v)}
        before == {v \in NodeIds : Joins(v, n)}
        Out(v) == [node |-> v, rel |-> Data(n, v)]
        In(v)  == [node |-> v, rel |-> Data(v, n)]
        outs == SetToSortSeq(after, LAMBDA v, w : First(n, v) < First(n, w))
        ins  == SetToSortSeq(before, LAMBDA v, w : First(v, n) < First(w, n))
    IN [i \in DOMAIN outs |-> Out(outs[i])] \o [i \in DOMAIN ins |-> In(ins[i])]

\* priority * weight * 0.7^depth against 0.20, in integers.
Effective(rel, depth) == Priority[rel] * 7^depth * 10^(MaxDepth - depth)
Strong(rel, depth)    == Effective(rel, depth) >= 200 * 10^MaxDepth

\* _expand_node_depths_with_context: the heap yields the strongest link first and, of
\* equals, the one pushed first; seeds were pushed with priority 0, so that links go
\* before the seeds that are left.  A node keeps the depth it is first popped at.
RECURSIVE Expansion(_, _, _)
Expansion(heap, count, depths) ==
    IF heap = {} THEN depths
    ELSE LET top  == CHOOSE h \in heap : \A o \in heap : h.eff > o.eff \/ (h.eff = o.eff /\ h.turn <= o.turn)
             rest == heap \ {top}
             seen == DOMAIN depths \cup {top.node}
             now  == [n \in seen |-> IF n \in DOMAIN depths THEN depths[n] ELSE top.depth]
             next == IF top.depth >= MaxDepth THEN <<>>
                     ELSE SelectSeq(Around(top.node), LAMBDA l : l.node \notin seen /\ Strong(l.rel, top.depth))
         IN IF top.node \in DOMAIN depths THEN Expansion(rest, count, depths)
            ELSE Expansion(rest \cup {[eff |-> Effective(next[i].rel, top.depth), turn |-> count + i,
                                       node |-> next[i].node, depth |-> top.depth + 1] : i \in DOMAIN next},
                           count + Len(next), now)

Depths(seeds) ==
    Expansion({[eff |-> 0, turn |-> i, node |-> seeds[i], depth |-> 0] : i \in DOMAIN seeds}, Len(seeds), <<>>)
Reached(seeds) == DOMAIN Depths(seeds)

-----------------------------------------------------------------------------
FirstOf(s, k) == SubSeq(s, 1, IF k < Len(s) THEN k ELSE Len(s))

\* _enforce_clause_coverage: the best node of each clause is appended while there is
\* room and else takes the last place.
\* Mutant: appended whether or not there is room.
Placed_Appends(chosen, best, limit) ==
    IF Contains(chosen, best) THEN chosen ELSE Append(chosen, best)

Placed(chosen, best, limit) ==
    IF Contains(chosen, best) THEN chosen
    ELSE IF Len(chosen) < limit THEN Append(chosen, best)
    ELSE Append(Front(chosen), best)
Covered(chosen, clauses, limit) == FoldLeft(LAMBDA s, c : Placed(s, c, limit), chosen, clauses)

\* _ensure_support_coverage: with room left, candidates paired with a chosen node by a
\* contradiction, an update or a dependency.
Paired(n, m) == \/ Joins(n, m) /\ Data(n, m) \in MustPair
                \/ Joins(m, n) /\ Data(m, n) \in MustPair
Supports(chosen, candidates) ==
    {m \in candidates \ ToSet(chosen) : \E i \in DOMAIN chosen : Paired(chosen[i], m)}
Supported(chosen, candidates, limit) ==
    {chosen \o FirstOf(s, limit - Len(chosen)) : s \in SetToSeqs(Supports(chosen, candidates))}

\* Seeds: the best max(1, max_nodes // 2), and what the clauses of the query add.
SeedLists(valid) ==
    LET most == IF MaxNodes = 1 THEN 2 ELSE MaxNodes
    IN {s \in SetToAllKPermutations(valid) : Len(s) \in 1 .. most}

\* Rankings: temporal hints and diversity may leave candidates out.
Rankings(candidates) == SetToAllKPermutations(candidates) \ {<<>>}

ReturnOf(kind, served, limit, valid, chosen, seeds, span) ==
    /\ answer' = [kind |-> kind, nodes |-> served, limit |-> limit, valid |-> valid, chosen |-> chosen,
                   seeds |-> seeds, span |-> span]
    /\ UNCHANGED <<nodes, edges, routed, writes>>
Return(kind, served, limit, valid, chosen, seeds) == ReturnOf(kind, served, limit, valid, chosen, seeds, NodeIds)

\* _increment_access_counts
Accessed(served) == access' = [n \in NodeIds |-> IF Contains(served, n) THEN access[n] + 1 ELSE access[n]]

\* _filter_valid_nodes
Valid(candidates, invalidated) == IF invalidated THEN candidates ELSE candidates \cap Live

\* within_time_window: the candidates of the window asked for, if there are any, replace
\* all of them, also those that support is drawn from.
\* Mutant: the window keeps nobody out.
Timely_All(candidates, span) == candidates

Timely(candidates, span) == IF candidates \cap span = {} THEN candidates ELSE candidates \cap span

QueryGraph(limit, invalidated) ==
    LET valid == Valid(InScope, invalidated)
    IN IF valid = {} THEN Return("graph", <<>>, limit, valid, <<>>, <<>>) /\ UNCHANGED access
       ELSE \E seeds \in SeedLists(valid), span \in Spans :
            LET candidates == Timely(Reached(seeds) \cap valid, span)
            IN \E ranked \in Rankings(candidates) :
               \E clauses \in {<<>>} \cup (ToSet(ranked) \X ToSet(ranked)) :
                  LET chosen == Covered(FirstOf(ranked, limit), clauses, limit)
                  IN \E served \in Supported(chosen, candidates, limit) :
                        ReturnOf("graph", served, limit, valid, chosen, seeds, span) /\ Accessed(served)

Idle == answer = NoAnswer /\ routed = NoAnswer

\* With expand_depth the answer may hold half as many nodes again.
Wider == MaxNodes + IF MaxNodes = 1 THEN 1 ELSE MaxNodes \div 2
Query == \E invalidated \in BOOLEAN, limit \in {MaxNodes, Wider} : Idle /\ QueryGraph(limit, invalidated)

\* tiered_query: the windows with a vector are scored in sections of their own.
RouteWindows ==
    /\ Idle
    /\ \E chosen \in SUBSET Windows : routed' = chosen
    /\ UNCHANGED <<nodes, edges, access, answer, writes>>

\* No window with a vector, or no candidate in them: the flat query, nested in the section.
ServeTiered ==
    /\ routed # NoAnswer /\ answer = NoAnswer
    /\ \E invalidated \in BOOLEAN :
       LET candidates == Valid({n \in InScope : nodes[n].window \in routed}, invalidated)
       IN IF candidates = {} THEN QueryGraph(MaxNodes, invalidated)
          ELSE \E ranked \in SetToSeqs(candidates) :
                  LET served == FirstOf(ranked, MaxNodes)
                  IN Return("tiered", served, MaxNodes, candidates, served, <<>>) /\ Accessed(served)

\* aggregate: the selection is filtered, what max_depth adds to it is not.
RECURSIVE Spread(_, _, _)
Spread(found, frontier, depth) ==
    LET next == {v \in NodeIds : \E u \in frontier : Joins(u, v) \/ Joins(v, u)} \ found
    IN IF depth = 0 \/ frontier = {} THEN found ELSE Spread(found \cup next, next, depth - 1)

Aggregate ==
    /\ Idle
    /\ \E invalidated \in BOOLEAN :
       LET valid == Valid(InScope, invalidated)
       IN \E ranked \in SetToSeqs(valid) :
          LET chosen == FirstOf(ranked, MaxNodes)
              added  == Spread(ToSet(chosen), ToSet(chosen), MaxDepth) \ ToSet(chosen)
          IN \E more \in SetToSeqs(added) :
                Return("aggregate", chosen \o more, MaxNodes, valid, chosen, <<>>) /\ Accessed(chosen \o more)

\* get_related: nx.shortest_path_length follows the arrows, the expansion does not.
RECURSIVE Downstream(_, _)
Downstream(found, steps) ==
    IF steps = 0 THEN found
    ELSE Downstream(found \cup {v \in NodeIds : \E u \in found : Joins(u, v)}, steps - 1)

\* Mutant: the accesses are counted before the distances are taken.
GetRelated_CountsFirst(n) ==
    LET related == Reached(<<n>>)
    IN /\ Idle /\ n \in Here
       /\ \E served \in SetToSeqs(related) : Accessed(served)
       /\ IF related \subseteq Downstream({n}, Cardinality(NodeIds))
          THEN \E served \in SetToSeqs(related) : Return("related", served, Cardinality(NodeIds), related, served, <<n>>)
          ELSE Return("no path", <<>>, 0, related, <<>>, <<n>>)

GetRelated(n) ==
    LET related == Reached(<<n>>)
    IN /\ Idle /\ n \in Here
       /\ IF related \subseteq Downstream({n}, Cardinality(NodeIds))
          THEN \E served \in SetToSeqs(related) : Return("related", served, Cardinality(NodeIds), related, served, <<n>>) /\ Accessed(served)
          ELSE Return("no path", <<>>, 0, related, <<>>, <<n>>) /\ UNCHANGED access

\* prime_context: seeds are the most connected, the latest and the project's nodes.
PrimeContext ==
    /\ Idle /\ InScope # {}
    /\ \E seeds \in Rankings(InScope) :
       LET candidates == Reached(seeds) \cap InScope
       IN \E ranked \in SetToSeqs(candidates) :
          LET chosen == FirstOf(ranked, MaxNodes)
          IN \E served \in Supported(chosen, candidates, MaxNodes) :
                Return("prime", served, MaxNodes, InScope, chosen, seeds) /\ UNCHANGED access

-----------------------------------------------------------------------------
Write == writes < MaxWrites /\ answer = NoAnswer /\ writes' = writes + 1

\* Another thread sets a node's valid_to, or deletes it with its edges.
Expire(n) ==
    /\ Write /\ n \in Live
    /\ nodes' = [nodes EXCEPT ![n].live = FALSE]
    /\ UNCHANGED <<edges, access, routed, answer>>

DeleteNode(n) ==
    /\ Write /\ n \in Here
    /\ nodes' = [nodes EXCEPT ![n] = NoRow]
    /\ edges' = SelectSeq(edges, LAMBDA e : n \notin {e.src, e.dst})
    /\ access' = [access EXCEPT ![n] = 0]
    /\ UNCHANGED <<routed, answer>>

Init ==
    /\ nodes \in [NodeIds -> Stored] /\ edges \in Graphs
    /\ access = [n \in NodeIds |-> 0]
    /\ routed = NoAnswer /\ answer = NoAnswer /\ writes = 0

Next ==
    \/ Query \/ RouteWindows \/ ServeTiered \/ Aggregate \/ PrimeContext
    \/ \E n \in NodeIds : GetRelated(n) \/ Expire(n) \/ DeleteNode(n)

Spec == Init /\ [][Next]_vars

-----------------------------------------------------------------------------
TypeOK ==
    /\ nodes \in [NodeIds -> Stored \cup {[s EXCEPT !.live = FALSE] : s \in Stored} \cup {NoRow}]
    /\ access \in [NodeIds -> 0 .. 1]
    /\ routed \in {NoAnswer} \cup SUBSET Windows /\ writes \in 0 .. MaxWrites
    /\ \A i \in DOMAIN edges : {edges[i].src, edges[i].dst} \subseteq Here

Answered(kinds) == answer # NoAnswer /\ answer.kind \in kinds
Served == ToSet(answer.nodes)

\* A query, flat or tiered, or a priming context serves nodes of the scope that were
\* valid when it read them, each once and no more than it was asked for; of a time
\* window, nodes inside are not mixed with nodes outside.
ServedFitTheCall ==
    Answered({"graph", "tiered", "prime"}) =>
        /\ Served \subseteq answer.valid /\ answer.valid \subseteq InScope
        /\ Len(answer.nodes) = Cardinality(Served) /\ Len(answer.nodes) <= answer.limit
        /\ Served \subseteq answer.span \/ Served \cap answer.span = {}

\* The chains of links from a seed that the decay leaves strong, layer by layer.
RECURSIVE Layer(_, _)
Layer(seeds, depth) ==
    IF depth = 0 THEN seeds
    ELSE {l.node : l \in UNION {{k \in ToSet(Around(n)) : Strong(k.rel, depth - 1)} : n \in Layer(seeds, depth - 1)}}

\* Whatever order the priority queue yields, what is served hangs on a seed by a chain
\* of at most max_depth links none of which the decay has made too weak.
ServedHangOnSeeds ==
    Answered({"graph", "prime", "related"}) =>
        Served \subseteq UNION {Layer(ToSet(answer.seeds), d) : d \in 0 .. MaxDepth}

\* With room in the answer, whatever contradicts, updates or supports a chosen node and
\* was reached is in it, unless it is outside the time window of the query and something
\* that was served is inside.  A window that nothing reached lies in leaves support alone.
SupportIsServed ==
    Answered({"graph", "prime"}) /\ Len(answer.nodes) < answer.limit =>
        \A m \in (Reached(answer.seeds) \cap answer.valid) \ Served :
            \/ m \notin answer.span /\ Served \cap answer.span # {}
            \/ \A i \in DOMAIN answer.chosen : ~Paired(answer.chosen[i], m)

\* The access count of a node tells how often it was served, by whichever path, and a
\* call that raised has counted nothing.
AccessTellsServed ==
    \A n \in Here : access[n] = IF Answered({"graph", "tiered", "aggregate", "related"}) /\ n \in Served THEN 1 ELSE 0

ReadsSound == TypeOK /\ ServedFitTheCall /\ ServedHangOnSeeds /\ SupportIsServed /\ AccessTellsServed

\* test_temporal_validity.py: "A node with valid_to in the past must NOT appear in
\* default aggregate results."  answer.valid is the filter the call asked for.
ExpiredStayOut == Answered({"aggregate"}) => \A n \in Served : n \in InScope => n \in answer.valid

\* docs/reference.md: get_related traverses the edges of a specific node.
RelatedAnswers == ~Answered({"no path"})
===============================================================================
