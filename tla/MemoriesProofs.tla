--------------------------- MODULE MemoriesProofs ---------------------------
(***************************************************************************)
(* Proofs about two components MCMemories runs: what adds, verdicts,       *)
(* rewrites, merges and deletes keep of ConflictAuthority's graph, and     *)
(* which vectors of EmbeddingStore a reader gets, whatever rewrites them.  *)
(***************************************************************************)
EXTENDS ConflictAuthority, EmbeddingStore, FiniteSetTheorems, TLAPS

\* The edges add_edge and the merges answer for: update_edge rewrote none of them.
Kept == DOMAIN edges \ edited

\* Two edges of es say the same.
SameKey(es, d, e) == es[d].src = es[e].src /\ es[d].dst = es[e].dst /\ es[d].rel = es[e].rel
Distinct(es, K) == \A d, e \in K : SameKey(es, d, e) => d = e
NoLoop(es, K) == \A e \in K : es[e].src # es[e].dst

\* The tables are functions of the ids given out so far.
Shape ==
    /\ Here \subseteq NodeIds /\ nodes \in [Here -> Row]
    /\ DOMAIN edges \subseteq EdgeIds /\ edges \in [DOMAIN edges -> Edge]
    /\ made \in [nodes : 0..MaxNodes, edges : 0..MaxEdges, told : 0..MaxTold]
    /\ Here \subseteq 1..made.nodes /\ DOMAIN edges \subseteq 1..made.edges
    /\ renewed \subseteq Here
    /\ edited \subseteq DOMAIN edges

\* A verdict names an end of its edge, or a node that is gone for good.
WinnerKnown(e) ==
    edges[e].winner # NoNode =>
        \/ edges[e].winner \in {edges[e].src, edges[e].dst}
        \/ edges[e].winner \in (1..made.nodes) \ Here
LoserOut(e) ==
    edges[e].winner \in {edges[e].src, edges[e].dst} =>
        \E loser \in {edges[e].src, edges[e].dst} \ {edges[e].winner} :
            Out(loser)
Verdicts == \A e \in Kept : WinnerKnown(e) /\ LoserOut(e)

GraphInv ==
    /\ Shape
    /\ EdgesClosed
    /\ Distinct(edges, Kept)
    /\ NoLoop(edges, Kept)
    /\ Verdicts

-----------------------------------------------------------------------------
(* Facts about the operators.                                              *)

\* A finite set's sequence lists each of its elements once.
LEMMA SeqOfSet ==
    ASSUME NEW S, IsFiniteSet(S)
    PROVE  /\ Cardinality(S) \in Nat
           /\ SetToSeq(S) \in [1..Cardinality(S) -> S]
           /\ Len(SetToSeq(S)) = Cardinality(S)
           /\ \A i, j \in 1..Cardinality(S) : SetToSeq(S)[i] = SetToSeq(S)[j] => i = j
           /\ Range(SetToSeq(S)) \subseteq S
<1>1. Cardinality(S) \in Nat /\ ExistsBijection(1..Cardinality(S), S)
  BY FS_CardinalityType
<1>2. PICK f \in [1..Cardinality(S) -> S] : IsInjective(f)
  BY <1>1 DEF ExistsBijection, Bijection, Injection, IsInjective
<1>3. SetToSeq(S) \in [1..Cardinality(S) -> S] /\ IsInjective(SetToSeq(S))
  BY <1>2, Zenon DEF SetToSeq
<1>4. Len(SetToSeq(S)) = Cardinality(S)
  BY <1>1, <1>3
<1>5. Range(SetToSeq(S)) \subseteq S
  BY <1>3 DEF Range
<1> QED
  BY <1>1, <1>3, <1>4, <1>5 DEF IsInjective

\* Restricting the edges keeps what is left of them apart and free of loops.
LEMMA RestrictKeeps ==
    ASSUME NEW es, NEW S, NEW K, K \subseteq S, Distinct(es, K), NoLoop(es, K)
    PROVE  Distinct(Restrict(es, S), K) /\ NoLoop(Restrict(es, S), K)
  BY DEF Restrict, Distinct, SameKey, NoLoop

\* Moving the sources that repeat no edge of the other node makes no two edges alike.
LEMMA SourcesDistinct ==
    ASSUME NEW es, es \in [DOMAIN es -> Edge], NEW K \in SUBSET (DOMAIN es), NEW n, NEW c, Distinct(es, K)
    PROVE  Distinct(MoveSources(es, n, c), K)
<1> DEFINE ms == MoveSources(es, n, c)
<1>1. \A e \in DOMAIN es : /\ ms[e].dst = es[e].dst /\ ms[e].rel = es[e].rel
                           /\ ms[e].src = es[e].src
                              \/ (/\ es[e].src = n /\ ms[e].src = c
                                  /\ ~ \E d \in DOMAIN es : es[d].src = c /\ es[d].dst = es[e].dst /\ es[d].rel = es[e].rel)
  BY DEF MoveSources, Edge
<1>2. SUFFICES ASSUME NEW d \in K, NEW e \in K, SameKey(ms, d, e) PROVE d = e
  BY Zenon DEF Distinct
<1>3. d \in DOMAIN es /\ e \in DOMAIN es
  OBVIOUS
<1> HIDE DEF ms
<1>4. es[d].dst = es[e].dst /\ es[d].rel = es[e].rel
  BY <1>1, <1>2, <1>3 DEF SameKey
<1>5. es[d].src = es[e].src
  BY <1>1, <1>2, <1>3, <1>4 DEF SameKey
<1> QED
  BY <1>4, <1>5 DEF Distinct, SameKey

\* The same of the targets.
LEMMA TargetsDistinct ==
    ASSUME NEW es, es \in [DOMAIN es -> Edge], NEW K \in SUBSET (DOMAIN es), NEW n, NEW c, Distinct(es, K)
    PROVE  Distinct(MoveTargets(es, n, c), K)
<1> DEFINE mt == MoveTargets(es, n, c)
<1>1. \A e \in DOMAIN es : /\ mt[e].src = es[e].src /\ mt[e].rel = es[e].rel
                           /\ mt[e].dst = es[e].dst
                              \/ (/\ es[e].dst = n /\ mt[e].dst = c
                                  /\ ~ \E d \in DOMAIN es : es[d].src = es[e].src /\ es[d].dst = c /\ es[d].rel = es[e].rel)
  BY DEF MoveTargets, Edge
<1>2. SUFFICES ASSUME NEW d \in K, NEW e \in K, SameKey(mt, d, e) PROVE d = e
  BY Zenon DEF Distinct
<1>3. d \in DOMAIN es /\ e \in DOMAIN es
  OBVIOUS
<1> HIDE DEF mt
<1>4. es[d].src = es[e].src /\ es[d].rel = es[e].rel
  BY <1>1, <1>2, <1>3 DEF SameKey
<1>5. es[d].dst = es[e].dst
  BY <1>1, <1>2, <1>3, <1>4 DEF SameKey
<1> QED
  BY <1>4, <1>5 DEF Distinct, SameKey

\* What a merge leaves of each edge: it joined not just the two nodes, it is moved
\* end by end from n to c, and its relationship and verdict are as they were.
MovedFrom(rp, es, n, c) ==
    /\ rp \in [DOMAIN rp -> Edge] /\ DOMAIN rp \subseteq DOMAIN es
    /\ \A e \in DOMAIN rp :
          /\ {es[e].src, es[e].dst} # {n, c}
          /\ rp[e].src = IF es[e].src = n THEN c ELSE es[e].src
          /\ rp[e].dst = IF es[e].dst = n THEN c ELSE es[e].dst
          /\ rp[e].rel = es[e].rel /\ rp[e].winner = es[e].winner

LEMMA RepointedEdges ==
    ASSUME NEW es, es \in [DOMAIN es -> Edge], NEW n \in NodeIds, NEW c \in NodeIds, n # c
    PROVE  MovedFrom(Repointed(es, n, c), es, n, c)
<1> DEFINE ap == Apart(es, n, c)
           ms == MoveSources(ap, n, c)
           mt == MoveTargets(ms, n, c)
           rp == Repointed(es, n, c)
<1>1. /\ DOMAIN ap \subseteq DOMAIN es /\ ap \in [DOMAIN ap -> Edge]
      /\ \A e \in DOMAIN ap : ap[e] = es[e] /\ {es[e].src, es[e].dst} # {n, c}
  BY DEF Apart, Restrict
<1> HIDE DEF ap
<1>2. /\ DOMAIN ms = DOMAIN ap /\ ms \in [DOMAIN ap -> Edge]
      /\ \A e \in DOMAIN ap : /\ ms[e].src = ap[e].src \/ (ap[e].src = n /\ ms[e].src = c)
                              /\ ms[e].dst = ap[e].dst /\ ms[e].rel = ap[e].rel /\ ms[e].winner = ap[e].winner
  BY <1>1 DEF MoveSources, Edge
<1> HIDE DEF ms
<1>3. /\ DOMAIN mt = DOMAIN ms /\ mt \in [DOMAIN ms -> Edge]
      /\ \A e \in DOMAIN ms : /\ mt[e].dst = ms[e].dst \/ (ms[e].dst = n /\ mt[e].dst = c)
                              /\ mt[e].src = ms[e].src /\ mt[e].rel = ms[e].rel /\ mt[e].winner = ms[e].winner
  BY <1>2 DEF MoveTargets, Edge
<1> HIDE DEF mt
<1>4. rp = Restrict(mt, {e \in DOMAIN mt : n \notin {mt[e].src, mt[e].dst}})
  BY DEF Repointed, mt, ms, ap
<1>5. /\ DOMAIN rp \subseteq DOMAIN mt /\ rp \in [DOMAIN rp -> Edge]
      /\ \A e \in DOMAIN rp : rp[e] = mt[e] /\ n \notin {mt[e].src, mt[e].dst}
  BY <1>3, <1>4 DEF Restrict
<1> HIDE DEF rp
<1>6. ASSUME NEW e \in DOMAIN rp
      PROVE  /\ {es[e].src, es[e].dst} # {n, c}
             /\ rp[e].src = IF es[e].src = n THEN c ELSE es[e].src
             /\ rp[e].dst = IF es[e].dst = n THEN c ELSE es[e].dst
             /\ rp[e].rel = es[e].rel /\ rp[e].winner = es[e].winner
  <2>1. e \in DOMAIN ap /\ e \in DOMAIN ms /\ e \in DOMAIN mt
    BY <1>2, <1>3, <1>5
  <2>2. /\ ms[e].src = es[e].src \/ (es[e].src = n /\ ms[e].src = c)
        /\ ms[e].dst = es[e].dst /\ ms[e].rel = es[e].rel /\ ms[e].winner = es[e].winner
    BY <2>1, <1>1, <1>2
  <2>3. /\ rp[e].dst = es[e].dst \/ (es[e].dst = n /\ rp[e].dst = c)
        /\ rp[e].src = ms[e].src /\ rp[e].rel = es[e].rel /\ rp[e].winner = es[e].winner
    BY <2>1, <2>2, <1>3, <1>5
  <2>4. rp[e].src # n /\ rp[e].dst # n
    BY <1>5
  <2> QED
    BY <2>1, <2>2, <2>3, <2>4, <1>1
<1>7. DOMAIN rp \subseteq DOMAIN es
  BY <1>1, <1>2, <1>3, <1>5
<1> QED
  BY <1>5, <1>6, <1>7 DEF rp, MovedFrom

\* A merge makes no two edges alike and no loop.
LEMMA RepointedKeeps ==
    ASSUME NEW es, es \in [DOMAIN es -> Edge], NEW K \in SUBSET (DOMAIN es), NEW n \in NodeIds, NEW c \in NodeIds,
           n # c, Distinct(es, K), NoLoop(es, K)
    PROVE  /\ Distinct(Repointed(es, n, c), K \intersect DOMAIN Repointed(es, n, c))
           /\ NoLoop(Repointed(es, n, c), K \intersect DOMAIN Repointed(es, n, c))
<1> DEFINE ap == Apart(es, n, c)
           ms == MoveSources(ap, n, c)
           mt == MoveTargets(ms, n, c)
           rp == Repointed(es, n, c)
           L == K \intersect DOMAIN ap
<1>1. DOMAIN ap \subseteq DOMAIN es /\ ap \in [DOMAIN ap -> Edge] /\ \A e \in DOMAIN ap : ap[e] = es[e]
  BY DEF Apart, Restrict
<1>2. Distinct(ap, L)
  BY <1>1, Zenon DEF Distinct, SameKey
<1>a. L \in SUBSET (DOMAIN ap)
  OBVIOUS
<1> HIDE DEF ap, L
<1>3. DOMAIN ms = DOMAIN ap /\ ms \in [DOMAIN ms -> Edge]
  BY <1>1 DEF MoveSources, Edge
<1>4. Distinct(ms, L)
  BY <1>1, <1>2, <1>a, SourcesDistinct
<1> HIDE DEF ms
<1>5. DOMAIN mt = DOMAIN ms
  BY DEF MoveTargets
<1>6. Distinct(mt, L)
  BY <1>3, <1>4, <1>a, TargetsDistinct
<1> HIDE DEF mt
<1>7. rp = Restrict(mt, {e \in DOMAIN mt : n \notin {mt[e].src, mt[e].dst}})
  BY DEF Repointed, mt, ms, ap
<1>8. K \intersect DOMAIN rp \subseteq L /\ \A e \in DOMAIN rp : rp[e] = mt[e]
  BY <1>3, <1>5, <1>7 DEF Restrict, L
<1>9. Distinct(rp, K \intersect DOMAIN rp)
  BY <1>6, <1>8, Zenon DEF Distinct, SameKey
<1>10. NoLoop(rp, K \intersect DOMAIN rp)
  <2>1. MovedFrom(rp, es, n, c)
    BY RepointedEdges DEF rp
  <2> HIDE DEF rp
  <2> QED
    BY <2>1 DEF NoLoop, MovedFrom
<1> QED
  BY <1>9, <1>10 DEF rp

-----------------------------------------------------------------------------
(* Every operation keeps the invariant.                                    *)

\* Edges that stay as they are keep their verdicts when no node of theirs is
\* brought back unnoticed, and ids are given out only once.
LEMMA SameVerdicts ==
    ASSUME GraphInv, NEW e \in Kept, edges'[e] = edges[e],
           made.nodes \in Nat, made'.nodes \in Nat, made.nodes <= made'.nodes,
           Here' \subseteq Here \union ((made.nodes + 1)..made'.nodes),
           \A m \in {edges[e].src, edges[e].dst} : Out(m) => Out(m)'
    PROVE  WinnerKnown(e)' /\ LoserOut(e)'
<1>1. WinnerKnown(e) /\ LoserOut(e)
  BY DEF GraphInv, Verdicts
<1>2. WinnerKnown(e)'
  BY <1>1 DEF WinnerKnown, NoNode
<1>3. LoserOut(e)'
  BY <1>1 DEF LoserOut
<1> QED
  BY <1>2, <1>3

\* The row of one node is written, and if it was out it stays out or is noted as renewed.
LEMMA RowKeeps ==
    ASSUME GraphInv, NEW n \in Here, NEW row \in Row, nodes' = [nodes EXCEPT ![n] = row],
           made' \in [nodes : 0..MaxNodes, edges : 0..MaxEdges, told : 0..MaxTold],
           made'.nodes = made.nodes, made'.edges = made.edges, UNCHANGED <<edges, edited>>,
           renewed \subseteq renewed', renewed' \subseteq Here,
           Out(n) => row.until = "past" \/ n \in renewed'
    PROVE  GraphInv'
<1>1. nodes \in [Here -> Row]
  BY DEF GraphInv, Shape
<1>2. Here' = Here /\ nodes' \in [Here -> Row]
  BY <1>1 DEF Here
<1>3. Kept' = Kept
  BY DEF Kept
<1>4. Shape'
  BY <1>2 DEF GraphInv, Shape, NodeIds, EdgeIds
<1>5. EdgesClosed'
  BY <1>2 DEF GraphInv, EdgesClosed
<1>6. Distinct(edges, Kept)' /\ NoLoop(edges, Kept)'
  BY <1>3 DEF GraphInv, Distinct, NoLoop, SameKey
<1>7. \A m \in Here : Out(m) => Out(m)'
  <2> SUFFICES ASSUME NEW m \in Here, Out(m) PROVE Out(m)'
    OBVIOUS
  <2>1. CASE m = n
    BY <1>1, <2>1 DEF Out
  <2>2. CASE m # n
    BY <1>1, <2>2 DEF Out
  <2> QED
    BY <2>1, <2>2
<1>8. Verdicts'
  <2> SUFFICES ASSUME NEW e \in Kept PROVE WinnerKnown(e)' /\ LoserOut(e)'
    BY <1>3 DEF Verdicts
  <2>1. {edges[e].src, edges[e].dst} \subseteq Here
    BY DEF GraphInv, EdgesClosed, Kept
  <2>2. edges' = edges /\ made.nodes \in Nat
    BY DEF GraphInv, Shape
  <2> QED
    BY <2>1, <2>2, <1>2, <1>7, SameVerdicts
<1> QED
  BY <1>4, <1>5, <1>6, <1>8 DEF GraphInv

LEMMA ToldTyped ==
    ASSUME AuthorityAssumption, GraphInv, NEW k \in {0, 1}, made.told + k <= MaxTold
    PROVE  /\ [made EXCEPT !.told = @ + k] \in [nodes : 0..MaxNodes, edges : 0..MaxEdges, told : 0..MaxTold]
           /\ [made EXCEPT !.told = @ + k].nodes = made.nodes
           /\ [made EXCEPT !.told = @ + k].edges = made.edges
  BY DEF AuthorityAssumption, GraphInv, Shape

\* A duplicate is merged: its row is valid to the later of both ends.
LEMMA MergeKeeps ==
    ASSUME AuthorityAssumption, GraphInv, NEW p \in Phrases, NEW u \in Given, NEW m \in Duplicates(p),
           made.told + Told(u) <= MaxTold, MergeDuplicate(m, p, u)
    PROVE  GraphInv'
<1>1. m \in Here /\ m \in NodeIds /\ nodes[m] \in Row /\ u \in Ends
  BY DEF Duplicates, GraphInv, Shape, AuthorityAssumption
<1>2. PICK row : row = [ReadForDuplicate(m) EXCEPT !.aliases = {} \union ({p} \ {nodes[m].content}),
                                                   !.until = LatestEnd(nodes[m].until, u)]
  OBVIOUS
<1>3. /\ nodes' = [nodes EXCEPT ![m] = row] /\ renewed' = Renewed(m, u)
      /\ made' = [made EXCEPT !.told = @ + Told(u)] /\ UNCHANGED <<edges, edited>>
  BY <1>1, <1>2 DEF MergeDuplicate, ReadForDuplicate, Row
<1>4. LatestEnd(nodes[m].until, u) \in Ends
  BY <1>1 DEF LatestEnd, Ends, Row
<1>5. row \in Row /\ row.until = LatestEnd(nodes[m].until, u)
  BY <1>1, <1>2, <1>4 DEF ReadForDuplicate, Row
<1>6. Out(m) => row.until = "past" \/ m \in renewed'
  BY <1>1, <1>3, <1>5 DEF Out, Renewed, LatestEnd, Ends
<1>7. renewed \subseteq renewed' /\ renewed' \subseteq Here
  BY <1>1, <1>3 DEF Renewed, GraphInv, Shape
<1>8. Told(u) \in {0, 1}
  BY DEF Told
<1> QED
  BY <1>1, <1>3, <1>5, <1>6, <1>7, <1>8, RowKeeps, ToldTyped

\* update_node writes any end over the old one.
LEMMA EditNodeKeeps ==
    ASSUME AuthorityAssumption, GraphInv, NEW n \in NodeIds, NEW p \in Phrases, NEW u \in Given, NEW f \in BOOLEAN,
           EditNode(n, p, u, f)
    PROVE  GraphInv'
<1>1. n \in Here /\ nodes[n] \in Row /\ nodes \in [Here -> Row] /\ u \in Ends /\ made.told < MaxTold
  BY DEF EditNode, GraphInv, Shape, AuthorityAssumption
<1>a. PICK by \in BOOLEAN : by = (nodes[n].superseded /\ ~f)
  OBVIOUS
<1>2. PICK row : row = [content |-> p, aliases |-> nodes[n].aliases, superseded |-> by,
                        until |-> IF u = "none" THEN nodes[n].until ELSE u]
  OBVIOUS
<1>3. row \in Row /\ row.until = IF u = "none" THEN nodes[n].until ELSE u
  BY <1>1, <1>2 DEF Row
<1>4. nodes' = [nodes EXCEPT ![n] = row]
  BY <1>1, <1>a, <1>2 DEF EditNode
<1>5. renewed' = Renewed(n, u) /\ made' = [made EXCEPT !.told = @ + 1] /\ UNCHANGED <<edges, edited>>
  BY DEF EditNode
<1>6. Out(n) => row.until = "past" \/ n \in renewed'
  BY <1>1, <1>3, <1>5 DEF Out, Renewed, Ends
<1>7. renewed \subseteq renewed' /\ renewed' \subseteq Here
  BY <1>1, <1>5 DEF Renewed, GraphInv, Shape
<1>8. made.told + 1 <= MaxTold
  BY <1>1 DEF GraphInv, Shape, AuthorityAssumption
<1> QED
  BY <1>1, <1>3, <1>4, <1>5, <1>6, <1>7, <1>8, RowKeeps, ToldTyped

LEMMA EndedKeeps ==
    ASSUME GraphInv, NEW n \in NodeIds, Ended(n)
    PROVE  GraphInv'
<1>1. n \in Here /\ nodes[n] \in Row /\ nodes \in [Here -> Row] /\ UNCHANGED <<edges, renewed, edited, made>>
  BY DEF Ended, GraphInv, Shape
<1>2. PICK row : row = [nodes[n] EXCEPT !.until = "past"]
  OBVIOUS
<1>3. row \in Row /\ row.until = "past" /\ nodes' = [nodes EXCEPT ![n] = row]
  BY <1>1, <1>2 DEF Ended, Row, Ends
<1> QED
  BY <1>1, <1>3, RowKeeps DEF GraphInv, Shape

\* A new node: its conflicts are new edges to other nodes, one to each.
LEMMA InsertKeeps ==
    ASSUME AuthorityAssumption, GraphInv, NEW p \in Phrases, NEW u \in Given,
           made.told + Told(u) <= MaxTold, InsertNode(p, u)
    PROVE  GraphInv'
<1> DEFINE n == made.nodes + 1
           O == {m \in Here : AtOdds(nodes[m].content, p)}
           s == SetToSeq(O)
           row == [content |-> p, aliases |-> {}, superseded |-> FALSE, until |-> u]
           marked == [m \in Here |-> IF m \in Range(s) THEN [nodes[m] EXCEPT !.superseded = TRUE] ELSE nodes[m]]
           New == (made.edges + 1)..(made.edges + Len(s))
<1>0. made.nodes \in Nat /\ made.edges \in Nat /\ MaxNodes \in Nat /\ MaxEdges \in Nat
  BY DEF GraphInv, Shape, AuthorityAssumption
<1>1. IsFiniteSet(O)
  <2>1. IsFiniteSet(1..MaxNodes)
    BY <1>0, FS_Interval
  <2> QED
    BY <2>1, FS_Subset DEF GraphInv, Shape, NodeIds
<1>2. /\ Len(s) \in Nat
      /\ \A i, j \in 1..Len(s) : s[i] = s[j] => i = j
      /\ \A i \in 1..Len(s) : s[i] \in Here
      /\ Range(s) \subseteq Here
  BY <1>1, SeqOfSet
<1>3. /\ n <= MaxNodes /\ made.edges + Len(s) <= MaxEdges
      /\ nodes' = With(marked, n, row)
      /\ edges' = [e \in DOMAIN edges \union New |->
                     IF e \in DOMAIN edges THEN edges[e] ELSE NewEdge(n, s[e - made.edges], "contradicts")]
      /\ made' = [made EXCEPT !.nodes = n, !.edges = @ + Len(s), !.told = @ + Told(u)]
      /\ UNCHANGED <<renewed, edited>>
  BY Zenon DEF InsertNode
<1> HIDE DEF O, s
<1>4. n \in NodeIds /\ n \notin Here /\ Here \subseteq NodeIds
  BY <1>0, <1>3 DEF NodeIds, GraphInv, Shape
<1>5. row \in Row
  BY DEF Row, Ends, AuthorityAssumption
<1>6. marked \in [Here -> Row] /\ \A m \in Here : marked[m].until = nodes[m].until
  BY <1>4 DEF Row, GraphInv, Shape
<1> HIDE DEF row, marked
<1>7. /\ Here' = Here \union {n} /\ nodes' \in [Here' -> Row]
      /\ \A m \in Here : nodes'[m].until = nodes[m].until
  BY <1>3, <1>4, <1>5, <1>6 DEF With, Here
<1>8. New \intersect DOMAIN edges = {}
  BY <1>0, <1>2 DEF GraphInv, Shape
<1>9. DOMAIN edges' = DOMAIN edges \union New /\ \A e \in DOMAIN edges : edges'[e] = edges[e]
  BY <1>3
<1>10. \A e \in New : /\ e - made.edges \in 1..Len(s)
                      /\ edges'[e] = NewEdge(n, s[e - made.edges], "contradicts")
  BY <1>0, <1>2, <1>3, <1>8
<1>11. \A e \in New : edges'[e] \in Edge /\ edges'[e].src = n /\ edges'[e].dst = s[e - made.edges]
                      /\ edges'[e].dst \in Here /\ edges'[e].winner = NoNode
  <2> SUFFICES ASSUME NEW e \in New
               PROVE  edges'[e] \in Edge /\ edges'[e].src = n /\ edges'[e].dst = s[e - made.edges]
                      /\ edges'[e].dst \in Here /\ edges'[e].winner = NoNode
    OBVIOUS
  <2>1. s[e - made.edges] \in Here /\ s[e - made.edges] \in NodeIds
    BY <1>2, <1>4, <1>10
  <2>2. edges'[e] = [src |-> n, dst |-> s[e - made.edges], rel |-> "contradicts", winner |-> NoNode]
    BY <1>10 DEF NewEdge
  <2> QED
    BY <2>1, <2>2, <1>4 DEF Edge, AuthorityAssumption
<1>12. Kept' = Kept \union New
  BY <1>3, <1>8, <1>9 DEF Kept, GraphInv, Shape
<1>13. Shape'
  <2>1. DOMAIN edges' \subseteq EdgeIds /\ DOMAIN edges' \subseteq 1..made'.edges
    BY <1>0, <1>2, <1>3, <1>9 DEF EdgeIds, GraphInv, Shape
  <2>2. edges' \in [DOMAIN edges' -> Edge]
    BY <1>3, <1>9, <1>11 DEF GraphInv, Shape
  <2>3. made' \in [nodes : 0..MaxNodes, edges : 0..MaxEdges, told : 0..MaxTold]
    <3>1. made.told \in Nat /\ Told(u) \in Nat /\ MaxTold \in Nat
      BY DEF Told, GraphInv, Shape, AuthorityAssumption
    <3>2. made' = [nodes |-> n, edges |-> made.edges + Len(s), told |-> made.told + Told(u)]
      BY <1>3 DEF GraphInv, Shape
    <3> QED
      BY <1>0, <1>2, <1>3, <3>1, <3>2
  <2>4. Here' \subseteq NodeIds /\ Here' \subseteq 1..made'.nodes
    BY <1>0, <1>3, <1>4, <1>7 DEF GraphInv, Shape
  <2> QED
    BY <2>1, <2>2, <2>3, <2>4, <1>3, <1>7, <1>9 DEF Shape, GraphInv, NodeIds, EdgeIds
<1>14. EdgesClosed'
  BY <1>7, <1>9, <1>11 DEF EdgesClosed, GraphInv
<1>15. Distinct(edges, Kept)'
  <2> SUFFICES ASSUME NEW d \in Kept', NEW e \in Kept', SameKey(edges', d, e) PROVE d = e
    BY Zenon DEF Distinct
  <2>1. CASE d \in Kept /\ e \in Kept
    BY <2>1, <1>9 DEF GraphInv, Distinct, SameKey, Kept
  <2>2. CASE d \in New /\ e \in New
    <3>1. s[d - made.edges] = s[e - made.edges]
      BY <2>2, <1>11 DEF SameKey
    <3>2. d - made.edges = e - made.edges
      BY <3>1, <2>2, <1>2, <1>10
    <3> QED
      BY <3>2, <2>2, <1>0
  <2>3. \A x \in Kept : edges'[x].src \in Here
    BY <1>9 DEF GraphInv, EdgesClosed, Kept
  <2> QED
    BY <2>1, <2>2, <2>3, <1>4, <1>11, <1>12 DEF SameKey
<1>16. NoLoop(edges, Kept)'
  BY <1>4, <1>9, <1>11, <1>12 DEF NoLoop, GraphInv, Kept
<1>17. Verdicts'
  <2> SUFFICES ASSUME NEW e \in Kept' PROVE WinnerKnown(e)' /\ LoserOut(e)'
    BY DEF Verdicts
  <2>1. CASE e \in New
    <3>1. edges'[e].winner = NoNode /\ NoNode \notin {edges'[e].src, edges'[e].dst}
      BY <2>1, <1>4, <1>11 DEF NodeIds, NoNode
    <3> QED
      BY <3>1 DEF WinnerKnown, LoserOut
  <2>2. CASE e \in Kept
    <3>1. edges'[e] = edges[e] /\ {edges[e].src, edges[e].dst} \subseteq Here
      BY <2>2, <1>9 DEF GraphInv, EdgesClosed, Kept
    <3>2. made'.nodes = n /\ renewed' = renewed
      BY <1>3
    <3>3. made'.nodes \in Nat /\ made.nodes <= made'.nodes /\ Here' \subseteq Here \union ((made.nodes + 1)..made'.nodes)
      BY <1>0, <1>7, <3>2
    <3>4. \A m \in {edges[e].src, edges[e].dst} : Out(m) => Out(m)'
      BY <1>7, <3>1, <1>3 DEF Out
    <3> QED
      BY <1>0, <2>2, <3>1, <3>3, <3>4, SameVerdicts
  <2> QED
    BY <2>1, <2>2, <1>12
<1> QED
  BY <1>13, <1>14, <1>15, <1>16, <1>17 DEF GraphInv

\* A conflicting relationship marks its target superseded: no node is reopened.
LEMMA SupersededRows ==
    ASSUME GraphInv, NEW o \in Here
    PROVE  /\ Superseded(nodes, o) \in [Here -> Row]
           /\ \A m \in Here : Superseded(nodes, o)[m].until = nodes[m].until
  BY DEF Superseded, GraphInv, Shape, Here, Row

\* When every node stays as open or closed as it is and nothing is forgotten, the edges
\* that stay as they are keep their verdicts.
LEMMA VerdictsStay ==
    ASSUME GraphInv, UNCHANGED <<renewed, made>>, Here' = Here,
           \A m \in Here : nodes'[m].until = nodes[m].until,
           \A e \in Kept' : e \in Kept /\ edges'[e] = edges[e]
    PROVE  Verdicts'
<1> SUFFICES ASSUME NEW e \in Kept' PROVE WinnerKnown(e)' /\ LoserOut(e)'
  BY DEF Verdicts
<1>1. e \in Kept /\ edges'[e] = edges[e] /\ {edges[e].src, edges[e].dst} \subseteq Here
  BY DEF GraphInv, EdgesClosed, Kept
<1>2. made.nodes \in Nat /\ made'.nodes = made.nodes
  BY DEF GraphInv, Shape
<1>3. \A m \in Here : Out(m) => Out(m)'
  BY DEF Out
<1> QED
  BY <1>1, <1>2, <1>3, SameVerdicts

\* add_edge: the new edge is no loop and repeats no other.
LEMMA AddEdgeKeeps ==
    ASSUME AuthorityAssumption, GraphInv, NEW s \in NodeIds, NEW t \in NodeIds, NEW r \in Relations, s # t, AddEdge(s, t, r)
    PROVE  GraphInv'
<1> DEFINE k == made.edges + 1
<1>0. made.nodes \in Nat /\ made.edges \in Nat /\ MaxEdges \in Nat
  BY DEF GraphInv, Shape, AuthorityAssumption
<1>1. /\ k <= MaxEdges /\ s \in Here /\ t \in Here /\ <<s, t, r>> \notin Ties
      /\ edges' = With(edges, k, NewEdge(s, t, r))
      /\ made' = [made EXCEPT !.edges = k]
      /\ nodes' = IF r \in Conflicting THEN Superseded(nodes, t) ELSE nodes
      /\ UNCHANGED <<renewed, edited>>
  BY <1>0 DEF AddEdge
<1>2. nodes' \in [Here -> Row] /\ Here' = Here /\ \A m \in Here : nodes'[m].until = nodes[m].until
  <2>1. nodes \in [Here -> Row]
    BY DEF GraphInv, Shape
  <2>2. nodes' \in [Here -> Row] /\ \A m \in Here : nodes'[m].until = nodes[m].until
    BY <1>1, <2>1, SupersededRows
  <2> QED
    BY <2>2 DEF Here
<1>3. k \notin DOMAIN edges /\ k \in EdgeIds
  BY <1>0, <1>1 DEF GraphInv, Shape, EdgeIds
<1>4. NewEdge(s, t, r) \in Edge
  BY DEF NewEdge, Edge, NoNode
<1>5. /\ DOMAIN edges' = DOMAIN edges \union {k} /\ edges'[k] = NewEdge(s, t, r)
      /\ \A e \in DOMAIN edges : edges'[e] = edges[e]
      /\ edges' \in [DOMAIN edges' -> Edge]
  BY <1>1, <1>3, <1>4 DEF With, GraphInv, Shape
<1>6. Kept' = Kept \union {k}
  BY <1>1, <1>3, <1>5 DEF Kept, GraphInv, Shape
<1>7. Shape'
  <2>1. made' \in [nodes : 0..MaxNodes, edges : 0..MaxEdges, told : 0..MaxTold] /\ made'.nodes = made.nodes /\ made'.edges = k
    BY <1>0, <1>1 DEF GraphInv, Shape
  <2>2. DOMAIN edges' \subseteq 1..made'.edges
    BY <2>1, <1>0, <1>5 DEF GraphInv, Shape
  <2> QED
    BY <2>1, <2>2, <1>1, <1>2, <1>3, <1>5 DEF Shape, GraphInv, NodeIds, EdgeIds
<1>8. edges'[k].src = s /\ edges'[k].dst = t /\ edges'[k].rel = r /\ edges'[k].winner = NoNode
  BY <1>5 DEF NewEdge
<1>9. EdgesClosed'
  BY <1>1, <1>2, <1>5, <1>8 DEF EdgesClosed, GraphInv
<1>10. Distinct(edges, Kept)'
  <2> SUFFICES ASSUME NEW d \in Kept', NEW e \in Kept', SameKey(edges', d, e) PROVE d = e
    BY Zenon DEF Distinct
  <2>1. \A x \in Kept : edges[x].src # s \/ edges[x].dst # t \/ edges[x].rel # r
    BY <1>1 DEF Ties, Kept
  <2>2. \A x \in Kept : edges'[x] = edges[x]
    BY <1>5 DEF Kept
  <2>3. CASE d \in Kept /\ e \in Kept
    BY <2>2, <2>3 DEF GraphInv, Distinct, SameKey
  <2>4. CASE d = k \/ e = k
    BY <2>1, <2>2, <2>4, <1>6, <1>8 DEF SameKey
  <2> QED
    BY <2>3, <2>4, <1>6
<1>11. NoLoop(edges, Kept)'
  BY <1>5, <1>6, <1>8 DEF NoLoop, GraphInv, Kept
<1>12. Verdicts'
  <2> SUFFICES ASSUME NEW e \in Kept' PROVE WinnerKnown(e)' /\ LoserOut(e)'
    BY DEF Verdicts
  <2>1. CASE e = k
    <3>1. edges'[e].winner = NoNode /\ NoNode \notin {edges'[e].src, edges'[e].dst}
      BY <2>1, <1>8 DEF NodeIds, NoNode
    <3> QED
      BY <3>1 DEF WinnerKnown, LoserOut
  <2>2. CASE e \in Kept
    <3>1. edges'[e] = edges[e] /\ {edges[e].src, edges[e].dst} \subseteq Here
      BY <2>2, <1>5 DEF GraphInv, EdgesClosed, Kept
    <3>2. made'.nodes = made.nodes
      BY <1>1 DEF GraphInv, Shape
    <3>3. \A m \in {edges[e].src, edges[e].dst} : Out(m) => Out(m)'
      BY <1>1, <1>2, <3>1 DEF Out
    <3>4. made'.nodes \in Nat /\ made.nodes <= made'.nodes /\ Here' \subseteq Here \union ((made.nodes + 1)..made'.nodes)
      BY <1>0, <1>2, <3>2
    <3> QED
      BY <1>0, <2>2, <3>1, <3>3, <3>4, SameVerdicts
  <2> QED
    BY <2>1, <2>2, <1>6
<1> QED
  BY <1>7, <1>9, <1>10, <1>11, <1>12 DEF GraphInv

\* update_edge: the edge is from then on outside what is promised of edges.
LEMMA UpdateEdgeKeeps ==
    ASSUME GraphInv, NEW e \in EdgeIds, NEW t \in NodeIds, NEW r \in Relations, UpdateEdge(e, t, r)
    PROVE  GraphInv'
<1>1. /\ e \in DOMAIN edges /\ t \in Here
      /\ edges' = [edges EXCEPT ![e].dst = t, ![e].rel = r]
      /\ nodes' = IF r \in Conflicting THEN Superseded(nodes, t) ELSE nodes
      /\ edited' = edited \union {e}
      /\ UNCHANGED <<renewed, made>>
  BY DEF UpdateEdge
<1>2. edges[e] \in Edge /\ edges[e].src \in Here /\ edges[e].src \in NodeIds
  BY <1>1 DEF GraphInv, Shape, EdgesClosed
<1>3. nodes' \in [Here -> Row] /\ Here' = Here /\ \A m \in Here : nodes'[m].until = nodes[m].until
  <2>1. nodes \in [Here -> Row]
    BY DEF GraphInv, Shape
  <2>2. nodes' \in [Here -> Row] /\ \A m \in Here : nodes'[m].until = nodes[m].until
    BY <1>1, <1>2, <2>1, SupersededRows
  <2> QED
    BY <2>2 DEF Here
<1>4. /\ DOMAIN edges' = DOMAIN edges /\ edges' \in [DOMAIN edges -> Edge]
      /\ \A d \in DOMAIN edges \ {e} : edges'[d] = edges[d]
      /\ edges'[e].src = edges[e].src /\ edges'[e].dst = t
  BY <1>1, <1>2 DEF GraphInv, Shape, Edge
<1>5. Kept' = Kept \ {e}
  BY <1>1, <1>4 DEF Kept
<1>6. \A d \in Kept' : d \in Kept /\ edges'[d] = edges[d]
  BY <1>4, <1>5 DEF Kept
<1>7. Shape'
  BY <1>1, <1>3, <1>4 DEF Shape, GraphInv, NodeIds, EdgeIds
<1>8. EdgesClosed'
  BY <1>1, <1>2, <1>3, <1>4 DEF EdgesClosed, GraphInv
<1>9. Distinct(edges, Kept)' /\ NoLoop(edges, Kept)'
  BY <1>6 DEF GraphInv, Distinct, NoLoop, SameKey
<1>10. Verdicts'
  BY <1>1, <1>3, <1>6, VerdictsStay
<1> QED
  BY <1>7, <1>8, <1>9, <1>10 DEF GraphInv

LEMMA DeleteEdgeKeeps ==
    ASSUME GraphInv, NEW e \in EdgeIds, RemoveEdge(e)
    PROVE  GraphInv'
<1>1. /\ edges' = Restrict(edges, DOMAIN edges \ {e})
      /\ edited' = edited \ {e}
      /\ UNCHANGED <<nodes, renewed, made>>
  BY DEF RemoveEdge
<1>2. DOMAIN edges' = DOMAIN edges \ {e} /\ \A d \in DOMAIN edges' : edges'[d] = edges[d]
  BY <1>1 DEF Restrict
<1>3. Here' = Here /\ \A d \in Kept' : d \in Kept /\ edges'[d] = edges[d]
  BY <1>1, <1>2 DEF Here, Kept
<1>4. edges' \in [DOMAIN edges' -> Edge]
  BY <1>1, <1>2 DEF Restrict, GraphInv, Shape
<1>5. Shape'
  BY <1>1, <1>2, <1>3, <1>4 DEF Shape, GraphInv, NodeIds, EdgeIds
<1>6. EdgesClosed'
  BY <1>1, <1>2, <1>3 DEF EdgesClosed, GraphInv
<1>7. Distinct(edges, Kept)' /\ NoLoop(edges, Kept)'
  BY <1>3 DEF GraphInv, Distinct, NoLoop, SameKey
<1>8. Verdicts'
  BY <1>1, <1>3, VerdictsStay
<1> QED
  BY <1>5, <1>6, <1>7, <1>8 DEF GraphInv

\* delete_node: its edges go with it, so nobody's verdict is about it any more.
LEMMA DeleteNodeKeeps ==
    ASSUME GraphInv, NEW n \in NodeIds, RemoveNode(n)
    PROVE  GraphInv'
<1> DEFINE stay == {e \in DOMAIN edges : n \notin {edges[e].src, edges[e].dst}}
<1>1. /\ nodes' = Restrict(nodes, Here \ {n}) /\ edges' = Restrict(edges, stay)
      /\ renewed' = renewed \ {n} /\ edited' = edited \intersect stay /\ made' = made
  BY DEF RemoveNode
<1>2. DOMAIN edges' = stay /\ \A e \in stay : edges'[e] = edges[e] /\ n \notin {edges[e].src, edges[e].dst}
  BY <1>1 DEF Restrict
<1>3. stay \subseteq DOMAIN edges
  OBVIOUS
<1> HIDE DEF stay
<1>4. Here' = Here \ {n} /\ nodes' \in [Here' -> Row] /\ \A m \in Here' : nodes'[m] = nodes[m]
  BY <1>1 DEF Restrict, Here, GraphInv, Shape
<1>5. edges' \in [DOMAIN edges' -> Edge]
  BY <1>1, <1>2, <1>3 DEF Restrict, GraphInv, Shape
<1>6. Shape'
  BY <1>1, <1>2, <1>3, <1>4, <1>5 DEF Shape, GraphInv, NodeIds, EdgeIds
<1>7. EdgesClosed'
  BY <1>2, <1>3, <1>4 DEF EdgesClosed, GraphInv
<1>8. \A e \in Kept' : e \in Kept /\ edges'[e] = edges[e] /\ n \notin {edges[e].src, edges[e].dst}
  BY <1>1, <1>2, <1>3 DEF Kept
<1>9. Distinct(edges, Kept)' /\ NoLoop(edges, Kept)'
  BY <1>8 DEF GraphInv, Distinct, NoLoop, SameKey
<1>10. Verdicts'
  <2> SUFFICES ASSUME NEW e \in Kept' PROVE WinnerKnown(e)' /\ LoserOut(e)'
    BY DEF Verdicts
  <2>1. e \in Kept /\ edges'[e] = edges[e] /\ {edges[e].src, edges[e].dst} \subseteq Here \ {n}
    BY <1>8 DEF GraphInv, EdgesClosed, Kept
  <2>2. made.nodes \in Nat /\ made'.nodes = made.nodes /\ Here' \subseteq Here
    BY <1>1, <1>4 DEF GraphInv, Shape
  <2>3. \A m \in Here \ {n} : nodes'[m] = nodes[m] /\ (m \in renewed' <=> m \in renewed)
    BY <1>1, <1>4 DEF GraphInv, Shape
  <2>4. \A m \in {edges[e].src, edges[e].dst} : Out(m) => Out(m)'
    BY <2>1, <2>3 DEF Out
  <2>5. made'.nodes \in Nat /\ made.nodes <= made'.nodes /\ Here' \subseteq Here \union ((made.nodes + 1)..made'.nodes)
    BY <2>2
  <2> QED
    BY <2>1, <2>2, <2>4, <2>5, SameVerdicts
<1> QED
  BY <1>6, <1>7, <1>9, <1>10 DEF GraphInv

\* resolve_conflict: the named loser is the other end of the edge, and is closed.
LEMMA ResolveKeeps ==
    ASSUME GraphInv, NEW e \in EdgeIds, NEW w \in NodeIds \union {NoNode}, ResolveConflict(e, w)
    PROVE  GraphInv'
<1> DEFINE edge == edges[e]
           loser == IF w = edge.src THEN edge.dst ELSE edge.src
<1>1. /\ e \in DOMAIN edges /\ w \in {edge.src, edge.dst, NoNode}
      /\ edges' = IF w = NoNode THEN edges ELSE [edges EXCEPT ![e].winner = w]
      /\ nodes' = IF w = NoNode THEN Superseded(nodes, edge.dst)
                  ELSE [nodes EXCEPT ![loser].until = "past", ![loser].superseded = TRUE]
      /\ renewed' = IF w = NoNode THEN renewed ELSE renewed \ {loser}
      /\ UNCHANGED <<edited, made>>
  BY Zenon DEF ResolveConflict
<1>2. edge \in Edge /\ {edge.src, edge.dst} \subseteq Here /\ {edge.src, edge.dst} \subseteq NodeIds
  BY <1>1 DEF GraphInv, Shape, EdgesClosed
<1>3. loser \in Here /\ loser \in {edge.src, edge.dst}
  BY <1>2
<1> HIDE DEF edge, loser
<1>4. nodes \in [Here -> Row]
  BY DEF GraphInv, Shape
<1>5. CASE w = NoNode
  <2>1. nodes' \in [Here -> Row] /\ \A m \in Here : nodes'[m].until = nodes[m].until
    BY <1>1, <1>2, <1>5, SupersededRows
  <2>2. Here' = Here /\ edges' = edges /\ Kept' = Kept
    BY <2>1, <1>1, <1>5 DEF Here, Kept
  <2>3. Shape'
    BY <2>1, <2>2, <1>1 DEF Shape, GraphInv, NodeIds, EdgeIds
  <2>4. EdgesClosed' /\ Distinct(edges, Kept)' /\ NoLoop(edges, Kept)'
    BY <2>2 DEF GraphInv, EdgesClosed, Distinct, NoLoop, SameKey
  <2>5. Verdicts'
    BY <2>1, <2>2, <1>1, <1>5, VerdictsStay
  <2> QED
    BY <2>3, <2>4, <2>5 DEF GraphInv
<1>6. CASE w # NoNode
  <2>1. w \in {edge.src, edge.dst} /\ w \in NodeIds
    BY <1>1, <1>2, <1>6
  <2>2. PICK row : row = [[nodes[loser] EXCEPT !.until = "past"] EXCEPT !.superseded = TRUE]
    OBVIOUS
  <2>3. row \in Row /\ row.until = "past"
    BY <2>1, <2>2, <1>3, <1>4 DEF Row, Ends
  <2>4. nodes' = [nodes EXCEPT ![loser] = row]
    BY <2>2, <1>1, <1>3, <1>4, <1>6
  <2>5. /\ nodes' \in [Here -> Row] /\ Here' = Here /\ nodes'[loser].until = "past"
        /\ \A m \in Here : m # loser => nodes'[m] = nodes[m]
    BY <2>3, <2>4, <1>3, <1>4 DEF Here
  <2>6. /\ DOMAIN edges' = DOMAIN edges /\ edges' \in [DOMAIN edges -> Edge]
        /\ \A d \in DOMAIN edges : /\ edges'[d].src = edges[d].src /\ edges'[d].dst = edges[d].dst
                                   /\ edges'[d].rel = edges[d].rel /\ (d # e => edges'[d] = edges[d])
        /\ edges'[e].winner = w
    BY <2>1, <1>1, <1>2, <1>6 DEF GraphInv, Shape, Edge
  <2>7. Kept' = Kept
    BY <2>6, <1>1 DEF Kept
  <2>8. Shape'
    BY <2>5, <2>6, <1>1 DEF Shape, GraphInv, NodeIds, EdgeIds
  <2>9. EdgesClosed'
    BY <2>5, <2>6 DEF GraphInv, EdgesClosed
  <2>10. Distinct(edges, Kept)' /\ NoLoop(edges, Kept)'
    BY <2>6, <2>7 DEF GraphInv, Distinct, NoLoop, SameKey, Kept
  <2>11. Verdicts'
    <3> SUFFICES ASSUME NEW d \in Kept PROVE WinnerKnown(d)' /\ LoserOut(d)'
      BY <2>7 DEF Verdicts
    <3>1. CASE d = e
      <4>1. edge.src # edge.dst
        BY <3>1 DEF GraphInv, NoLoop, edge
      <4>2. loser \in {edge.src, edge.dst} \ {w}
        BY <4>1, <2>1 DEF loser
      <4>3. edges'[d].src = edge.src /\ edges'[d].dst = edge.dst /\ edges'[d].winner = w
        BY <3>1, <2>6, <1>1 DEF edge
      <4> QED
        BY <4>2, <4>3, <2>1, <2>5 DEF WinnerKnown, LoserOut, Out
    <3>2. CASE d # e
      <4>1. edges'[d] = edges[d] /\ {edges[d].src, edges[d].dst} \subseteq Here
        BY <3>2, <2>6 DEF GraphInv, EdgesClosed, Kept
      <4>2. made.nodes \in Nat /\ made'.nodes = made.nodes
        BY <1>1 DEF GraphInv, Shape
      <4>3. \A m \in {edges[d].src, edges[d].dst} : Out(m) => Out(m)'
        BY <4>1, <2>5, <1>1 DEF Out
      <4>4. made'.nodes \in Nat /\ made.nodes <= made'.nodes /\ Here' \subseteq Here \union ((made.nodes + 1)..made'.nodes)
        BY <4>2, <2>5
      <4> QED
        BY <4>1, <4>2, <4>3, <4>4, SameVerdicts
    <3> QED
      BY <3>1, <3>2
  <2> QED
    BY <2>8, <2>9, <2>10, <2>11 DEF GraphInv
<1> QED
  BY <1>5, <1>6

\* canonicalize_node: a moved end of a node that was out lands on one that is noted
\* for it, and a verdict for the merged node is about nobody any more.
LEMMA AbsorbKeeps ==
    ASSUME GraphInv, NEW n \in NodeIds, NEW c \in NodeIds, Absorb(n, c)
    PROVE  GraphInv'
<1> DEFINE phrases == {nodes[n].content} \union nodes[n].aliases
           rp == Repointed(edges, n, c)
<1>1. /\ n # c /\ n \in Here /\ c \in Here
      /\ nodes' = [m \in Here \ {n} |->
                     IF m = c THEN [nodes[c] EXCEPT !.aliases = @ \union (phrases \ {nodes[c].content})]
                     ELSE nodes[m]]
      /\ edges' = rp
      /\ renewed' = (renewed \ {n}) \union (IF Out(n) THEN {c} ELSE {})
      /\ edited' = edited \intersect DOMAIN rp
      /\ made' = made
  BY DEF Absorb
<1>2. nodes \in [Here -> Row] /\ phrases \subseteq Phrases /\ nodes[n].content \in phrases
  BY <1>1 DEF GraphInv, Shape, Row
<1>3. /\ rp \in [DOMAIN rp -> Edge] /\ DOMAIN rp \subseteq DOMAIN edges
      /\ \A e \in DOMAIN rp :
            /\ {edges[e].src, edges[e].dst} # {n, c}
            /\ rp[e].src = IF edges[e].src = n THEN c ELSE edges[e].src
            /\ rp[e].dst = IF edges[e].dst = n THEN c ELSE edges[e].dst
            /\ rp[e].rel = edges[e].rel /\ rp[e].winner = edges[e].winner
  <2>1. edges \in [DOMAIN edges -> Edge]
    BY DEF GraphInv, Shape
  <2>2. MovedFrom(rp, edges, n, c)
    BY <2>1, <1>1, RepointedEdges DEF rp
  <2> HIDE DEF rp
  <2> QED
    BY <2>2 DEF MovedFrom
<1>4. Distinct(rp, Kept \intersect DOMAIN rp) /\ NoLoop(rp, Kept \intersect DOMAIN rp)
  <2>1. edges \in [DOMAIN edges -> Edge] /\ Kept \in SUBSET (DOMAIN edges) /\ Distinct(edges, Kept) /\ NoLoop(edges, Kept)
    BY DEF GraphInv, Shape, Kept
  <2> QED
    BY <2>1, <1>1, RepointedKeeps
<1> HIDE DEF phrases, rp
<1>5. /\ Here' = Here \ {n} /\ nodes' \in [Here' -> Row]
      /\ \A m \in Here' : nodes'[m].until = nodes[m].until
  <2>1. PICK row : row = [nodes[c] EXCEPT !.aliases = @ \union (phrases \ {nodes[c].content})]
    OBVIOUS
  <2>2. row \in Row /\ row.until = nodes[c].until
    BY <2>1, <1>1, <1>2 DEF Row
  <2>3. nodes' = [m \in Here \ {n} |-> IF m = c THEN row ELSE nodes[m]]
    BY <2>1, <1>1
  <2> QED
    BY <2>2, <2>3, <1>2 DEF Here
<1>6. /\ renewed' \subseteq Here'
      /\ \A m \in Here' : Out(m) => Out(m)'
      /\ Out(n) => Out(c)'
  BY <1>1, <1>5 DEF GraphInv, Shape, Out
<1>7. Kept' = Kept \intersect DOMAIN rp
  BY <1>1, <1>3 DEF Kept
<1>8. Shape'
  BY <1>1, <1>3, <1>5, <1>6 DEF Shape, GraphInv, NodeIds, EdgeIds
<1>9. EdgesClosed'
  BY <1>1, <1>3, <1>5 DEF EdgesClosed, GraphInv
<1>10. Distinct(edges, Kept)' /\ NoLoop(edges, Kept)'
  BY <1>1, <1>4, <1>7
<1>11. Verdicts'
  <2> SUFFICES ASSUME NEW e \in Kept' PROVE WinnerKnown(e)' /\ LoserOut(e)'
    BY DEF Verdicts
  <2> DEFINE s == edges[e].src
             t == edges[e].dst
             w == edges[e].winner
  <2>1. e \in Kept /\ e \in DOMAIN rp /\ {s, t} \subseteq Here /\ Here \subseteq NodeIds
    BY <1>7 DEF GraphInv, EdgesClosed, Kept, Shape
  <2>2. /\ edges'[e].src = IF s = n THEN c ELSE s
        /\ edges'[e].dst = IF t = n THEN c ELSE t
        /\ edges'[e].winner = w /\ {s, t} # {n, c}
    BY <2>1, <1>1, <1>3
  <2>3. s # t
    BY <2>1 DEF GraphInv, NoLoop
  <2>4. WinnerKnown(e) /\ LoserOut(e)
    BY <2>1 DEF GraphInv, Verdicts
  <2>5. made'.nodes = made.nodes /\ n \in 1..made.nodes /\ NoNode \notin Here
    BY <1>1 DEF GraphInv, Shape, NodeIds, NoNode
  <2>6. WinnerKnown(e)'
    BY <2>1, <2>2, <2>4, <2>5, <1>1, <1>5 DEF WinnerKnown
  <2>7. ASSUME edges'[e].winner \in {edges'[e].src, edges'[e].dst}
        PROVE  \E loser \in {edges'[e].src, edges'[e].dst} \ {edges'[e].winner} : Out(loser)'
    <3>1. w \in {s, t} /\ w # n
      \* The winner is an end after the merge, so it is stored, so it was an end before.
      <4>1. w \in Here' /\ w # NoNode
        BY <2>7, <2>2, <2>1, <2>5, <1>1, <1>5
      <4> QED
        BY <4>1, <2>4, <1>5 DEF WinnerKnown
    <3>2. PICK loser \in {s, t} \ {w} : Out(loser)
      BY <3>1, <2>4 DEF LoserOut
    <3>3. CASE loser = n
      <4>1. c \in {edges'[e].src, edges'[e].dst} \ {edges'[e].winner}
        BY <3>1, <3>2, <3>3, <2>2, <2>3
      <4> QED
        BY <4>1, <3>2, <3>3, <1>6
    <3>4. CASE loser # n
      <4>1. loser \in {edges'[e].src, edges'[e].dst} \ {edges'[e].winner} /\ loser \in Here' /\ loser \in NodeIds \ {n}
        BY <3>2, <3>4, <2>1, <2>2, <1>5
      <4>2. Out(loser)'
        BY <4>1, <3>2, <1>6
      <4> QED
        BY <4>1, <4>2
    <3> QED
      BY <3>3, <3>4
  <2>8. LoserOut(e)'
    BY <2>7 DEF LoserOut
  <2> QED
    BY <2>6, <2>8
<1> QED
  BY <1>8, <1>9, <1>10, <1>11 DEF GraphInv

-----------------------------------------------------------------------------
(* The theorems.                                                           *)

LEMMA InitSound == AuthorityAssumption /\ AuthorityInit => GraphInv
<1> SUFFICES ASSUME AuthorityAssumption, AuthorityInit PROVE GraphInv
  OBVIOUS
<1>1. DOMAIN nodes = {} /\ DOMAIN edges = {} /\ nodes \in [{} -> Row] /\ edges \in [{} -> Edge] /\ edited = {} /\ renewed = {}
  BY DEF AuthorityInit
<1>2. made \in [nodes : 0..MaxNodes, edges : 0..MaxEdges, told : 0..MaxTold]
  BY DEF AuthorityInit, AuthorityAssumption
<1> QED
  BY <1>1, <1>2 DEF GraphInv, Shape, EdgesClosed, Distinct, NoLoop, Verdicts, Kept, Here

LEMMA NextSound == AuthorityAssumption /\ GraphInv /\ [AuthorityNext]_authorityVars => GraphInv'
<1> SUFFICES ASSUME AuthorityAssumption, GraphInv, [AuthorityNext]_authorityVars PROVE GraphInv'
  OBVIOUS
<1>1. CASE \E p \in Phrases, u \in Given, f \in BOOLEAN : AddOrMerge(p, u, f)
  <2>1. PICK p \in Phrases, u \in Given, f \in BOOLEAN : AddOrMerge(p, u, f)
    BY <1>1
  <2>2. /\ made.told + Told(u) <= MaxTold
        /\ InsertNode(p, u) \/ \E m \in Duplicates(p) : MergeDuplicate(m, p, u)
    BY <2>1 DEF AddOrMerge
  <2> QED
    BY <2>2, InsertKeeps, MergeKeeps
<1>2. CASE \E s, t \in NodeIds, r \in Relations : s # t /\ AddEdge(s, t, r)
  BY <1>2, AddEdgeKeeps
<1>3. CASE \E e \in EdgeIds, t \in NodeIds, r \in Relations : UpdateEdge(e, t, r)
  BY <1>3, UpdateEdgeKeeps
<1>4. CASE \E e \in EdgeIds : RemoveEdge(e)
  BY <1>4, DeleteEdgeKeeps
<1>5. CASE \E n \in NodeIds : RemoveNode(n)
  BY <1>5, DeleteNodeKeeps
<1>6. CASE \E e \in EdgeIds, w \in NodeIds \union {NoNode} : ResolveConflict(e, w)
  BY <1>6, ResolveKeeps
<1>7. CASE \E n, c \in NodeIds : Absorb(n, c)
  BY <1>7, AbsorbKeeps
<1>8. CASE UNCHANGED authorityVars
  <2>1. UNCHANGED <<nodes, edges, renewed, edited, made>>
    BY <1>8 DEF authorityVars
  <2> QED
    BY <2>1 DEF GraphInv, Shape, EdgesClosed, Distinct, SameKey, NoLoop, Verdicts, WinnerKnown, LoserOut, Out, Kept, Here
<1>9. CASE \E n \in NodeIds, p \in Phrases, u \in Given, f \in BOOLEAN : EditNode(n, p, u, f)
  BY <1>9, EditNodeKeeps
<1>10. CASE \E n \in NodeIds : Ended(n)
  BY <1>10, EndedKeeps
<1> QED
  BY <1>1, <1>2, <1>3, <1>4, <1>5, <1>6, <1>7, <1>8, <1>9, <1>10 DEF AuthorityNext

\* Whatever is added, merged, resolved, rewritten and deleted, in whatever order and for
\* any phrases, relationships and bounds, every edge joins two stored nodes.
THEOREM EdgesStayClosed == ASSUME AuthorityAssumption PROVE AuthoritySpec => []EdgesClosed
<1>1. GraphInv => EdgesClosed
  BY DEF GraphInv
<1> QED
  BY InitSound, NextSound, <1>1, PTL DEF AuthoritySpec

\* There is one edge per source, target and relationship, merges of nodes included,
\* among the edges update_edge did not rewrite.
THEOREM EdgesStayDistinct == ASSUME AuthorityAssumption PROVE AuthoritySpec => []OneEdgePerKey
<1>1. GraphInv => OneEdgePerKey
  BY DEF GraphInv, OneEdgePerKey, Distinct, SameKey, Kept
<1> QED
  BY InitSound, NextSound, <1>1, PTL DEF AuthoritySpec

\* No later verdict, restatement, update, merge or deletion brings back the endpoint a
\* verdict was spoken against, unless a caller gave it a later end of validity or merged
\* it by hand.
THEOREM VerdictsHold == ASSUME AuthorityAssumption PROVE AuthoritySpec => []LosersStayOut
<1>1. GraphInv => LosersStayOut
  BY DEF GraphInv, Verdicts, LoserOut, LosersStayOut, Kept
<1> QED
  BY InitSound, NextSound, <1>1, PTL DEF AuthoritySpec

\* Types, closure, one edge per key, verdicts that hold and no loops, together: what
\* the run checks of the graph mutations, for any phrases, relationships and bounds.
THEOREM GraphIsSound == ASSUME AuthorityAssumption PROVE AuthoritySpec => []ConflictsSound
<1>1. GraphInv => ConflictsSound
  <2> SUFFICES ASSUME GraphInv PROVE ConflictsSound
    OBVIOUS
  <2>1. AuthorityTypeOK
    BY DEF GraphInv, Shape, AuthorityTypeOK
  <2>2. OneEdgePerKey /\ NoSelfLoop
    BY DEF GraphInv, OneEdgePerKey, NoSelfLoop, Distinct, NoLoop, SameKey, Kept
  <2>3. LosersStayOut
    BY DEF GraphInv, Verdicts, LoserOut, LosersStayOut, Kept
  <2> QED
    BY <2>1, <2>2, <2>3 DEF ConflictsSound, GraphInv
<1> QED
  BY InitSound, NextSound, <1>1, PTL DEF AuthoritySpec

-----------------------------------------------------------------------------
(***************************************************************************)
(* EmbeddingStore.  Every row there is, was when the doctor's transaction  *)
(* began, or is held by an update is one its label accounts for.           *)
(***************************************************************************)
Labelled(v) == v.text # 0 /\ Readable(v) /\ v.id # "" /\ ~v.guess => v.id = v.maker
Genuine(v) == Readable(v) => v.maker # "junk"
GoodRows == {v \in StoredRow : Labelled(v) /\ Genuine(v)}

EmbInv ==
    /\ EmbTypeOK
    /\ rows \in [Rows -> GoodRows] /\ before \in [Rows -> GoodRows]
    /\ pending.seen \in GoodRows
    /\ pending # NoUpdate => pending.row \in Rows /\ maker[Server] \in Makers
    /\ step # "off" => maker[Doctor] \in Makers

\* What the code stores is a good row.
LEMMA VectorGood ==
    ASSUME NEW t \in Contents \union {0}, NEW m \in Makers
    PROVE  Vector(t, m) \in GoodRows /\ \A u \in Contents \union {0} : [Vector(t, m) EXCEPT !.text = u] \in GoodRows
BY DEF Vector, GoodRows, StoredRow, Labelled, Genuine, Readable, Makers

LEMMA BlankGood ==
    Blank \in GoodRows /\ Empty \in [Rows -> GoodRows]
    /\ \A u \in Contents \union {0} : [Blank EXCEPT !.text = u] \in GoodRows
BY DEF Blank, Empty, GoodRows, StoredRow, Labelled, Genuine, Readable

LEMMA RowFields ==
    ASSUME NEW v \in StoredRow
    PROVE  /\ v = [text |-> v.text, form |-> v.form, maker |-> v.maker, made |-> v.made, id |-> v.id, guess |-> v.guess]
           /\ v.text \in Contents \union {0} /\ v.form \in {"null", "legacy", "checked", "corrupt"}
           /\ v.maker \in Makers \union {"none", "junk"} /\ v.made \in Contents \union {0}
           /\ v.id \in Makers \union {""} /\ v.guess \in BOOLEAN
BY DEF StoredRow

\* Opening: a guessed label is marked, and a checksum is given to what decodes.
LEMMA OpenedGood ==
    ASSUME NEW r, NEW v \in GoodRows, NEW m \in Makers
    PROVE  Checksummed(Backfilled(r, v, m)) \in GoodRows
<1>1. v \in StoredRow /\ Labelled(v) /\ Genuine(v)
  BY DEF GoodRows
<1>2. Backfilled(r, v, m) \in GoodRows
  <2>1. CASE Backfilled(r, v, m) = v
    BY <2>1
  <2>2. CASE Backfilled(r, v, m) = Vector(v.text, m)
    BY <1>1, <2>2, VectorGood, RowFields
  <2>3. CASE Readable(v) /\ Backfilled(r, v, m) = [v EXCEPT !.form = "checked", !.id = m, !.guess = TRUE]
    <3>1. PICK w : w = [v EXCEPT !.form = "checked", !.id = m, !.guess = TRUE]
      OBVIOUS
    <3>2. w = [text |-> v.text, form |-> "checked", maker |-> v.maker, made |-> v.made, id |-> m, guess |-> TRUE]
      BY <1>1, <3>1 DEF StoredRow
    <3>3. w \in StoredRow /\ w.guess = TRUE /\ w.maker = v.maker
      BY <1>1, <3>2, RowFields DEF StoredRow
    <3> QED
      BY <1>1, <2>3, <3>1, <3>3 DEF GoodRows, Labelled, Genuine
  <2> QED
    BY <2>1, <2>2, <2>3 DEF Backfilled
<1>3. PICK b \in GoodRows : b = Backfilled(r, v, m)
  BY <1>2
<1>4. CASE b.form = "legacy"
  <2>1. PICK w : w = [b EXCEPT !.form = "checked"]
    OBVIOUS
  <2>2. b \in StoredRow /\ Labelled(b) /\ Genuine(b)
    BY DEF GoodRows
  <2>3. w = [text |-> b.text, form |-> "checked", maker |-> b.maker, made |-> b.made, id |-> b.id, guess |-> b.guess]
    BY <2>1, <2>2 DEF StoredRow
  <2>4. w \in StoredRow
    BY <2>2, <2>3, RowFields DEF StoredRow
  <2>5. Labelled(w) /\ Genuine(w)
    BY <1>4, <2>2, <2>3 DEF Labelled, Genuine, Readable
  <2> QED
    BY <1>3, <1>4, <2>1, <2>4, <2>5 DEF Checksummed, GoodRows
<1>5. CASE b.form # "legacy"
  BY <1>3, <1>5 DEF Checksummed
<1> QED
  BY <1>4, <1>5

LEMMA EmptyBatch == \A r \in DOMAIN <<>> : r \in Rows /\ <<>>[r] \in StoredRow
OBVIOUS

LEMMA EmbStarts == BatchAssumption /\ EmbInit => EmbInv
<1> SUFFICES ASSUME BatchAssumption, EmbInit PROVE EmbInv
  OBVIOUS
<1>1. ASSUME NEW m \in Makers PROVE Older(m) \in GoodRows
  BY DEF Older, GoodRows, StoredRow, Labelled, Genuine, Readable, Makers, BatchAssumption
<1>2. rows \in [Rows -> GoodRows]
  BY <1>1, BlankGood DEF EmbInit
<1>3. before \in [Rows -> GoodRows] /\ NoUpdate.seen \in GoodRows
  BY BlankGood DEF EmbInit, NoUpdate
<1>4. rows \in [Rows -> StoredRow] /\ before \in [Rows -> StoredRow]
  BY <1>2, <1>3 DEF GoodRows
<1>5. NoUpdate \in [row : Rows \cup {Nobody}, seen : StoredRow, text : Contents \cup {0}]
  BY <1>3 DEF NoUpdate, GoodRows
<1>6. EmbTypeOK
  BY <1>4, <1>5, EmptyBatch DEF EmbInit, EmbTypeOK, Steps
<1> QED
  BY <1>2, <1>3, <1>6 DEF EmbInit, EmbInv

\* A step that writes good rows and nothing else keeps the invariant.
LEMMA RowsMove ==
    ASSUME EmbInv, rows' \in [Rows -> GoodRows], UNCHANGED <<maker, pending, step, batch, tx, before>>
    PROVE  EmbInv'
<1>1. rows' \in [Rows -> StoredRow]
  BY DEF GoodRows
<1> QED
  BY <1>1 DEF EmbInv, EmbTypeOK

LEMMA OpenKeeps ==
    ASSUME EmbInv, NEW p \in Processes, Open(p) PROVE EmbInv'
<1>1. PICK m \in Makers : /\ maker' = [maker EXCEPT ![p] = m]
                          /\ rows' = [r \in Rows |-> Checksummed(Backfilled(r, rows[r], m))]
  BY DEF Open
<1>2. rows' \in [Rows -> GoodRows]
  BY <1>1, OpenedGood DEF EmbInv
<1>3. rows' \in [Rows -> StoredRow]
  BY <1>2 DEF GoodRows
<1>4. /\ maker' \in [Processes -> Makers \cup {"closed"}] /\ maker'[p] = m
      /\ \A q \in Processes : q # p => maker'[q] = maker[q]
  BY <1>1 DEF EmbInv, EmbTypeOK
<1>5. step' \in Steps /\ (step' # step => p = Doctor) /\ UNCHANGED <<pending, batch, tx, before>>
  BY DEF Open, EmbInv, EmbTypeOK, Steps
<1>6. Server \in Processes /\ Doctor \in Processes
  BY DEF Processes
<1>7. step' # "off" => maker'[Doctor] \in Makers
  BY <1>4, <1>5, <1>6 DEF EmbInv
<1>8. pending' # NoUpdate => pending'.row \in Rows /\ maker'[Server] \in Makers
  BY <1>4, <1>5, <1>6 DEF EmbInv
<1> QED
  BY <1>2, <1>3, <1>4, <1>5, <1>7, <1>8 DEF EmbInv, EmbTypeOK

LEMMA MakerKnown == ASSUME EmbTypeOK, NEW p \in Processes, maker[p] # "closed" PROVE maker[p] \in Makers
BY DEF EmbTypeOK

LEMMA ServerWritesKeep ==
    ASSUME EmbInv, NEW r \in Rows, \/ \E t \in Contents : Store(r, t)
                                   \/ Delete(r)
                                   \/ Damage(r)
    PROVE  EmbInv'
<1>1. UNCHANGED <<maker, pending, step, batch, tx, before>>
  BY DEF Store, Delete, Damage
<1>2. PICK v \in GoodRows : rows' = [rows EXCEPT ![r] = v]
  <2>1. CASE \E t \in Contents : Store(r, t)
    <3>1. PICK t \in Contents : Store(r, t)
      BY <2>1
    <3>2. maker[Server] \in Makers
      BY <3>1, MakerKnown DEF Store, EmbInv, Processes
    <3> QED
      BY <3>1, <3>2, VectorGood DEF Store
  <2>2. CASE Delete(r)
    BY <2>2, BlankGood DEF Delete
  <2>3. CASE Damage(r)
    <3>1. PICK v : v = [rows[r] EXCEPT !.form = "corrupt", !.maker = "junk"]
      OBVIOUS
    <3>2. rows[r] \in StoredRow
      BY DEF EmbInv, EmbTypeOK
    <3>3. v = [text |-> rows[r].text, form |-> "corrupt", maker |-> "junk", made |-> rows[r].made,
               id |-> rows[r].id, guess |-> rows[r].guess]
      BY <3>1, <3>2 DEF StoredRow
    <3>4. v \in GoodRows
      BY <3>2, <3>3, RowFields DEF GoodRows, StoredRow, Labelled, Genuine, Readable
    <3>5. rows' = [rows EXCEPT ![r] = v]
      BY <2>3, <3>1 DEF Damage
    <3> QED
      BY <3>4, <3>5
  <2> QED
    BY <2>1, <2>2, <2>3
<1>3. rows' \in [Rows -> GoodRows]
  BY <1>2 DEF EmbInv
<1> QED
  BY <1>1, <1>3, RowsMove

\* The row an update has read is written back with what it saw, or made anew.
LEMMA UpdatesKeep ==
    ASSUME EmbInv, \/ \E r \in Rows, t \in Contents \cup {0} : UpdateRead(r, t)
                   \/ UpdateWrite \/ UpdateGivesUp \/ Stop
    PROVE  EmbInv'
<1>0. /\ NoUpdate.seen \in GoodRows
      /\ NoUpdate \in [row : Rows \cup {Nobody}, seen : StoredRow, text : Contents \cup {0}]
  BY BlankGood DEF NoUpdate, GoodRows
<1>1. CASE \E r \in Rows, t \in Contents \cup {0} : UpdateRead(r, t)
  <2>1. PICK r \in Rows, t \in Contents \cup {0} : UpdateRead(r, t)
    BY <1>1
  <2>2. PICK v : v = IF tx = Doctor THEN before[r] ELSE rows[r]
    OBVIOUS
  <2>3. v \in GoodRows /\ v \in StoredRow
    BY <2>2 DEF EmbInv, GoodRows
  <2>4. pending' = [row |-> r, seen |-> v, text |-> t] /\ UNCHANGED <<rows, maker, step, batch, tx, before>>
    BY <2>1, <2>2 DEF UpdateRead
  <2>5. maker[Server] \in Makers
    BY <2>1, MakerKnown DEF UpdateRead, EmbInv, Processes
  <2>6. pending' \in [row : Rows \cup {Nobody}, seen : StoredRow, text : Contents \cup {0}]
    BY <2>3, <2>4
  <2> QED
    BY <2>3, <2>4, <2>5, <2>6 DEF EmbInv, EmbTypeOK
<1>2. CASE UpdateWrite
  <2>1. /\ pending # NoUpdate /\ pending' = NoUpdate /\ UNCHANGED <<maker, step, batch, tx, before>>
        /\ rows' = IF Present(pending.row) THEN [rows EXCEPT ![pending.row] = Rewritten] ELSE rows
    BY <1>2 DEF UpdateWrite
  <2>2. maker[Server] \in Makers /\ pending.text \in Contents \union {0} /\ pending.seen \in GoodRows
    BY <2>1 DEF EmbInv, EmbTypeOK
  <2>3. Rewritten \in GoodRows
    BY <2>2, VectorGood DEF Rewritten
  <2>4. rows' \in [Rows -> GoodRows]
    BY <2>1, <2>3 DEF EmbInv
  <2>5. rows' \in [Rows -> StoredRow]
    BY <2>4 DEF GoodRows
  <2> QED
    BY <1>0, <2>1, <2>4, <2>5 DEF EmbInv, EmbTypeOK
<1>3. CASE UpdateGivesUp
  BY <1>0, <1>3 DEF UpdateGivesUp, EmbInv, EmbTypeOK
<1>4. CASE Stop
  <2>1. /\ maker' = [maker EXCEPT ![Server] = "closed"] /\ pending' = NoUpdate
        /\ UNCHANGED <<rows, step, batch, tx, before>>
    BY <1>4 DEF Stop
  <2>2. Doctor # Server
    BY DEF Doctor, Server
  <2>3. maker' \in [Processes -> Makers \cup {"closed"}] /\ maker'[Doctor] = maker[Doctor]
    BY <2>1, <2>2 DEF EmbInv, EmbTypeOK, Processes
  <2> QED
    BY <1>0, <2>1, <2>3 DEF EmbInv, EmbTypeOK
<1> QED
  BY <1>1, <1>2, <1>3, <1>4

\* The doctor's batch is a batch of rows it read.
LEMMA ReadingKeeps ==
    ASSUME EmbInv, UNCHANGED <<rows, maker, pending, tx, before>>, step' \in Steps,
           step = "off" => step' = "off",
           \A r \in DOMAIN batch' : r \in Rows /\ batch'[r] \in StoredRow
    PROVE  EmbInv'
BY DEF EmbInv, EmbTypeOK

LEMMA SelectsKeep == ASSUME EmbInv, Health \/ SelectBatch \/ ScanCorrupt PROVE EmbInv'
<1>1. CASE Health
  <2>1. /\ step' \in {"transcripts", "check", "clear", "verdict"} /\ step # "off"
        /\ UNCHANGED <<rows, maker, pending, batch, tx, before>>
    BY <1>1 DEF Health
  <2> QED
    BY <2>1, ReadingKeeps DEF EmbInv, EmbTypeOK, Steps
<1>2. CASE SelectBatch
  <2>1. PICK rs \in SUBSET Stale(TableOf(step)) : batch' = [r \in rs |-> rows[r]]
    BY <1>2 DEF SelectBatch
  <2>2. rs \subseteq Rows
    BY DEF Stale, TableOf, Rows
  <2>3. \A r \in DOMAIN batch' : r \in Rows /\ batch'[r] \in StoredRow
    BY <2>1, <2>2 DEF EmbInv, EmbTypeOK
  <2> QED
    BY <1>2, <2>3, ReadingKeeps DEF SelectBatch, EmbInv, EmbTypeOK
<1>3. CASE ScanCorrupt
  <2>1. batch' = [r \in Failures |-> rows[r]] /\ Failures \subseteq Rows
    BY <1>3 DEF ScanCorrupt, Failures
  <2>2. \A r \in DOMAIN batch' : r \in Rows /\ batch'[r] \in StoredRow
    BY <2>1 DEF EmbInv, EmbTypeOK
  <2> QED
    BY <1>3, <2>2, ReadingKeeps DEF ScanCorrupt, EmbInv, EmbTypeOK
<1> QED
  BY <1>1, <1>2, <1>3

\* A batch is written over whatever the rows are by now.
LEMMA WriteBatchKeeps == ASSUME EmbInv, WriteBatch PROVE EmbInv'
<1>1. maker[Doctor] \in Makers /\ UNCHANGED <<maker, pending, step>>
  BY DEF WriteBatch, EmbInv, Passing
<1>2. ASSUME NEW r \in Rows
      PROVE  (IF r \in DOMAIN batch /\ Present(r)
                THEN [Vector(batch[r].text, maker[Doctor]) EXCEPT !.text = rows[r].text] ELSE rows[r]) \in GoodRows
  <2>1. rows[r] \in GoodRows /\ rows[r].text \in Contents \union {0}
    BY RowFields DEF EmbInv, GoodRows
  <2>2. r \in DOMAIN batch => batch[r].text \in Contents \union {0}
    BY RowFields DEF EmbInv, EmbTypeOK
  <2> QED
    BY <1>1, <2>1, <2>2, VectorGood
<1>3. rows' \in [Rows -> GoodRows]
  BY <1>2 DEF WriteBatch
<1>4. before' \in [Rows -> GoodRows] /\ batch' = <<>> /\ tx' = Doctor
  BY DEF WriteBatch, EmbInv
<1>5. rows' \in [Rows -> StoredRow] /\ before' \in [Rows -> StoredRow]
  BY <1>3, <1>4 DEF GoodRows
<1> QED
  BY <1>1, <1>3, <1>4, <1>5, EmptyBatch DEF EmbInv, EmbTypeOK

LEMMA TableDoneKeeps == ASSUME EmbInv, TableDone PROVE EmbInv'
<1>1. step \in Passing /\ step' = After[step] /\ UNCHANGED <<rows, maker, pending, batch>>
  BY DEF TableDone
<1>2. step' \in Steps /\ step # "off"
  BY <1>1 DEF Passing, After, Steps
<1>3. tx' \in {Doctor, Nobody} /\ before' \in [Rows -> GoodRows]
  BY BlankGood DEF TableDone, EmbInv, EmbTypeOK
<1>4. before' \in [Rows -> StoredRow]
  BY <1>3 DEF GoodRows
<1> QED
  BY <1>1, <1>2, <1>3, <1>4 DEF EmbInv, EmbTypeOK

LEMMA ClearKeeps == ASSUME EmbInv, ClearCorrupt PROVE EmbInv'
<1>1. /\ step = "clear" /\ step' = "again_t" /\ batch' = <<>> /\ UNCHANGED <<maker, pending, tx, before>>
      /\ rows' = [r \in Rows |-> IF r \in DOMAIN batch /\ rows[r].form = "corrupt"
                                   THEN [Blank EXCEPT !.text = rows[r].text] ELSE rows[r]]
  BY DEF ClearCorrupt
<1>2. \A r \in Rows : rows[r] \in GoodRows /\ rows[r].text \in Contents \union {0}
  BY RowFields DEF EmbInv, GoodRows
<1>3. rows' \in [Rows -> GoodRows]
  BY <1>1, <1>2, BlankGood
<1>4. rows' \in [Rows -> StoredRow]
  BY <1>3 DEF GoodRows
<1> QED
  BY <1>1, <1>3, <1>4, EmptyBatch DEF EmbInv, EmbTypeOK, Steps

\* A rollback gives the rows of the transaction's start back.
LEMMA ExitKeeps == ASSUME EmbInv, DoctorExits PROVE EmbInv'
<1>1. /\ rows' = (IF tx = Doctor THEN before ELSE rows) /\ step' = "off" /\ batch' = <<>> /\ tx' = Nobody
      /\ before' = Empty /\ maker' = [maker EXCEPT ![Doctor] = "closed"] /\ pending' = pending
  BY DEF DoctorExits
<1>2. rows' \in [Rows -> GoodRows] /\ before' \in [Rows -> GoodRows]
  BY <1>1, BlankGood DEF EmbInv
<1>3. rows' \in [Rows -> StoredRow] /\ before' \in [Rows -> StoredRow]
  BY <1>2 DEF GoodRows
<1>4. Doctor # Server
  BY DEF Doctor, Server
<1>5. maker' \in [Processes -> Makers \cup {"closed"}] /\ maker'[Server] = maker[Server]
  BY <1>1, <1>4 DEF EmbInv, EmbTypeOK, Processes
<1> QED
  BY <1>1, <1>2, <1>3, <1>5, EmptyBatch DEF EmbInv, EmbTypeOK, Steps

LEMMA EmbSteps == EmbInv /\ [EmbNext]_embVars => EmbInv'
<1> SUFFICES ASSUME EmbInv, [EmbNext]_embVars PROVE EmbInv'
  OBVIOUS
<1>1. CASE UNCHANGED embVars
  BY <1>1 DEF embVars, EmbInv, EmbTypeOK
<1>2. CASE DoctorStep
  BY <1>2, SelectsKeep, WriteBatchKeeps, TableDoneKeeps, ClearKeeps DEF DoctorStep
<1>3. CASE DoctorExits
  BY <1>3, ExitKeeps
<1>4. CASE ServerStep
  BY <1>4, ServerWritesKeep, UpdatesKeep DEF ServerStep
<1>5. CASE \E p \in Processes : Open(p)
  BY <1>5, OpenKeeps
<1>6. CASE \E r \in Rows : Damage(r)
  BY <1>6, ServerWritesKeep
<1> QED
  BY <1>1, <1>2, <1>3, <1>4, <1>5, <1>6 DEF EmbNext

\* For any rows, contents and batch size, whatever a server, a repair, damage,
\* a crash or a rollback do in between: a vector a reader gets has the model
\* its label says or a label marked as guessed, and was never a damaged blob.
THEOREM VectorsAreSound == ASSUME BatchAssumption PROVE EmbSpec => []VectorsSound
<1>1. EmbInit => EmbInv
  BY EmbStarts
<1>2. EmbInv /\ [EmbNext]_embVars => EmbInv'
  BY EmbSteps
<1>3. EmbInv => VectorsSound
  <2> SUFFICES ASSUME EmbInv PROVE LabelTellsMaker /\ CorruptStaysOut
    BY DEF EmbInv, VectorsSound
  <2>1. \A r \in Rows : Labelled(rows[r]) /\ Genuine(rows[r])
    BY DEF EmbInv, GoodRows
  <2> QED
    BY <2>1 DEF Labelled, Genuine, LabelTellsMaker, CorruptStaysOut, Present
<1> QED
  BY <1>1, <1>2, <1>3, PTL DEF EmbSpec
=============================================================================
