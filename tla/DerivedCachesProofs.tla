------------------------ MODULE DerivedCachesProofs ------------------------
(***************************************************************************)
(* Proofs about DerivedCaches: the types of the rows, and the protocol of  *)
(* the topic cache, for any number of nodes, windows and callers.          *)
(***************************************************************************)
EXTENDS DerivedCaches, FiniteSetTheorems, TLAPS

Row(c) == [there : BOOLEAN, stale : BOOLEAN, at : 0 .. c, count : Nat, vec : Vectors]
Nodes == UNION {[S -> [win : Windows, text : Texts]] : S \in SUBSET NodeIds}
Topic == [pc : {"idle", "tenant", "nodes", "partition", "raised"}, version : Nat,
          hit : SUBSET NodeIds, keys : SUBSET NodeIds, found : SUBSET NodeIds, links : Links]

Add(c) == {NoAdd} \cup [pc : {"resolved"}, win : Windows, at : 0 .. c]
Computation(c) == {NoRead} \cup
    [pc : {"read", "computed"}, guarded : BOOLEAN, win : Windows, at : 0 .. c, vec : Vectors]

GraphTyped == node \in Nodes /\ edges \subseteq (DOMAIN node) \X (DOMAIN node)

-----------------------------------------------------------------------------
(* Facts about the operators.                                              *)

\* A vector of no text is a vector.
LEMMA NoVectorTyped == NoVector \in Vectors
<1>1. NoVector \in [{} -> Texts]
  BY Zenon DEF NoVector
<1> QED
  BY <1>1 DEF Vectors

\* The stored nodes have ids, windows and texts.
LEMMA NodesShape ==
    ASSUME NEW nd \in Nodes
    PROVE  /\ DOMAIN nd \subseteq NodeIds
           /\ \A n \in DOMAIN nd : nd[n] \in [win : Windows, text : Texts]
           /\ \A n \in DOMAIN nd : nd[n].win \in Windows /\ nd[n].text \in Texts
<1>1. PICK S \in SUBSET NodeIds : nd \in [S -> [win : Windows, text : Texts]]
  BY DEF Nodes
<1> QED
  BY <1>1

\* A function on some ids to what a node holds is a stored graph's nodes.
LEMMA NodesIntro ==
    ASSUME NEW S \in SUBSET NodeIds, NEW f \in [S -> [win : Windows, text : Texts]]
    PROVE  f \in Nodes
BY DEF Nodes

\* What is left of the nodes when some are gone.
LEMMA WithoutTyped ==
    ASSUME NEW nd \in Nodes, NEW gone
    PROVE  /\ Without(nd, gone) \in Nodes
           /\ DOMAIN Without(nd, gone) = DOMAIN nd \ gone
<1>1. DOMAIN nd \ gone \in SUBSET NodeIds
  BY NodesShape
<1>2. Without(nd, gone) \in [DOMAIN nd \ gone -> [win : Windows, text : Texts]]
  BY NodesShape DEF Without
<1> QED
  BY <1>1, <1>2, NodesIntro DEF Without

\* An edge survives exactly when both its ends do.
LEMMA CutTyped ==
    ASSUME NEW D, NEW es \in SUBSET (D \X D), NEW gone
    PROVE  Cut(es, gone) \subseteq (D \ gone) \X (D \ gone)
BY DEF Cut

\* A window's vector is made of texts.
LEMMA ContentTyped ==
    ASSUME NEW nd \in Nodes, NEW w
    PROVE  Content(nd, w) \in Vectors
<1>1. Members(nd, w) \in SUBSET NodeIds
  BY NodesShape DEF Members
<1>2. Content(nd, w) \in [Members(nd, w) -> Texts]
  BY NodesShape DEF Content, Members
<1> QED
  BY <1>1, <1>2 DEF Vectors

\* A window's nodes can be counted.
LEMMA CountTyped ==
    ASSUME NEW nd \in Nodes, NEW w
    PROVE  Cardinality(Members(nd, w)) \in Nat
<1>1. Members(nd, w) \subseteq NodeIds
  BY NodesShape DEF Members
<1> QED
  BY <1>1, CachesAssumption, FS_Subset, FS_CardinalityType

\* The upsert, the mark and the count keep a row a row.
LEMMA RowOperators ==
    ASSUME NEW c \in Nat, NEW rw \in Row(c), NEW s \in 0 .. c, NEW k \in Nat
    PROVE  /\ NoRow \in Row(c)
           /\ Ensured(rw, s) \in Row(c)
           /\ Stale(rw, s) \in Row(c)
           /\ Counted(rw, k) \in Row(c)
<1>1. NoVector \in Vectors
  BY NoVectorTyped
<1>2. NoRow \in Row(c)
  BY <1>1 DEF NoRow, Row
<1>3. Ensured(rw, s) \in Row(c)
  BY <1>1 DEF Ensured, NoRow, Row
<1>4. Stale(rw, s) \in Row(c)
  BY <1>1 DEF Stale, Row
<1>5. Counted(rw, k) \in Row(c)
  BY DEF Counted, Row
<1> QED
  BY <1>2, <1>3, <1>4, <1>5

\* Time only goes on.
LEMMA RowLater ==
    ASSUME NEW c \in Nat, NEW d \in Nat, c <= d
    PROVE  Row(c) \subseteq Row(d)
BY DEF Row

\* The ends of edges between stored nodes are stored nodes.
LEMMA EndpointsTyped ==
    ASSUME NEW D, NEW es \in SUBSET (D \X D)
    PROVE  Endpoints(es) \subseteq D
BY DEF Endpoints

-----------------------------------------------------------------------------
(* The graph, and what a step does to the tenant's row.                    *)

\* A step that marks the topics stale, and one they know nothing of.
Bumped == BumpTopics /\ UNCHANGED topic
Quiet == UNCHANGED <<node, edges, tenant, topic>>

\* Nodes that go take their edges along.
LEMMA RemovalKeepsGraph ==
    ASSUME GraphTyped, NEW gone, NEW es \in SUBSET edges,
           node' = Without(node, gone), edges' = Cut(es, gone)
    PROVE  GraphTyped'
<1> DEFINE D == DOMAIN node
<1>1. /\ Without(node, gone) \in Nodes
      /\ DOMAIN Without(node, gone) = D \ gone
  BY WithoutTyped DEF GraphTyped
<1>2. es \in SUBSET (D \X D)
  BY DEF GraphTyped
<1>3. Cut(es, gone) \subseteq (D \ gone) \X (D \ gone)
  BY <1>2, CutTyped
<1> QED
  BY <1>1, <1>3 DEF GraphTyped

\* An edge operation leads its edges between stored nodes.
LEMMA RelationKeepsGraph ==
    ASSUME GraphTyped, NEW es, ChangeEdges(es), es \subseteq (DOMAIN node) \X (DOMAIN node)
    PROVE  GraphTyped' /\ Bumped
BY DEF ChangeEdges, GraphTyped, Bumped, readers

LEMMA AddKeepsGraph ==
    ASSUME GraphTyped, NEW a \in Adders, NEW c \in Nat, adder[a] \in Add(c), AddNode(a)
    PROVE  GraphTyped' /\ (Bumped \/ Quiet)
<1>1. CASE \E w \in Windows : BeginAdd(a, w)
  BY <1>1 DEF BeginAdd, GraphTyped, Quiet, graph, readers
<1>2. ASSUME NEW n \in NodeIds, NEW t \in Texts, NEW d \in SUBSET DOMAIN node,
             InsertNode(a, n, t, d)
      PROVE  GraphTyped' /\ Bumped
  <2> DEFINE S == DOMAIN node \cup {n}
  <2>w. adder[a].win \in Windows
    BY <1>2 DEF InsertNode, Add, NoAdd
  <2>1. S \in SUBSET NodeIds
    BY NodesShape DEF GraphTyped
  <2>2. /\ node' \in [S -> [win : Windows, text : Texts]]
        /\ DOMAIN node' = S
    BY <1>2, <2>w, NodesShape DEF GraphTyped, InsertNode
  <2>3. edges' \subseteq S \X S
    BY <1>2 DEF GraphTyped, InsertNode
  <2>4. Bumped
    BY <1>2 DEF InsertNode, Bumped
  <2> QED
    BY <2>1, <2>2, <2>3, <2>4, NodesIntro DEF GraphTyped
<1>3. ASSUME NEW v \in Windows, MergeDuplicate(a, v)
      PROVE  GraphTyped' /\ Bumped
  BY <1>3 DEF MergeDuplicate, GraphTyped, Bumped, graph
<1> QED
  BY <1>1, <1>2, <1>3 DEF AddNode

LEMMA NodeKeepsGraph ==
    ASSUME GraphTyped, NEW n \in DOMAIN node, MutateNode(n)
    PROVE  GraphTyped' /\ Bumped
<1> USE DEF Bumped
<1>1. ASSUME NEW t \in Texts, ChangeContent(n, t) \/ Relabel(n, t)
      PROVE  GraphTyped' /\ Bumped
  <2>1. /\ node' \in [DOMAIN node -> [win : Windows, text : Texts]]
        /\ edges' = edges /\ Bumped
    BY <1>1, NodesShape DEF GraphTyped, ChangeContent, Relabel, readers
  <2> QED
    BY <2>1, NodesShape, NodesIntro DEF GraphTyped
<1>2. ASSUME NEW w \in Windows, ChangeScope(n, w)
      PROVE  GraphTyped' /\ Bumped
  <2>1. /\ node' \in [DOMAIN node -> [win : Windows, text : Texts]]
        /\ edges' = edges /\ Bumped
    BY <1>2, NodesShape DEF GraphTyped, ChangeScope
  <2> QED
    BY <2>1, NodesShape, NodesIntro DEF GraphTyped
<1>3. CASE DeleteNode(n)
  BY <1>3, RemovalKeepsGraph DEF DeleteNode
<1>4. ASSUME NEW m \in DOMAIN node, Canonicalize(n, m)
      PROVE  GraphTyped' /\ Bumped
  <2>1. node' \in Nodes /\ DOMAIN node' = DOMAIN node \ {n} /\ Bumped
    BY <1>4, WithoutTyped DEF GraphTyped, Canonicalize, readers
  <2>2. edges' \subseteq (DOMAIN node \ {n}) \X (DOMAIN node \ {n})
    BY <1>4 DEF GraphTyped, Canonicalize
  <2> QED
    BY <2>1, <2>2 DEF GraphTyped
<1> QED
  BY <1>1, <1>2, <1>3, <1>4 DEF MutateNode

LEMMA EdgeKeepsGraph ==
    ASSUME GraphTyped, MutateEdge
    PROVE  GraphTyped' /\ Bumped
<1> DEFINE D == DOMAIN node
<1>1. edges \subseteq D \X D
  BY DEF GraphTyped
<1>2. ASSUME NEW m \in D, NEW n \in D, AddEdge(m, n)
      PROVE  GraphTyped' /\ Bumped
  <2>1. edges \cup {<<m, n>>} \subseteq D \X D
    BY <1>1
  <2> QED
    BY <1>2, <2>1, RelationKeepsGraph DEF AddEdge
<1>3. ASSUME NEW e \in edges, NEW m \in D, NEW n \in D, UpdateEdge(e, m, n)
      PROVE  GraphTyped' /\ Bumped
  <2>1. /\ edges \cup {<<m, n>>} \subseteq D \X D
        /\ (edges \ {e}) \cup {<<m, n>>} \subseteq D \X D
    BY <1>1
  <2> QED
    BY <1>3, <2>1, RelationKeepsGraph DEF UpdateEdge
<1>4. ASSUME NEW e \in edges, DeleteEdge(e)
      PROVE  GraphTyped' /\ Bumped
  <2>1. edges \ {e} \subseteq D \X D
    BY <1>1
  <2> QED
    BY <1>1, <1>4, <2>1, RelationKeepsGraph DEF DeleteEdge
<1> QED
  BY <1>2, <1>3, <1>4 DEF MutateEdge

\* Pruning and clearing that find no node and no edge leave the graph alone.
LEMMA ForgettingKeepsGraph ==
    ASSUME GraphTyped, Forget
    PROVE  GraphTyped' /\ (Bumped \/ Quiet)
<1> DEFINE Left(ns, es) == node' = Without(node, ns) /\ edges' = Cut(edges \ es, ns)
<1>1. ASSUME NEW ns, NEW es, Left(ns, es)
      PROVE  /\ GraphTyped'
             /\ ns = {} /\ es = {} => UNCHANGED <<node, edges>>
  <2>1. edges \ es \in SUBSET edges
    OBVIOUS
  <2>2. GraphTyped'
    BY <1>1, <2>1, RemovalKeepsGraph
  <2>3. ASSUME ns = {}, es = {}
        PROVE  UNCHANGED <<node, edges>>
    <3>1. node' = [n \in DOMAIN node |-> node[n]]
      BY <1>1, <2>3 DEF Without
    <3>2. node = [n \in DOMAIN node |-> node[n]]
      <4>1. PICK S \in SUBSET NodeIds : node \in [S -> [win : Windows, text : Texts]]
        BY DEF GraphTyped, Nodes
      <4> QED
        BY <4>1
    <3> QED
      BY <1>1, <2>3, <3>1, <3>2 DEF Cut
  <2> QED
    BY <2>2, <2>3
<1>2. ASSUME NEW ns, NEW es, NEW ws, Prune(ns, es, ws)
      PROVE  GraphTyped' /\ (Bumped \/ Quiet)
  <2>1. Left(ns, es)
    BY <1>2 DEF Prune
  <2>2. (ns = {} /\ es = {}) \/ Bumped
    BY <1>2 DEF Prune, Bumped, readers
  <2>3. ns = {} /\ es = {} => UNCHANGED <<tenant, topic>>
    BY <1>2 DEF Prune, readers
  <2> QED
    BY <1>1, <2>1, <2>2, <2>3 DEF Quiet
<1>3. ASSUME NEW w \in Windows, ClearSession(w)
      PROVE  GraphTyped' /\ (Bumped \/ Quiet)
  <2> DEFINE ns == Members(node, w)
  <2>1. Left(ns, {})
    BY <1>3 DEF ClearSession
  <2>2. ns = {} \/ Bumped
    BY <1>3 DEF ClearSession, Bumped, readers
  <2>3. ns = {} => UNCHANGED <<tenant, topic>>
    BY <1>3 DEF ClearSession, readers
  <2> HIDE DEF ns
  <2> QED
    BY <1>1, <2>1, <2>2, <2>3 DEF Quiet
<1> QED
  BY <1>2, <1>3 DEF Forget

LEMMA VectorsKeepGraph ==
    ASSUME GraphTyped, NEW r \in VectorReaders, VectorStep(r)
    PROVE  GraphTyped' /\ Quiet
BY DEF VectorStep, ReadRow, Compute, SaveIfUnchanged, BeginClose, SaveOnClose, GraphTyped,
       Quiet, graph

-----------------------------------------------------------------------------
(* The rows of the windows and the calls.                                  *)

Rows == row \in [Windows -> Row(clock)]
Clocked == clock \in 0 .. MaxClock
Noted == restaled \subseteq VectorReaders /\ drifted \subseteq Windows
Calls ==
    /\ adder \in [Adders -> Add(clock)]
    /\ vector \in [VectorReaders -> Computation(clock)]

\* What was typed before is typed after the clock went on.
LEMMA Later ==
    ASSUME Clocked, Rows, Calls, clock' \in Nat, clock <= clock'
    PROVE  /\ row \in [Windows -> Row(clock')]
           /\ adder \in [Adders -> Add(clock')]
           /\ vector \in [VectorReaders -> Computation(clock')]
<1>1. clock \in Nat
  BY CachesAssumption DEF Clocked
<1>2. Row(clock) \subseteq Row(clock')
  BY <1>1, RowLater
<1>3. Add(clock) \subseteq Add(clock')
  BY <1>1 DEF Add
<1>4. Computation(clock) \subseteq Computation(clock')
  BY <1>1 DEF Computation
<1> QED
  BY <1>2, <1>3, <1>4 DEF Rows, Calls

\* A stored timestamp is the clock, which has room for it.
LEMMA Ticks ==
    ASSUME Clocked, Tick
    PROVE  Clocked' /\ clock' \in Nat /\ clock <= clock' /\ clock' \in 0 .. clock'
BY CachesAssumption DEF Clocked, Tick

LEMMA NotesTyped ==
    ASSUME Noted, NEW ws, NoteStale(ws)
    PROVE  restaled' \subseteq VectorReaders
BY DEF Noted, NoteStale, Guarding

LEMMA AddKeepsCalls ==
    ASSUME GraphTyped, GraphTyped', Clocked, Rows, Calls, Noted, NEW a \in Adders, AddNode(a)
    PROVE  Clocked' /\ Rows' /\ Calls' /\ Noted'
<1>1. ASSUME NEW w \in Windows, BeginAdd(a, w)
      PROVE  Clocked' /\ Rows' /\ Calls' /\ Noted'
  <2>1. Clocked' /\ clock' \in Nat /\ clock <= clock' /\ clock' \in 0 .. clock'
    BY <1>1, Ticks DEF BeginAdd
  <2>2. /\ row \in [Windows -> Row(clock')]
        /\ adder \in [Adders -> Add(clock')]
        /\ vector \in [VectorReaders -> Computation(clock')]
    BY <2>1, Later
  <2>3. Ensured(row[w], clock') \in Row(clock')
    BY <2>1, <2>2, RowOperators
  <2>4. Rows'
    BY <1>1, <2>2, <2>3 DEF BeginAdd, Rows
  <2>5. [pc |-> "resolved", win |-> w, at |-> clock'] \in Add(clock')
    BY <2>1 DEF Add
  <2>6. Calls'
    BY <1>1, <2>2, <2>5 DEF BeginAdd, Calls, readers
  <2>7. Noted'
    BY <1>1 DEF BeginAdd, Noted, readers
  <2> QED
    BY <2>1, <2>4, <2>6, <2>7
<1>2. ASSUME adder[a].pc = "resolved", clock' = clock, EndAdd(a), UNCHANGED vector,
             NEW k \in Nat, NEW w \in Windows,
             \/ row' = [row EXCEPT ![w] = Counted(Stale(row[w], adder[a].at), k)]
             \/ row' = [row EXCEPT ![w] = Stale(row[w], adder[a].at)]
      PROVE  Clocked' /\ Rows' /\ Calls'
  <2> DEFINE s == adder[a].at
  <2>1. clock \in Nat
    BY CachesAssumption DEF Clocked
  <2>2. s \in 0 .. clock
    BY <1>2 DEF Calls, Add, NoAdd
  <2>3. Stale(row[w], s) \in Row(clock)
    BY <2>1, <2>2, RowOperators DEF Rows
  <2>4. Counted(Stale(row[w], s), k) \in Row(clock)
    BY <1>2, <2>1, <2>2, <2>3, RowOperators
  <2>5. Rows'
    BY <1>2, <2>3, <2>4 DEF Rows
  <2>6. NoAdd \in Add(clock)
    BY DEF Add
  <2>7. Calls'
    BY <1>2, <2>6 DEF Calls, EndAdd
  <2> QED
    BY <1>2, <2>5, <2>7 DEF Clocked
<1>3. ASSUME NEW n \in NodeIds, NEW t \in Texts, NEW d \in SUBSET DOMAIN node,
             InsertNode(a, n, t, d)
      PROVE  Clocked' /\ Rows' /\ Calls' /\ Noted'
  <2> DEFINE k == Cardinality(Members(node', adder[a].win))
  <2>1. k \in Nat
    BY CountTyped DEF GraphTyped
  <2>2. /\ row' = [row EXCEPT ![adder[a].win] =
                       Counted(Stale(row[adder[a].win], adder[a].at), k)]
        /\ adder[a].pc = "resolved" /\ clock' = clock /\ EndAdd(a) /\ UNCHANGED vector
    BY <1>3 DEF InsertNode
  <2> HIDE DEF k
  <2>w. adder[a].win \in Windows
    BY <2>2 DEF Calls, Add, NoAdd
  <2>3. Clocked' /\ Rows' /\ Calls'
    BY <1>2, <2>1, <2>2, <2>w
  <2>4. Noted'
    BY <1>3, <2>w, NotesTyped DEF InsertNode, Noted
  <2> QED
    BY <2>3, <2>4
<1>4. ASSUME NEW v \in Windows, MergeDuplicate(a, v)
      PROVE  Clocked' /\ Rows' /\ Calls' /\ Noted'
  <2>1. Clocked' /\ Rows' /\ Calls'
    BY <1>2, <1>4, 0 \in Nat DEF MergeDuplicate
  <2>2. Noted'
    BY <1>4, NotesTyped DEF MergeDuplicate, Noted
  <2> QED
    BY <2>1, <2>2
<1> QED
  BY <1>1, <1>3, <1>4 DEF AddNode

\* The rows a mutation may write, with the timestamp it takes.
LEMMA RowsWritten ==
    ASSUME Clocked, Rows, Calls, Tick
    PROVE  /\ row \in [Windows -> Row(clock')]
           /\ NoRow \in Row(clock')
           /\ \A w \in Windows, k \in Nat :
                  /\ Stale(row[w], clock') \in Row(clock')
                  /\ Counted(Stale(row[w], clock'), k) \in Row(clock')
                  /\ Counted(Stale(Ensured(row[w], clock'), clock'), k) \in Row(clock')
                  /\ Stale(Counted(Ensured(row[w], clock'), k), clock') \in Row(clock')
<1>1. clock' \in Nat /\ clock <= clock' /\ clock' \in 0 .. clock'
  BY Ticks
<1>2. row \in [Windows -> Row(clock')]
  BY <1>1, Later
<1>3. NoRow \in Row(clock')
  BY <1>1, NoVectorTyped DEF NoRow, Row
<1>4. ASSUME NEW w \in Windows, NEW k \in Nat
      PROVE  /\ Stale(row[w], clock') \in Row(clock')
             /\ Counted(Stale(row[w], clock'), k) \in Row(clock')
             /\ Counted(Stale(Ensured(row[w], clock'), clock'), k) \in Row(clock')
             /\ Stale(Counted(Ensured(row[w], clock'), k), clock') \in Row(clock')
  <2>1. Stale(row[w], clock') \in Row(clock') /\ Ensured(row[w], clock') \in Row(clock')
    BY <1>1, <1>2, RowOperators
  <2>2. /\ Counted(Stale(row[w], clock'), k) \in Row(clock')
        /\ Stale(Ensured(row[w], clock'), clock') \in Row(clock')
        /\ Counted(Ensured(row[w], clock'), k) \in Row(clock')
    BY <1>1, <2>1, RowOperators
  <2>3. /\ Counted(Stale(Ensured(row[w], clock'), clock'), k) \in Row(clock')
        /\ Stale(Counted(Ensured(row[w], clock'), k), clock') \in Row(clock')
    BY <1>1, <2>2, RowOperators
  <2> QED
    BY <2>1, <2>2, <2>3
<1> QED
  BY <1>2, <1>3, <1>4

\* A mutation leaves the calls of the others where they are.
LEMMA MutationKeepsCalls ==
    ASSUME Clocked, Rows, Calls, Tick, UNCHANGED <<adder, vector>>,
           row' \in [Windows -> Row(clock')],
           restaled' \subseteq VectorReaders, drifted' \subseteq Windows
    PROVE  Clocked' /\ Rows' /\ Calls' /\ Noted'
<1>1. Clocked' /\ clock' \in Nat /\ clock <= clock'
  BY Ticks
<1>2. adder \in [Adders -> Add(clock')] /\ vector \in [VectorReaders -> Computation(clock')]
  BY <1>1, Later
<1> QED
  BY <1>1, <1>2 DEF Rows, Calls, Noted

LEMMA NodeKeepsCalls ==
    ASSUME GraphTyped, GraphTyped', Clocked, Rows, Calls, Noted,
           NEW n \in DOMAIN node, MutateNode(n)
    PROVE  Clocked' /\ Rows' /\ Calls' /\ Noted'
<1>1. node[n].win \in Windows
  BY NodesShape DEF GraphTyped
<1>2. \A w : Cardinality(Members(node', w)) \in Nat
  BY CountTyped DEF GraphTyped
<1>3. ASSUME NEW t \in Texts, ChangeContent(n, t)
      PROVE  Clocked' /\ Rows' /\ Calls' /\ Noted'
  <2>1. Tick /\ UNCHANGED <<adder, vector>> /\ drifted' \subseteq Windows
    BY <1>3 DEF ChangeContent, Noted
  <2>2. restaled' \subseteq VectorReaders
    BY <1>3, NotesTyped DEF ChangeContent
  <2>3. row' = [row EXCEPT ![node[n].win] = Stale(row[node[n].win], clock')]
    BY <1>3 DEF ChangeContent
  <2>4. row \in [Windows -> Row(clock')] /\ Stale(row[node[n].win], clock') \in Row(clock')
    BY <1>1, <2>1, RowsWritten, 0 \in Nat
  <2>5. row' \in [Windows -> Row(clock')]
    BY <2>3, <2>4
  <2> QED
    BY <2>1, <2>2, <2>5, MutationKeepsCalls
<1>4. ASSUME Tick, UNCHANGED <<row, adder, vector, restaled>>,
             drifted' = drifted \cup {node[n].win}
      PROVE  Clocked' /\ Rows' /\ Calls' /\ Noted'
  <2>1. row' \in [Windows -> Row(clock')]
    BY <1>4, RowsWritten
  <2>2. restaled' \subseteq VectorReaders /\ drifted' \subseteq Windows
    BY <1>1, <1>4 DEF Noted
  <2> QED
    BY <1>4, <2>1, <2>2, MutationKeepsCalls
<1>5. ASSUME NEW t \in Texts, Relabel(n, t)
      PROVE  Clocked' /\ Rows' /\ Calls' /\ Noted'
  BY <1>4, <1>5 DEF Relabel, readers
<1>6. ASSUME NEW w \in Windows, ChangeScope(n, w)
      PROVE  Clocked' /\ Rows' /\ Calls' /\ Noted'
  <2> DEFINE ws == {node[n].win, w}
             ensured == [row EXCEPT ![w] = Ensured(@, clock')]
  <2>1. Tick /\ UNCHANGED <<adder, vector>> /\ drifted' \subseteq Windows
    BY <1>6 DEF ChangeScope, Noted
  <2>2. restaled' \subseteq VectorReaders
    BY <1>6, NotesTyped DEF ChangeScope
  <2>3. row' = [v \in Windows |->
                  IF v \in ws
                  THEN Counted(Stale(ensured[v], clock'), Cardinality(Members(node', v)))
                  ELSE row[v]]
    BY <1>6 DEF ChangeScope
  <2>4. ASSUME NEW v \in Windows
        PROVE  /\ row[v] \in Row(clock')
               /\ Counted(Stale(ensured[v], clock'), Cardinality(Members(node', v))) \in Row(clock')
    <3>1. /\ row \in [Windows -> Row(clock')]
          /\ Counted(Stale(row[v], clock'), Cardinality(Members(node', v))) \in Row(clock')
          /\ Counted(Stale(Ensured(row[v], clock'), clock'), Cardinality(Members(node', v)))
                \in Row(clock')
      BY <1>2, <2>1, RowsWritten
    <3>2. ensured[v] = IF v = w THEN Ensured(row[v], clock') ELSE row[v]
      BY <3>1
    <3> QED
      BY <3>1, <3>2
  <2> HIDE DEF ws, ensured
  <2>5. row' \in [Windows -> Row(clock')]
    BY <2>3, <2>4
  <2> QED
    BY <2>1, <2>2, <2>5, MutationKeepsCalls
<1>7. CASE DeleteNode(n)
  <2> DEFINE w == node[n].win
  <2>1. Tick /\ UNCHANGED <<adder, vector>> /\ drifted' \subseteq Windows
    BY <1>7 DEF DeleteNode, Noted
  <2>2. restaled' \subseteq VectorReaders
    BY <1>7, NotesTyped DEF DeleteNode
  <2>3. row' = [row EXCEPT ![w] = Counted(Stale(row[w], clock'),
                                          Cardinality(Members(node', w)))]
    BY <1>7 DEF DeleteNode
  <2>4. /\ row \in [Windows -> Row(clock')]
        /\ Counted(Stale(row[w], clock'), Cardinality(Members(node', w))) \in Row(clock')
    BY <1>1, <1>2, <2>1, RowsWritten
  <2>5. row' \in [Windows -> Row(clock')]
    BY <2>3, <2>4
  <2> QED
    BY <2>1, <2>2, <2>5, MutationKeepsCalls
<1>8. ASSUME NEW m \in DOMAIN node, Canonicalize(n, m)
      PROVE  Clocked' /\ Rows' /\ Calls' /\ Noted'
  BY <1>4, <1>8 DEF Canonicalize, readers
<1> QED
  BY <1>3, <1>5, <1>6, <1>7, <1>8 DEF MutateNode

LEMMA EdgeKeepsCalls ==
    ASSUME Clocked, Rows, Calls, Noted, MutateEdge
    PROVE  Clocked' /\ Rows' /\ Calls' /\ Noted'
<1>1. Tick /\ UNCHANGED <<row, adder, vector, restaled, drifted>>
  BY DEF MutateEdge, AddEdge, UpdateEdge, DeleteEdge, ChangeEdges, readers
<1>2. row' \in [Windows -> Row(clock')]
  BY <1>1, RowsWritten
<1> QED
  BY <1>1, <1>2, MutationKeepsCalls DEF Noted

LEMMA ForgettingKeepsCalls ==
    ASSUME GraphTyped, Clocked, Rows, Calls, Noted, Forget
    PROVE  Clocked' /\ Rows' /\ Calls' /\ Noted'
<1>1. ASSUME NEW ns \in SUBSET DOMAIN node, NEW es, NEW ws, Prune(ns, es, ws)
      PROVE  Clocked' /\ Rows' /\ Calls' /\ Noted'
  <2>1. Tick /\ UNCHANGED <<adder, vector, restaled>>
    BY <1>1 DEF Prune, readers
  <2>2. drifted' \subseteq Windows
    BY <1>1, NodesShape DEF Prune, Noted, GraphTyped
  <2>3. row' \in [Windows -> Row(clock')]
    BY <1>1, <2>1, RowsWritten DEF Prune
  <2> QED
    BY <2>1, <2>2, <2>3, MutationKeepsCalls DEF Noted
<1>2. ASSUME NEW w \in Windows, ClearSession(w)
      PROVE  Clocked' /\ Rows' /\ Calls' /\ Noted'
  <2>1. Tick /\ UNCHANGED <<adder, vector, restaled, drifted>>
    BY <1>2 DEF ClearSession, readers
  <2>2. row' \in [Windows -> Row(clock')]
    BY <1>2, <2>1, RowsWritten DEF ClearSession
  <2> QED
    BY <2>1, <2>2, MutationKeepsCalls DEF Noted
<1> QED
  BY <1>1, <1>2 DEF Forget

LEMMA ObservationKeepsAll ==
    ASSUME GraphTyped, Clocked, Rows, Calls, Noted, NEW w \in Windows, ObserveTurn(w)
    PROVE  GraphTyped' /\ Quiet /\ Clocked' /\ Rows' /\ Calls' /\ Noted'
<1>1. Tick /\ UNCHANGED <<adder, vector>> /\ drifted' \subseteq Windows
  BY DEF ObserveTurn, Noted
<1>2. restaled' \subseteq VectorReaders
  BY NotesTyped DEF ObserveTurn
<1>3. row' = [row EXCEPT ![w] =
                 Stale(Counted(Ensured(row[w], clock'), Cardinality(Members(node, w))), clock')]
  BY DEF ObserveTurn
<1>4. Cardinality(Members(node, w)) \in Nat
  BY CountTyped DEF GraphTyped
<1>5. /\ row \in [Windows -> Row(clock')]
      /\ Stale(Counted(Ensured(row[w], clock'), Cardinality(Members(node, w))), clock')
            \in Row(clock')
  BY <1>1, <1>4, RowsWritten
<1>6. row' \in [Windows -> Row(clock')]
  BY <1>3, <1>5
<1>7. Clocked' /\ Rows' /\ Calls' /\ Noted'
  BY <1>1, <1>2, <1>6, MutationKeepsCalls
<1>8. GraphTyped' /\ Quiet
  BY DEF ObserveTurn, GraphTyped, Quiet, graph
<1> QED
  BY <1>7, <1>8

\* A computation of a vector leaves the calls of add_node where they are.
LEMMA VectorsKeepCalls ==
    ASSUME GraphTyped, Clocked, Rows, Calls, Noted, NEW r \in VectorReaders, VectorStep(r)
    PROVE  Clocked' /\ Rows' /\ Calls' /\ Noted'
<1>1. clock \in Nat
  BY CachesAssumption DEF Clocked
<1>2. NoRead \in Computation(clock)
  BY DEF Computation
<1>3. ASSUME NEW x \in Computation(clock), vector' = [vector EXCEPT ![r] = x],
             UNCHANGED <<row, adder, clock>>
      PROVE  Clocked' /\ Rows' /\ Calls'
  BY <1>3 DEF Clocked, Rows, Calls
<1>4. ASSUME NEW w \in Windows, ReadRow(r, w)
      PROVE  Clocked' /\ Rows' /\ Calls' /\ Noted'
  <2>1. row[w].at \in 0 .. clock
    BY DEF Rows, Row
  <2>2. [pc |-> "read", guarded |-> TRUE, win |-> w, at |-> row[w].at, vec |-> NoVector]
           \in Computation(clock)
    BY <2>1, NoVectorTyped DEF Computation
  <2> QED
    BY <1>3, <1>4, <2>2 DEF ReadRow, Noted
<1>5. ASSUME NEW w \in Windows, BeginClose(r, w)
      PROVE  Clocked' /\ Rows' /\ Calls' /\ Noted'
  <2>1. Content(node, w) \in Vectors
    BY ContentTyped DEF GraphTyped
  <2>2. [pc |-> "computed", guarded |-> FALSE, win |-> w, at |-> 0, vec |-> Content(node, w)]
           \in Computation(clock)
    BY <1>1, <2>1 DEF Computation
  <2> QED
    BY <1>3, <1>5, <2>2 DEF BeginClose, Noted
<1>6. CASE Compute(r)
  <2> DEFINE w == vector[r].win
  <2>1. Content(node, w) \in Vectors
    BY ContentTyped DEF GraphTyped
  <2>2. vector[r] \in [pc : {"read", "computed"}, guarded : BOOLEAN, win : Windows,
                       at : 0 .. clock, vec : Vectors]
    BY <1>6 DEF Compute, Calls, Computation, NoRead
  <2>3. [vector[r] EXCEPT !.pc = "computed", !.vec = Content(node, w)] \in Computation(clock)
    BY <2>1, <2>2 DEF Computation
  <2>4. UNCHANGED <<row, adder, clock, drifted>> /\ restaled' \subseteq restaled
    BY <1>6 DEF Compute, EndVector
  <2>5. \/ vector' = [vector EXCEPT ![r] = NoRead]
        \/ vector' = [vector EXCEPT ![r] =
                         [vector[r] EXCEPT !.pc = "computed", !.vec = Content(node, w)]]
    BY <1>6 DEF Compute, EndVector, Calls
  <2>6. Clocked' /\ Rows' /\ Calls'
    BY <1>2, <1>3, <2>3, <2>4, <2>5
  <2> QED
    BY <2>4, <2>6 DEF Noted
<1>7. ASSUME NEW v \in Vectors, NEW w \in Windows, NEW k \in Nat, Tick, EndVector(r),
             UNCHANGED adder, drifted' \subseteq Windows,
             \/ row' = [row EXCEPT ![w] = SavedRow(row[w], v, clock')]
             \/ row' = [row EXCEPT ![w] =
                           [Counted(SavedRow(row[w], v, clock'), k) EXCEPT !.at = clock']]
             \/ row' = [row EXCEPT ![w] = [Counted(row[w], k) EXCEPT !.at = clock']]
      PROVE  Clocked' /\ Rows' /\ Calls' /\ Noted'
  <2>1. Clocked' /\ clock' \in Nat /\ clock <= clock' /\ clock' \in 0 .. clock'
    BY <1>7, Ticks
  <2>2. /\ row \in [Windows -> Row(clock')]
        /\ adder \in [Adders -> Add(clock')]
        /\ vector \in [VectorReaders -> Computation(clock')]
    BY <2>1, Later
  <2>3. SavedRow(row[w], v, clock') \in Row(clock')
    BY <2>1, <2>2 DEF SavedRow, Row
  <2>4. /\ Counted(SavedRow(row[w], v, clock'), k) \in Row(clock')
        /\ Counted(row[w], k) \in Row(clock')
    BY <2>1, <2>2, <2>3, RowOperators
  <2>5. /\ [Counted(SavedRow(row[w], v, clock'), k) EXCEPT !.at = clock'] \in Row(clock')
        /\ [Counted(row[w], k) EXCEPT !.at = clock'] \in Row(clock')
    BY <2>1, <2>4 DEF Row
  <2>6. Rows'
    BY <1>7, <2>2, <2>3, <2>5 DEF Rows
  <2>7. NoRead \in Computation(clock')
    BY DEF Computation
  <2>8. Calls'
    BY <1>7, <2>2, <2>7 DEF Calls, EndVector
  <2>9. Noted'
    BY <1>7 DEF Noted, EndVector
  <2> QED
    BY <2>1, <2>6, <2>8, <2>9
<1>8. ASSUME EndVector(r), UNCHANGED <<row, adder, clock, drifted>>
      PROVE  Clocked' /\ Rows' /\ Calls' /\ Noted'
  BY <1>2, <1>3, <1>8 DEF EndVector, Noted
<1>9. vector[r].pc = "computed" => vector[r].vec \in Vectors /\ vector[r].win \in Windows
  BY DEF Calls, Computation, NoRead
<1>10. \A w : Cardinality(Members(node, w)) \in Nat
  BY CountTyped DEF GraphTyped
<1>11. CASE SaveIfUnchanged(r)
  <2> DEFINE w == vector[r].win
  <2>1. CASE row[w].there /\ row[w].at = vector[r].at
    <3>1. /\ Tick /\ EndVector(r) /\ UNCHANGED adder /\ drifted' \subseteq Windows
          /\ row' = [row EXCEPT ![w] = SavedRow(row[w], vector[r].vec, clock')]
          /\ vector[r].vec \in Vectors /\ w \in Windows
      BY <1>9, <1>11, <2>1 DEF SaveIfUnchanged, Noted
    <3> QED
      BY <1>7, <3>1, 0 \in Nat
  <2>2. CASE ~(row[w].there /\ row[w].at = vector[r].at)
    BY <1>8, <1>11, <2>2 DEF SaveIfUnchanged
  <2> QED
    BY <2>1, <2>2
<1>12. CASE SaveOnClose(r)
  <2> DEFINE w == vector[r].win
             v == vector[r].vec
             k == Cardinality(Members(node, w))
  <2>1. CASE row[w].there
    <3>1. v \in Vectors /\ w \in Windows /\ k \in Nat
      BY <1>9, <1>10, <1>12 DEF SaveOnClose
    <3>2. Tick /\ EndVector(r) /\ UNCHANGED adder /\ drifted' \subseteq Windows
      BY <1>12, <2>1, <3>1 DEF SaveOnClose, Noted
    <3>3. \/ row' = [row EXCEPT ![w] =
                        [Counted(SavedRow(row[w], v, clock'), k) EXCEPT !.at = clock']]
          \/ row' = [row EXCEPT ![w] = [Counted(row[w], k) EXCEPT !.at = clock']]
      BY <1>12, <2>1 DEF SaveOnClose
    <3> HIDE DEF w, v, k
    <3> QED
      BY <1>7, <3>1, <3>2, <3>3
  <2>2. CASE ~row[w].there
    BY <1>8, <1>12, <2>2 DEF SaveOnClose
  <2> QED
    BY <2>1, <2>2
<1> QED
  BY <1>4, <1>5, <1>6, <1>11, <1>12 DEF VectorStep

-----------------------------------------------------------------------------
(* The topic cache.                                                        *)

TenantTyped == tenant \in [stale : BOOLEAN, version : Nat, keys : SUBSET NodeIds, links : Links]
TopicsTyped == topic \in [TopicReaders -> Topic]

\* What a get_topics call holds is the graph of the version it read, unless the
\* version has moved on; then its partition is not stored.
ReadersKnow ==
    \A r \in TopicReaders :
        /\ topic[r].version <= tenant.version
        /\ topic[r].version = tenant.version =>
              /\ topic[r].pc = "nodes" => topic[r].keys = DOMAIN node
              /\ topic[r].pc = "partition" =>
                    /\ topic[r].keys = DOMAIN node
                    /\ topic[r].links = edges
                    /\ topic[r].found = topic[r].keys \cup Endpoints(edges)
              /\ topic[r].pc # "raised"

Protocol == TopicsMatchGraph /\ ReadersKnow

\* A mutation that bumps the version leaves every call under way behind it.
LEMMA BumpKeepsProtocol ==
    ASSUME TenantTyped, TopicsTyped, Protocol, Bumped
    PROVE  TenantTyped' /\ TopicsTyped' /\ Protocol'
<1>1. tenant.version \in Nat
  BY DEF TenantTyped
<1>2. /\ tenant' = [stale |-> TRUE, version |-> tenant.version + 1, keys |-> {}, links |-> {}]
      /\ topic' = topic
  BY DEF Bumped, BumpTopics
<1>3. TenantTyped' /\ TopicsTyped'
  BY <1>1, <1>2 DEF TenantTyped, TopicsTyped, Links
<1>4. \A r \in TopicReaders : topic[r].version \in Nat /\ topic[r].version <= tenant.version
  BY DEF Protocol, ReadersKnow, TopicsTyped, Topic
<1>5. ReadersKnow'
  BY <1>1, <1>2, <1>4 DEF ReadersKnow
<1>6. TopicsMatchGraph'
  BY <1>2 DEF TopicsMatchGraph
<1> QED
  BY <1>3, <1>5, <1>6 DEF Protocol

LEMMA QuietKeepsProtocol ==
    ASSUME TenantTyped, TopicsTyped, Protocol, Quiet
    PROVE  TenantTyped' /\ TopicsTyped' /\ Protocol'
BY DEF Quiet, TenantTyped, TopicsTyped, Protocol, ReadersKnow, TopicsMatchGraph

\* One call's step keeps what the others know, if the version stays.
LEMMA OneReader ==
    ASSUME TopicsTyped, Protocol, NEW r \in TopicReaders, NEW x \in Topic,
           topic' = [topic EXCEPT ![r] = x], UNCHANGED <<node, edges>>,
           tenant'.version = tenant.version, TopicsMatchGraph',
           x.version <= tenant.version,
           x.version = tenant.version =>
               /\ x.pc = "nodes" => x.keys = DOMAIN node
               /\ x.pc = "partition" => /\ x.keys = DOMAIN node
                                        /\ x.links = edges
                                        /\ x.found = x.keys \cup Endpoints(edges)
               /\ x.pc # "raised"
    PROVE  TopicsTyped' /\ Protocol'
<1>1. TopicsTyped'
  BY DEF TopicsTyped
<1>2. \A q \in TopicReaders : topic'[q] = IF q = r THEN x ELSE topic[q]
  BY DEF TopicsTyped
<1>3. ReadersKnow'
  BY <1>2 DEF Protocol, ReadersKnow
<1> QED
  BY <1>1, <1>3 DEF Protocol

\* The statements of get_topics.
LEMMA TopicStepKeepsProtocol ==
    ASSUME GraphTyped, TenantTyped, TopicsTyped, Protocol, NEW r \in TopicReaders, TopicStep(r)
    PROVE  TenantTyped' /\ TopicsTyped' /\ Protocol'
<1> DEFINE me == topic[r]
<1>1. me \in Topic /\ NoTopic \in Topic
  BY DEF TopicsTyped, Topic, NoTopic, Links
<1>2. /\ tenant.version \in Nat /\ tenant.keys \in SUBSET NodeIds
      /\ 0 <= tenant.version
  BY DEF TenantTyped
<1>3. DOMAIN node \in SUBSET NodeIds /\ edges \in Links /\ Endpoints(edges) \in SUBSET DOMAIN node
  BY NodesShape, EndpointsTyped DEF GraphTyped, Links
<1>4. me.version <= tenant.version
  BY DEF Protocol, ReadersKnow
<1>5. ASSUME UNCHANGED <<node, edges, tenant>>
      PROVE  TenantTyped' /\ TopicsMatchGraph' /\ tenant'.version = tenant.version
  BY <1>5 DEF TenantTyped, Protocol, TopicsMatchGraph
<1>6. NoTopic.version <= tenant.version /\ NoTopic.pc = "idle"
  BY <1>2 DEF NoTopic
<1>7. ASSUME NEW force \in BOOLEAN, ReadTenant(r, force)
      PROVE  TenantTyped' /\ TopicsTyped' /\ Protocol'
  <2> DEFINE h == IF tenant.stale \/ force THEN {} ELSE tenant.keys
             x == [NoTopic EXCEPT !.pc = "tenant", !.version = tenant.version, !.hit = h]
  <2>1. x \in Topic /\ x.version = tenant.version /\ x.pc = "tenant"
    BY <1>1, <1>2 DEF Topic
  <2>2. topic' = [topic EXCEPT ![r] = x]
    BY <1>7 DEF ReadTenant
  <2>3. UNCHANGED <<node, edges, tenant>>
    BY <1>7 DEF ReadTenant, graph
  <2> HIDE DEF h, x
  <2>4. x.version <= tenant.version
    BY <1>2, <2>1
  <2> QED
    BY <1>5, <2>1, <2>2, <2>3, <2>4, OneReader
<1>8. CASE ReadNodes(r)
  <2> DEFINE x == [NoTopic EXCEPT !.pc = "nodes", !.version = me.version, !.keys = DOMAIN node]
  <2>1. x \in Topic /\ x.version = me.version /\ x.pc = "nodes" /\ x.keys = DOMAIN node
    BY <1>1, <1>3 DEF Topic
  <2>2. \/ topic' = [topic EXCEPT ![r] = x]
        \/ topic' = [topic EXCEPT ![r] = NoTopic]
    BY <1>8 DEF ReadNodes
  <2>3. UNCHANGED <<node, edges, tenant>>
    BY <1>8 DEF ReadNodes, graph
  <2> HIDE DEF x
  <2> QED
    BY <1>1, <1>4, <1>5, <1>6, <2>1, <2>2, <2>3, OneReader
<1>9. CASE LoadGraph(r)
  <2> DEFINE x == [me EXCEPT !.pc = "partition", !.links = edges,
                             !.found = me.keys \cup Endpoints(edges)]
  <2>1. /\ x \in Topic /\ x.version = me.version /\ x.pc = "partition" /\ x.keys = me.keys
        /\ x.links = edges /\ x.found = me.keys \cup Endpoints(edges)
    BY <1>1, <1>3 DEF Topic, Links
  <2>2. me.version = tenant.version => me.keys = DOMAIN node
    BY <1>9 DEF LoadGraph, Protocol, ReadersKnow
  <2>3. topic' = [topic EXCEPT ![r] = x] /\ UNCHANGED <<node, edges, tenant>>
    BY <1>9 DEF LoadGraph, graph, TopicsTyped
  <2> HIDE DEF x
  <2> QED
    BY <1>4, <1>5, <2>1, <2>2, <2>3, OneReader
<1>10. CASE StoreTopics(r)
  <2> DEFINE x == [me EXCEPT !.pc = "raised"]
  <2>1. x \in Topic /\ x.version = me.version /\ x.pc = "raised"
    BY <1>1 DEF Topic
  <2>2. me.version = tenant.version =>
           /\ me.keys = DOMAIN node /\ me.links = edges
           /\ me.found = me.keys \cup Endpoints(edges)
    BY <1>10 DEF StoreTopics, Protocol, ReadersKnow
  <2>3. me.version = tenant.version => me.found \subseteq me.keys /\ me.found = DOMAIN node
    BY <1>3, <2>2
  <2>4. /\ topic' = [topic EXCEPT ![r] = IF me.found \subseteq me.keys THEN NoTopic ELSE x]
        /\ UNCHANGED <<node, edges>>
    BY <1>10 DEF StoreTopics, graph
  <2>5. TenantTyped' /\ TopicsMatchGraph' /\ tenant'.version = tenant.version
    <3>1. CASE tenant.version = me.version
      <4>1. tenant' = [tenant EXCEPT !.stale = FALSE, !.keys = me.found, !.links = me.links]
        BY <1>10, <3>1 DEF StoreTopics
      <4>2. me.found \in SUBSET NodeIds /\ me.links \in Links
        BY <1>1 DEF Topic
      <4>3. /\ TenantTyped' /\ tenant'.version = tenant.version
            /\ tenant'.keys = me.found /\ tenant'.links = me.links
        BY <4>1, <4>2 DEF TenantTyped
      <4> QED
        BY <2>2, <2>3, <2>4, <3>1, <4>3 DEF TopicsMatchGraph
    <3>2. CASE tenant.version # me.version
      BY <1>5, <1>10, <2>4, <3>2 DEF StoreTopics
    <3> QED
      BY <3>1, <3>2
  <2> HIDE DEF x
  <2>6. CASE me.found \subseteq me.keys
    BY <1>1, <1>6, <2>4, <2>5, <2>6, OneReader
  <2>7. CASE ~(me.found \subseteq me.keys)
    BY <1>4, <2>1, <2>3, <2>4, <2>5, <2>7, OneReader
  <2> QED
    BY <2>6, <2>7
<1>11. CASE Raised(r)
  BY <1>1, <1>5, <1>6, <1>11, OneReader DEF Raised, graph
<1> QED
  BY <1>7, <1>8, <1>9, <1>10, <1>11 DEF TopicStep

-----------------------------------------------------------------------------
(* The invariant.                                                          *)

Typed == GraphTyped /\ TenantTyped /\ TopicsTyped /\ Clocked /\ Rows /\ Calls /\ Noted
IInv == TypeOK /\ Protocol

\* The parts the lemmas speak of are the type invariant.
LEMMA TypedIsTypeOK == Typed <=> TypeOK
BY DEF Typed, TypeOK, GraphTyped, TenantTyped, TopicsTyped, Clocked, Rows, Calls, Noted,
       Nodes, Row, Add, Computation, Topic

LEMMA InitEstablishesIInv == Init => IInv
<1> SUFFICES ASSUME Init
             PROVE  IInv
  OBVIOUS
<1> clock = 0 /\ restaled = {} /\ drifted = {}
  BY Zenon DEF Init
<1>0. clock \in 0 .. clock
  OBVIOUS
<1>1. GraphTyped
  BY DEF Init, GraphTyped, Nodes
<1>2. TenantTyped /\ tenant.stale = TRUE /\ tenant.version = 0
  BY DEF Init, TenantTyped, Links
<1>3. NoTopic \in Topic /\ NoTopic.version = 0 /\ NoTopic.pc = "idle"
  BY DEF NoTopic, Topic, Links
<1>4. topic = [r \in TopicReaders |-> NoTopic]
  BY DEF Init
<1>5. TopicsTyped /\ Protocol
  BY <1>2, <1>3, <1>4 DEF TopicsTyped, Protocol, TopicsMatchGraph, ReadersKnow
<1>6. Clocked /\ Noted
  BY CachesAssumption DEF Clocked, Noted
<1>7. Calls
  BY DEF Init, Calls, Add, Computation
<1>8. Rows
  <2>1. NoRow \in Row(clock)
    BY <1>0, NoVectorTyped DEF NoRow, Row
  <2>2. \A w \in Windows : Cardinality(Members(node, w)) \in Nat
    BY <1>1, CountTyped DEF GraphTyped
  <2>3. \A k \in Nat : [NoRow EXCEPT !.there = TRUE, !.count = k] \in Row(clock)
    BY <2>1 DEF Row
  <2>4. row = [w \in Windows |->
                 IF Members(node, w) = {} THEN NoRow
                 ELSE [NoRow EXCEPT !.there = TRUE, !.count = Cardinality(Members(node, w))]]
    BY DEF Init
  <2> QED
    BY <2>1, <2>2, <2>3, <2>4 DEF Rows
<1> QED
  BY <1>1, <1>2, <1>5, <1>6, <1>7, <1>8, TypedIsTypeOK DEF Typed, IInv

\* A step that bumps the version or leaves graph and topics alone, and types the rest.
LEMMA GraphStep ==
    ASSUME Typed, Protocol, GraphTyped', Bumped \/ Quiet, Clocked', Rows', Calls', Noted'
    PROVE  IInv'
<1>1. TenantTyped' /\ TopicsTyped' /\ Protocol'
  BY BumpKeepsProtocol, QuietKeepsProtocol DEF Typed
<1>2. Typed'
  BY <1>1 DEF Typed
<1>3. TypeOK'
  BY <1>2, TypedIsTypeOK, PTL
<1> QED
  BY <1>1, <1>3 DEF IInv

LEMMA NextPreservesIInv == IInv /\ [Next]_vars => IInv'
<1> SUFFICES ASSUME IInv, [Next]_vars
             PROVE  IInv'
  OBVIOUS
<1>1. Typed /\ Protocol
  BY TypedIsTypeOK DEF IInv
<1>2. GraphTyped /\ Clocked /\ Rows /\ Calls /\ Noted
  BY <1>1 DEF Typed
<1>3. ASSUME NEW a \in Adders, AddNode(a)
      PROVE  IInv'
  <2>1. clock \in Nat /\ adder[a] \in Add(clock)
    BY <1>2, CachesAssumption DEF Clocked, Calls
  <2>2. GraphTyped' /\ (Bumped \/ Quiet)
    BY <1>2, <1>3, <2>1, AddKeepsGraph
  <2>3. Clocked' /\ Rows' /\ Calls' /\ Noted'
    BY <1>2, <1>3, <2>2, AddKeepsCalls
  <2> QED
    BY <1>1, <2>2, <2>3, GraphStep
<1>4. ASSUME NEW n \in DOMAIN node, MutateNode(n)
      PROVE  IInv'
  <2>1. GraphTyped' /\ Bumped
    BY <1>2, <1>4, NodeKeepsGraph
  <2>2. Clocked' /\ Rows' /\ Calls' /\ Noted'
    BY <1>2, <1>4, <2>1, NodeKeepsCalls
  <2> QED
    BY <1>1, <2>1, <2>2, GraphStep
<1>5. CASE MutateEdge
  <2>1. GraphTyped' /\ Bumped
    BY <1>2, <1>5, EdgeKeepsGraph
  <2>2. Clocked' /\ Rows' /\ Calls' /\ Noted'
    BY <1>2, <1>5, EdgeKeepsCalls
  <2> QED
    BY <1>1, <2>1, <2>2, GraphStep
<1>6. CASE Forget
  <2>1. GraphTyped' /\ (Bumped \/ Quiet)
    BY <1>2, <1>6, ForgettingKeepsGraph
  <2>2. Clocked' /\ Rows' /\ Calls' /\ Noted'
    BY <1>2, <1>6, ForgettingKeepsCalls
  <2> QED
    BY <1>1, <2>1, <2>2, GraphStep
<1>7. ASSUME NEW w \in Windows, ObserveTurn(w)
      PROVE  IInv'
  <2>1. GraphTyped' /\ Quiet /\ Clocked' /\ Rows' /\ Calls' /\ Noted'
    BY <1>2, <1>7, ObservationKeepsAll
  <2> QED
    BY <1>1, <2>1, GraphStep
<1>8. ASSUME NEW r \in VectorReaders, VectorStep(r)
      PROVE  IInv'
  <2>1. GraphTyped' /\ Quiet
    BY <1>2, <1>8, VectorsKeepGraph
  <2>2. Clocked' /\ Rows' /\ Calls' /\ Noted'
    BY <1>2, <1>8, VectorsKeepCalls
  <2> QED
    BY <1>1, <2>1, <2>2, GraphStep
<1>9. ASSUME NEW r \in TopicReaders, TopicStep(r)
      PROVE  IInv'
  <2>1. TenantTyped' /\ TopicsTyped' /\ Protocol'
    BY <1>1, <1>9, TopicStepKeepsProtocol DEF Typed
  <2>2. UNCHANGED <<node, edges, row, adder, vector, clock, restaled, drifted>>
    BY <1>9 DEF TopicStep, ReadTenant, ReadNodes, LoadGraph, StoreTopics, Raised, graph
  <2>3. GraphTyped' /\ Clocked' /\ Rows' /\ Calls' /\ Noted'
    BY <1>2, <2>2 DEF GraphTyped, Clocked, Rows, Calls, Noted
  <2>4. TypeOK'
    BY <2>1, <2>3, TypedIsTypeOK, PTL DEF Typed
  <2> QED
    BY <2>1, <2>4 DEF IInv
<1>10. CASE UNCHANGED vars
  <2>1. Quiet /\ UNCHANGED <<row, adder, vector, clock, restaled, drifted>>
    BY <1>10 DEF vars, Quiet
  <2>2. GraphTyped' /\ Clocked' /\ Rows' /\ Calls' /\ Noted'
    BY <1>2, <2>1 DEF Quiet, GraphTyped, Clocked, Rows, Calls, Noted
  <2> QED
    BY <1>1, <2>1, <2>2, GraphStep
<1> QED
  BY <1>3, <1>4, <1>5, <1>6, <1>7, <1>8, <1>9, <1>10 DEF Next

-----------------------------------------------------------------------------
(* The theorems.                                                           *)

\* Init establishes and every step of the caches preserves IInv.
THEOREM InductiveInvariant == Spec => []IInv
BY InitEstablishesIInv, NextPreservesIInv, PTL DEF Spec

\* The rows, the cache and the calls have their types, and no mutation leaves an
\* edge without its nodes (delete_node, canonicalize_node, prune_retention and
\* _clear_scope_rows cut the edges of what they remove).
THEOREM TypeCorrect == Spec => []TypeOK
<1>1. IInv => TypeOK
  BY DEF IInv
<1> QED
  BY <1>1, InductiveInvariant, PTL

\* A topic partition that is served as fresh is that of the graph as it is: the
\* version get_topics read first covers every mutation in between.
THEOREM TopicCacheIsCurrent == Spec => []TopicsMatchGraph
<1>1. IInv => TopicsMatchGraph
  BY DEF IInv, Protocol
<1> QED
  BY <1>1, InductiveInvariant, PTL

\* Only a concurrent mutation makes get_topics raise.
THEOREM TopicsRaiseOnlyWhenOvertaken == Spec => []TopicsAnswerUnlessOvertaken
<1>1. IInv => TopicsAnswerUnlessOvertaken
  <2> SUFFICES ASSUME IInv, NEW r \in TopicReaders, topic[r].pc = "raised"
               PROVE  topic[r].version < tenant.version
    BY DEF TopicsAnswerUnlessOvertaken
  <2>1. topic[r].version <= tenant.version /\ topic[r].version # tenant.version
    BY DEF IInv, Protocol, ReadersKnow
  <2>2. topic[r].version \in Nat /\ tenant.version \in Nat
    BY TypedIsTypeOK DEF IInv, Typed, TenantTyped, TopicsTyped, Topic
  <2> QED
    BY <2>1, <2>2
<1> QED
  BY <1>1, InductiveInvariant, PTL

\* get_topics is sound for any graph, mutations and callers.
THEOREM TopicsAreSound == Spec => []TopicsSound
<1>1. TypeOK /\ TopicsMatchGraph /\ TopicsAnswerUnlessOvertaken => TopicsSound
  BY DEF TopicsSound
<1> QED
  BY <1>1, TypeCorrect, TopicCacheIsCurrent, TopicsRaiseOnlyWhenOvertaken, PTL

-----------------------------------------------------------------------------
(* The rows of the windows.                                                *)
(*                                                                         *)
(* A guarded computation saves what it computed only if updated_at is what *)
(* it read, so a window that was not let down is safe as long as no write  *)
(* repeats a timestamp some computation holds.                             *)

Accurate(w) ==
    row[w].there =>
        /\ row[w].count = Cardinality(Members(node, w))
        /\ row[w].stale \/ row[w].vec = NoVector \/ row[w].vec = Content(node, w)

\* A computation that would be let save.
Saving(r) == vector[r].pc = "computed" /\ vector[r].guarded

\* What a computation is about to save is the vector of the window.
SavesAccurate ==
    \A r \in VectorReaders :
        LET w == vector[r].win IN
        Saving(r) /\ w \notin drifted /\ row[w].there /\ row[w].at = vector[r].at
        => vector[r].vec = Content(node, w)

WindowInv == (\A w \in Windows \ drifted : Accurate(w)) /\ SavesAccurate

\* No computation about to save holds the timestamp s of the window.
Unseen(w, s) ==
    \A r \in VectorReaders : Saving(r) /\ vector[r].win = w => vector[r].at # s

\* The clock shows a time nobody has read ...
LEMMA TickIsUnseen ==
    ASSUME Clocked, Calls, Tick, NEW w
    PROVE  Unseen(w, clock')
<1>1. clock \in Nat /\ clock' = clock + 1
  BY CachesAssumption DEF Clocked, Tick
<1>2. \A r \in VectorReaders : vector[r].pc # "idle" => vector[r].at \in 0 .. clock
  BY DEF Calls, Computation, NoRead
<1> QED
  BY <1>1, <1>2 DEF Unseen, Saving

\* ... and so is a timestamp that repeats none.
LEMMA UnrepeatedIsUnseen ==
    ASSUME NEW w, NEW s, ~ Repeats(w, s)
    PROVE  Unseen(w, s)
BY DEF Repeats, Guarding, Unseen, Saving

\* What the three writes leave in a row that is there.
LEMMA StaleFields ==
    ASSUME NEW c, NEW rw \in Row(c), NEW s
    PROVE  /\ Stale(rw, s).there = rw.there
           /\ rw.there => /\ Stale(rw, s).stale = TRUE /\ Stale(rw, s).at = s
                          /\ Stale(rw, s).count = rw.count /\ Stale(rw, s).vec = NoVector
BY DEF Stale, Row

LEMMA CountedFields ==
    ASSUME NEW c, NEW rw \in Row(c), NEW k
    PROVE  /\ Counted(rw, k).there = rw.there
           /\ rw.there => /\ Counted(rw, k).count = k /\ Counted(rw, k).at = rw.at
                          /\ Counted(rw, k).stale = rw.stale /\ Counted(rw, k).vec = rw.vec
BY DEF Counted, Row

LEMMA EnsuredFields ==
    ASSUME NEW c, NEW rw \in Row(c), NEW s
    PROVE  /\ Ensured(rw, s).there = TRUE /\ Ensured(rw, s).at = s
           /\ rw.there => /\ Ensured(rw, s).count = rw.count
                          /\ Ensured(rw, s).stale = rw.stale /\ Ensured(rw, s).vec = rw.vec
           /\ ~ rw.there => Ensured(rw, s).count = 0 /\ Ensured(rw, s).stale = TRUE
BY DEF Ensured, NoRow, Row

\* A row that is marked and counted tells the count, is stale and has the mark's time.
Updated(rw, s, k) == Counted(Stale(rw, s), k)

LEMMA UpdatedStays ==
    ASSUME NEW c, NEW rw \in Row(c), NEW s, NEW k
    PROVE  Updated(rw, s, k).there = rw.there
BY DEF Updated, Stale, Counted, Row

LEMMA UpdatedFields ==
    ASSUME NEW c, NEW rw \in Row(c), rw.there, NEW s, NEW k
    PROVE  Updated(rw, s, k) = [there |-> TRUE, stale |-> TRUE, at |-> s, count |-> k, vec |-> NoVector]
BY DEF Updated, Stale, Counted, Row

\* A step leaves a window's row and nodes alone, or writes a row that is accurate
\* under a time no computation holds.
Kept(w) ==
    /\ w \notin drifted /\ row'[w] = row[w]
    /\ Content(node', w) = Content(node, w)

Rewritten(w) ==
    /\ row'[w].count = Cardinality(Members(node', w))
    /\ row'[w].stale \/ row'[w].vec = NoVector \/ row'[w].vec = Content(node', w)
    /\ Unseen(w, row'[w].at)

\* Vectors tell their windows' nodes.
LEMMA ContentTellsMembers ==
    ASSUME NEW nd, NEW md, NEW w, Content(md, w) = Content(nd, w)
    PROVE  Members(md, w) = Members(nd, w)
<1>1. DOMAIN Content(md, w) = Members(md, w) /\ DOMAIN Content(nd, w) = Members(nd, w)
  BY DEF Content
<1> QED
  BY <1>1

LEMMA SameContent ==
    ASSUME NEW nd, NEW md, NEW w, Members(md, w) = Members(nd, w),
           \A n \in Members(nd, w) : md[n].text = nd[n].text
    PROVE  Content(md, w) = Content(nd, w)
BY DEF Content

\* No new computation comes to its save.
NoneComputes ==
    \A r \in VectorReaders :
        vector'[r].pc = "computed" /\ vector'[r].guarded => vector'[r] = vector[r]

LEMMA WindowStep ==
    ASSUME Calls, WindowInv, NoneComputes,
           \A w \in Windows \ drifted' : row'[w].there => Kept(w) \/ Rewritten(w)
    PROVE  WindowInv'
<1>1. ASSUME NEW w \in Windows \ drifted'
      PROVE  Accurate(w)'
  <2> SUFFICES ASSUME row'[w].there
               PROVE  /\ row'[w].count = Cardinality(Members(node', w))
                      /\ row'[w].stale \/ row'[w].vec = NoVector \/ row'[w].vec = Content(node', w)
    BY DEF Accurate
  <2>1. CASE Kept(w)
    <3>1. Accurate(w) /\ Members(node', w) = Members(node, w)
      BY <2>1, ContentTellsMembers DEF WindowInv, Kept
    <3> QED
      BY <2>1, <3>1 DEF Kept, Accurate
  <2>2. CASE Rewritten(w)
    BY <2>2 DEF Rewritten
  <2> QED
    BY <1>1, <2>1, <2>2
<1>2. ASSUME NEW r \in VectorReaders, Saving(r)', vector'[r].win \notin drifted',
             row'[vector'[r].win].there, row'[vector'[r].win].at = vector'[r].at
      PROVE  vector'[r].vec = Content(node', vector'[r].win)
  <2>1. vector'[r] = vector[r] /\ Saving(r)
    BY <1>2 DEF NoneComputes, Saving
  <2>2. vector[r].win \in Windows
    BY <2>1 DEF Saving, Calls, Computation, NoRead
  <2>3. CASE Kept(vector[r].win)
    BY <1>2, <2>1, <2>3 DEF WindowInv, SavesAccurate, Kept
  <2>4. CASE Rewritten(vector[r].win)
    BY <1>2, <2>1, <2>4 DEF Rewritten, Unseen
  <2> QED
    BY <1>2, <2>1, <2>2, <2>3, <2>4
<1> QED
  BY <1>1, <1>2 DEF WindowInv, SavesAccurate

LEMMA InitWindows == Init => WindowInv
<1> SUFFICES ASSUME Init
             PROVE  WindowInv
  OBVIOUS
<1>1. ASSUME NEW w \in Windows
      PROVE  Accurate(w)
  <2>1. row[w] = IF Members(node, w) = {} THEN NoRow
                 ELSE [NoRow EXCEPT !.there = TRUE, !.count = Cardinality(Members(node, w))]
    BY DEF Init
  <2> QED
    BY <2>1 DEF Accurate, NoRow
<1>2. \A r \in VectorReaders : vector[r].pc = "idle"
  BY DEF Init, NoRead
<1> QED
  BY <1>1, <1>2 DEF WindowInv, SavesAccurate, Saving

\* The steps of add_node.
LEMMA AddKeepsWindows ==
    ASSUME GraphTyped, Clocked, Rows, Calls, WindowInv, NEW a \in Adders, AddNode(a)
    PROVE  WindowInv'
<1>1. NoneComputes
  BY DEF AddNode, BeginAdd, InsertNode, MergeDuplicate, NoneComputes, readers
<1>2. clock \in Nat /\ \A w \in Windows : row[w] \in Row(clock)
  BY CachesAssumption DEF Clocked, Rows
<1>3. adder[a].pc = "resolved" => adder[a].win \in Windows /\ adder[a].at \in 0 .. clock
  BY DEF Calls, Add, NoAdd
<1>4. ASSUME NEW w \in Windows, BeginAdd(a, w)
      PROVE  WindowInv'
  <2>1. /\ node' = node /\ Tick /\ drifted \subseteq drifted'
        /\ row' = [row EXCEPT ![w] = Ensured(@, clock')]
        /\ ~ row[w].there /\ Members(node, w) # {} => w \in drifted'
    BY <1>4 DEF BeginAdd, graph
  <2>2. ASSUME NEW v \in Windows \ drifted', row'[v].there
        PROVE  Kept(v) \/ Rewritten(v)
    <3>1. CASE v # w
      BY <2>1, <2>2, <3>1 DEF Kept, Rows
    <3>2. CASE v = w
      <4>1. row'[w] = Ensured(row[w], clock') /\ Unseen(w, clock')
        BY <2>1, TickIsUnseen DEF Rows
      <4>0. Ensured(row[w], clock').at = clock'
        BY <1>2, EnsuredFields
      <4>2. row'[w].at = clock'
        BY <4>0, <4>1
      <4>3. CASE row[w].there
        <5>1. Accurate(w)
          BY <2>1, <2>2, <3>2 DEF WindowInv
        <5>2. /\ Ensured(row[w], clock').count = row[w].count
              /\ Ensured(row[w], clock').stale = row[w].stale
              /\ Ensured(row[w], clock').vec = row[w].vec
          BY <1>2, <4>3, EnsuredFields
        <5> QED
          BY <2>1, <3>2, <4>1, <4>2, <4>3, <5>1, <5>2 DEF Rewritten, Accurate
      <4>4. CASE ~ row[w].there
        <5>1. Members(node', w) = {}
          BY <2>1, <2>2, <3>2, <4>4
        <5>2. Ensured(row[w], clock').count = 0 /\ Ensured(row[w], clock').stale = TRUE
          BY <1>2, <4>4, EnsuredFields
        <5>3. Cardinality(Members(node', w)) = 0
          BY <5>1, FS_EmptySet
        <5> QED
          BY <3>2, <4>1, <4>2, <5>2, <5>3 DEF Rewritten
      <4> QED
        BY <4>3, <4>4
    <3> QED
      BY <3>1, <3>2
  <2> QED
    BY <1>1, <2>2, WindowStep
<1>5. ASSUME NEW v \in Windows, MergeDuplicate(a, v)
      PROVE  WindowInv'
  <2> DEFINE s == adder[a].at
  <2>1. /\ node' = node /\ drifted \subseteq drifted'
        /\ row' = [row EXCEPT ![v] = Stale(@, s)]
        /\ v \notin drifted' => ~ Repeats(v, s)
    BY <1>5 DEF MergeDuplicate, graph
  <2>2. ASSUME NEW w \in Windows \ drifted', row'[w].there
        PROVE  Kept(w) \/ Rewritten(w)
    <3>1. CASE w # v
      BY <2>1, <2>2, <3>1 DEF Kept, Rows
    <3>2. CASE w = v
      <4>1. row'[v] = Stale(row[v], s) /\ Unseen(v, s) /\ v \notin drifted
        BY <2>1, <2>2, <3>2, UnrepeatedIsUnseen DEF Rows
      <4>5. Stale(row[v], s).there = row[v].there
        BY <1>2, StaleFields
      <4>2. row[v].there
        BY <2>2, <3>2, <4>1, <4>5
      <4>6. /\ Stale(row[v], s).count = row[v].count
            /\ Stale(row[v], s).stale = TRUE /\ Stale(row[v], s).at = s
        BY <1>2, <4>2, StaleFields
      <4>3. row'[v].count = row[v].count /\ row'[v].stale = TRUE /\ row'[v].at = s
        BY <4>1, <4>6
      <4>4. row[v].count = Cardinality(Members(node, v))
        BY <4>1, <4>2 DEF WindowInv, Accurate
      <4> QED
        BY <2>1, <3>2, <4>1, <4>3, <4>4 DEF Rewritten
    <3> QED
      BY <3>1, <3>2
  <2> QED
    BY <1>1, <2>2, WindowStep
<1>6. ASSUME NEW n \in NodeIds, NEW t \in Texts, NEW c \in SUBSET DOMAIN node, InsertNode(a, n, t, c)
      PROVE  WindowInv'
  <2> DEFINE w == adder[a].win
             s == adder[a].at
             k == Cardinality(Members(node', w))
  <2>1. /\ adder[a].pc = "resolved" /\ n \notin DOMAIN node
        /\ node' = [m \in DOMAIN node \cup {n} |-> IF m = n THEN [win |-> w, text |-> t] ELSE node[m]]
        /\ row' = [row EXCEPT ![w] = Counted(Stale(@, s), k)]
        /\ drifted' = IF Repeats(w, s) THEN drifted \cup {w} ELSE drifted \ {w}
    BY <1>6 DEF InsertNode
  <2>2. w \in Windows /\ s \in 0 .. clock
    BY <1>3, <2>1
  <2>3. ASSUME NEW v \in Windows \ drifted', row'[v].there
        PROVE  Kept(v) \/ Rewritten(v)
    <3>1. CASE v # w
      <4>1. Members(node', v) = Members(node, v)
        BY <2>1, <3>1 DEF Members
      <4>2. \A m \in Members(node, v) : node'[m].text = node[m].text
        BY <2>1 DEF Members
      <4>3. Content(node', v) = Content(node, v)
        BY <4>1, <4>2, SameContent
      <4> QED
        BY <2>1, <2>3, <3>1, <4>3 DEF Kept, Rows
    <3>2. CASE v = w
      <4>1. row'[w] = Updated(row[w], s, k) /\ Unseen(w, s)
        BY <2>1, <2>2, <2>3, <3>2, UnrepeatedIsUnseen DEF Rows, Updated
      <4>2. Stale(row[w], s) \in Row(clock)
        BY <1>2, <2>2, RowOperators, CountTyped DEF GraphTyped
      <4>8. row[w] \in Row(clock)
        BY <1>2, <2>2
      <4>5. Updated(row[w], s, k).there = row[w].there
        BY <4>8, UpdatedStays
      <4>7. row[w].there
        BY <2>3, <3>2, <4>1, <4>5
      <4>6. Updated(row[w], s, k) =
                [there |-> TRUE, stale |-> TRUE, at |-> s, count |-> k, vec |-> NoVector]
        BY <4>7, <4>8, UpdatedFields
      <4>3. row'[w].count = k /\ row'[w].stale = TRUE /\ row'[w].at = s
        BY <4>1, <4>6
      <4> QED
        BY <3>2, <4>1, <4>3 DEF Rewritten
    <3> QED
      BY <3>1, <3>2
  <2> QED
    BY <1>1, <2>3, WindowStep
<1> QED
  BY <1>4, <1>5, <1>6 DEF AddNode

\* A window that is marked with the clock and counted is accurate.
LEMMA MarkedWithTheClock ==
    ASSUME Clocked, Rows, Calls, Tick, NEW w \in Windows,
           row'[w] = Counted(Stale(row[w], clock'), Cardinality(Members(node', w))),
           row'[w].there
    PROVE  Rewritten(w)
<1> DEFINE k == Cardinality(Members(node', w))
<1>1. clock' \in Nat /\ clock' \in 0 .. clock' /\ row[w] \in Row(clock')
  BY Ticks, Later DEF Rows
<1>2. Updated(row[w], clock', k).there = row[w].there
  BY <1>1, UpdatedStays
<1>3. Updated(row[w], clock', k) =
          [there |-> TRUE, stale |-> TRUE, at |-> clock', count |-> k, vec |-> NoVector]
  <2>1. row[w].there
    BY <1>2 DEF Updated
  <2> QED
    BY <1>1, <2>1, UpdatedFields
<1>4. Unseen(w, clock')
  BY TickIsUnseen
<1> QED
  BY <1>3, <1>4 DEF Rewritten, Updated

\* Removing nodes of other windows leaves a window's vector.
LEMMA RemovalElsewhere ==
    ASSUME NEW nd, NEW gone, NEW w, \A n \in gone \cap DOMAIN nd : nd[n].win # w
    PROVE  Content(Without(nd, gone), w) = Content(nd, w)
<1>1. Members(Without(nd, gone), w) = Members(nd, w)
  BY DEF Members, Without
<1>2. \A n \in Members(nd, w) : Without(nd, gone)[n].text = nd[n].text
  BY <1>1 DEF Members, Without
<1> QED
  BY <1>1, <1>2, SameContent

\* A window neither whose row nor whose nodes a step touches is kept.
LEMMA NodeKeepsWindows ==
    ASSUME GraphTyped, Clocked, Rows, Calls, WindowInv, NEW n \in DOMAIN node, MutateNode(n)
    PROVE  WindowInv'
<1>1. NoneComputes
  BY DEF MutateNode, ChangeContent, Relabel, ChangeScope, DeleteNode, Canonicalize, NoneComputes, readers
<1>2. node[n].win \in Windows /\ DOMAIN node \subseteq NodeIds
  BY NodesShape DEF GraphTyped
<1>3. clock \in Nat /\ \A w \in Windows : row[w] \in Row(clock)
  BY CachesAssumption DEF Clocked, Rows
<1>4. ASSUME NEW t \in Texts, ChangeContent(n, t)
      PROVE  WindowInv'
  <2> DEFINE w == node[n].win
  <2>1. /\ Tick /\ node' = [node EXCEPT ![n].text = t] /\ drifted' = drifted
        /\ row' = [row EXCEPT ![w] = Stale(@, clock')]
    BY <1>4 DEF ChangeContent
  <2>2. \A v : Members(node', v) = Members(node, v)
    BY <2>1 DEF Members
  <2>3. ASSUME NEW v \in Windows \ drifted', row'[v].there
        PROVE  Kept(v) \/ Rewritten(v)
    <3>1. CASE v # w
      <4>1. \A m \in Members(node, v) : node'[m].text = node[m].text
        BY <2>1, <3>1 DEF Members
      <4>2. Content(node', v) = Content(node, v)
        BY <2>2, <4>1, SameContent
      <4> QED
        BY <2>1, <2>3, <3>1, <4>2 DEF Kept, Rows
    <3>2. CASE v = w
      <4>1. row'[w] = Stale(row[w], clock')
        BY <1>2, <2>1 DEF Rows
      <4>2. Stale(row[w], clock').there = row[w].there
        BY <1>2, <1>3, StaleFields
      <4>3. row[w].there
        BY <2>3, <3>2, <4>1, <4>2
      <4>4. /\ Stale(row[w], clock').count = row[w].count
            /\ Stale(row[w], clock').stale = TRUE /\ Stale(row[w], clock').at = clock'
        BY <1>2, <1>3, <4>3, StaleFields
      <4>5. row[w].count = Cardinality(Members(node', w))
        BY <2>1, <2>2, <2>3, <3>2, <4>3 DEF WindowInv, Accurate
      <4>6. Unseen(w, clock')
        BY <2>1, TickIsUnseen
      <4> QED
        BY <3>2, <4>1, <4>4, <4>5, <4>6 DEF Rewritten
    <3> QED
      BY <3>1, <3>2
  <2> QED
    BY <1>1, <2>3, WindowStep
<1>5. ASSUME NEW t \in Texts, Relabel(n, t)
      PROVE  WindowInv'
  <2>1. /\ node' = [node EXCEPT ![n].text = t] /\ drifted' = drifted \cup {node[n].win}
        /\ row' = row
    BY <1>5 DEF Relabel
  <2>2. ASSUME NEW v \in Windows \ drifted'
        PROVE  Kept(v)
    <3>1. Members(node', v) = Members(node, v)
      BY <2>1 DEF Members
    <3>2. \A m \in Members(node, v) : node'[m].text = node[m].text
      BY <2>1, <2>2 DEF Members
    <3> QED
      BY <2>1, <2>2, <3>1, <3>2, SameContent DEF Kept
  <2> QED
    BY <1>1, <2>2, WindowStep
<1>6. ASSUME NEW w \in Windows, ChangeScope(n, w)
      PROVE  WindowInv'
  <2> DEFINE u == node[n].win
             ensured == [row EXCEPT ![w] = Ensured(@, clock')]
  <2>1. /\ Tick /\ w # u /\ node' = [node EXCEPT ![n].win = w] /\ drifted' = drifted \ {u, w}
        /\ row' = [v \in Windows |->
                      IF v \in {u, w}
                      THEN Counted(Stale(ensured[v], clock'), Cardinality(Members(node', v)))
                      ELSE row[v]]
    BY <1>6 DEF ChangeScope
  <2>2. ASSUME NEW v \in Windows \ drifted', row'[v].there
        PROVE  Kept(v) \/ Rewritten(v)
    <3>1. CASE v \notin {u, w}
      <4>1. Members(node', v) = Members(node, v)
        BY <2>1, <3>1 DEF Members
      <4>2. \A m \in Members(node, v) : node'[m].text = node[m].text
        BY <2>1 DEF Members
      <4>3. Content(node', v) = Content(node, v)
        BY <4>1, <4>2, SameContent
      <4> QED
        BY <2>1, <2>2, <3>1, <4>3 DEF Kept
    <3>2. CASE v = u
      <4>1. row'[u] = Counted(Stale(row[u], clock'), Cardinality(Members(node', u)))
        BY <1>2, <2>1 DEF Rows
      <4> QED
        BY <1>2, <2>1, <2>2, <3>2, <4>1, MarkedWithTheClock
    <3>3. CASE v = w
      <4> DEFINE e == Ensured(row[w], clock')
                 k == Cardinality(Members(node', w))
      <4>1. row'[w] = Updated(e, clock', k)
        BY <2>1 DEF Rows, Updated
      <4>2. clock' \in Nat /\ clock' \in 0 .. clock' /\ row[w] \in Row(clock')
        BY <2>1, Ticks, Later
      <4>3. e \in Row(clock')
        BY <4>2, CountTyped, RowOperators DEF GraphTyped
      <4>4. e.there = TRUE
        BY <4>2, EnsuredFields
      <4>5. Updated(e, clock', k) =
                [there |-> TRUE, stale |-> TRUE, at |-> clock', count |-> k, vec |-> NoVector]
        <5> HIDE DEF e, k
        <5> QED
          BY <4>3, <4>4, UpdatedFields
      <4>6. Unseen(w, clock')
        BY <2>1, TickIsUnseen
      <4> QED
        BY <3>3, <4>1, <4>5, <4>6 DEF Rewritten
    <3> QED
      BY <3>1, <3>2, <3>3
  <2> QED
    BY <1>1, <2>2, WindowStep
<1>7. CASE DeleteNode(n)
  <2> DEFINE w == node[n].win
  <2>1. /\ Tick /\ node' = Without(node, {n}) /\ drifted' = drifted \ {w}
        /\ row' = [row EXCEPT ![w] = Counted(Stale(@, clock'), Cardinality(Members(node', w)))]
    BY <1>7 DEF DeleteNode
  <2>2. ASSUME NEW v \in Windows \ drifted', row'[v].there
        PROVE  Kept(v) \/ Rewritten(v)
    <3>1. CASE v # w
      <4>1. Content(node', v) = Content(node, v)
        BY <2>1, <3>1, RemovalElsewhere
      <4> QED
        BY <2>1, <2>2, <3>1, <4>1 DEF Kept, Rows
    <3>2. CASE v = w
      <4>1. row'[w] = Counted(Stale(row[w], clock'), Cardinality(Members(node', w)))
        BY <1>2, <2>1 DEF Rows
      <4> QED
        BY <1>2, <2>1, <2>2, <3>2, <4>1, MarkedWithTheClock
    <3> QED
      BY <3>1, <3>2
  <2> QED
    BY <1>1, <2>2, WindowStep
<1>8. ASSUME NEW m \in DOMAIN node, Canonicalize(n, m)
      PROVE  WindowInv'
  <2>1. /\ node' = Without(node, {n}) /\ drifted' = drifted \cup {node[n].win} /\ row' = row
    BY <1>8 DEF Canonicalize
  <2>2. ASSUME NEW v \in Windows \ drifted'
        PROVE  Kept(v)
    BY <2>1, <2>2, RemovalElsewhere DEF Kept
  <2> QED
    BY <1>1, <2>2, WindowStep
<1> QED
  BY <1>4, <1>5, <1>6, <1>7, <1>8 DEF MutateNode

\* Relations are not part of any window, and what is forgotten is noted.
LEMMA EdgeKeepsWindows ==
    ASSUME Calls, WindowInv, MutateEdge
    PROVE  WindowInv'
<1>1. node' = node /\ row' = row /\ drifted' = drifted /\ NoneComputes
  BY DEF MutateEdge, AddEdge, UpdateEdge, DeleteEdge, ChangeEdges, NoneComputes, readers
<1>2. \A v \in Windows \ drifted' : Kept(v)
  BY <1>1 DEF Kept
<1> QED
  BY <1>1, <1>2, WindowStep

LEMMA ForgettingKeepsWindows ==
    ASSUME GraphTyped, Rows, Calls, WindowInv, Forget
    PROVE  WindowInv'
<1>1. NoneComputes
  BY DEF Forget, Prune, ClearSession, NoneComputes, readers
<1>2. ASSUME NEW ns \in SUBSET DOMAIN node, NEW es \in SUBSET edges, NEW ws \in SUBSET Windows,
             Prune(ns, es, ws)
      PROVE  WindowInv'
  <2>1. /\ node' = Without(node, ns) /\ drifted' = drifted \cup {node[n].win : n \in ns}
        /\ row' = [w \in Windows |-> IF w \in ws THEN NoRow ELSE row[w]]
    BY <1>2 DEF Prune
  <2>2. ASSUME NEW v \in Windows \ drifted', row'[v].there
        PROVE  Kept(v)
    <3>1. v \notin ws /\ row'[v] = row[v]
      BY <2>1, <2>2 DEF NoRow
    <3>2. Content(node', v) = Content(node, v)
      BY <2>1, <2>2, RemovalElsewhere
    <3> QED
      BY <2>1, <2>2, <3>1, <3>2 DEF Kept
  <2> QED
    BY <1>1, <2>2, WindowStep
<1>3. ASSUME NEW w \in Windows, ClearSession(w)
      PROVE  WindowInv'
  <2>1. /\ node' = Without(node, Members(node, w)) /\ drifted' = drifted
        /\ row' = [row EXCEPT ![w] = NoRow]
    BY <1>3 DEF ClearSession, readers
  <2>2. ASSUME NEW v \in Windows \ drifted', row'[v].there
        PROVE  Kept(v)
    <3>1. v # w
      BY <2>1, <2>2 DEF NoRow, Rows
    <3>2. Content(node', v) = Content(node, v)
      BY <2>1, <3>1, RemovalElsewhere DEF Members
    <3> QED
      BY <2>1, <2>2, <3>1, <3>2 DEF Kept, Rows
  <2> QED
    BY <1>1, <2>2, WindowStep
<1> QED
  BY <1>2, <1>3 DEF Forget

LEMMA ObservationKeepsWindows ==
    ASSUME GraphTyped, Clocked, Rows, Calls, WindowInv, NEW w \in Windows, ObserveTurn(w)
    PROVE  WindowInv'
<1> DEFINE e == Ensured(row[w], clock')
           k == Cardinality(Members(node, w))
<1>1. /\ Tick /\ node' = node /\ drifted' = drifted \ {w}
      /\ row' = [row EXCEPT ![w] = Stale(Counted(e, k), clock')]
      /\ NoneComputes
  BY DEF ObserveTurn, graph, NoneComputes
<1>2. clock' \in Nat /\ clock' \in 0 .. clock' /\ row[w] \in Row(clock') /\ k \in Nat
  BY <1>1, Ticks, Later, CountTyped DEF GraphTyped
<1>3. e \in Row(clock')
  BY <1>2, RowOperators
<1>4. e.there = TRUE
  BY <1>2, EnsuredFields
<1> HIDE DEF e
<1>5. Stale(Counted(e, k), clock') =
          [there |-> TRUE, stale |-> TRUE, at |-> clock', count |-> k, vec |-> NoVector]
  BY <1>3, <1>4 DEF Stale, Counted, Row
<1>6. ASSUME NEW v \in Windows \ drifted', row'[v].there
      PROVE  Kept(v) \/ Rewritten(v)
  <2>1. CASE v # w
    BY <1>1, <1>6, <2>1 DEF Kept, Rows
  <2>2. CASE v = w
    <3>1. row'[w] = Stale(Counted(e, k), clock') /\ Unseen(w, clock')
      BY <1>1, TickIsUnseen DEF Rows
    <3> QED
      BY <1>1, <1>5, <2>2, <3>1 DEF Rewritten
  <2> QED
    BY <2>1, <2>2
<1> QED
  BY <1>1, <1>6, WindowStep

\* A save writes what it computed under a new time.
LEMMA SavedFields ==
    ASSUME NEW c, NEW rw \in Row(c), rw.there, NEW v, NEW s
    PROVE  SavedRow(rw, v, s) =
               [there |-> TRUE, stale |-> FALSE, at |-> s, count |-> rw.count, vec |-> v]
<1>1. PICK t \in BOOLEAN, b \in BOOLEAN, a \in 0 .. c, k \in Nat, x \in Vectors :
          rw = [there |-> t, stale |-> b, at |-> a, count |-> k, vec |-> x]
  BY DEF Row
<1>2. t = TRUE /\ rw.count = k
  BY <1>1
<1>3. PICK y : y = SavedRow(rw, v, s)
  OBVIOUS
<1>4. y = [there |-> t, stale |-> FALSE, at |-> s, count |-> k, vec |-> v]
  BY <1>1, <1>3 DEF SavedRow
<1> QED
  BY <1>2, <1>3, <1>4

LEMMA VectorsKeepWindows ==
    ASSUME GraphTyped, Clocked, Rows, Calls, WindowInv, NEW r \in VectorReaders, VectorStep(r)
    PROVE  WindowInv'
<1>1. vector \in [VectorReaders -> Computation(clock)]
  BY DEF Calls
<1>2. clock \in Nat /\ \A w \in Windows : row[w] \in Row(clock)
  BY CachesAssumption DEF Clocked, Rows
<1>3. vector[r].pc = "computed" => vector[r].win \in Windows
  BY <1>1 DEF Computation, NoRead
<1>4. ASSUME vector' = [vector EXCEPT ![r] = NoRead]
      PROVE  NoneComputes
  BY <1>1, <1>4 DEF NoneComputes, NoRead
<1>5. ASSUME UNCHANGED <<node, row, drifted>>, NoneComputes
      PROVE  WindowInv'
  <2>1. \A v \in Windows \ drifted' : Kept(v)
    BY <1>5 DEF Kept
  <2> QED
    BY <1>5, <2>1, WindowStep
<1>6. ASSUME NEW w \in Windows, ReadRow(r, w)
      PROVE  WindowInv'
  <2>1. UNCHANGED <<node, row, drifted>>
    BY <1>6 DEF ReadRow, graph
  <2>2. NoneComputes
    BY <1>1, <1>6 DEF ReadRow, NoneComputes
  <2> QED
    BY <1>5, <2>1, <2>2
<1>7. ASSUME NEW w \in Windows, BeginClose(r, w)
      PROVE  WindowInv'
  <2>1. UNCHANGED <<node, row, drifted>>
    BY <1>7 DEF BeginClose, graph
  <2>2. NoneComputes
    BY <1>1, <1>7 DEF BeginClose, NoneComputes
  <2> QED
    BY <1>5, <2>1, <2>2
<1>8. CASE Compute(r)
  <2> DEFINE w == vector[r].win
  <2>1. UNCHANGED <<node, row, drifted>> /\ vector[r].pc = "read"
    BY <1>8 DEF Compute, graph
  <2>2. CASE Members(node, w) = {}
    <3>1. NoneComputes
      BY <1>4, <1>8, <2>2 DEF Compute, EndVector
    <3> QED
      BY <1>5, <2>1, <3>1
  <2>3. CASE Members(node, w) # {}
    <3>1. vector' = [vector EXCEPT ![r].pc = "computed", ![r].vec = Content(node, w)]
      BY <1>8, <2>3 DEF Compute
    <3>2. vector[r] \in [pc : {"read", "computed"}, guarded : BOOLEAN, win : Windows,
                         at : 0 .. clock, vec : Vectors]
      BY <1>1, <2>1 DEF Computation, NoRead
    <3>3. vector'[r].vec = Content(node, w) /\ vector'[r].win = w
      BY <1>1, <3>1, <3>2
    <3>4. \A q \in VectorReaders : q # r => vector'[q] = vector[q]
      BY <1>1, <3>1
    <3>5. SavesAccurate'
      BY <2>1, <3>3, <3>4 DEF WindowInv, SavesAccurate, Saving
    <3>6. \A v \in Windows \ drifted' : Accurate(v)'
      BY <2>1 DEF WindowInv, Accurate
    <3> QED
      BY <3>5, <3>6 DEF WindowInv
  <2> QED
    BY <2>2, <2>3
<1>9. CASE SaveIfUnchanged(r)
  <2> DEFINE w == vector[r].win
  <2>1. /\ vector[r].pc = "computed" /\ vector[r].guarded /\ UNCHANGED <<node, drifted>>
        /\ NoneComputes
    BY <1>4, <1>9 DEF SaveIfUnchanged, EndVector, graph
  <2>2. CASE ~ (row[w].there /\ row[w].at = vector[r].at)
    <3>1. UNCHANGED row
      BY <1>9, <2>2 DEF SaveIfUnchanged
    <3> QED
      BY <1>5, <2>1, <3>1
  <2>3. CASE row[w].there /\ row[w].at = vector[r].at
    <3>1. Tick /\ row' = [row EXCEPT ![w] = SavedRow(@, vector[r].vec, clock')]
      BY <1>9, <2>3 DEF SaveIfUnchanged
    <3>2. ASSUME NEW v \in Windows \ drifted', row'[v].there
          PROVE  Kept(v) \/ Rewritten(v)
      <4>1. CASE v # w
        BY <2>1, <3>1, <3>2, <4>1 DEF Kept, Rows
      <4>2. CASE v = w
        <5>1. row'[w] = SavedRow(row[w], vector[r].vec, clock') /\ Unseen(w, clock')
          BY <1>3, <2>1, <3>1, TickIsUnseen DEF Rows
        <5>2. SavedRow(row[w], vector[r].vec, clock') =
                 [there |-> TRUE, stale |-> FALSE, at |-> clock', count |-> row[w].count,
                  vec |-> vector[r].vec]
          BY <1>2, <1>3, <2>1, <2>3, SavedFields
        <5>3. vector[r].vec = Content(node, w)
          BY <2>1, <2>3, <3>2, <4>2 DEF WindowInv, SavesAccurate, Saving
        <5>4. row[w].count = Cardinality(Members(node, w))
          BY <2>1, <2>3, <3>2, <4>2 DEF WindowInv, Accurate
        <5> QED
          BY <2>1, <4>2, <5>1, <5>2, <5>3, <5>4 DEF Rewritten
      <4> QED
        BY <4>1, <4>2
    <3> QED
      BY <2>1, <3>2, WindowStep
  <2> QED
    BY <2>2, <2>3
<1>10. CASE SaveOnClose(r)
  <2> DEFINE w == vector[r].win
             v == vector[r].vec
             k == Cardinality(Members(node, w))
             saved == IF v = NoVector THEN row[w] ELSE SavedRow(row[w], v, clock')
  <2>1. vector[r].pc = "computed" /\ UNCHANGED node /\ NoneComputes
    BY <1>4, <1>10 DEF SaveOnClose, EndVector, graph
  <2>2. CASE ~ row[w].there
    <3>1. UNCHANGED <<row, drifted>>
      BY <1>10, <2>2 DEF SaveOnClose
    <3> QED
      BY <1>5, <2>1, <3>1
  <2>3. CASE row[w].there
    <3>1. /\ Tick
          /\ row' = [row EXCEPT ![w] = [Counted(saved, k) EXCEPT !.at = clock']]
          /\ drifted' = IF v = NoVector THEN drifted
                        ELSE IF v = Content(node, w) THEN drifted \ {w}
                        ELSE drifted \cup {w}
      BY <1>10, <2>3 DEF SaveOnClose
    <3>2. w \in Windows /\ row[w] \in Row(clock)
      BY <1>2, <1>3, <2>1
    <3>3. row'[w] = [Counted(saved, k) EXCEPT !.at = clock'] /\ Unseen(w, clock')
      BY <3>1, <3>2, TickIsUnseen DEF Rows
    <3>4. ASSUME NEW x \in Windows \ drifted', row'[x].there
          PROVE  Kept(x) \/ Rewritten(x)
      <4>1. CASE x # w
        BY <2>1, <3>1, <3>4, <4>1 DEF Kept, Rows
      <4>2. CASE x = w /\ v = NoVector
        <5>1. row'[w].count = k /\ row'[w].at = clock'
              /\ row'[w].stale = row[w].stale /\ row'[w].vec = row[w].vec
          BY <2>3, <3>2, <3>3, <4>2 DEF Counted, Row
        <5>2. Accurate(w)
          BY <3>1, <3>4, <4>2 DEF WindowInv
        <5> QED
          BY <2>1, <2>3, <3>3, <4>2, <5>1, <5>2 DEF Rewritten, Accurate
      <4>3. CASE x = w /\ v # NoVector
        <5>1. v = Content(node, w)
          BY <3>1, <3>4, <4>3
        <5>2. saved = [there |-> TRUE, stale |-> FALSE, at |-> clock', count |-> row[w].count,
                       vec |-> v]
          BY <2>3, <3>2, <4>3, SavedFields
        <5>3. row'[w] = [there |-> TRUE, stale |-> FALSE, at |-> clock', count |-> k, vec |-> v]
          <6> HIDE DEF saved, k, v
          <6> QED
            BY <3>3, <5>2 DEF Counted
        <5> QED
          BY <2>1, <3>3, <4>3, <5>1, <5>3 DEF Rewritten
      <4> QED
        BY <4>1, <4>2, <4>3
    <3> QED
      BY <2>1, <3>4, WindowStep
  <2> QED
    BY <2>2, <2>3
<1> QED
  BY <1>6, <1>7, <1>8, <1>9, <1>10 DEF VectorStep

LEMMA NextWindows == IInv /\ WindowInv /\ [Next]_vars => WindowInv'
<1> SUFFICES ASSUME IInv, WindowInv, [Next]_vars
             PROVE  WindowInv'
  OBVIOUS
<1>1. GraphTyped /\ Clocked /\ Rows /\ Calls
  BY TypedIsTypeOK DEF IInv, Typed
<1>2. ASSUME NEW a \in Adders, AddNode(a)
      PROVE  WindowInv'
  BY <1>1, <1>2, AddKeepsWindows
<1>3. ASSUME NEW n \in DOMAIN node, MutateNode(n)
      PROVE  WindowInv'
  BY <1>1, <1>3, NodeKeepsWindows
<1>4. CASE MutateEdge
  BY <1>1, <1>4, EdgeKeepsWindows
<1>5. CASE Forget
  BY <1>1, <1>5, ForgettingKeepsWindows
<1>6. ASSUME NEW w \in Windows, ObserveTurn(w)
      PROVE  WindowInv'
  BY <1>1, <1>6, ObservationKeepsWindows
<1>7. ASSUME NEW r \in VectorReaders, VectorStep(r)
      PROVE  WindowInv'
  BY <1>1, <1>7, VectorsKeepWindows
<1>8. ASSUME UNCHANGED <<node, row, vector, drifted>>
      PROVE  WindowInv'
  BY <1>8 DEF WindowInv, Accurate, SavesAccurate, Saving
<1>9. ASSUME NEW r \in TopicReaders, TopicStep(r)
      PROVE  WindowInv'
  BY <1>8, <1>9 DEF TopicStep, ReadTenant, ReadNodes, LoadGraph, StoreTopics, Raised, graph
<1>10. CASE UNCHANGED vars
  BY <1>8, <1>10 DEF vars
<1> QED
  BY <1>2, <1>3, <1>4, <1>5, <1>6, <1>7, <1>9, <1>10 DEF Next

\* A window's row tells the number of its nodes and a vector that is not marked
\* stale is that of its nodes, save where the code is known to let the row fall
\* behind: the guard of the save and the marks of the mutations suffice, for any
\* number of readers and any order of what they and the mutations do.
THEOREM WindowRowsAreAccurate == Spec => []WindowRowsAccurate
<1>1. WindowInv => WindowRowsAccurate
  BY DEF WindowInv, Accurate, WindowRowsAccurate
<1> QED
  BY <1>1, InitWindows, NextWindows, InductiveInvariant, PTL DEF Spec

=============================================================================
