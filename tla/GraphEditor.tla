---------------------------- MODULE GraphEditor ----------------------------
(***************************************************************************)
(* Graph Studio's HTTP handlers over the store: create, update and delete  *)
(* of a node or an edge, and graph_restore, which brings the scope to a    *)
(* state the page has kept.  A handler reads a snapshot, validates, then   *)
(* calls one store operation after the other, each a transaction of its    *)
(* own; handlers of one server do not interleave (nothing is awaited after *)
(* the request's JSON), tool threads and other processes do.               *)
(***************************************************************************)
EXTENDS Naturals, FiniteSets, Sequences, SequencesExt

CONSTANTS
    NodeIds, Texts,
    EdgeIds,        \* ids the page gives to edges
    Auto,           \* the id of an edge that registering a conflict inserts
    Absent,         \* no such row
    Opposed,        \* pairs of texts that contradict each other
    MaxOthers,      \* bound on the operations of other threads
    MaxHandlers     \* bound on the requests handled

VARIABLES
    nodes,      \* nodes[i]: the text of node i, or Absent
    edges,      \* edges[e]: <<source, target>> of edge e, or Absent
    handler,    \* the request being handled
    others,     \* operations other threads have made
    handled     \* requests handled, and how the last one ended

vars == <<nodes, edges, handler, others, handled>>

AllEdges == EdgeIds \union {Auto}
Pairs == NodeIds \X NodeIds
NodeTables == [NodeIds -> Texts \union {Absent}]
EdgeTables == [EdgeIds -> Pairs \union {Absent}]

There(table) == {i \in DOMAIN table : table[i] # Absent}

\* before: the snapshot; want: what a restore asks for; clean: nothing has been
\* merged into another row, linked as a conflict or touched by another thread.
Idle == [todo |-> <<>>, kind |-> "none", beforeN |-> {}, beforeE |-> {},
         wantN |-> <<>>, wantE |-> <<>>, clean |-> TRUE]

Init ==
    /\ nodes \in {t \in NodeTables : Cardinality(There(t)) <= 1}
    /\ edges = [e \in AllEdges |-> Absent]
    /\ handler = Idle
    /\ others = 0
    /\ handled = [count |-> 0, last |-> "none", run |-> Idle]

(***************************************************************************)
(* The store operations: [ok, nodes, edges, clean] after op.               *)
(***************************************************************************)
Same(ok) == [ok |-> ok, nodes |-> nodes, edges |-> edges, clean |-> TRUE]
Both(p) == {p[1], p[2]} \subseteq There(nodes)
Twins(text) == {i \in There(nodes) : nodes[i] = text}
Opponents(text) == {i \in There(nodes) : <<text, nodes[i]>> \in Opposed \/ <<nodes[i], text>> \in Opposed}

DeleteEdge(e) ==
    IF edges[e] = Absent THEN Same(FALSE) ELSE [Same(TRUE) EXCEPT !.edges[e] = Absent]

DeleteNode(i) ==
    IF nodes[i] = Absent THEN Same(FALSE)
    ELSE [Same(TRUE) EXCEPT !.nodes[i] = Absent,
            !.edges = [e \in AllEdges |-> IF edges[e] # Absent /\ i \in {edges[e][1], edges[e][2]}
                                          THEN Absent ELSE edges[e]]]

UpdateNode(i, text) ==
    IF nodes[i] = Absent THEN Same(FALSE) ELSE [Same(TRUE) EXCEPT !.nodes[i] = text]

\* A node alike another is merged into it; an id that exists elsewhere is a
\* constraint error; a node at odds with another is linked to it.
AddNode(i, text) ==
    IF Twins(text) # {} THEN [Same(TRUE) EXCEPT !.clean = FALSE]
    ELSE IF nodes[i] # Absent THEN Same(FALSE)
    ELSE IF Opponents(text) = {} THEN [Same(TRUE) EXCEPT !.nodes[i] = text]
    ELSE [Same(TRUE) EXCEPT !.nodes[i] = text, !.clean = FALSE,
            !.edges[Auto] = <<i, CHOOSE j \in Opponents(text) : TRUE>>]

AddEdge(e, p) ==
    IF ~Both(p) THEN Same(FALSE)
    ELSE IF \E f \in AllEdges : edges[f] = p THEN [Same(TRUE) EXCEPT !.clean = FALSE]
    ELSE IF edges[e] # Absent THEN Same(FALSE)
    ELSE [Same(TRUE) EXCEPT !.edges[e] = p]

UpdateEdge(e, p) ==
    IF edges[e] = Absent \/ ~Both(p) THEN Same(FALSE) ELSE [Same(TRUE) EXCEPT !.edges[e] = p]

Result(op) ==
    CASE op.do = "delete_edge" -> DeleteEdge(op.id)
      [] op.do = "delete_node" -> DeleteNode(op.id)
      [] op.do = "update_node" -> UpdateNode(op.id, op.to)
      [] op.do = "add_node"    -> AddNode(op.id, op.to)
      [] op.do = "update_edge" -> UpdateEdge(op.id, op.to)
      [] op.do = "add_edge"    -> AddEdge(op.id, op.to)

(***************************************************************************)
(* The handlers.  A restore's mutation pass, in the order of the code.     *)
(***************************************************************************)
Ops(do, ids, table) ==
    [n \in 1..Cardinality(ids) |->
        LET id == SetToSeq(ids)[n] IN
        [do |-> do, id |-> id, to |-> IF id \in DOMAIN table THEN table[id] ELSE Absent]]

\* A mutant: rows the page no longer has stay.
Dropped_None(before, want) == {}

Dropped(before, want) == before \ There(want)

MutationPass(wantN, wantE) ==
    LET N == There(nodes) E == There(edges) IN
       Ops("delete_edge", Dropped(E, wantE), wantE)
    \o Ops("delete_node", Dropped(N, wantN), wantN)
    \o Ops("update_node", There(wantN) \intersect N, wantN)
    \o Ops("add_node", There(wantN) \ N, wantN)
    \o Ops("update_edge", There(wantE) \intersect E, wantE)
    \o Ops("add_edge", There(wantE) \ E, wantE)

Handles(kind, todo, wantN, wantE) ==
    handler' = [todo |-> todo, kind |-> kind, beforeN |-> There(nodes), beforeE |-> There(edges),
                wantN |-> wantN, wantE |-> wantE, clean |-> TRUE]

Free == handler.kind = "none" /\ handled.count < MaxHandlers

\* The validation pass: the ends of every wanted edge are wanted nodes.
Restore(wantN, wantE) ==
    /\ Free
    /\ \A e \in There(wantE) : {wantE[e][1], wantE[e][2]} \subseteq There(wantN)
    /\ Handles("restore", MutationPass(wantN, wantE), wantN, wantE)
    /\ UNCHANGED <<nodes, edges, others, handled>>

\* Create and update validate what they would make of the snapshot; the row
\* and the ends must be there when it is read, not yet when it is written.
Edit(op) ==
    /\ Free
    /\ op.do \in {"update_node", "update_edge"} => op.id \in There(nodes) \union There(edges)
    /\ op.do \in {"add_edge", "update_edge"} => Both(op.to)
    /\ Handles("edit", <<op>>, <<>>, <<>>)
    /\ UNCHANGED <<nodes, edges, others, handled>>

Ends(how) == handled' = [count |-> handled.count + 1, last |-> how, run |-> handler] /\ handler' = Idle

Apply ==
    /\ handler.todo # <<>>
    /\ LET r == Result(Head(handler.todo)) IN
       /\ nodes' = r.nodes /\ edges' = r.edges
       /\ IF r.ok
          THEN /\ handler' = [handler EXCEPT !.todo = Tail(@), !.clean = @ /\ r.clean]
               /\ handled' = [handled EXCEPT !.run = Idle]
          ELSE Ends("failed")
    /\ UNCHANGED others

\* Every operation went through: the UI state is saved and the request answered.
Respond ==
    /\ handler.kind # "none" /\ handler.todo = <<>>
    /\ Ends("ok")
    /\ UNCHANGED <<nodes, edges, others>>

EditOps ==
    [do : {"update_node", "add_node"}, id : NodeIds, to : Texts]
        \union [do : {"add_edge", "update_edge"}, id : EdgeIds, to : Pairs]
        \union [do : {"delete_node"}, id : NodeIds, to : {Absent}]
        \union [do : {"delete_edge"}, id : EdgeIds, to : {Absent}]

\* A tool thread or another process changes the store between two operations.
Other(op) ==
    /\ others < MaxOthers /\ Result(op).ok
    /\ nodes' = Result(op).nodes /\ edges' = Result(op).edges
    /\ others' = others + 1
    /\ handler' = [handler EXCEPT !.clean = FALSE]
    /\ handled' = [handled EXCEPT !.run = Idle]

Next ==
    \/ \E n \in NodeTables, e \in EdgeTables : Restore(n, e)
    \/ \E op \in EditOps : Edit(op) \/ Other(op)
    \/ Apply \/ Respond

Spec == Init /\ [][Next]_vars

-----------------------------------------------------------------------------
TypeOK == nodes \in NodeTables /\ edges \in [AllEdges -> Pairs \union {Absent}]

\* An edge ends at nodes that exist, whatever a handler was interrupted by.
EdgesClosed == \A e \in There(edges) : Both(edges[e])

\* A restore that answered ok, and met no merge, conflict or other thread, has
\* left exactly what it was asked for.
RestoreLands ==
    LET r == handled.run IN
    handled.last = "ok" /\ r.kind = "restore" /\ r.clean =>
        /\ nodes = r.wantN
        /\ \A e \in EdgeIds : edges[e] = r.wantE[e]
        /\ edges[Auto] = Absent

\* A restore, even one that has failed half-way, has taken away no node of the
\* snapshot that it was asked to keep.
WantedSurvive ==
    /\ handler.kind = "restore" /\ handler.clean =>
         handler.beforeN \intersect There(handler.wantN) \subseteq There(nodes)
    /\ handled.last = "failed" /\ handled.run.kind = "restore" /\ handled.run.clean =>
         handled.run.beforeN \intersect There(handled.run.wantN) \subseteq There(nodes)

\* What the editor's handlers keep of the graph.
EditorSound == TypeOK /\ EdgesClosed /\ RestoreLands /\ WantedSurvive
=============================================================================
