---------------------------- MODULE DerivedCaches ----------------------------
(***************************************************************************)
(* What waggle derives from the nodes and edges of one tenant and keeps    *)
(* beside them: the topic partition in the tenant's row, and each context  *)
(* window's vector and node count in the window's row.                     *)
(*                                                                         *)
(* A mutation is one transaction under the graph lock and updates both     *)
(* rows itself; add_node first makes sure of the window in transactions of *)
(* its own.  get_topics computes from several SELECTs, between which other *)
(* processes commit.  get_window_embedding, recompute_stale_window_        *)
(* embeddings and close_context_window compute with the lock released.     *)
(*                                                                         *)
(* A session has one window.  text stands for a node's label and content,  *)
(* an edge for the relations from one node to another, a vector for the    *)
(* texts it was computed from, a partition for the graph it clusters.      *)
(* Nobody looks at a cached partition or vector that is marked stale, so a *)
(* mark forgets it.  Time is counted: every utc_now() that is stored is    *)
(* later than the last.                                                    *)
(***************************************************************************)
EXTENDS Integers, FiniteSets
LOCAL INSTANCE TLC

CONSTANTS
    NodeIds,        \* the ids nodes may get
    Windows,        \* the context windows
    NoWindow,       \* the window of a call that has none yet
    Texts,          \* what a node may say
    Adders,         \* threads that call add_node
    VectorReaders,  \* threads that compute window vectors
    TopicReaders,   \* threads of other processes that call get_topics
    MaxClock        \* bound on stored timestamps

ASSUME CachesAssumption ==
    /\ IsFiniteSet(NodeIds)
    /\ NoWindow \notin Windows
    /\ MaxClock \in Nat

VARIABLES
    node,      \* the stored nodes: a function from their ids to [win, text]
    edges,     \* the pairs of nodes a relation leads between
    tenant,    \* the tenant's row: communities_stale, communities_version and
               \* cached_communities, the keys and links it was computed from
    row,       \* row[w]: the window's row, if it is there
    adder,     \* adder[a]: where an add_node call is
    vector,    \* vector[r]: where a computation of a window vector is
    topic,     \* topic[r]: where a get_topics call is
    clock,     \* the last utc_now()
    restaled,  \* guarded vector computations whose window was marked since the read
    drifted    \* windows whose row the code has let fall behind their nodes

\* For model checking: nodes, windows and texts are interchangeable.
Symmetry == Permutations(NodeIds) \cup Permutations(Windows) \cup Permutations(Texts)

graph == <<node, edges>>
readers == <<vector, topic, restaled>>
vars == <<node, edges, tenant, row, adder, vector, topic, clock, restaled, drifted>>

NoVector == [n \in {} |-> n]
NoRow == [there |-> FALSE, stale |-> TRUE, at |-> 0, count |-> 0, vec |-> NoVector]
NoTopic == [pc |-> "idle", version |-> 0, hit |-> {}, keys |-> {}, found |-> {}, links |-> {}]
NoRead == [pc |-> "idle", guarded |-> FALSE, win |-> NoWindow, at |-> 0, vec |-> NoVector]
NoAdd == [pc |-> "idle", win |-> NoWindow, at |-> 0]

Members(nd, w) == {n \in DOMAIN nd : nd[n].win = w}
Content(nd, w) == [n \in Members(nd, w) |-> nd[n].text]
Endpoints(es) == {e[1] : e \in es} \cup {e[2] : e \in es}

Init ==
    /\ node \in UNION {[S -> [win : Windows, text : Texts]] : S \in SUBSET NodeIds}
    /\ edges = {}
    /\ tenant = [stale |-> TRUE, version |-> 0, keys |-> {}, links |-> {}]
    /\ row = [w \in Windows |->
                 IF Members(node, w) = {} THEN NoRow
                 ELSE [NoRow EXCEPT !.there = TRUE, !.count = Cardinality(Members(node, w))]]
    /\ adder = [a \in Adders |-> NoAdd]
    /\ vector = [r \in VectorReaders |-> NoRead]
    /\ topic = [r \in TopicReaders |-> NoTopic]
    /\ clock = 0
    /\ restaled = {}
    /\ drifted = {}

-----------------------------------------------------------------------------
(* What the mutations share.                                               *)

Tick == clock < MaxClock /\ clock' = clock + 1

\* _mark_communities_stale
BumpTopics ==
    tenant' = [stale |-> TRUE, version |-> tenant.version + 1, keys |-> {}, links |-> {}]

\* ensure_context_window: an upsert that moves updated_at.
Ensured(rw, s) ==
    IF rw.there THEN [rw EXCEPT !.at = s] ELSE [NoRow EXCEPT !.there = TRUE, !.at = s]

\* _mark_window_embedding_stale
Stale(rw, s) == IF rw.there THEN [rw EXCEPT !.stale = TRUE, !.at = s, !.vec = NoVector] ELSE rw

\* _update_window_node_count
Counted(rw, c) == IF rw.there THEN [rw EXCEPT !.count = c] ELSE rw

\* The computations under way that will compare updated_at before they save.
Guarding(w) ==
    {r \in VectorReaders : vector[r].pc # "idle" /\ vector[r].guarded /\ vector[r].win = w}

NoteStale(ws) == restaled' = restaled \cup UNION {Guarding(w) : w \in ws}

\* A mark with timestamp s goes unseen by a computation that read the row at s.
Repeats(w, s) == \E r \in Guarding(w) : vector[r].at = s

Without(nd, gone) == [n \in DOMAIN nd \ gone |-> nd[n]]
\* Mutant: a deleted node leaves its edges.
Cut_Keeps(es, gone) == es

Cut(es, gone) == {e \in es : e[1] \notin gone /\ e[2] \notin gone}

-----------------------------------------------------------------------------
(* add_node                                                                *)

\* resolve_window_context, in transactions of its own.
BeginAdd(a, w) ==
    /\ adder[a].pc = "idle"
    /\ Tick
    /\ adder' = [adder EXCEPT ![a] = [pc |-> "resolved", win |-> w, at |-> clock']]
    /\ row' = [row EXCEPT ![w] = Ensured(@, clock')]
    /\ drifted' = IF ~row[w].there /\ Members(node, w) # {} THEN drifted \cup {w} ELSE drifted
    /\ UNCHANGED <<graph, tenant, readers>>

EndAdd(a) == adder' = [adder EXCEPT ![a] = NoAdd]

\* The insertion with the edges of the conflicts found, which a call that names no
\* session or no project looks for beyond its window; the window is marked with the
\* timestamp it was ensured with.
InsertNode(a, n, t, conflicts) ==
    LET w == adder[a].win
        s == adder[a].at
    IN
    /\ adder[a].pc = "resolved"
    /\ n \notin DOMAIN node
    /\ conflicts \subseteq DOMAIN node
    /\ node' = [m \in DOMAIN node \cup {n} |-> IF m = n THEN [win |-> w, text |-> t] ELSE node[m]]
    /\ edges' = edges \cup {<<n, m>> : m \in conflicts}
    /\ row' = [row EXCEPT ![w] = Counted(Stale(@, s), Cardinality(Members(node', w)))]
    /\ BumpTopics
    /\ NoteStale({w})
    /\ drifted' = IF Repeats(w, s) THEN drifted \cup {w} ELSE drifted \ {w}
    /\ EndAdd(a)
    /\ UNCHANGED <<vector, topic, clock>>

\* The new node is merged into a duplicate, whose window v is marked and whose label
\* and content stay.
MergeDuplicate(a, v) ==
    LET s == adder[a].at IN
    /\ adder[a].pc = "resolved"
    /\ Members(node, v) # {}
    /\ row' = [row EXCEPT ![v] = Stale(@, s)]
    /\ BumpTopics
    /\ NoteStale({v})
    /\ drifted' = IF Repeats(v, s) THEN drifted \cup {v} ELSE drifted
    /\ EndAdd(a)
    /\ UNCHANGED <<graph, vector, topic, clock>>

-----------------------------------------------------------------------------
(* The other mutations, each one transaction.                              *)

\* update_node with a content.
ChangeContent(n, t) ==
    LET w == node[n].win IN
    /\ n \in DOMAIN node
    /\ Tick
    /\ node' = [node EXCEPT ![n].text = t]
    /\ row' = [row EXCEPT ![w] = Stale(@, clock')]
    /\ BumpTopics
    /\ NoteStale({w})
    /\ UNCHANGED <<edges, adder, vector, topic, drifted>>

\* update_node with a label and neither content nor scope: no window is touched.
Relabel(n, t) ==
    /\ n \in DOMAIN node
    /\ Tick
    /\ node' = [node EXCEPT ![n].text = t]
    /\ BumpTopics
    /\ drifted' = drifted \cup {node[n].win}
    /\ UNCHANGED <<edges, row, adder, readers>>

\* update_node with another session: both windows are marked and counted.
ChangeScope(n, w) ==
    LET ws == {node[n].win, w}
        ensured == [row EXCEPT ![w] = Ensured(@, clock')]
    IN
    /\ n \in DOMAIN node
    /\ w # node[n].win
    /\ Tick
    /\ node' = [node EXCEPT ![n].win = w]
    /\ row' = [v \in Windows |->
                  IF v \in ws
                  THEN Counted(Stale(ensured[v], clock'), Cardinality(Members(node', v)))
                  ELSE row[v]]
    /\ BumpTopics
    /\ NoteStale(ws)
    /\ drifted' = drifted \ ws
    /\ UNCHANGED <<edges, adder, vector, topic>>

DeleteNode(n) ==
    LET w == node[n].win IN
    /\ n \in DOMAIN node
    /\ Tick
    /\ node' = Without(node, {n})
    /\ edges' = Cut(edges, {n})
    /\ row' = [row EXCEPT ![w] = Counted(Stale(@, clock'), Cardinality(Members(node', w)))]
    /\ BumpTopics
    /\ NoteStale({w})
    /\ drifted' = drifted \ {w}
    /\ UNCHANGED <<adder, vector, topic>>

ChangeEdges(es) ==
    /\ Tick
    /\ edges' = es
    /\ BumpTopics
    /\ UNCHANGED <<node, row, adder, readers, drifted>>

AddEdge(m, n) ==
    /\ {m, n} \subseteq DOMAIN node
    /\ <<m, n>> \notin edges
    /\ ChangeEdges(edges \cup {<<m, n>>})

\* Another relation may remain where the old one was.
UpdateEdge(e, m, n) ==
    /\ {m, n} \subseteq DOMAIN node
    /\ \/ ChangeEdges(edges \cup {<<m, n>>})
       \/ ChangeEdges((edges \ {e}) \cup {<<m, n>>})

DeleteEdge(e) == ChangeEdges(edges) \/ ChangeEdges(edges \ {e})

\* canonicalize_node: n is merged into m, its edges are led to m, and no window
\* is marked or counted.
Canonicalize(n, m) ==
    LET Led(p) == IF p = n THEN m ELSE p IN
    /\ {m, n} \subseteq DOMAIN node /\ n # m
    /\ Tick
    /\ node' = Without(node, {n})
    /\ edges' = {<<Led(e[1]), Led(e[2])>> : e \in edges \ {<<n, m>>, <<m, n>>}}
    /\ BumpTopics
    /\ drifted' = drifted \cup {node[n].win}
    /\ UNCHANGED <<row, adder, readers>>

\* prune_retention: old nodes, edges and windows go; the windows that stay are
\* neither marked nor counted.
Prune(ns, es, ws) ==
    /\ ns \subseteq DOMAIN node /\ es \subseteq edges
    /\ ns # {} \/ es # {} \/ ws # {}
    /\ Tick
    /\ node' = Without(node, ns)
    /\ edges' = Cut(edges \ es, ns)
    /\ row' = [w \in Windows |-> IF w \in ws THEN NoRow ELSE row[w]]
    /\ IF ns # {} \/ es # {} THEN BumpTopics ELSE UNCHANGED tenant
    /\ drifted' = drifted \cup {node[n].win : n \in ns}
    /\ UNCHANGED <<adder, readers>>

\* clear_session
ClearSession(w) ==
    LET ns == Members(node, w) IN
    /\ row[w].there \/ ns # {}
    /\ Tick
    /\ node' = Without(node, ns)
    /\ edges' = Cut(edges, ns)
    /\ row' = [row EXCEPT ![w] = NoRow]
    /\ IF ns # {} THEN BumpTopics ELSE UNCHANGED tenant
    /\ UNCHANGED <<adder, readers, drifted>>

\* The last part of observe_conversation's transaction.
ObserveTurn(w) ==
    /\ Tick
    /\ row' = [row EXCEPT ![w] =
                  Stale(Counted(Ensured(@, clock'), Cardinality(Members(node, w))), clock')]
    /\ NoteStale({w})
    /\ drifted' = drifted \ {w}
    /\ UNCHANGED <<graph, tenant, adder, vector, topic>>

-----------------------------------------------------------------------------
(* The vector of a window.                                                 *)

\* get_window_embedding or recompute_stale_window_embeddings reads the row.
ReadRow(r, w) ==
    /\ vector[r].pc = "idle"
    /\ row[w].there
    /\ row[w].stale \/ row[w].vec = NoVector
    /\ vector' = [vector EXCEPT ![r] =
                     [pc |-> "read", guarded |-> TRUE, win |-> w, at |-> row[w].at, vec |-> NoVector]]
    /\ UNCHANGED <<graph, tenant, row, adder, topic, clock, restaled, drifted>>

EndVector(r) ==
    /\ vector' = [vector EXCEPT ![r] = NoRead]
    /\ restaled' = restaled \ {r}

\* compute_window_embedding, with a lock of its own for the nodes.
Compute(r) ==
    LET w == vector[r].win IN
    /\ vector[r].pc = "read"
    /\ IF Members(node, w) = {}
       THEN EndVector(r)
       ELSE /\ vector' = [vector EXCEPT ![r].pc = "computed", ![r].vec = Content(node, w)]
            /\ UNCHANGED restaled
    /\ UNCHANGED <<graph, tenant, row, adder, topic, clock, drifted>>

SavedRow(rw, v, s) == [rw EXCEPT !.stale = FALSE, !.vec = v, !.at = s]

\* Mutant: the save does not ask whether the row is still the one read.
SaveIfUnchanged_Anyway(r) ==
    LET w == vector[r].win IN
    /\ vector[r].pc = "computed" /\ vector[r].guarded
    /\ IF row[w].there
       THEN /\ Tick
            /\ row' = [row EXCEPT ![w] = SavedRow(@, vector[r].vec, clock')]
       ELSE UNCHANGED <<row, clock>>
    /\ EndVector(r)
    /\ UNCHANGED <<graph, tenant, adder, topic, drifted>>

\* _save_window_embedding with expected_updated_at.
SaveIfUnchanged(r) ==
    LET w == vector[r].win IN
    /\ vector[r].pc = "computed" /\ vector[r].guarded
    /\ IF row[w].there /\ row[w].at = vector[r].at
       THEN /\ Tick
            /\ row' = [row EXCEPT ![w] = SavedRow(@, vector[r].vec, clock')]
       ELSE UNCHANGED <<row, clock>>
    /\ EndVector(r)
    /\ UNCHANGED <<graph, tenant, adder, topic, drifted>>

\* close_context_window computes before it takes the lock ...
BeginClose(r, w) ==
    /\ vector[r].pc = "idle"
    /\ row[w].there
    /\ vector' = [vector EXCEPT ![r] =
                     [pc |-> "computed", guarded |-> FALSE, win |-> w, at |-> 0,
                      vec |-> Content(node, w)]]
    /\ UNCHANGED <<graph, tenant, row, adder, topic, clock, restaled, drifted>>

\* ... and saves what it computed, whatever happened to the row since.
SaveOnClose(r) ==
    LET w == vector[r].win
        v == vector[r].vec
        saved == IF v = NoVector THEN row[w] ELSE SavedRow(row[w], v, clock')
    IN
    /\ vector[r].pc = "computed" /\ ~vector[r].guarded
    /\ IF row[w].there
       THEN /\ Tick
            /\ row' = [row EXCEPT ![w] =
                          [Counted(saved, Cardinality(Members(node, w))) EXCEPT !.at = clock']]
            /\ drifted' = IF v = NoVector THEN drifted
                          ELSE IF v = Content(node, w) THEN drifted \ {w}
                          ELSE drifted \cup {w}
       ELSE UNCHANGED <<row, clock, drifted>>
    /\ EndVector(r)
    /\ UNCHANGED <<graph, tenant, adder, topic>>

-----------------------------------------------------------------------------
(* get_topics, statement by statement.                                     *)

ReadTenant(r, force) ==
    /\ topic[r].pc = "idle"
    /\ topic' = [topic EXCEPT ![r] =
                    [NoTopic EXCEPT !.pc = "tenant", !.version = tenant.version,
                                    !.hit = IF tenant.stale \/ force THEN {} ELSE tenant.keys]]
    /\ UNCHANGED <<graph, tenant, row, adder, vector, clock, restaled, drifted>>

\* No nodes, or a cached partition of just these nodes, is an answer.
ReadNodes(r) ==
    LET ids == DOMAIN node IN
    /\ topic[r].pc = "tenant"
    /\ topic' = [topic EXCEPT ![r] =
                    IF ids = {} \/ topic[r].hit = ids THEN NoTopic
                    ELSE [NoTopic EXCEPT !.pc = "nodes", !.version = topic[r].version,
                                         !.keys = ids]]
    /\ UNCHANGED <<graph, tenant, row, adder, vector, clock, restaled, drifted>>

\* Mutant: the version is read after the nodes.
LoadGraph_VersionLate(r) ==
    /\ topic[r].pc = "nodes"
    /\ topic' = [topic EXCEPT ![r].pc = "partition", ![r].links = edges,
                              ![r].version = tenant.version,
                              ![r].found = topic[r].keys \cup Endpoints(edges)]
    /\ UNCHANGED <<graph, tenant, row, adder, vector, clock, restaled, drifted>>

\* _load_graph takes every edge of the tenant and with it the edge's ends, so
\* that these get a cluster as well.
LoadGraph(r) ==
    /\ topic[r].pc = "nodes"
    /\ topic' = [topic EXCEPT ![r].pc = "partition", ![r].links = edges,
                              ![r].found = topic[r].keys \cup Endpoints(edges)]
    /\ UNCHANGED <<graph, tenant, row, adder, vector, clock, restaled, drifted>>

\* Mutant: the cache is written whatever happened since the version was read.
StoreTopics_Anyway(r) ==
    /\ topic[r].pc = "partition"
    /\ tenant' = [tenant EXCEPT !.stale = FALSE, !.keys = topic[r].found, !.links = topic[r].links]
    /\ topic' = [topic EXCEPT ![r] =
                    IF topic[r].found \subseteq topic[r].keys THEN NoTopic
                    ELSE [topic[r] EXCEPT !.pc = "raised"]]
    /\ UNCHANGED <<graph, row, adder, vector, clock, restaled, drifted>>

\* The cache is written if no mutation bumped the version since; then a node of
\* the partition that is not among the nodes read raises KeyError.
StoreTopics(r) ==
    /\ topic[r].pc = "partition"
    /\ tenant' = IF tenant.version = topic[r].version
                 THEN [tenant EXCEPT !.stale = FALSE, !.keys = topic[r].found,
                                     !.links = topic[r].links]
                 ELSE tenant
    /\ topic' = [topic EXCEPT ![r] =
                    IF topic[r].found \subseteq topic[r].keys THEN NoTopic
                    ELSE [topic[r] EXCEPT !.pc = "raised"]]
    /\ UNCHANGED <<graph, row, adder, vector, clock, restaled, drifted>>

Raised(r) ==
    /\ topic[r].pc = "raised"
    /\ topic' = [topic EXCEPT ![r] = NoTopic]
    /\ UNCHANGED <<graph, tenant, row, adder, vector, clock, restaled, drifted>>

-----------------------------------------------------------------------------

AddNode(a) ==
    \/ \E w \in Windows : BeginAdd(a, w) \/ MergeDuplicate(a, w)
    \/ \E n \in NodeIds, t \in Texts, c \in SUBSET DOMAIN node : InsertNode(a, n, t, c)

MutateNode(n) ==
    \/ \E t \in Texts : ChangeContent(n, t) \/ Relabel(n, t)
    \/ \E w \in Windows : ChangeScope(n, w)
    \/ DeleteNode(n)
    \/ \E m \in DOMAIN node : Canonicalize(n, m)

MutateEdge ==
    \/ \E m, n \in DOMAIN node : AddEdge(m, n)
    \/ \E e \in edges, m, n \in DOMAIN node : UpdateEdge(e, m, n)
    \/ \E e \in edges : DeleteEdge(e)

Forget ==
    \/ \E ns \in SUBSET DOMAIN node, es \in SUBSET edges, ws \in SUBSET Windows : Prune(ns, es, ws)
    \/ \E w \in Windows : ClearSession(w)

VectorStep(r) ==
    \/ \E w \in Windows : ReadRow(r, w) \/ BeginClose(r, w)
    \/ Compute(r) \/ SaveIfUnchanged(r) \/ SaveOnClose(r)

TopicStep(r) ==
    \/ \E force \in BOOLEAN : ReadTenant(r, force)
    \/ ReadNodes(r) \/ LoadGraph(r) \/ StoreTopics(r) \/ Raised(r)

Next ==
    \/ \E a \in Adders : AddNode(a)
    \/ \E n \in DOMAIN node : MutateNode(n)
    \/ MutateEdge
    \/ Forget
    \/ \E w \in Windows : ObserveTurn(w)
    \/ \E r \in VectorReaders : VectorStep(r)
    \/ \E r \in TopicReaders : TopicStep(r)

Spec == Init /\ [][Next]_vars

-----------------------------------------------------------------------------
Vectors == UNION {[S -> Texts] : S \in SUBSET NodeIds}
Links == SUBSET (NodeIds \X NodeIds)

(* Type invariant: the rows, and the calls under way. Edges lead between    *)
(* stored nodes, as the foreign keys demand.                               *)
TypeOK ==
    /\ node \in UNION {[S -> [win : Windows, text : Texts]] : S \in SUBSET NodeIds}
    /\ edges \subseteq (DOMAIN node) \X (DOMAIN node)
    /\ tenant \in [stale : BOOLEAN, version : Nat, keys : SUBSET NodeIds, links : Links]
    /\ row \in [Windows -> [there : BOOLEAN, stale : BOOLEAN, at : 0 .. clock, count : Nat,
                            vec : Vectors]]
    /\ adder \in [Adders -> {NoAdd} \cup
                   [pc : {"resolved"}, win : Windows, at : 0 .. clock]]
    /\ vector \in [VectorReaders -> {NoRead} \cup
                   [pc : {"read", "computed"}, guarded : BOOLEAN, win : Windows,
                    at : 0 .. clock, vec : Vectors]]
    /\ topic \in [TopicReaders ->
                     [pc : {"idle", "tenant", "nodes", "partition", "raised"}, version : Nat,
                      hit : SUBSET NodeIds, keys : SUBSET NodeIds, found : SUBSET NodeIds,
                      links : Links]]
    /\ clock \in 0 .. MaxClock
    /\ restaled \subseteq VectorReaders
    /\ drifted \subseteq Windows

\* A cached topic partition that is not marked stale was computed from the graph
\* as it is now: a mutation that lands while get_topics computes wins.
TopicsMatchGraph ==
    ~tenant.stale => tenant.keys = DOMAIN node /\ tenant.links = edges

\* get_topics raises only when another process changed the graph between its
\* reads of the nodes and of the edges.
TopicsAnswerUnlessOvertaken ==
    \A r \in TopicReaders : topic[r].pc = "raised" => topic[r].version < tenant.version

\* A window's row tells the number of its nodes, and a vector that is not marked
\* stale is the vector of its nodes, save where the code is known to let the row
\* fall behind: canonicalize_node, prune_retention and a relabelling leave it
\* alone, close_context_window saves over a newer mark, add_node marks with a
\* timestamp a reader may have seen, and a cleared window may come back.
WindowRowsAccurate ==
    \A w \in Windows \ drifted :
        row[w].there =>
            /\ row[w].count = Cardinality(Members(node, w))
            /\ row[w].stale \/ row[w].vec = NoVector \/ row[w].vec = Content(node, w)

\* "Every stale-marking path bumps updated_at: if membership changed and re-staled
\* it meanwhile, the guard misses": a computation whose window was marked after it
\* read the row does not save an outdated vector.
NoOutdatedSave ==
    [][\A r \in restaled :
           vector[r].pc = "computed" /\ vector'[r].pc = "idle"
           /\ vector[r].vec # Content(node, vector[r].win) => row' = row]_vars

\* What get_topics may be relied on for, between the statements of its callers and
\* the mutations of others: it serves the graph as it is, or raises when overtaken.
TopicsSound == TypeOK /\ TopicsMatchGraph /\ TopicsAnswerUnlessOvertaken

=============================================================================
