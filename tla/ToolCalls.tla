------------------------------ MODULE ToolCalls ------------------------------
(***************************************************************************)
(* The MCP tools: call_tool guards, renames and validates a call,          *)
(* dispatches it to one or more operations of the graph, counts it and     *)
(* records the graph's size, each call in a thread of its own.  What an    *)
(* operation does inside is in the other modules; here it is a section of  *)
(* the graph's lock that leaves so many rows, or a file, behind.           *)
(***************************************************************************)
EXTENDS Naturals, FiniteSets

CONSTANTS
    Calls,             \* the threads that calls run in
    Tools,             \* the names clients call by
    NodeIds, Turns,
    Secrets,           \* turns that match one of _EXPORT_SECRET_PATTERNS
    Session,           \* the session of a node and of a turn
    Project,           \* the project of a session
    Unscoped,          \* the session of what names neither session nor project
    FastMode,          \* fast startup, and the embeddings are not ready
    Recursive,         \* WAGGLE_RECURSIVE_CONTEXT_ENABLED
    ServerCounts,      \* calls come through WaggleServer, which records sizes once more
    Stores,            \* what a server may find: rows and a document
    Nothing,
    MaxCalls           \* bound on the calls

ToolsAssumption == MaxCalls \in Nat /\ Secrets \subseteq Turns

VARIABLES
    nodes, edges, said,   \* the rows: nodes, pairs of nodes, transcripts
    accessed,             \* the nodes whose access_count is not 0
    windows,              \* per session: its context window
    file,                 \* the document at the one path that calls name
    gauge,                \* waggle_graph_nodes and waggle_graph_edges
    counted,              \* waggle_tool_requests_total by status
    call,                 \* per thread: tool, name, at, arg and what it did so far
    begun,
    uncounted,            \* ghost: calls answered before they were counted
    lag                   \* ghost: the gauges that were last set to a size already past, or
                          \* passed by a change that no recording follows

rows == <<nodes, edges, said, windows>>
vars == <<rows, accessed, file, gauge, counted, call, begun, uncounted, lag>>

EverySession == {Session[n] : n \in NodeIds \cup Turns}
Size     == [nodes |-> Cardinality(nodes), edges |-> Cardinality(edges)]

-----------------------------------------------------------------------------
\* Tables of the dispatcher and of embeddings.py.
ReadOnly == {"dedup_candidates", "debug_retrieval", "get_related", "get_node_history", "list_context_scopes",
             "list_context_windows", "get_context_window", "timeline", "list_conflicts", "graph_diff",
             "prime_context", "get_topics", "get_stats", "edge_quality_report", "build_context", "diff", "grep",
             "load_abhi_chunks", "fsck", "show"}
Destructive == {"canonicalize_node", "resolve_conflict", "update_node", "delete_node", "clear_session",
                "clear_project", "clear_all", "import_markdown_vault"}
Renamed == [export_graph_backup |-> "commit", export_abhi |-> "commit", export_context_bundle |-> "commit",
            import_graph_backup |-> "pull", import_abhi |-> "pull", diff_abhi |-> "diff", merge_abhi |-> "merge",
            validate_abhi |-> "fsck", inspect_abhi |-> "show", query_abhi |-> "grep",
            recursive_context |-> "build_context", assemble_context |-> "build_context", rlm_context |-> "build_context"]
EmbeddingFree == {"list_tools", "get_stats", "list_context_scopes", "health", "graph_diff", "list_conflicts",
                  "get_node_history", "timeline", "edge_quality_report"}

GraphSizeTools == {"store_node", "store_edge", "canonicalize_node", "resolve_conflict", "clear_session", "clear_project",
                   "clear_all", "decompose_and_store", "observe_conversation", "pull", "merge", "import_markdown_vault"}
ServerSizeTools == {"store_node", "store_edge", "import_graph_backup", "pull"}

\* validate_tool_payload: the tools with a limit on the size of some of their fields.
SizeChecked == {"store_node", "decompose_and_store", "observe_conversation", "aggregate_graph", "query_graph",
                "debug_retrieval", "commit", "window_graph_viz", "timeline", "resolve_conflict"}

Canonical(tool) == IF tool \in DOMAIN Renamed THEN Renamed[tool] ELSE tool

\* The catalogue that list_tools makes: a tool that is not in it has no schema.
Listed(name) == name = "build_context" => Recursive

\* _check_embedding_available looks at the name as it was called by.
Unavailable(tool, mode) ==
    /\ FastMode /\ tool \notin EmbeddingFree
    /\ ~(tool \in {"query_graph", "export_context_bundle", "commit"} /\ mode \in {"verbatim", "lexical"})

-----------------------------------------------------------------------------
\* A call to a tool is guarded, renamed and validated before anything is touched.
Answered(c) == call' = [call EXCEPT ![c] = Nothing]
Step(c, at, arg, did) == call' = [call EXCEPT ![c].at = at, ![c].arg = arg, ![c].did = @ \cup did]

\* Where the server goes with an answer: it records the size for these, whatever came of them.
Then(tool) == IF ServerCounts /\ tool \in ServerSizeTools THEN "again" ELSE "answer"

Begin(c) ==
    /\ call[c] = Nothing /\ begun < MaxCalls /\ begun' = begun + 1
    /\ \E tool \in Tools, mode \in {"hybrid", "verbatim"}, fits \in BOOLEAN, conforms \in BOOLEAN :
          LET name    == Canonical(tool)
              valid   == (fits \/ name \notin SizeChecked) /\ (conforms \/ ~Listed(name))
              refused == Unavailable(tool, mode) \/ (valid /\ name = "build_context" /\ ~Recursive)
              place   == IF refused THEN Then(tool) ELSE IF valid THEN "dispatch" ELSE "failed"
          IN /\ uncounted' = uncounted + IF refused THEN 1 ELSE 0
             /\ call' = [call EXCEPT ![c] = [tool |-> tool, name |-> name, arg |-> Nothing, did |-> {}, at |-> place]]
    /\ UNCHANGED <<rows, accessed, file, gauge, counted, lag>>

Running(c, name, at) == call[c] # Nothing /\ call[c].name = name /\ call[c].at = at

\* The tools whose changes of size nothing records.
Unrecorded == {"delete_node"}
Passed(ns, es) == {k \in {"nodes", "edges"} :
                      Size[k] # [nodes |-> Cardinality(ns), edges |-> Cardinality(es)][k]}

\* A section that leaves these rows and sends the call to a place.
Leaves(c, ns, es, ts, ws, at, arg) ==
    /\ nodes' = ns /\ edges' = es /\ said' = ts /\ windows' = ws
    /\ accessed' = accessed \cap ns
    /\ Step(c, at, arg, (IF <<ns, es, ts, ws>> # rows THEN {"changes"} ELSE {})
                        \cup IF nodes \subseteq ns /\ edges \subseteq es /\ said \subseteq ts THEN {} ELSE {"removes"})
    /\ lag' = IF call[c].name \in Unrecorded THEN lag \cup Passed(ns, es) ELSE lag
    /\ UNCHANGED <<file, gauge, counted, begun, uncounted>>

\* A section that reads, and counts the accesses of what it serves.
Serves(c, served, at) ==
    /\ accessed' = accessed \cup served
    /\ Step(c, at, call[c].arg, IF served = {} THEN {} ELSE {"counts"})
    /\ UNCHANGED <<rows, file, gauge, counted, begun, uncounted, lag>>
Reads(c, at) == Serves(c, {}, at)

\* A section that fails is rolled back; what earlier sections of the call left stays.
\* What observe_conversation does after its turn is stored fails quietly.
Recording == {"size", "nodes", "edges", "again", "nodes again", "edges again", "answer"}

Raises(c) ==
    /\ call[c] # Nothing /\ call[c].at \notin {"done", "failed"} \cup Recording
    /\ ~Running(c, "observe_conversation", "links")
    /\ Step(c, "failed", Nothing, {})
    /\ lag' = IF "changes" \in call[c].did /\ call[c].name \in GraphSizeTools THEN {"nodes", "edges"} ELSE lag
    /\ UNCHANGED <<rows, accessed, file, gauge, counted, begun, uncounted>>

-----------------------------------------------------------------------------
Opened(s) == IF windows[s] = "none" THEN [windows EXCEPT ![s] = "active"] ELSE windows
Closed(ns, es) == {e \in es : e[1] \in ns /\ e[2] \in ns}

\* The nodes that one of a session may be a duplicate of, or contradict.
Peers(s) == IF s = Unscoped THEN nodes ELSE {n \in nodes : Session[n] = s}

\* add_node, in two sections: the window is there first; then a duplicate is merged into
\* the node there is, or a new node is inserted and joined to what it contradicts, whether
\* or not its window is still there.
Opens(c, s, at, arg) == Leaves(c, nodes, edges, said, Opened(s), at, arg)

Merges(c, m, at, arg) ==
    /\ Step(c, at, arg, {"changes"})
    /\ UNCHANGED <<rows, accessed, file, gauge, counted, begun, uncounted, lag>>

Inserts(c, n, at, arg) ==
    \E es \in SUBSET {<<n, m>> : m \in Peers(Session[n])} :
       Leaves(c, nodes \cup {n}, edges \cup es, said, windows, at, arg)

StoreNode(c) ==
    \/ /\ Running(c, "store_node", "dispatch")
       /\ \E s \in EverySession : Opens(c, s, "insert", s)
    \/ /\ Running(c, "store_node", "insert")
       /\ \/ \E m \in Peers(call[c].arg) : Merges(c, m, "done", Nothing)
          \/ \E n \in NodeIds \ nodes : Session[n] = call[c].arg /\ Inserts(c, n, "done", Nothing)

StoreEdge(c) ==
    /\ Running(c, "store_edge", "dispatch")
    /\ \E e \in nodes \X nodes : Leaves(c, nodes, edges \cup {e}, said, windows, "done", Nothing)

\* canonicalize_node: the edges of the others that are still there come to the canonical
\* node, but for those among them; an edge from a node to itself stays one.
CanonicalizeNode(c) ==
    /\ Running(c, "canonicalize_node", "dispatch")
    /\ \E n \in nodes : \E others \in SUBSET (nodes \ {n}) :
          LET At(m) == IF m \in others THEN n ELSE m
              kept  == {<<At(e[1]), At(e[2])>> : e \in {x \in edges : x[1] = x[2] \/ At(x[1]) # At(x[2])}}
          IN IF others = {} THEN Merges(c, n, "done", Nothing)
             ELSE Leaves(c, nodes \ others, kept, said, windows, "done", Nothing)

\* resolve_conflict and update_node change a row, and no number of rows.
ChangeRow(c) ==
    /\ \/ Running(c, "resolve_conflict", "dispatch") /\ edges # {}
       \/ Running(c, "update_node", "dispatch") /\ nodes # {}
    /\ Step(c, "done", Nothing, {"changes"})
    /\ UNCHANGED <<rows, accessed, file, gauge, counted, begun, uncounted, lag>>

DeleteNode(c) ==
    /\ Running(c, "delete_node", "dispatch")
    /\ \E n \in nodes : Leaves(c, nodes \ {n}, Closed(nodes \ {n}, edges), said, windows, "done", Nothing)

\* clear_session, clear_project and clear_all: a preview counts, and only a confirmed
\* call clears.
\* Mutant: a call that is no preview needs no confirmation.
Clears_Unconfirmed(dry, confirm) == ~dry

Clears(dry, confirm) == ~dry /\ confirm

OfSession == {{s} : s \in EverySession \ {Unscoped}}
OfProject == {{s \in EverySession : Project[s] = Project[r]} : r \in EverySession \ {Unscoped}}

Cleared(name) ==
    CASE name = "clear_session" -> OfSession
      [] name = "clear_project" -> OfProject
      [] name = "clear_all"     -> {EverySession}
      [] OTHER                  -> {}

Clear(c) ==
    /\ call[c] # Nothing /\ call[c].at = "dispatch"
    /\ \E scope \in Cleared(call[c].name), dry \in BOOLEAN, confirm \in BOOLEAN :
          LET ns == {n \in nodes : Session[n] \notin scope}
          IN IF Clears(dry, confirm)
             THEN Leaves(c, ns, Closed(ns, edges), {t \in said : Session[t] \notin scope},
                         [s \in EverySession |-> IF s \in scope THEN "none" ELSE windows[s]], "done", confirm)
             ELSE Step(c, IF dry THEN "done" ELSE "failed", Nothing, {})
                  /\ UNCHANGED <<rows, accessed, file, gauge, counted, begun, uncounted, lag>>

\* decompose_and_store: one add_node or add_edge between its nodes after the other, none
\* undone when a later one fails; then its edges and the size are read.
Decompose(c) ==
    \/ Running(c, "decompose_and_store", "dispatch") /\ Opens(c, Unscoped, "item", {})
    \/ /\ Running(c, "decompose_and_store", "item")
       /\ \/ \E m \in Peers(Unscoped) : Merges(c, m, "edge", call[c].arg \cup {m})
          \/ \E n \in NodeIds \ nodes : Session[n] = Unscoped /\ Inserts(c, n, "edge", call[c].arg \cup {n})
    \/ /\ Running(c, "decompose_and_store", "edge")
       /\ \/ Opens(c, Unscoped, "item", call[c].arg)
          \/ \E e \in (call[c].arg \cap nodes) \X (call[c].arg \cap nodes) :
                Leaves(c, nodes, edges \cup {e}, said, windows, "edge", call[c].arg)
          \/ Reads(c, "done")

\* observe_conversation: a new turn in any case; in the same section what is extracted
\* from it, new nodes and the edges among what it found and to what that contradicts, or
\* nothing if that fails, and its window; the links of the window after it.
Extracted(found, s) == {e \in found \X (Peers(s) \cup found) : e[1] # e[2]}

Observe(c) ==
    \/ /\ Running(c, "observe_conversation", "dispatch")
       /\ \E t \in Turns \ said :
             LET s == Session[t]
             IN \E found \in SUBSET ({n \in NodeIds : Session[n] = s} \cup Peers(s)) :
                   \E es \in SUBSET Extracted(found, s), ws \in {Opened(s)} \cup IF found = {} THEN {windows} ELSE {} :
                      Leaves(c, nodes \cup found, edges \cup es, said \cup {t}, ws, "links", Nothing)
    \/ Running(c, "observe_conversation", "links") /\ Reads(c, "done")

-----------------------------------------------------------------------------
\* The tools that answer from the graph: those that search it count the accesses of what
\* they serve, whatever their annotations say.  The topics that get_topics may store
\* beside the rows are in DerivedCaches.
Searching == {"aggregate_graph", "query_graph", "debug_retrieval", "get_related", "timeline"}
Listing   == {"dedup_candidates", "list_context_scopes", "list_context_windows", "get_node_history",
              "list_conflicts", "graph_diff", "prime_context", "get_topics", "get_stats", "edge_quality_report"}

Search(c) ==
    /\ call[c] # Nothing /\ call[c].at = "dispatch" /\ call[c].name \in Searching
    /\ \E served \in SUBSET nodes : Serves(c, served, "done")

List(c) ==
    /\ call[c] # Nothing /\ call[c].at = "dispatch" /\ call[c].name \in Listing
    /\ Reads(c, "done")

\* build_context: subqueries, each in sections of its own; those that fail are passed over.
BuildContext(c) ==
    /\ Running(c, "build_context", "dispatch")
    /\ \/ \E served \in SUBSET nodes : Serves(c, served, "dispatch")
       \/ Reads(c, "done")

\* get_context_window: the window, its links and, if asked for, its nodes.
GetWindow(c) ==
    \/ Running(c, "get_context_window", "dispatch") /\ (\E s \in EverySession : windows[s] # "none") /\ Reads(c, "links")
    \/ Running(c, "get_context_window", "links") /\ \E at \in {"window nodes", "done"} : Reads(c, at)
    \/ Running(c, "get_context_window", "window nodes") /\ Reads(c, "done")

\* close_context_window: the vector is made of what was read before the window closes;
\* a window that has gone raises; then its links are derived and read.
CloseWindow(c) ==
    \/ /\ Running(c, "close_context_window", "dispatch")
       /\ \E s \in EverySession : Leaves(c, nodes, edges, said, windows, "close", s)
    \/ /\ Running(c, "close_context_window", "close")
       /\ windows[call[c].arg] # "none"
       /\ Leaves(c, nodes, edges, said, [windows EXCEPT ![call[c].arg] = "closed"], "links", call[c].arg)
    \/ Running(c, "close_context_window", "links") /\ Reads(c, "done")

\* export_graph_html and window_graph_viz: the picture is written from one section, the
\* numbers that are reported are read in others.
Pictures(c) ==
    \E tool \in {"export_graph_html", "window_graph_viz"} :
       \/ Running(c, tool, "dispatch") /\ Reads(c, "numbers")
       \/ Running(c, tool, "numbers") /\ Reads(c, "done")

-----------------------------------------------------------------------------
\* What is in a document, whether its transcripts had to pass the scan for secrets, and
\* those the scan saw.  Of the windows, all in a document of everything, otherwise those
\* of the nodes.
Document(kind, scope, es, guarded, seen) ==
    LET ns == {n \in nodes : Session[n] \in scope}
        ws == {s \in EverySession : scope = EverySession \/ s \in {Session[n] : n \in ns}}
    IN [kind |-> kind, nodes |-> ns, edges |-> es \cap Closed(ns, edges), said |-> {t \in said : Session[t] \in scope},
        windows |-> [s \in EverySession |-> IF s \in ws THEN windows[s] ELSE "none"],
        guarded |-> guarded, seen |-> seen]

\* A document is built in a section and written when the lock is free again.
Builds(c, document, read) ==
    /\ accessed' = accessed \cup read
    /\ Step(c, "write", document, IF read = {} THEN {} ELSE {"counts"})
    /\ UNCHANGED <<rows, file, gauge, counted, begun, uncounted, lag>>

\* Then the export is put on the audit trail; a merge is not.
WriteDocument(c) ==
    \/ /\ call[c] # Nothing /\ call[c].at = "write"
       /\ file' = call[c].arg
       /\ Step(c, IF call[c].name = "merge" THEN "done" ELSE "event", Nothing, {"changes"})
       /\ UNCHANGED <<rows, accessed, gauge, counted, begun, uncounted, lag>>
    \/ call[c] # Nothing /\ call[c].at = "event" /\ Reads(c, "done")

\* commit of a backup, the whole store; of a bundle, what a query or the priming context
\* serves, the query alone counting accesses: a text from which nothing is imported.
CommitBackup(c) ==
    Running(c, "commit", "dispatch") /\ Builds(c, Document("backup", EverySession, edges, FALSE, {}), {})

CommitBundle(c) ==
    /\ Running(c, "commit", "dispatch")
    /\ \E read \in SUBSET nodes : Builds(c, Document("bundle", {}, {}, FALSE, {}), read)

\* commit of an .abhi document: _assert_export_safe builds and scans one document of the
\* scope, export_abhi builds another.
\* Mutant: a session's export is scanned for the transcripts of another.
Scanned_Elsewhere(scope) == {t \in said : Session[t] \notin scope}

Scanned(scope) == {t \in said : Session[t] \in scope}
Safe(scope, force) == force \/ Scanned(scope) \cap Secrets = {}

CommitDocument(c) ==
    \/ /\ Running(c, "commit", "dispatch")
       /\ \E scope \in {EverySession} \cup OfSession \cup OfProject, force \in BOOLEAN :
             IF ~Safe(scope, force) THEN Reads(c, "failed")
             ELSE Leaves(c, nodes, edges, said, windows, "export", [scope |-> scope, force |-> force, seen |-> said])
    \/ /\ Running(c, "commit", "export")
       /\ \E es \in SUBSET edges :     \* but for edges of low confidence
             Builds(c, Document("abhi", call[c].arg.scope, es, ~call[c].arg.force, call[c].arg.seen), {})

\* pull: the file is read and checked before the section that imports it, a backup
\* without its transcripts; windows come as the file has them.  The state of the editor
\* and the audit trail are written in sections of their own.
Pull(c) ==
    \/ /\ Running(c, "pull", "dispatch") /\ file # Nothing /\ file.kind \in {"backup", "abhi"}
       /\ Leaves(c, nodes, edges, said, windows, "import", file)
    \/ /\ Running(c, "pull", "import")
       /\ LET doc == call[c].arg
          IN Leaves(c, nodes \cup doc.nodes, edges \cup doc.edges,
                    IF doc.kind = "backup" THEN said ELSE said \cup doc.said,
                    [s \in EverySession |-> IF doc.windows[s] = "none" THEN windows[s] ELSE doc.windows[s]], "ui", Nothing)
    \/ Running(c, "pull", "ui") /\ Reads(c, "event")

\* diff, grep, load_abhi_chunks, fsck and show read documents; merge writes one, of
\* copies of one document the same.
Documents(c) ==
    /\ file # Nothing /\ file.kind = "abhi"
    /\ \/ Running(c, "merge", "dispatch") /\ Builds(c, file, {})
       \/ \E tool \in {"diff", "grep", "load_abhi_chunks", "fsck", "show"} : Running(c, tool, "dispatch") /\ Reads(c, "done")

\* The vault's documents, edited, add the nodes they describe and stubs for what these
\* are related to, and settle edges of those they describe; no window is opened.
Vault(c) ==
    \/ Running(c, "export_markdown_vault", "dispatch") /\ Reads(c, "done")
    \/ /\ Running(c, "import_markdown_vault", "dispatch")
       /\ \E described \in SUBSET NodeIds :
             \E stubs \in SUBSET {n \in NodeIds : \E d \in described : Session[n] = Session[d]} :
                LET ns == nodes \cup described \cup stubs
                IN \E es \in SUBSET (described \X ns) :
                      Leaves(c, ns, {e \in edges : e[1] \notin described} \cup es, said, windows, "done", Nothing)

-----------------------------------------------------------------------------
\* Counted, then the size is recorded by the dispatcher after a success.
Count(c) ==
    /\ call[c] # Nothing
    /\ \/ /\ call[c].at = "done" /\ counted' = [counted EXCEPT !.success = @ + 1]
          /\ Step(c, IF call[c].name \in GraphSizeTools THEN "size" ELSE Then(call[c].tool), Nothing, {})
       \/ /\ call[c].at = "failed" /\ counted' = [counted EXCEPT !.failure = @ + 1]
          /\ Step(c, Then(call[c].tool), Nothing, {})
    /\ UNCHANGED <<rows, accessed, file, gauge, begun, uncounted, lag>>

\* _record_graph_size: one section for the statistics, then one gauge after the other.
After(at) == IF at = "size" THEN "nodes" ELSE "nodes again"

ReadSize(c) ==
    /\ call[c] # Nothing /\ call[c].at \in {"size", "again"}
    /\ Step(c, After(call[c].at), Size, {})
    /\ UNCHANGED <<rows, accessed, file, gauge, counted, begun, uncounted, lag>>

SizeFails(c) ==
    /\ call[c] # Nothing /\ call[c].at \in {"size", "again"}
    /\ Step(c, IF call[c].at = "size" THEN Then(call[c].tool) ELSE "answer", Nothing, {})
    /\ lag' = {"nodes", "edges"}
    /\ UNCHANGED <<rows, accessed, file, gauge, counted, begun, uncounted>>

Sets(c, k, at) ==
    /\ gauge' = [gauge EXCEPT ![k] = call[c].arg[k]]
    /\ lag' = IF call[c].arg[k] = Size[k] THEN lag \ {k} ELSE lag \cup {k}
    /\ Step(c, at, IF k = "nodes" THEN call[c].arg ELSE Nothing, {})
    /\ UNCHANGED <<rows, accessed, file, counted, begun, uncounted>>

SetGauges(c) ==
    /\ call[c] # Nothing
    /\ \/ call[c].at = "nodes" /\ Sets(c, "nodes", "edges")
       \/ call[c].at = "edges" /\ Sets(c, "edges", Then(call[c].tool))
       \/ call[c].at = "nodes again" /\ Sets(c, "nodes", "edges again")
       \/ call[c].at = "edges again" /\ Sets(c, "edges", "answer")

Answer(c) ==
    /\ call[c] # Nothing /\ call[c].at = "answer"
    /\ Answered(c)
    /\ UNCHANGED <<rows, accessed, file, gauge, counted, begun, uncounted, lag>>

-----------------------------------------------------------------------------
\* A server starts without gauges, over the rows of an earlier one.
Init ==
    /\ \E store \in Stores :
          /\ nodes = store.nodes /\ edges = store.edges /\ said = store.said /\ file = store.file
          /\ windows = [s \in EverySession |-> IF \E n \in store.nodes : Session[n] = s THEN "active" ELSE "none"]
    /\ accessed = {} /\ gauge = [nodes |-> 0, edges |-> 0]
    /\ counted = [success |-> 0, failure |-> 0]
    /\ call = [c \in Calls |-> Nothing] /\ begun = 0 /\ uncounted = 0
    /\ lag = {k \in {"nodes", "edges"} : Size[k] # 0}

Next ==
    \E c \in Calls :
       \/ Begin(c) \/ Raises(c) \/ Count(c) \/ ReadSize(c) \/ SizeFails(c) \/ SetGauges(c) \/ Answer(c)
       \/ StoreNode(c) \/ StoreEdge(c) \/ CanonicalizeNode(c) \/ ChangeRow(c) \/ DeleteNode(c) \/ Clear(c)
       \/ Decompose(c) \/ Observe(c) \/ Search(c) \/ List(c) \/ BuildContext(c)
       \/ GetWindow(c) \/ CloseWindow(c) \/ Pictures(c)
       \/ WriteDocument(c) \/ CommitBackup(c) \/ CommitBundle(c) \/ CommitDocument(c) \/ Pull(c) \/ Documents(c) \/ Vault(c)

Spec == Init /\ [][Next]_vars

-----------------------------------------------------------------------------
TypeOK ==
    /\ nodes \subseteq NodeIds /\ edges \subseteq nodes \X nodes /\ said \subseteq Turns /\ accessed \subseteq nodes
    /\ windows \in [EverySession -> {"none", "active", "closed"}]
    /\ DOMAIN call = Calls /\ begun \in 0 .. MaxCalls /\ uncounted \in 0 .. begun /\ lag \subseteq {"nodes", "edges"}

\* Every call is counted as a success or a failure, once, but for those turned away by
\* the guards; what the server adds after a call counts nothing twice.
CountedOnce ==
    counted.success + counted.failure + uncounted
        + Cardinality({c \in Calls : call[c] # Nothing /\ call[c].at \notin Recording}) = begun

\* When no call runs, the gauges are the size of the graph but for the ones known to
\* lag: a node was deleted since, a call left half of its work or could not read the
\* size, or a call set a size that another had already changed.
GaugesFollow ==
    (\A c \in Calls : call[c] = Nothing) => \A k \in {"nodes", "edges"} \ lag : gauge[k] = Size[k]

\* An .abhi document that was not forced holds no secret but those said between the scan
\* for them and the export; backups hold all that was said, unscanned.
ExportsScanned ==
    file # Nothing /\ file.guarded => file.said \cap file.seen \cap Secrets = {}

\* What the annotations tell a client: a tool marked read-only changes no node, edge,
\* transcript, window or document - four of them count accesses - and rows go in tools marked destructive
\* only, whole scopes in confirmed calls only.
HintsHold ==
    \A c \in Calls : call[c] # Nothing =>
        /\ "changes" \in call[c].did => call[c].name \notin ReadOnly
        /\ "counts" \in call[c].did /\ call[c].name \in ReadOnly
              => call[c].name \in {"debug_retrieval", "get_related", "timeline", "build_context"}
        /\ "removes" \in call[c].did => call[c].name \in Destructive
        /\ "removes" \in call[c].did /\ call[c].at = "done" /\ Cleared(call[c].name) # {} => call[c].arg

ToolsSound == TypeOK /\ CountedOnce /\ GaugesFollow /\ ExportsScanned /\ HintsHold
=============================================================================
