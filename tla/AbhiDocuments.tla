----------------------------- MODULE AbhiDocuments -----------------------------
(***************************************************************************)
(* Portable .abhi documents: the export of a snapshot under a scope, the   *)
(* archive that is written, hashed and signed, its loading and validation, *)
(* chunked loading, the field-level diff and the three-way merge.  All of  *)
(* it is computation on immutable documents; what is hard is that the diff *)
(* and the merge decide the same question in two places, and that the      *)
(* graph in a document must stay closed through filtering and merging.     *)
(***************************************************************************)
EXTENDS Naturals, Sequences, FiniteSets

CONSTANTS
    Null,          \* JSON null, the value of a missing field
    Absent,        \* no record under this id
    Raised,        \* the call raised
    ChunkLimit     \* ABHI_CHUNK_NODE_LIMIT

ChunkAssumption == ChunkLimit \in Nat \ {0}

\* A document: records by id.  A node has DIFFED_FIELDS (content and valid_to
\* stand for them) and others, among them vec, the content its vector is of;
\* an edge has EDGE_DIFFED_FIELDS.  Both have the timestamp the merge compares.
NodeFields == {"content", "valid_to"}
EdgeFields == {"source", "target", "weight"}
Strategies == {"contradict", "last_write_wins", "prefer_left", "prefer_right"}

At(records, i) == IF i \in DOMAIN records THEN records[i] ELSE Absent
Value(item, f) == IF item = Absent THEN Null ELSE item[f]

-----------------------------------------------------------------------------
(* The diff. *)

\* _classify_node_identity and _classify_edge_identity.
Modified(a, b, fields) == \E f \in fields : a[f] # b[f]

\* _compute_node_delta, _compute_edge_delta: what a report lists for one id.
Delta(a, b, fields) == {f \in fields : Value(a, f) # Value(b, f)}

\* diff_abhi_documents, two documents: ids by classification.
Diff(a, b, fields) ==
    [added    |-> DOMAIN b \ DOMAIN a,
     removed  |-> DOMAIN a \ DOMAIN b,
     modified |-> {i \in DOMAIN a \cap DOMAIN b : Modified(a[i], b[i], fields)},
     deltas   |-> [i \in DOMAIN a \cup DOMAIN b |-> Delta(At(a, i), At(b, i), fields)]]

\* Three documents: the fields both sides changed, and to different values.
DiffConflicts(base, a, b, fields) ==
    {<<i, f>> \in (DOMAIN base \cap DOMAIN a \cap DOMAIN b) \X fields :
        /\ a[i][f] # base[i][f] /\ b[i][f] # base[i][f]
        /\ a[i][f] # b[i][f]}

-----------------------------------------------------------------------------
(* The merge. *)

\* The strategy for a field: a type override, then over it a field override.
Effective(config, strategy, kind, f) ==
    IF f \in DOMAIN config.field THEN config.field[f]
    ELSE IF kind = "node" /\ config.type # Null THEN config.type ELSE strategy

Resolved(s, f, left, right) ==
    IF s = "prefer_left" \/ (s = "last_write_wins" /\ left.time > right.time)
    THEN left[f] ELSE right[f]

BothChanged_Either(base, left, right, fields) ==
    {f \in fields : left[f] # Value(base, f) \/ right[f] # Value(base, f)}

\* Both sides changed a field: equal or not, this is recorded as a conflict.
BothChanged(base, left, right, fields) ==
    {f \in fields : left[f] # Value(base, f) /\ right[f] # Value(base, f)}

\* _apply_merge_strategy: a copy of the right item, field by field.
ApplyStrategy(base, left, right, fields, by) ==
    [f \in DOMAIN right |->
        IF f \notin fields \/ left[f] = Value(base, f) THEN right[f]
        ELSE IF right[f] = Value(base, f) THEN left[f]
        ELSE Resolved(by[f], f, left, right)]

\* Both sides changed the record as a whole, timestamps and vectors included.
Contested(base, left, right) ==
    left # Absent /\ right # Absent /\ left # right /\ left # base /\ right # base

\* _merge_records for one id.  A record one side lacks is the other side's:
\* nothing tells a deletion from an addition.
MergeItem(base, left, right, fields, by) ==
    IF left = Absent THEN right
    ELSE IF right = Absent \/ left = right THEN left
    ELSE IF Contested(base, left, right) THEN ApplyStrategy(base, left, right, fields, by)
    ELSE IF left # base THEN left ELSE right

MergeRecords(base, left, right, fields, by) ==
    [i \in DOMAIN left \cup DOMAIN right |->
        MergeItem(At(base, i), At(left, i), At(right, i), fields, by)]

\* The conflict records: id, field and both values.
MergeConflicts(base, left, right, fields) ==
    UNION {{<<i, f>> : f \in BothChanged(At(base, i), left[i], right[i], fields)} :
        i \in {j \in DOMAIN left \cap DOMAIN right :
                  Contested(At(base, j), left[j], right[j])}}

\* The contradicts edges: a self-loop for a node, between the left ends for an edge.
ContradictEdges(base, left, right, nodeBy, edgeBy) ==
    {[source |-> c[1], target |-> c[1], about |-> c] : c \in
        {d \in MergeConflicts(base.nodes, left.nodes, right.nodes, NodeFields) :
            nodeBy[d[2]] = "contradict"}}
    \cup
    {[source |-> left.edges[c[1]].source, target |-> left.edges[c[1]].target, about |-> c] : c \in
        {d \in MergeConflicts(base.edges, left.edges, right.edges, EdgeFields) :
            edgeBy[d[2]] = "contradict"}}

\* merge_abhi_documents: nodes and edges; the contradicts edges get fresh ids.
Merge(base, left, right, strategy, config) ==
    LET nodeBy == [f \in NodeFields |-> Effective(config, strategy, "node", f)]
        edgeBy == [f \in EdgeFields |-> Effective(config, strategy, "edge", f)]
    IN [nodes |-> MergeRecords(base.nodes, left.nodes, right.nodes, NodeFields, nodeBy),
        edges |-> MergeRecords(base.edges, left.edges, right.edges, EdgeFields, edgeBy),
        extra |-> ContradictEdges(base, left, right, nodeBy, edgeBy),
        conflicts |-> MergeConflicts(base.nodes, left.nodes, right.nodes, NodeFields)
                      \cup MergeConflicts(base.edges, left.edges, right.edges, EdgeFields)]

-----------------------------------------------------------------------------
(* The export. *)

Ends(e) == {e.source, e.target}
\* _find_dangling_edges.
Dangling(nodes, edges) == {i \in DOMAIN edges : ~(Ends(edges[i]) \subseteq DOMAIN nodes)}
Only(records, ids) == [i \in ids \cap DOMAIN records |-> records[i]]

\* _scope_filter and filter_snapshot_by_scope: the selected nodes, the edges
\* between them (or touching them, when dependencies are wanted or refused),
\* and with a project or session the windows of those nodes.
Scoped(snap, flags) ==
    LET picked == {n \in DOMAIN snap.nodes :
                      CASE flags.scope = "all" -> TRUE
                        [] flags.scope = "project" -> snap.nodes[n].project = flags.project
                        [] flags.scope = "since-date" -> snap.nodes[n].time >= flags.since}
        touching == {e \in DOMAIN snap.edges : Ends(snap.edges[e]) \cap picked # {}}
        within   == {e \in DOMAIN snap.edges : Ends(snap.edges[e]) \subseteq picked}
    IN [nodes |-> Only(snap.nodes, picked),
        edges |-> IF flags.scope = "all" THEN snap.edges
                  ELSE Only(snap.edges, IF flags.strict \/ flags.deps THEN touching ELSE within),
        windows |-> IF flags.scope = "project"
                    THEN Only(snap.windows, {snap.nodes[n].window : n \in picked}) ELSE snap.windows]

\* relates_to edges of low confidence stay behind unless asked for.
Confident(edges, flags) ==
    Only(edges, {e \in DOMAIN edges : flags.low \/ ~edges[e].low})

WithDeps_WindowsBefore(doc, snap) ==
    [doc EXCEPT !.nodes = Only(snap.nodes, DOMAIN doc.nodes \cup
                                  UNION {Ends(doc.edges[e]) : e \in Dangling(doc.nodes, doc.edges)})]

\* include_deps: the missing ends, as far as the snapshot has them, and the
\* windows of all nodes there are then.
WithDeps(doc, snap) ==
    LET missing == {n \in DOMAIN snap.nodes \ DOMAIN doc.nodes :
                      \E e \in Dangling(doc.nodes, doc.edges) : n \in Ends(doc.edges[e])}
        all == DOMAIN doc.nodes \cup missing
    IN IF missing = {} THEN doc
       ELSE [doc EXCEPT !.nodes = Only(snap.nodes, all),
                        !.windows = Only(snap.windows, {snap.nodes[n].window : n \in all})]

\* build_abhi_document.
Build(snap, flags) ==
    LET scoped == Scoped(snap, flags)
        kept   == [scoped EXCEPT !.edges = Confident(scoped.edges, flags)]
        full   == IF flags.deps THEN WithDeps(kept, snap) ELSE kept
    IN IF flags.strict /\ Dangling(full.nodes, full.edges) # {} THEN Raised ELSE full

-----------------------------------------------------------------------------
(* The archive. *)

\* compute_abhi_hash: everything but the hash itself and the signature state.
\* members is the manifest's table of the files in the archive.
HashOf(doc, members) == <<"sha256", doc, members>>

\* write_abhi_document: the document's hash is computed when it is built, the
\* members are entered as they are written, the signature is made over the hash
\* that stands in the manifest then, and the hash is computed again.  With a
\* passphrase every member is encrypted; the hash is of what is in them.
Write(doc, sign, key) ==
    LET built == HashOf(doc, {})
        members == {"transcripts", "nodes", "edges", "context_windows"}
    IN [doc |-> doc, key |-> key, members |-> members, hash |-> HashOf(doc, members),
        signature |-> IF sign THEN built ELSE Null]

\* _read_member, for each member: without its passphrase nothing is read.
Load(file, key) == IF file.key \in {Null, key} THEN file.doc ELSE Raised

\* validate_abhi_document: the hash matches; a signature, if any, verifies.
HashMatches(file) == file.hash = HashOf(file.doc, file.members)
SignatureVerifies(file) == file.signature = file.hash
Valid(file) == HashMatches(file) /\ (file.signature # Null => SignatureVerifies(file))

\* abhi_to_snapshot: dangling edges are refused, or dropped.
Imported(doc, allow) ==
    LET dangling == Dangling(doc.nodes, doc.edges) IN
    IF dangling # {} /\ ~allow THEN Raised
    ELSE [nodes |-> doc.nodes, edges |-> Only(doc.edges, DOMAIN doc.edges \ dangling)]

\* load_abhi_chunks: nodes by position, and the edges inside what was loaded.
ChunkOf(pos) == (pos - 1) \div ChunkLimit
Chunks(order, edges, wanted) ==
    LET ns == {order[p] : p \in {q \in DOMAIN order : ChunkOf(q) \in wanted}}
    IN [nodes |-> ns, edges |-> {e \in DOMAIN edges : Ends(edges[e]) \subseteq ns}]

\* execute_abhi_query: the matching nodes, their edges, the chunks that hold them.
Query(order, edges, matches) ==
    [nodes |-> {order[p] : p \in DOMAIN order} \cap matches,
     edges |-> {e \in DOMAIN edges : Ends(edges[e]) \subseteq matches},
     chunks |-> {ChunkOf(p) : p \in {q \in DOMAIN order : order[q] \in matches}}]
=============================================================================
