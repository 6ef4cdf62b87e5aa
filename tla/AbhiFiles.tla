------------------------------- MODULE AbhiFiles -------------------------------
(***************************************************************************)
(* The life of an .abhi file: a snapshot is exported under a scope, or     *)
(* three documents are merged; the result is written, signed or not; the   *)
(* file is loaded and validated, and imported or read by chunk.  The       *)
(* inputs are all small documents a store can hold, so that every property *)
(* compares two of the functions of AbhiDocuments on all of them.          *)
(***************************************************************************)
EXTENDS AbhiDocuments

CONSTANTS NodeIds, EdgeIds, Projects, Window,
    Keys,           \* passphrases
    MergedId,       \* the node whose fields the node merges vary
    MaxTime         \* bound: times, contents and weights

VARIABLES
    phase,   \* "merge", "export": the input; then "document", "file", "closed"
    input,   \* the three documents and strategy, or the snapshot and flags
    result   \* the document, then the file, then what was read of it

vars == <<phase, input, result>>

NoItems == [i \in {} |-> Null]
Times == 1 .. MaxTime
PlainNode == [content |-> 1, valid_to |-> Null, vec |-> 1, time |-> 1, project |-> Null, window |-> Null]
PlainEdge == [weight |-> 1, time |-> 1, low |-> FALSE]
Optional(ids, S) == UNION {[d -> S] : d \in SUBSET ids}
Closed(doc) == Dangling(doc.nodes, doc.edges) = {}

\* Documents that differ in the fields of one node.
NodeDocs ==
    {[nodes |-> ns, edges |-> NoItems, windows |-> NoItems] : ns \in
        Optional({MergedId}, {[PlainNode EXCEPT !.content = c, !.vec = c, !.valid_to = v, !.time = t] :
                                c \in Times, v \in {Null, 1}, t \in Times})}
\* Documents that differ in their nodes and in one edge; a store's edges have ends.
EdgeDocs ==
    {d \in [nodes : Optional(NodeIds, {PlainNode}), windows : {NoItems},
            edges : Optional(EdgeIds, {[source |-> s, target |-> t, weight |-> w, time |-> w, low |-> FALSE] :
                                         s, t \in NodeIds, w \in Times})] : Closed(d)}
Snapshots ==
    {d \in [nodes : Optional(NodeIds, {[PlainNode EXCEPT !.project = p, !.window = w, !.time = t] :
                                         p \in Projects, w \in {Null, Window}, t \in Times}),
            windows : {[w \in {Window} |-> Null]},
            edges : Optional(EdgeIds, {[source |-> s, target |-> t, weight |-> 1, time |-> 1, low |-> l] :
                                         s, t \in NodeIds, l \in BOOLEAN})] : Closed(d)}
AllFlags == [scope : {"all", "project", "since-date"}, project : Projects, since : {MaxTime},
             strict : BOOLEAN, deps : BOOLEAN, low : BOOLEAN]
\* No override, every node's type overridden, one field overridden over that.
Configs ==
    {[type |-> Null, field |-> NoItems],
     [type |-> "prefer_left", field |-> [f \in {"content"} |-> "prefer_right"]]}

MergeInputs == {[base |-> b, left |-> l, right |-> r, strategy |-> s, config |-> c] :
                  b \in NodeDocs, l \in NodeDocs, r \in NodeDocs, s \in Strategies, c \in Configs}
          \cup {[base |-> b, left |-> l, right |-> r, strategy |-> s, config |-> [type |-> Null, field |-> NoItems]] :
                  b \in EdgeDocs, l \in EdgeDocs, r \in EdgeDocs, s \in {"contradict", "last_write_wins"}}

Init ==
    \/ phase = "merge" /\ input \in MergeInputs /\ result = Null
    \/ phase = "export" /\ input \in [snap : Snapshots, flags : AllFlags] /\ result = Null

MergeInput == phase = "merge" /\ phase' = "document" /\ UNCHANGED input
    /\ result' = Merge(input.base, input.left, input.right, input.strategy, input.config)

Export == phase = "export" /\ UNCHANGED input
    /\ result' = Build(input.snap, input.flags)
    /\ phase' = IF result' = Raised THEN "closed" ELSE "document"

\* The file of an export; that of a merge takes the same path.
WriteFile == phase = "document" /\ "snap" \in DOMAIN input /\ phase' = "file" /\ UNCHANGED input
    /\ \E sign \in BOOLEAN, key \in Keys \cup {Null} : result' = Write(result, sign, key)

\* A file that cannot be read or is invalid is refused; a valid one is imported.
ReadFile == phase = "file" /\ phase' = "closed" /\ UNCHANGED input
    /\ \E key \in Keys \cup {Null} :
          result' = IF Load(result, key) = Raised \/ ~Valid(result) THEN Raised ELSE Imported(result.doc, FALSE)

Next == MergeInput \/ Export \/ WriteFile \/ ReadFile
Spec == Init /\ [][Next]_vars

-----------------------------------------------------------------------------
MergeDone == phase = "document" /\ "base" \in DOMAIN input
ExportDone == phase # "export" /\ "snap" \in DOMAIN input

\* What the diff announces of three documents is what their merge decides: its
\* conflicts are the merge's conflicts between different values of shared records.
DiffPredictsMerge ==
    \A part \in {<<"nodes", NodeFields>>, <<"edges", EdgeFields>>} :
        LET base == input.base[part[1]]  left == input.left[part[1]]  right == input.right[part[1]]
        IN DiffConflicts(base, left, right, part[2])
             = {c \in MergeConflicts(base, left, right, part[2]) :
                  c[1] \in DOMAIN base /\ left[c[1]][c[2]] # right[c[1]][c[2]]}

\* A field only one side changed has that side's value in the merged record,
\* whatever the strategy and whatever else the other side did to the record.
OneSidedEditsSurvive ==
    \A part \in {<<"nodes", NodeFields>>, <<"edges", EdgeFields>>} :
        LET base == input.base[part[1]]  left == input.left[part[1]]  right == input.right[part[1]]
        IN \A i \in DOMAIN base \cap DOMAIN left \cap DOMAIN right : \A f \in part[2] :
               /\ (left[i][f] = base[i][f] => result[part[1]][i][f] = right[i][f])
               /\ (right[i][f] = base[i][f] => result[part[1]][i][f] = left[i][f])

\* Preferring the left side is preferring the right one with the sides exchanged.
MirrorImage ==
    input.strategy = "prefer_left" /\ input.config.type = Null =>
        LET other == Merge(input.base, input.right, input.left, "prefer_right", input.config)
        IN \A i \in DOMAIN result.nodes : \A f \in NodeFields : result.nodes[i][f] = other.nodes[i][f]

\* To either side the diff reports nothing of the merged document as removed.
NothingDropped ==
    \A side \in {input.left, input.right} :
        /\ Diff(side.nodes, result.nodes, NodeFields).removed = {}
        /\ Diff(side.edges, result.edges, EdgeFields).removed = {}

\* The merge of closed documents is closed, its contradicts edges included.
MergeClosed ==
    Closed(result) /\ \A e \in result.extra : Ends(e) \subseteq DOMAIN result.nodes

MergeSound == MergeDone => DiffPredictsMerge /\ OneSidedEditsSurvive /\ MirrorImage /\ NothingDropped /\ MergeClosed

\* Under every scope and flag, an export that was not refused has both ends of each
\* of its edges and the window of each of its nodes, and nothing of another project
\* but what an edge needed; written without a signature, the file gives it back
\* to whoever has the passphrase, and to nobody else.
ExportSound ==
    ExportDone =>
        /\ phase = "document" => /\ Closed(result)
                                 /\ \A n \in DOMAIN result.nodes : result.nodes[n].window \in DOMAIN result.windows \cup {Null}
                                 /\ input.flags.scope = "project" /\ ~input.flags.deps =>
                                      \A n \in DOMAIN result.nodes : result.nodes[n].project = input.flags.project
        /\ phase = "file" /\ result.signature = Null =>
              /\ Valid(result) /\ Load(result, result.key) = result.doc
              /\ Imported(result.doc, FALSE) = [nodes |-> result.doc.nodes, edges |-> result.doc.edges]
              /\ \A key \in (Keys \cup {Null}) \ {result.key} : result.key # Null => Load(result, key) = Raised

\* The chunks a query names are enough to load all it found.
QueryChunksCover ==
    phase = "document" /\ ExportDone =>
        \A matches \in SUBSET DOMAIN result.nodes :
            \A order \in {o \in [1 .. Cardinality(DOMAIN result.nodes) -> DOMAIN result.nodes] :
                            \A p, q \in DOMAIN o : o[p] = o[q] => p = q} :
                LET found == Query(order, result.edges, matches)
                    loaded == Chunks(order, result.edges, found.chunks)
                IN found.nodes \subseteq loaded.nodes /\ found.edges \subseteq loaded.edges

FilesSound == ExportSound /\ QueryChunksCover

\* docs/abhi-format-v2.md: signatures remain valid.  A file that was signed when it
\* was written is valid when it is read.
SignedFilesVerify == phase = "file" /\ result.signature # Null => Valid(result)
=============================================================================
