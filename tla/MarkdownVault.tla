----------------------------- MODULE MarkdownVault -----------------------------
(***************************************************************************)
(* The Markdown vault of the graph: an export that reads the graph in one  *)
(* section and writes a file per node one after the other, the files'      *)
(* owner who edits, strikes out and deletes, the graph that changes        *)
(* meanwhile, and an import that reads the files and applies them in one   *)
(* transaction: documents first, in the order of their paths, then         *)
(* their relations, which may name a target by label only.                 *)
(* Labels are numbers, in the order of their slugs.                        *)
(***************************************************************************)
EXTENDS Naturals, Sequences, FiniteSets, SequencesExt

CONSTANTS
    Nodes, Stubs,      \* ids of the nodes there may be and of the stubs imports insert
    Order,             \* their order as rows
    MaxLabel,          \* labels are 1 .. MaxLabel
    Texts, StubText,
    Shown,             \* evidence lines a document shows at most
    Absent,
    MaxEdits           \* bound on edits of the graph and of the files

VaultAssumption == MaxLabel \in Nat /\ Shown \in Nat \ {0} /\ Order \in Seq(Nodes \cup Stubs)

VARIABLES
    nodes,     \* label, text and number of evidence records per id, or Absent
    edges,     \* pairs of ids, of one relationship
    vault,     \* the files: where they lie and what they say
    writing,   \* the documents an export has still to write
    edits

vars == <<nodes, edges, vault, writing, edits>>

Ids    == Nodes \cup Stubs
Labels == 1 .. MaxLabel

Present(ns) == {n \in Ids : ns[n] # Absent}
Same(ns, ms) == \A n \in Ids : IF ns[n] = Absent \/ ms[n] = Absent THEN ns[n] = ms[n]
                               ELSE ns[n].label = ms[n].label /\ ns[n].text = ms[n].text

\* A document's relations, in the order of their lines.
Relation(label, id) == [label |-> label, id |-> id, struck |-> FALSE]

\* render_node_document: a line says so where there is no evidence.
Document(ns, es, n) ==
    [id |-> n, name |-> ns[n].label, label |-> ns[n].label, text |-> ns[n].text,
     lines |-> IF ns[n].evidence = 0 THEN 1 ELSE IF ns[n].evidence > Shown THEN Shown ELSE ns[n].evidence,
     relations |-> LET Targets == SelectSeq(Order, LAMBDA m : <<n, m>> \in es)
                   IN [i \in DOMAIN Targets |-> Relation(ns[Targets[i]].label, Targets[i])]]

Documents(ns, es) == {Document(ns, es, n) : n \in Present(ns)}

\* vault_filename: a file is its label's when it was written and its node's.
SameFile(d, e) == d.name = e.name /\ d.id = e.id
Position(n) == CHOOSE i \in DOMAIN Order : Order[i] = n
ByPath(docs) ==
    SortSeq(SetToSeq(docs), LAMBDA d, e : d.name < e.name \/ (d.name = e.name /\ Position(d.id) < Position(e.id)))

-----------------------------------------------------------------------------
LastOf(docs, Test(_)) ==
    LET Its == SelectSeq(docs, Test) IN IF Its = <<>> THEN Absent ELSE Its[Len(Its)]

\* _upsert_vault_document, for each document in turn: the last one of a node stands.
Upserted(ns, docs) ==
    [n \in Ids |->
        LET d == LastOf(docs, LAMBDA e : e.id = n)
        IN IF d = Absent THEN ns[n] ELSE [label |-> d.label, text |-> d.text, evidence |-> d.lines]]

\* label_index: the last document with the label, or the first row that had it before.
Index(ns, docs) ==
    [l \in Labels |->
        LET d    == LastOf(docs, LAMBDA e : e.label = l)
            Rows == SelectSeq(Order, LAMBDA n : ns[n] # Absent /\ ns[n].label = l)
        IN IF d # Absent THEN d.id ELSE IF Rows = <<>> THEN Absent ELSE Rows[1]]

\* Mutant: a relation's target is looked up by its label where there is one.
Target_Label(acc, r) ==
    IF acc.index[r.label] # Absent THEN acc.index[r.label]
    ELSE IF r.id # Absent /\ acc.nodes[r.id] # Absent THEN r.id ELSE Absent

\* By id where the id is known, otherwise by label.
Target(acc, r) ==
    IF r.id # Absent /\ acc.nodes[r.id] # Absent THEN r.id ELSE acc.index[r.label]

\* A target nobody knows becomes a stub, even that of a relation that is struck out.
WithTarget(acc, r) ==
    IF Target(acc, r) # Absent THEN acc
    ELSE LET s == CHOOSE n \in Stubs : acc.nodes[n] = Absent
         IN [acc EXCEPT !.nodes[s] = [label |-> r.label, text |-> StubText, evidence |-> 0], !.index[r.label] = s]

Related(acc, sr) ==
    LET after == WithTarget(acc, sr[2])
        edge  == <<sr[1], Target(after, sr[2])>>
    IN [after EXCEPT !.edges = IF sr[2].struck THEN @ \ {edge} ELSE @ \cup {edge}]

\* import_markdown_vault's transaction on a graph.
Imported(ns, es, docs) ==
    FoldLeft(Related,
             [nodes |-> Upserted(ns, docs), edges |-> es, index |-> Index(ns, docs)],
             FlattenSeq([i \in DOMAIN docs |->
                [j \in DOMAIN docs[i].relations |-> <<docs[i].id, docs[i].relations[j]>>]]))

-----------------------------------------------------------------------------
Export ==
    /\ writing' = Documents(nodes, edges)
    /\ UNCHANGED <<nodes, edges, vault, edits>>

\* A file of the same name is replaced; no other one is removed.
WriteFile ==
    /\ \E d \in writing :
          /\ vault' = {e \in vault : ~SameFile(d, e)} \cup {d}
          /\ writing' = writing \ {d}
    /\ UNCHANGED <<nodes, edges, edits>>

\* The files are read before the transaction; what happens to them in between
\* may as well happen after it, since it does not read them again.
Import ==
    /\ vault # {}
    /\ LET r == Imported(nodes, edges, ByPath(vault)) IN nodes' = r.nodes /\ edges' = r.edges
    /\ UNCHANGED <<vault, writing, edits>>

Edits == edits < MaxEdits /\ edits' = edits + 1

\* The owner of the files: heading, content, relations, or the file itself.
EditFile ==
    /\ Edits
    /\ \E d \in vault :
          \/ vault' = vault \ {d}
          \/ \E e \in {[d EXCEPT !.label = l] : l \in Labels \ {d.label}}
                        \cup {[d EXCEPT !.text = t] : t \in (Texts \cup {StubText}) \ {d.text}}
                        \cup {[d EXCEPT !.relations = Append(@, Relation(l, Absent))] : l \in Labels}
                        \cup {[d EXCEPT !.relations[i].struck = TRUE] : i \in DOMAIN d.relations}
                        \cup {[d EXCEPT !.relations = RemoveAt(@, i)] : i \in DOMAIN d.relations} :
                vault' = (vault \ {d}) \cup {e}
    /\ UNCHANGED <<nodes, edges, writing>>

\* Meanwhile nodes are relabelled or rewritten, deleted with their edges, and related.
EditGraph ==
    /\ Edits
    /\ \E n \in Present(nodes) :
          \/ \E l \in Labels, t \in Texts : nodes' = [nodes EXCEPT ![n].label = l, ![n].text = t] /\ UNCHANGED edges
          \/ nodes' = [nodes EXCEPT ![n] = Absent] /\ edges' = {e \in edges : n \notin {e[1], e[2]}}
          \/ \E m \in Present(nodes) \ {n} : edges' = edges \cup {<<n, m>>} /\ UNCHANGED nodes
    /\ UNCHANGED <<vault, writing>>

Init ==
    /\ \E f \in [Nodes -> Labels] :
          nodes = [n \in Ids |-> IF n \in Nodes THEN [label |-> f[n], text |-> StubText, evidence |-> 0] ELSE Absent]
    /\ edges = {} /\ vault = {} /\ writing = {} /\ edits = 0

Next == Export \/ WriteFile \/ Import \/ EditFile \/ EditGraph

Spec == Init /\ [][Next]_vars

-----------------------------------------------------------------------------
TypeOK == edges \subseteq Ids \X Ids /\ edits \in 0 .. MaxEdits

\* No edge to or from a node that is gone, whatever stale files an import brings in.
EdgesAreBetweenNodes == \A e \in edges : {e[1], e[2]} \subseteq Present(nodes)

\* An export that nobody edited leaves labels, texts and edges as they are when it is
\* imported, also where nodes share a label.
RoundTrips ==
    LET r == Imported(nodes, edges, ByPath(Documents(nodes, edges))) IN Same(nodes, r.nodes) /\ r.edges = edges

\* Importing the same files again and again settles: the first import may still resolve
\* a label by the row that it renames, after the second nothing changes.
ImportsSettle ==
    LET docs == ByPath(vault)
        once == Imported(nodes, edges, docs)
        twice == Imported(once.nodes, once.edges, docs)
        again == Imported(twice.nodes, twice.edges, docs)
    IN Same(twice.nodes, again.nodes) /\ twice.edges = again.edges

VaultSound == TypeOK /\ EdgesAreBetweenNodes /\ RoundTrips /\ ImportsSettle

\* What one would expect of an import: that a second one of the same files changes nothing.
SecondImportIsIdle ==
    LET docs == ByPath(vault)
        once == Imported(nodes, edges, docs)
        twice == Imported(once.nodes, once.edges, docs)
    IN Same(once.nodes, twice.nodes)
=============================================================================
