--------------------------- MODULE SnapshotExchange ---------------------------
(***************************************************************************)
(* A store that exchanges snapshots: backup and restore, `pull' from the   *)
(* drive another device pushes to, and import of a file.  A pull is four   *)
(* steps of a process of its own - download, snapshot of the store, merge  *)
(* into a file, import of that file - and the server                       *)
(* goes on writing between any two of them.  Content is the time it was    *)
(* written, so that newer and older can be told apart.                     *)
(***************************************************************************)
EXTENDS AbhiDocuments

CONSTANTS NodeIds, EdgeIds, Window, MaxClock,
    OneMedium,         \* bound: a behaviour has a backup file or a drive, not both
    PullStrategies     \* the --merge-strategy values the user pulls with

ExchangeAssumption == PullStrategies \subseteq Strategies /\ OneMedium \in BOOLEAN

VARIABLES
    clock,    \* writes made so far, on any device
    nodes, edges, windows,   \* the store: rows by id; a window is its node_count
    drive,    \* the document another device pushed, Null before the first
    backup,   \* the backup file, Null before the first
    job,      \* the command under way and what it holds
    touched,  \* the nodes written here since the command's snapshot
    preferred \* history: a pull told to prefer the store's side gave a row the other's later stamp

vars == <<clock, nodes, edges, windows, drive, backup, job, touched, preferred>>

NoRecords == [i \in {} |-> Null]
Idle == [step |-> "idle", remote |-> Null, doc |-> Null, left |-> FALSE]
Everything == [scope |-> "all", project |-> Null, since |-> 0, strict |-> FALSE,
               deps |-> FALSE, low |-> FALSE]
Times == 0 .. MaxClock
Node == [content : Times, valid_to : Times \cup {Null}, vec : Times \cup {Null}, time : Times, window : {Window, Null}]
Edge == [source : NodeIds, target : NodeIds, weight : Times, time : Times, low : BOOLEAN]

TypeOK ==
    /\ clock \in Times /\ touched \subseteq NodeIds
    /\ DOMAIN nodes \subseteq NodeIds /\ \A n \in DOMAIN nodes : nodes[n] \in Node
    /\ DOMAIN edges \subseteq EdgeIds /\ \A e \in DOMAIN edges : edges[e] \in Edge
    /\ DOMAIN windows \subseteq {Window} /\ \A w \in DOMAIN windows : windows[w] \in [node_count : 0 .. Cardinality(NodeIds)]
    /\ job.step \in {"idle", "fetched", "merged"} /\ preferred \in BOOLEAN

Init ==
    /\ clock = 0 /\ nodes = NoRecords /\ edges = NoRecords /\ windows = NoRecords
    /\ drive = Null /\ backup = Null /\ job = Idle /\ touched = {} /\ preferred = FALSE

With(records, i, v) == [j \in DOMAIN records \cup {i} |-> IF j = i THEN v ELSE records[j]]
Without(records, ids) == Only(records, DOMAIN records \ ids)
CountOf(ns) == [node_count |-> Cardinality({n \in DOMAIN ns : ns[n].window = Window})]
Counted(ns) == IF Window \in DOMAIN windows THEN [windows EXCEPT ![Window] = CountOf(ns)] ELSE windows

Touch(n) == IF job.step = "merged" THEN touched \cup {n} ELSE {}

Tick == clock < MaxClock /\ clock' = clock + 1
Now == clock + 1

-----------------------------------------------------------------------------
(* The server's writes, each a section of its own. *)

AddNode(n) ==
    /\ Tick /\ n \notin DOMAIN nodes
    /\ nodes' = With(nodes, n, [content |-> Now, valid_to |-> Null, vec |-> Now, time |-> Now, window |-> Window])
    /\ windows' = With(windows, Window, CountOf(nodes'))
    /\ touched' = Touch(n)
    /\ UNCHANGED <<edges, drive, backup, job, preferred>>

\* New content, or an end to its validity.
UpdateNode(n) ==
    /\ Tick /\ n \in DOMAIN nodes
    /\ \E v \in {[nodes[n] EXCEPT !.content = Now, !.vec = Now, !.time = Now],
                 [nodes[n] EXCEPT !.valid_to = Now, !.time = Now]} :
          nodes' = [nodes EXCEPT ![n] = v]
    /\ touched' = Touch(n)
    /\ UNCHANGED <<edges, windows, drive, backup, job, preferred>>

\* A mutant: only the edges that start at it go.
EdgesAt_Source(n) == {e \in DOMAIN edges : edges[e].source = n}

EdgesAt(n) == {e \in DOMAIN edges : n \in Ends(edges[e])}

\* Its edges go with it.
DeleteNode(n) ==
    /\ n \in DOMAIN nodes
    /\ nodes' = Without(nodes, {n})
    /\ edges' = Without(edges, EdgesAt(n))
    /\ windows' = Counted(nodes') /\ touched' = Touch(n)
    /\ UNCHANGED <<clock, drive, backup, job, preferred>>

AddEdge(e, s, t) ==
    /\ e \notin DOMAIN edges /\ {s, t} \subseteq DOMAIN nodes
    /\ edges' = With(edges, e, [source |-> s, target |-> t, weight |-> clock, time |-> clock, low |-> FALSE])
    /\ UNCHANGED <<clock, nodes, windows, drive, backup, job, touched, preferred>>

-----------------------------------------------------------------------------
(* Snapshots of the store, and their import. *)

\* _build_backup_snapshot, one section; without vectors unless asked for them.
Snapshot(vectors) ==
    [nodes |-> IF vectors THEN nodes ELSE [n \in DOMAIN nodes |-> [nodes[n] EXCEPT !.vec = Null]],
     edges |-> edges, windows |-> windows]

\* _coerce_imported_embedding: a missing vector is made from the content.
Embedded(v) == IF v.vec = Null THEN [v EXCEPT !.vec = v.content] ELSE v

\* Rows are inserted, and those there already updated to the file's, every column, when
\* they are to be overwritten; windows are the file's in either case, node_count too.
Overwritten(old, new, overwrite) == {i \in DOMAIN new : overwrite \/ i \notin DOMAIN old}

NodesTaken(new, overwrite) ==
    [n \in DOMAIN nodes \cup DOMAIN new |->
        IF n \in Overwritten(nodes, new, overwrite) THEN Embedded(new[n]) ELSE nodes[n]]

EdgesTaken(new, overwrite) ==
    [e \in DOMAIN edges \cup DOMAIN new |-> IF e \in Overwritten(edges, new, overwrite) THEN new[e] ELSE edges[e]]

WindowsTaken(new) ==
    [w \in DOMAIN windows \cup DOMAIN new |-> IF w \in DOMAIN new THEN new[w] ELSE windows[w]]

\* import_abhi's and import_graph_backup's section.  A contradicts edge has no created_at
\* and raises.
ImportSection(doc, overwrite) ==
    LET file == Imported(doc, FALSE)
    IN IF file = Raised \/ doc.undated THEN UNCHANGED <<nodes, edges, windows>>
       ELSE /\ nodes' = NodesTaken(doc.nodes, overwrite)
            /\ edges' = EdgesTaken(file.edges, overwrite)
            /\ windows' = WindowsTaken(doc.windows)

\* export_graph_backup.
Backup ==
    /\ OneMedium => drive = Null
    /\ backup' = Snapshot(FALSE)
    /\ UNCHANGED <<clock, nodes, edges, windows, drive, job, touched, preferred>>

\* import_graph_backup overwrites.
Restore ==
    /\ job = Idle /\ backup # Null
    /\ ImportSection([nodes |-> backup.nodes, edges |-> backup.edges, windows |-> backup.windows,
                      undated |-> FALSE], TRUE)
    /\ UNCHANGED <<clock, drive, backup, job, touched, preferred>>

\* export_abhi and push, and another device's life up to its push: it takes what
\* it finds on the drive or here, and edits it.
Push ==
    /\ OneMedium => backup = Null
    /\ drive' = Build(Snapshot(TRUE), Everything)
    /\ UNCHANGED <<clock, nodes, edges, windows, backup, job, touched, preferred>>

RemoteWrite(n) ==
    /\ OneMedium => backup = Null
    /\ Tick
    /\ LET doc == IF drive = Null THEN [nodes |-> NoRecords, edges |-> NoRecords, windows |-> NoRecords] ELSE drive
           new == [content |-> Now, valid_to |-> Null, vec |-> Now, time |-> Now, window |-> Window]
       IN \E v \in IF n \in DOMAIN doc.nodes
                   THEN {[doc.nodes[n] EXCEPT !.content = Now, !.vec = Now, !.time = Now],
                         [doc.nodes[n] EXCEPT !.valid_to = Now, !.time = Now]}
                   ELSE {new} :
             drive' = [doc EXCEPT !.nodes = With(@, n, v), !.windows = With(@, Window, [node_count |-> Cardinality(DOMAIN doc.nodes \cup {n})])]
    /\ UNCHANGED <<nodes, edges, windows, backup, job, touched, preferred>>

-----------------------------------------------------------------------------
(* pull. *)

\* The file is downloaded.
PullFetch ==
    /\ job = Idle /\ drive # Null
    /\ job' = [Idle EXCEPT !.step = "fetched", !.remote = drive]
    /\ UNCHANGED <<clock, nodes, edges, windows, drive, backup, touched, preferred>>

\* A mutant: the sides are swapped.
Merged_Swapped(local, remote, strategy) ==
    LET none == [nodes |-> NoRecords, edges |-> NoRecords]
        doc == Merge(none, remote, local, strategy, [type |-> Null, field |-> NoRecords])
    IN [nodes |-> doc.nodes, edges |-> Confident(doc.edges, Everything), undated |-> doc.extra # {},
        windows |-> MergeRecords(NoRecords, remote.windows, local.windows, {}, NoRecords)]

\* The store is exported, without vectors, and merged with the remote document
\* against an empty base; the result is written to a file.
Merged(local, remote, strategy) ==
    LET none == [nodes |-> NoRecords, edges |-> NoRecords]
        by == [type |-> Null, field |-> NoRecords]
        doc == Merge(none, local, remote, strategy, by)
    IN [nodes |-> doc.nodes, edges |-> Confident(doc.edges, Everything), undated |-> doc.extra # {},
        windows |-> MergeRecords(NoRecords, local.windows, remote.windows, {}, NoRecords)]
PullMerge(strategy) ==
    /\ job.step = "fetched"
    /\ job' = [job EXCEPT !.step = "merged", !.remote = Null, !.left = (strategy = "prefer_left"),
                          !.doc = Merged(Build(Snapshot(FALSE), Everything), job.remote, strategy)]
    /\ touched' = {}
    /\ UNCHANGED <<clock, nodes, edges, windows, drive, backup, preferred>>

\* A row that looks no newer than the newest of its fields.
Earned(v) == v.time <= v.content \/ (v.valid_to # Null /\ v.time <= v.valid_to)

\* import_abhi of that file: skip-existing, unless the user asks to overwrite.
PullImport ==
    /\ job.step = "merged"
    /\ \E overwrite \in BOOLEAN : ImportSection(job.doc, overwrite)
    /\ preferred' = (preferred \/ (job.left /\ \E n \in DOMAIN job.doc.nodes : ~Earned(job.doc.nodes[n])))
    /\ job' = Idle
    /\ touched' = {}
    /\ UNCHANGED <<clock, drive, backup>>

\* The command dies between two of its steps.
Dies ==
    /\ job # Idle /\ job' = Idle /\ touched' = {}
    /\ UNCHANGED <<clock, nodes, edges, windows, drive, backup, preferred>>

ServerStep ==
    \/ \E n \in NodeIds : AddNode(n) \/ UpdateNode(n) \/ DeleteNode(n)
    \/ \E e \in EdgeIds, s, t \in NodeIds : AddEdge(e, s, t)
CommandStep ==
    \/ Backup \/ Restore \/ Push \/ PullFetch \/ PullImport \/ Dies
    \/ \E s \in PullStrategies : PullMerge(s)
Next == ServerStep \/ CommandStep \/ \E n \in NodeIds : RemoteWrite(n)
Spec == Init /\ [][Next]_vars

-----------------------------------------------------------------------------
\* However the server's deletions fall between the steps of a pull or a restore,
\* no import leaves an edge in the store without its ends.
StoreClosed == Dangling(nodes, edges) = {}

\* But for pulls told to prefer the store's side, which take its content and the other
\* device's stamp, no exchange makes a row look newer than the newest of its fields: what
\* a later pull compares never favours a row that has not earned it.
StampsEarned == ~preferred => \A n \in DOMAIN nodes : Earned(nodes[n])

\* What a pull with prefer_left is about to import undoes nothing here: of every row that
\* nobody wrote since the snapshot it has the content, and the end if there is one.
PreferredSideStands ==
    job.left => \A n \in DOMAIN nodes \ touched :
        /\ n \in DOMAIN job.doc.nodes /\ job.doc.nodes[n].content = nodes[n].content
        /\ nodes[n].valid_to # Null => job.doc.nodes[n].valid_to = nodes[n].valid_to

ExchangeSound == TypeOK /\ StoreClosed /\ StampsEarned /\ PreferredSideStands

\* The last edit of any of a row's fields.
Edited(v) == IF v.valid_to # Null /\ v.valid_to > v.content THEN v.valid_to ELSE v.content

\* docs/abhi-format.md: for conflicting node payloads, the object with the newer
\* timestamp wins.  A pull never puts an older content over a newer one, unless its
\* object was edited later or the row was written while the pull was under way.
NewerContentWins ==
    [][job.step = "merged" =>
          \A n \in DOMAIN nodes \cap DOMAIN nodes' :
              nodes'[n].content < nodes[n].content => n \in touched \/ Edited(nodes'[n]) > Edited(nodes[n])]_vars
=============================================================================
