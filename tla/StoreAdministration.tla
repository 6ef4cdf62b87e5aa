------------------------- MODULE StoreAdministration -------------------------
(***************************************************************************)
(* The administration of a store: the saved UI state, the retention policy *)
(* and the prune that enforces it, in the SQLite graph and in the Neo4j    *)
(* one.  Both read a row in one section of the lock and write the merged   *)
(* row in another.  SQLite prunes in one transaction; Neo4j commits every  *)
(* statement it runs; neither can take back a file it unlinked.            *)
(***************************************************************************)
EXTENDS Naturals, FiniteSets, Sequences, SequencesExt

CONSTANTS
    Savers,     \* the threads that save a part of a row
    Files,      \* the files of export_dir
    MaxRuns,    \* bound on the runs recorded and the rows deleted
    Places,     \* the rows saved in parts: of "ui" and "policy"
    MaxSaves    \* bound on the saves of a run

AdminAssumption == IsFiniteSet(Files) /\ "policy" \in Places /\ MaxRuns \in Nat /\ MaxSaves \in Nat

VARIABLES
    backend,    \* "sqlite" or "neo4j", for the life of a store
    rowOf,      \* rowOf[place][f]: the stored fields of the two rows
    save,       \* the calls of save_ui_state and update_retention_policy
    kept,       \* history: fields set while no other save of the row was under way
    aged,       \* rows past the cutoff, by table
    files,      \* old files in export_dir
    prune,      \* the prune under way: its step, its transaction, its counters
    runs,       \* retention_prune_runs
    claimed,    \* history: the sums of the counters in runs, by status
    deleted,    \* history: rows past the cutoff that prunes deleted, by table, and files
    along       \* history: newer edges that went with a node that was deleted

saving == <<rowOf, save, kept>>
records == <<runs, claimed>>
gone == <<deleted, along>>
pruning == <<aged, files, prune, records, gone>>
adminVars == <<backend, saving, pruning>>

Fields == {"enabled", "days"}
Values == {0, 1}
Unset == 2
Tables == <<"edges", "nodes">>
Kinds == Range(Tables) \union {"files"}
Statuses == {"skipped", "completed", "failed"}

NoSave == [place |-> "policy", read |-> FALSE, row |-> [f \in Fields |-> 0],
           sets |-> [f \in Fields |-> Unset]]
NoPrune == [step |-> 0, rows |-> {}, newer |-> 0, count |-> [k \in Kinds |-> 0], unlinked |-> 0]

AdminInit ==
    /\ rowOf = [p \in Places |-> [f \in Fields |-> 0]]
    /\ save = [calls |-> [t \in Savers |-> NoSave], times |-> 0]
    /\ kept = [p \in Places |-> [f \in Fields |-> Unset]]
    /\ aged = Range(Tables)
    /\ files = Files
    /\ prune = NoPrune
    /\ backend \in {"sqlite", "neo4j"}
    /\ runs = <<>>
    /\ claimed = [s \in Statuses |-> [k \in Kinds |-> 0]]
    /\ deleted = [k \in Kinds |-> 0] /\ along = 0

Idle(t) == ~save.calls[t].read
Pruning == prune.step # 0

(***************************************************************************)
(* save_ui_state and update_retention_policy: the first section reads the  *)
(* row, the second writes all its fields, the ones not given as read.      *)
(***************************************************************************)
\* A mutant: the row as the process remembers it rather than as it is stored.
Reads_Default(p) == [f \in Fields |-> 0]

Reads(p) == rowOf[p]

ReadRow(t, p, given) ==
    /\ Idle(t) /\ save.times < MaxSaves /\ ~Pruning
    /\ \E f \in Fields : given[f] # Unset
    /\ save' = [calls |-> [save.calls EXCEPT ![t] =
                             [place |-> p, read |-> TRUE, row |-> Reads(p), sets |-> given]],
                 times |-> save.times + 1]
    /\ UNCHANGED <<rowOf, kept, pruning>>

Overlaps(t, p) == \E u \in Savers \ {t} : save.calls[u].read /\ save.calls[u].place = p

Merged(c) == [f \in Fields |-> IF c.sets[f] # Unset THEN c.sets[f] ELSE c.row[f]]

WriteRow(t) ==
    LET c == save.calls[t]
        p == c.place
    IN
    /\ c.read /\ ~Pruning
    /\ rowOf' = [rowOf EXCEPT ![p] = Merged(c)]
    /\ kept' = [kept EXCEPT ![p] = [f \in Fields |->
                  IF Overlaps(t, p) THEN Unset
                  ELSE IF c.sets[f] # Unset THEN c.sets[f] ELSE kept[p][f]]]
    /\ save' = [save EXCEPT !.calls[t] = NoSave]
    /\ UNCHANGED pruning

(***************************************************************************)
(* prune_retention: the policy is read in a section of its own; then one   *)
(* table after the other, the export files, and the record of the run.     *)
(***************************************************************************)
Record(status, count) ==
    /\ runs' = Append(runs, [status |-> status, count |-> count])
    /\ claimed' = [claimed EXCEPT ![status] = [k \in Kinds |-> @[k] + count[k]]]

PruneStart ==
    /\ ~Pruning /\ Len(runs) < MaxRuns
    /\ IF rowOf["policy"]["enabled"] = 0
       THEN Record("skipped", NoPrune.count) /\ UNCHANGED prune
       ELSE prune' = [NoPrune EXCEPT !.step = 1] /\ UNCHANGED records
    /\ UNCHANGED <<saving, aged, files, gone>>

Hit(k) == IF k \in aged THEN 1 ELSE 0

\* A node that is deleted takes its edges along, the newer ones too: foreign keys
\* that cascade in SQLite, DETACH DELETE in Neo4j.  No counter counts them.
Newer(k) == IF k = "nodes" /\ k \in aged THEN {0, 1} ELSE {0}

\* The counter of a table is set when its last batch is deleted: a failure on
\* the way (counted = FALSE) leaves what Neo4j has committed uncounted.
TableDone(k, counted, n) ==
    prune' = [prune EXCEPT !.rows = @ \union ({k} \intersect aged),
                           !.newer = n,
                           !.count = IF counted THEN [@ EXCEPT ![k] = Hit(k)] ELSE @,
                           !.step = IF counted THEN @ + 1 ELSE Len(Tables) + 3]

PruneTable(k, counted) ==
    /\ backend = "sqlite" /\ prune.step \in DOMAIN Tables /\ k = Tables[prune.step]
    /\ \E n \in Newer(k) : TableDone(k, counted, n)
    /\ UNCHANGED <<saving, aged, files, records, gone>>

PruneLabel(k, counted) ==
    /\ backend = "neo4j" /\ prune.step \in DOMAIN Tables /\ k = Tables[prune.step]
    /\ TableDone(k, counted, 0)
    /\ \E n \in Newer(k) : along' = along + n
    /\ aged' = aged \ {k}
    /\ deleted' = [deleted EXCEPT ![k] = @ + Hit(k)]
    /\ UNCHANGED <<saving, files, records>>

Unlink(f) ==
    /\ prune.step = Len(Tables) + 1 /\ f \in files
    /\ files' = files \ {f}
    /\ deleted' = [deleted EXCEPT !["files"] = @ + 1]
    /\ prune' = [prune EXCEPT !.unlinked = @ + 1]
    /\ UNCHANGED <<saving, aged, records, along>>

FilesDone ==
    /\ prune.step = Len(Tables) + 1 /\ files = {}
    /\ prune' = [prune EXCEPT !.count["files"] = prune.unlinked, !.step = @ + 1]
    /\ UNCHANGED <<saving, aged, files, records, gone>>

PruneCommit ==
    /\ prune.step = Len(Tables) + 2
    /\ Record("completed", prune.count)
    /\ IF backend = "sqlite"
       THEN /\ aged' = aged \ prune.rows
            /\ deleted' = [k \in Kinds |-> deleted[k] + IF k \in prune.rows THEN 1 ELSE 0]
            /\ along' = along + prune.newer
       ELSE UNCHANGED <<aged, gone>>
    /\ prune' = NoPrune
    /\ UNCHANGED <<saving, files>>

\* A mutant: a run that raised is recorded as if it had been committed.
PruneFails_Completed ==
    /\ Pruning
    /\ Record("completed", prune.count)
    /\ prune' = NoPrune
    /\ UNCHANGED <<saving, aged, files, gone>>

\* Any statement or unlink may raise: SQLite rolls back, the run is recorded
\* as failed with the counters it has, of rows that are back as well, and the
\* error goes on to the caller.
PruneFails ==
    /\ Pruning
    /\ Record("failed", prune.count)
    /\ prune' = NoPrune
    /\ UNCHANGED <<saving, aged, files, gone>>

\* The process ends: the open transaction is rolled back, calls are forgotten.
Crash ==
    /\ Pruning \/ \E t \in Savers : ~Idle(t)
    /\ prune' = NoPrune
    /\ save' = [save EXCEPT !.calls = [t \in Savers |-> NoSave]]
    /\ UNCHANGED <<rowOf, kept, aged, files, records, gone>>

\* Time passes: rows and files grow older than the cutoff.
Ages ==
    /\ ~Pruning /\ \A k \in Kinds : deleted[k] < MaxRuns
    /\ aged' = Range(Tables) /\ files' = Files
    /\ aged # aged' \/ files # files'
    /\ UNCHANGED <<saving, prune, records, gone>>

AdminStep ==
    \/ \E t \in Savers, p \in Places, given \in [Fields -> Values \union {Unset}] : ReadRow(t, p, given)
    \/ \E t \in Savers : WriteRow(t)
    \/ PruneStart
    \/ \E k \in Range(Tables), counted \in BOOLEAN : PruneTable(k, counted) \/ PruneLabel(k, counted)
    \/ \E f \in Files : Unlink(f)
    \/ FilesDone \/ PruneCommit \/ PruneFails \/ Crash \/ Ages

AdminNext == AdminStep /\ UNCHANGED backend

AdminSpec == AdminInit /\ [][AdminNext]_adminVars

-----------------------------------------------------------------------------
AdminTypeOK ==
    /\ rowOf \in [Places -> [Fields -> Values]]
    /\ aged \subseteq Range(Tables) /\ files \subseteq Files
    /\ prune.step \in 0..Len(Tables) + 3
    /\ \A i \in DOMAIN runs : runs[i].count \in [Kinds -> 0..Cardinality(Files) + 1]

\* A field a finished save has set stays until a save that gives that field,
\* or one that had read the row before it was written.
KeptUnlessOverlapped ==
    \A p \in Places, f \in Fields : kept[p][f] # Unset => rowOf[p][f] = kept[p][f]

\* SQLite: the rows past the cutoff go together with the completed run that counts
\* them, through any failure or crash.  Neo4j: no run, completed or failed, counts
\* more of them than are gone.  On both no run counts a file that is there, and
\* a newer edge goes only with a node past the cutoff whose deletion stands.
RowsGoWithTheirRun ==
    /\ backend = "sqlite" => \A k \in Range(Tables) : claimed["completed"][k] = deleted[k]
    /\ backend = "neo4j" =>
         \A k \in Range(Tables) : claimed["completed"][k] + claimed["failed"][k] <= deleted[k]
    /\ claimed["completed"]["files"] + claimed["failed"]["files"] <= deleted["files"]
    /\ along <= deleted["nodes"]

\* Not checked, for it fails: "a prune summary" says what was pruned
\* (docs/reference.md:441).  Newer edges are counted by no run, a failed run of
\* SQLite counts rows that are back, and one of Neo4j misses committed batches.
SummariesAreTrue ==
    \A k \in Kinds : claimed["completed"][k] + claimed["failed"][k]
                        = deleted[k] + IF k = "edges" THEN along ELSE 0

\* What saves, prunes, failures and crashes keep of the rows they share.
AdministrationSound == AdminTypeOK /\ KeptUnlessOverlapped /\ RowsGoWithTheirRun
=============================================================================
