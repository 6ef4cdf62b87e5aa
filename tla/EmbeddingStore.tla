---------------------------- MODULE EmbeddingStore ----------------------------
(***************************************************************************)
(* The stored vectors of one SQLite database and the processes that write  *)
(* them.  A server adds, rewrites and deletes rows; `waggle-mcp doctor     *)
(* --fix' re-embeds rows of another model, clears damaged blobs and        *)
(* re-embeds again.  Opening the database settles, once and for the life   *)
(* of the process, whether the transformer or the deterministic fallback   *)
(* makes its vectors, so a store can hold both.  Between processes there   *)
(* is only SQLite's write transaction, which begins at the first UPDATE    *)
(* and not at the SELECT before it.                                        *)
(***************************************************************************)
EXTENDS Naturals, FiniteSets

CONSTANTS
    Nodes, Transcripts,   \* rows of the tables nodes and transcript_records
    Contents,             \* the contents a row can have, as numbers from 1
    BatchSize,            \* batch_size of a re-embedding pass
    Nobody                \* no process holds the write transaction

BatchAssumption == BatchSize \in Nat \ {0} /\ 1 \in Contents /\ Contents \subseteq Nat \ {0}

Rows     == Nodes \cup Transcripts
Makers   == {"real", "det"}        \* what embeds: the transformer, the fallback
Server   == "server"
Doctor   == "doctor"
Processes == {Server, Doctor}

\* A row: its content, its blob (form, model that made it, content it was made
\* of), its embedding_model_id, and whether that id was guessed by the backfill.
Blank == [text |-> 0, form |-> "null", maker |-> "none", made |-> 0, id |-> "", guess |-> FALSE]
Empty == [r \in Rows |-> Blank]
Vector(t, m) == [text |-> t, form |-> "checked", maker |-> m, made |-> t, id |-> m, guess |-> FALSE]
Older(m) == [text |-> 1, form |-> "legacy", maker |-> m, made |-> 1, id |-> "", guess |-> FALSE]
StoredRow ==
       [text : Contents \cup {0}, form : {"null", "legacy", "checked", "corrupt"},
        maker : Makers \cup {"none", "junk"}, made : Contents \cup {0},
        id : Makers \cup {""}, guess : BOOLEAN]

VARIABLES
    rows,     \* the two tables
    maker,    \* maker[p]: what embeds in process p, "closed" when p is not running
    pending,  \* the update_node the server is in: the row it read, the content it writes
    step,     \* where the doctor is
    batch,    \* the rows the doctor selected, with the contents it read
    tx,       \* the process inside a write transaction
    before    \* the tables when that transaction began, for its rollback

embVars == <<rows, maker, pending, step, batch, tx, before>>

NoUpdate == [row |-> Nobody, seen |-> Blank, text |-> 0]
Steps == {"off", "health", "transcripts", "nodes", "check", "clear", "again_t", "again_n", "verdict"}

EmbTypeOK ==
    /\ rows \in [Rows -> StoredRow] /\ before \in [Rows -> StoredRow]
    /\ maker \in [Processes -> Makers \cup {"closed"}]
    /\ pending \in [row : Rows \cup {Nobody}, seen : StoredRow, text : Contents \cup {0}]
    /\ step \in Steps
    /\ \A r \in DOMAIN batch : r \in Rows /\ batch[r] \in StoredRow
    /\ tx \in {Doctor, Nobody}

\* A store an older version left: rows without checksum and without a model id.
EmbInit ==
    /\ rows \in [Rows -> {Blank} \cup {Older(m) : m \in Makers}]
    /\ before = Empty
    /\ maker = [p \in Processes |-> "closed"]
    /\ pending = NoUpdate /\ step = "off" /\ batch = <<>> /\ tx = Nobody

Present(r)  == rows[r].text # 0
\* _decode_embedding: the vector a reader gets, none for NULL and for a bad checksum.
Readable(v) == v.form \in {"legacy", "checked"}

-----------------------------------------------------------------------------
(* Opening a database: integrity check, migration, backfill, checksums. *)

\* A row the backfill completes: embedded anew when it has no vector it can
\* keep; a node whose vector has no model id is labelled with the opener's.
Backfilled(r, v, m) ==
    IF v.text = 0 THEN v
    ELSE IF r \in Transcripts THEN (IF v.form = "null" \/ v.id = "" THEN Vector(v.text, m) ELSE v)
    ELSE IF v.id # "" THEN v
    ELSE IF Readable(v) THEN [v EXCEPT !.form = "checked", !.id = m, !.guess = TRUE]
    ELSE Vector(v.text, m)

Checksummed_All(v) == IF v.form \in {"legacy", "corrupt"} THEN [v EXCEPT !.form = "checked"] ELSE v

\* The checksum migration wraps what decodes and leaves what does not.
Checksummed(v) == IF v.form = "legacy" THEN [v EXCEPT !.form = "checked"] ELSE v

\* _initialize_database, under the process lock; the embedding that probes the
\* dimension resolves the model: loaded, or the fallback for good.
Open(p) ==
    /\ maker[p] = "closed" /\ tx = Nobody
    /\ \E m \in Makers :
          /\ maker' = [maker EXCEPT ![p] = m]
          /\ rows' = [r \in Rows |-> Checksummed(Backfilled(r, rows[r], m))]
    /\ step' = IF p = Doctor THEN "health" ELSE step
    /\ UNCHANGED <<pending, batch, tx, before>>

-----------------------------------------------------------------------------
(* The server's own writes: one at a time, its in-process lock is exclusive. *)

\* _find_duplicate_node compares the new vector with every readable one of the
\* table; vectors of two models have different lengths and the product raises.
Comparable(m) == \A r \in Nodes : Present(r) /\ Readable(rows[r]) => rows[r].maker = m

\* add_node, and the writes of transcript records, which compare nothing.
Store(r, t) ==
    /\ maker[Server] # "closed" /\ pending = NoUpdate /\ tx = Nobody
    /\ ~Present(r) /\ (r \in Nodes => Comparable(maker[Server]))
    /\ rows' = [rows EXCEPT ![r] = Vector(t, maker[Server])]
    /\ UNCHANGED <<maker, pending, step, batch, tx, before>>

\* delete_node.
Delete(r) ==
    /\ maker[Server] # "closed" /\ pending = NoUpdate /\ tx = Nobody
    /\ r \in Nodes /\ Present(r)
    /\ rows' = [rows EXCEPT ![r] = Blank]
    /\ UNCHANGED <<maker, pending, step, batch, tx, before>>

\* update_node reads the whole row, embeds new content (t = 0: content is None) ...
UpdateRead(r, t) ==
    /\ maker[Server] # "closed" /\ pending = NoUpdate
    /\ r \in Nodes /\ Present(r)
    /\ pending' = [row |-> r, seen |-> IF tx = Doctor THEN before[r] ELSE rows[r], text |-> t]
    /\ pending'.seen.text # 0
    /\ UNCHANGED <<rows, maker, step, batch, tx, before>>

\* ... and writes every column back, old vector and content included.
Rewritten == IF pending.text = 0 THEN pending.seen ELSE Vector(pending.text, maker[Server])
UpdateWrite ==
    /\ pending # NoUpdate /\ tx = Nobody
    /\ rows' = IF Present(pending.row) THEN [rows EXCEPT ![pending.row] = Rewritten] ELSE rows
    /\ pending' = NoUpdate
    /\ UNCHANGED <<maker, step, batch, tx, before>>

\* The doctor's transaction outlasts busy_timeout: "database is locked".
UpdateGivesUp ==
    /\ pending # NoUpdate /\ tx = Doctor
    /\ pending' = NoUpdate
    /\ UNCHANGED <<rows, maker, step, batch, tx, before>>

\* The server stops, in the middle of an update or not.
Stop ==
    /\ maker[Server] # "closed"
    /\ maker' = [maker EXCEPT ![Server] = "closed"] /\ pending' = NoUpdate
    /\ UNCHANGED <<rows, step, batch, tx, before>>

\* A checksummed blob is damaged on disk; in a legacy blob nobody could tell.
Damage(r) ==
    /\ rows[r].form = "checked" /\ tx = Nobody
    /\ rows' = [rows EXCEPT ![r].form = "corrupt", ![r].maker = "junk"]
    /\ UNCHANGED <<maker, pending, step, batch, tx, before>>

-----------------------------------------------------------------------------
(* doctor --fix. *)

\* What a pass and the health report call stale.
Stale(table) ==
    {r \in table : Present(r) /\ (rows[r].form = "null" \/ rows[r].id # maker[Doctor])}
\* What the integrity scan counts as failures.
Failures == {r \in Rows : rows[r].form = "corrupt"}

TableOf(s) == IF s \in {"transcripts", "again_t"} THEN Transcripts ELSE Nodes
Passing == {"transcripts", "nodes", "again_t", "again_n"}
After == [transcripts |-> "nodes", nodes |-> "check", again_t |-> "again_n", again_n |-> "verdict"]

\* get_embedding_store_health decides whether a pass, then a repair, is needed.
Health ==
    /\ \/ step = "health" /\ step' = IF Stale(Rows) # {} THEN "transcripts" ELSE "check"
       \/ step = "check" /\ step' = IF Failures # {} THEN "clear" ELSE "verdict"
    /\ UNCHANGED <<rows, maker, pending, batch, tx, before>>

\* One SELECT of stale rows and their contents; the vectors are made after it.
SelectBatch ==
    /\ step \in Passing /\ batch = <<>>
    /\ LET stale == Stale(TableOf(step)) IN
       /\ stale # {}
       /\ \E rs \in SUBSET stale :
             /\ Cardinality(rs) = IF Cardinality(stale) < BatchSize THEN Cardinality(stale) ELSE BatchSize
             /\ batch' = [r \in rs |-> rows[r]]
    /\ UNCHANGED <<rows, maker, pending, step, tx, before>>

WriteBatch_BlobOnly ==
    /\ step \in Passing /\ batch # <<>>
    /\ rows' = [r \in Rows |->
          IF r \in DOMAIN batch /\ Present(r)
             THEN [Vector(batch[r].text, maker[Doctor]) EXCEPT !.text = rows[r].text, !.id = rows[r].id] ELSE rows[r]]
    /\ batch' = <<>> /\ tx' = Doctor
    /\ before' = IF tx = Doctor THEN before ELSE rows
    /\ UNCHANGED <<maker, pending, step>>

\* The UPDATEs of a batch: by id alone, whatever the content is by now.  The
\* first of them begins the transaction the pass keeps until it commits.
WriteBatch ==
    /\ step \in Passing /\ batch # <<>>
    /\ rows' = [r \in Rows |->
          IF r \in DOMAIN batch /\ Present(r)
             THEN [Vector(batch[r].text, maker[Doctor]) EXCEPT !.text = rows[r].text] ELSE rows[r]]
    /\ batch' = <<>> /\ tx' = Doctor
    /\ before' = IF tx = Doctor THEN before ELSE rows
    /\ UNCHANGED <<maker, pending, step>>

\* No stale row is left in the table: the next table, or the commit.
TableDone ==
    /\ step \in Passing /\ batch = <<>> /\ Stale(TableOf(step)) = {}
    /\ step' = After[step]
    /\ tx' = IF TableOf(step) = Nodes THEN Nobody ELSE tx
    /\ before' = IF TableOf(step) = Nodes THEN Empty ELSE before
    /\ UNCHANGED <<rows, maker, pending, batch>>

\* clear_corrupt_embeddings: the blobs that do not decode ...
ScanCorrupt ==
    /\ step = "clear" /\ batch = <<>> /\ Failures # {}
    /\ batch' = [r \in Failures |-> rows[r]]
    /\ UNCHANGED <<rows, maker, pending, step, tx, before>>

\* ... are set to NULL where the row still holds the blob that was scanned.
ClearCorrupt ==
    /\ step = "clear" /\ (batch # <<>> \/ Failures = {})
    /\ rows' = [r \in Rows |->
          IF r \in DOMAIN batch /\ rows[r].form = "corrupt"
             THEN [Blank EXCEPT !.text = rows[r].text] ELSE rows[r]]
    /\ batch' = <<>> /\ step' = "again_t"
    /\ UNCHANGED <<maker, pending, tx, before>>

\* The verdict is printed and the process ends; or it dies anywhere, and an
\* open transaction, also that of a batch that raised, is rolled back.
DoctorExits ==
    /\ step # "off"
    /\ rows' = IF tx = Doctor THEN before ELSE rows
    /\ step' = "off" /\ batch' = <<>> /\ tx' = Nobody /\ before' = Empty
    /\ maker' = [maker EXCEPT ![Doctor] = "closed"]
    /\ UNCHANGED pending

DoctorStep == Health \/ SelectBatch \/ WriteBatch \/ TableDone \/ ScanCorrupt \/ ClearCorrupt
ServerStep ==
    \/ \E r \in Rows, t \in Contents : Store(r, t)
    \/ \E r \in Rows, t \in Contents \cup {0} : UpdateRead(r, t)
    \/ \E r \in Rows : Delete(r)
    \/ UpdateWrite \/ UpdateGivesUp \/ Stop

EmbNext ==
    \/ DoctorStep \/ DoctorExits \/ ServerStep
    \/ \E p \in Processes : Open(p)
    \/ \E r \in Rows : Damage(r)

EmbSpec == EmbInit /\ [][EmbNext]_embVars
\* Each process keeps running what it has begun; nobody must open or damage.
EmbFairness == WF_embVars(DoctorStep) /\ WF_embVars(step = "verdict" /\ DoctorExits)
EmbFairSpec == EmbSpec /\ EmbFairness

-----------------------------------------------------------------------------
\* A vector that can be read is labelled with the model that made it, unless
\* the backfill guessed the label of a row that had none.
LabelTellsMaker ==
    \A r \in Rows : Present(r) /\ Readable(rows[r]) /\ rows[r].id # "" /\ ~rows[r].guess
                       => rows[r].id = rows[r].maker

\* Damage is never given a valid checksum: no migration, backfill or rewrite
\* makes a blob that does not decode readable again.
CorruptStaysOut == \A r \in Rows : Readable(rows[r]) => rows[r].maker # "junk"

\* What the rows of _embed_with_metadata, the checksum migration, the backfill and the
\* doctor's repair hold together: every vector a reader gets is one its label accounts for.
VectorsSound == EmbTypeOK /\ LabelTellsMaker /\ CorruptStaysOut

\* doctor --fix ends, however often a server of another model rewrites rows: the
\* transaction its first UPDATE opens shuts the server out of the passes.
DoctorEnds == step # "off" ~> step = "off"

\* reembed_stale_embeddings is documented as protected from concurrent updates across
\* processes: no row keeps a vector of a content it no longer has.
VectorOfItsText == \A r \in Rows : Readable(rows[r]) => rows[r].made = rows[r].text
=============================================================================
