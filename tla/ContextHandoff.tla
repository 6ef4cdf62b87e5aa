---------------------------- MODULE ContextHandoff ----------------------------
(***************************************************************************)
(* How a conversation's memory leaves a session and comes back.  Claude    *)
(* Code's hooks are processes of their own: post_response observes the     *)
(* last turn, pre_compact ingests the transcript, exports the session's    *)
(* .abhi checkpoint and names it in the manifest, pre_response looks into  *)
(* the database and, when it finds nothing, imports the checkpoint.  Each  *)
(* has one alarm.  OrchestratedChatRuntime does the same on an event loop  *)
(* whose worker (MemoryOrchestrator) writes turns behind its back.         *)
(* A memory is what one turn leaves in the graph, at version 1 and, once   *)
(* somebody has edited it, 2.                                              *)
(***************************************************************************)
EXTENDS Naturals, FiniteSets

CONSTANTS
    Memories, Of,     \* Of[m]: the session of the turn that m is
    Sessions, All,    \* All: the scope of a project, which covers every session
    Scopes,           \* the scopes the runtime is used with
    Slug,             \* Slug[s]: the session's file among the checkpoints
    Handoff,          \* the file a caller names
    Messages, Prime,  \* Messages[q]: what the retrieval for q can find; Prime: none given
    Kinds,            \* the calls that are made, of the six in Calls
    Missing, Torn,
    AtOnce, MaxCalls, MaxEdits   \* bounds: calls at once and in all, edits and clearings

HandoffAssumption ==
    /\ Of \in [Memories -> Sessions] /\ All \notin Sessions /\ Scopes \subseteq Sessions \cup {All}
    /\ DOMAIN Slug = Sessions /\ Prime \in DOMAIN Messages /\ Messages[Prime] = Memories
    /\ {Missing, Torn} \cap (Sessions \cup Memories \cup {All}) = {}

VARIABLES
    db,        \* the version of every memory in the database, 0 without one
    said,      \* the turns in Claude's transcripts
    queued,    \* the runtime's turns that wait for the worker or are with it
    file,      \* the .abhi files
    manifest,  \* checkpoints/manifest.json, one entry for all sessions
    call,      \* call[p]: the hook or coroutine p
    begun, edits,
    latest,    \* the version a turn or an edit wrote last
    gone       \* memories cleared, or whose turn could not be observed

vars == <<db, said, queued, file, manifest, call, begun, edits, latest, gone>>

Callers == 1 .. AtOnce
Nothing == [m \in Memories |-> 0]
Paths == {Slug[s] : s \in Sessions} \cup {Handoff}
Covers(s, m) == s = All \/ Of[m] = s
Scoped(s) == [m \in Memories |-> IF Covers(s, m) THEN db[m] ELSE 0]
Whole(path) == path # Missing /\ file[path] \notin {Missing, Torn}

\* What a retrieval for q finds among the given versions.
Finds(s, q, held) == {m \in Messages[q] : Covers(s, m) /\ held[m] > 0}

\* due: what a checkpoint must hold.  path: the file a resume is after, using: the
\* one it takes.  armed: its alarm has not gone off; ready: path held an answer for it
\* all the while.
Blank == [kind |-> "none", place |-> "idle", session |-> All, turn |-> Missing, message |-> Prime,
          path |-> Missing, using |-> Missing, content |-> Nothing, found |-> {}, due |-> {},
          armed |-> TRUE, ready |-> FALSE, mixed |-> FALSE]
Hooks == {"stop", "compact", "prompt"}

Init ==
    /\ said \in {{}, Memories}
    /\ db = Nothing /\ queued = {} /\ latest = Nothing /\ gone = {}
    /\ file = [x \in Paths |-> Missing] /\ manifest = Missing
    /\ call = [p \in Callers |-> Blank] /\ begun = 0 /\ edits = 0

At(p, place) == call[p].place = place
Becomes(p, new) == call' = [call EXCEPT ![p] = new]
Goes(p, place) == Becomes(p, [call[p] EXCEPT !.place = place])
-----------------------------------------------------------------------------
(* What the calls are given.                                               *)

Held(path, s, q) == Whole(path) /\ Finds(s, q, file[path]) # {}

Calls ==
    {[Blank EXCEPT !.kind = "turn", !.place = "generating", !.turn = m] : m \in Memories}
    \cup {[Blank EXCEPT !.kind = "stop", !.place = "observing", !.turn = m] : m \in Memories}
    \cup {[Blank EXCEPT !.kind = "compact", !.place = "ingesting", !.session = s, !.path = Slug[s],
                        !.due = {m \in said : Of[m] = s}] : s \in {Of[m] : m \in said}}
    \cup {[Blank EXCEPT !.kind = "checkpoint", !.place = "flushing", !.session = s, !.path = Handoff,
                        !.due = {m \in Memories : Covers(s, m) /\ (m \in queued \/ db[m] > 0)}] :
            s \in Scopes}
    \cup {[Blank EXCEPT !.kind = "prompt", !.place = "manifest", !.session = s, !.using = x,
                        !.path = Slug[s], !.ready = x = Missing /\ Held(Slug[s], s, Prime)] :
            s \in Sessions, x \in {Missing, Handoff}}
    \cup {[Blank EXCEPT !.kind = "resume", !.place = "looking", !.session = s, !.message = q,
                        !.path = x, !.using = x, !.ready = Held(x, s, q)] :
            s \in Scopes, q \in DOMAIN Messages, x \in {Missing, Handoff}}

\* p is a name only: the least that is free.
Begin(p) ==
    /\ call[p] = Blank /\ begun < MaxCalls
    /\ \A q \in 1 .. p - 1 : call[q] # Blank
    /\ begun' = begun + 1
    /\ \E c \in Calls :
         /\ c.kind \in Kinds /\ Becomes(p, c)
         /\ said' = IF c.kind = "stop" THEN said \cup {c.turn} ELSE said
    /\ UNCHANGED <<db, queued, file, manifest, edits, latest, gone>>

\* Nothing to show for it: an exception, the hook's alarm outside every inner try, or
\* the end of the process.  What it wrote so far stays.
Fails(p) ==
    /\ call[p] # Blank /\ Becomes(p, Blank)
    /\ UNCHANGED <<db, said, queued, file, manifest, begun, edits, latest, gone>>

Leaves(p) ==
    /\ At(p, "done") /\ Becomes(p, Blank)
    /\ UNCHANGED <<db, said, queued, file, manifest, begun, edits, latest, gone>>
-----------------------------------------------------------------------------
(* Turns.  A turn the graph holds already is reused as it stands.          *)

Learn(S) ==
    /\ db' = [m \in Memories |-> IF m \in S /\ db[m] = 0 THEN 1 ELSE db[m]]
    /\ latest' = [m \in Memories |-> IF m \in S THEN db'[m] ELSE latest[m]]

\* The model has answered: the policy, the duplicate check or a full queue may refuse.
Answer(p) ==
    /\ At(p, "generating") /\ Goes(p, "done")
    /\ queued' \in {queued, queued \cup {call[p].turn}}
    /\ UNCHANGED <<db, said, file, manifest, begun, edits, latest, gone>>

Observes(m) ==
    /\ m \in queued /\ queued' = queued \ {m}
    /\ \/ Learn({m}) /\ UNCHANGED gone
       \/ gone' = gone \cup {m} /\ UNCHANGED <<db, latest>>
    /\ UNCHANGED <<said, file, manifest, call, begun, edits>>

\* A turn with a likely secret in it, or one the policy refuses, is not observed.
Stop(p) ==
    /\ At(p, "observing") /\ Goes(p, "done")
    /\ Learn({call[p].turn}) \/ UNCHANGED <<db, latest>>
    /\ UNCHANGED <<said, queued, file, manifest, begun, edits, gone>>
-----------------------------------------------------------------------------
(* Checkpoints.                                                            *)

Ingest_AfterExport(p) ==   \* a mutant: the export does not wait for the ingestion
    /\ At(p, "ingesting") /\ Goes(p, "snapshot")
    /\ UNCHANGED <<db, said, queued, file, manifest, begun, edits, latest, gone>>

Ingest(p) ==
    /\ At(p, "ingesting") /\ Goes(p, "snapshot")
    /\ Learn(call[p].due)
    /\ UNCHANGED <<said, queued, file, manifest, begun, edits, gone>>

Flush_Now(p) ==            \* a mutant: the worker's queue is not waited for
    /\ At(p, "flushing") /\ Goes(p, "snapshot")
    /\ UNCHANGED <<db, said, queued, file, manifest, begun, edits, latest, gone>>

Flush(p) ==
    /\ At(p, "flushing") /\ queued = {} /\ Goes(p, "snapshot")
    /\ UNCHANGED <<db, said, queued, file, manifest, begun, edits, latest, gone>>

\* export_abhi reads under the lock and writes behind it.
Snapshot(p) ==
    /\ At(p, "snapshot")
    /\ Becomes(p, [call[p] EXCEPT !.place = "opening", !.content = Scoped(call[p].session)])
    /\ UNCHANGED <<db, said, queued, file, manifest, begun, edits, latest, gone>>

Writers(path) == {q \in Callers : At(q, "writing") /\ call[q].path = path}

\* Whoever wants the file can no longer count on what was in it.
Unready(q, path) == [call[q] EXCEPT !.ready = @ /\ call[q].path # path]

\* The finished archive is streamed over the old one, at once with whoever does the same.
Open(p) ==
    LET path == call[p].path  others == Writers(path) IN
    /\ At(p, "opening")
    /\ file' = [file EXCEPT ![path] = Torn]
    /\ call' = [q \in Callers |->
                  IF q = p THEN [call[p] EXCEPT !.place = "writing", !.mixed = others # {}]
                  ELSE IF q \in others THEN [call[q] EXCEPT !.mixed = TRUE] ELSE Unready(q, path)]
    /\ UNCHANGED <<db, said, queued, manifest, begun, edits, latest, gone>>

Write(p) ==
    LET c == call[p] IN
    /\ At(p, "writing")
    /\ \/ file' = [file EXCEPT ![c.path] = c.content]
       \/ c.mixed /\ file' = [file EXCEPT ![c.path] = Torn]
    /\ call' = [q \in Callers |->
                  IF q # p THEN Unready(q, c.path)
                  ELSE [c EXCEPT !.place = IF c.kind = "compact" THEN "naming" ELSE "done"]]
    /\ UNCHANGED <<db, said, queued, manifest, begun, edits, latest, gone>>

\* write_text empties the manifest before it fills it.
Name(p) ==
    /\ \/ At(p, "naming") /\ manifest' = Torn /\ Goes(p, "named")
       \/ /\ At(p, "named") /\ Goes(p, "done")
          /\ manifest' = [session |-> call[p].session, path |-> call[p].path]
    /\ UNCHANGED <<db, said, queued, file, begun, edits, latest, gone>>
-----------------------------------------------------------------------------
(* Resuming.                                                               *)

\* An unreadable entry, another session's and one whose file is gone are none.
NamedFor(s) ==
    IF /\ manifest \notin {Missing, Torn} /\ manifest.session = s
       /\ file[manifest.path] # Missing
      THEN manifest.path ELSE Missing

\* The manifest's file, the one the caller names, the session's own, in this order.
ReadManifest(p) ==
    LET c == call[p]  named == NamedFor(c.session) IN
    /\ At(p, "manifest")
    /\ Becomes(p, [c EXCEPT !.place = "looking",
                            !.using = IF named # Missing THEN named
                                      ELSE IF c.using # Missing THEN c.using ELSE c.path])
    /\ UNCHANGED <<db, said, queued, file, manifest, begun, edits, latest, gone>>

Sees(p, found, armed) ==
    Becomes(p, [call[p] EXCEPT !.found = found, !.armed = armed,
                !.place = IF found = {} /\ At(p, "looking") THEN "cold" ELSE "done"])

\* load_from_db swallows the alarm when it goes off in there, and goes on without one.
Look(p) ==
    LET c == call[p]  found == Finds(c.session, c.message, db) IN
    /\ At(p, "looking") \/ At(p, "again")
    /\ \/ Sees(p, found, c.armed)
       \/ c.kind = "prompt" /\ c.armed /\ \E S \in {{}, found} : Sees(p, S, FALSE)
    /\ UNCHANGED <<db, said, queued, file, manifest, begun, edits, latest, gone>>

\* A prompt without a checkpoint still tries query; a resume answers as it is.
Cold(p) ==
    /\ At(p, "cold")
    /\ Goes(p, IF call[p].using # Missing /\ file[call[p].using] # Missing THEN "importing"
               ELSE IF call[p].kind = "prompt" THEN "again" ELSE "done")
    /\ UNCHANGED <<db, said, queued, file, manifest, begun, edits, latest, gone>>

Merged_Overwrites(path) == [m \in Memories |-> IF file[path][m] > 0 THEN file[path][m] ELSE db[m]]
\* merge_strategy="skip-existing".
Merged(path) == [m \in Memories |-> IF db[m] = 0 THEN file[path][m] ELSE db[m]]

Import_NoSecondLook(p) ==  \* a mutant: the answer is not looked up again
    /\ At(p, "importing") /\ Whole(call[p].using) /\ db' = Merged(call[p].using) /\ Goes(p, "done")
    /\ UNCHANGED <<said, queued, file, manifest, begun, edits, latest, gone>>

\* A file being written cannot be read: the prompt answers without context (and a
\* resume raises, as in Fails).  The alarm, too, ends in an answer without.
Import(p) ==
    LET c == call[p] IN
    /\ At(p, "importing")
    /\ \/ Whole(c.using) /\ db' = Merged(c.using) /\ Goes(p, "again")
       \/ ~Whole(c.using) /\ c.kind = "prompt" /\ Goes(p, "done") /\ UNCHANGED db
       \/ /\ Whole(c.using) /\ c.kind = "prompt" /\ c.armed
          /\ Becomes(p, [c EXCEPT !.armed = FALSE, !.place = "done"])
          /\ db' \in {db, Merged(c.using)}
    /\ UNCHANGED <<said, queued, file, manifest, begun, edits, latest, gone>>
-----------------------------------------------------------------------------
(* What else befalls the database and the runtime.                         *)

Edit(m) ==
    /\ db[m] = 1 /\ edits < MaxEdits /\ edits' = edits + 1
    /\ db' = [db EXCEPT ![m] = 2] /\ latest' = [latest EXCEPT ![m] = 2]
    /\ UNCHANGED <<said, queued, file, manifest, call, begun, gone>>

\* The database is cleared, or another one is used beside the same checkpoints.
Clear ==
    /\ db # Nothing /\ edits < MaxEdits /\ edits' = edits + 1
    /\ db' = Nothing /\ latest' = Nothing /\ gone' = gone \cup {m \in Memories : db[m] > 0}
    /\ call' = [p \in Callers |-> [call[p] EXCEPT !.ready = @ /\ call[p].place \notin {"again", "done"}]]
    /\ UNCHANGED <<said, queued, file, manifest, begun>>

\* The runtime's process ends: its coroutines and its queue go.
Crash ==
    /\ queued # {} /\ queued' = {}
    /\ call' = [p \in Callers |-> IF call[p].kind \in Hooks THEN call[p] ELSE Blank]
    /\ UNCHANGED <<db, said, file, manifest, begun, edits, latest, gone>>

Step(p) ==
    \/ Begin(p) \/ Fails(p) \/ Leaves(p) \/ Answer(p) \/ Stop(p)
    \/ Ingest(p) \/ Flush(p) \/ Snapshot(p) \/ Open(p) \/ Write(p) \/ Name(p)
    \/ ReadManifest(p) \/ Look(p) \/ Cold(p) \/ Import(p)

Next ==
    \/ \E p \in Callers : Step(p)
    \/ \E m \in Memories : Observes(m) \/ Edit(m)
    \/ Clear \/ Crash

Spec == Init /\ [][Next]_vars
-----------------------------------------------------------------------------
Versions == [Memories -> 0 .. 2]

TypeOK ==
    /\ db \in Versions /\ latest \in Versions /\ begun \in 0 .. MaxCalls /\ edits \in 0 .. MaxEdits
    /\ said \subseteq Memories /\ queued \subseteq Memories /\ gone \subseteq Memories
    /\ \A x \in Paths : Whole(x) => file[x] \in Versions

\* A checkpoint holds every turn that was handed over, or is in the transcript, before
\* it was asked for, but those that could not be observed or were cleared: whatever
\* waited for the worker then.
CheckpointComplete ==
    \A p \in Callers : LET c == call[p] IN
        c.place \in {"opening", "writing", "naming", "named"} \/ (c.kind = "checkpoint" /\ c.place = "done") =>
            \A m \in c.due \ gone : c.content[m] > 0

\* No import of an older checkpoint undoes an edit or a turn of the live database.
ResumeKeepsNewer == \A m \in Memories : db[m] >= latest[m]

\* A prompt or a resume whose checkpoint holds an answer comes back with one, also when
\* the manifest names another session's, is half-written or lost: unless its alarm went
\* off, or that file or the database was taken from under it.
ColdSessionRecovers ==
    \A p \in Callers : LET c == call[p] IN
        c.kind \in {"prompt", "resume"} /\ c.place = "done" /\ c.ready /\ c.armed => c.found # {}

HandoffSound == TypeOK /\ CheckpointComplete /\ ResumeKeepsNewer /\ ColdSessionRecovers
=============================================================================
