-------------------------- MODULE TranscriptIngestion --------------------------
(***************************************************************************)
(* waggle.graph.transcript: the transcript of one session and the memories *)
(* extracted from it.                                                      *)
(*                                                                         *)
(* ingest_transcript_handoff is handed the ordered messages of a client    *)
(* over and over while the talk grows.  Under a ProcessLock held for the   *)
(* whole run it stores the messages it does not know in one transaction,   *)
(* reads the session back, folds it into blocks of one speaker, and        *)
(* extracts every user/assistant pair that needs it in a transaction of    *)
(* its own.  A run may end between any two transactions, by an exception   *)
(* or with the process: what was committed stays.  observe_conversation    *)
(* adds one live pair to the same session, between runs.                   *)
(***************************************************************************)
EXTENDS Integers, Sequences, FiniteSets

CONSTANTS
    Messages,   \* the messages of the talk
    Role,       \* Role[m]: "user", "assistant" or "tool" (system is like tool)
    HasId,      \* messages with a client-side message_id
    Memorable,  \* messages extract_conversation_candidates finds something in
    Payloads,   \* the message sequences the client hands over
    Live,       \* <<u, a>>: turns observe_conversation is called with
    None,       \* the message_identity of a live row
    MaxRuns,    \* bound on the runs of a behaviour
    MaxFailures \* bound on the runs that end early

ASSUME IngestionAssumption ==
    /\ Role \in [Messages -> {"user", "assistant", "tool"}]
    /\ HasId \subseteq Messages
    /\ Memorable \subseteq {m \in Messages : Role[m] # "tool"}
    /\ Payloads \subseteq Seq(Messages)
    /\ Live \subseteq Messages \X Messages
    /\ \A pair \in Live : Role[pair[1]] = "user" /\ Role[pair[2]] = "assistant"
    /\ None \notin Messages \X Nat
    /\ MaxRuns \in Nat /\ MaxFailures \in Nat

VARIABLES
    rows,       \* transcript_records of the session: [turn, msg, id]
    evidence,   \* <<m, t>>: a node holds what m says and cites turn t
    phase,      \* where the run is; "idle" when nobody holds the ProcessLock
    fresh,      \* newly_written_identities of the run
    todo,       \* the pairs the run has still to extract
    runs,       \* runs begun
    failures    \* runs that ended early

vars == <<rows, evidence, phase, fresh, todo, runs, failures>>

Ids      == {r.id : r \in rows}
Facts    == {e[1] : e \in evidence}

Init ==
    /\ rows = {} /\ evidence = {}
    /\ phase = "idle" /\ fresh = {} /\ todo = {}
    /\ runs = 0 /\ failures = 0
-----------------------------------------------------------------------------
(* Blocks and pairs.                                                       *)

\* _message_fingerprint: the message_id, else role, content and position.
Identity(p, i) == IF p[i] \in HasId THEN <<p[i], 0>> ELSE <<p[i], i>>

\* Only repetitions within one payload are recognised.
Unknown_NoManifest(p) ==
    {i \in 1 .. Len(p) : \A j \in 1 .. i - 1 : Identity(p, j) # Identity(p, i)}

\* The positions whose identity is neither stored nor earlier in the payload.
Unknown(p) ==
    {i \in 1 .. Len(p) :
        /\ Identity(p, i) \notin Ids
        /\ \A j \in 1 .. i - 1 : Identity(p, j) # Identity(p, i)}

\* The next index is taken from the number of rows.
NextTurns_Count == {Cardinality(rows)}

\* _next_transcript_turn_index: one beyond the largest there is.
NextTurns == {b \in {0} \cup {r.turn + 1 : r \in rows} : \A r \in rows : r.turn < b}

Spoken(R) == {r \in R : Role[r.msg] \in {"user", "assistant"}}

\* The rows that begin a block: the spoken row before has the other role.
Starts(R) ==
    {r \in Spoken(R) :
        ~ \E q \in Spoken(R) :
            /\ q.turn < r.turn /\ Role[q.msg] = Role[r.msg]
            /\ ~ \E x \in Spoken(R) : q.turn < x.turn /\ x.turn < r.turn}

Block(R, s) ==
    {r \in Spoken(R) :
        /\ s.turn <= r.turn
        /\ ~ \E b \in Starts(R) : s.turn < b.turn /\ b.turn <= r.turn}

\* _build_session_extractive_blocks and the scan: a user block with the
\* assistant block right after it is one logical turn, cited by their first
\* turn indexes.
Pairs(R) ==
    {[user |-> Block(R, p[1]), userTurn |-> p[1].turn,
      asst |-> Block(R, p[2]), asstTurn |-> p[2].turn] :
        p \in {q \in Starts(R) \X Starts(R) :
                 /\ Role[q[1].msg] = "user" /\ Role[q[2].msg] = "assistant"
                 /\ q[1].turn < q[2].turn
                 /\ ~ \E b \in Starts(R) : q[1].turn < b.turn /\ b.turn < q[2].turn}}

\* A pair counts as new only when its question is.
HasNew_UserOnly(pair) == \E r \in pair.user : r.id \in fresh

HasNew(pair) == \E r \in pair.user \cup pair.asst : r.id \in fresh

Cited(pair) == \E e \in evidence : e[2] \in {pair.userTurn, pair.asstTurn}

\* The pairs a run extracts: those with new messages when it stored any, else
\* those no node cites.
NeedsExtraction(pair) == IF fresh # {} THEN HasNew(pair) ELSE ~ Cited(pair)

\* Every message of a pair becomes a memory.
Candidates_Everything(pair) ==
    {<<r.msg, pair.userTurn>> : r \in pair.user} \cup
    {<<r.msg, pair.asstTurn>> : r \in pair.asst}

\* The speaker is not looked at: everything cites the assistant's turn.
Candidates_OneTurn(pair) ==
    {<<r.msg, pair.asstTurn>> : r \in {q \in pair.user \cup pair.asst : q.msg \in Memorable}}

\* _apply_observation_candidates: one node per memorable message, citing the
\* first turn of its speaker's block.
Candidates(pair) ==
    {<<r.msg, pair.userTurn>> : r \in {q \in pair.user : q.msg \in Memorable}} \cup
    {<<r.msg, pair.asstTurn>> : r \in {q \in pair.asst : q.msg \in Memorable}}
-----------------------------------------------------------------------------
(* ingest_transcript_handoff.                                              *)

\* The payload is stored from its end.
Persist_Reversed(p) ==
    /\ phase = "idle" /\ runs < MaxRuns
    /\ p # <<>>
    /\ \E base \in NextTurns :
           rows' = rows \cup
               {[turn |-> base + Len(p) - i, msg |-> p[i], id |-> Identity(p, i)] : i \in Unknown(p)}
    /\ fresh' = {Identity(p, i) : i \in Unknown(p)}
    /\ phase' = "stored"
    /\ runs' = runs + 1
    /\ UNCHANGED <<evidence, todo, failures>>

Persist(p) ==
    /\ phase = "idle" /\ runs < MaxRuns
    /\ p # <<>>
    /\ \E base \in NextTurns :
           rows' = rows \cup
               {[turn |-> base + i - 1, msg |-> p[i], id |-> Identity(p, i)] : i \in Unknown(p)}
    /\ fresh' = {Identity(p, i) : i \in Unknown(p)}
    /\ phase' = "stored"
    /\ runs' = runs + 1
    /\ UNCHANGED <<evidence, todo, failures>>

\* A run that stored nothing extracts nothing.
LoadSession_SkipsRepeats ==
    /\ phase = "stored"
    /\ todo' = {pair \in Pairs(rows) : fresh # {} /\ HasNew(pair)}
    /\ phase' = IF todo' = {} THEN "done" ELSE "extracting"
    /\ UNCHANGED <<rows, evidence, fresh, runs, failures>>

\* The session and the cited turns are read back; without anything to extract
\* the run goes straight to its exports.
LoadSession ==
    /\ phase = "stored"
    /\ todo' = {pair \in Pairs(rows) : NeedsExtraction(pair)}
    /\ phase' = IF todo' = {} THEN "done" ELSE "extracting"
    /\ UNCHANGED <<rows, evidence, fresh, runs, failures>>

\* Left to right, one transaction for each pair.
ExtractPair ==
    /\ phase = "extracting"
    /\ \E pair \in todo :
           /\ \A other \in todo : pair.userTurn <= other.userTurn
           /\ evidence' = evidence \cup Candidates(pair)
           /\ todo' = todo \ {pair}
    /\ phase' = IF todo' = {} THEN "done" ELSE "extracting"
    /\ UNCHANGED <<rows, fresh, runs, failures>>

\* The bundle and the checkpoint are written and the ProcessLock is let go.
RunReturns ==
    /\ phase = "done"
    /\ phase' = "idle" /\ fresh' = {}
    /\ UNCHANGED <<rows, evidence, todo, runs, failures>>

\* An exception or the end of the process; the operating system drops the lock.
RunFails ==
    /\ failures < MaxFailures
    /\ phase # "idle"
    /\ failures' = failures + 1
    /\ phase' = "idle" /\ fresh' = {} /\ todo' = {}
    /\ UNCHANGED <<rows, evidence, runs>>

\* observe_conversation: both rows in one transaction, without an identity;
\* the extraction that follows in a savepoint may fail without failing the call.
Observe(pair) ==
    /\ phase = "idle"
    /\ \A r \in rows : r.msg # pair[1]
    /\ \E base \in NextTurns :
           LET u == [turn |-> base, msg |-> pair[1], id |-> None]
               a == [turn |-> base + 1, msg |-> pair[2], id |-> None]
               turn == [user |-> {u}, userTurn |-> base,
                        asst |-> {a}, asstTurn |-> base + 1]
           IN  /\ rows' = rows \cup {u, a}
               /\ evidence' \in {evidence, evidence \cup Candidates(turn)}
    /\ UNCHANGED <<phase, fresh, todo, runs, failures>>

Next ==
    \/ \E p \in Payloads : Persist(p)
    \/ LoadSession
    \/ ExtractPair
    \/ RunReturns
    \/ RunFails
    \/ \E pair \in Live : Observe(pair)

Spec == Init /\ [][Next]_vars
-----------------------------------------------------------------------------
(* Properties.                                                             *)

Rows == [turn : Nat, msg : Messages, id : (Messages \X Nat) \cup {None}]
LogicalTurns ==
    [user : SUBSET rows, userTurn : Nat, asst : SUBSET rows, asstTurn : Nat]

TypeOK ==
    /\ rows \subseteq Rows
    /\ evidence \subseteq Memorable \X Nat
    /\ phase \in {"idle", "stored", "extracting", "done"}
    /\ fresh \subseteq Messages \X Nat
    /\ todo \subseteq LogicalTurns
    /\ runs \in Nat /\ failures \in Nat

\* However often, and after whatever failures, a message is handed over, one
\* row carries its identity.
OneRowPerIdentity ==
    \A q, r \in rows : q.id = r.id /\ q.id # None => q = r

\* A turn index names one row, although clients restart theirs at 0 and live
\* turns come in between: what a node cites is one place in the session.
OneRowPerTurn == \A q, r \in rows : q.turn = r.turn => q = r

\* Rows of one client run stand in the order of its payload, and what arrives
\* later stands behind what was there: a talk that only grows keeps its order.
GrowingTalkKeepsOrder ==
    \A p \in Payloads : \A i, j \in 1 .. Len(p) : \A q, r \in rows :
        /\ i < j /\ p[i] \in HasId /\ p[j] \in HasId
        /\ q.id = <<p[i], 0>> /\ r.id = <<p[j], 0>>
        => q.turn < r.turn

\* Evidence leads back to the block the memory was read from: the cited turn
\* is spoken by the same side, and nobody else spoke before the message came.
EvidenceCitesItsBlock ==
    \A e \in evidence : \E q, r \in rows :
        /\ q.turn = e[2] /\ r.msg = e[1] /\ q.turn <= r.turn
        /\ \A x \in Spoken(rows) :
               q.turn <= x.turn /\ x.turn <= r.turn => Role[x.msg] = Role[e[1]]

MemorableOf(pair) == {r.msg : r \in pair.user \cup pair.asst} \cap Memorable

ReadAll == \A pair \in Pairs(rows) : MemorableOf(pair) \subseteq Facts

\* As long as no run failed and no live turn came in between, a run that came
\* to its end has read everything there is to read: the memories of every pair
\* of the session are in the graph.
UndisturbedRunsReadAll ==
    phase = "done" /\ failures = 0 /\ (\A r \in rows : r.id # None) => ReadAll

\* The comment on the scan promises that of every completed run: it extracts the
\* turns that have new messages or have not been extracted yet.
CompletedRunExtractsAll == phase = "done" => ReadAll

\* A repeated run that stored nothing has caught up, whatever failed before: no
\* pair with something to remember is left without any memory.
RepeatCatchesUp ==
    phase = "done" /\ fresh = {} =>
        \A pair \in Pairs(rows) : MemorableOf(pair) # {} => MemorableOf(pair) \cap Facts # {}

\* What the stored rows keep, whatever is handed over again and wherever runs die:
\* an identity and a turn index name one row each.
RowsSound == TypeOK /\ OneRowPerIdentity /\ OneRowPerTurn

=============================================================================
