------------------------------ MODULE GithubEvents ------------------------------
(***************************************************************************)
(* ingest-github-event: processes that each take one delivery of a GitHub  *)
(* event, normalise it, upsert its repository, actor, commits and subject  *)
(* one after the other - a look and a write in sections of their own -     *)
(* relate them, export the project and replace two files.  Deliveries are  *)
(* repeated and come out of order, processes die anywhere, and other       *)
(* callers edit and delete the same memories.                              *)
(***************************************************************************)
EXTENDS Naturals, Sequences, FiniteSets, SequencesExt

CONSTANTS
    AtOnce,         \* bound: how many processes run at once
    Deliveries,     \* payloads, with the fields that decide what becomes of them
    Subjects, Actors, Commits,
    Kinds,          \* the types and aliases that are supported
    MaxCommits,     \* MAX_PUSH_COMMITS
    Missing,        \* an absent field, row, file or run
    MaxTime, MaxRuns, MaxTouched

EventsAssumption == MaxCommits \in Nat /\ MaxTime \in Nat /\ MaxRuns \in Nat /\ MaxTouched \in Nat /\ AtOnce \in Nat

VARIABLES
    now,
    nodes,        \* updated_at and text of a memory, or Missing
    edges,
    run,          \* what each process is doing
    checkpoint, context,   \* the export each file was last replaced by
    exports,      \* how many exports there were
    runs,         \* how many runs there were
    written,      \* ghost: the latest event a run wrote to a memory
    raced,        \* ghost: memories written between a run's look and its own write
    touched,      \* ghost: memories others edited or deleted
    finished,     \* ghost: the events of the runs that came to their end
    together      \* ghost: two runs overlapped

vars == <<now, nodes, edges, run, checkpoint, context, exports, runs,
          written, raced, touched, finished, together>>

Slots == 1 .. AtOnce
Repository == "repository"
Ids == {Repository} \cup Subjects \cup Actors \cup Commits

-----------------------------------------------------------------------------
FirstGiven(a, b) == IF a # Missing THEN a ELSE b

\* _identifier and _timestamp raise for what is absent.
Required(fields) == \A i \in DOMAIN fields : fields[i] # Missing

Event(p, key, at, commits) == [subject |-> key, at |-> at, actor |-> p.actor, text |-> p.text, commits |-> commits]

Issue(p) ==
    LET at == FirstGiven(p.at, p.made)
    IN IF Required(<<p.key, p.title, at>>) THEN Event(p, p.key, at, <<>>) ELSE Missing

\* The number stands in the pull request or beside it.
PullRequest(p) ==
    LET key == FirstGiven(p.key, p.other)
        at  == FirstGiven(p.at, p.made)
    IN IF Required(<<key, p.title, at>>) THEN Event(p, key, at, <<>>) ELSE Missing

Discussion(p) == Issue(p)

\* A release goes by its id or its tag; it must have a tag, and its name may be absent.
Release(p) ==
    LET at == FirstGiven(p.at, p.made)
    IN IF Required(<<p.other, at>>) THEN Event(p, FirstGiven(p.key, p.other), at, <<>>) ELSE Missing

\* A push is dated by its head commit or by when the repository was pushed to; one bad
\* commit among those retained fails it.
Push(p) ==
    LET kept == SubSeq(p.commits, 1, IF Len(p.commits) < MaxCommits THEN Len(p.commits) ELSE MaxCommits)
        at   == FirstGiven(p.at, p.made)
    IN IF Required(<<p.key, at>>) /\ \A i \in DOMAIN kept : Required(<<kept[i].key, kept[i].at>>)
       THEN Event(p, p.key, at, kept) ELSE Missing

\* The subject is the digest of the payload; without a timestamp it happens now.
Generic(p) == [Event(p, p.key, FirstGiven(p.at, now), <<>>) EXCEPT !.actor = Missing]

Normalized(p) ==
    CASE p.kind = "issue"        -> Issue(p)
      [] p.kind = "pull-request" -> PullRequest(p)
      [] p.kind = "discussion"   -> Discussion(p)
      [] p.kind = "release"      -> Release(p)
      [] p.kind = "push"         -> Push(p)
      [] p.kind = "generic"      -> Generic(p)

-----------------------------------------------------------------------------
\* What an event upserts, in order: repository, actor, commits by their time, subject.
\* The text of the first two never changes.
Upserts(e) ==
    LET Spec(id, at, text) == [id |-> id, at |-> at, text |-> text]
        ordered == SortSeq(e.commits, LAMBDA c, d : c.at < d.at)
    IN <<Spec(Repository, e.at, Missing)>>
       \o (IF e.actor = Missing THEN <<>> ELSE <<Spec(e.actor, e.at, Missing)>>)
       \o [i \in DOMAIN ordered |-> Spec(ordered[i].key, ordered[i].at, Missing)]
       \o <<Spec(e.subject, e.at, e.text)>>

\* Mutant: only an event that is new is related.
Relations_New(e) == IF e.subject \in {f.subject : f \in finished} THEN <<>> ELSE <<<<e.subject, Repository>>>>

Relations(e) ==
    <<<<e.subject, Repository>>>>
    \o (IF e.actor = Missing THEN <<>> ELSE <<<<e.subject, e.actor>>>>)
    \o [i \in DOMAIN e.commits |-> <<e.commits[i].key, e.subject>>]

\* Mutant: an event as old as the row goes over it.
Outdated_Never(id, at) == FALSE

\* An event that is no later than the row is left out.
Outdated(id, at) == at <= nodes[id].at

Doing(r, step) == run[r] # Missing /\ run[r].step = step
Running == {r \in Slots : run[r] # Missing}

\* The next upsert, or the relations once there is none left.
Advance(r) ==
    LET rest == Tail(run[r].upserts)
    IN [run EXCEPT ![r].upserts = rest, ![r].step = IF rest = <<>> THEN "relate" ELSE "look"]

Begin(r, e, step) ==
    /\ run' = [run EXCEPT ![r] = [step |-> step, event |-> e, snapshot |-> Missing,
                                  upserts |-> IF e = Missing THEN <<>> ELSE Upserts(e),
                                  relations |-> IF e = Missing THEN <<>> ELSE Relations(e)]]
    /\ runs' = runs + 1
    /\ together' = (together \/ Running # {})

\* The payloads a run may find in its file.
Delivered == {p \in Deliveries : IF p.at = Missing THEN TRUE ELSE p.at <= now}

\* normalize_event_type
Supported(p) == p.kind \in Kinds

\* ingest_github_event: a payload that cannot be read or normalised ends the run before
\* it has touched anything; an unsupported type goes on to the export.  r is a name
\* only: the least that is free.
Start(r) ==
    /\ run[r] = Missing /\ runs < MaxRuns
    /\ \A o \in 1 .. r - 1 : run[o] # Missing
    /\ \E p \in Delivered :
          IF Supported(p) THEN Normalized(p) # Missing /\ Begin(r, Normalized(p), "look")
          ELSE Begin(r, Missing, "export")
    /\ UNCHANGED <<now, nodes, edges, checkpoint, context, exports, written, raced, touched, finished>>

\* _get_node_or_none, and what it decides.
Look(r) ==
    /\ Doing(r, "look")
    /\ LET u == Head(run[r].upserts)
       IN run' = IF nodes[u.id] = Missing THEN [run EXCEPT ![r].step = "add"]
                 ELSE IF Outdated(u.id, u.at) THEN Advance(r)
                 ELSE [run EXCEPT ![r].step = "update"]
    /\ UNCHANGED <<now, nodes, edges, checkpoint, context, exports, runs, written, raced, touched, finished, together>>

\* add_node with an id of its own raises if the row is there by now, update_node if it
\* is gone; and a write makes other runs' looks at the memory stale.
Write(r) ==
    /\ Doing(r, "add") \/ Doing(r, "update")
    /\ LET u == Head(run[r].upserts)
           stale == \E o \in Slots \ {r} : /\ Doing(o, "add") \/ Doing(o, "update")
                                           /\ Head(run[o].upserts).id = u.id
       IN IF Doing(r, "add") <=> nodes[u.id] = Missing
          THEN /\ nodes' = [nodes EXCEPT ![u.id] = [at |-> u.at, text |-> u.text]]
               /\ written' = [written EXCEPT ![u.id] = IF @ > u.at THEN @ ELSE u.at]
               /\ raced' = IF stale THEN raced \cup {u.id} ELSE raced
               /\ run' = Advance(r)
          ELSE run' = [run EXCEPT ![r] = Missing] /\ UNCHANGED <<nodes, written, raced>>
    /\ UNCHANGED <<now, edges, checkpoint, context, exports, runs, touched, finished, together>>

\* add_edge_with_result: an edge that is there is left, an end that is gone raises.
Relate(r) ==
    /\ Doing(r, "relate")
    /\ LET e == Head(run[r].relations)
       IN IF run[r].relations = <<>>
          THEN run' = [run EXCEPT ![r].step = "export"] /\ UNCHANGED edges
          ELSE IF Missing \in {nodes[e[1]], nodes[e[2]]}
          THEN run' = [run EXCEPT ![r] = Missing] /\ UNCHANGED edges
          ELSE edges' = edges \cup {e} /\ run' = [run EXCEPT ![r].relations = Tail(@)]
    /\ UNCHANGED <<now, nodes, checkpoint, context, exports, runs, written, raced, touched, finished, together>>

\* Both files are written beside their destinations from one export.
Export(r) ==
    /\ Doing(r, "export")
    /\ exports' = exports + 1
    /\ run' = [run EXCEPT ![r].step = "checkpoint",
                          ![r].snapshot = [number |-> exports', nodes |-> {n \in Ids : nodes[n] # Missing}, edges |-> edges]]
    /\ UNCHANGED <<now, nodes, edges, checkpoint, context, runs, written, raced, touched, finished, together>>

\* Mutant: the context is replaced first.
Replace_Swapped(r) ==
    /\ Doing(r, "checkpoint") \/ Doing(r, "context")
    /\ IF Doing(r, "checkpoint")
       THEN /\ context' = run[r].snapshot
            /\ run' = [run EXCEPT ![r].step = "context"]
            /\ UNCHANGED <<checkpoint, finished>>
       ELSE /\ checkpoint' = run[r].snapshot
            /\ run' = [run EXCEPT ![r] = Missing]
            /\ finished' = IF run[r].event = Missing THEN finished ELSE finished \cup {run[r].event}
            /\ UNCHANGED context
    /\ UNCHANGED <<now, nodes, edges, exports, runs, written, raced, touched, together>>

Replace(r) ==
    /\ Doing(r, "checkpoint") \/ Doing(r, "context")
    /\ IF Doing(r, "checkpoint")
       THEN /\ checkpoint' = run[r].snapshot
            /\ run' = [run EXCEPT ![r].step = "context"]
            /\ UNCHANGED <<context, finished>>
       ELSE /\ context' = run[r].snapshot
            /\ run' = [run EXCEPT ![r] = Missing]
            /\ finished' = IF run[r].event = Missing THEN finished ELSE finished \cup {run[r].event}
            /\ UNCHANGED checkpoint
    /\ UNCHANGED <<now, nodes, edges, exports, runs, written, raced, touched, together>>

\* The process is killed, or a call of it fails: its temporary files go, what it wrote stays.
Die(r) ==
    /\ run[r] # Missing
    /\ run' = [run EXCEPT ![r] = Missing]
    /\ UNCHANGED <<now, nodes, edges, checkpoint, context, exports, runs, written, raced, touched, finished, together>>

-----------------------------------------------------------------------------
\* Others edit a memory, which is stamped now, or delete it with its edges.
Touch ==
    /\ \E n \in {m \in Ids : nodes[m] # Missing} :
          /\ Cardinality(touched \cup {n}) <= MaxTouched /\ touched' = touched \cup {n}
          /\ \/ nodes' = [nodes EXCEPT ![n].at = now] /\ UNCHANGED edges
             \/ nodes' = [nodes EXCEPT ![n] = Missing] /\ edges' = {e \in edges : n \notin {e[1], e[2]}}
    /\ UNCHANGED <<now, run, checkpoint, context, exports, runs, written, raced, finished, together>>

Tick ==
    /\ now < MaxTime /\ now' = now + 1
    /\ UNCHANGED <<nodes, edges, run, checkpoint, context, exports, runs, written, raced, touched, finished, together>>

Init ==
    /\ now = 1 /\ nodes = [n \in Ids |-> Missing] /\ edges = {}
    /\ run = [r \in Slots |-> Missing] /\ checkpoint = Missing /\ context = Missing
    /\ exports = 0 /\ runs = 0
    /\ written = [n \in Ids |-> 0] /\ raced = {} /\ touched = {} /\ finished = {} /\ together = FALSE

Next ==
    \/ \E r \in Slots : \/ Start(r) \/ Look(r) \/ Write(r) \/ Relate(r) \/ Export(r) \/ Replace(r) \/ Die(r)
    \/ Touch \/ Tick

-----------------------------------------------------------------------------
\* However deliveries are ordered and repeated, a memory is of the latest event that was
\* ever written to it, unless somebody else changed it or one run wrote between another's
\* look and its write.  (_upsert_node)
LatestStands ==
    \A n \in Ids \ (raced \cup touched) : IF nodes[n] = Missing THEN written[n] = 0 ELSE nodes[n].at = written[n]

\* What runs that came to their end were told is there whole, whatever earlier attempts
\* left half done, but for what others deleted and the edges of that.
FinishedWhole ==
    \A e \in finished :
        /\ \A i \in DOMAIN Upserts(e) : Upserts(e)[i].id \in touched \/ nodes[Upserts(e)[i].id] # Missing
        /\ LET Needed == {<<e.subject, Repository>>}
                            \cup (IF e.actor = Missing THEN {} ELSE {<<e.subject, e.actor>>})
                            \cup {<<e.commits[i].key, e.subject>> : i \in DOMAIN e.commits}
           IN \A l \in Needed : l \in edges \/ {l[1], l[2]} \cap touched # {}

\* Where runs do not overlap, the context never tells of an export the checkpoint does
\* not have: a death between the two leaves it behind, never ahead.  (the two os.replace)
ContextNotAhead ==
    ~together /\ context # Missing => checkpoint # Missing /\ context.number <= checkpoint.number

\* A checkpoint about to replace the last one has the event of its run.
CheckpointHasEvent ==
    \A r \in Slots : Doing(r, "checkpoint") /\ run[r].event # Missing =>
        run[r].event.subject \in run[r].snapshot.nodes \cup touched

EventsSound == LatestStands /\ FinishedWhole /\ ContextNotAhead /\ CheckpointHasEvent
===============================================================================
