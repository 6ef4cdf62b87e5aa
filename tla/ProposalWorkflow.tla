--------------------------- MODULE ProposalWorkflow ---------------------------
(***************************************************************************)
(* waggle.webmcp: agents propose corrections of memories, a human reviews  *)
(* them, and an approved one is applied.  Review and apply hold the graph  *)
(* lock of their process over one SQLite transaction; proposing holds it   *)
(* for no more than one read at a time and inserts on a connection of its  *)
(* own.                                                                    *)
(*                                                                         *)
(* The graph lock does not reach other processes on the same database, and *)
(* sqlite3 opens a transaction at the first write only: a review or apply  *)
(* reads (one step), and later writes and commits (another), the SQLite    *)
(* writer lock making only the second one atomic.  A crash or an error     *)
(* before the commit leaves nothing.                                       *)
(*                                                                         *)
(* A memory's version stands for the SHA-256 of its fields, updated_at     *)
(* among them: every write of the row makes a new one.                     *)
(***************************************************************************)
EXTENDS Integers, FiniteSets, Sequences

LOCAL INSTANCE Functions

CONSTANTS
    Memories,     \* memory ids, used and yet to be created
    Seeded,       \* those that exist at the start, authoritative
    Proposals,    \* proposal ids
    Texts,        \* contents of memories and proposals
    Agents,       \* who proposes
    Requests,     \* threads of the servers that handle a propose request
    Procs,        \* server processes sharing the database
    None,         \* Python's None, SQL's NULL
    MaxWrites     \* bound on the writes of memory rows by other tools

ASSUME WorkflowAssumption ==
    /\ Seeded \subseteq Memories
    /\ None \notin Memories \cup Proposals \cup Texts \cup Agents
    /\ MaxWrites \in Nat

VARIABLES
    mem,        \* the nodes table: a record per id
    updates,    \* the "updates" edges, <<newer, older>>
    proposal,   \* the webmcp_memory_proposals table: a record per id
    trail,      \* the audit events of each proposal, in order
    draft,      \* what a propose request has read so far
    section     \* the review or apply a process is in the middle of

vars == <<mem, updates, proposal, trail, draft, section>>

Absent == [state |-> "absent", text |-> None, version |-> 0,
           superseded |-> FALSE, expired |-> FALSE]

Fresh(text) == [Absent EXCEPT !.state = "stored", !.text = text]

NoProposal == [status |-> "none", target |-> None, version |-> 0, actor |-> None,
               proposed |-> None, approved |-> None, result |-> None]

NoSection == [op |-> "none", q |-> None, current |-> FALSE]

Init ==
    /\ mem \in [Memories -> {Absent} \cup {Fresh(x) : x \in Texts}]
    /\ \A m \in Memories : mem[m].state = "stored" <=> m \in Seeded
    /\ updates = {}
    /\ proposal = [q \in Proposals |-> NoProposal]
    /\ trail = [q \in Proposals |-> <<>>]
    /\ draft = [r \in Requests |-> None]
    /\ section = [p \in Procs |-> NoSection]

-----------------------------------------------------------------------------
(* Authority and staleness                                                 *)

\* authority_status: superseded and expired memories are history.
Authoritative(m) ==
    /\ mem[m].state = "stored"
    /\ ~mem[m].superseded
    /\ ~mem[m].expired
    /\ \A e \in updates : e[2] # m

\* _proposal_target_is_current
TargetIsCurrent(q) ==
    /\ Authoritative(proposal[q].target)
    /\ mem[proposal[q].target].version = proposal[q].version

-----------------------------------------------------------------------------
(* propose_memory_change                                                   *)

ReadTarget(r) ==
    /\ draft[r] = None
    /\ \E m \in Memories, a \in Agents, x \in Texts :
           /\ Authoritative(m)
           /\ draft' = [draft EXCEPT ![r] =
                  [target |-> m, version |-> mem[m].version, actor |-> a, proposed |-> x]]
    /\ UNCHANGED <<mem, updates, proposal, trail, section>>

SameRequest(q, d) ==
    /\ proposal[q].target = d.target
    /\ proposal[q].version = d.version
    /\ proposal[q].actor = d.actor
    /\ proposal[q].proposed = d.proposed

\* Mutant: a retry is not recognised.
AlreadyPending_Never(d) == FALSE

\* The unique index on pending dedupe keys.
AlreadyPending(d) ==
    \E q \in Proposals : proposal[q].status = "pending" /\ SameRequest(q, d)

\* create_or_get_pending, on what was read before: also when that has changed.
CreatePending(r) ==
    /\ draft[r] # None
    /\ \/ AlreadyPending(draft[r]) /\ UNCHANGED proposal
       \/ /\ ~AlreadyPending(draft[r])
          /\ \E q \in Proposals :
                 /\ proposal[q].status = "none"
                 /\ proposal' = [proposal EXCEPT ![q] =
                        [status |-> "pending", target |-> draft[r].target,
                         version |-> draft[r].version, actor |-> draft[r].actor,
                         proposed |-> draft[r].proposed, approved |-> None,
                         result |-> None]]
    /\ draft' = [draft EXCEPT ![r] = None]
    /\ UNCHANGED <<mem, updates, trail, section>>

-----------------------------------------------------------------------------
(* review_memory_change and apply_approved_memory_change                   *)

Enter(p, op, q) ==
    /\ section[p] = NoSection
    /\ section' = [section EXCEPT ![p] =
           [op |-> op, q |-> q, current |-> TargetIsCurrent(q)]]
    /\ UNCHANGED <<mem, updates, proposal, trail, draft>>

\* Mutant: a decided proposal can be reviewed again.
BeginReview_AnyStatus(p, q) == proposal[q].status # "none" /\ Enter(p, "review", q)

\* Any other status is refused with an error and nothing changes.
BeginReview(p, q) == proposal[q].status = "pending" /\ Enter(p, "review", q)

\* An applied proposal is answered with its stored result and nothing changes.
BeginApply(p, q) == proposal[q].status = "approved" /\ Enter(p, "apply", q)

Doing(p, op, q) == section[p].op = op /\ section[p].q = q

Leave(p) == section' = [section EXCEPT ![p] = NoSection]

Log(q, event) == trail' = [trail EXCEPT ![q] = Append(@, event)]

\* Mutant: mark_stale has no status guard.
MarkStale_Always(p, q) ==
    /\ section[p].q = q
    /\ ~section[p].current
    /\ proposal' = [proposal EXCEPT ![q].status = "stale"]
    /\ Log(q, "stale")
    /\ Leave(p)
    /\ UNCHANGED <<mem, updates, draft>>

\* The guarded UPDATE may find another process was faster; the event is logged
\* and PROPOSAL_STALE raised all the same.
MarkStale(p, q) ==
    /\ section[p].q = q
    /\ ~section[p].current
    /\ proposal' = [proposal EXCEPT ![q].status =
           IF @ \in {"pending", "approved"} THEN "stale" ELSE @]
    /\ Log(q, "stale")
    /\ Leave(p)
    /\ UNCHANGED <<mem, updates, draft>>

\* Mutant: an approval without a text of its own does not take the proposed one.
ReviewedText_NoDefault == Texts \cup {None}

\* approved_content if the reviewer gives one, the proposed content otherwise.
ReviewedText == Texts

Approve(p, q) ==
    /\ Doing(p, "review", q) /\ section[p].current
    /\ proposal[q].status = "pending"
    /\ \E x \in ReviewedText :
           proposal' = [proposal EXCEPT ![q].status = "approved", ![q].approved = x]
    /\ Log(q, "approved")
    /\ Leave(p)
    /\ UNCHANGED <<mem, updates, draft>>

Reject(p, q) ==
    /\ Doing(p, "review", q) /\ section[p].current
    /\ proposal[q].status = "pending"
    /\ proposal' = [proposal EXCEPT ![q].status = "rejected"]
    /\ Log(q, "rejected")
    /\ Leave(p)
    /\ UNCHANGED <<mem, updates, draft>>

Supersede(record) == [record EXCEPT !.superseded = TRUE, !.version = @ + 1]

\* The target is superseded and its validity closed; decisions the new text
\* contradicts (_register_conflicts) are superseded along with it.
Retire(target, others) ==
    [m \in Memories |->
        IF m = target THEN [Supersede(mem[m]) EXCEPT !.expired = TRUE]
        ELSE IF m \in others THEN Supersede(mem[m]) ELSE mem[m]]

\* Mutant: the proposer's text is stored, not the reviewer's.
AppliedText_AsProposed(q) == proposal[q].proposed

AppliedText(q) == proposal[q].approved

Stored == {m \in Memories : mem[m].state = "stored"}

\* mark_applied: WHERE status = 'approved'.
StillApproved(q) == proposal[q].status = "approved"

Apply(p, q) ==
    /\ Doing(p, "apply", q) /\ section[p].current
    /\ StillApproved(q)
    /\ proposal[q].target \in Stored    \* add_edge requires both endpoints
    /\ \E new \in Memories, others \in SUBSET Stored :
           /\ mem[new].state = "absent"
           /\ mem' = [Retire(proposal[q].target, others) EXCEPT ![new] = Fresh(AppliedText(q))]
           /\ updates' = updates \cup {<<new, proposal[q].target>>}
           /\ proposal' = [proposal EXCEPT ![q].status = "applied", ![q].result = new]
    /\ Log(q, "applied")
    /\ Leave(p)
    /\ UNCHANGED draft

\* Another process decided first, a statement fails, or the process dies: the
\* transaction is rolled back.
RollBack(p) ==
    /\ section[p] # NoSection
    /\ Leave(p)
    /\ UNCHANGED <<mem, updates, proposal, trail, draft>>

-----------------------------------------------------------------------------
(* The other writers of memory rows, each one transaction under the lock   *)

\* Mutant: direct edits do not take the graph lock.
LockFree_Ignored(p) == TRUE

LockFree(p) == section[p] = NoSection

\* Bound: other tools write only as long as the memories have few versions.
MayWrite(p) ==
    /\ LockFree(p)
    /\ FoldFunction(+, 0, [m \in Memories |-> mem[m].version]) < MaxWrites

\* add_node; the decisions a new one contradicts are superseded.
AddNode(p) ==
    /\ LockFree(p)
    /\ \E new \in Memories, x \in Texts, others \in SUBSET Stored :
           /\ mem[new].state = "absent"
           /\ others # {} => MayWrite(p)
           /\ mem' = [m \in Memories |-> IF m = new THEN Fresh(x)
                                        ELSE IF m \in others THEN Supersede(mem[m])
                                        ELSE mem[m]]
    /\ UNCHANGED <<updates, proposal, trail, draft, section>>

\* update_node may write any field, supersession metadata and validity included;
\* a duplicate that add_node merges and resolve_conflict write the row as well.
UpdateNode(p, m) ==
    /\ MayWrite(p)
    /\ mem[m].state = "stored"
    /\ \E x \in Texts, s \in BOOLEAN, e \in BOOLEAN :
           mem' = [mem EXCEPT ![m] = [state |-> "stored", text |-> x, superseded |-> s,
                                      expired |-> e, version |-> mem[m].version + 1]]
    /\ UNCHANGED <<updates, proposal, trail, draft, section>>

\* add_edge with relationship updates
AddUpdatesEdge(p, new, old) ==
    /\ MayWrite(p)
    /\ {new, old} \subseteq Stored
    /\ <<new, old>> \notin updates
    /\ updates' = updates \cup {<<new, old>>}
    /\ mem' = [mem EXCEPT ![old] = Supersede(@)]
    /\ UNCHANGED <<proposal, trail, draft, section>>

\* delete_edge leaves the superseded metadata of its target in place.
DeleteEdge(p) ==
    /\ LockFree(p)
    /\ \E e \in updates : updates' = updates \ {e}
    /\ UNCHANGED <<mem, proposal, trail, draft, section>>

DeleteNode(p, m) ==
    /\ LockFree(p)
    /\ mem[m].state = "stored"
    /\ mem' = [mem EXCEPT ![m] = [Absent EXCEPT !.state = "deleted"]]
    /\ updates' = {e \in updates : e[1] # m /\ e[2] # m}
    /\ UNCHANGED <<proposal, trail, draft, section>>

-----------------------------------------------------------------------------

ProposalStep(p, q) ==
    \/ BeginReview(p, q) \/ BeginApply(p, q)
    \/ MarkStale(p, q) \/ Approve(p, q) \/ Reject(p, q) \/ Apply(p, q)

MemoryStep(p) ==
    \/ \E m \in Memories : UpdateNode(p, m) \/ DeleteNode(p, m)
    \/ \E new, old \in Memories : AddUpdatesEdge(p, new, old)
    \/ AddNode(p) \/ DeleteEdge(p)

Next ==
    \/ \E r \in Requests : ReadTarget(r) \/ CreatePending(r)
    \/ \E p \in Procs :
           RollBack(p) \/ MemoryStep(p) \/ \E q \in Proposals : ProposalStep(p, q)

Spec == Init /\ [][Next]_vars

-----------------------------------------------------------------------------
MemoryRecord ==
    [state : {"absent", "stored", "deleted"}, text : Texts \cup {None}, version : Nat,
     superseded : BOOLEAN, expired : BOOLEAN]

ProposalRecord ==
    [status : {"none", "pending", "approved", "rejected", "stale", "applied"},
     target : Memories \cup {None}, version : Nat, actor : Agents \cup {None},
     proposed : Texts \cup {None}, approved : Texts \cup {None},
     result : Memories \cup {None}]

\* Type invariant of the two tables, the audit trail and the requests in flight.
TypeOK ==
    /\ mem \in [Memories -> MemoryRecord]
    /\ updates \subseteq Memories \X Memories
    /\ proposal \in [Proposals -> ProposalRecord]
    /\ \A q \in Proposals :
           /\ proposal[q].status # "none" => proposal[q].target \in Memories
           /\ proposal[q].status \in {"approved", "applied"} => proposal[q].approved \in Texts
           /\ proposal[q].status = "applied" => proposal[q].result \in Memories
    /\ trail \in [Proposals -> Seq({"approved", "rejected", "stale", "applied"})]
    /\ draft \in [Requests -> {None} \cup
                  [target : Memories, version : Nat, actor : Agents, proposed : Texts]]
    /\ section \in [Procs -> {NoSection} \cup
                    [op : {"review", "apply"}, q : Proposals, current : BOOLEAN]]

\* README.md: "If the target memory has changed since the proposal was created,
\* the proposal is marked stale instead of overwriting newer information."
NothingNewerIsOverwritten ==
    [][\A q \in Proposals :
           proposal[q].status # "applied" /\ proposal'[q].status = "applied"
               => TargetIsCurrent(q)]_vars

\* README.md: "Approved content cannot be changed by the applying agent", nor by
\* anybody after the review, and it is what becomes authoritative.
ExactApprovedText ==
    [][\A q \in Proposals :
           /\ proposal[q].approved # None => proposal'[q].approved = proposal[q].approved
           /\ proposal[q].status # "applied" /\ proposal'[q].status = "applied"
                => /\ proposal[q].approved # None
                   /\ mem'[proposal'[q].result].text = proposal[q].approved]_vars

\* Two corrections of one version of a memory never both become authority.
OneSuccessorPerVersion ==
    \A q, r \in Proposals :
        /\ proposal[q].status = "applied" /\ proposal[r].status = "applied"
        /\ proposal[q].target = proposal[r].target
        /\ proposal[q].version = proposal[r].version
        => q = r

\* Rejected, stale and applied proposals stay so, whichever process asks again.
DecisionsAreFinal ==
    [][\A q \in Proposals :
           proposal[q].status \in {"rejected", "stale", "applied"}
               => proposal'[q] = proposal[q]]_vars

\* A repeated request, also one racing the first, finds the pending proposal.
OnePendingPerRequest ==
    \A q, r \in Proposals :
        /\ proposal[q].status = "pending" /\ proposal[r].status = "pending"
        /\ SameRequest(q, proposal[r])
        => q = r

\* What the two tables keep for any number of processes: their types and, for a
\* request that is retried or sent twice at once, one pending proposal.
RecordsSound == TypeOK /\ OnePendingPerRequest

TrailOf(status) ==
    CASE status = "none" -> {<<>>}
      [] status = "pending" -> {<<>>}
      [] status = "approved" -> {<<"approved">>}
      [] status = "rejected" -> {<<"rejected">>}
      [] status = "stale" -> {<<"stale">>, <<"approved", "stale">>}
      [] status = "applied" -> {<<"approved", "applied">>}

\* The audit trail tells how a proposal came to its status, event by event.
TrailTellsStatus == \A q \in Proposals : trail[q] \in TrailOf(proposal[q].status)

-----------------------------------------------------------------------------
(* Within one process the workflow implements GovernedMemory.              *)

BaseOf(r) == IF r.target = None THEN None ELSE <<r.target, r.version>>

Governed == INSTANCE GovernedMemory WITH
    NoText <- None,
    NoBase <- None,
    Bases <- Memories \X Nat,
    phase <- [q \in Proposals |-> proposal[q].status],
    base <- [q \in Proposals |-> BaseOf(proposal[q])],
    frozen <- [q \in Proposals |-> proposal[q].approved],
    replaced <- {<<BaseOf(proposal[q]), proposal[q].approved>> :
                    q \in {r \in Proposals : proposal[r].status = "applied"}}

\* Seen by its users, the workflow makes only GovernedMemory's steps.
ImplementsGovernedMemory == Governed!Spec
===============================================================================
