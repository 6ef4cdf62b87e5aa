------------------------ MODULE ProposalWorkflowProofs ------------------------
(***************************************************************************)
(* Theorems of ProposalWorkflow.  The first group holds for any number of  *)
(* processes, because it rests on the guarded UPDATEs alone; the second    *)
(* one for a single process, because it rests on its lock.                 *)
(***************************************************************************)
EXTENDS ProposalWorkflow, SequenceTheorems, TLAPS

-----------------------------------------------------------------------------
(* Types                                                                   *)

LEMMA RecordTypes ==
    /\ Absent \in MemoryRecord
    /\ \A x \in Texts : Fresh(x) \in MemoryRecord
    /\ \A r \in MemoryRecord : Supersede(r) \in MemoryRecord
    /\ NoProposal \in ProposalRecord
<1>1. Absent \in MemoryRecord
  BY DEF Absent, MemoryRecord
<1>2. ASSUME NEW x \in Texts PROVE Fresh(x) \in MemoryRecord
  BY <1>1 DEF Fresh, MemoryRecord
<1>3. ASSUME NEW r \in MemoryRecord PROVE Supersede(r) \in MemoryRecord
  <2>1. r.version + 1 \in Nat
    BY DEF MemoryRecord
  <2> DEFINE v == r.version + 1
  <2>2. [r EXCEPT !.superseded = TRUE] \in MemoryRecord
    BY DEF MemoryRecord
  <2> HIDE DEF v
  <2>3. [[r EXCEPT !.superseded = TRUE] EXCEPT !.version = v] \in MemoryRecord
    BY <2>1, <2>2 DEF MemoryRecord, v
  <2>4. Supersede(r) = [[r EXCEPT !.superseded = TRUE] EXCEPT !.version = v]
    BY DEF Supersede, MemoryRecord, v
  <2> QED
    BY <2>3, <2>4
<1>4. NoProposal \in ProposalRecord
  BY DEF NoProposal, ProposalRecord
<1> QED
  BY <1>1, <1>2, <1>3, <1>4

LEMMA RetireType ==
    ASSUME mem \in [Memories -> MemoryRecord], NEW target, NEW others
    PROVE  Retire(target, others) \in [Memories -> MemoryRecord]
<1>1. ASSUME NEW m \in Memories
      PROVE  /\ Supersede(mem[m]) \in MemoryRecord
             /\ [Supersede(mem[m]) EXCEPT !.expired = TRUE] \in MemoryRecord
  <2>1. Supersede(mem[m]) \in MemoryRecord
    BY RecordTypes
  <2> QED
    BY <2>1 DEF MemoryRecord
<1> QED
  BY <1>1 DEF Retire

LEMMA InitTypes == Init => TypeOK
<1> SUFFICES ASSUME Init PROVE TypeOK
  OBVIOUS
<1>1. mem \in [Memories -> MemoryRecord]
  <2>1. {Absent} \cup {Fresh(x) : x \in Texts} \subseteq MemoryRecord
    BY RecordTypes
  <2> QED
    BY <2>1 DEF Init
<1>2. proposal \in [Proposals -> ProposalRecord]
  BY RecordTypes DEF Init
<1>3. trail \in [Proposals -> Seq({"approved", "rejected", "stale", "applied"})]
  <2>1. <<>> \in Seq({"approved", "rejected", "stale", "applied"})
    OBVIOUS
  <2> QED
    BY <2>1 DEF Init
<1>4. \A q \in Proposals : proposal[q].status = "none"
  BY DEF Init, NoProposal
<1> QED
  BY <1>1, <1>2, <1>3, <1>4 DEF Init, TypeOK

LEMMA LogType ==
    ASSUME trail \in [Proposals -> Seq({"approved", "rejected", "stale", "applied"})],
           NEW q \in Proposals,
           NEW e \in {"approved", "rejected", "stale", "applied"},
           Log(q, e)
    PROVE  trail' \in [Proposals -> Seq({"approved", "rejected", "stale", "applied"})]
<1>1. Append(trail[q], e) \in Seq({"approved", "rejected", "stale", "applied"})
  OBVIOUS
<1> QED
  BY <1>1 DEF Log

\* Every step keeps the types.
LEMMA TypesKept == TypeOK /\ [Next]_vars => TypeOK'
<1> SUFFICES ASSUME TypeOK, [Next]_vars PROVE TypeOK'
  OBVIOUS
<1>1. ASSUME NEW r \in Requests, ReadTarget(r) PROVE TypeOK'
  <2>1. PICK m \in Memories, a \in Agents, x \in Texts :
            draft' = [draft EXCEPT ![r] =
               [target |-> m, version |-> mem[m].version, actor |-> a, proposed |-> x]]
    BY <1>1 DEF ReadTarget
  <2>2. mem[m].version \in Nat
    BY DEF TypeOK, MemoryRecord
  <2>3. draft' \in [Requests -> {None} \cup
            [target : Memories, version : Nat, actor : Agents, proposed : Texts]]
    BY <2>1, <2>2 DEF TypeOK
  <2> QED
    BY <1>1, <2>3 DEF ReadTarget, TypeOK
<1>2. ASSUME NEW r \in Requests, CreatePending(r) PROVE TypeOK'
  <2>1. draft[r] \in [target : Memories, version : Nat, actor : Agents, proposed : Texts]
    BY <1>2 DEF CreatePending, TypeOK
  <2>2. draft' \in [Requests -> {None} \cup
            [target : Memories, version : Nat, actor : Agents, proposed : Texts]]
    BY <1>2 DEF CreatePending, TypeOK
  <2>3. CASE UNCHANGED proposal
    BY <1>2, <2>2, <2>3 DEF CreatePending, TypeOK
  <2>4. CASE ~AlreadyPending(draft[r])
    <3>1. PICK q \in Proposals :
              proposal' = [proposal EXCEPT ![q] =
                 [status |-> "pending", target |-> draft[r].target,
                  version |-> draft[r].version, actor |-> draft[r].actor,
                  proposed |-> draft[r].proposed, approved |-> None, result |-> None]]
      BY <1>2, <2>4 DEF CreatePending
    <3> DEFINE new == [status |-> "pending", target |-> draft[r].target,
                       version |-> draft[r].version, actor |-> draft[r].actor,
                       proposed |-> draft[r].proposed, approved |-> None, result |-> None]
    <3>2. new \in ProposalRecord /\ new.status = "pending" /\ new.target \in Memories
      BY <2>1 DEF ProposalRecord
    <3> HIDE DEF new
    <3>3. proposal' = [proposal EXCEPT ![q] = new]
      BY <3>1 DEF new
    <3> QED
      BY <1>2, <2>2, <3>2, <3>3 DEF CreatePending, TypeOK
  <2> QED
    BY <1>2, <2>3, <2>4 DEF CreatePending
<1>3. ASSUME NEW p \in Procs, NEW q \in Proposals, BeginReview(p, q) \/ BeginApply(p, q)
      PROVE  TypeOK'
  <2> DEFINE c == TargetIsCurrent(q)
  <2>1. c \in BOOLEAN
    BY DEF TargetIsCurrent, Authoritative
  <2>2. PICK op \in {"review", "apply"} :
            section' = [section EXCEPT ![p] = [op |-> op, q |-> q, current |-> c]]
    BY <1>3 DEF BeginReview, BeginApply, Enter
  <2> HIDE DEF c
  <2>3. [op |-> op, q |-> q, current |-> c]
            \in [op : {"review", "apply"}, q : Proposals, current : BOOLEAN]
    BY <2>1
  <2>4. section' \in [Procs -> {NoSection} \cup
                      [op : {"review", "apply"}, q : Proposals, current : BOOLEAN]]
    BY <2>2, <2>3 DEF TypeOK
  <2> QED
    BY <1>3, <2>4 DEF BeginReview, BeginApply, Enter, TypeOK
<1>4. ASSUME NEW p \in Procs, NEW q \in Proposals,
             MarkStale(p, q) \/ Approve(p, q) \/ Reject(p, q)
      PROVE  TypeOK'
  <2>1. section' \in [Procs -> {NoSection} \cup
                      [op : {"review", "apply"}, q : Proposals, current : BOOLEAN]]
    BY <1>4 DEF MarkStale, Approve, Reject, Leave, TypeOK
  <2>2. trail' \in [Proposals -> Seq({"approved", "rejected", "stale", "applied"})]
    BY <1>4, LogType DEF MarkStale, Approve, Reject, TypeOK
  <2>3. proposal[q] \in ProposalRecord
    BY DEF TypeOK
  <2>4. CASE MarkStale(p, q)
    <3> DEFINE s == IF proposal[q].status \in {"pending", "approved"} THEN "stale"
                    ELSE proposal[q].status
    <3>0. (s = "stale" /\ proposal[q].status # "none") \/ s = proposal[q].status
      OBVIOUS
    <3>1. proposal' = [proposal EXCEPT ![q] = [proposal[q] EXCEPT !.status = s]]
      BY <2>4 DEF MarkStale
    <3>2. [proposal[q] EXCEPT !.status = s] \in ProposalRecord
      BY <2>3, <3>0 DEF ProposalRecord
    <3> HIDE DEF s
    <3>3. proposal' \in [Proposals -> ProposalRecord]
      BY <3>1, <3>2 DEF TypeOK
    <3>4. \A u \in Proposals : u # q => proposal'[u] = proposal[u]
      BY <3>1 DEF TypeOK
    <3>5. /\ proposal'[q].target = proposal[q].target
          /\ proposal'[q].approved = proposal[q].approved
          /\ proposal'[q].result = proposal[q].result
          /\ proposal'[q].status = s
      BY <3>1, <2>3 DEF ProposalRecord, TypeOK
    <3> QED
      BY <2>4, <2>1, <2>2, <3>0, <3>3, <3>4, <3>5 DEF MarkStale, TypeOK
  <2>5. CASE Approve(p, q)
    <3>1. PICK x \in Texts : proposal' =
              [proposal EXCEPT ![q] = [proposal[q] EXCEPT !.status = "approved", !.approved = x]]
      BY <2>5 DEF Approve, ReviewedText, TypeOK
    <3>2. proposal' \in [Proposals -> ProposalRecord]
      BY <3>1, <2>3 DEF ProposalRecord, TypeOK
    <3>3. proposal[q].status = "pending"
      BY <2>5 DEF Approve
    <3>4. \A u \in Proposals :
             /\ proposal'[u].target = proposal[u].target
             /\ u # q => proposal'[u] = proposal[u]
      BY <3>1, <2>3 DEF ProposalRecord, TypeOK
    <3>5. proposal'[q].status = "approved" /\ proposal'[q].approved = x
      BY <3>1, <2>3 DEF ProposalRecord, TypeOK
    <3> QED
      BY <2>5, <2>1, <2>2, <3>2, <3>3, <3>4, <3>5 DEF Approve, TypeOK
  <2>6. CASE Reject(p, q)
    <3>1. proposal' = [proposal EXCEPT ![q] = [proposal[q] EXCEPT !.status = "rejected"]]
      BY <2>6 DEF Reject
    <3>2. proposal' \in [Proposals -> ProposalRecord]
      BY <3>1, <2>3 DEF ProposalRecord, TypeOK
    <3>3. \A u \in Proposals :
             /\ proposal'[u].target = proposal[u].target
             /\ u # q => proposal'[u] = proposal[u]
      BY <3>1, <2>3 DEF ProposalRecord, TypeOK
    <3>4. proposal[q].status = "pending" /\ proposal'[q].status = "rejected"
      BY <3>1, <2>3, <2>6 DEF ProposalRecord, TypeOK, Reject
    <3> QED
      BY <2>6, <2>1, <2>2, <3>2, <3>3, <3>4 DEF Reject, TypeOK
  <2> QED
    BY <1>4, <2>4, <2>5, <2>6
<1>5. ASSUME NEW p \in Procs, NEW q \in Proposals, Apply(p, q) PROVE TypeOK'
  <2>1. section' \in [Procs -> {NoSection} \cup
                      [op : {"review", "apply"}, q : Proposals, current : BOOLEAN]]
    BY <1>5 DEF Apply, Leave, TypeOK
  <2>2. trail' \in [Proposals -> Seq({"approved", "rejected", "stale", "applied"})]
    BY <1>5, LogType DEF Apply, TypeOK
  <2>3. /\ proposal[q] \in ProposalRecord /\ proposal[q].status = "approved"
        /\ proposal[q].target \in Memories /\ proposal[q].approved \in Texts
    BY <1>5 DEF Apply, StillApproved, TypeOK
  <2>4. PICK new \in Memories, others \in SUBSET Stored :
           /\ mem' = [Retire(proposal[q].target, others) EXCEPT ![new] = Fresh(AppliedText(q))]
           /\ updates' = updates \cup {<<new, proposal[q].target>>}
           /\ proposal' = [proposal EXCEPT ![q] =
                             [proposal[q] EXCEPT !.status = "applied", !.result = new]]
    BY <1>5 DEF Apply
  <2>5. mem' \in [Memories -> MemoryRecord]
    BY <2>3, <2>4, RetireType, RecordTypes DEF AppliedText, TypeOK
  <2>6. proposal' \in [Proposals -> ProposalRecord]
    BY <2>3, <2>4 DEF ProposalRecord, TypeOK
  <2>7. \A u \in Proposals : u # q => proposal'[u] = proposal[u]
    BY <2>4 DEF TypeOK
  <2>8. /\ proposal'[q].status = "applied" /\ proposal'[q].result = new
        /\ proposal'[q].target = proposal[q].target
        /\ proposal'[q].approved = proposal[q].approved
    BY <2>3, <2>4 DEF ProposalRecord, TypeOK
  <2>9. updates' \subseteq Memories \X Memories
    BY <2>3, <2>4 DEF TypeOK
  <2> QED
    BY <1>5, <2>1, <2>2, <2>3, <2>5, <2>6, <2>7, <2>8, <2>9 DEF Apply, TypeOK
<1>6. ASSUME NEW p \in Procs, RollBack(p) PROVE TypeOK'
  BY <1>6 DEF RollBack, Leave, TypeOK
<1>7. ASSUME NEW p \in Procs, AddNode(p) PROVE TypeOK'
  BY <1>7, RecordTypes DEF AddNode, TypeOK
<1>8. ASSUME NEW p \in Procs, NEW m \in Memories, UpdateNode(p, m) PROVE TypeOK'
  <2>1. PICK x \in Texts, s \in BOOLEAN, e \in BOOLEAN :
            mem' = [mem EXCEPT ![m] = [state |-> "stored", text |-> x, superseded |-> s,
                                       expired |-> e, version |-> mem[m].version + 1]]
    BY <1>8 DEF UpdateNode
  <2> DEFINE v == mem[m].version + 1
  <2>2. v \in Nat
    BY DEF TypeOK, MemoryRecord
  <2> HIDE DEF v
  <2>3. [state |-> "stored", text |-> x, superseded |-> s, expired |-> e, version |-> v]
            \in MemoryRecord
    BY <2>2 DEF MemoryRecord
  <2>4. mem' \in [Memories -> MemoryRecord]
    BY <2>1, <2>3 DEF TypeOK, v
  <2> QED
    BY <1>8, <2>4 DEF UpdateNode, TypeOK
<1>9. ASSUME NEW p \in Procs, NEW m \in Memories, DeleteNode(p, m) PROVE TypeOK'
  <2>1. [Absent EXCEPT !.state = "deleted"] \in MemoryRecord
    BY DEF Absent, MemoryRecord
  <2> QED
    BY <1>9, <2>1 DEF DeleteNode, TypeOK
<1>10. ASSUME NEW p \in Procs, NEW n \in Memories, NEW o \in Memories, AddUpdatesEdge(p, n, o)
       PROVE  TypeOK'
  BY <1>10, RecordTypes DEF AddUpdatesEdge, TypeOK
<1>11. ASSUME NEW p \in Procs, DeleteEdge(p) PROVE TypeOK'
  BY <1>11 DEF DeleteEdge, TypeOK
<1>12. CASE UNCHANGED vars
  BY <1>12 DEF vars, TypeOK
<1> QED
  BY <1>1, <1>2, <1>3, <1>4, <1>5, <1>6, <1>7, <1>8, <1>9, <1>10, <1>11, <1>12
     DEF Next, MemoryStep, ProposalStep

\* The two tables, the audit trail and the requests keep their types, and an
\* approved proposal has a text, an applied one a result.
THEOREM TypeCorrect == Spec => []TypeOK
<1>1. Init => TypeOK
  BY InitTypes
<1>2. TypeOK /\ [Next]_vars => TypeOK'
  BY TypesKept
<1> QED
  BY <1>1, <1>2, PTL DEF Spec

-----------------------------------------------------------------------------
(* What a step does to one proposal                                        *)

Identity(q) ==
    /\ proposal'[q].target = proposal[q].target
    /\ proposal'[q].version = proposal[q].version
    /\ proposal'[q].actor = proposal[q].actor
    /\ proposal'[q].proposed = proposal[q].proposed

IsCreated(q) ==
    /\ proposal[q].status = "none"
    /\ proposal'[q].status = "pending"
    /\ proposal'[q].approved = None
    /\ proposal'[q].target \in Memories
    /\ ~AlreadyPending(proposal'[q])

IsApproved(q) ==
    /\ proposal[q].status = "pending"
    /\ proposal'[q].status = "approved"
    /\ proposal'[q].approved \in Texts
    /\ Identity(q)

IsClosed(q) ==
    /\ \/ proposal[q].status = "pending" /\ proposal'[q].status = "rejected"
       \/ proposal[q].status \in {"pending", "approved"} /\ proposal'[q].status = "stale"
    /\ proposal'[q].approved = proposal[q].approved
    /\ Identity(q)

IsApplied(q) ==
    /\ proposal[q].status = "approved"
    /\ proposal'[q].status = "applied"
    /\ proposal'[q].approved = proposal[q].approved
    /\ proposal'[q].result \in Memories
    /\ mem'[proposal'[q].result].text = proposal[q].approved
    /\ Identity(q)

Changes(q) == IsCreated(q) \/ IsApproved(q) \/ IsClosed(q) \/ IsApplied(q)

LEMMA CreateCase ==
    ASSUME TypeOK, NEW r \in Requests, CreatePending(r)
    PROVE  \/ UNCHANGED proposal
           \/ \E q \in Proposals :
                 /\ IsCreated(q)
                 /\ \A u \in Proposals : u # q => proposal'[u] = proposal[u]
<1>1. CASE UNCHANGED proposal
  BY <1>1
<1>2. CASE ~AlreadyPending(draft[r])
  <2>1. draft[r] \in [target : Memories, version : Nat, actor : Agents, proposed : Texts]
    BY DEF CreatePending, TypeOK
  <2> DEFINE new == [status |-> "pending", target |-> draft[r].target,
                     version |-> draft[r].version, actor |-> draft[r].actor,
                     proposed |-> draft[r].proposed, approved |-> None, result |-> None]
  <2>2. PICK q \in Proposals :
            proposal[q].status = "none" /\ proposal' = [proposal EXCEPT ![q] = new]
    BY <1>2 DEF CreatePending
  <2>3. proposal'[q] = new /\ \A u \in Proposals : u # q => proposal'[u] = proposal[u]
    BY <2>2 DEF TypeOK
  <2>4. ~AlreadyPending(new)
    BY <1>2 DEF AlreadyPending, SameRequest
  <2>5. new.status = "pending" /\ new.approved = None /\ new.target \in Memories
    BY <2>1
  <2> QED
    BY <2>2, <2>3, <2>4, <2>5 DEF IsCreated
<1> QED
  BY <1>1, <1>2 DEF CreatePending

LEMMA CloseCase ==
    ASSUME TypeOK, NEW p \in Procs, NEW q \in Proposals, MarkStale(p, q) \/ Reject(p, q)
    PROVE  /\ proposal'[q] = proposal[q] \/ IsClosed(q)
           /\ \A u \in Proposals : u # q => proposal'[u] = proposal[u]
<1>0. proposal[q] \in ProposalRecord
  BY DEF TypeOK
<1>1. CASE MarkStale(p, q)
  <2>1. CASE proposal[q].status \in {"pending", "approved"}
    <3>1. proposal' = [proposal EXCEPT ![q] = [proposal[q] EXCEPT !.status = "stale"]]
      BY <1>1, <2>1 DEF MarkStale
    <3> QED
      BY <1>0, <2>1, <3>1 DEF TypeOK, ProposalRecord, IsClosed, Identity
  <2>2. CASE proposal[q].status \notin {"pending", "approved"}
    <3>1. proposal' = [proposal EXCEPT ![q] =
                          [proposal[q] EXCEPT !.status = proposal[q].status]]
      BY <1>1, <2>2 DEF MarkStale
    <3>2. [proposal[q] EXCEPT !.status = proposal[q].status] = proposal[q]
      BY <1>0 DEF ProposalRecord
    <3> QED
      BY <3>1, <3>2 DEF TypeOK
  <2> QED
    BY <2>1, <2>2
<1>2. CASE Reject(p, q)
  <2>1. /\ proposal' = [proposal EXCEPT ![q] = [proposal[q] EXCEPT !.status = "rejected"]]
        /\ proposal[q].status = "pending"
    BY <1>2 DEF Reject
  <2> QED
    BY <1>0, <2>1 DEF TypeOK, ProposalRecord, IsClosed, Identity
<1> QED
  BY <1>1, <1>2

LEMMA ApproveCase ==
    ASSUME TypeOK, NEW p \in Procs, NEW q \in Proposals, Approve(p, q)
    PROVE  IsApproved(q) /\ \A u \in Proposals : u # q => proposal'[u] = proposal[u]
<1>1. PICK x \in Texts : proposal' =
          [proposal EXCEPT ![q] = [proposal[q] EXCEPT !.status = "approved", !.approved = x]]
  BY DEF Approve, ReviewedText, TypeOK
<1>2. proposal[q].status = "pending" /\ proposal[q] \in ProposalRecord
  BY DEF Approve, TypeOK
<1> QED
  BY <1>1, <1>2 DEF TypeOK, ProposalRecord, IsApproved, Identity

LEMMA ApplyCase ==
    ASSUME TypeOK, NEW p \in Procs, NEW q \in Proposals, Apply(p, q)
    PROVE  /\ IsApplied(q)
           /\ \A u \in Proposals : u # q => proposal'[u] = proposal[u]
           /\ proposal[q].target \in Stored
           /\ \E new \in Memories, others \in SUBSET Stored :
                 /\ mem[new].state = "absent"
                 /\ mem' = [Retire(proposal[q].target, others) EXCEPT ![new] =
                               Fresh(proposal[q].approved)]
<1>1. PICK new \in Memories, others \in SUBSET Stored :
         /\ mem[new].state = "absent"
         /\ mem' = [Retire(proposal[q].target, others) EXCEPT ![new] = Fresh(AppliedText(q))]
         /\ proposal' = [proposal EXCEPT ![q] =
                           [proposal[q] EXCEPT !.status = "applied", !.result = new]]
  BY DEF Apply
<1>2. proposal[q].status = "approved" /\ proposal[q] \in ProposalRecord
  BY DEF Apply, StillApproved, TypeOK
<1>3. mem'[new] = Fresh(proposal[q].approved)
  BY <1>1 DEF Retire, AppliedText
<1>4. Fresh(proposal[q].approved).text = proposal[q].approved
  BY DEF Fresh, Absent
<1>5. proposal'[q] = [proposal[q] EXCEPT !.status = "applied", !.result = new]
  BY <1>1 DEF TypeOK
<1>6. IsApplied(q)
  BY <1>2, <1>3, <1>4, <1>5 DEF ProposalRecord, IsApplied, Identity
<1> QED
  BY <1>1, <1>6 DEF TypeOK, Apply, AppliedText

\* Every step leaves the proposals alone or moves one of them along its life.
LEMMA OneChanges ==
    ASSUME TypeOK, [Next]_vars
    PROVE  \/ UNCHANGED proposal
           \/ \E q \in Proposals :
                 /\ Changes(q) \/ proposal'[q] = proposal[q]
                 /\ \A u \in Proposals : u # q => proposal'[u] = proposal[u]
<1>1. ASSUME NEW r \in Requests, CreatePending(r)
      PROVE  \/ UNCHANGED proposal
             \/ \E q \in Proposals :
                   /\ IsCreated(q)
                   /\ \A u \in Proposals : u # q => proposal'[u] = proposal[u]
  BY <1>1, CreateCase
<1>2. ASSUME NEW p \in Procs, NEW q \in Proposals,
             MarkStale(p, q) \/ Reject(p, q) \/ Approve(p, q) \/ Apply(p, q)
      PROVE  /\ Changes(q) \/ proposal'[q] = proposal[q]
             /\ \A u \in Proposals : u # q => proposal'[u] = proposal[u]
  BY <1>2, CloseCase, ApproveCase, ApplyCase DEF Changes
<1>3. ASSUME NEW p \in Procs, MemoryStep(p) \/ RollBack(p) PROVE UNCHANGED proposal
  BY <1>3 DEF MemoryStep, RollBack, UpdateNode, DeleteNode, AddUpdatesEdge, AddNode, DeleteEdge
<1>4. ASSUME NEW p \in Procs, NEW q \in Proposals, BeginReview(p, q) \/ BeginApply(p, q)
      PROVE  UNCHANGED proposal
  BY <1>4 DEF BeginReview, BeginApply, Enter
<1>5. ASSUME NEW r \in Requests, ReadTarget(r) PROVE UNCHANGED proposal
  BY <1>5 DEF ReadTarget
<1> QED
  BY <1>1, <1>2, <1>3, <1>4, <1>5 DEF Next, ProposalStep, Changes, vars

-----------------------------------------------------------------------------
(* Any number of processes                                                 *)

\* DecisionsAreFinal: a rejected, stale or applied proposal never changes again.
THEOREM DecidedForGood == Spec => DecisionsAreFinal
<1>1. ASSUME TypeOK, [Next]_vars, NEW q \in Proposals,
             proposal[q].status \in {"rejected", "stale", "applied"}
      PROVE  proposal'[q] = proposal[q]
  BY <1>1, OneChanges DEF Changes, IsCreated, IsApproved, IsClosed, IsApplied
<1>2. TypeOK /\ [Next]_vars
          => [\A q \in Proposals :
                 proposal[q].status \in {"rejected", "stale", "applied"}
                     => proposal'[q] = proposal[q]]_vars
  BY <1>1
<1> QED
  BY <1>2, TypeCorrect, PTL DEF Spec, DecisionsAreFinal

\* Before the review there is no approved text.
TextAwaited ==
    \A q \in Proposals :
        proposal[q].status \in {"none", "pending"} => proposal[q].approved = None

LEMMA TextAwaitedInvariant == Spec => []TextAwaited
<1>1. Init => TextAwaited
  BY DEF Init, NoProposal, TextAwaited
<1>2. TypeOK /\ TextAwaited /\ [Next]_vars => TextAwaited'
  BY OneChanges DEF TextAwaited, Changes, IsCreated, IsApproved, IsClosed, IsApplied
<1> QED
  BY <1>1, <1>2, TypeCorrect, PTL DEF Spec

\* ExactApprovedText: what the reviewer approved is what is applied.
THEOREM ApprovedTextIsExact == Spec => ExactApprovedText
<1>1. ASSUME TypeOK, TextAwaited, [Next]_vars, NEW q \in Proposals
      PROVE  /\ proposal[q].approved # None => proposal'[q].approved = proposal[q].approved
             /\ proposal[q].status # "applied" /\ proposal'[q].status = "applied"
                 => /\ proposal[q].approved # None
                    /\ mem'[proposal'[q].result].text = proposal[q].approved
  <2>1. proposal[q].status = "approved" => proposal[q].approved # None
    BY <1>1, WorkflowAssumption DEF TypeOK
  <2>2. Changes(q) \/ proposal'[q] = proposal[q]
    BY <1>1, OneChanges
  <2> QED
    BY <1>1, <2>1, <2>2
       DEF TextAwaited, Changes, IsCreated, IsApproved, IsClosed, IsApplied
<1>2. TypeOK /\ TextAwaited /\ [Next]_vars
          => [\A q \in Proposals :
                /\ proposal[q].approved # None
                     => proposal'[q].approved = proposal[q].approved
                /\ proposal[q].status # "applied" /\ proposal'[q].status = "applied"
                     => /\ proposal[q].approved # None
                        /\ mem'[proposal'[q].result].text = proposal[q].approved]_vars
  BY <1>1
<1> QED
  BY <1>2, TypeCorrect, TextAwaitedInvariant, PTL DEF Spec, ExactApprovedText

\* OnePendingPerRequest: retries never pile up, the unique index sees to it.
THEOREM RetriesDoNotPileUp == Spec => []OnePendingPerRequest
<1>1. Init => OnePendingPerRequest
  BY DEF Init, NoProposal, OnePendingPerRequest
<1>2. ASSUME TypeOK, OnePendingPerRequest, [Next]_vars PROVE OnePendingPerRequest'
  <2>1. CASE UNCHANGED proposal
    BY <1>2, <2>1 DEF OnePendingPerRequest, SameRequest
  <2>2. ASSUME NEW q \in Proposals, Changes(q) \/ proposal'[q] = proposal[q],
               \A u \in Proposals : u # q => proposal'[u] = proposal[u]
        PROVE  OnePendingPerRequest'
    <3>1. CASE IsCreated(q)
      BY <1>2, <2>2, <3>1
         DEF OnePendingPerRequest, SameRequest, IsCreated, AlreadyPending
    <3>2. CASE IsApproved(q) \/ IsClosed(q) \/ IsApplied(q)
      BY <1>2, <2>2, <3>2
         DEF OnePendingPerRequest, SameRequest, IsApproved, IsClosed, IsApplied
    <3>3. CASE proposal'[q] = proposal[q]
      BY <1>2, <2>2, <3>3 DEF OnePendingPerRequest, SameRequest
    <3> QED
      BY <2>2, <3>1, <3>2, <3>3 DEF Changes
  <2> QED
    BY <1>2, <2>1, <2>2, OneChanges
<1> QED
  BY <1>1, <1>2, TypeCorrect, PTL DEF Spec

-----------------------------------------------------------------------------
(* One process: its lock makes a review or an apply one step               *)

OneProcess == \A p, r \in Procs : p = r

\* What a review or an apply has read is still so.
SectionInv ==
    \A p \in Procs :
        section[p] # NoSection =>
            /\ section[p].q \in Proposals
            /\ section[p].op \in {"review", "apply"}
            /\ section[p].op = "review" => proposal[section[p].q].status = "pending"
            /\ section[p].op = "apply" => proposal[section[p].q].status = "approved"
            /\ section[p].current => TargetIsCurrent(section[p].q)

LEMMA SectionInvariant ==
    ASSUME OneProcess
    PROVE  Spec => []SectionInv
<1>1. Init => SectionInv
  BY DEF Init, SectionInv
<1>2. ASSUME TypeOK, SectionInv, [Next]_vars PROVE SectionInv'
  <2>1. ASSUME NEW r \in Requests, ReadTarget(r) PROVE SectionInv'
    BY <1>2, <2>1 DEF ReadTarget, SectionInv, TargetIsCurrent, Authoritative
  <2>2. ASSUME NEW r \in Requests, CreatePending(r) PROVE SectionInv'
    <3>1. \A q \in Proposals : proposal[q].status # "none" => proposal'[q] = proposal[q]
      BY <1>2, <2>2, CreateCase DEF IsCreated
    <3>2. section' = section /\ mem' = mem /\ updates' = updates
      BY <2>2 DEF CreatePending
    <3> QED
      BY <1>2, <3>1, <3>2 DEF SectionInv, TargetIsCurrent, Authoritative
  <2>3. ASSUME NEW p \in Procs, NEW q \in Proposals, BeginReview(p, q) \/ BeginApply(p, q)
        PROVE  SectionInv'
    <3> DEFINE c == TargetIsCurrent(q)
    <3>1. c \in BOOLEAN /\ (c => TargetIsCurrent(q))
      BY DEF TargetIsCurrent, Authoritative
    <3>2. PICK op \in {"review", "apply"} :
             /\ section' = [section EXCEPT ![p] = [op |-> op, q |-> q, current |-> c]]
             /\ op = "review" => proposal[q].status = "pending"
             /\ op = "apply" => proposal[q].status = "approved"
             /\ UNCHANGED <<mem, updates, proposal>>
      BY <2>3 DEF BeginReview, BeginApply, Enter
    <3>3. TargetIsCurrent(q) <=> TargetIsCurrent(q)'
      BY <3>2 DEF TargetIsCurrent, Authoritative
    <3> HIDE DEF c
    <3>4. section'[p] = [op |-> op, q |-> q, current |-> c]
      BY <1>2, <3>2 DEF TypeOK
    <3>5. section'[p].q = q /\ section'[p].op = op /\ section'[p].current = c
      BY <3>4
    <3>6. section'[p].current => TargetIsCurrent(q)'
      BY <3>1, <3>3, <3>5, Zenon
    <3>7. \A r \in Procs : r = p
      BY DEF OneProcess
    <3> QED
      BY <3>2, <3>5, <3>6, <3>7 DEF SectionInv
  <2>4. ASSUME NEW p \in Procs, section'[p] = NoSection PROVE SectionInv'
    BY <2>4 DEF SectionInv, OneProcess
  <2>5. ASSUME NEW p \in Procs, MemoryStep(p) PROVE SectionInv'
    <3>1. section[p] = NoSection /\ section' = section
      BY <2>5 DEF MemoryStep, UpdateNode, DeleteNode, AddUpdatesEdge, AddNode, DeleteEdge,
                  MayWrite, LockFree
    <3> QED
      BY <3>1, <2>4
  <2>6. ASSUME NEW p \in Procs, NEW q \in Proposals,
               MarkStale(p, q) \/ Approve(p, q) \/ Reject(p, q) \/ Apply(p, q)
        PROVE  SectionInv'
    <3>1. section'[p] = NoSection
      BY <1>2, <2>6 DEF MarkStale, Approve, Reject, Apply, Leave, TypeOK
    <3> QED
      BY <3>1, <2>4
  <2>7. ASSUME NEW p \in Procs, RollBack(p) PROVE SectionInv'
    <3>1. section'[p] = NoSection
      BY <1>2, <2>7 DEF RollBack, Leave, TypeOK
    <3> QED
      BY <3>1, <2>4
  <2>8. CASE UNCHANGED vars
    BY <1>2, <2>8 DEF vars, SectionInv, TargetIsCurrent, Authoritative
  <2> QED
    BY <1>2, <2>1, <2>2, <2>3, <2>5, <2>6, <2>7, <2>8 DEF Next, ProposalStep
<1> QED
  BY <1>1, <1>2, TypeCorrect, PTL DEF Spec

\* The steps of a review or an apply work on what they have read.
LEMMA SectionFacts ==
    ASSUME TypeOK, SectionInv, NEW p \in Procs, NEW q \in Proposals
    PROVE  /\ Apply(p, q) => TargetIsCurrent(q)
           /\ MarkStale(p, q) => proposal[q].status \in {"pending", "approved"}
<1>1. section[p].q = q => section[p] # NoSection
  BY WorkflowAssumption DEF NoSection
<1>2. Apply(p, q) => section[p].q = q /\ section[p].current
  BY DEF Apply, Doing
<1>3. MarkStale(p, q) => section[p].q = q
  BY DEF MarkStale
<1> QED
  BY <1>1, <1>2, <1>3 DEF SectionInv

\* Only an apply step makes a proposal applied.
LEMMA AppliedByApply ==
    ASSUME TypeOK, [Next]_vars, NEW q \in Proposals,
           proposal[q].status # "applied", proposal'[q].status = "applied"
    PROVE  \E p \in Procs : Apply(p, q)
<1>1. ASSUME NEW r \in Requests, CreatePending(r) PROVE FALSE
  BY <1>1, CreateCase DEF IsCreated
<1>2. ASSUME NEW p \in Procs, NEW u \in Proposals,
             MarkStale(p, u) \/ Reject(p, u) \/ Approve(p, u)
      PROVE  FALSE
  BY <1>2, CloseCase, ApproveCase DEF IsClosed, IsApproved
<1>3. ASSUME NEW p \in Procs, NEW u \in Proposals, Apply(p, u) PROVE u = q
  BY <1>3, ApplyCase
<1>4. ASSUME NEW p \in Procs, NEW u \in Proposals,
             MemoryStep(p) \/ RollBack(p) \/ BeginReview(p, u) \/ BeginApply(p, u)
      PROVE  FALSE
  BY <1>4 DEF MemoryStep, RollBack, UpdateNode, DeleteNode, AddUpdatesEdge, AddNode,
              DeleteEdge, BeginReview, BeginApply, Enter
<1>5. ASSUME NEW r \in Requests, ReadTarget(r) PROVE FALSE
  BY <1>5 DEF ReadTarget
<1>6. ~UNCHANGED vars
  BY DEF vars
<1> QED
  BY <1>1, <1>2, <1>3, <1>4, <1>5, <1>6 DEF Next, ProposalStep

\* NothingNewerIsOverwritten: apply supersedes the version that was reviewed.
THEOREM AppliesToCurrentVersion ==
    ASSUME OneProcess
    PROVE  Spec => NothingNewerIsOverwritten
<1>1. ASSUME TypeOK, SectionInv, [Next]_vars, NEW q \in Proposals,
             proposal[q].status # "applied", proposal'[q].status = "applied"
      PROVE  TargetIsCurrent(q)
  BY <1>1, AppliedByApply, SectionFacts
<1>2. TypeOK /\ SectionInv /\ [Next]_vars
          => [\A q \in Proposals :
                 proposal[q].status # "applied" /\ proposal'[q].status = "applied"
                     => TargetIsCurrent(q)]_vars
  BY <1>1
<1> QED
  BY <1>2, TypeCorrect, SectionInvariant, PTL DEF Spec, NothingNewerIsOverwritten

\* An id once used stays used, and the versions of a row go up.
LEMMA VersionsGoUp ==
    ASSUME TypeOK, [Next]_vars, NEW m \in Memories, mem[m].state # "absent"
    PROVE  /\ mem'[m].state # "absent"
           /\ mem'[m].state = "stored" =>
                mem[m].state = "stored" /\ mem'[m].version >= mem[m].version
<1>0. mem[m] \in MemoryRecord /\ mem[m].version \in Nat
  BY DEF TypeOK, MemoryRecord
<1>1. /\ Supersede(mem[m]).state = mem[m].state
      /\ Supersede(mem[m]).version = mem[m].version + 1
  BY <1>0 DEF Supersede, MemoryRecord
<1>2. ASSUME NEW target, NEW others \in SUBSET Stored, target \in Stored
      PROVE  \/ Retire(target, others)[m] = mem[m]
             \/ /\ Retire(target, others)[m].state = mem[m].state
                /\ Retire(target, others)[m].version = mem[m].version + 1
  <2>1. Supersede(mem[m]) \in MemoryRecord
    BY <1>0, RecordTypes
  <2>2. /\ [Supersede(mem[m]) EXCEPT !.expired = TRUE].state = mem[m].state
        /\ [Supersede(mem[m]) EXCEPT !.expired = TRUE].version = mem[m].version + 1
    BY <1>1, <2>1 DEF MemoryRecord
  <2>3. Retire(target, others)[m]
            \in {[Supersede(mem[m]) EXCEPT !.expired = TRUE], Supersede(mem[m]), mem[m]}
    BY DEF Retire
  <2> QED
    BY <1>1, <2>2, <2>3
<1>3. ASSUME NEW p \in Procs, NEW q \in Proposals, Apply(p, q)
      PROVE  \/ mem'[m] = mem[m]
             \/ mem'[m].state = mem[m].state /\ mem'[m].version = mem[m].version + 1
  <2>1. PICK new \in Memories, others \in SUBSET Stored :
           /\ mem[new].state = "absent"
           /\ mem' = [Retire(proposal[q].target, others) EXCEPT ![new] =
                        Fresh(proposal[q].approved)]
    BY <1>3, ApplyCase
  <2>2. mem'[m] = Retire(proposal[q].target, others)[m]
    BY <2>1 DEF Retire
  <2>3. proposal[q].target \in Stored
    BY <1>3, ApplyCase
  <2> QED
    BY <1>2, <2>2, <2>3
<1>4. ASSUME NEW p \in Procs, AddNode(p)
      PROVE  \/ mem'[m] = mem[m]
             \/ mem'[m].state = mem[m].state /\ mem'[m].version = mem[m].version + 1
  BY <1>1, <1>4 DEF AddNode
<1>5. ASSUME NEW p \in Procs, NEW n \in Memories, UpdateNode(p, n)
      PROVE  \/ mem'[m] = mem[m]
             \/ mem'[m].state = mem[m].state /\ mem'[m].version = mem[m].version + 1
  BY <1>5 DEF UpdateNode, TypeOK
<1>6. ASSUME NEW p \in Procs, NEW n \in Memories, NEW o \in Memories, AddUpdatesEdge(p, n, o)
      PROVE  \/ mem'[m] = mem[m]
             \/ mem'[m].state = mem[m].state /\ mem'[m].version = mem[m].version + 1
  BY <1>1, <1>6 DEF AddUpdatesEdge, TypeOK
<1>7. ASSUME NEW p \in Procs, NEW n \in Memories, DeleteNode(p, n)
      PROVE  mem'[m] = mem[m] \/ mem'[m].state = "deleted"
  BY <1>7 DEF DeleteNode, TypeOK, Absent
<1>8. ASSUME NEW p \in Procs, NEW q \in Proposals,
             \/ RollBack(p) \/ DeleteEdge(p) \/ BeginReview(p, q) \/ BeginApply(p, q)
             \/ MarkStale(p, q) \/ Approve(p, q) \/ Reject(p, q)
      PROVE  mem'[m] = mem[m]
  BY <1>8 DEF RollBack, DeleteEdge, BeginReview, BeginApply, Enter, MarkStale, Approve, Reject
<1>9. ASSUME NEW p \in Procs, RollBack(p) \/ DeleteEdge(p) PROVE mem'[m] = mem[m]
  BY <1>9 DEF RollBack, DeleteEdge
<1>10. ASSUME NEW r \in Requests, ReadTarget(r) \/ CreatePending(r) PROVE mem'[m] = mem[m]
  BY <1>10 DEF ReadTarget, CreatePending
<1>11. CASE UNCHANGED vars
  BY <1>0, <1>11 DEF vars
<1>12. \/ mem'[m] = mem[m]
       \/ mem'[m].state = mem[m].state /\ mem'[m].version = mem[m].version + 1
       \/ mem'[m].state = "deleted"
  BY <1>3, <1>4, <1>5, <1>6, <1>7, <1>8, <1>9, <1>10, <1>11 DEF Next, MemoryStep, ProposalStep, vars
<1> QED
  BY <1>0, <1>12

\* The version an applied proposal corrected is gone.
Outdated(q) ==
    LET m == proposal[q].target
    IN  /\ mem[m].state # "absent"
        /\ mem[m].state = "stored" => mem[m].version > proposal[q].version

AppliedOutdates == \A q \in Proposals : proposal[q].status = "applied" => Outdated(q)

LEMMA ApplyOutdates ==
    ASSUME TypeOK, NEW p \in Procs, NEW q \in Proposals, Apply(p, q), TargetIsCurrent(q)
    PROVE  Outdated(q)'
<1>1. PICK new \in Memories, others \in SUBSET Stored :
         /\ mem[new].state = "absent"
         /\ mem' = [Retire(proposal[q].target, others) EXCEPT ![new] =
                      Fresh(proposal[q].approved)]
  BY ApplyCase
<1> DEFINE m == proposal[q].target
<1>2. m \in Stored /\ m \in Memories /\ m # new /\ mem[m].state = "stored"
  BY <1>1, ApplyCase DEF Stored
<1>3. mem[m] \in MemoryRecord /\ mem[m].version = proposal[q].version
  BY <1>2 DEF TypeOK, TargetIsCurrent
<1>4. mem'[m] = [Supersede(mem[m]) EXCEPT !.expired = TRUE]
  BY <1>1, <1>2 DEF Retire
<1>5. mem'[m].state = "stored" /\ mem'[m].version = mem[m].version + 1
  BY <1>2, <1>3, <1>4 DEF Supersede, MemoryRecord
<1>6. proposal'[q].target = m /\ proposal'[q].version = proposal[q].version
  BY ApplyCase DEF IsApplied, Identity
<1>7. mem[m].version \in Nat
  BY <1>3 DEF MemoryRecord
<1> QED
  BY <1>3, <1>5, <1>6, <1>7 DEF Outdated

LEMMA AppliedOutdatesKept ==
    ASSUME TypeOK, SectionInv, AppliedOutdates, [Next]_vars
    PROVE  AppliedOutdates'
<1> SUFFICES ASSUME NEW q \in Proposals, proposal'[q].status = "applied" PROVE Outdated(q)'
  BY DEF AppliedOutdates
<1>1. CASE proposal[q].status # "applied"
  BY <1>1, AppliedByApply, SectionFacts, ApplyOutdates
<1>2. CASE proposal[q].status = "applied"
  <2>1. proposal'[q] = proposal[q]
    BY <1>2, OneChanges DEF Changes, IsCreated, IsApproved, IsClosed, IsApplied
  <2> DEFINE m == proposal[q].target
  <2>2. m \in Memories /\ Outdated(q)
    BY <1>2 DEF TypeOK, AppliedOutdates
  <2>3. /\ mem[m].state # "absent"
        /\ mem[m].state = "stored" => mem[m].version > proposal[q].version
    BY <2>2 DEF Outdated
  <2>4. /\ mem'[m].state # "absent"
        /\ mem'[m].state = "stored" =>
             mem[m].state = "stored" /\ mem'[m].version >= mem[m].version
    BY <2>2, <2>3, VersionsGoUp
  <2>5. TypeOK'
    BY TypesKept
  <2>6. proposal[q].version \in Nat /\ mem[m].version \in Nat /\ mem'[m].version \in Nat
    BY <2>2, <2>5 DEF TypeOK, MemoryRecord, ProposalRecord
  <2>7. mem'[m].state = "stored" => mem'[m].version > proposal[q].version
    BY <2>3, <2>4, <2>6
  <2> QED
    BY <2>1, <2>4, <2>7 DEF Outdated
<1> QED
  BY <1>1, <1>2

\* The inductive invariant of the workflow in one process.
IInv == TypeOK /\ SectionInv /\ AppliedOutdates /\ TextAwaited

LEMMA IInvInvariant ==
    ASSUME OneProcess
    PROVE  Spec => []IInv
<1>1. Init => AppliedOutdates
  BY DEF Init, NoProposal, AppliedOutdates
<1>2. TypeOK /\ SectionInv /\ AppliedOutdates /\ [Next]_vars => AppliedOutdates'
  BY AppliedOutdatesKept
<1> QED
  BY <1>1, <1>2, TypeCorrect, SectionInvariant, TextAwaitedInvariant, PTL DEF Spec, IInv

\* OneSuccessorPerVersion: of two corrections of a version one is applied at most.
THEOREM AtMostOneSuccessor ==
    ASSUME OneProcess
    PROVE  Spec => []OneSuccessorPerVersion
<1>1. Init => OneSuccessorPerVersion
  BY DEF Init, NoProposal, OneSuccessorPerVersion
<1>2. ASSUME IInv, OneSuccessorPerVersion, [Next]_vars PROVE OneSuccessorPerVersion'
  <2> USE <1>2 DEF IInv
  <2>1. ASSUME NEW q \in Proposals, NEW r \in Proposals, q # r,
               proposal'[q].status = "applied", proposal[q].status # "applied",
               proposal'[r].status = "applied",
               proposal'[q].target = proposal'[r].target,
               proposal'[q].version = proposal'[r].version
        PROVE  FALSE
    <3>1. PICK p \in Procs : Apply(p, q)
      BY <2>1, AppliedByApply
    <3>2. TargetIsCurrent(q)
      BY <3>1, SectionFacts
    <3>3. proposal'[r] = proposal[r]
      BY <2>1, <3>1, ApplyCase
    <3>4. /\ proposal'[q].target = proposal[q].target
          /\ proposal'[q].version = proposal[q].version
      BY <3>1, ApplyCase DEF IsApplied, Identity
    <3>5. Outdated(r)
      BY <2>1, <3>3 DEF AppliedOutdates
    <3>6. mem[proposal[q].target].state = "stored"
      BY <3>2 DEF TargetIsCurrent, Authoritative
    <3>7. mem[proposal[q].target].version = proposal[q].version
      BY <3>2 DEF TargetIsCurrent
    <3>8. proposal[q].version \in Nat
      BY DEF TypeOK, ProposalRecord
    <3> QED
      BY <2>1, <3>3, <3>4, <3>5, <3>6, <3>7, <3>8 DEF Outdated
  <2>2. ASSUME NEW q \in Proposals, proposal[q].status = "applied"
        PROVE  proposal'[q] = proposal[q]
    BY <2>2, OneChanges DEF Changes, IsCreated, IsApproved, IsClosed, IsApplied
  <2> QED
    BY <2>1, <2>2 DEF OneSuccessorPerVersion
<1> QED
  BY <1>1, <1>2, IInvInvariant, PTL DEF Spec

-----------------------------------------------------------------------------
(* Refinement                                                              *)

Phase == [q \in Proposals |-> proposal[q].status]
Base == [q \in Proposals |-> BaseOf(proposal[q])]
Frozen == [q \in Proposals |-> proposal[q].approved]
AppliedOnes == {q \in Proposals : proposal[q].status = "applied"}
Replaced == {<<BaseOf(proposal[q]), proposal[q].approved>> : q \in AppliedOnes}

LEMMA BaseTypes ==
    ASSUME TypeOK, NEW q \in Proposals, proposal[q].status # "none"
    PROVE  /\ BaseOf(proposal[q]) = <<proposal[q].target, proposal[q].version>>
           /\ BaseOf(proposal[q]) \in Memories \X Nat
<1>1. proposal[q].target \in Memories /\ proposal[q].target # None
  BY WorkflowAssumption DEF TypeOK
<1>2. proposal[q].version \in Nat
  BY DEF TypeOK, ProposalRecord
<1> QED
  BY <1>1, <1>2 DEF BaseOf

\* A step that applies nothing replaces nothing.
LEMMA NothingReplaced ==
    ASSUME TypeOK, [Next]_vars, NEW q \in Proposals,
           \A u \in Proposals : u # q => proposal'[u] = proposal[u],
           proposal[q].status # "applied", proposal'[q].status # "applied"
    PROVE  Replaced' = Replaced
<1>1. AppliedOnes' = AppliedOnes
  BY DEF AppliedOnes
<1>2. \A u \in AppliedOnes : proposal'[u] = proposal[u]
  BY DEF AppliedOnes
<1> QED
  BY <1>1, <1>2 DEF Replaced, BaseOf

LEMMA StepRefines ==
    ASSUME IInv, TypeOK', [Next]_vars
    PROVE  [Governed!Next]_(Governed!absVars)
<1> USE DEF IInv
<1>1. CASE UNCHANGED proposal
  BY <1>1 DEF Governed!absVars, BaseOf
<1>2. ASSUME NEW q \in Proposals, \A u \in Proposals : u # q => proposal'[u] = proposal[u]
      PROVE  /\ Phase' = [Phase EXCEPT ![q] = proposal'[q].status]
             /\ Base' = [Base EXCEPT ![q] = BaseOf(proposal'[q])]
             /\ Frozen' = [Frozen EXCEPT ![q] = proposal'[q].approved]
             /\ Base'[q] = BaseOf(proposal'[q])
  <2>1. \A u \in Proposals :
           u # q => /\ proposal'[u].status = proposal[u].status
                    /\ BaseOf(proposal'[u]) = BaseOf(proposal[u])
                    /\ proposal'[u].approved = proposal[u].approved
    BY <1>2
  <2> QED
    BY <2>1 DEF Phase, Base, Frozen
<1>3. ASSUME NEW q \in Proposals, \A u \in Proposals : u # q => proposal'[u] = proposal[u],
             proposal'[q].target = proposal[q].target,
             proposal'[q].version = proposal[q].version
      PROVE  Base' = Base
  <2>1. \A u \in Proposals : BaseOf(proposal'[u]) = BaseOf(proposal[u])
    BY <1>3 DEF BaseOf
  <2> QED
    BY <2>1 DEF Base
<1>4. ASSUME NEW q \in Proposals, \A u \in Proposals : u # q => proposal'[u] = proposal[u],
             proposal'[q].approved = proposal[q].approved
      PROVE  Frozen' = Frozen
  BY <1>4 DEF Frozen
<1>5. ASSUME NEW q \in Proposals, IsCreated(q),
             \A u \in Proposals : u # q => proposal'[u] = proposal[u]
      PROVE  Governed!Propose(q)
  <2>1. Replaced' = Replaced
    BY <1>5, NothingReplaced DEF IsCreated
  <2>2. Frozen' = Frozen
    BY <1>5, <1>4 DEF IsCreated, TextAwaited
  <2>3. BaseOf(proposal'[q]) \in Memories \X Nat
    <3>1. proposal'[q].version \in Nat /\ proposal'[q].target \in Memories
      BY <1>5 DEF IsCreated, TypeOK, ProposalRecord
    <3>2. proposal'[q].target # None
      BY <3>1, WorkflowAssumption
    <3> QED
      BY <3>1, <3>2 DEF BaseOf
  <2>4. /\ Phase' = [Phase EXCEPT ![q] = "pending"]
        /\ Base' = [Base EXCEPT ![q] = Base'[q]]
        /\ Base'[q] \in Memories \X Nat
        /\ Phase[q] = "none"
    BY <1>2, <1>5, <2>3 DEF IsCreated, Phase
  <2> QED
    BY <2>1, <2>2, <2>4
       DEF Governed!Propose, Phase, Base, Frozen, Replaced, AppliedOnes
<1>6. ASSUME NEW q \in Proposals, IsApproved(q),
             \A u \in Proposals : u # q => proposal'[u] = proposal[u]
      PROVE  \E x \in Texts : Governed!Approve(q, x)
  <2>1. Replaced' = Replaced
    BY <1>6, NothingReplaced DEF IsApproved
  <2>2. Base' = Base
    BY <1>6, <1>3 DEF IsApproved, Identity
  <2>3. /\ Phase' = [Phase EXCEPT ![q] = "approved"] /\ Phase[q] = "pending"
        /\ Frozen' = [Frozen EXCEPT ![q] = proposal'[q].approved]
        /\ proposal'[q].approved \in Texts
    BY <1>2, <1>6 DEF IsApproved, Phase
  <2> QED
    BY <2>1, <2>2, <2>3
       DEF Governed!Approve, Phase, Base, Frozen, Replaced, AppliedOnes
<1>7. ASSUME NEW q \in Proposals, IsClosed(q),
             \A u \in Proposals : u # q => proposal'[u] = proposal[u]
      PROVE  Governed!Reject(q) \/ Governed!Lapse(q)
  <2>1. Replaced' = Replaced
    BY <1>7, NothingReplaced DEF IsClosed
  <2>2. Base' = Base /\ Frozen' = Frozen
    BY <1>7, <1>3, <1>4 DEF IsClosed, Identity
  <2>3. \/ Phase[q] = "pending" /\ Phase' = [Phase EXCEPT ![q] = "rejected"]
        \/ Phase[q] \in {"pending", "approved"} /\ Phase' = [Phase EXCEPT ![q] = "stale"]
    BY <1>2, <1>7 DEF IsClosed, Phase
  <2> QED
    BY <2>1, <2>2, <2>3
       DEF Governed!Reject, Governed!Lapse, Phase, Base, Frozen, Replaced, AppliedOnes
<1>8. ASSUME NEW q \in Proposals, IsApplied(q),
             \A u \in Proposals : u # q => proposal'[u] = proposal[u]
      PROVE  Governed!Apply(q)
  <2>1. TargetIsCurrent(q)
    BY <1>8, AppliedByApply, SectionFacts DEF IsApplied
  <2>2. Base' = Base /\ Frozen' = Frozen
    BY <1>8, <1>3, <1>4 DEF IsApplied, Identity
  <2>3. Phase[q] = "approved" /\ Phase' = [Phase EXCEPT ![q] = "applied"]
    BY <1>2, <1>8 DEF IsApplied, Phase
  <2>4. BaseOf(proposal[q]) = <<proposal[q].target, proposal[q].version>>
    BY <1>8, BaseTypes DEF IsApplied
  <2>5. ASSUME NEW r \in AppliedOnes PROVE BaseOf(proposal[r]) # BaseOf(proposal[q])
    <3>1. BaseOf(proposal[r]) = <<proposal[r].target, proposal[r].version>> /\ Outdated(r)
      BY BaseTypes DEF AppliedOnes, AppliedOutdates
    <3>2. SUFFICES ASSUME proposal[r].target = proposal[q].target,
                          proposal[r].version = proposal[q].version
                   PROVE  FALSE
      BY <2>4, <3>1
    <3>3. /\ mem[proposal[q].target].state = "stored"
          /\ mem[proposal[q].target].version = proposal[q].version
      BY <2>1 DEF TargetIsCurrent, Authoritative
    <3>4. proposal[q].version \in Nat
      BY DEF TypeOK, ProposalRecord
    <3> QED
      BY <3>1, <3>2, <3>3, <3>4 DEF Outdated
  <2>6. \A e \in Replaced : e[1] # Base[q]
    BY <2>5 DEF Replaced, Base
  <2>7. Replaced' = Replaced \cup {<<Base[q], Frozen[q]>>}
    <3>1. AppliedOnes' = AppliedOnes \cup {q}
      BY <1>8 DEF AppliedOnes, IsApplied
    <3>2. \A u \in AppliedOnes : proposal'[u] = proposal[u]
      BY <1>8 DEF AppliedOnes, IsApplied
    <3>3. BaseOf(proposal'[q]) = Base[q] /\ proposal'[q].approved = Frozen[q]
      BY <1>8 DEF Base, Frozen, IsApplied, Identity, BaseOf
    <3>4. Replaced' = {<<BaseOf(proposal'[u]), proposal'[u].approved>> : u \in AppliedOnes'}
      BY DEF Replaced, BaseOf
    <3> QED
      BY <3>1, <3>2, <3>3, <3>4 DEF Replaced
  <2> QED
    BY <2>2, <2>3, <2>6, <2>7
       DEF Governed!Apply, Phase, Base, Frozen, Replaced, AppliedOnes
<1>9. ASSUME NEW q \in Proposals, proposal'[q] = proposal[q],
             \A u \in Proposals : u # q => proposal'[u] = proposal[u]
      PROVE  UNCHANGED Governed!absVars
  <2>1. \A u \in Proposals : proposal'[u] = proposal[u]
    BY <1>9
  <2>2. Phase' = Phase /\ Base' = Base /\ Frozen' = Frozen
    BY <2>1 DEF Phase, Base, Frozen, BaseOf
  <2>3. Replaced' = Replaced
    <3>1. AppliedOnes' = AppliedOnes
      BY <2>1 DEF AppliedOnes
    <3> QED
      BY <2>1, <3>1 DEF Replaced, AppliedOnes, BaseOf
  <2> QED
    BY <2>2, <2>3 DEF Governed!absVars, Phase, Base, Frozen, Replaced, AppliedOnes
<1> QED
  BY <1>1, <1>5, <1>6, <1>7, <1>8, <1>9, OneChanges DEF Changes, Governed!Next

\* ImplementsGovernedMemory: in one process only the governed steps can be seen.
THEOREM Refinement ==
    ASSUME OneProcess
    PROVE  Spec => ImplementsGovernedMemory
<1>1. Init => Governed!Init
  <2> SUFFICES ASSUME Init PROVE Governed!Init
    OBVIOUS
  <2>1. \A q \in Proposals :
           /\ proposal[q].status = "none" /\ proposal[q].approved = None
           /\ BaseOf(proposal[q]) = None
    BY DEF Init, NoProposal, BaseOf
  <2> QED
    BY <2>1 DEF Governed!Init
<1>2. IInv /\ TypeOK' /\ [Next]_vars => [Governed!Next]_(Governed!absVars)
  BY StepRefines
<1> QED
  BY <1>1, <1>2, IInvInvariant, TypeCorrect, PTL DEF Spec, ImplementsGovernedMemory, Governed!Spec

\* The tables keep their types and their uniqueness for any number of processes.
THEOREM RecordsAreSound == Spec => []RecordsSound
<1>1. TypeOK /\ OnePendingPerRequest => RecordsSound
  BY DEF RecordsSound
<1> QED
  BY <1>1, TypeCorrect, RetriesDoNotPileUp, PTL

-----------------------------------------------------------------------------
(* The audit trail in one process                                          *)

\* The four logging steps, each with the status it leaves from and the event it adds.
Logged(q, from, to) ==
    /\ proposal[q].status = from
    /\ proposal'[q].status = to
    /\ trail' = [trail EXCEPT ![q] = Append(trail[q], to)]
    /\ \A u \in Proposals : u # q => proposal'[u] = proposal[u]

LEMMA LoggingSteps ==
    ASSUME TypeOK, SectionInv, NEW p \in Procs, NEW q \in Proposals
    PROVE  /\ Approve(p, q) => Logged(q, "pending", "approved")
           /\ Reject(p, q) => Logged(q, "pending", "rejected")
           /\ MarkStale(p, q) => Logged(q, "pending", "stale") \/ Logged(q, "approved", "stale")
           /\ Apply(p, q) => Logged(q, "approved", "applied")
<1>0. proposal[q] \in ProposalRecord
  BY DEF TypeOK
<1>1. Approve(p, q) => Logged(q, "pending", "approved")
  BY ApproveCase DEF IsApproved, Approve, Log, Logged
<1>2. ASSUME Reject(p, q) PROVE Logged(q, "pending", "rejected")
  <2>1. /\ proposal' = [proposal EXCEPT ![q] = [proposal[q] EXCEPT !.status = "rejected"]]
        /\ proposal[q].status = "pending"
    BY <1>2 DEF Reject
  <2> QED
    BY <1>0, <1>2, <2>1 DEF TypeOK, ProposalRecord, Reject, Log, Logged
<1>3. ASSUME MarkStale(p, q)
      PROVE  Logged(q, "pending", "stale") \/ Logged(q, "approved", "stale")
  <2>1. proposal[q].status \in {"pending", "approved"}
    BY <1>3, SectionFacts
  <2>2. proposal' = [proposal EXCEPT ![q] = [proposal[q] EXCEPT !.status = "stale"]]
    BY <1>3, <2>1 DEF MarkStale
  <2> QED
    BY <1>0, <1>3, <2>1, <2>2 DEF TypeOK, ProposalRecord, MarkStale, Log, Logged
<1>4. Apply(p, q) => Logged(q, "approved", "applied")
  BY ApplyCase DEF IsApplied, Apply, Log, Logged
<1> QED
  BY <1>1, <1>2, <1>3, <1>4

\* A logged step takes a true trail to a true trail.
LEMMA LoggedTrail ==
    ASSUME TypeOK, TrailTellsStatus, NEW q \in Proposals,
           \/ Logged(q, "pending", "approved")
           \/ Logged(q, "pending", "rejected")
           \/ Logged(q, "pending", "stale")
           \/ Logged(q, "approved", "stale")
           \/ Logged(q, "approved", "applied")
    PROVE  TrailTellsStatus'
<1>1. \A d, e \in {"approved", "rejected", "stale", "applied"} :
         Append(<<>>, e) = <<e>> /\ Append(<<d>>, e) = <<d, e>>
  <2> TAKE d, e \in {"approved", "rejected", "stale", "applied"}
  <2>1. <<>> \in Seq({d, e}) /\ <<d>> \in Seq({d, e}) /\ <<d, e>> \in Seq({d, e})
    OBVIOUS
  <2>2. Append(<<d>>, e) \in Seq({d, e}) /\ Len(Append(<<d>>, e)) = 2
    BY <2>1
  <2>3. Append(<<d>>, e)[1] = d /\ Append(<<d>>, e)[2] = e
    BY <2>1
  <2> DEFINE a == Append(<<d>>, e)
             b == <<d, e>>
  <2>4. Len(a) = Len(b) /\ \A i \in 1..Len(a) : a[i] = b[i]
    BY <2>2, <2>3
  <2>5. a \in Seq({d, e}) /\ b \in Seq({d, e})
    BY <2>1, <2>2
  <2> HIDE DEF a, b
  <2>6. a = b
    BY <2>4, <2>5, SeqEqual
  <2> QED
    BY <2>6 DEF a, b
<1>2. trail[q] \in TrailOf(proposal[q].status)
  BY DEF TrailTellsStatus
<1>3. trail'[q] \in TrailOf(proposal'[q].status)
  BY <1>1, <1>2 DEF TypeOK, Logged, TrailOf
<1>4. \A u \in Proposals : u # q => trail'[u] = trail[u] /\ proposal'[u] = proposal[u]
  BY DEF TypeOK, Logged
<1> QED
  BY <1>3, <1>4 DEF TrailTellsStatus

\* TrailTellsStatus: in one process the audit events of a proposal, in order, are
\* those of the path to its status, none missing and none twice.
THEOREM TrailIsTrue ==
    ASSUME OneProcess
    PROVE  Spec => []TrailTellsStatus
<1>1. Init => TrailTellsStatus
  BY DEF Init, NoProposal, TrailTellsStatus, TrailOf
<1>2. ASSUME TypeOK, SectionInv, TrailTellsStatus, [Next]_vars PROVE TrailTellsStatus'
  <2>1. ASSUME NEW p \in Procs, NEW q \in Proposals,
               MarkStale(p, q) \/ Approve(p, q) \/ Reject(p, q) \/ Apply(p, q)
        PROVE  TrailTellsStatus'
    BY <1>2, <2>1, LoggingSteps, LoggedTrail
  <2>2. ASSUME NEW r \in Requests, CreatePending(r) PROVE TrailTellsStatus'
    <3>1. trail' = trail
      BY <2>2 DEF CreatePending
    <3>2. \A u \in Proposals :
             \/ proposal'[u] = proposal[u]
             \/ proposal[u].status = "none" /\ proposal'[u].status = "pending"
      BY <1>2, <2>2, CreateCase DEF IsCreated
    <3> QED
      BY <1>2, <3>1, <3>2 DEF TrailTellsStatus, TrailOf
  <2>3. ASSUME UNCHANGED <<proposal, trail>> PROVE TrailTellsStatus'
    BY <1>2, <2>3 DEF TrailTellsStatus
  <2>4. ASSUME NEW p \in Procs, NEW q \in Proposals,
               MemoryStep(p) \/ RollBack(p) \/ BeginReview(p, q) \/ BeginApply(p, q)
        PROVE  UNCHANGED <<proposal, trail>>
    BY <2>4 DEF MemoryStep, RollBack, UpdateNode, DeleteNode, AddUpdatesEdge, AddNode,
                DeleteEdge, BeginReview, BeginApply, Enter
  <2>5. ASSUME NEW p \in Procs, MemoryStep(p) \/ RollBack(p)
        PROVE  UNCHANGED <<proposal, trail>>
    BY <2>5 DEF MemoryStep, RollBack, UpdateNode, DeleteNode, AddUpdatesEdge, AddNode, DeleteEdge
  <2>6. ASSUME NEW r \in Requests, ReadTarget(r) PROVE UNCHANGED <<proposal, trail>>
    BY <2>6 DEF ReadTarget
  <2>7. CASE UNCHANGED vars
    BY <2>3, <2>7 DEF vars
  <2> QED
    BY <1>2, <2>1, <2>2, <2>3, <2>4, <2>5, <2>6, <2>7 DEF Next, ProposalStep
<1> QED
  BY <1>1, <1>2, TypeCorrect, SectionInvariant, PTL DEF Spec
===============================================================================
