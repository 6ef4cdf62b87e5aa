---------------------------- MODULE DemoTenants ----------------------------
(***************************************************************************)
(* The challenge demo: every browser session has a tenant of its own,      *)
(* admitted up to a capacity, seeded with the fixture on its first request *)
(* and reset on demand.  Several server processes share the database file: *)
(* writer is SQLite's write lock, and a transaction's rows are there when  *)
(* it commits or not at all.                                               *)
(***************************************************************************)
EXTENDS Naturals, FiniteSets

CONSTANTS
    DemoProcs,      \* server processes, each serving one request at a time
    Sessions,       \* the tokens browsers hold or are given
    NoOne,
    Capacity,       \* MAX_DEMO_TENANTS
    MaxRequests     \* bound on the requests, and on how often a project is emptied

DemoAssumption == Capacity \in Nat /\ MaxRequests \in Nat /\ NoOne \notin DemoProcs \union Sessions

VARIABLES
    demoWriter,     \* the process that holds the write lock
    tenants,        \* demo tenants in the tenants table
    project,        \* the nodes of a session's project: "none", "seed" or "work"
    outside,        \* sessions with a node outside the project that has a fixture's id
    demoTrail,      \* audit events "demo.workspace.seeded" of the tenant
    demoCall,       \* the request each process serves
    served,         \* requests so far
    worked,         \* history: sessions whose last edit or reset was an edit that left nodes
    emptied         \* history: how often edits have emptied the project since its reset

demoVars == <<demoWriter, tenants, project, outside, demoTrail, demoCall, served, worked, emptied>>
edited == <<outside, worked, emptied>>
store == <<tenants, project, demoTrail>>

NoCall == [at |-> "idle", session |-> NoOne, does |-> "none"]

DemoInit ==
    /\ demoWriter = NoOne
    /\ tenants = {} /\ project = [s \in Sessions |-> "none"] /\ demoTrail = [s \in Sessions |-> 0]
    /\ outside = {} /\ emptied = [s \in Sessions |-> 0]
    /\ demoCall = [p \in DemoProcs |-> NoCall]
    /\ served = 0 /\ worked = {}

DemoGoes(p, at) == demoCall' = [demoCall EXCEPT ![p].at = at]
DemoEnds(p) == demoCall' = [demoCall EXCEPT ![p] = NoCall]
Used == {s \in Sessions : s \in tenants \/ \E p \in DemoProcs : demoCall[p].session = s}

(***************************************************************************)
(* _DemoSessionMiddleware: a valid header names the session, then a valid  *)
(* cookie, then a new token; a change without the header is refused.       *)
(***************************************************************************)
SessionOf(header, cookie) ==
    IF header # NoOne THEN {header} ELSE IF cookie # NoOne THEN {cookie} ELSE Sessions \ Used

DemoArrive(p, header, cookie, does) ==
    /\ demoCall[p].at = "idle" /\ served < MaxRequests
    /\ does # "read" => header # NoOne
    /\ served' = served + 1
    /\ \E s \in SessionOf(header, cookie) :
         demoCall' = [demoCall EXCEPT ![p] = [NoCall EXCEPT !.at = "admit", !.session = s, !.does = does]]
    /\ UNCHANGED <<demoWriter, store, edited>>

(***************************************************************************)
(* admit_demo_scope, under BEGIN IMMEDIATE.                                *)
(***************************************************************************)
\* A mutant: a deferred transaction, which reads before it holds the lock.
Takes_Deferred(p) == demoWriter = NoOne /\ demoWriter' = demoWriter

Takes(p) == demoWriter = NoOne /\ demoWriter' = p

BeginAdmission(p) ==
    /\ demoCall[p].at = "admit" /\ Takes(p)
    /\ LET s == demoCall[p].session IN
       DemoGoes(p, IF s \in tenants THEN "known" ELSE IF Cardinality(tenants) >= Capacity THEN "full" ELSE "insert")
    /\ UNCHANGED <<store, served, edited>>

EndAdmission(p) ==
    /\ demoCall[p].at \in {"known", "full", "insert"}
    /\ demoWriter' = NoOne
    /\ tenants' = IF demoCall[p].at = "insert" THEN tenants \union {demoCall[p].session} ELSE tenants
    /\ IF demoCall[p].at = "full" THEN DemoEnds(p) ELSE DemoGoes(p, "look")
    /\ UNCHANGED <<project, demoTrail, served, edited>>

(***************************************************************************)
(* ensure_demo_seed: the look is a statement of its own; the transaction   *)
(* starts with the first insert, and an id that is there fails it.         *)
(***************************************************************************)
Look(p) ==
    /\ demoCall[p].at = "look"
    /\ DemoGoes(p, IF project[demoCall[p].session] = "none" THEN "seed" ELSE "do")
    /\ UNCHANGED <<demoWriter, store, served, edited>>

IdsFree(s) == project[s] = "none" /\ s \notin outside

Seed(p) ==
    LET s == demoCall[p].session IN
    /\ demoCall[p].at = "seed" /\ demoWriter = NoOne
    /\ IF IdsFree(s)
       THEN /\ project' = [project EXCEPT ![s] = "seed"]
            /\ demoTrail' = [demoTrail EXCEPT ![s] = @ + 1]
            /\ DemoGoes(p, "do")
       ELSE DemoEnds(p) /\ UNCHANGED <<project, demoTrail>>
    /\ UNCHANGED <<demoWriter, tenants, served, edited>>

\* SQLite gives up waiting for the write lock: the request ends in an error.
Busy(p) ==
    /\ demoCall[p].at \in {"admit", "seed", "do"} /\ demoWriter \notin {NoOne, p}
    /\ DemoEnds(p)
    /\ UNCHANGED <<demoWriter, store, served, edited>>

(***************************************************************************)
(* The request itself: a read, an edit or reset_demo.                      *)
(***************************************************************************)
\* One operation of an edit, a transaction of its own: it leaves nodes in the project,
\* the last of them may go, and a node outside may get or give up a fixture's id
\* (not while all the fixture is in the project).  A restore has several.
Edit(p) ==
    LET s == demoCall[p].session IN
    /\ \E left \in {"none", "work"} :
         /\ left = "none" /\ project[s] # "none" => project[s] = "work" /\ emptied[s] < MaxRequests
         /\ project' = [project EXCEPT ![s] = left]
         /\ worked' = IF left = "work" THEN worked \union {s} ELSE worked \ {s}
         /\ emptied' = [emptied EXCEPT ![s] = @ + IF left = "none" /\ project[s] # "none" THEN 1 ELSE 0]
    /\ outside' \in {outside, outside \ {s}, IF project[s] = "seed" THEN outside ELSE outside \union {s}}
    /\ DemoEnds(p) \/ UNCHANGED demoCall
    /\ UNCHANGED <<tenants, demoTrail>>

\* One transaction clears the project and its trail and seeds it, or fails on an id that is there.
Reset(p) ==
    LET s == demoCall[p].session IN
    /\ IF s \in outside THEN UNCHANGED <<project, demoTrail, worked, emptied>>
       ELSE /\ project' = [project EXCEPT ![s] = "seed"] /\ worked' = worked \ {s}
            /\ demoTrail' = [demoTrail EXCEPT ![s] = 1] /\ emptied' = [emptied EXCEPT ![s] = 0]
    /\ DemoEnds(p)
    /\ UNCHANGED <<tenants, outside>>

Do(p) ==
    /\ demoCall[p].at = "do" /\ (demoCall[p].does # "read" => demoWriter = NoOne)
    /\ CASE demoCall[p].does = "edit" -> Edit(p)
         [] demoCall[p].does = "reset" -> Reset(p)
         [] OTHER -> DemoEnds(p) /\ UNCHANGED <<store, edited>>
    /\ UNCHANGED <<demoWriter, served>>

\* The process ends: its transaction is rolled back and its lock is free.
DemoCrash(p) ==
    /\ demoCall[p].at # "idle"
    /\ DemoEnds(p)
    /\ demoWriter' = IF demoWriter = p THEN NoOne ELSE demoWriter
    /\ UNCHANGED <<store, served, edited>>

DemoNext ==
    \E p \in DemoProcs :
        \/ \E h, c \in Sessions \union {NoOne}, d \in {"read", "edit", "reset"} : DemoArrive(p, h, c, d)
        \/ BeginAdmission(p) \/ EndAdmission(p) \/ Look(p) \/ Seed(p) \/ Busy(p) \/ Do(p) \/ DemoCrash(p)

DemoSpec == DemoInit /\ [][DemoNext]_demoVars

-----------------------------------------------------------------------------
DemoTypeOK ==
    /\ demoWriter \in DemoProcs \union {NoOne} /\ tenants \subseteq Sessions
    /\ project \in [Sessions -> {"none", "seed", "work"}]
    /\ outside \subseteq tenants /\ worked \subseteq tenants

\* The processes together never admit more tenants than the capacity.
CapacityHeld == Cardinality(tenants) <= Capacity

\* Only an admitted session has a project.  However many requests race it is seeded
\* once, and once more only for each time its visitor's edits have emptied it; nodes
\* that a visitor's edit leaves stay until an edit or a reset of that visitor.
WorkIsKept ==
    \A s \in Sessions :
        /\ project[s] # "none" => s \in tenants
        /\ demoTrail[s] <= emptied[s] + (IF project[s] = "none" THEN 0 ELSE 1)
        /\ project[s] = "seed" => demoTrail[s] > 0
        /\ s \in worked <=> project[s] = "work"

\* What the demo keeps of its tenants.
DemoSound == DemoTypeOK /\ CapacityHeld /\ WorkIsKept
=============================================================================
