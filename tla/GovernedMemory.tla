---------------------------- MODULE GovernedMemory ----------------------------
(***************************************************************************)
(* What the correction workflow promises, with no mention of locks,        *)
(* transactions or edges: a version of a memory is replaced only by text a *)
(* human froze, at most once, and every decision is final.                 *)
(***************************************************************************)
CONSTANTS Proposals, Texts, NoText, Bases, NoBase

VARIABLES
    phase,     \* phase[q]: where proposal q stands
    base,      \* base[q]: the version of a memory that q corrects
    frozen,    \* frozen[q]: the text a human approved
    replaced   \* the replacements made: <<version, text>>

absVars == <<phase, base, frozen, replaced>>

Init ==
    /\ phase = [q \in Proposals |-> "none"]
    /\ base = [q \in Proposals |-> NoBase]
    /\ frozen = [q \in Proposals |-> NoText]
    /\ replaced = {}

Propose(q) ==
    /\ phase[q] = "none" /\ base'[q] \in Bases
    /\ phase' = [phase EXCEPT ![q] = "pending"]
    /\ base' = [base EXCEPT ![q] = base'[q]]
    /\ UNCHANGED <<frozen, replaced>>

Approve(q, text) ==
    /\ phase[q] = "pending"
    /\ phase' = [phase EXCEPT ![q] = "approved"]
    /\ frozen' = [frozen EXCEPT ![q] = text]
    /\ UNCHANGED <<base, replaced>>

Reject(q) ==
    /\ phase[q] = "pending"
    /\ phase' = [phase EXCEPT ![q] = "rejected"]
    /\ UNCHANGED <<base, frozen, replaced>>

\* The world moved on before the correction could be made.
Lapse(q) ==
    /\ phase[q] \in {"pending", "approved"}
    /\ phase' = [phase EXCEPT ![q] = "stale"]
    /\ UNCHANGED <<base, frozen, replaced>>

Apply(q) ==
    /\ phase[q] = "approved"
    /\ \A r \in replaced : r[1] # base[q]
    /\ phase' = [phase EXCEPT ![q] = "applied"]
    /\ replaced' = replaced \cup {<<base[q], frozen[q]>>}
    /\ UNCHANGED <<base, frozen>>

Next ==
    \E q \in Proposals :
        \/ Propose(q)
        \/ \E text \in Texts : Approve(q, text)
        \/ Reject(q) \/ Lapse(q) \/ Apply(q)

Spec == Init /\ [][Next]_absVars
===============================================================================
