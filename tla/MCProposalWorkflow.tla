-------------------------- MODULE MCProposalWorkflow --------------------------
(* TLC instances of ProposalWorkflow: every identity is interchangeable.     *)
EXTENDS ProposalWorkflow, TLC

CONSTANTS m1, m2, m3, q1, q2, x1, x2, a1, r1, r2, p1, p2

Symmetry ==
    Permutations(Seeded) \cup Permutations(Memories \ Seeded)
        \cup Permutations(Proposals) \cup Permutations(Texts)
        \cup Permutations(Requests) \cup Permutations(Procs)
===============================================================================
