------------------------- MODULE MCMemoryOrchestrator -------------------------
(* TLC instances of MemoryOrchestrator: three turns of two scopes, of which *)
(* t1 and t3 carry the same key.  Every number is small, so that the       *)
(* interval guard, a full queue and an eviction all happen.                *)
EXTENDS MemoryOrchestrator, TLC

CONSTANTS t1, t2, t3, s1, s2, k1, k2

MCScope == (t1 :> s1) @@ (t2 :> s1) @@ (t3 :> s2)
MCKey   == (t1 :> k1) @@ (t2 :> k2) @@ (t3 :> k1)
MCAt    == (t1 :> 0) @@ (t2 :> 1) @@ (t3 :> 1)
=============================================================================
