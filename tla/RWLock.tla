------------------------------- MODULE RWLock -------------------------------
(***************************************************************************)
(* What callers of MemoryGraph._lock may rely on, with no mention of       *)
(* condition variables, counters or queues: many threads may read the      *)
(* graph together, or a single thread may write it, never both.            *)
(***************************************************************************)
CONSTANT Threads

VARIABLE mode    \* mode[t]: what thread t may currently do with the graph

Modes == {"none", "read", "write"}

Init == mode = [t \in Threads |-> "none"]

\* A reader joins: nobody is writing.
BeginRead(t) ==
    /\ mode[t] = "none"
    /\ \A u \in Threads : mode[u] # "write"
    /\ mode' = [mode EXCEPT ![t] = "read"]

\* A writer enters an empty house.
BeginWrite(t) ==
    /\ \A u \in Threads : mode[u] = "none"
    /\ mode' = [mode EXCEPT ![t] = "write"]

End(t) ==
    /\ mode[t] # "none"
    /\ mode' = [mode EXCEPT ![t] = "none"]

Next == \E t \in Threads : BeginRead(t) \/ BeginWrite(t) \/ End(t)

Spec == Init /\ [][Next]_mode
=============================================================================
