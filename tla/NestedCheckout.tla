---------------------------- MODULE NestedCheckout ----------------------------
(***************************************************************************)
(* Who waits on whom while a conflict is resolved.  resolve_conflict holds *)
(* the write lock, a pooled connection and SQLite's write lock when its    *)
(* get_node calls check out a second connection.  emit_audit_event and     *)
(* _store_retention_run called without a connection take one from the pool *)
(* without the write lock and then wait for SQLite's.  Only the deadline   *)
(* of a checkout and SQLite's busy timeout end a wait that closes a circle.*)
(***************************************************************************)
EXTENDS Naturals, FiniteSets

CONSTANTS Resolvers, Auditors, NoCall, PoolSize

VARIABLES at, held, lock, writer

vars == <<at, held, lock, writer>>

Calls == Resolvers \union Auditors
Places == {"out", "checkout", "write", "nested", "commit"}

RECURSIVE Borrowed(_)
Borrowed(S) == IF S = {} THEN 0 ELSE LET c == CHOOSE x \in S : TRUE
                                     IN held[c] + Borrowed(S \ {c})
Free == PoolSize - Borrowed(Calls)

Init ==
    /\ at = [c \in Calls |-> "out"]
    /\ held = [c \in Calls |-> 0]
    /\ lock = NoCall
    /\ writer = NoCall

Goes(c, place) == at' = [at EXCEPT ![c] = place]

\* with self._lock, self._pool.checkout(): an audit write skips the lock.
Begin(c) ==
    /\ at[c] = "out"
    /\ \/ c \in Auditors /\ UNCHANGED lock
       \/ c \in Resolvers /\ lock = NoCall /\ lock' = c
    /\ Goes(c, "checkout")
    /\ UNCHANGED <<held, writer>>

Checkout(c) ==
    /\ Free > 0
    /\ \/ at[c] = "checkout" /\ Goes(c, "write")
       \/ at[c] = "nested" /\ Goes(c, "commit")
    /\ held' = [held EXCEPT ![c] = @ + 1]
    /\ UNCHANGED <<lock, writer>>

\* The first UPDATE or INSERT takes SQLite's write lock or waits for it.
Write(c) ==
    /\ at[c] = "write" /\ writer = NoCall
    /\ writer' = c
    /\ \/ c \in Auditors /\ Goes(c, "commit")
       \/ c \in Resolvers /\ Goes(c, "nested")
    /\ UNCHANGED <<held, lock>>

\* Leaving the with blocks commits or rolls back and gives everything back.
Leave(c) ==
    /\ Goes(c, "out")
    /\ held' = [held EXCEPT ![c] = 0]
    /\ lock' = IF lock = c THEN NoCall ELSE lock
    /\ writer' = IF writer = c THEN NoCall ELSE writer

Commit(c) == at[c] = "commit" /\ Leave(c)

\* TimeoutError of the pool, or "database is locked" after busy_timeout.
Waiting_First(c) == at[c] = "checkout"   \* a mutant: only the first wait ends
Waiting(c) == at[c] \in {"checkout", "nested", "write"}
GivesUp(c) == Waiting(c) /\ Leave(c)

Step(c) == Begin(c) \/ Checkout(c) \/ Write(c) \/ Commit(c) \/ GivesUp(c)
Next == \E c \in Calls : Step(c)

Spec == Init /\ [][Next]_vars

\* Every thread runs, and both deadlines pass.
Fairness == \A c \in Calls :
    /\ WF_vars(Checkout(c)) /\ WF_vars(Write(c))
    /\ WF_vars(Commit(c)) /\ WF_vars(GivesUp(c))
FairSpec == Spec /\ Fairness

-----------------------------------------------------------------------------
TypeOK ==
    /\ at \in [Calls -> Places] /\ held \in [Calls -> 0..2]
    /\ {lock, writer} \subseteq Calls \union {NoCall} /\ Free >= 0

\* A resolution or an audit write that began ends, by its commit or by giving
\* up, however the pool, the write lock and SQLite's lock are taken meanwhile.
CallsEnd == \A c \in Calls : at[c] # "out" ~> at[c] = "out"
=============================================================================
