------------------------------ MODULE ReplSandbox ------------------------------
(***************************************************************************)
(* The REPL environments that run cells in the process itself: LocalREPL   *)
(* and IPythonREPL in its in_process mode.  A cell redirects sys.stdout    *)
(* and changes the working directory, which belong to the whole process,   *)
(* under a lock that belongs to its environment.  The root's cell may run  *)
(* cells of child environments: one after another in its own thread, or    *)
(* at once in the threads of rlm_query_batched's pool.                     *)
(***************************************************************************)
EXTENDS Integers, FiniteSets

CONSTANTS Root, Kids,
    Terminal, Home,     \* sys.stdout and the directory the process started with
    MaxWorkers,         \* max_concurrent_subcalls
    Kinds,              \* the kinds of environment under study: "local", "ipython"
    CellsOf             \* bound: cells a child runs

SandboxAssumption ==
    /\ Root \notin Kids /\ Terminal \notin Kids \cup {Root} /\ Home \notin Kids \cup {Root}
    /\ MaxWorkers \in Nat \ {0} /\ CellsOf \in Nat \ {0} /\ Kinds \subseteq {"local", "ipython"}

Envs == {Root} \cup Kids

VARIABLES
    kind,     \* of every environment: a child's is its parent's
    out,      \* where sys.stdout goes: an environment's buffer, or the terminal
    cwd,      \* the working directory: an environment's temp_dir, or where it started
    dirs,     \* the temp_dirs that exist
    cell,     \* per environment: its step, and what its with statements saved
    text,     \* per environment: whose prints its buffer holds
    printed,  \* per environment: whether its cell printed
    seen,     \* per environment: whose prints the result of the cell that is leaving shows
    left,     \* cells a child has yet to run
    mixed     \* history: the cells with which another child's overlapped, and the root's around them

vars == <<kind, out, cwd, dirs, cell, text, printed, seen, left, mixed>>

NoCell == [step |-> "off", out |-> Terminal, cwd |-> Home]
Buffers == Envs \cup {Terminal}
Directories == Envs \cup {Home}
Steps == {"off", "captured", "inside", "leaving", "failing"}

TypeOK ==
    /\ kind \in Kinds /\ out \in Buffers /\ cwd \in Directories /\ dirs \subseteq Envs
    /\ cell \in [Envs -> [step : Steps, out : Buffers, cwd : Directories]]
    /\ text \in [Envs -> SUBSET Envs] /\ seen \in [Envs -> SUBSET Envs]
    /\ printed \in [Envs -> BOOLEAN] /\ left \in [Kids -> 0 .. CellsOf]

Init ==
    /\ kind \in Kinds /\ out = Terminal /\ cwd = Home /\ dirs = {Root}
    /\ cell = [e \in Envs |-> NoCell] /\ text = [e \in Envs |-> {}] /\ seen = [e \in Envs |-> {}]
    /\ printed = [e \in Envs |-> FALSE] /\ left = [k \in Kids |-> CellsOf] /\ mixed = {}

Busy(e) == cell[e].step # "off"
Alive == dirs \cap Kids
\* A mutant: it does not wait for what it asked of its children.
Awake_Always(e) == TRUE

\* A root's cell goes on by itself only while no child of it does.
Awake(e) == e = Root => Alive = {}

\* rlm_query_batched's pool takes a prompt: a child with an environment of its own.
Spawn(k) ==
    /\ cell[Root].step = "inside" /\ k \notin dirs /\ left[k] > 0 /\ Cardinality(Alive) < MaxWorkers
    /\ dirs' = dirs \cup {k}
    /\ UNCHANGED <<kind, out, cwd, cell, text, printed, seen, left, mixed>>

\* _capture_output, or redirect_stdout: save the process's stdout, put the buffer in.
\* IPython changes directory first.
Enter(e) ==
    /\ e \in dirs /\ cell[e].step = "off" /\ (e \in Kids => left[e] > 0)
    /\ IF kind = "local"
         THEN /\ cell' = [cell EXCEPT ![e] = [step |-> "captured", out |-> out, cwd |-> Home]]
              /\ out' = e /\ UNCHANGED cwd
         ELSE /\ cell' = [cell EXCEPT ![e] = [step |-> "captured", out |-> Terminal, cwd |-> cwd]]
              /\ cwd' = e /\ UNCHANGED out
    /\ text' = [text EXCEPT ![e] = {}] /\ printed' = [printed EXCEPT ![e] = FALSE]
    /\ LET others == {k \in Kids \ {e} : Busy(k)}
       IN mixed' = IF others = {} THEN mixed \ {e} ELSE mixed \cup others \cup {e, Root}
    /\ UNCHANGED <<kind, dirs, seen, left>>

\* os.getcwd raises when the directory has gone with its environment.
Inside(e) ==
    /\ cell[e].step = "captured"
    /\ IF kind = "local"
         THEN IF cwd = Home \/ cwd \in dirs
                THEN cell' = [cell EXCEPT ![e].step = "inside", ![e].cwd = cwd] /\ cwd' = e /\ UNCHANGED out
                ELSE cell' = [cell EXCEPT ![e].step = "failing"] /\ UNCHANGED <<cwd, out>>
         ELSE cell' = [cell EXCEPT ![e].step = "inside", ![e].out = out] /\ out' = e /\ UNCHANGED cwd
    /\ UNCHANGED <<kind, dirs, text, printed, seen, left, mixed>>

Prints(e) ==
    /\ cell[e].step = "inside" /\ Awake(e) /\ ~printed[e]
    /\ printed' = [printed EXCEPT ![e] = TRUE]
    /\ text' = IF out = Terminal THEN text ELSE [text EXCEPT ![out] = @ \cup {e}]
    /\ UNCHANGED <<kind, out, cwd, dirs, cell, seen, left, mixed>>

\* The first exit.  LocalREPL's chdir back raises when that directory is gone; IPython's
\* comes last and goes to where the environment was made instead.
Leave(e) ==
    /\ cell[e].step = "inside" /\ Awake(e)
    /\ IF kind = "local"
         THEN LET back == cell[e].cwd = Home \/ cell[e].cwd \in dirs
              IN /\ cwd' = IF back THEN cell[e].cwd ELSE cwd
                 /\ cell' = [cell EXCEPT ![e].step = IF back THEN "leaving" ELSE "failing"]
                 /\ UNCHANGED out
         ELSE out' = cell[e].out /\ cell' = [cell EXCEPT ![e].step = "leaving"] /\ UNCHANGED cwd
    /\ seen' = [seen EXCEPT ![e] = text[e]]
    /\ UNCHANGED <<kind, dirs, text, printed, left, mixed>>

\* The second, and the result; a child whose cell raised ends as an error string.
Return(e) ==
    /\ cell[e].step \in {"leaving", "failing"}
    /\ IF kind = "local"
         THEN out' = cell[e].out /\ UNCHANGED cwd
         ELSE cwd' = (IF cell[e].cwd = Home \/ cell[e].cwd \in dirs THEN cell[e].cwd ELSE Home) /\ UNCHANGED out
    /\ left' = [k \in Kids |-> IF k # e THEN left[k] ELSE IF cell[e].step = "failing" THEN 0 ELSE left[k] - 1]
    /\ cell' = [cell EXCEPT ![e] = NoCell] /\ text' = [text EXCEPT ![e] = {}]
    /\ printed' = [printed EXCEPT ![e] = FALSE] /\ seen' = [seen EXCEPT ![e] = {}]
    /\ mixed' = mixed \ {e}
    /\ UNCHANGED <<kind, dirs>>

\* A child's cleanup: rmtree of its directory, whether or not somebody is in it.
Cleanup(k) ==
    /\ k \in dirs /\ ~Busy(k) /\ left[k] = 0
    /\ dirs' = dirs \ {k}
    /\ UNCHANGED <<kind, out, cwd, cell, text, printed, seen, left, mixed>>

Next ==
    \/ \E e \in Envs : Enter(e) \/ Inside(e) \/ Prints(e) \/ Leave(e) \/ Return(e)
    \/ \E k \in Kids : Spawn(k) \/ Cleanup(k)

Spec == Init /\ [][Next]_vars

-----------------------------------------------------------------------------
\* Whatever ran at once before or elsewhere, a finished cell that no other child's
\* overlapped reports what it printed, and all of it.
OutputIsOwn ==
    \A e \in Envs \ mixed : cell[e].step = "leaving" => seen[e] = IF printed[e] THEN {e} ELSE {}

\* However cells of a batch restore one another's, none of their prints gets to the
\* process's own output while the root's cell is at work.
NothingEscapes ==
    cell[Root].step = "inside" \/ (kind = "local" /\ Busy(Root)) => out # Terminal

\* Between the root's cells the process is as it was found.
ProcessRestored == ~Busy(Root) => out = Terminal /\ cwd = Home

(* Cells nest and, in a batch, overlap: a result shows its own cell's output unless    *)
(* another's overlapped it, nothing escapes, and the process is given back.           *)
SandboxSound == TypeOK /\ OutputIsOwn /\ NothingEscapes /\ ProcessRestored

\* local_repl.py: "Thread-safe context manager to capture stdout/stderr."
CaptureIsThreadSafe ==
    \A e \in Envs : kind = "local" /\ cell[e].step = "leaving" => seen[e] = IF printed[e] THEN {e} ELSE {}
=============================================================================
