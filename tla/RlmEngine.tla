------------------------------- MODULE RlmEngine -------------------------------
(***************************************************************************)
(* The recursive engine: RLM.completion's loop of model calls and cells,   *)
(* the children that rlm_query spawns from inside a cell (one in the       *)
(* thread of the cell, or several in a pool's threads), and the limits on  *)
(* time, errors and money.  The root runs at depth 0 of max_depth 2, so    *)
(* its children have cells and what they ask for in turn is a plain model  *)
(* call.  Every model call costs one unit; time is a clock.                *)
(***************************************************************************)
EXTENDS Integers, FiniteSets

CONSTANTS Root, Kids,      \* the root and the children a cell may have at once
    MaxIterations, MaxErrors, MaxBudget, MaxTimeout,   \* RLM.__init__'s limits
    Persistent,            \* RLM.__init__'s persistent
    Compaction,            \* RLM.__init__'s compaction
    MaxClock, MaxCalls, Turns   \* bounds: time, calls and children of one cell, completions

EngineAssumption ==
    /\ Root \notin Kids /\ {Persistent, Compaction} \subseteq BOOLEAN
    /\ {MaxIterations, MaxErrors, MaxBudget, MaxTimeout, MaxClock, MaxCalls, Turns} \subseteq Nat

Engines == {Root} \cup Kids

VARIABLES
    now,
    run,       \* per agent: where it is, its iteration, its limits and what it counted; due, history:
               \* what the root's cell should have counted of itself and of children it adds one at a time
    spent,     \* units really spent by the root and its children: in this completion, or since the
               \* persistent environment was made
    handlers,  \* LM servers listening: per agent how many
    turns,     \* completions the user asked for so far
    env,       \* the persistent environment's context and history counts
    outcome    \* how the last completion ended

vars == <<now, run, spent, handlers, turns, env, outcome>>

Resting == [at |-> "idle", iter |-> 0, own |-> 0, cum |-> 0, seen |-> 0, budget |-> 0,
            deadline |-> 0, errors |-> 0, calls |-> 0, pooled |-> FALSE, stop |-> FALSE, due |-> 0]
Positions == {"idle", "top", "cell", "adding"}
Outcomes == {"none", "answer", "timeout", "errors", "budget", "cancelled", "failed"}
Environment == [contexts : 0 .. Turns, histories : 0 .. Turns]
Most == MaxBudget + Turns * (MaxIterations + 1) * (2 + MaxCalls) * (1 + Cardinality(Kids))

TypeOK ==
    /\ now \in 0 .. MaxClock /\ turns \in 0 .. Turns /\ outcome \in Outcomes
    /\ \A a \in Engines :
          /\ run[a].at \in Positions /\ run[a].iter \in 0 .. MaxIterations /\ run[a].calls \in 0 .. MaxCalls
          /\ run[a].errors \in 0 .. MaxErrors /\ handlers[a] \in Nat
          /\ {run[a].own, run[a].cum, run[a].seen, run[a].budget} \subseteq -1 .. Most
    /\ spent \in 0 .. Most /\ env \in Environment

Init ==
    /\ now = 0 /\ spent = 0 /\ turns = 0 /\ outcome = "none"
    /\ run = [a \in Engines |-> Resting] /\ handlers = [a \in Engines |-> 0]
    /\ env = [contexts |-> 0, histories |-> 0]

Running(a) == run[a].at # "idle"
CallsOf(a) == IF a = Root THEN MaxCalls ELSE 1   \* bound
Set(a, r) == run' = [run EXCEPT ![a] = r]
RunningKids == {k \in Kids : Running(k)}

\* completion's entry: the counters it resets - the cost is not one of them.
Started(r, budget, deadline, pooled) ==
    [r EXCEPT !.at = "top", !.iter = 0, !.own = 0, !.errors = 0, !.calls = 0, !.stop = FALSE,
              !.budget = budget, !.deadline = deadline, !.pooled = pooled]

\* The root starts; its server is up before the environment is built, which may raise.
Completion ==
    /\ ~Running(Root) /\ turns < Turns /\ turns' = turns + 1 /\ UNCHANGED now
    /\ spent' = (IF Persistent THEN spent ELSE 0)
    /\ handlers' = [handlers EXCEPT ![Root] = @ + 1]
    /\ \/ /\ Set(Root, Started(run[Root], MaxBudget, now + MaxTimeout, FALSE))
          /\ env' = IF Persistent THEN [env EXCEPT !.contexts = @ + 1] ELSE env
          /\ outcome' = "none"
       \/ outcome' = "failed" /\ UNCHANGED <<run, env>>

\* The context manager's exit, on every way out but the one above.
Ends(a, how, cost) ==
    /\ handlers' = [handlers EXCEPT ![a] = @ - 1]
    /\ IF a = Root
         THEN /\ outcome' = how
              /\ run' = [run EXCEPT ![Root] = [Resting EXCEPT !.cum = IF Persistent THEN cost ELSE 0]]
              /\ env' = IF Persistent /\ how = "answer" THEN [env EXCEPT !.histories = @ + 1] ELSE env
         ELSE \* _subcall: an answer's or a broken budget's cost is added, in two steps
              /\ run' = [run EXCEPT ![a] = IF how \in {"answer", "budget"}
                                             THEN [run[a] EXCEPT !.at = "adding", !.cum = cost, !.seen = run[Root].cum]
                                             ELSE Resting]
              /\ UNCHANGED <<outcome, env>>

\* Mutants: the root's own usage is added once more; the child's replaces the sum.
Added_Twice(k) == run[k].seen + run[k].own + run[Root].own
Added_Alone(k) == run[k].own

Added(k) == run[k].seen + run[k].own

\* Another child's += began or ended since this one read the sum.
Overlapped(k) == run[k].seen # run[Root].cum \/ \E other \in Kids \ {k} : run[other].at = "adding"

\* The += of _subcall: the value read before the child's usage was summed, and that sum.
ChildReturns(k) ==
    /\ run[k].at = "adding"
    /\ run' = [run EXCEPT ![k] = Resting, ![Root].cum = Added(k),
                          ![Root].due = IF Overlapped(k) THEN @ ELSE @ + run[k].own]
    /\ UNCHANGED <<now, spent, handlers, turns, env, outcome>>

TimedOut(a) == now > run[a].deadline

\* _check_timeout.
TimesOut(a) ==
    /\ run[a].at = "top" /\ run[a].iter < MaxIterations /\ TimedOut(a)
    /\ Ends(a, "timeout", run[a].cum)
    /\ UNCHANGED <<now, spent, turns>>

\* An iteration: perhaps a summary, the model's reply, and the cells of the reply begin.
Iterate(a) ==
    /\ run[a].at = "top" /\ run[a].iter < MaxIterations /\ ~TimedOut(a)
    /\ \E n \in {1} \cup {2 : c \in {Compaction} \cap {TRUE}} :
          /\ Set(a, [run[a] EXCEPT !.at = "cell", !.own = @ + n, !.calls = 0, !.due = IF a = Root THEN run[a].cum ELSE 0])
          /\ spent' = spent + n
    /\ UNCHANGED <<now, handlers, turns, env, outcome>>

\* The backend raises out of the loop.
ModelFails(a) ==
    /\ run[a].at = "top" /\ Ends(a, "failed", run[a].cum)
    /\ UNCHANGED <<now, spent, turns>>

\* A mutant: off by one, so that the last iteration is waited for in vain.
OutOfIterations_Above(a) == run[a].iter > MaxIterations

OutOfIterations(a) == run[a].iter = MaxIterations

\* Out of iterations: _default_answer, with no limit in its way.
DefaultAnswer(a) ==
    /\ run[a].at = "top" /\ OutOfIterations(a)
    /\ spent' = spent + 1
    /\ handlers' = [handlers EXCEPT ![a] = @ - 1]
    /\ IF a = Root
         THEN /\ outcome' = "answer" /\ run' = [run EXCEPT ![Root] = [Resting EXCEPT !.cum = IF Persistent THEN run[Root].cum ELSE 0]]
              /\ env' = IF Persistent THEN [env EXCEPT !.histories = @ + 1] ELSE env
         ELSE /\ run' = [run EXCEPT ![a] = [run[a] EXCEPT !.at = "adding", !.own = @ + 1, !.seen = run[Root].cum]]
              /\ UNCHANGED <<outcome, env>>
    /\ UNCHANGED <<now, turns>>

\* llm_query in a cell goes through the agent's own server and is in its usage; a
\* child's rlm_query is at max depth, has a client of its own and is in nobody's.
Query(a) ==
    /\ run[a].at = "cell" /\ run[a].calls < CallsOf(a)
    /\ a = Root => RunningKids = {}
    /\ spent' = spent + 1
    /\ \/ Set(a, [run[a] EXCEPT !.own = @ + 1, !.calls = @ + 1])
       \/ a # Root /\ Set(a, [run[a] EXCEPT !.calls = @ + 1])
    /\ UNCHANGED <<now, handlers, turns, env, outcome>>

Remaining == MaxBudget - run[Root].cum

\* rlm_query in the root's cell: a child with what is left of the budget and the time.
\* A single call runs in the cell's thread, a batch in a pool's.
Subcall(k) ==
    /\ run[Root].at = "cell" /\ run[Root].calls < MaxCalls /\ ~Running(k) /\ ~run[Root].stop
    /\ Remaining > 0 /\ now < run[Root].deadline
    /\ \E pooled \in BOOLEAN :
          /\ ~pooled => RunningKids = {}
          /\ \A other \in RunningKids : run[other].pooled
          /\ \/ /\ handlers' = [handlers EXCEPT ![k] = @ + 1]
                /\ run' = [run EXCEPT ![Root].calls = @ + 1,
                                      ![k] = Started(Resting, Remaining, run[Root].deadline, pooled)]
             \/ \* its environment could not be built: an error string, and a server left up
                /\ handlers' = [handlers EXCEPT ![k] = @ + 1]
                /\ run' = [run EXCEPT ![Root].calls = @ + 1]
    /\ UNCHANGED <<now, spent, turns, env, outcome>>

\* The cells are over, in error or not, with a final answer or not: _check_iteration_limits
\* before the answer is looked for.  The cost it takes is its own server's.
EndIteration(a) ==
    /\ run[a].at = "cell" /\ (a = Root => RunningKids = {} /\ ~run[a].stop)
    /\ \E error \in BOOLEAN, final \in BOOLEAN :
          LET errors == IF error THEN run[a].errors + 1 ELSE 0
              over == run[a].own > run[a].budget
              how == IF errors >= MaxErrors THEN "errors" ELSE IF over THEN "budget" ELSE "answer"
          IN IF errors >= MaxErrors \/ over \/ final
               THEN Ends(a, how, IF how = "errors" THEN run[a].cum ELSE run[a].own)
               ELSE /\ Set(a, [run[a] EXCEPT !.at = "top", !.iter = @ + 1, !.errors = errors, !.cum = run[a].own, !.due = 0])
                    /\ UNCHANGED <<handlers, env, outcome>>
    /\ UNCHANGED <<now, spent, turns>>

\* Ctrl+C reaches the main thread: the innermost loop running there takes it and ends;
\* _subcall makes an error string of a child's.  A pool is waited for first.
Cancel ==
    /\ Running(Root) /\ ~run[Root].stop
    /\ LET mine == {k \in RunningKids : ~run[k].pooled /\ run[k].at # "adding"}
       IN IF mine # {} THEN \E k \in mine : Ends(k, "cancelled", 0)
          ELSE IF RunningKids = {} THEN Ends(Root, "cancelled", run[Root].cum)
          ELSE Set(Root, [run[Root] EXCEPT !.stop = TRUE]) /\ UNCHANGED <<handlers, env, outcome>>
    /\ UNCHANGED <<now, spent, turns>>

PoolEnds ==
    /\ run[Root].stop /\ RunningKids = {} /\ Ends(Root, "cancelled", run[Root].cum)
    /\ UNCHANGED <<now, spent, turns>>

Tick == now < MaxClock /\ Running(Root) /\ now' = now + 1
        /\ UNCHANGED <<run, spent, handlers, turns, env, outcome>>

Work(a) == TimesOut(a) \/ Iterate(a) \/ DefaultAnswer(a) \/ EndIteration(a)
Loop == (\E a \in Engines : Work(a)) \/ (\E k \in Kids : ChildReturns(k)) \/ PoolEnds
Next == Completion \/ Loop \/ Cancel \/ Tick
        \/ (\E a \in Engines : ModelFails(a) \/ Query(a)) \/ (\E k \in Kids : Subcall(k))

Spec == Init /\ [][Next]_vars
\* A model call answers and a cell ends; each agent's thread runs.
Fairness == (\A a \in Engines : WF_vars(Work(a))) /\ (\A k \in Kids : WF_vars(ChildReturns(k))) /\ WF_vars(PoolEnds)
FairSpec == Spec /\ Fairness

-----------------------------------------------------------------------------
\* No child, pooled or not, runs once the cell that asked for it is over.
ChildrenWithinTheirCell == RunningKids # {} => run[Root].at = "cell"

\* A child's time ends with the root's: it is given what is left, not the whole.
OneDeadline == \A k \in RunningKids : run[k].deadline = run[Root].deadline

\* The cost the budget is compared with is at most what was spent: nothing counts twice.
NothingCountsTwice == Running(Root) => run[Root].cum <= spent

\* While the cell lasts, the root's cost has every child whose addition no other's overlaps:
\* those that overlap may lose one another's, not an earlier one's.
LoneAddIsKept == run[Root].at = "cell" => run[Root].cum >= run[Root].due

\* However many children run, none is past its share when it goes on to an iteration.
EachWithinItsShare == \A a \in Engines : run[a].at = "top" /\ run[a].iter > 0 => run[a].own <= run[a].budget

\* Servers: one per running completion, and one for each environment that failed to build.
ServersOfTheRunning == \A a \in Engines : run[a].at \in {"top", "cell"} => handlers[a] > 0

\* A conversation has at most as many histories as contexts, and the last one answered
\* cannot be behind the context it is about.
HistoriesFollowContexts == Persistent => env.histories <= env.contexts

(* The loop and its children: time is shared out, spending is never overstated, only  *)
(* overlapping children lose one another's, and no child survives its cell, however children, failures and Ctrl+C interleave.      *)
EngineSound ==
    /\ TypeOK /\ ChildrenWithinTheirCell /\ OneDeadline /\ NothingCountsTwice /\ LoneAddIsKept
    /\ EachWithinItsShare /\ ServersOfTheRunning /\ HistoriesFollowContexts

\* completion returns or raises.
CompletionReturns == Running(Root) ~> ~Running(Root)

\* rlm.py: "Tracking (cumulative across all calls including children)", and max_budget:
\* "Execution stops if exceeded": the root does not begin another iteration beyond it.
BudgetBoundsSpending == run[Root].at = "top" /\ run[Root].iter > 0 => spent <= MaxBudget
=============================================================================
