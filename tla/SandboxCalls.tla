------------------------------ MODULE SandboxCalls ------------------------------
(***************************************************************************)
(* The environments that run a cell in another process, and the model      *)
(* calls that process asks its host for.  In a remote sandbox a broker     *)
(* holds the queries, and a poller thread of the host fetches the pending  *)
(* ones, asks the model for each in turn and posts the answers back; the   *)
(* Docker host serves the queries itself, one connection at a time; the    *)
(* IPython kernel's broker serves each in a thread of its own and files    *)
(* what it spent under the cell's id.                                      *)
(***************************************************************************)
EXTENDS Integers, Sequences, FiniteSets, SequencesExt

CONSTANTS Reqs, Environments,
    MaxServed,      \* _SubcallBroker's max_concurrent
    Cells, MaxAsks      \* bounds: cells, and model calls for one query

CallsAssumption == Cells \in Nat /\ MaxAsks \in Nat /\ MaxServed \in Nat \ {0}

VARIABLES
    env,      \* which environment this is
    host,      \* the host's thread
    poller,    \* the thread that serves the queries
    list,      \* what it fetched and has not served yet
    ready,     \* the head of the list has its answer
    serving,   \* the kernel broker's threads
    cell,      \* cells begun; the current cell's number
    script,    \* whether the cell's code runs
    entry, waiter, of, asked, lost,   \* per query: broker, asker, its cell, model calls, posts lost
    tracked,     \* pending_llm_calls: <<query, which call>>
    reported   \* per cell: the calls its result listed

askVars == <<env, host, poller, list, ready, serving, cell, script, entry, waiter, of, asked, lost, tracked, reported>>
askedFor == <<entry, waiter, of, asked, lost>>

Remote == {"modal", "e2b", "prime", "daytona"}

Hosts == {"new", "ready", "running", "failed", "closed"}
Pollers == {"off", "on", "stopping"}
EntryStates == {"none", "pending", "responded"}       \* pending_requests
Waiters == {"none", "waiting", "answered", "gone"}
ModelCalls == Reqs \X (1 .. MaxAsks)

AskTypeOK ==
    /\ env \in Environments /\ host \in Hosts
    /\ poller \in Pollers /\ list \in Seq(Reqs) /\ ready \in BOOLEAN /\ serving \subseteq Reqs
    /\ cell \in 0 .. Cells /\ script \in BOOLEAN /\ of \in [Reqs -> 0 .. Cells]
    /\ entry \in [Reqs -> EntryStates]
    /\ waiter \in [Reqs -> Waiters]
    /\ asked \in [Reqs -> 0 .. MaxAsks] /\ lost \in [Reqs -> 0 .. MaxAsks]
    /\ tracked \subseteq ModelCalls /\ reported \in [1 .. Cells -> SUBSET ModelCalls]

AskInit ==
    /\ env \in Environments /\ host = "new" /\ poller = "off" /\ list = <<>> /\ ready = FALSE /\ serving = {}
    /\ cell = 0 /\ script = FALSE /\ tracked = {} /\ reported = [c \in 1 .. Cells |-> {}]
    /\ entry = [r \in Reqs |-> "none"] /\ waiter = [r \in Reqs |-> "none"] /\ of = [r \in Reqs |-> 0]
    /\ asked = [r \in Reqs |-> 0] /\ lost = [r \in Reqs |-> 0]

Started(up) ==
    /\ host = "new" /\ host' = "ready" /\ poller' = IF up THEN "on" ELSE "off"
    /\ UNCHANGED <<env, list, ready, serving, cell, script, askedFor, tracked, reported>>
SetupRaised ==
    /\ host = "new" /\ host' = "failed"
    /\ UNCHANGED <<env, poller, list, ready, serving, cell, script, askedFor, tracked, reported>>

\* Modal and Daytona sleep and go on, without a poller when there is no address.
ModalSetup == env = "modal" /\ \E tunnel \in BOOLEAN : Started(tunnel)
DaytonaSetup == env = "daytona" /\ \E preview \in BOOLEAN : Started(preview)
\* E2B and Prime ask the broker's health and raise when it does not come up.
E2BSetup == env = "e2b" /\ (Started(TRUE) \/ SetupRaised)
PrimeSetup == env = "prime" /\ (Started(TRUE) \/ SetupRaised)
DockerSetup == env = "docker" /\ (Started(TRUE) \/ SetupRaised)
KernelSetup == env = "kernel" /\ (Started(TRUE) \/ SetupRaised)

\* execute_code clears the calls and starts the code; the kernel is told the cell's id.
StartCell ==
    /\ host = "ready" /\ cell < Cells
    /\ host' = "running" /\ cell' = cell + 1 /\ script' = TRUE
    /\ tracked' = IF env = "kernel" THEN tracked ELSE {}
    /\ UNCHANGED <<env, poller, list, ready, serving, askedFor, reported>>

\* A query is sent and waited for, and belongs to the cell under way.
Asks(r) ==
    /\ script /\ waiter[r] = "none"
    /\ entry' = [entry EXCEPT ![r] = "pending"] /\ waiter' = [waiter EXCEPT ![r] = "waiting"]
    /\ of' = [of EXCEPT ![r] = cell]
    /\ UNCHANGED <<env, host, poller, list, ready, serving, cell, script, asked, lost, tracked, reported>>

\* The script's llm_query: a POST to the broker, or to Docker's host.
ScriptAsks(r) == env # "kernel" /\ Asks(r)

\* The kernel's rlm_query: a message that names _RLM_CURRENT_CELL.
KernelAsks(r) == env = "kernel" /\ Asks(r)

\* The broker's wait and the asker's are over; the broker forgets the query, while a
\* connection to the Docker host, and a kernel broker's thread, stay.
TimesOut(r) ==
    /\ waiter[r] = "waiting"
    /\ waiter' = [waiter EXCEPT ![r] = "gone"]
    /\ entry' = IF env \in Remote THEN [entry EXCEPT ![r] = "none"] ELSE entry
    /\ UNCHANGED <<env, host, poller, list, ready, serving, cell, script, of, asked, lost, tracked, reported>>

\* The broker's wait for a query whose asker was killed is over.
Forgets(r) ==
    /\ env \in Remote /\ waiter[r] = "gone" /\ entry[r] # "none"
    /\ entry' = [entry EXCEPT ![r] = "none"]
    /\ UNCHANGED <<env, host, poller, list, ready, serving, cell, script, waiter, of, asked, lost, tracked, reported>>

Pending == {r \in Reqs : entry[r] = "pending"}

\* The poller fetches every query that has no answer; Docker's server the next one.
Poll ==
    /\ poller = "on" /\ env # "kernel" /\ list = <<>> /\ Pending # {}
    /\ IF env \in Remote THEN list' \in SetToSeqs(Pending) ELSE \E r \in Pending : list' = <<r>>
    /\ UNCHANGED <<env, host, poller, ready, serving, cell, script, askedFor, tracked, reported>>

\* _handle_llm_request: the model's answer is tracked, or an error is the answer.  The
\* engine stops the model's server before it cleans the environment up.
Handle ==
    /\ list # <<>> /\ ~ready /\ ready' = TRUE
    /\ LET r == Head(list)
       IN \/ /\ host # "closed" /\ asked[r] < MaxAsks
             /\ asked' = [asked EXCEPT ![r] = @ + 1] /\ tracked' = tracked \cup {<<r, asked[r] + 1>>}
          \/ UNCHANGED <<asked, tracked>>
    /\ UNCHANGED <<env, host, poller, list, serving, cell, script, entry, waiter, of, lost, reported>>

\* A mutant: the answer is stored, and the asker not woken.
Answered_Unwoken(w) == w

Answered(w) == IF w = "waiting" THEN "answered" ELSE w

\* The answer is posted; a query that is gone is not found.
Respond ==
    /\ list # <<>> /\ ready /\ ready' = FALSE /\ list' = Tail(list)
    /\ LET r == Head(list)
       IN /\ entry' = [entry EXCEPT ![r] = IF env = "docker" \/ @ = "none" THEN "none" ELSE "responded"]
          /\ waiter' = [waiter EXCEPT ![r] = Answered(@)]
    /\ UNCHANGED <<env, host, poller, serving, cell, script, of, asked, lost, tracked, reported>>

\* The post fails: the rest of what was fetched is dropped, and all of it fetched again.
PostLost ==
    /\ env \in Remote /\ list # <<>> /\ ready /\ lost[Head(list)] + 1 < MaxAsks
    /\ ready' = FALSE /\ list' = <<>> /\ lost' = [lost EXCEPT ![Head(list)] = @ + 1]
    /\ UNCHANGED <<env, host, poller, serving, cell, script, entry, waiter, of, asked, tracked, reported>>

\* _dispatch in a thread of its own, a few at a time; none begins once the broker stops.
Dispatch(r) ==
    /\ env = "kernel" /\ r \in Pending \ serving /\ host # "closed" /\ Cardinality(serving) < MaxServed
    /\ asked[r] < MaxAsks
    /\ serving' = serving \cup {r} /\ asked' = [asked EXCEPT ![r] = @ + 1]
    /\ UNCHANGED <<env, host, poller, list, ready, cell, script, entry, waiter, of, lost, tracked, reported>>

\* It is done: what it spent is filed under the cell that asked, and answered if the asker is there.
Dispatched(r) ==
    /\ r \in serving /\ serving' = serving \ {r}
    /\ (tracked' = tracked \cup {<<r, asked[r]>>} \/ UNCHANGED tracked)
    /\ entry' = [entry EXCEPT ![r] = "none"]
    /\ waiter' = [waiter EXCEPT ![r] = Answered(@)]
    /\ UNCHANGED <<env, host, poller, list, ready, cell, script, of, asked, lost, reported>>

\* The cell's code ends once all it asked is answered or has timed out.
ScriptEnds ==
    /\ script /\ \A r \in Reqs : waiter[r] # "waiting"
    /\ script' = FALSE
    /\ UNCHANGED <<env, host, poller, list, ready, serving, cell, askedFor, tracked, reported>>

Killed == [r \in Reqs |-> IF waiter[r] = "waiting" THEN "gone" ELSE waiter[r]]

\* The run's own time is up.  The remote clients raise out of execute_code and nothing
\* is collected; the kernel is interrupted and the cell's result made as usual.
ExecTimesOut ==
    /\ script /\ env \in {"e2b", "prime", "daytona", "kernel"}
    /\ script' = FALSE /\ waiter' = Killed
    /\ host' = IF env = "kernel" THEN host ELSE "ready"
    /\ UNCHANGED <<env, poller, list, ready, serving, cell, entry, of, asked, lost, tracked, reported>>

\* A mutant: everything that is filed.
Drained_All == tracked

\* drain: what is filed under the cell; the stragglers of other cells go too.
Drained == {c \in tracked : of[c[1]] = cell}

\* The result: all pending calls, or the kernel cell's own, and none is kept.
Collect ==
    /\ host = "running" /\ ~script /\ host' = "ready"
    /\ reported' = [reported EXCEPT ![cell] = IF env = "kernel" THEN Drained ELSE tracked]
    /\ tracked' = {}
    /\ UNCHANGED <<env, poller, list, ready, serving, cell, script, askedFor>>

\* The poller is told to stop and waited for, two seconds at most; the sandbox goes.
Cleanup ==
    /\ host = "ready" /\ host' = "closed"
    /\ poller' = IF poller = "on" THEN "stopping" ELSE poller
    /\ waiter' = Killed /\ entry' = [r \in Reqs |-> "none"]
    /\ UNCHANGED <<env, list, ready, serving, cell, script, of, asked, lost, tracked, reported>>

PollerStops ==
    /\ poller = "stopping" /\ list = <<>> /\ poller' = "off"
    /\ UNCHANGED <<env, host, list, ready, serving, cell, script, askedFor, tracked, reported>>

Setup == ModalSetup \/ DaytonaSetup \/ E2BSetup \/ PrimeSetup \/ DockerSetup \/ KernelSetup
Serves == Poll \/ Handle \/ Respond \/ PollerStops
AskNext ==
    \/ Setup \/ StartCell \/ Serves \/ PostLost \/ ScriptEnds \/ ExecTimesOut \/ Collect \/ Cleanup
    \/ \E r \in Reqs : ScriptAsks(r) \/ KernelAsks(r) \/ TimesOut(r) \/ Forgets(r) \/ Dispatch(r) \/ Dispatched(r)

AskSpec == AskInit /\ [][AskNext]_askVars
\* The serving threads run; a wait that nobody serves times out in the end.
AskFairness ==
    /\ WF_askVars(Serves)
    /\ \A r \in Reqs : WF_askVars(Dispatch(r)) /\ WF_askVars(Dispatched(r)) /\ WF_askVars(poller # "on" /\ TimesOut(r))
AskFairSpec == AskSpec /\ AskFairness

-----------------------------------------------------------------------------
\* A query costs a second model call only if an answer to it was lost.
RepeatsOnlyWhatWasLost == \A r \in Reqs : asked[r] <= 1 + lost[r]

\* No call is in the result of two cells.
ReportedOnce == \A c, d \in 1 .. Cells : c # d => reported[c] \cap reported[d] = {}

\* In the kernel a late answer is never listed by a later cell.
KernelCallsAreOwn == env = "kernel" => \A c \in 1 .. Cells : \A k \in reported[c] : of[k[1]] = c

\* When a cell's code has ended by itself, every call made for a query it had answered is
\* there to be collected: it was tracked before it was answered.
AnsweredIsTracked ==
    host = "running" /\ ~script =>
        \A r \in Reqs : of[r] = cell /\ waiter[r] = "answered" /\ asked[r] > lost[r] /\ env # "kernel" =>
            \E n \in 1 .. MaxAsks : <<r, n>> \in tracked

\* At most so many of the kernel's queries are served at once.
FewServed == Cardinality(serving) <= MaxServed

(* What a cell's model calls cost and who is told, over lost posts, timeouts on either *)
(* side, killed cells and late answers.                                               *)
CallsSound == AskTypeOK /\ RepeatsOnlyWhatWasLost /\ ReportedOnce /\ KernelCallsAreOwn /\ AnsweredIsTracked /\ FewServed

\* A query is answered, or its wait ends: none is left waiting.
QueriesReturn == \A r \in Reqs : waiter[r] = "waiting" ~> waiter[r] # "waiting"

\* modal_repl.py: "Collect LLM calls made during this execution".
CallsOfThisExecution == \A c \in 1 .. Cells : \A k \in reported[c] : of[k[1]] = c
=============================================================================
