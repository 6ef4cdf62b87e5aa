# Waggle: a verification development

Waggle is a memory server for coding agents. It keeps a graph of memories (nodes, edges, verbatim transcripts) in one
SQLite database, serves it over MCP and HTTP, and lets humans govern corrections of it. This directory holds TLA+
modules for the parts of it in which several threads, tasks, processes or machines meet, or in which a long sequence of
legal calls has to keep a promise; the TLC configurations that check them on small instances; and theorems that TLAPS
proves for every instance.

Source paths below are relative to `src/src/waggle/` unless they start otherwise. `PROJECT.json` lists every component,
run, hazard and theorem, and maps each definition to the lines it models.

Contents: 1 the system, 2 the modules, 3 the runs, 4 fairness, 5 proofs, 6 disagreements, 7 plan, 8 what is not
modelled, 9 how to run it.

## 1. What there is: the system and this model of it

| Part of the program | State it keeps | Operations | Module |
|---|---|---|---|
| Reader/writer lock, `graph/__init__.py` `_ReadWriteLock` | counters of readers and waiting writers, owner, depth | acquire, release, nested, interrupted | `ReadWriteLock` (abstract: `RWLock`) |
| Connection pool, `connection_pool.py` | idle deque, leased count, closed flag, SQLite handles | checkout, return, close, drain | `ConnectionPool` |
| Lock, pool and writer together, `graph/mutation.py`, `graph/__init__.py` | who holds what | resolutions and audit writes that check out | `NestedCheckout` |
| Process lock, `locks.py` | an flock on `<db>.lock` | acquire, fail, release, die | `LockOrder` |
| Correction workflow, `webmcp/` | memories, proposals, audit events | propose, review, apply | `ProposalWorkflow` (abstract: `GovernedMemory`) |
| Memory orchestrator, `orchestrator.py` | queue, dedup cache, interval guard, worker task | admit, work, start, stop, flush | `MemoryOrchestrator` |
| Transcript ingestion, `graph/transcript.py` | transcript rows, nodes with evidence | ingest a hand-off, observe a live turn | `TranscriptIngestion` |
| Derived caches, `graph/mutation.py`, `graph/traversal.py`, `graph/__init__.py` | topic partition per tenant, vector and count per window | every mutation, `get_topics`, recompute, close | `DerivedCaches` |
| Conflicts and authority, `graph/mutation.py` | nodes, aliases, edges, who supersedes whom | add, merge, resolve, canonicalise, delete | `ConflictAuthority` |
| Queries, `graph/traversal.py`, `graph/__init__.py` | access counts | query, tiered query, aggregate, neighbours, prime | `GraphReads` |
| Stored embeddings, `graph/__init__.py`, `embeddings.py` | vectors with label and checksum | open, store, damage, scan, re-embed | `EmbeddingStore` |
| Hybrid retrieval, `retrieval/hybrid.py` | one shared lexical index with its signature | search, expand, fuse, re-rank | `HybridRetrieval` |
| Recursive context, `recursive_context.py` | a build in progress | subqueries, expansion, resolution, pack | `RecursiveContext` |
| `.abhi` documents, `abhi.py` | files | export, write, sign, load, diff, merge | `AbhiDocuments`, `AbhiFiles` |
| Backup, restore, Drive sync, `drive_sync.py`, `server/cli.py` | the store, a backup, the drive | backup, restore, push, pull, import | `SnapshotExchange` |
| Markdown vault, `markdown_vault.py` | a directory of files | export, edit, import | `MarkdownVault` |
| GitHub events, `github_event.py` | checkpoint and context file | normalise, upsert, relate, export, replace | `GithubEvents` |
| Claude Code hooks and chat runtime, `hooks/claude_code/`, `chat_runtime.py` | checkpoints, one manifest | observe, ingest, export, name, resume | `ContextHandoff` |
| Administration, `graph/__init__.py`, `neo4j_graph.py` | UI state, retention policy and runs, files | save, prune | `StoreAdministration` |
| Request gate, `protocol/mcp/http.py`, `rate_limit.py` | keys, windows, slots, drain flag | create, revoke, admit, answer, drain | `RequestGate` |
| Graph editor, `server/routes.py` | nothing of its own | create, update, delete, restore | `GraphEditor` |
| Demo tenants, `webmcp/demo.py` | tenants of a bounded set | admit, seed, reset | `DemoTenants` |
| RLM engine, `src/src/rlm/core/` | a tree of completions, costs, servers | complete, call, spawn, time out, cancel | `RlmEngine` |
| REPL environments, `src/src/rlm/environments/` | captured output, directories, pending model calls | run a cell, ask, poll, answer, clean up | `ReplSandbox`, `SandboxCalls` |
| MCP tools, `tools/dispatcher.py`, `server/mcp.py` | counters, gauges of the graph's size | a call of a tool: guard, dispatch, count, record | `ToolCalls` |
| Set-up of clients, `server/cli.py` | the clients' configuration files, in the user's home | init, setup, uninstall, beside the user's edits | `ClientSetup` |
| VS Code extension, `src/apps/vscode-extension/` | a child process and its port, a cached binary | start, stop, exit, download, verify | `ServerManager`, `BinaryCache` |

The components that are not in the table (transports, command-line wiring, rankers, text heuristics, serialisers,
interfaces, tooling) are in section 8.

How they interact. A server process has one `MemoryGraph`, cloned for each tenant; the clones share one reader/writer
lock and one connection pool. An operation takes the lock, borrows a connection, and its transaction ends when the
connection goes back. Several processes (servers, hooks, the command line) use one database file: the graph lock does
not reach the others, `ProcessLock` is taken by a few operations only, and Python's `sqlite3` opens a transaction at the
first *write*, so what an operation reads before that write can change under it. The orchestrator runs on an asyncio
loop and calls the graph in worker threads. Caches are kept in the rows of the database and are marked stale by the
transaction that changes what they were computed from. Files (`.abhi` checkpoints, backups, vaults, the drive, the
GitHub context) carry memories between stores and sessions, and are written without a lock; so are the configuration
files of the clients, which belong to the user.

What is hard in it: a condition variable with two kinds of waiters; waits left by an exception or a timeout; closing a
pool that is in use; decisions taken on what was read before the first write; a worker that is cancelled while its
thread goes on; a process that dies between two transactions of one operation, after which the next run has to catch
up; caches computed outside the lock; merges that decide in one place what a diff announces in another; answers and
events that are repeated, reordered or lost; budgets and limits that a tree of calls shares; callbacks that come between
two awaits. `PROJECT.json` lists these places, line by line, under "hazards"; each names the properties that would catch
it going wrong.

## 2. The modules

Each component has a module of its own with its constants (and a named assumption on them), state, one action per step
that other actors can observe, and its properties. `<Module>Proofs` holds the theorems. Modules whose name begins with
`MC` give a component its instance for TLC. Operators named `<Definition>_<Bug>` are mutated forms of a definition; no
specification uses them. They show that the properties can fail: put in place of the definition, each makes TLC report
the property it is paired with in `PROJECT.json`.

### Concurrency of one process

**ReadWriteLock.** One atomic step for each method body up to a `cond.wait()`. A thread in `wait()` is in `asleep`
until a `notify_all` empties that set; it then tests its loop condition again in a step of its own. Nested reads,
nested writes, reads inside a write and the refused upgrade are all there. An exception inside `wait()` leaves through
the `finally` clause (`InterruptWriter`, `InterruptReader`). `RWLock` says what callers rely on (many readers or one
writer) and the lock implements it under the mapping `Mode`.

**ConnectionPool.** `__init__` creates connections one by one and may fail; `_acquire` and `_release` are steps under
the condition, commit or rollback is a step before `_release`, and `close` closes the idle handles after it let go of
the condition. `notify()` wakes one sleeper, chosen freely. Checkouts nest; deadlines pass (`Expire`) and exceptions
arrive (`Interrupt`) at any time in a wait. Commit and rollback may fail; a failed rollback is suppressed and leaves the
handle, which goes back all the same, with its transaction (`tx[c] = "left"`).

**NestedCheckout.** What neither of the two shows alone: `resolve_conflict` holds the write lock, a connection and
SQLite's write lock when it checks out a second connection; audit writes and retention runs check out without the write
lock and then wait for SQLite's. With the pool exhausted these wait for one another, and only the deadline of a checkout
or SQLite's busy timeout (`GivesUp`) ends it.

**LockOrder.** The file lock of `ProcessLock`, under it the graph lock, under that SQLite's writer.
`observe_conversation` and `ingest_transcript_handoff` have several sections under one file lock, initialisation and
re-embedding one, other mutations do without it. Opening and locking the file are steps of their own, so the lock is on
what the descriptor names and not on the path; acquiring may fail, a section may raise, a process may die and take its
descriptors along.

**MemoryOrchestrator.** Everything between two awaits is one step of the loop. A worker waits in `queue.get` or in
`to_thread`; `stop` cancels it, the thread of the call goes on (`StoreVerbatim`, `CallEnds`), and a call the executor
had not begun is dropped. The `finally` clause and its `task_done`, the eviction order of the dedup cache, the
interval guard, the full queue, `join` and its release at zero are modelled.

### What the graph holds

**ProposalWorkflow.** The nodes table, the proposals table and the audit events of each proposal. A propose request
has separate read steps before its insert, guarded by the partial unique index; review and apply have a read step and
a write-and-commit step. Inside one process the graph lock joins these two for other lock holders; other processes
come in between. `AddNode`, `UpdateNode`, `DeleteNode`, `AddUpdatesEdge` and `DeleteEdge` are what other tools do to
memories. A version stands for the digest of a memory's fields. `GovernedMemory` is the promise: a version is replaced
only by text a human froze, at most once, and decisions are final.

**TranscriptIngestion.** One session. A run stores unknown messages (`Persist`), reads the session back and decides
what needs extraction (`LoadSession`), extracts each pair in a transaction of its own (`ExtractPair`) and returns. It
may fail, or its process die, at every point (`RunFails`): a Claude Code hook does so when its five-second alarm
fires. Identities are those of the code: the client's message id where there is one, else content and occurrence.

**DerivedCaches.** The nodes and edges of a tenant, the topic cache in its row and the rows of the context windows.
`AddNode` makes sure of the window with a timestamp taken earlier, in a transaction of its own, then inserts or merges a
duplicate. All mutations of the graph are there with what each does, or does not do, to the window's row and the topic
version. `get_topics` is a step for each of its SELECTs and its guarded UPDATE. `recompute_stale_window_embeddings` and
`close_context_window` read, compute and save, the first guarded by the row's `updated_at`.

**ConflictAuthority.** The write operations as one transaction each: a new node may be merged into a near duplicate
(with its aliases, valid to the later of the two ends) or set against an opposite one, contents, ends of validity and
metadata are edited, edges may be refused, merged or rewritten, a verdict closes the loser's validity and marks it
superseded, and nodes are merged by hand or deleted. What can go wrong is the order of legal calls. `renewed` is
history: the nodes that were out of default answers until a caller declared them valid beyond that, and those they were
merged into.

**GraphReads.** Five ways of asking. Seeds and rankings are any the code could produce, so the properties hold whatever
the embeddings say. The priority queue of the expansion, the decay, the limits, the filters and the access counts are
those of the code, and so is the time window of a query: its candidates, if there are any, replace what was reached,
support included. The tiered query picks its windows in sections before its main one, so a write comes in between.

**EmbeddingStore.** Two processes over one table: a server that stores, rewrites and deletes, with the model its opening
settled on, and `doctor --fix`, which scans, re-embeds and clears in batches. A row carries a label, the text its vector
was made of and, as history, its maker; damage may hit any blob. The doctor's transaction begins at its first UPDATE.

**HybridRetrieval.** A query loads turn pairs, nodes and versions in sections of their own, builds or reuses the one
shared lexical index, follows `derived_from` edges, fuses, lets a model re-rank (and fail, repeat or invent) and fetches
the nodes of its hits, while others write.

**RecursiveContext.** `build_context`: subqueries one after the other, each of which may fail, the expansion of the best
hits, then `_resolve_updates_and_conflicts`, deduplication, ranking and the budgeted pack, beside edits, expiries and
deletions. Scores are thousandths and the length of a bullet is a constant of its memory.

### Files and other machines

**AbhiDocuments, AbhiFiles.** The functions of `abhi.py` on documents as sets of records: export under a scope with its
dependencies, hash, signature and encryption, chunks, field-level diff, three-way merge. `AbhiFiles` takes them through
the life of a file over all small inputs, so that each property compares two of the functions with one another.

**SnapshotExchange.** A store, a backup and a drive. A pull fetches, exports the store, merges into a file and imports
it, in four steps of a process that may die, while the server writes and another device pushes.

**MarkdownVault.** An export reads the graph in one section and then writes file by file; their owner edits, strikes out
and deletes; an import applies documents in the order of their paths, then their relations, by id or by label, with
stubs for labels nobody knows.

**GithubEvents.** A process per delivery: normalisation of each kind of event, an upsert per memory (look, then write),
relations, export, and the replacement of two files. Deliveries are repeated and reordered, processes overlap and die,
and other callers touch the memories.

**ContextHandoff.** Hooks (`stop`, `compact`, `prompt`) and the runtime's coroutines (`turn`, `checkpoint`, `resume`)
over one database, the `.abhi` files and the one manifest. Exporting truncates, then writes; naming truncates the
manifest, then writes; a prompt reads the manifest, looks, imports and looks again. A hook's alarm goes off once, and
inside an inner `try` it is swallowed.

### Around the graph

**StoreAdministration.** Saving UI state or policy is a read section and a write section; pruning counts, deletes batch
by batch, unlinks files and records its run. `backend`, chosen in the initial state, says whether that is one
transaction (SQLite) or one per statement (Neo4j). A node that is deleted takes its newer edges along, by a cascade that
no counter counts; a run that fails is recorded with the counters it has, which on SQLite are of rows that are back.
`claimed`, `deleted` and `along` are history: what recorded runs say they deleted, and what is gone with and without
being counted.

**RequestGate.** A request reads its body for as long as its client likes. Then its key is read, its mark is written and
the rate and the slot are taken: no other request moves meanwhile, for nothing suspends there, but these are separate
transactions, and a key may expire between them or be revoked by another process. The request works, and is answered or
timed out; a drain begins at any time.

**ToolCalls.** `call_tool` for every tool, each call in a thread: the guard of the fast mode, aliases, validation, then
the sections of the graph that the tool takes one after the other, the count of the call, and the sizes, read in a
section and set gauge by gauge. What a section does inside is left to the other modules: here it leaves rows, of a
session and project, and a file, which a later tool may import or merge.

**ClientSetup.** The files as entries: of the user, of the server (with the model it was set up for), hooks, and those
that look like the server's and are not. `init`, `setup` and `uninstall` read a file, work out what it becomes and write
it, client after client; the user or a second command may write in between, a file may be garbled, a process may die.

**GraphEditor, DemoTenants.** Handlers that are several store operations with no transaction around them; tenants that
several server processes admit, seed and reset under SQLite's writer, and whose visitors may delete every node, after
which the next request seeds the project again.

**RlmEngine, ReplSandbox, SandboxCalls.** The completion loop with its children, their share of time, errors and money,
and its cancellation; what two children add to their parent's costs may overlap, each addition a read and a write. The
cells that run in the process, as many at once as there are workers, and capture what belongs to all of it. The model
calls of cells that run elsewhere, through brokers, pollers and proxies that may lose an answer or be out of time.

**ServerManager, BinaryCache.** Windows of the extension: every `await` lets other calls and callbacks in. Ports belong
to the machine, the binary's temporary file to nobody. A cached binary without its sidecar is verified with the checksum
that is fetched for the version asked for, whichever version it is of; and a reply that is cut off in its middle never
settles where `fetchJson` reads it.

### The modules that compose them

`MCMemories`, `MCComponents` and `MCProgress` each extend one workflow and put further components beside it: those that
are proved about are extended too, so that the run and the theorem state one and the same definition
(`ConflictAuthority` and `EmbeddingStore` in `MCMemories`; `RequestGate`, `LockOrder`, `StoreAdministration`,
`DemoTenants` and `SandboxCalls` in `MCComponents`), the others are instances. Hence the names of their own that the
specifications of these modules have (`GateSpec`, `LockSpec`, `AskSpec`, ...). Components of one such module share
*nothing*: `part`, chosen in the initial state, says which of them a behaviour is one of, and the others do not move:
their variables stay in an initial state or, for an instance, without a value. The union is one of behaviours, not a
product; it lets one run answer the same kind of question for many components. A component may have two parts with
different bounds (`github1` and `github2`, `editor1` and `editor2`, ...). Properties of such a run are conjunctions
guarded by `part`, and fairness is restated with the same guard. `MCConnectionPool` does likewise with `mode`: two
threads with checkout timeouts or without, fair, or three threads with nothing fair.

The components that do share state are composed in their modules: the pool, the lock and SQLite's writer in
`NestedCheckout`, the three locks in `LockOrder`, `.abhi` documents (by EXTENDS) in `AbhiFiles` and `SnapshotExchange`,
memories and proposals in `ProposalWorkflow`, transcripts, checkpoints and database in `ContextHandoff`.

## 3. The runs

| Run | What runs | States | What it shows |
|---|---|---|---|
| `rwlock` | lock: 4 threads, nesting 2, all interruptible | 8,176 | `CountersSound` (exclusion, exact counts), `NoLostWakeup`, refinement of `RWLock`, `WriterProgress` |
| `pool` | pool: 2 connections; 3 threads that nest, time out and are interrupted, or 2 fair ones with and without timeouts | 435,511 | `HandlesSound` (one place, open while held, when idle past a commit or an attempted rollback), `NoStrandedCheckout`, `NoLeaseAfterClose`, `FairShutdownCompletes` |
| `memories` | workflow: 3 memories, 2 proposals, 2 requests, 1 process; beside it vectors, conflicts, reads, retrieval, context | 1,455,331 | `RecordsSound`, `TrailTellsStatus`, `NothingNewerIsOverwritten`, refinement of `GovernedMemory`, `ConflictsSound`, `VectorsSound`, `AnswersSound` |
| `components` | workflow: 2 memories, 1 proposal, 2 texts, 2 processes; beside it documents, vault, GitHub events, hand-off, exchange, administration, editor, demo, gate, locks, engine, sandboxes, tools, set-up, extension | 2,527,943 | `DecisionsAreFinal`, `ExactApprovedText`, `ExchangeSound`, `AdministrationSound`, `OneGuarded`, `DemoSound`, `EngineSound`, `CallsSound`, `GateSound`, `WorkspacesSound` |
| `orchestrator` | 3 turns of 2 scopes with 2 keys, queue 2, cache 1, 2 workers, 1 controller, 1 flusher | see `Orchestrator.cfg` | `AdmissionSound`, `OneWorker`, `FlushSettles`, `StoredInOrder`, `FlushCompletes`, `StopCompletes` |
| `progress` | transcript: 8 messages in growing prefixes, a live turn, 4 runs, 2 failures; beside it doctor, engine, calls, nested checkouts, locks, gate, server, binary | 124,438 | `RowsSound`, `GrowingTalkKeepsOrder`, `EvidenceCitesItsBlock`, `RepeatCatchesUp`, `UndisturbedRunsReadAll`; `CompletionReturns`, `CallsEnd` |
| `caches` | 2 nodes, 2 windows, 2 texts, 1 thread of each kind, 3 timestamps | see `Caches.cfg` | `TopicsSound`, `WindowRowsAccurate` |
| `proposal_stale_doc`, `transcript_unextracted_doc`, `caches_restale_doc`, `phrasings_doc`, `expired_doc` | as above, or smaller | - | counterexamples, section 6 |

The properties named after an area are conjunctions; each conjunct is stated, with a comment, in the module it is about.

* `CountersSound`, `HandlesSound`, `RecordsSound`, `AdmissionSound`, `RowsSound`, `TopicsSound`, `ConflictsSound`,
  `VectorsSound`, `GateSound`, `AdministrationSound`, `OneGuarded`, `DemoSound`, `CallsSound`: the types and the safety
  invariants of one module each, which are proved as well (section 5). `ConflictsSound`: edges are closed, once per key
  and never from a node to itself, and losers of verdicts stay out unless a caller declares them valid beyond the
  verdict, by an update or by restating them, or merges them by hand into a node that is in. `VectorsSound`: a vector
  that can be read was made by the model its label names, and damage never gets a valid checksum. `GateSound`: slots are
  exact, rates held in every minute, and every request admitted came with a key that was good when it was read and left
  its mark; only the one request that the loop was passing can get in with a key that died since. `AdministrationSound`:
  a saved field is lost only to an overlapping save; on SQLite rows past the cutoff go together with the completed run
  that counts them; on Neo4j no run counts more of them than are gone, and no run a file that is there; newer edges go
  only with a node past the cutoff. `OneGuarded`: of all threads of all processes one is between acquire and release of
  the file lock. `DemoSound`: the capacity is held; a project is seeded once, and again only when its visitor has
  emptied it; a visitor's nodes stay until that visitor edits or resets. `CallsSound`: a model is asked again only when
  an answer was lost, and a call is reported once.
* `AnswersSound`: in `HybridRetrieval`, a shared index is of the texts as they are unless a write overtook its build,
  what is found is of the project or two `derived_from` edges from it, and re-ranking neither loses nor repeats hits; in
  `GraphReads`, an answer is in scope and valid, within its limit, hangs on its seeds, does not mix the query's time
  window with what is outside, holds the support that was reached there, and access counts tell what was served; in
  `RecursiveContext`, a pack shows each memory once, in its last reading, nothing as current that was known to be
  superseded, and tells of conflicts or has used up its budget.
* `ExchangeSound`: in `AbhiFiles`, the diff predicts the merge, one-sided edits survive it, swapping sides mirrors it,
  it is closed; an export holds what its scope and options say and what that needs, and can be read back by whoever has
  the passphrase; in `MarkdownVault`, the round trip changes nothing and imports settle; in `SnapshotExchange`, no
  import leaves an edge without its ends, a row's stamp is that of a write somebody made, and a pull told to prefer the
  store's side, which stamps old content with the other side's time, undoes nothing here; in `GithubEvents`, a memory is
  of the latest event unless runs raced for it, finished runs are whole, the context is never ahead of its checkpoint;
  in `ContextHandoff`, a checkpoint holds every turn handed over before it was asked for, no import undoes something
  newer, and a session whose checkpoint holds an answer comes back with one.
* `EngineSound`: in `RlmEngine`, children end with their cell and share its deadline and money, no cost counts twice,
  and a count that no other overlaps is kept; in `ReplSandbox`, a cell that no other overlaps shows exactly its own
  prints, none gets to the process's own output while the root's cell is at work, and between the root's cells the
  process is as it was; in `ToolCalls`, every call is counted once, the gauges are the sizes of the graph unless a known
  step left them behind (`GaugesFollow`), an unforced export holds no secret the scan could have seen, and what a tool
  is annotated with holds of what it did (`HintsHold`).
* `WorkspacesSound`: in `GraphEditor`, restores land and keep what they were to keep; in `ServerManager` and
  `BinaryCache`, no server of the extension is forgotten or taken for another's, and a call for the binary that no other
  overlaps gets a whole one, whatever earlier ones left, unless its network fails, its release has no checksums or the
  release changes; in `ClientSetup`, the user's entries outlive the commands and the server is entered once.
* `CallsEnd`: nested checkouts, calls under the file lock, admitted requests, starts of the server, calls for the
  binary, the waits of a sandbox's queries and a doctor that has begun all end.

Why these bounds. In the lock, four threads are a reader inside, a reader and a writer waiting and one more to race
them. In the pool, three threads over two connections make somebody wait while both are out, and nested checkouts let
two threads wait for each other. Two proposals by two racing requests meet on every pair of steps of the workflow, and
the third memory is what an application creates. A queue of two, a cache of one and three tasks make the queue full, a
key evicted and a worker replaced. The talk has an answer in two parts around a tool message, so blocks grow between
runs; two failures let a catching-up run fail too. In the caches, two nodes give an edge, a duplicate and a move between
two windows, and three timestamps let a computation see a row before, at and after another's mark. In the composed runs
an instance has two of each actor that races (processes, windows, requests, children, savers), one or two items to race
for, capacities and rates of one, so that the limit is met, and enough time, calls or edits for a repetition after a
failure; the comment over an instance says what was chosen against what (two edges and nobody else, or one edge and
another thread). `NestedCheckout` is scaled to a pool of two with two resolutions and two audit writes: as many audit
writes as there are connections, which is what exhausts it.

Deadlock is checked in `rwlock` and `caches`. It is not where the system may stop: a pool without timeouts whose threads
nest checkouts (a deadlock the code answers with its checkout timeout), proposals that are all decided, a runtime that
hands over no more turns, an answered query, a client that makes no more runs. For the components in `progress` the
liveness properties take its place.

## 4. Fairness

Nobody is ever assumed to begin something. What is assumed is that what was begun goes on:

* Lock (`Fairness` in `ReadWriteLock`): a notified thread runs again and critical sections end. The strong part says
  that a thread which keeps returning to its outermost block leaves it: bodies are finite sequences of SQLite
  statements. `WriterProgress` speaks of the waiting writers together; the code keeps no order among them and promises
  none of them in particular its turn.
* Pool (`PoolFairness`): wake-ups, deadlines and a started `close()` go on, and with-blocks end (strong: a thread may
  borrow again). `ShutdownCompletes` excepts drains cut short by an exception: their handles are in a local list that is
  lost.
* Orchestrator: the event loop runs each coroutine that can go on (`LoopFairness`). Threads are not assumed to end:
  `FlushCompletes` has `ThreadFairness` as its premise (graph calls are bounded by the busy and checkout timeouts) and
  `StopCompletes` does without it, because cancelling does not wait for the thread.
* Doctor: the process runs (`DoctorStep`), and once it has its verdict it exits. The server beside it may go on
  rewriting rows; what bounds the doctor is that its first UPDATE shuts the server out until it commits.
* Engine: each agent's thread runs, a finished child's result is taken, a pool that is done is left. Model calls and
  cells end because the clients and cells have deadlines.
* Sandbox calls: the serving threads run; a wait that no poller serves times out in the end. A wait is not assumed to
  time out while its poller runs.
* Nested checkouts: threads run, a checkout's deadline and SQLite's busy timeout pass.
* Locks: a thread that can take its next step does. Nothing bounds a wait for the file lock or the graph lock, and
  neither is fair among its waiters: that a waiting call ends rests on the bound on the others' calls as well, and what
  the property excludes is a circle or a lock that is lost with its holder.
* Gate: `fail_after` bounds the work of an admitted request; from authentication to the slot the event loop does nothing
  else, and the busy timeout bounds the writes.
* Server start and binary: every await has an answer, a callback or a deadline, but for one. `fetchJson`
  (`binary-resolver.ts:324-350`) listens to the request's errors and timeout and to the response's `end` only; a reply
  cut off in its middle leaves its promise pending for ever (`Hangs`). `CallsReturn` and `StartsEnd` except the calls
  this happens to, and in a window the later calls of `start()`, which are given the same promise.
* The other modules have safety properties only: their operations are calls that somebody makes.

## 5. What is proved

All theorems hold for every value of the constants under the named assumption of their module, which TLC evaluates in
the runs. Sets of threads, messages, turns and processes may be infinite where the assumption does not say
`IsFiniteSet`. Each proof is an invariant strengthened until it is inductive (`IInv`; for the workflow with one process
its conjuncts are added one theorem after another). Where a run checks a conjunction, a theorem states it under the same
name: `CountersNeverDrift` proves `CountersSound`, `HandlesAreSound` `HandlesSound`, `RecordsAreSound` `RecordsSound`,
`AdmissionIsSound` `AdmissionSound`, `RowsAreSound` `RowsSound`, `TopicsAreSound` `TopicsSound`, `GraphIsSound`
`ConflictsSound`, `VectorsAreSound` `VectorsSound`, `GateIsSound` `GateSound`, `OneIsGuarded` `OneGuarded`,
`AdministrationIsSound` `AdministrationSound`, `DemoIsSound` `DemoSound` and `CallsAreSound` `CallsSound`. So every
safety invariant of a run that is about one module is proved; model-checked only are those about several instances.

* `ReadWriteLockProofs`: types, mutual exclusion, `_readers` and `_waiting_writers` exact, a writer never asleep on a
  free lock, `NoLostWakeup`, refinement of `RWLock`. Exclusion alone is not inductive: the counters have to be tied to
  sets of holders and waiters (`CountersExact`) and the owner to its depth, sleepers have to be waiting and waiters to
  hold nothing.
* `ConnectionPoolProofs`: types, `_leased` exact, one place, usable while held, no idle handle whose transaction nobody
  tried to end, nobody asleep after a close, a failed construction leaks nothing, no lease after close. `Construction`
  (what is made and not yet published) and `Closing` (what a `close` still has in its local list) complete the
  invariant. `NobodyStranded` proves `NoStrandedCheckout`: one `notify()` per return is enough. It counts the awake
  checkouts against the idle connections over every step; that only finitely many threads wait at a time comes from the
  invariant, not from an assumption.
* `ProposalWorkflowProofs`: for any number of processes, final decisions, exact text and one pending proposal per
  request. With one process (`OneProcess`), an audit trail that tells each proposal's status (`TrailIsTrue`), that only
  the reviewed version is replaced, at most once, and the refinement of `GovernedMemory`. `SectionInv` is the key: what
  a section read still holds when it writes, because the lock keeps the other lock holders out.
* `MemoryOrchestratorProofs`: types (the count never goes below zero), the unfinished count is what is queued or in a
  worker's hands, retries are refused for every cache size, the interval guard measures a stored turn (`LastIsKnown`
  ties the newest admission to the newest key of the cache). `FlushedIsSettled`: tasks leave the queue in the order they
  entered it, so the taken ones are those up to a number, and what is counted as unfinished covers what was admitted
  before the flush. `TranscriptInOrder`: while no worker was cancelled there is one worker, and its turn comes after all
  that is stored. `NeverTwoWorkers` needs `OneController`: `start` and `stop` are called from one coroutine, that of the
  runtime's owner (`chat_runtime.py:76-80`); with two, a `stop` may clear the name that a `start` has just given to a
  new worker.
* `TranscriptIngestionProofs`: types, one row per identity, one row per turn index. `EvidenceIsCitedWhereRead`: a cited
  turn leads a block of one speaker up to the message, and blocks only grow at their end (`EvidenceInv`).
  `RepeatsCatchUp` and `UndisturbedRunsRead`: what a run that found nothing new, or one that nothing disturbed, still
  has to extract or has extracted covers every pair (`CatchUpInv`, `ReadInv`). `TalkStaysInOrder` needs `GrowingTalk`,
  which is the premise of the property: the payloads are prefixes of one talk in which an identified message comes once.
  These need facts about blocks of any length; `LeastNatural`, the least-number principle, which follows from the
  library's theorem that strict inclusion of finite sets is well founded, gives them by a minimal counterexample.
* `DerivedCachesProofs`: types (with no dangling edge), a topic cache that is not stale is that of the graph as it is,
  and `get_topics` raises only if overtaken. `ReadersKnow` says what each call under way knows about the graph if the
  version it read is still the current one. `WindowRowsAreAccurate`: counts and fresh vectors are of the window's nodes;
  `SavesAccurate` adds that a vector which is about to be saved, over a row nobody marked since, is of them.
* `MemoriesProofs`: edges hang on nodes that exist (`EdgesStayClosed`), one per key (`EdgesStayDistinct`), losers of
  verdicts stay out unless renewed (`VerdictsHold`), and with types and loops all of `ConflictsSound`. `GraphInv` adds
  that a winner is an end of its edge or a node that is gone, and will not come back under the same id; the hard step is
  canonicalising, which moves the edges of one node to another and drops those that become loops or doubles.
  `VectorsAreSound`, for any rows, texts and size of a batch: `EmbInv` says of *every* vector there is, stored, about to
  be stored by either process or kept aside by the doctor's open transaction, that its label tells its maker and that a
  readable one is nobody's damage (`GoodRows`); an opening that back-fills labels is the step that needs it of old rows.
* `ComponentsProofs`, five modules. The gate: `SlotsAreExact`, `RatesHold`, `OnlyLiveKeys`, together `GateSound`. A
  sliding window is a sequence that loses its old entries only when somebody asks; `Covered` maps every admission of the
  last minute to an entry of its own, one to one, so that the window's length bounds every minute, also those that began
  in the past (`Rates`). `Revocations` and `Marks` tie a key's row to the trail, and a key that has died stays dead, so
  that of the requests admitted by it after that (`late`) there is only the one that was between its authentication and
  its slot. `OneIsGuarded`, for any threads, processes and number of lock files: that a holder is the one the lock of
  *its* descriptor names does not exclude a second holder on another file; `LockInv` adds that whoever waits or holds
  has the file at the path open, and that the path keeps its file, which is what would break were the file unlinked.
  `AdministrationIsSound`, for any rows, saves and files: the row a save has read still has what is kept of it, since
  whoever wrote in between has reset that history (`AdminSaves`), and `AdminCounts` relates the counters of a prune to
  what is deleted at each of its statements: equal on SQLite for completed runs, where a failure takes the rows back, at
  most that on Neo4j for completed and failed ones; a newer edge goes only beside a node past the cutoff. `DemoIsSound`:
  between its look at the tenants and its end an admission is alone (`CallsHold`), so the capacity it saw is the
  capacity there is; a process that dies gives the lock back with the insert undone. A seeding is counted against the
  projects that are there and the times a visitor has emptied one. `CallsAreSound`, for every kind of environment and
  any queries, cells and threads: `AskCosts` says that a query still to be served has no answer that was not lost, with
  the poller's list repeating nothing (`AskQueue`); `AskListed`, that no call is tracked or under way that a cell has
  reported; `AskCollects`, that each query of the cell under way that cost a call has one tracked.

Hypotheses. `OneProcess`, `OneController` and `GrowingTalk` are named where they are needed, as above; without the first
the claim is false, and `proposal_stale_doc` shows it. `AuthorityAssumption` (bounds are naturals, "contradicts" is a
relationship, what callers give are ends of validity), `BatchAssumption` (a batch is not empty, texts are positive
numbers), `GateAssumption` (rates, capacity, the minute and the bound on time are naturals, expiries are times),
`LockAssumption` (files are counted, nobody is no thread), `AdminAssumption` (finitely many files, the policy is one of
the rows), `DemoAssumption` (capacity and bound are naturals, no one is neither process nor session) and
`CallsAssumption` (bounds are naturals, a broker has a thread) are definitions of their modules; the composing modules
assume them of their values, so that TLC evaluates them.

Only model-checked. Liveness (`WriterProgress`, `FairShutdownCompletes`, `FlushCompletes`, `StopCompletes`,
`CompletionReturns`, `CallsEnd`): the prover has no fairness or ENABLED. `AnswersSound`, `ExchangeSound`, `EngineSound`
and `WorkspacesSound`, conjunctions over instances in `MCMemories` and `MCComponents`: a theorem about one of them would
be one about the instances' constants. Of their modules, `NestedCheckout` and `GraphReads` declare RECURSIVE operators,
and what folds over documents or sequences compute (`AbhiDocuments`, `MarkdownVault`, `RecursiveContext`, `ClientSetup`)
is induction over data with an operator as parameter: neither is within the prover's reach. `GraphEditor`, `RlmEngine`,
`ReplSandbox`, `ServerManager`, `BinaryCache` and `ToolCalls` are over sets and functions and could be proved about.

## 6. Where the code and its words disagree

With a counterexample of their own:

1. `proposal_stale_doc`. `src/README.md:194` says a proposal whose memory "has changed since the proposal was created"
   is marked stale instead of overwriting newer information. Between the version check of `apply_approved_memory_change`
   (`webmcp/workspace.py:627`) and its first write, another process may commit an edit. With one process it cannot,
   which is proved.
2. `transcript_unextracted_doc`. The scan promises to extract turns that "either have new messages or haven't been
   extracted yet" (`graph/transcript.py:683-684`). A run that stored any message looks at new messages alone, so what
   an interrupted run left is passed over for as long as the talk goes on. A repeat with nothing new does catch up,
   which `RepeatCatchesUp` checks.
3. `caches_restale_doc`. The guard of `recompute_stale_window_embeddings` rests on "every stale-marking path bumps
   updated_at" (`graph/__init__.py:2049-2052`). `add_node` marks with the timestamp it had already written when it made
   sure of the window, so a vector computed in between is saved as fresh without the node.
4. `phrasings_doc`. "Track all phrasings that have been merged into this canonical node" (`graph/mutation.py:1258`):
   `_find_duplicate_node` selects no aliases column, so a merge writes its aliases over those that
   `canonicalize_node` or an earlier merge had collected on the row.
5. `expired_doc`. "A node with valid_to in the past must NOT appear in default aggregate results"
   (`src/tests/test_temporal_validity.py:106`): `aggregate` filters its candidates, and fetches what it adds along edges
   by id alone (`graph/__init__.py:2893`).

Stated in a module and known to fail there, but checked by no run. The comment over each says what it quotes.

| Property | Says | What the code does |
|---|---|---|
| `EmbeddingStore!VectorOfItsText` | re-embedding is protected across processes | `UPDATE ... WHERE id` alone (`graph/__init__.py:2062-2067`): a text rewritten after the SELECT keeps a vector of its old content |
| `SnapshotExchange!NewerContentWins` | the newer timestamp wins (`docs/abhi-format.md:34-35`) | the merge decides field by field and takes all else, the timestamp included, from the remote object (`abhi.py:1285`): a row may keep newer content under an older stamp, and lose it in a later pull |
| `AbhiFiles!SignedFilesVerify` | signatures remain valid (`docs/abhi-format-v2.md:168,172`) | the signature is made over the hash the manifest has at that point, and then the hash is computed again, now with the table of members (`abhi.py:816,827`): no signed file verifies |
| `ConnectionPool!CleanHandlesGoBack` | after a failed commit the rollback comes first "so a clean connection goes back to the pool" (`connection_pool.py:203-204`) | an error of the rollback is suppressed (`connection_pool.py:207-208`, likewise 197-198): the next borrower gets, and may commit, what it left |
| `RlmEngine!BudgetBoundsSpending` | execution stops when the budget, children included, is exceeded | `_check_iteration_limits` overwrites `_cumulative_cost` with the loop's own usage, what children spent is forgotten |
| `ReplSandbox!CaptureIsThreadSafe` | "Thread-safe context manager" (`local_repl.py:472`) | concurrent cells of a batch restore one another's `sys.stdout` |
| `SandboxCalls!CallsOfThisExecution` | calls "made during this execution" (`modal_repl.py:458`) | a late answer of a cell that timed out is listed by the next one |
| `StoreAdministration!SummariesAreTrue` | a summary counts what was deleted (`docs/reference.md:441`) | edges that go with a node by the cascade (`graph/__init__.py:256-272`) are counted by no run; a failed run is recorded with its counters (`graph/__init__.py:1298-1304`), though SQLite has the rows back; on Neo4j the committed batches of one are missing |
| `ConflictAuthority!RestatedLosersStayOut` | the loser is superseded and left out of default answers (`tools/dispatcher.py:656-659`) | restating it merges with the later end of validity (`graph/mutation.py:1252-1257`, `evidence.py:39-49`), `update_node` writes the end it is given: either brings it back |
| `ConflictAuthority!WinnerStands` | the loser is superseded, the winner stands (`tools/dispatcher.py:656-659`) | nothing an earlier verdict wrote on the winner is taken back: it stays out of default answers, and over a cycle of verdicts everybody does |
| `GraphReads!RelatedAnswers` | `get_related` traverses the edges of a node (`docs/reference.md:497`) | `NetworkXNoPath` for a node that only an incoming edge reaches (`graph/traversal.py:1318`); WebMCP's brief calls it too (`webmcp/workspace.py:336`) |
| `ServerManager!OffMeansOff` | deactivation leaves no server running | a start whose await ends afterwards spawns one all the same (`server-manager.ts:78`) |
| `BinaryCache!ReturnedRuns` | what is returned can be run | a window closed before `chmod` leaves a verified file that is not executable (`binary-resolver.ts:167-170`) |
| `MarkdownVault!SecondImportIsIdle` | a second import of the same files changes nothing | the first resolved a label by the row that it renames, the second makes a stub |

Seen while reading and modelled as the code has it:

* Pool: the docstring of `close` says idle connections are closed immediately; a draining close closes them after the
  drain. Process lock: `locks.py:33-34` says a second acquire "will block indefinitely"; it raises (`locks.py:85-86`).
* Orchestrator: the comment at `orchestrator.py:196-198` calls the eviction of a dedup key safe because
  `observe_conversation` is idempotent; it stores two rows without an identity under a new id on each call.
* Window vectors: `close_context_window` saves over a newer stale mark. `canonicalize_node`, `prune_retention` and a
  change of label alone leave the window's row as it is. A duplicate found for a call without a session may sit in
  another window. `WindowRowsAccurate` exempts exactly these windows (`drifted`). A window's id is a slug of its session
  while its upsert names the session (`graph/__init__.py:2254`), and the window is ensured in a transaction of its own
  (`graph/mutation.py:99`).
* Hybrid retrieval: an index built of overtaken turn pairs is served until the signature changes, against its docstring
  (`retrieval/hybrid.py:509`). Hits keep the text of expired nodes, and expansion ignores the project. In `query`,
  `_query_replay_hits` and `_build_fusion_hits` are never reached. A `DiGraph` keeps the last of several edges per
  direction.
* Recursive context: `hit_by_id` keeps the last copy, so `_deduplicate_hits` finds nothing to do when updates are
  resolved, against its docstring and `src/tests/test_recursive_context.py:507`. The list of the best hits may hold a
  memory several times, and a repeated edge counts repeatedly. Section titles are not counted, so a pack may exceed the
  budget's tolerance. Deep mode's further subqueries are cut by the default limit of six. A failing `get_related` costs
  a seed its whole expansion.
* GitHub events: with two runs at once an older event may go over a newer one (`github_event.py:609-646`, against
  `src/tests/test_github_event.py:315`); a manual edit stamps now, and later events with earlier times are ignored; of
  two payloads of one second the first wins; after a death between the two replacements the context lags behind the
  checkpoint.
* Hand-off: `resume_context` imports into a warm scope when the message is shorter than three characters or matches
  nothing, against `docs/memory-orchestration.md:101`. The five-second timeout of `docs/hooks.md` is swallowed by the
  inner handlers (`pre_response.py:146-187`), and nothing bounds the rest. The one manifest takes precedence over the
  path a payload names; session names that sanitise to one component share a checkpoint; overlapping compactions may
  leave an older or a mixed one; a prompt during a compaction answers without context.
* Files: `resolve_abhi_conflict` can never succeed; the merge's file drops low-confidence edges; contradicts edges for
  transcripts and windows are discarded. The vault's round trip makes an evidence record of "No evidence recorded.",
  prefixes and cuts evidence to five, and an import of stale files may set back or resurrect nodes.
* Extension: `start()` may return a server that a `stop()` gave up meanwhile (`server-manager.ts:63`), `runtime` is
  given out before the server is healthy, and two windows racing for a port may take each other's server until their
  child exits. Two concurrent downloads may both fail.
* Tools: `get_related`, `timeline`, `debug_retrieval` and `build_context` are annotated read-only and idempotent and
  count accesses. `delete_node` is not among `_GRAPH_SIZE_TOOLS` (`tools/dispatcher.py:171`), so the gauges lag after
  it, as they may after overlapping calls and after a `decompose_and_store` that fails half-way. Backups and bundles are
  committed without the scan for secrets, and an `.abhi` document is scanned in one snapshot and written from another.
  The guard of the fast mode looks at the name a client used: `commit` with a `retrieval_mode` passes it, `export_abhi`
  does not, and `timeline` does always, although one with a query searches by vectors. `commit` of a bundle has the
  defaults `prime` and `hybrid` (`tools/dispatcher.py:1717,1724`), which `export_context_bundle` refuses together
  (`graph/__init__.py:3402`); an import of a backup leaves its transcripts out.
* Set-up: a TOML section whose header has a comment after it does not end the server's section before it and is replaced
  with it; a JSON file with a syntax error is written over; a hook entry one of whose commands names waggle is taken
  away whole. Nothing is locked, and a command killed between opening and writing leaves an emptied file.
* Neo4j: `Neo4jMemoryGraph` ends at `neo4j_graph.py:1951`. `update_node`, `delete_node` and the other operations from
  1954 on are nested in a module-level function and never become its methods, nor do the helpers (`_require_node`,
  `_find_duplicate_node`, `_node_from_props`, ...) that its own operations call: `add_node`, `add_edge`, `get_node` and
  `get_related` raise `AttributeError` before they write, `aggregate` and `query` as soon as there is a node to read.

## 7. Plan

Done, in this order: lock, pool, workflow, orchestrator, transcript, caches with their proofs; then conflicts, reads,
vectors and retrieval; documents, exchange and vault; administration, gate, editor, demo; engine and sandboxes; the
extension; recursive context; GitHub events; the hand-off of contexts; nested checkouts and the order of
the locks; the calls of tools; the set-up of clients; then proofs about conflicts, vectors, the gate, the file lock,
administration, the demo and the sandboxes' calls.

Next:

1. Proofs for `GraphEditor`, `ServerManager`, `RlmEngine` and `ToolCalls`, each extended by its composing module first.
2. A composition of `MemoryOrchestrator` with the runtime of `ContextHandoff`, where the worker is one step now.
3. In `DerivedCaches`, what imports and the back-fill of legacy nodes do to windows.

## 8. What is not modelled, and why

* Wording and numbers: text heuristics and extraction (`intelligence.py`, `evidence.py`, `code_extraction.py`,
  `backfill.py`), embeddings, the blob codec of `graph/base.py`, ranking and topic scores, serialisers and bundles. They
  are functions without state; the models keep a small set of texts and what is found in them, and leave scores open.
* External services: the Drive service, language models and their clients, the remote sandboxes, Neo4j itself, the MCP
  library. What the code relies on is external in the map.
* Stateless layers: the tools' schemas and the text of their answers, transports, command-line wiring (but for the
  set-up of clients), configuration, errors, logs, the registry of metrics, and `rlm.py`, which builds one prompt and
  runs one completion.
* Within modelled parts. Workflow: the project list, brief and recall reads, `clear_project`. Orchestrator: retrieval
  (read-only), the text filters of the policy. Ingestion: linking of extracted nodes, exports, searches. Caches:
  imports, back-fill, repair of corrupt vectors. Reads: timeline and statistics, which format what they read.
  Administration: one-shot migrations. Editor: pages, reads and the other routes. Engine: the wire format of its model
  server. Hand-off: inference of project and agent, the filter of secrets, the fitting of a context to its budget, and
  the checkpoint scope of a project alone. GitHub events: redaction and rendered text. Documents: compression and the
  zip container. Process lock: the Windows call made instead of `flock`.
* Graph UI, benchmarks, scripts, deployment and plugins.

## 9. Running it

    tlc -workers 2 -config RWLock.cfg ReadWriteLock
    tlc -workers 2 -config Pool.cfg MCConnectionPool            # PROJECT.json names the module of each run
    tlapm ReadWriteLockProofs.tla                               # likewise for the other *Proofs modules

The largest runs are `memories` (1.5 million states) and `components` (2.5 million), of three to four minutes each;
`progress`, whose time goes into liveness, takes two, the others seconds to a minute and a half.
