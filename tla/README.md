# A verification project for AI Development Studio Core

This directory holds TLA+ specifications of the concurrent and stateful parts of
the C++ program under `src/Core`, the TLC configurations that check them, and
TLAPS proofs of what matters most. Every module was translated from the source;
`PROJECT.json` names, for each definition, the lines it stands for.

Contents: [the system](#the-system), [the modules](#the-modules),
[the runs](#the-runs-and-their-bounds), [fairness](#fairness),
[the proofs](#the-proofs), [what does not hold](#what-does-not-hold),
[what is only model-checked, and what is not modelled](#limits),
[the plan](#the-plan).

## The system

One executable (`Core/src/main.cpp`) with three exclusive modes over the same
services: an MCP server on stdin/stdout (`--mcp`), an LSP server on stdin/stdout
(`--lsp`), and an HTTP API (the default). The two stdio servers are loops on the
main thread that answer one request at a time; the HTTP server runs its handlers
on a pool of threads. In all modes a `FileWatcher` has a thread of its own, and
`EventBus` calls subscribers synchronously on the thread that publishes. A second
group of classes (sessions, leases, operations, tasks) is a library for a
graphical front end that is not in the repository; its tests are its only callers
here, and each of the classes documents that it may be called by several threads.

| Component | State | Operations | Hard part | What makes it correct |
|---|---|---|---|---|
| Resource lease ledger (`Session/ResourceLeaseLedger`) | per resource: holders, queue | Acquire, Release, ReleaseAllForSession; publishes promotions after the unlock | batches of promotions; events that trail the state | exclusion, FIFO, nobody left waiting unblocked, every grant announced |
| Session manager (`Session/SessionManager`) | per session: state, adapter, `stop_requested`, `restart_in_progress` | CreateSession, Stop, Restart, PollAll | adapters are called outside the mutex; a process dies at any time | a terminal session has no process; a crash is recorded as one; leases return |
| Pseudo terminal (`Terminal/PtyProcess`) | child, running flag, exit code | Start, Stop, destructor, reader thread | two parties clear the running flag | the exit code is that of the present child |
| Operation ledger (`Session/OperationLedger`) | one record per operation | Begin, Complete, MarkInterrupted, Reconcile | lost attempts, probes outside the mutex, restart | recorded outcomes are those of an attempt; nothing runs again unless an attempt failed |
| Task queue (`Task/TaskQueue`) | per task: state, progress, retries, last error | Enqueue, Start, Pause, Resume, ReportProgress, Complete, Fail, Retry, Cancel, CheckTimeouts | any order of legal calls | dependencies first; records belong to the present attempt |
| Task executor (`Task/TaskExecutor`) | jobs, worker futures | Submit, dispatch, run, destructor | dispatchers with stale snapshots; workers spawned during destruction | no ready task forgotten, one worker per task, the destructor waits |
| File watcher (`Project/FileWatcher`) | hashes of the last scan, baseline flag, the OS watch | Start, PollOnce, Stop | writes during a scan, while publishing, before the watch is armed | no change is missed |
| Context cache and retriever (`Context/ContextCache`, `ContextRetriever`) | generation, answers; a kept scan and its generation | GetOrRetrieve, InvalidateAll; ScanProject, InvalidateScan | invalidated by the watcher's thread while a request is answered | nothing stale is kept once the watcher is quiet |
| Code indexes (`Index/*`) | symbols, includes, calls, inheritance, references, ASTs, each under a mutex | Build, UpdateFile, RemoveFile, Search | updated one after the other by the watcher | each reflects the files on disk |
| Handoff resume (`Session/HandoffResumeOrchestrator`) | generated sessions | ObservePollResult, ResumeViaHandoff | a session that it resumes may itself be polled | one resume per ended session |
| HTTP API, backend registry, approval queue, plugins | backend states, approval requests, loaded libraries and their adapters | start, stop, command, approve, reject; load, register, destroy | handlers on pool threads; registry and queue without a mutex; locals of main() die in reverse order | nothing runs without a decision, and where decisions do not overlap each is kept and carried out once; reported states are true; no call into code that is gone while there are handlers |
| Database, migrations, repositories (`Database/*`) | SQLite rows, schema version | EnsureSchema, Apply; save, find, remove | several processes start on one file; a crash between a migration and its version | each migration applied once; nobody serves on an old schema |
| LSP server (`LSP/LspServer`) | open documents, one bit of diagnostics per document, shutdown received | didOpen/Change/Close, ten requests, shutdown, exit | the client runs ahead; buffer, disk and two indexes differ | the server's texts are the client's; every request answered once, in order; a rename is whole; marks are taken back |
| MCP server, sent ledger (`MCP/McpServer`, `Context/SentLedger`) | what was sent, by id and content | twenty tools, tools/list | each tool guards itself; content counts as sent once it is recorded | no answer names a file the firewall denies but the one it was asked about; what is offered is served; "unchanged" was delivered |
| Context retrieval, sources, selection (`Context/*`) | the lines already covered, the budget | Retrieve, SelectWithCompression | five sources find the same lines by different ways | in scope, within the budget, no line twice but where a definition was cut or a file is brought or offered whole, none lost |
| Process runner, handoff verification (`Util/ProcessRunner`, `Session/HandoffVerifier`) | pipe, child, reader | RunProcess, StartProcess, Wait, destructor | inherited handles, pipes that fill, a timeout against the end | an answer is the command's own and whole; a call returns |
| Git backend (`Git/GitBackend`) | whether git is there | eight commands, twelve queries, context | two threads and a user in one working tree; names that are options or files | no work is lost; a comparison names what is one's own |
| Impact analysis (`Analysis/ImpactAnalyzer`) | files visited | Analyze, AnalyzeChanges | graphs change between two reads | ends; reports what was an includer throughout |
| Syntax extractors, search, text utilities | none | walks, scores, positions, ranges, ids, quoting | boundaries, encodings, two readings of one thing | what one part writes another reads as it was meant |
| Comparison board | trials, decisions | record, decide | repeated decisions | one adopted trial per task |
| Editor state | a file written by an editor | write, read | partial and stale files | |
| Event bus | handlers by topic | Subscribe, Unsubscribe, Publish | a handler runs after Unsubscribe | |
| Sandbox, plain caches, repositories | little or none | single functions or statements | | |

How they interact, as far as modelled:

- `SessionManager` owns adapters over `PtyProcess`, and returns the leases of a
  session to `ResourceLeaseLedger` when it stops or is found dead.
- `TaskExecutor` drives `TaskQueue`; other threads call the queue directly.
- `FileWatcher` publishes `FileChanged` on its own thread; the handler in
  `main.cpp` updates the six indexes, then `ContextCache`, then the scan of
  `ContextRetriever`, while the server's thread reads all of them. In LSP mode
  the handler updates the symbol index and then the include graph.
- The HTTP server's threads start, stop and command backends, native ones and
  those of plugins, and put commands into the approval queue until somebody
  decides; main() destroys all of it when Listen() returns.
- The MCP server answers from the indexes, the retriever, the disk and the
  backends, among them the Git backend, whose every operation is one or two runs
  of git through `ProcessRunner`.
- The graphical front end and the HTTP server open `aistudio.db` in processes of
  their own; they share nothing but the file and SQLite's locks.

## The modules

| Module | Models | State ↔ code |
|---|---|---|
| `SharedExclusiveLocks` | the promise of the lease ledger: held and waiting requests per resource | abstract |
| `ResourceLeases` | `ResourceLeaseLedger` | `holders`, `queue` = `ResourceState`; `announcing[c]` = the vector of events a calling thread has yet to publish; `told` = what subscribers know |
| `Sessions` | `SessionManager` + `PtyProcess` + the ledger (by INSTANCE) | `state`, `adapterOf`, `stopRequested`, `restarting` = `Entry`; `child`, `running`, `exitCode` = `PtyProcess::Impl`; `call[t]` = where a calling thread is between two critical sections |
| `TaskQueue` | `TaskQueue` | one variable per field of `Task` that decides anything |
| `TaskExecutor` | `TaskExecutor` over `TaskQueue` (EXTENDS) | `jobs`, `futures` = its members; `call[th]` = where a submitter or worker is; `owner` = the destructor's progress |
| `Operations` | `OperationLedger`, its probes, its clients | `records`; `world[o]` = what really became of each attempt; `call[c]` = the attempt a client runs, or what it has probed; `overtaken` = operations begun again while another client still knew of an earlier attempt (no part of the code) |
| `FileWatching` | `FileWatcher` and the index part of the `FileChanged` handler | `known`, `baseline` = members; `armed`, `baselinePending` = locals of the loop; `pending` = the system's notification; `watcher` = where the thread is; `index` = the six indexes |
| `ContextFreshness` | `ContextCache`, the kept scan of `ContextRetriever` and the rest of the handler, over `FileWatching` (EXTENDS) | `generation`, `cached`, `snapshot`, `scanGeneration` = members; `server` = where the request is |
| `LspDocuments` | `LspServer::Run`, its client, and the `FileChanged` handler of `RunLspMode` | `documents`, `published`, `shutdown_received` = locals of Run(); `work` = what a request that takes several reads has collected; `inbox`, `outbox` = the streams; `buffers`, `shown`, `awaiting` = the client |
| `SchemaEvolution` | `ContextSnapshotRepository::EnsureSchema` and `Migrator::Apply` in several processes, over SQLite | `file`, `view`, `writer`, `readers` = SQLite's file, transactions and locks; `at`, `next` = where a process is, `current_version` + 1 and on |
| `BackendGateway` | `main()` from the first backend to the last destructor, `BackendRegistry`, `PluginLoader`, the plugin adapters, `ApprovalQueue` and the routes of `ApiServer` over them | `phase`, `todo` = where main() is; `backend`, `lifecycle`, `manifest`, `library`, `adapter` = the registries and loaders; `approval` = the queue; `doing[t]`, `target[t]` = a thread's call, in which a check and the write it leads to are two steps; `raced`, `granted`, `spoiled`, `calledFreed` only record what happened |
| `CodeIndexes` | the six indexes, their building and updates in HTTP mode, the routes that read them, `ImpactAnalyzer` | `tables`, `edges` = the indexes; `main`, `events`, `handling` = where building and the watcher are; `analysis` = an analysis between two locks |
| `ContextPipeline` | `ContextRetriever::Retrieve`, the makers of items, `ContextSelector`, `ContextBudget`, `ContextCompressor` | `project` = what is asked of what; `covered`, `items` = locals of Retrieve(); the rest the selection. A file that a backend offers is an excerpt or the whole file (`FileProviderBackend`) |
| `McpSession` | `McpServer`, `SentLedger` | `options` = the configuration; the sent ledger and the files on disk, which change between calls; `asked`, `subject`, `answer` = the last call |
| `ChildProcesses` | `ProcessRunner`, `HandoffVerifier` | `holders` = who has the pipe open; `pipe`, `written`, `output` in reads of the buffer; `at` = where the call is |
| `GitCommands` | `GitBackend` | `available` = its member; `trees`, `heads`, `commits`, `stashed`, `tags` = the repository (external); `calling` = a thread between the two runs of git.commit |
| `TextAlgorithms` | `QuoteArg`, UTF-8 and UTF-16, line ranges and excerpts, unified diffs, identifiers, ids of context items, git's listings, both searches | an algorithm, its input and its result |
| `SyntaxWalks` | the extractors of `Index/` | a syntax tree and what the walks found |

Four modules put parts together that share no state, so that one run of TLC
checks several of them: `MCDispatch` (tasks with retries, and the gateway),
`MCStored` (the database, and the files), `MCServer` (operations, child processes
and indexes) and `MCAssistant` (documents, tools, context, git, text, syntax). A
behaviour of one is a behaviour of one of its parts, `part` says which, and the
variables of the others keep one of their initial values. Nothing is lost by that:
the parts do not act on each other, and each one's specification is a disjunct as
it stands. The properties of a part are invariants of the others' initial states;
where one is a liveness property, it is stated for the behaviours of its part
(`DatabaseOpens`, `ContextIsFresh`). Real interactions are compositions of their
own, listed above: `Sessions` has the ledger, `TaskExecutor` the queue,
`ContextFreshness` the watcher, `CodeIndexes` the watcher, the routes and the
analysis, `BackendGateway` registry, queue, plugins and routes.

One action stands for one critical section (or for one step between two calls
that others can observe), so that every interleaving the mutexes allow is a
behaviour. A call that leaves the mutex in the middle (CreateSession, Restart,
PollAll, Reconcile, RunJob, GetOrRetrieve) is a sequence of actions of its
thread, and what it carries over in local variables is kept in `call` or
`server`. Early returns that change nothing are left out: they are stutters.

Abstractions made everywhere: identifiers are model values, error texts, logging
and time stamps are dropped, a clock is nondeterminism ("any running task may
have timed out"). In `Sessions` the fields of a session that decide nothing
(profile, directory) are dropped. In `FileWatching` a content hash is the
content, the six indexes are one variable (the handler updates them in one go
and nothing reads two of them atomically), and a scan reads each file at some
moment between its start and its end. In `ContextFreshness` one intent stands
for all: entries for different intents do not interact. In `LspDocuments` a text
is a sequence of lines of identifiers, a position counts identifiers (UTF-16
columns are the same on both sides), and a URI outside the project is taken for
one of a firewalled file: both are turned away at the same place. In
`SchemaEvolution` SQLite is external, modelled from its documented locks for a
rollback journal, and a migration is one statement of one of three kinds. Bounds
in guards: `MaxAttempts` in `Operations`, `MaxRetries` in `TaskQueue` (this one is
the code's own), `MaxEdits` in `FileWatching` and `CodeIndexes`, where `Reverts` says
whether a file may get an old content back (the runs of the indexes and caches: no), `MaxMessages`,
`MaxInbox` and `MaxEdits` in `LspDocuments`, `MaxCrashes` and `MaxFaults` in
`SchemaEvolution`, `MaxSaves`, `MaxCommits` and `MaxCalls` in `GitCommands`, the
bounds on calls, edits and requests in the others' guards. In `McpSession` a file's
content is a model value with an encoding, in `ContextPipeline` a project is a
record of what its searches find, with scores and lengths as small numbers. In
`GitCommands` a file's content is the number of the save that wrote it. In
`TextAlgorithms` characters that an algorithm does not tell apart are one.

`MC...` modules give TLC the values a `.cfg` cannot write. `...Proofs` modules and
`FoldFacts` hold theorems. Definitions with "Mutant" in their comment are plausible bugs;
no specification uses them, and `PROJECT.json` says which property each breaks
("As if" stands for "Mutant" in the modules written last). Several properties are
conjunctions of invariants that hold of one part (`SessionsAreTrue`,
`JobsAreOwned`, `BackendsAreThere`, `KeptIsCurrent`, `ShownIsAllowed`, with the
type invariant of the module; `ResponseIsSound`, `ToolsAreConfined`,
`IndexesAreTrue`, `ChangesReachIndexes`, `TextIsExact`); the conjuncts have names
and comments of their own.

## The runs and their bounds

| Run | Instance | What it shows |
|---|---|---|
| `leases` | three scopes: 1 calling thread, 3 sessions, 2 resources; 2 threads, 3 sessions, 1 resource; 2 threads, 2 sessions, 2 resources; fair | exclusion, no missed promotion, every grant announced, the refinement of `SharedExclusiveLocks`, and a queued request is served if leases are released. Three sessions make a holder with two Shared requests promoted together, or a Shared and an Exclusive one that are not; two resources make ReleaseAllForSession leave both; with two threads a lease is released, or a second promotion published, between another's unlock and its publication. More is covered by the proofs |
| `sessions` | 1 session, 2 users, 1 poller, fair | two creations race for one id, a Stop races a Restart, a poll finds a death at every point: a crash is never a clean end, and leases of the dead return. Restarts of one session are serial here (see below) |
| `two_sessions` | 2 sessions, 1 user, 1 poller, 1 resource | one session is promoted as the other ends, and may itself be dead by then; one poll finds two deaths: states are true and no lease stays behind |
| `task_join` | 3 tasks, the third depends on both others, 2 submitters, destructor, timeouts, cancellation, fair | no ready task is forgotten by racing dispatchers, nothing runs before its dependencies, the destructor waits |
| `dispatch` | tasks: 2 in a chain, 1 retry, pauses and progress reports. Gateway: 1 native backend, 2 plugins that claim one id, 2 threads, 2 requests, trusted or not, fair | dependencies first, one worker per task, completed by the worker of its present attempt; approvals and rejections race, also past each other's check: nothing runs unless it was approved, and what was resolved by one thread at a time runs once and never if it was rejected, whatever undefined behaviour does to other requests; states are true, no call into a freed library before main() destroys the registry. Commands with requests, and plugins with starts and stops, are two parts of the run |
| `stored` | database: 3 processes of 2 builds, 3 migrations of the three kinds, 1 crash, 1 failing statement, a new or an old file. Files: 2 files, 2 contents or absent, 2 edits. Both fair | every migration is applied exactly once, nobody serves an old schema, the race for the column is harmless, everyone serves in the end; no change is missed, what is kept is current when the watcher sleeps, all is current in the end |
| `server` | operations: 3 clients, 1 operation, 3 attempts, restarts. Processes: 2 callers, a pipe that holds 1 read of the buffer, an output cap of 2, programs that write nothing, more than both, or run on, and leave a helper that ends or stays. Indexes: 4 paths (two headers of one name, one of them missing at first; one file that is no source), 2 contents that include one another, 2 edits, 1 analysis. Fair | recorded outcomes are those of an attempt, and of the last one unless it was begun past a client that still knew of an earlier; an operation on record runs again only if it failed; an answer is whole and every call returns; the indexes are those of the disk, an analysis ends and is right about what did not change meanwhile |
| `assistant` | documents: 2 files (one firewalled), 2 texts, 3 messages of which 2 are on their way at once, 1 edit. Tools: every tool with every argument, the denied file among them, under every configuration, 2 retrievals with an edit between. Context: 3 files, projects in which sources overlap, backends that offer an excerpt or a whole file, with and without a budget. Git: 2 threads, 2 branches, 2 paths, 2 files, 2 saves, 4 calls. Text: all short inputs. Syntax: all trees of up to three nested definitions | what the properties named above say of each. TLC uses the view `View`, the variables of the behaviour's part: the others are constant in it |
| `lost_exit_code`, `retry_never_runs`, `stale_scan_cached`, `checkout_keeps_work` | small | one disagreement each between a comment and the code, see below |

The actors of each component are alike, so two of each kind already race; three
sessions or tasks are taken where a batch, a queue or a join needs them. Runs
without CHECK_DEADLOCK FALSE also show that some call can always proceed; the
others have a state in which everybody may rightly be done (a stopped watcher, a
destroyed executor, all operations resolved).

## Fairness

Only steps of a thread that is inside a call are fair (`CallProceeds`,
`SubmitProceeds`, `WorkerProceeds`, `ThreadProceeds`, `ServerProceeds`): the
scheduler runs every thread, and no modelled call waits for another caller while
holding a mutex. Nobody has to make a call. Beyond that:

- `NoStarvation` (leases) assumes that a session that holds a lease releases it;
- `CrashedLeaseReclaimed` (sessions) assumes that somebody calls PollAll again and
  again, as its comment demands (`SessionManager.hpp`), and that the reader
  thread of a dead child notices;
- `ReadyTasksRun` (tasks) assumes that jobs return; nothing cancels them;
- `ContextIsFresh` assumes the watcher's thread only; edits need not stop by
  assumption, they run out at `MaxEdits`;
- `DatabaseOpens` (schema) assumes that a process gets on with its start, leaves
  when it has failed (main() returns 1, which closes the connection) and is
  started again by whoever wants it. A process that serves may stay for ever;
- `ApprovedRuns` assumes that a handler that was entered proceeds; nobody has to
  approve;
- `CallsReturn` assumes that callers, readers and commands go on, a timeout
  elapses, and a helper that ends by itself does so; a call need not be made;
- `ImpactIsAnswered` assumes that the analysis goes on, while updates may come
  between any two of its steps.

## The proofs

All theorems are for arbitrary sets of sessions, resources, tasks, files, texts,
backends, threads, messages, projects and any bounds. The inductive invariants were
checked by TLC first. Most modules that an MC module composes are proved about in
one module of theorems, as the parts do not act on each other.

- `ResourceLeasesProofs`: type correctness, `MutualExclusion`,
  `PromotionComplete`, `UniqueEntries`, `GrantsAnnounced`, `FirstComeFirstServed`.
  The argument: after Release the queue is cut at the first request that is not
  compatible with all holders, so its head is blocked; that a session has at most
  one entry makes removing by session the same as removing the entry; that a
  promoted session is either told or about to be told needs the events a caller
  still carries. `LedgerImplementsLocks` is the refinement of
  `SharedExclusiveLocks`, from the same invariant. Assumption: none.
- `SessionsProofs`: `SessionsTrue` and `CleanMeansClean`, for any sessions, users,
  pollers and adapters, under `SerialRestarts` (no two threads are in Restart() of
  one session). The hypothesis is needed: two that overlap start a process under a
  session the other has recorded as Failed (see below). The invariant: no two
  entries share an adapter (`AdaptersApart`); the running flag is set as long as the
  child lives, and a flag that is down has a dead child (`FlagsTrue`); what a
  create or a restart found between two critical sections is still so
  (`CreatesTrue`, `RestartsTrue`); a session that is recorded as ended has an
  adapter that is not running (`EntriesTrue`); whoever has a lease is live, or
  about to be recorded as live, or in the hands of a thread that will return its
  leases (`LeasesTrue`). What the ledger does under a call is taken from
  `ResourceLeasesProofs` by INSTANCE. Assumption: `ThreadsDisjoint`,
  `NoAdapterIsNone`.
- `DispatchProofs`. Of the task queue alone (`QueueSpec`): a task that was ever
  started has completed dependencies (needs that Completed is never left), and its
  records are those of its present attempt. Any dependency relation, also a cyclic
  one. `ExecutorImplementsQueue` carries both over to the executor. Of the executor,
  where each hypothesis is needed (see below):

  | Theorem | Needs |
  |---|---|
  | `JobsWaitForDependencies` | nothing: a job that runs has all dependencies Completed |
  | `OneWorkerAtATime`, `PresentAttemptCompletes` | no CheckTimeouts(): it fails a task whose job still runs |
  | `RunningIsOwned` | no Pause(): an outcome reported of a paused task is dropped |
  | `NoReadyTaskIsForgotten` | timeouts or retries, not both (`NoLostJobs`): else a retried task finds its old job |
  | `DestructorLeavesNoWorker` | the same, and that no task depends on one that depends on a third (`TwoLevels`) |
  | `JobsAreAlwaysOwned` | all of these: what the run `task_join` checks |

  The invariants: a task is registered once, and before it has workers
  (`RegisteredOnce`); the workers that exist are those of the attempts so far
  (`AttemptsCounted`); a worker that is to report is of the present attempt
  (`AttemptInv`); a Running task has one that will (`OwnedInv`); a task with a job
  that could be started is in some thread's snapshot, or a thread has yet to take
  one (`NoneForgotten`); the futures that the destructor waits for, now or next, are
  those of all active workers (`DestroyInv`). Assumption: submitters are no workers
  (`ThreadsApart`).
  The gateway: `DecisionsKept` and `BackendsThere`. For the first, whoever may
  dispatch a request's command, or has looked it up, was told Ok by Approve(); a
  request that two threads resolve at once is `spoiled` from then on, as is one that
  the write to a removed request, or the use of one that is not found, has hit; one
  that is not spoiled belongs to one thread until it is removed, and its command
  was not dispatched before that thread does so. For the second, main() has nobody
  beside it while it registers or unloads (`Stages`), what is registered is linked or
  loaded, and where no two starts or stops have overlapped there is one at most; an
  adapter is dropped by main() before its library is freed, but for those the registry
  still holds when it is destroyed, the last step of all.
  Assumption: ids of native backends differ, plugins are none of them
  (`GatewayAssumption`).
- `ServerProofs`. Operations: `OutcomesAreTrue` and `NeverRunsAgain`, for any number
  of clients, losses, late reports and probes, and restarts. The invariant: a definite
  outcome on record is that of some attempt, and of the last one unless the operation
  was overtaken (`RecordFits`); the same is so of what a client runs or has probed
  (`CallFits`), as whoever begins an operation anew while a client still has something
  of an earlier attempt makes it overtaken. Without that exemption both fail (see
  below).
  Child processes: `AnswersAreWhole`, for any calls, programs and sizes of the
  pipe. The reader sees the end of the pipe when nobody holds its other end; the
  child holds it as long as it lives, the server until reading begins; so after the
  end nothing is left to be read and the child is gone (`CallInv`). Assumption: the
  server is none of its children (`ServerIsNoCommand`).
  Code indexes: `IndexesFollowDisk`, under `~Reverts` (no file gets back what the
  watcher saw last; the hypothesis is needed, see below). The invariant is that an
  index has of a file what the disk has, if the index is built, the disk is as the
  watcher saw it last, and no event about the file waits or is on its way to that
  index (`TablesFollow`, `EdgesFollow`), and that an edge points where the files
  known now make it point. For the analysis: the files visited lie in every set that
  has the seeds and is closed under the edges there ever were, and whoever includes a
  file that was looked at, by an edge there always was, is visited (`ImpactInv`).
  That FindIncludePath's path is a shortest one rests on the well-ordering of the
  numbers. Assumptions: paths differ in their place in the order
  (`FilesAreOrdered`), a parser returns a tree (`ContentsHaveRows`).
- `StoredProofs`. The schema: `MigratedExactlyOnce`, `VersionsHaveNoGaps`,
  `ServesOnlyMigrated`, for any number of processes, migrations, crashes and
  faults. The argument: a process in a transaction that has read or written keeps
  the committed file from changing (a commit waits for the readers, and there is
  one writer), so what it saw is still true when it records the version; if
  another process has applied the migration before, the version is refused as a
  duplicate. The invariant says what each process has seen at each place.
  Assumption: the builds know prefixes of one list (`SchemaAssumption`).
  `ColumnRaceEndsWell`: as long as no statement has failed of itself (a condition of
  the property), whoever loses the race for the column finds it there; a transaction
  that writes has seen the column (`WriterSeesColumn`), so no commit takes it away.
  The watcher: `MissesNoChange` (the watch is armed before the baseline
  scan, so "armed and no notification" implies that the scan under way began
  after the last edit) and `IndexesFollow`, that indexes are current under the
  assumption `~Reverts`; the invariant is that an index that is behind belongs to
  a file that differs from the last scan or is announced, and the assumption is
  needed as a file that is changed back is never announced.
  `WatcherKeepsUp` states both together, as the run does.
  The caches: `KeptStaysCurrent`, that what the two caches keep is
  current while the watcher sleeps, under `~Reverts` as above. A scan or an answer
  that is behind is so for a file that differs from the watcher's last scan, or the
  handler has still to drop it; before the baseline, only for a file that was
  written since the indexes were built. The handler's order matters: an answer made
  after the indexes were updated and before the new generation is outdated by it.
- `AssistantProofs`. The MCP server: `ToolsConfined` and `UnchangedMeansDelivered`. The first is a
  fact about every handler: a table says which part of the configuration guards it,
  the same that makes tools/list offer it, and every file an answer names has passed
  the firewall, or is the one the caller asked about. The second needs `LedgerFollows`: where a budget is set, the ledger is
  a part of what was delivered, with one entry per item, the latest. Assumptions: an
  id of a symbol or a line begins with the path of its one file (`IdsBeginWithPath`),
  the items of one retrieval have different ids (`ItemsAreDistinct`, which AddItem
  sees to).
  The Git backend: `WorkIsKept` and `DiffNamesOwn`, for any history. A name that
  could be an option is refused, so no command forces a checkout; every other
  command takes from a working tree only what the tree's commit or the stash has
  (`StepLosesNothing`). For the comparison, the ancestors of a commit are a chain
  (`Chain`), so the merge base splits those of HEAD into the common ones and its
  own (`Parting`), and a file no own commit changed is as it was there (`SameBack`).
  The invariant is that every tree has a branch that exists, every branch a commit,
  every commit an older parent or none (`GitTypes`). Assumptions: no branch has the
  name of a file (`MainIsABranch`); what stands for "nothing" is no content, tree or
  commit (`GitValues`).
  The LSP server: `DocumentsFollow`, `RenamesAreWhole`,
  `ShownIsAlwaysAllowed` and `OnlyGraphAges`, for any files, texts, messages and
  edits. What the server makes of a document is decided by the last message on its
  way that settles it, and that is the client's text (`Becomes`, `Follows`);
  numbers grow along the streams, so that each answer has the request that waits for
  it (`Ordered`, `Matched`), with the text the server will have by then (`Renamed`).
  What the client marks is decided by the last message about the document on the way
  back (`ShownInv`). Diagnostics are published by every step that changes what they
  are made of, but for those that change the include graph (`UpToDate`).
- `ContextPipelineProofs`: `SoundResponses`, for every project, limit and budget,
  from `PipelineInvariant`. Each source folds a step over what it found, in some
  order; `FoldFacts`, whose constant is the step, says what a fold and a sorted list
  are, and each stage takes an instance of it with its own step, so that no induction
  theorem with an operator as a parameter is needed: an induction is one over the set
  of the places up to which the results are as they should be. The invariant:
  every item is what its source makes, of a file the firewall lets through
  (`Proper`, `ProperList`); two items overlap only if the earlier is a definition
  that was cut, or both are definitions, or one is the whole file that a hit brings,
  or the later is what a backend offers, and never if the earlier is a file that was
  sent whole for its name (`Apart`, `Clear`): the range noted for it is all of it, so no
  window of a hit is new, and the offer of a backend has its id;
  while the symbols, dependencies and files are asked, every range noted as covered
  is shown by an item and every definition that is shown in full is noted
  (`Covering`), and items are only of files that were matched (`FoundByName`), which
  is what keeps a whole file from being brought twice; once they were asked, every
  match of the symbols (`AllShown`) and every line with a hit (`KeywordsShown`) is
  shown or the list says that it is truncated; what was charged is the cost of what
  is included and within the budget. For the hits, the groups of neighbouring lines
  are taken apart by their first lines, so that two windows never overlap
  (`WindowsAreApart`), and every hit lies in the window of its group. The cut of weak
  items is proved to keep the rest in order. Assumptions: what an index, a scan and
  a search return of a project (`ProjectsAreProjects`: among others that a search
  takes one of several symbols of a name in a file), limits are no negative numbers
  (`CapsAreNumbers`).

Definitions were restated where a proof could not use them, and mean the same: the
text a document is about to have is that of the last message which settles it, not a
fold over the stream (`LspDocuments`); the files that include a file, through
others, and the ancestors of a commit are the least closed set, not a recursion
(`CodeIndexes`, `GitCommands`); the steps of the folds of `ContextPipeline` are named
operators, its sorted lists say how many elements stand before each, and the digits
of a number and the doublings of a count are counted, not chosen. The attempt to
prove about it showed one thing the model had wrong: an item of a file that a backend
offers has the id the retriever gives that file, so the file is not there twice
(`OfferedId`).

Some invariants and action properties are proved and not repeated in a run, where
they would say little more than their neighbours: one entry per session
(`OneEntryPerSession`) and first come, first served (`NoOvertaking`) of the lease
ledger, `ProgressOfThisAttempt` and `FailuresOnRecord` of the task queue, and
`NoGaps` of the migrations.

## What does not hold

Each of these is a run that ends in a counterexample, and a finding:

- `lost_exit_code`: the reader thread clears `running` first, `IsRunning()` then
  never fetches the exit code, and a clean exit is recorded as Failed.
- `retry_never_runs`: a failed task that is retried is Pending for ever, as its
  job was erased.
- `stale_scan_cached`: the handler starts a new generation before it drops the
  kept scan; an answer from the old scan is cached as new;
- `checkout_keeps_work`: git.checkout of a name that is no branch but a file
  restores that file and discards what the user had changed in it.

These were met the same way, and are recorded with the hazards; each can be
reproduced by checking the named definition:

- two Restarts of one session that overlap: `Sessions`, `StopNeverDuringStart`
  with `SerialRestarts = FALSE`;
- PollAll that decides to reclaim, and does so after the session was restarted:
  `Sessions`, `ReclaimOnlyDead`;
- a task that times out and is retried while its job still runs has two workers:
  `TaskExecutor`, `OneWorker` with timeouts and retries;
- an executor that is destroyed while the first of three chained tasks runs: the
  third worker is pushed into the vector of futures while that is being destroyed,
  and is not waited for: `TaskExecutor`, `DestructorWaits` with such a chain;
- a job that ends while its task is paused: its outcome is dropped and the task is
  Running for ever after Resume: `TaskExecutor`, `RunningHasWorker` with pauses;
- an outcome that a client reports, or has probed, after another has begun the
  operation again is recorded as that of the new attempt, which may then be run again
  while it goes on (`OperationLedger.cpp` looks at the operation only): `Operations`,
  `OutcomeIsTrue` and `NeverRunAgain` exempt what was `overtaken`, `NeverRunAgainAtAll`
  does not and fails; it fails as well because a ledger that restarts has no records;
- changes between Build() and the silent baseline are never published, against
  `FileWatcher.hpp:45-46`: `FileWatching`, `IndexesFollowDisk`;
- a file changed and changed back within the debounce window, seen in between by
  UpdateFile or by a scan: `IndexesCurrent` and `SnapshotCurrent` with
  `Reverts = TRUE` and three edits; and, as the six indexes are updated one after the
  other, some with one content and some with the other: `CodeIndexes`,
  `IndexesAreTrue` with `Reverts = TRUE` and three edits (found by the attempt to
  prove it without the hypothesis);
- two HTTP threads may be in one backend's Start() at once: `BackendGateway`,
  `StartsOneAtATime`;
- Approve() and Reject() look at a request's status and set it afterwards
  (`ApprovalQueue.cpp:52-59`, 68-75), without a mutex on threads of the HTTP server:
  two that overlap both say Ok, and its command is dispatched twice, or although it
  was rejected; or one uses the request after the other has removed it (`ApiServer.cpp:790`),
  which is undefined and may end the process: `DecisionsAreKept` without the
  exemption of `spoiled` requests;
- the plugin loader is destroyed before the registry that holds the adapters
  (`main.cpp:719` and 691, against the comment at 717), whose destructors call
  `vtable_->destroy` in the library that was freed (`PluginBackendAdapter.cpp:108-112`):
  `LibrariesOutliveAdapters`;
- include_graph and impact_analysis repeat the path they were asked about, also of a
  file the firewall denies (`McpServer.cpp:1316`, 1450): `AnswersInScope` exempts it,
  and it alone;
- a file that a backend offers is added without a look at the lines that are in the
  response already (`ContextRetriever.cpp:1131-1141`, `FileProviderBackend.cpp:191-224`):
  `NoLineTwice` exempts it;
- the destructor of a process whose command left a helper behind joins a reader
  that waits for that helper, against the comment "bounded, not a second
  indefinite wait" (`ProcessRunner.cpp:232`): `ChildProcesses`, `JoinIsBounded`;
- the sent ledger records the items of an answer without a budget before it is
  serialized; if that throws, they count as sent (`McpServer.cpp:934`, against
  `SentLedger.hpp:29`): `McpSession`, `RecordedWasDelivered`;
- two keyword hits far apart in a small file each bring the whole file
  (`ContextRetriever.cpp:1103`, against 421-423): `ContextPipeline`,
  `WholeFileOnce`; a file is noted as sent although it could not be decoded
  (837), which `NothingVanishes` exempts; `already_visible` counts lines within
  six of a definition as shown (1024-1030, against the comment before it);
- fields of a union that stands in no class are named "::x" (`SymbolExtractor.cpp:239`,
  against the comment at 233): `SyntaxWalks`, `MembersHaveAClass`; the ids of such
  symbols are split at the wrong colon (`McpServer.cpp:303`): `IdIsRead` exempts them;
- a notification whose handler throws is answered with an error without an id,
  against the comment at `LspServer.cpp:1611`: `LspDocuments`, `AnswerNobody`.

## Limits

Only model-checked:

- liveness under fairness (TLAPS has no rules for ENABLED): `NoStarvation`,
  `CrashedLeaseReclaimed`, `ReadyTasksRun`, `ApprovedRuns`, `DatabaseOpens`,
  `ContextIsFresh`, `ImpactIsAnswered`, `CallsReturn`;
- `IndexesAgree` of `SyntaxWalks`: the walks are RECURSIVE operators, and what those
  compute is induction over data;
- `TextIsExact` of `TextAlgorithms`: induction over data as well; its runs go
  through all short inputs instead;

Not modelled, with the reason: `AstExtractor`, signatures, ranking tables and
wording (data, no state); configuration, logging, the echo LLM provider (nothing
to check); C++ data races as such (`ContextCache::generation_`, the map of approval
requests and the states of backends are read and written by several threads
without a mutex; the models take an access as atomic); the class templates for
caches and the garbage collector of contexts, which only their tests use; what git
and the parser do beyond what the program relies on. `PROJECT.json` lists every
component with its status.

## The plan

Done: the lease ledger, sessions, tasks, operations, watcher, caches, LSP server,
migrations, gateway with backends, approvals and plugins, indexes and impact
analysis, context pipeline, MCP server, child processes, Git backend, text
algorithms and syntax walks. Left, in this order:

1. `HandoffResume`: the orchestrator over an abstract life of a session
   (`SessionLife`), which `Sessions` is shown to refine.
2. `EditorState`: a file that an editor writes while it is read.
3. The event bus with Unsubscribe() racing Publish(); the sandbox's paths, globs
   and versions as operators; `ComparisonBoard`.

Abstract specifications worth stating: the life of a session (1), a
backend's life (2).
