# Kiokuko: verification project

Kiokuko is a local memory and orchestration plugin for coding agents (OpenCode).
Several short-lived processes (MCP servers, plugin hooks, CLI commands, a loopback
HTTP server) share one SQLite database per user and a few files: agent
configuration, traces, locks. Nothing coordinates those processes but SQLite
transactions, leases, revision numbers and the file system, and that coordination
is what this project is about. TLC checks the modules on small instances, and for
eight of them (`OrchestrationJobs`, `EmbeddingProjection`, `WriteQueue`, `HttpServer`,
`TraceIngestion`, `EnnoRun`, `TaskRuns`, `TaskContext`) TLAPS proves the safety
properties for every instance (section 6).

Run, inside this directory, `tlc -workers 2 -config X.cfg M` with the module `M` of a run
of `PROJECT.json` (an `MC` module, or the component's own where its cfg suffices) and
`tlapm XProofs.tla` for the proofs. All source paths below are
relative to `src/src/` of the repository.

## 1. Inventory

| Component | State | Operations | Interacts with | What is hard | What makes it correct |
|---|---|---|---|---|---|
| Orchestration job queue and worker (`orchestration/`) | `orchestration_jobs` rows: state, attempts, lease | enqueue, claim, complete, fail, renew, stop | trace ingestion, memory promotion; `trace sync` claims from the same table | leases expire under a running handler, heartbeats, crashes | an expired owner never writes; every job settles |
| Embedding projection (`embedding/`) | active profile and generation, `embedding_jobs`, `entry_embeddings` | record/edit/purge entry, activate profile, rebuild, drain | memory entries, MCP and HTTP processes, `setup` | entries and profile change while a vector is computed | vectors belong to the revision and profile they are stored under; nothing drops out |
| Query cache (`embedding/query-cache.ts`) | vectors of queries, runtimes with their profile | embed, read, store, prune, close | embedding profile, write queue | the profile is switched while a query is embedded | a search is given a vector of the active profile |
| Write queue (`server/write-queue.ts`) | waiting operations, the running one, drain waiters | enqueue, close, drain | HTTP server, MCP process | close races enqueue | order, capacity, a drain means idle |
| HTTP server (`server/http.ts`) | active requests, closing state | admit, write, close with retries | write queue, embedding worker, lock, descriptor | shutdown while requests run and cleanup steps fail | no write after the database is closed; close completes |
| Instance lock and descriptor (`server/instance-lock.ts`, `runtime-descriptor.ts`) | two files | acquire, take over, publish, release | other processes | every file-system call interleaves with those of other processes; crashes | one owner per database |
| MCP process (`mcp/runtime-owner.ts`, `request-deadline.ts`) | lazily opened database, calls under a deadline | call, initialize, close | all tools | initialization, deadline and shutdown overlap | one connection, each call answered once |
| Trace ingestion (`trace/`) | cursor and context rows, jobs | scan, ingest batch, verify, rebuild, sync | recorder (external process), job queue | the file is appended to and replaced while it is read | lines counted once, finalized means whole |
| Enno-Oduno run (`enno-oduno/`) | contract row, work units, execution leases, receipts, verifier runs, advisory rounds | ideal, plan, claim, report, verify, finish, meditate, continuation | execution selection, ledger, OpenCode sessions, repository | two-transaction operations around minutes of verification, leases, rerouting | superseded workers never report; accepted means verified |
| Execution selection (`execution/`) | the choice of a run, dispatches of model calls | select, reserve, report | Enno run, OpenCode plugin | answers of commands are lost, the plugin restarts | a model call is made once for a step |
| Task intake (`task-run/`, `akinator/`) | task requests, intake sessions, profiles, receipts | prepare, answer, abort, resume | ledger, context, Enno | retried requests, concurrent intake | one run per request, one story per intake |
| Ledger (`ledger/`) | runs and hash-chained events, tombstones, links | append, end, purge, clean up, export, import, promote | all | imports beside appends and purges, plans that age, repeated promotions | chain unbroken, ends final, one entry per proposal |
| Context of a run (`context/`) | deliveries, reviews, evidence, nudges, feedback | deliver, refresh, review, verify, checkpoint | memory, ledger, repository | ranking and verification outside of transactions | what is reported was delivered, reviewed and verified as it is |
| Memory (`memory/`) | entries, revisions, relations, audit, approved replays | record, edit, promote, supersede, purge, globalize, review, export, import | embedding, context, ledger | clients act on what they read earlier; uncertain commits | superseded advice has a replacement; verified means read; saved means stored |
| Skills (`skills/`, `akinator/skill-discovery-attempt.ts`) | rows with generations, documents, attempts, failure records | import, refresh, discover, disable, enable | network, intake | minutes between read and write; shared budgets | one snapshot, never older, never while disabled |
| OpenCode plugin (`opencode/`, `meditation/`) | outboxes, recalled text, record of the run, compaction cycles | idle, prompt, model switch, tool result, compaction | MCP tools, Enno continuation | callbacks overlap; the storage has no compare-and-set; crashes | one prompt per message; nothing stale is handed on |
| Conditional file changes (`agent-file/atomic-write.ts`) | the target, a temporary, a quarantine, a rollback and a disposal file | write or unlink if unchanged, guarded replacement, overwrite | user edits, other processes, setup | every call interleaves with edits; calls fail half way; crashes | compare and swap; no bytes nobody gave up disappear |
| Setup and use (`managed-files/`, `commands/setup.ts`, `commands/use.ts`) | lock, configuration, skills, binding, agent files, registry row | lock, plan, apply, register, roll back | conditional file changes, database | failure in the middle of several files, edits before the rollback | all files or none; one identity |
| Database (`db/`, `commands/init.ts`, `commands/backup.ts`) | schema version, transactions, backup file | open, migrate, transaction, back up | all | lock contention, uncertain commits, concurrent migration, moved folders | each migration once; callers are told what happened |
| Web interface, CLI, sanitizing, ranking, search, source context, repository detection | none, or read models | | | | not state machines; not modelled |

`PROJECT.json` lists each component with its source files and status, and the
hazards with the line where each one bites.

## 2. Modules

| Module | Models | Run |
|---|---|---|
| `OrchestrationJobs` | `orchestration/jobs.ts`, `worker.ts` and the claims of `trace/sync.ts` | `jobs` |
| `OrchestrationJobsProofs` | theorems about it | (TLAPS) |
| `EmbeddingProjection` | `embedding/jobs.ts`, `store.ts`, `runtime.ts`, `setup-service.ts` with `memory/entries.ts` | `installation`, `embedding_edits` |
| `EmbeddingProjectionProofs` | theorems about it | (TLAPS) |
| `QueryCache` | `embedding/query-cache.ts` and the runtimes around it | `installation` |
| `SetupFiles` | `commands/setup.ts`, `managed-files/`, `setup/` | `installation` |
| `UseRepository` | `commands/use.ts`, `repository/binding.ts`, `identity.ts`, `gitignore.ts` | `installation` |
| `Database` | `db/transaction.ts`, `sqlite-retry.ts`, `migrate.ts`, `serialized-backup.ts`, `commands/init.ts` | `installation` |
| `WriteQueue` | `server/write-queue.ts` | `processes` |
| `WriteQueueProofs` | theorems about it | (TLAPS) |
| `HttpServer` | `server/http.ts`, as the one user of the queue of `WriteQueue`, which it extends | `processes` |
| `HttpServerProofs` | theorems about it, from those about the queue | (TLAPS) |
| `ServerInstance` | `server/instance-lock.ts`, `runtime-descriptor.ts`, startup and close of `http.ts` | `processes` |
| `McpRuntime` | `mcp/runtime-owner.ts`, `request-deadline.ts` | `processes` |
| `TraceIngestion` | `trace/scan.ts`, `ingest.ts`, `sync.ts` and the readers | `sessions`, `trace_catches_up` |
| `TraceIngestionProofs` | theorems about it | (TLAPS) |
| `OpenCodeLearning` | `opencode/learning.ts` | `sessions` |
| `OpenCodeCompaction` | `opencode/compaction.ts` | `sessions` |
| `CompactionMeditation` | the compaction hooks of the plugin and `meditation/compaction.ts` | `sessions` |
| `EnnoRun` | `enno-oduno/service.ts`, `store.ts`, `adapters.ts`, with `execution/store.ts` and the end of `memory/scoped-memory.ts` | `enno_execution`, `enno_review`, `enno_binding` |
| `EnnoRunProofs` | theorems about it | (TLAPS) |
| `OpenCodeContinuation` | `opencode/v2-continuation.ts` and its storage | `enno_review` |
| `AtomicFile` | `agent-file/atomic-write.ts` | `atomic_file` |
| `RunLifecycle` | what the ledger promises of a run (abstract; `TaskRuns` implements it) | `task_runs` |
| `TaskRuns` | `task-run/`, `akinator/service.ts`, `store.ts`, `ledger/store.ts`, `maintenance.ts` | `task_runs` |
| `TaskRunsProofs` | theorems about it, that it implements `RunLifecycle` among them | (TLAPS) |
| `ExecutionSelection` | `execution/store.ts` and the callers in the plugin | `task_runs` |
| `LedgerArchive` | `ledger/archive.ts` | `task_runs` |
| `LedgerPromotion` | `ledger/promotion.ts`, over the entries of `MemoryEntries`, which it extends | `task_runs` |
| `SkillStore` | `skills/store.ts` and the commands that use it | `task_runs` |
| `SkillDiscovery` | `skills/discovery-service.ts`, `akinator/skill-discovery-attempt.ts` | `task_runs` |
| `TaskContext` | the scoped context of `context/` and the final checkpoint | `knowledge` |
| `TaskContextProofs` | theorems about it | (TLAPS) |
| `ContextBroker` | `context/broker.ts`, `feedback.ts`, `delivery.ts` | `knowledge` |
| `RunAdvice` | `ledger/projection`, recommendations and `context/nudges.ts` | `knowledge` |
| `ReplayReview` | `memory/replay-store.ts` and the review around it | `knowledge` |
| `MemoryEntries` | `memory/entries.ts`, `lifecycle.ts`, `curator.ts`, `purge` | `knowledge` |
| `WorkspaceArchive` | `commands/export.ts`, `import.ts`, over `MemoryEntries` | `knowledge` |
| `MC*` | constants, symmetry sets and the compositions of the runs for TLC | |

`MCInstallation`, `MCProcesses`, `MCSessions`, `MCEnnoReview`, `MCTaskRuns` and
`MCKnowledge` each hold several components that share no state. A behaviour chooses one of
them in its initial state (`scenario`) and stays with it, so that a run explores the
sum of their state spaces and not the product; a property speaks of the scenario it
belongs to. Components that do share state are composed by EXTENDS: the server with its
queue, promotions and archives with the entries they change, executions with the
contract.

### Conventions

* One SQLite transaction (`withImmediateTransaction`) is one step. Work between two
  transactions of one operation (reading a file, computing a vector, running
  verifiers) is where other processes step in; such operations are several actions.
* JavaScript runs one turn of the event loop without interruption: in `WriteQueue`,
  `HttpServer`, `McpRuntime` and the OpenCode modules an action is the code between two
  awaits.
* A file-system call that other processes can observe is one step in `ServerInstance` and
  `AtomicFile`; `SetupFiles` and `UseRepository` take a conditional change of `AtomicFile`
  as one step.
* A refused call that changes nothing is not a step.
* Time is relative to the present (`OrchestrationJobs`, `EmbeddingProjection`) or
  the expiry of a lease or record is a step that may come at any moment (`EnnoRun`,
  `TraceIngestion`, `SkillDiscovery`).
* Hashes and digests are the values they are computed from.
* Operators whose comment begins with "Slip", or that describe an operation "as it
  would be" without a guard, are the mutated forms used to make sure that each
  property can fail. `Next` does not use them.

### OrchestrationJobs

`table[j]` is the row of job `j`, its unique key (kind, input digest); `worker[w]` is
the process with owner token `w`. Claiming, completing, failing and renewing are the
four statements of `jobs.ts`; `handlerReturns`, heartbeat, `stop` and `crash` are
`worker.ts`. A renewal is two steps, as in the code: the lease is asserted, then
updated. `jobs` runs two jobs, two workers and a `trace sync` through two attempts with
leases of two ticks: enough for a lease to expire under a handler and for the job to be
claimed behind its back, by either kind of process. One of the workers stays alive;
the other processes may die anywhere.

### EmbeddingProjection

`job[e][p]` and `embedding[e][p]` are the rows of entry `e` under profile `p`;
`proc[x]` is a runtime or a setup with the claims it is working on. A vector is the
document it was computed from, so that a wrong one can be told from a right one.
`installation` has two profiles, a runtime and a setup that may both die;
`embedding_edits` a runtime that stays up beside a setup that may die, and documents
that change, stay the same or contain a secret.

### QueryCache

`cache` holds the rows of each profile in the order of their use, `runtime[r]` the runtime
of a process with the profile and generation it was made for, `query[c]` a call and
`flights` the embeddings that are under way and shared by the calls for the same text.
The transaction that stores a vector compares profile and generation again, and so does
the one that reads. The profile may be switched away and back, which only the generation
tells.

### WriteQueue, HttpServer, ServerInstance, McpRuntime

`WriteQueue` is the class with its private fields; `accepted` and `started` are
histories. `HttpServer` extends it, composes the queue's steps into its own and adds the
requests, the embedding worker and the seven ordered steps of `close()`, any of which
may throw, up to `MaxFailures`. `ServerInstance` has a program counter per process
over the calls of acquiring, checking, publishing and removing. `McpRuntime` has the
lazily created runtime, the six disposal steps and the deadline of each call.

### TraceIngestion

One recorded run: `source` is what is on disk (inode, lines, ended, sealed), `cursor`
and `context` are its rows, `exec[w]` one execution with everything it read before its
transaction. The aggregate is the sequence of lines that were counted, each with the
inode it came from, so that double counting and mixing of files are visible. The
recorder is external and modelled from what the readers expect of its files.

### EnnoRun

One run. `unit` holds the work units of the current revision, `leases` the rows of
`enno_execution_leases`, `issued` every credential handed out (clients may use any of
them at any later time), `receipt` the process whose operation receipt is started and
unexpired, `op[p]` what process `p` remembers between two transactions. The repository
is a version number; `Good` is the set of versions the final verifiers pass on. An
edit produces contents not seen before; a change that is undone while the verifiers
run is what `repositoryMutationAudit` looks for and is covered by verifiers failing
"for reasons of their own".

`enno_execution` runs a plan with two parallel units and one that depends on both, or
a plan with conflicting claims, or one after the other, with two sessions and two
processes; `enno_review` has one process, edits the repository twice around the review
and ends the run by checkpoints at any time. Plans are finite, not empty and satisfy what
`workPlanSchema` checks (`PlansAssumption`); the name of a provisional lease is not that
of a session (`SessionsAssumption`); a worker reports completed, failed or cancelled
(`OutcomesAssumption`); the bounds are numbers, the parallelism at most eight
(`BoundsAssumption`).

### AtomicFile

One directory with a target and its alternate path. A file is an inode with contents
and links; names refer to inodes, so that an edit in place, a file saved over another
and a hard link are told apart as `lstat` tells them apart. `op[p]` is the operation of
process `p`: its program counter, what it read and compares with, and the failures it
has collected. Every one of the four exported operations (write and unlink if
unchanged, guarded replacement, overwrite) runs through the steps of
`atomicWriteTextInternal`, `conditionalInstall`, `conditionalUnlinkInstalled`,
`restoreQuarantinedTarget` and `cleanupBoundArtifact`. Any call may fail, a process may
die between any two calls, and the user edits, replaces, removes or creates files in
between. What a check of directories, links or encodings refuses is a failing call.

### SetupFiles, UseRepository, Database

A managed file is the text of the user beside the region of Kiokuko, with a stamp that
changes with every change. `SetupFiles` follows a command from the lock over the plan to
the loop over files and, when a step fails, the rollback in reverse order; the user may
edit, create and remove files and directories between any two steps. `UseRepository` adds
the binding, `.gitignore`, the two agent files, the registry row written last, and servers
that resolve the repository without the lock. `Database` has binaries of two versions that
plan migrations before they hold the write lock, transactions whose COMMIT fails with
either outcome, bounded retries, and a backup whose child process creates the file in a
folder that may be moved meanwhile.

### TaskRuns, RunLifecycle, ExecutionSelection, LedgerArchive, LedgerPromotion

`TaskRuns` has the rows of requests, sessions, links, runs, events, receipts, profiles and
tombstones for a few keys; `RunLifecycle` is the abstract life of one run (opened once,
log grows while open, end final, purged for good), and `LifecycleKept` in `task_runs` is
its specification under the refinement mapping. `ExecutionSelection` is one run seen from
the plugin: commands that commit and lose their answer, restarts that forget calls.
`LedgerArchive` has several machines that export table by table, continue a run, purge
and import. `LedgerPromotion` turns proposals of a run into entries while clients change
the entries and the user purges deliveries, links and the run.

### SkillStore, SkillDiscovery

`SkillStore` follows import, refresh, discovery, disabling and enabling over rows with a
generation and the documents of a snapshot; snapshots are numbered by publication, so
that an older one is told from a newer one. `SkillDiscovery` follows two attempts of one
run through search, audit and fetch with the shared budget and the failure records.

### TaskContext, ContextBroker, RunAdvice, ReplayReview, MemoryEntries, WorkspaceArchive

`TaskContext` is one run with its deliveries, reviews, verification evidence and final
checkpoint, while entries and files change; `ContextBroker` the generic broker, in which
every delivery attests the history it was ranked against; `RunAdvice` the projection of
the ledger against its definition over the whole log, and the nudges under their rate
limit; `ReplayReview` two processes that review one task with uncertain commits and
restarts; `MemoryEntries` clients that write with the revision they read;
`WorkspaceArchive` an export, changes, and the import of the file.

### OpenCodeContinuation, OpenCodeLearning, OpenCodeCompaction, CompactionMeditation

`OpenCodeContinuation` has the outbox of a terminal message and the two activities that
write it, a flight and the reconciliation of the timer, with every await a step;
the plugin may be disposed of or killed at any point. `OpenCodeLearning` has recalls of
overlapping prompts; `OpenCodeCompaction` the record taken from tool results that arrive
in any order; `CompactionMeditation` the cycles of two compactions whose summaries are
saved in the background and judged by jobs.

## 3. What the runs show

| Run | Properties | Shows |
|---|---|---|
| `jobs` | OneProcessPerAttempt, SupersededNeverWrites, EveryJobSettles | a process that lost its lease changes nothing, however late its statements arrive; a live worker brings every job to an end within the attempt limit |
| `installation` | EmbeddingsAreCurrent, OvertakenNeverWrites, SetupIsAllOrNothing, UseKeepsOneIdentity, DatabaseIsAsTold | every current entry has a vector, a job or a recorded refusal under the active profile, an overtaken claim writes nothing and a search gets a vector of the active profile; setup changes all files or none and never the text of the user; `use` ends with one identity in binding, agent file and registry, or with the one before; migrations run once and a write, a migration or a backup is what its caller was told |
| `embedding_edits` | VectorOfItsRevision, QueueDrains | a vector is the one of the revision it is stored for; the queue is worked off |
| `processes` | SerialOrder, ClosesInOrder, OneHolder, ClosesAndAnswers | writes are first in, first out; shutdown order with failing and retried steps; one owner of a database and one connection of the MCP process; close ends and every call is answered once |
| `sessions` | PublishedIsWhole, CompactionKeepsTrack, RecallFollowsPrompt | what is finalized or promoted is one whole file; a cycle is judged by its one summary and the record handed on is never older than one held before; the model is told what was recalled for the last prompt |
| `trace_catches_up` | LinesCountedOnce, CatchesUp | one growing file and a rebuild: no line twice, none skipped, and all of them in the end |
| `enno_execution` | WorkAdvances, LeasesFollowThePlan, SupersededNeverReports | scheduling, leases and reports over one plan and its replacement |
| `enno_review` | AcceptedIsGood, PromptedOnce, GokiEnds, OutboxSettles | stale evidence is never accepted and the execution phase ends; the plugin prompts once for a message and settles every outbox |
| `atomic_file` | OutcomesAreTrue, NothingLost | two operations of any kind on one target, an edit, a failing call and a crash at any point: of two changes from one original only one wins, a refused change is undone, what stays behind is reported, and no contents disappear that nobody gave up |
| `task_runs` | RequestIsOneStory, RanOnce, LedgerWhole, CleanupSparesFinished, LifecycleKept, SkillServesItsSnapshot | one run per request and one row per event for ever; no model call twice; archives keep the chain and a proposal becomes one entry; a cleanup spares what finished since its plan; the ledger refines `RunLifecycle`; skills serve one snapshot and discoveries keep their budget |
| `knowledge` | DeliveriesAreHonest, BrokerKnowsItsHistory, AdviceFollowsLedger, ReviewKeepsItsWord, EntriesCanBeTrusted, EndedIsFrozen | what a run reports about its memory is what was delivered, reviewed and verified; deliveries attest their history; the projection means what it says; stored memories were approved and saved ones are stored; superseded entries have a replacement, also around imports; an ended run is not changed |

One run, `enno_binding`, expects a violation and documents a disagreement between the
code and what its comments say; `PROJECT.json` quotes the lines ("findings"): binding a
client revokes the provisional leases of all running units and issues one; the other
units keep running without a lease.

Limits of the passing properties that modelling brought to light:

* A drain checks the profile in `ensureActive` and claims in a later transaction that reads
  `embedding_runtime` again (`embedding/runtime.ts:344`). A switch by another process in
  between hands a runtime of the old profile jobs of the new one, and it stores vectors of
  the old model under the new profile. `OvertakenNeverWrites` covers switches after the
  claim only; vectors do not carry the provider that computed them.
* The query cache is pruned by the wall clock (`query-cache.ts:215`). After a step back of
  the clock a full cache prunes the row just written. The model takes times of use as
  increasing.
* `FailedIsUndone` (in `OutcomesAreTrue`) speaks of the conditional operations.
  `atomicReplaceTextWithGuard` throws an ordinary error when it is interrupted after its
  rename, and its caller cannot tell that from a replacement that did not happen.
* `OneHolder` assumes at most two contenders per database (`AtMostTwoContend`). With a
  third, a takeover of a stale lock can unlink, by name, the lock another takeover has just
  created, and two processes own one database. A process that dies between creating the
  lock file and writing its record leaves an empty lock behind.
* Servers of two databases check and then publish one descriptor (`http.ts:494`); nothing
  excludes that both do, and the last one is the one clients find.
* The lock of the embedding setup (`setup-lock.ts:43`) is a file that only its owner
  removes: a setup that dies leaves it behind.
* `PublishedIsWhole` speaks of finalized and promoted runs. Before the final
  verification an aggregate may mix two files, when one is replaced between the `lstat`
  that chooses the offset and the `open` that reads (hence `source.ino = 1` in
  `LinesCountedOnce`).
* `CatchesUp` excepts rebuilds: a scan that straddles one stores its fingerprint in the
  new row while its job belongs to the old generation, and later scans skip the run. It
  is about lines, not about verification: an interrupted final verification is only
  taken up when the files change again.
* `GokiEnds` excepts a ledger run that was ended by a checkpoint: the contract stays
  active under it.
* `PromptedOnce` allows a prompt to be sent while a disposal drains without being
  recorded, as the code does; one instance of the plugin lives at a time.
* `CompactionKeepsTrack` excepts a summary that a second compaction overtook
  (`overtaken`): `queueCompactionMeditation` attaches it to the newest cycle. A claim
  contradicted on an ended run makes its job fail for ever. An `enno_*` result that comes
  before any result with the workspace is ignored, and the choice of a run that was left
  can stay beside the record of the next.
* `RanOnce`: when a report of failure is lost and the plugin restarts, another prompt may
  begin in the same revision.
* `LedgerWhole` is stated for imports that do not overlap: an import compares before its
  transaction, and two that overlap can leave a run whose cursor disagrees with its
  events. After a link is purged, a proposal whose text is still current cannot be
  promoted again.
* `DeliveriesAreHonest` assumes that an edit never restores earlier contents. A
  `task_prepare` that is retried after a refresh replays the first delivery though the
  second is the latest.
* `ReviewKeepsItsWord`: an approval of a text whose entry was edited or superseded answers
  "saved" although recall hides it.
* `EntriesCanBeTrusted`: an import ignores purge tombstones and may bring a purged entry
  back; importing an old archive of the global workspace can bring a second global copy,
  which the curator then refuses as ambiguous (`curator.ts:721`). An archive with purge
  events cannot be imported into another workspace of the same database.
* `SkillServesItsSnapshot`: an attempt whose process dies stays started and keeps its phase
  and its share of the budget (`skill-discovery-attempt.ts:442`); a refresh that finds a
  changed identity marks a blocked row stale.
* `UseKeepsOneIdentity` excludes two identities in use, not a command that is stuck: a
  forced rebind that dies between the files and the registry leaves a new binding beside
  the old row, and neither a plain nor a forced `use` succeeds then. Restoring a previous
  agent file brings back text the user emptied meanwhile; the rollback of an appended
  block leaves its separating newlines.
* `DatabaseIsAsTold`: a binary that opened the database before a newer one migrated it
  goes on writing. A backup that is stopped leaves its partial file, and retries under
  that name fail.

## 4. Bounds

Every bound is a constant of its module (`MaxAttempts`, `MaxRevision`, `MaxEpoch`,
`MaxCrashes`, ...) and appears in a guard. They are chosen so that the
hazard of the run happens at least twice where that makes a difference: a lease can expire
and its successor expire again (`MaxSerial = 2`, `LeaseTicks` below the number of ticks a
handler takes), a plan can be replaced and the replacement executed (`MaxRevision = 3` in
`enno_execution`), a file can be replaced once after data were read. `atomic_file` has one
edit, one failing call and one crash per behaviour (`MaxEdits`, `MaxFaults`, `MaxCrashes`):
each check of the code looks at one change since the last one, and a second operation acts
as a second editor. Inode numbers are not reused within a behaviour. `sessions` lets one
scan find something and relies on successor jobs and the lost lease for concurrency
(`MaxJobs = 1`); `trace_catches_up` scans without limit (`MaxJobs = 9` is above what one
file and one rebuild can produce).

* `installation`: two setups and one `use` (of three kinds of requests) with one edit and
  one fault; two binaries, one migration ahead of the other, one move during a backup; a
  cache of one row, two queries, two runtimes and three switches, so that a profile can
  be left and come back.
* `task_runs`: two requests and two runs of up to four events; two model calls over two
  revisions; two archives and two importers; three snapshots and up to seven generations of
  skills; two attempts of one run with two queries and one skill; two proposals with two
  entries.
* `knowledge`: two entries and two requests with three contexts; two queries of the broker
  and three rows; three log events with two nudges at a distance of two; two reviewing
  processes, three proposals and a restart; three entries and two clients; two entries
  around one export.
* `sessions` and `enno_review`: two prompts and a text without prose, two compactions, two
  Enno runs with two results under way (`MaxPhase = 1`); one turn and one change of the
  binding with one fault (`MaxBinding = 1`).

Two actors are enough for the races of leases and receipts, because the code compares the
caller with the row and never with a third party; the lock file is the exception
(section 3). Symmetry is used only in runs without liveness properties.

Deadlock checking is off where the bounds end the behaviour (a run that is completed,
a queue that is closed); it is on where the model has an explicit final stutter.

## 5. Fairness

* `OrchestrationJobs`: time passes, a called handler returns or throws, and the
  reliable worker's timer fires for as long as its process lives.
* `EmbeddingProjection`: the reliable runtime opens, drains and settles; setups are
  under no obligation.
* `WriteQueue`, `HttpServer`, `McpRuntime`: the event loop continues awaits and timers
  that are due; the owner of the server handle calls `close()` again after a failed
  attempt. No client is obliged to send or disconnect, no tool operation to return.
* `ServerInstance`, `AtomicFile`: none; their properties are safety properties.
* `OpenCodeContinuation`: the awaits of the plugin end, its timer runs every second and a
  disposed or killed instance is replaced by the next start of OpenCode; no event and no
  prompt of the user is promised, and crashes and failing reads are bounded.
* `SetupFiles`, `UseRepository`, `Database`, `QueryCache` and the modules of `task_runs`,
  `knowledge` and `sessions`: none; nobody is obliged to retry, and their properties
  are safety properties.
* `TraceIngestion`: scans are repeated (the discovery timer) and claimed jobs proceed.
* `EnnoRun`: the parent agent claims and reports while the run executes (the directive
  tells it to), receipts expire, a process does not stay between two transactions for
  ever because verifiers have timeouts, and not every report is killed or overtaken
  (the lease of a report is renewed for longer than all verifier timeouts together,
  `operationLeaseMsForVerifiers`). Planning, reviewing and editing are not obliged.

## 6. Proofs

Every theorem holds for all values of the constants that satisfy the named assumption of
its module, which TLC evaluates on the runs: any number of processes, entries, files,
requests or units, and any value of the bounds. Each inductive invariant was checked by TLC
on small instances before it was proved. In a proof module every action has a lemma, the
lemma of a step collects them by the disjuncts of `Next`, and the theorem closes with `PTL`.

| Module | Theorem | States |
|---|---|---|
| `OrchestrationJobsProofs` | `JobsTypeCorrect`, `LeaseCorrect`, `AttemptsExclusive`, `SupersededSafe`, `CompletedStays` | `TypeOK`, `LeaseNamesLatestClaim`, `OneProcessPerAttempt`, `SupersededNeverWrites`, `CompletedIsFinal` |
| `WriteQueueProofs` | `QueueTypeCorrect`, `QueueSerial`, `QueueDrainMeansIdle`, `QueueClosedStaysIdle` | `TypeOK` with `WithinCapacity`, `SerialOrder`, `DrainMeansIdle`, `ClosedStaysIdle` |
| `HttpServerProofs` | `ServerClosesInOrder`, `ServerKeepsOrder` | `ClosesInOrder`; `SerialOrder` of the queue under the steps of the server |
| `EmbeddingProjectionProofs` | `EmbeddingTypeCorrect`, `VectorsTrue`, `OvertakenSafe`, `NothingForgotten` | `TypeOK`, `VectorOfItsRevision`, `OvertakenNeverWrites`, `ProjectionCovered` |
| `TraceIngestionProofs` | `TraceTypeCorrect`, `LinesCounted`, `PublishedWhole` | `TypeOK`, `LinesCountedOnce`, `PublishedIsWhole` |
| `EnnoRunProofs` | `TypeCorrect`, `WorkAdvancing`, `LeasesFollow`, `SupersededReports`, `AcceptedGood` | `TypeOK`, `WorkAdvances`, `LeasesFollowThePlan`, `SupersededNeverReports`, `AcceptedIsGood` |
| `TaskRunsProofs` | `RunsTypeCorrect`, `ImplementsLifecycle`, `CleanupSafe`, `StoryKept` | `RunInv`, `LifecycleKept` (the refinement), `CleanupSparesFinished`, `RequestIsOneStory` |
| `TaskContextProofs` | `ContextTypeCorrect`, `DeliveriesHonest`, `EndedFrozen` | `TypeOK`, `DeliveriesAreHonest`, `EndedIsFrozen` |

**Job queue** (`JobsAssumption`). The inductive invariant adds to the properties that a
process never remembers more attempts than its row counts, that an absent row is fresh and
that phase, job and heartbeat of a process agree: without the first, two processes could
hold equal attempt numbers of one row after a reclaim, and the lease check could not tell
them apart. Most lemmas of actions are instances of `QuietStep` (a row loses its lease or
keeps it, a process keeps or drops its claim); only the claim needs its own argument: it
increments the counter, so no process remembers the new number.

**Write queue and server** (`QueueAssumption`, `ServerAssumption`: requests and the worker's
writes are different operations, and `close()` is the only one that drains). The invariant of
the queue relates the histories to it (`accepted` is `started` followed by `items`) and
says that nothing waits while nothing runs, which makes a resolved drain mean an idle queue.
Every step of the server is a step of the queue or leaves it alone, so the queue's invariant
is the server's. `ShutdownInv` says of the seven steps of `close()` that what an attempt has
passed is released or failed, that only the last three can fail, and that a queue that is
closed has no user left: the worker has stopped, and who is still being served was admitted
after closing began. Without that last part a drained queue could be written to before the
database closes; the properties alone do not exclude it.

**Embedding projection** (`EmbeddingAssumption`: runtimes are not setups, every bound but the
retry delays is positive). `ProjectionInv` adds to `VectorOfItsRevision` what carries a
vector from the claim to the row: a process holds claims only while it drains, a claim has
used an attempt, one that is to be embedded is no secret, one that is to be stored has the
vector of its document, and a pending row has an attempt left. `NothingForgotten` is the
part of `EmbeddingsAreCurrent` about this module; its argument is one lemma per way in which
a row may change (a pending row stays pending or is claimed, a claim settles with a vector
or a failure, an edit and an activation enqueue).

**Trace ingestion** (`TraceAssumption`). `TraceInv` is about every aggregate, stored or
still being built by a worker: while the first file is in place it consists of the lines
before its offset. Stated of the stored one only it is not inductive, because a worker
commits what it built from the row it read several steps earlier (`exec[w].prev`,
`exec[w].agg`). Only a sealed file whose `run.end` was recorded can be verified (`VerifyInv`), and published
context and progress are of one generation; from both follows that what is finalized or
promoted is one whole file.

**Enno-Oduno run** (`PlansAssumption`, `SessionsAssumption`, `OutcomesAssumption`,
`BoundsAssumption`). Four invariants, each inductive relative to those before it: `TypeInv`;
`PlanInv`, by which units in progress are compatible with one another and a run that executes
has a unit in progress (it needs that needs of a plan are well-founded and that scheduling
by rank starts a unit whenever none is in progress); `LeaseInv`, by which serials are
handed out in order and a live lease has the last serial of its unit in the present revision
and epoch, so that a superseded credential matches no live lease; and `ReviewInv`, which
follows the version of the repository through the two transactions around a final
verification, because `AcceptedIsGood` compares a version read before the verifiers ran with
the one after.

**Task requests and the ledger** (`TaskRunsAssumption`). `RunInv` is the type invariant with
what a tombstone stands for: the run is gone. It suffices for the refinement: `Lifecycle!Init`
holds initially and every action is, for each run, `Open`, an append, an end, a purge or a
stutter of `RunLifecycle`. `StoryInv` adds that a receipt of a request outlives its run,
that a target adopted from an earlier run was never asked for, and that the earlier run
ended before and was not made anew: an adoption reads those in one transaction and the
property compares them much later.

**Context of a run** (`TaskContextAssumption`). `ContextInv` says of deliveries and of
rankings under way that they hold what their query selects, of a verification under way that
it is the only one of its request and that its verifier ran on nothing older than the content
it reserved, and of an ended run that its report agrees with reviews and evidence, which
change no more.

Only model-checked:

* liveness (`EveryJobSettles`, `QueueDrains`, `ClosesAndAnswers`, `CatchesUp`, `GokiEnds`,
  `OutboxSettles`): fairness and ENABLED are outside the prover's reach;
* the safety properties of the modules without a proof module: `OneHolder`,
  `SetupIsAllOrNothing`, `UseKeepsOneIdentity`, `DatabaseIsAsTold`, the part of
  `EmbeddingsAreCurrent` about `QueryCache`, `CompactionKeepsTrack`, `RecallFollowsPrompt`,
  `PromptedOnce`, `OutcomesAreTrue`, `NothingLost`, `RanOnce`, `LedgerWhole`,
  `SkillServesItsSnapshot`, `BrokerKnowsItsHistory`, `AdviceFollowsLedger`,
  `ReviewKeepsItsWord` and `EntriesCanBeTrusted`. Nothing keeps them from being proved;
  section 7 orders them.

The other way round, the type invariants, `LeaseNamesLatestClaim`, `CompletedIsFinal`,
`WithinCapacity`, `DrainMeansIdle` and `ClosedStaysIdle` are proved and no run repeats them.

## 7. Plan

Done, in this order: job queue and its proofs; embedding projection; write queue and its
proofs, HTTP server, instance lock, MCP process; trace ingestion; Enno-Oduno run;
conditional file changes; task requests and the ledger with the abstract run lifecycle;
context, advice, reviews and entries; execution selection, archives and promotion; skills
and their discovery; the OpenCode plugin; setup, use and the database; query cache; proofs
about the server, the embedding projection, trace ingestion, the Enno-Oduno run, the ledger
with its refinement, and the context of a run.

Next, by importance:

1. Proofs: `OneHolder` of `ServerInstance`; `OutcomesAreTrue` of `AtomicFile`;
   `QueriesFollowProfile` of `QueryCache`; `EntriesCanBeTrusted` of `MemoryEntries`;
   `RanOnce` of `ExecutionSelection`.
2. The lock of the embedding setup with its leftovers, and the resume tokens of Enno runs.
3. Recovery of Enno runs whose plan was lost (`plan-recovery.ts`).

## 8. Not modelled

Text and ranking (retrieval, context ranking, sanitizing, rendering, web interface, CLI),
network clients and validators, wrappers of external processes; `PROJECT.json` gives the
reason for each component. In modelled components:

* completed receipts of Enno operations that replay their answer, integrity checks of rows
  that only a corrupted database fails, events as text, and the recovery of Enno runs
  created by older versions;
* code that only tests or injected dependencies reach (`ContextBroker.query` and the
  feedback on runs and intakes are modelled though only tests call them;
  `writeOrConvergeIdentical`, `writeStrict`, `backfillProfiles`, `resetProfileProjection`
  and `opencode/idle-state.ts` are not), and states nothing enters (`exhausted` intakes;
  `needs_confirmation` and `blocked` contracts);
* calls of one process that join the fetch or search of another one, and the queue of one
  process before the lock of managed files;
* alternative names of the OpenCode configuration, template versions newer than the
  package, the pragmas and extensions of a connection;
* in `TaskContext` tasks that change no code; in `RunAdvice` the caller that stores a
  nudge, which is outside the repository; in `WorkspaceArchive` the global workspace
  and audit events other than purges; in `LedgerPromotion` globalization and the replay of
  purge tombstones; in `SkillDiscovery` other modes than community.
