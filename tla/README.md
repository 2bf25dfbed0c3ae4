# CADGen-AX: TLA+ specifications, model checking and proofs

CADGen-AX is a desktop application (a Rust backend in `src/src-tauri/src`, a
React front end in `src/ui`, C++ sidecars in `src/src-tauri/sidecars`) in which
an agent, Codex, models an OpenSCAD part for the user. Paths below are relative
to `src/src-tauri/src` unless they start with `src/`.

The core of the program is the loop that makes the result trustworthy: a
modelling turn applies sources and *finalizes* a revision; the finalization
queues a validation batch of three checks (structural, DFM, VLM); the batch is
judged; the verdict completes the run, fails it, or is sent back to the agent
as a refinement turn. The loop spans two kinds of process, a SQLite database,
an app-server that may die, a user who may cancel and a desktop process that may
be killed at any moment. Four modules are about that loop. Eight more are about
what carries it: the connection to the app-server, the threads and turns on it,
the conversation, and the copies that processes keep of sessions, events and
files.

## 1. Inventory

### Components, state and operations

| Component | Code | State | Operations |
| --- | --- | --- | --- |
| Validation store | `session_repository/save.rs`, `session_service/validation_batch_persistence.rs`, `storage/migrations.rs` | rows `validation_batches`, `validation_checks`; `agent_runs.output_revision_id`, `external_turn_id` | create a batch; start, complete, fail, reset a check; claim, settle, release a settlement; claim, release, mark effects; request and bind a refinement |
| Validation coordinator | `validation_plane/coordinator.rs` | `active_batches`, `active_refinements`, the tasks it spawned | `enqueue`, `enqueue_run`, `try_settle_batch`, `apply_settled_effects`, `confirm_refinement_bound`, `recover_startup` |
| Agent gateway | `agent_gateway.rs` | `active_runs`, the session locks, one task per run | `start_run`, `enqueue_refinement`, `cancel_run`, `execute_run`, `recover_startup_runs` |
| Run life cycle | `session_service/runs.rs`, `session_service/recovery.rs` | the `agent_runs` row and its cached copy | update, link revision, prepare refinement, mark reconciling, unknown outcome, apply history |
| Thread manager, Codex adapter | `agent_thread_manager.rs`, `codex_agent_adapter.rs`, `session_service/agent_persistence.rs` | `agent_threads`, turn leases, threads loaded per connection generation, the messages a collector holds back | activate, resume, replace a thread; start, bind, collect, finish, interrupt a turn; read its history; start a new conversation |
| VLM evaluator | `validation_plane/codex_vlm_evaluator.rs` | the evaluator's turn, `validation_check_events` | evaluate a check, collect its submission, recover it after a restart |
| Notification router | `notification_router.rs` | pending and exact routes, bounded channels, terminal marks | register, promote, cancel, route, unregister, fail all |
| Process client | `codex_process_client.rs` | the child, pending requests, a generation with its initialization | initialize, request, answer, time out, drain and clear at exit |
| Session cache | `session_service.rs`, `session_service/refresh.rs`, `session_repository.rs`, `load.rs` | `ServiceState`: every row, in memory, one copy per process | load, refresh a session, save the session as cached, normalize at startup |
| Sessions, revisions, conversation | `session_service/sessions.rs`, `revisions.rs`, `conversation.rs` | sessions, revisions, the active revision, messages | create, rename, delete, apply a source, activate a revision |
| Run events | `session_service/events.rs`, `save.rs` | the events of a run, numbered | append, correct the number |
| Artifacts | `session_service/artifact_management.rs` | files below the artifact root, manifests, cached manifests | write, read, verify, delete, clean up |
| Operations | `session_service/operations.rs` | none of its own | prepare and carry out the replacement of a session's thread; diagnostics; trimming of transport events |
| Command line processes | `cli/*.rs` | a cache of their own | plan-commit, source-apply, finalize, read-only commands |
| Evaluations before batches | `session_service/validation_persistence.rs` | old evaluation rows | kept for old databases |
| Geometry and slicing | `dfm.rs`, `cli/structural.rs`, `cli/vlm.rs`, sidecars | none | one report or one error per call |
| Front end, prompts, protocol, shell | `src/ui`, `prompt_template.rs`, `modeling_plane/`, `protocol/`, `lib.rs` | views and texts | |

### How they interact

* The **gateway** runs `execute_run` as a task under the session's lock. It asks
  the **adapter** for a Codex turn; the **thread manager** takes the lease of the
  modelling plane, activates the session's thread, opens a pending route in the
  **router**, starts the turn through the **process client** and promotes the
  route; the turn's identifier is bound to the run in the database. Events of the
  turn come back through a sink that is deaf when the run has left `active_runs`.
* The turn starts **command line processes** that write to the same database,
  each from a cache of its own. The desktop process learns of their work only
  when a `ToolCompleted` event makes it refresh its cache.
* When the turn ends, `execute_run` calls the **coordinator** (`enqueue_run`),
  which starts one task per unsettled batch it knows of; the task joins three
  executions (the **VLM evaluator** runs a turn of its own on the validation
  plane), settles the batch and applies the verdict.
* A rejection makes the coordinator call back into the gateway
  (`enqueue_refinement`), which starts another task; when that task's turn is
  bound, the gateway calls `confirm_refinement_bound`.
* **Cancellation** writes the run directly or, if a turn is bound, spawns a task
  that interrupts the turn and reads its outcome from the thread history.
* The **reader** of a connection that ends fails its requests and its routes,
  forgets the connection and kills the child, in this order and without a lock
  from one to the next; the next request starts another app-server.
* **Startup** (`lib.rs`) loads the cache, verifies the artifact files, normalizes
  the rows (running structural and DFM checks are queued again, every claim is
  released, threads are marked as not loaded), recovers the runs
  (`recover_startup_runs`), then the batches (`recover_startup`).

### What is hard

Concurrency between tasks that release the service lock between two calls;
writers in other processes; compare-and-sets that are listed in one transaction
and executed in another; claims whose owners die; turns that end while nobody
listens; notifications that come before the answer that names their turn;
histories that contradict what was recorded; caches that are changed first and
saved whole; files that are not in the transaction of their rows.
`PROJECT.json` lists the hazards by source line with the property that watches
each of them.

### What makes each component correct

* Store: a settled verdict and an applied effect are final; an effects claim
  names one owner and never comes back; the batch being applied is the newest.
* Coordinator: a verdict is the one its checks give; whoever acts on a batch
  owns it; nothing is written but through the store's operations.
* Gateway and runs: the run is told the verdict on its newest model; a rejection
  is answered by a *later* turn; at most one refinement waits; a verdict
  eventually ends its run; completion is earned; a recorded cancellation is undone
  only by an update or a refresh that had looked at the run before it.
* Router: a collector hears its turn from the first notification on, in order and
  without a gap, or is told that the connection is gone; no route outlives its
  owner.
* Process client: whoever waits is in the table of the connection the request went
  to; the current connection is the newest; every call returns.
* Threads: one active thread per plane; a bound run keeps its thread; no turn on a
  thread its app-server does not know; every lease is given back.
* Conversation: a completed run has every message of its turn; an ended run keeps
  its outcome but for who looked before it ended; a run ends while somebody is left
  to look at it.
* Evaluator: the report is that of the only submission of a turn that completed;
  its evidence has no gap; every check ends.
* Session graph: the active revision is a known one; a deleted session stays
  deleted; the output of a run is never put back.
* Events: numbers are contiguous and unique; caches agree with the rows.
* Artifacts: what is deleted is gone; a manifest without its file is about to be
  noticed.

## 2. Modules

```
BatchLifecycle          the promise: opened, judged once, acted upon once
     ^ refines (StoreRefinement)
ValidationStore         the rows; any operation at any time
     ^ refines (ImplementsStore)
ValidationCoordinator   the tasks, in the weakest environment
     ^ refines (ImplementsCoordinator)
AgentRuns               gateway, agent, user, reconciliation, crash, startup

TurnStream              the promise: a stream is complete while it is open
     ^ refines (ImplementsStream)
NotificationRouter      routes, channels, reader and users

CodexProcess            requests, initialization and generations of the app-server
AgentThreads            threads and leases of the two planes
Transcript              the messages and the outcome of one turn
VlmTurn                 the turn that judges a VLM check
SessionGraph            the session in the database and in every cache
RunEvents               the numbered events of a run
Artifacts               files, manifests and cached manifests
```

The chain on the left composes the loop. The modules below it each take one
component with its environment reduced to what it can observe: `AgentThreads` has
the run and check states that its guards read, `Transcript` the run that
`AgentRuns` treats in full, `VlmTurn` the check whose execution
`ValidationCoordinator` treats. What the upper modules leave to choice (a turn
ends, fails, or is found in its history; a check reports or fails) is what the
lower ones produce.

### ValidationStore

`batch[b]` and `check[b][k]` are the rows; `outRev` and `turn` the two columns of
the run that the operations read. Every action is one IMMEDIATE transaction: its
guard is the WHERE clause of the UPDATE, together with the early returns of
`validation_batch_persistence.rs` and the triggers of `storage/migrations.rs`
that refuse the write (e.g. `LinkOutputRevision` carries the trigger
`agent_runs_output_revision_effect_claim`, and `Settle` the CHECK that a
succeeded batch was started). Any action may occur in any state, so the module
covers every client and every crash between two operations. A settlement claim
is a timestamp and may repeat (`Stamps`); an effects claim is a UUID and may not
(`Tokens`, `issued`). Reports are reduced to `passed`; the contract identity of a
check, texts and hashes are left out.

### BatchLifecycle and StoreRefinement

`BatchLifecycle` states what a batch promises without claims, tokens or checks.
`StoreRefinement` maps the rows to it: the verdict from status and aggregate, the
actors from the effects claims, the outcome from `effects_applied_at` and
`refinement_bound_at`.

### ValidationCoordinator

`task[b]` is `execute_batch`, `exec[b][k]` the executions it joins, `eff[b]`
`apply_settled_effects`: a program counter each, one step per call into
`SessionService`, since the lock is released between two calls. `number[b]` is
the local of the one read-then-write (the iteration number). `known` and
`cachedRev` are what the desktop process's cache knows. The operators are used as
they are by `AgentRuns`; `CoordSpec` closes them with an environment that changes
the run at will, installs whatever a refresh may have loaded (`InstallCache`: any
run, any output revision, any of the batches), finalizes, applies sources, crashes
and restarts.

### AgentRuns

`gw` is `execute_run` (the refinement tasks run through it too), with the turn
it started in `gwTurn` and the confirmations it has listed and not yet made in
`todo`; `active` is membership in `active_runs`; `rec` holds the cancellation and
the startup reconciliation; `ext` is Codex's record of its turns. The agent's
`AgentApply` and `AgentFinalize` are the command line processes of a running turn,
bound to the run or not. `Crash` drops all of memory, `Boot`, `BootNormalize` and
`BootRecover` are the startup.

The run is kept twice: `run` is the cached copy that every guard reads, `row` its
row. Whoever changes the copy saves it whole under the same lock (`SavesRun`;
`Writing` lists the steps that save it even if they change nothing). Progress of the
turn saves the copy as it is (`GwProgress`). The end of a `cadgen-ax` command does
so too and then refreshes: `GwLoad` loads run, batches and output revision into
`snap` without the service lock (`refresh.rs:13`), `GwInstall` puts them in place of
the cached ones (`refresh.rs:33`), and every other task may act in between. A turn
ends for the gateway after the refresh of its last command (`Refreshed`), because
the notifications of a turn come in order; a crash, a timeout or a lost connection
comes at any time.

### NotificationRouter and TurnStream

`exact`, `pending` and `terminal` are the three tables of the router, `chan[u]` the
channel of a turn. `user[t]` is the thread manager's use of it under the lease of
thread `t`: `begin_pending_route`, `turn/start`, `promote_pending_route` or
`cancel_pending_route`, then `recv` until the managed turn is dropped. `Route` is
the whole of `NotificationRouter::route`: a duplicate terminal is suppressed, an
exact route is fed, a pending route buffers, and a full channel or buffer ends the
connection (`Overflow`). `conn` is the reader: `broken` between leaving its loop and
`fail_all_routes`. `TurnStream` is what a collector is promised, without routes:
a stream opens with everything its turn has sent, grows with it, and is cut as a
whole.

### CodexProcess

`conn[g]` is generation `g`: the child, its reader's place (`left`, `drained`,
`cleared`, `done` are the steps of its exit), the initialization cell and whether
its `Notify` has fired. `client[c]` is a caller: `ensure_initialized` with the
created-before-checked `Notified` future (`Arm`, `Check`, `Wake`), then a request
that calls `ensure_started` again (`Ask`) and may land on another generation.
`pending[g]` is the table of senders. A request to a dead child fails at the write;
an answer that finds no sender ends the connection (`UnknownAnswer`).

### AgentThreads

`row[t]` is `agent_threads`; `rollouts` what Codex has on disk; `conn.loaded` what
the app-server has in memory and `loaded` what the manager believes it has. `op[p]`
is the operation that holds the lease of plane `p`, a turn, an evaluation or a new
conversation, with one step per request or transaction. `AskFailed` has the
order of the code: the pending route is cancelled first, and when that fails the
row is left as it is. `MayReplace` is `validate_replacement_active_runs`.

### Transcript

`codex` is the turn as Codex has it, `queue` and `open` the route of its collector,
`coll` `CodexAgentAdapter::run` with the end of `execute_run` (messages without a
phase are held in `legacy`; `observed` came in while an interrupt was under way),
`read[w]` one reading of the history with `apply_agent_run_history_recovery`, by
the collector, the task of a cancellation or the startup task. A reading looks at
the run, saves one message per step, and looks at the run again; the three may
overlap. The end of `execute_run` is two steps: `Finish` looks at the run
(`agent_gateway.rs:365`, `382`), `Outcome` writes completed or failed into it (`370`,
`400`), whatever it has become. `row` and `snap` are as in `AgentRuns`: `Progressed`
saves the cached run, `Refresh` loads it and `InstallRun` installs it later. `Crash`
includes the restart, which starts from the row.

### VlmTurn

`items` and `turn` are Codex's record, `queue` the route, `held` and `observed` the
`StrictValidationCollector`, `events` `validation_check_events`, `pc` the evaluation.
`Refused` is the error cases of `ingest`; `Accepted` what the parser of a history
accepts, written from its own code. A notification is recorded before it is
ingested and the record may fail.

### SessionGraph

`db` is one session's rows and `cache[p]` what process `p` has of them, in one
record type, since the program saves what it has cached. `load[p]` is
`SqliteSessionRepository::load`, one step per SELECT outside a transaction, at the
start of a process and in the app's refresh. `Persist` is `persist_session_graph`:
the cache is changed first; a save that is refused leaves the app with a cache ahead
of the database and ends a command. `fresh[p]` is the revision a command has made
and not yet linked.

### RunEvents

`Append1` gives an event a number from the cache, `Save` stores it under
`MAX(sequence) + 1`, and `Correct` renumbers and sorts the cached copy, as
`persist_agent_run_event` does (`Sorted` is its stable `sort_by`, an event's place being
one more than the number of those before it). `SaveFails` leaves the event in the cache.

### Artifacts

`op[x]` is a request of the main thread, a background task or a command process:
writing puts the file, the row and the cached copy one after the other, deleting
removes them in this order, verification and clean-up walk over a snapshot of the
cache. `Crash` includes the start of the application with its verification. `swept`
is a history variable: the files clean-up removed.

### MC modules and proof modules

`MCStore`, `MCCoordinator`, `MCRuns`, `MCRouter`, `MCProcess`, `MCThreads`, `MCGraph`
and `MCArtifacts` give the constants their sets and, in safety runs, their
symmetry; the other runs use their module itself with constants in the
configuration. Eight modules hold the theorems: `ValidationProofs` (store and
coordinator), `AgentRunsProofs` (which builds on it, as `AgentRuns` does on the
coordinator), `AgentThreadsProofs`, `VlmTurnProofs`, `CodexProcessProofs`,
`ArtifactsProofs`, `SessionProofs` (graph and transcript) and `StreamProofs` (router
and events). Definitions named
`Mut...` are altered copies of the definition that follows; they show that a
property depends on it and are used by no specification.

### Abstractions

* *The loop.* One run of one session. Two runs of one session share the session
  lock and the validation lease; the coordinator filters by run everywhere else.
  One revision per source-apply; the content of sources, plans and reports is
  left out. `starting` stands for every label a modelling turn gives its step.
  A refresh carries the run, the batches it knows and the output revision; the
  columns of batches and checks are read from their rows, although a stale refresh
  may also put back cached ones: `CachedRowsAtRisk` is the only case in which an
  execution would notice, and liveness excepts it. The turn and the iteration number
  are read from the row as well: while a turn is under way nobody writes them. Saving
  the progress of a command (line 583) and loading for its refresh (593) are one step;
  what falls in between is as if it came before both. `starting` stands for a cleared
  label too. A turn without a command needs no refresh, and `Refreshed` then holds by
  itself.
  Gateway, cancellation and reconciliation steps happen in phase `up`: startup is
  synchronous and the window opens after it. Startup applies the effects of
  settled batches in a loop; the model runs them as concurrent executors, which
  allows more. `recover_startup` normalizes a second time; the model has one
  normalization. A history that no longer has the turn is treated as a failed turn.
  `GwMeta` writes the metadata and lists the awaiting batches in one step. Errors
  of the database and malformed reports are not modelled, so the claims they would
  strand are not either (a crash strands the same claims).
* *The connection.* Notifications are numbered; what they say is left out but for
  the terminal one. A write to the app-server's pipe does not block: `request_timeout`
  covers the wait for the answer only (`codex_process_client.rs:230`), so a child that
  stopped reading its input would hold a call for ever. `register_route` has no caller and is left out, as are the
  diagnostics channels for global and orphan notifications and `shutdown`.
* *Threads.* One session. The turn that runs under a lease is one step long here;
  `Transcript` and `VlmTurn` look into it.
* *Transcript.* The run has no pending batch when its turn ends (with one,
  `AgentRuns` applies). A turn that completed keeps its messages in the history. A
  refresh carries the run; messages, which every process only adds by their own
  transaction, are read from their rows. The diagnostic that `execute_run` records
  before it fails a run (389-399) is left out; what may happen around it happens
  between `Finish` and `Outcome`.
* *SessionGraph.* One session; `archived` is written like the title and left out;
  revisions are never removed. In run `graph` titles are not told apart.
* *Artifacts.* An identifier is a path and is not used twice. Hash updates of the
  slicer's profile, exports to the user's paths, the lists of previews and deleted
  sessions are left out.
* *VlmTurn.* The user starts a dead application again (`Restart` is fair).

## 3. Runs

| Run | Instance | What it shows |
| --- | --- | --- |
| `store` | 2 batches, 2 revisions, 2 checks, 1 stamp, 3 tokens, 1 turn | `StoreInv`; verdicts and applied effects are final; a claimed verdict on the newest attempt stays the newest; lost claims are dead; the rows implement `BatchLifecycle` |
| `coordinator` | 1 batch with a VLM check and another one, any number of crashes and refreshes | verdicts match checks, executors own what they act upon, the coordinator uses the store's operations only |
| `runs` | 2 batches, 2 revisions, 2 turns; any two of: the second batch, a crash anywhere, a cancellation anywhere | the executor about to touch the run speaks for the newest model; rejections are answered by later turns and never closed in silence; one refinement waits at most; iteration numbers never collide; completion is earned, a recorded cancellation is undone only by an update or a refresh that looked before it; the whole refines the coordinator |
| `live_runs` | the same without cancellations, one attempt per revision, either the second batch or a crash, fairness | every batch the process knows of is concluded, unless a stale refresh meets the execution of its checks; a verdict that calls for no refinement ends the run |
| `router` | 3 turns on 2 threads, 3 notifications, channels and buffers of 2, 2 starts | collectors hear a prefix of their turn and are told when it is cut; terminal notifications come once; the router implements `TurnStream`; a waiting collector wakes |
| `process` | 2 callers with one call each, 2 generations | whoever waits can be answered; the current connection is the newest; every call returns |
| `threads` | 3 threads, 1 run with refinements, 1 check, 2 generations, 1 restart | one active thread per plane, turns on loaded threads only; a bound run keeps its thread while it may be refined; leases come back |
| `graph` | the application and one command, 1 run, 2 revisions | the active revision is known; an output is never put back; a deleted session stays deleted |
| `run_events` | 2 processes, 4 events, 2 failed saves | numbers in the database are 1..n without a gap; a cache holds what it saved, in order |
| `transcript` | a turn of 2 messages, 1 restart, 1 cancellation, 1 refresh, fairness | a completed run has all its messages in order, whoever saved them; an ended run is overwritten only by an update or a refresh that looked before it ended; runs end but for two named cases |
| `vlm_turn` | 3 items, 1 crash, fairness | the report is that of the only submission; recorded evidence has no gap; a check concludes |
| `artifacts` | 2 artifacts, one background task, one command, 2 crashes, 1 restore, clean-up | a deleted artifact is gone from disk, database and cache; a manifest without a file is noticed by the next verification |

**Bounds of the loop.** Two batches give two attempts on one revision or one
batch on each of two revisions, which are the two ways of being outdated; a third
adds no guard, as every guard compares a batch with *some* other one. Two turns
are a modelling turn and its refinement, which can itself be judged. Three tokens
are two owners and a successor. One stamp is the worst case for timestamps: all
claims look alike. `MaxAttempt = 2` reaches the largest attempt number, from where
no batch is created (`checked_add` in the code). `MaxExtras` is the number of
events of the environment, a crash, a cancellation or a further batch, that one
behaviour may have: two of them in `runs`, so that every pair meets at every
point. The runs of `AgentRuns` have the VLM check only: with one kind of check the
interleavings of a task stay complete for it, and `coordinator` has the mix.
Refreshes are not bounded: one follows every command, and one without news may come
at any time. `live_runs` has one attempt per revision, since a liveness check pays
for every state twice and the guards that compare attempts are those of the safety
runs. `coordinator` has a `VIEW`: its environment may put any run into the cache,
and `MCView` identifies those that every guard of the coordinator treats alike
(`TestedOfRun`: the status up to failed or cancelled, and whether the run is being
refined).

**Bounds of the others.** The router needs two threads to show that one turn's
full channel ends the other's, and two turns on one thread for a late notification
of the first; capacity 2 (256 for a channel and 64 for a pending
buffer in the code) is reached, exceeded and drained. The
process client needs two callers to share an initialization and two generations
for a request that crosses an exit. Three threads are the
modelling thread, its replacement and the evaluator's. In `graph`, one run and two
revisions make a stale output. `run_events` has two failures, as the first one
leaves an unsaved event in a cache and the second one meets it. Two messages are
the least that can be out of order or partly saved. Three items are an accepted
evaluation (prompt, submission) and one item too many. Two artifacts
are one that is being cleaned up while another is written. One refresh in
`transcript` is enough for a cancellation, a timeout or an end to fall between its
load and its installation, and for the run it puts back to be concluded again.

**Deadlock.** Runs that end, and budgets of calls, crashes and identifiers that are
spent, stop most instances, and their configurations switch the check off, with the
reason in a comment. `store` and `coordinator` keep it.

**Symmetry** is used in safety runs only, over identifiers the model compares
for equality and never orders.

**Fairness** is weak, with one exception, and stated for steps that the code obliges
itself to take. The exception: a turn of finitely many commands and events, each of
which may start a refresh, is left in the end (`SF` on leaving the turn in
`AgentRuns`).

* `AgentRuns`: the coordinator's steps (tokio runs its tasks; its calls return), the
  gateway's progress (every await in it has a timeout or is the end of a turn), the
  end of a running turn (one that takes too long is interrupted), the two
  reconciling tasks (bounded retries with a deadline), startup. Nothing obliges the
  user to cancel, the process to crash, or the agent to apply or finalize anything.
* `NotificationRouter`: a reader that left its loop fails all routes; a collector
  reads what is in its channel and drops it when told. The app-server owes nothing.
* `CodexProcess`: callers' steps, the writer, the timeout of a request, the steps of
  the initialization and of an exit. The app-server owes no answer.
* `AgentThreads`: operations under a lease (requests and turns have timeouts).
* `Transcript`: the collector and its timeout, the task of a cancellation, the
  startup task, the steps of a reading. Codex owes nothing.
* `VlmTurn`: the evaluation and its timeout; the user starts a dead application
  again.

**Liveness is stated for what the process knows.** A batch finalized just before
the connection is lost is durable but not in the cache, and stays open until the
next start: `BatchesAreConcluded` says `b \in known`.

### What the code does not promise

Each of these configurations checks one statement that a comment, a message, a
document or a test of the repository makes or suggests, under the module's own
specification; TLC refutes it, and the trace is the shortest account of the
hazard. They are kept beside the runs, whose properties say what holds in its place.

| Configuration | Module, statement | What happens |
| --- | --- | --- |
| `CompletedAfterRestart.cfg` | `AgentRuns`, `CompletedOnlyAfterPass` | `src/README.md:85` promises completion only when every check has passed. If the process dies during validation, startup completes the run from the history of its turn, and the verdict then finds a terminal run. `CompletionIsEarned` has this as its only exception. |
| `CancelledResurrected.cfg` | `AgentRuns`, `CancelledStaysCancelled` | The test at `validation_plane/coordinator.rs:1802` has a cancelled run left alone. A cancellation between the preparation of a refinement and its start writes `Cancelled`; the refinement task sets the run `Running` without looking. |
| `CancelForgotten.cfg` | `AgentRuns`, `CancelEndsRun` | `src/README.md:253`. A cancellation between the check of `active_runs` and the update to `Running` is overwritten; the turn runs unheard and the run stays `Running` with no task behind it. |
| `CancelRefreshed.cfg` | `AgentRuns`, `RefreshKeepsCancelled` | `src/README.md:253` again. A command of the turn ends, its refresh loads the run as `Running` (`refresh.rs:13`), the user's cancellation is recorded, and the refresh installs what it has loaded (`refresh.rs:82`); the next progress of the turn or the next `mark_agent_run_reconciling` saves `Running` over `Cancelled`. |
| `StrandedRequest.cfg` | `MCProcess`, `ExitFailsPending` | The test at `codex_process_client.rs:793` has an exit fail what is pending. The reader drains the table (line 432) before it forgets the connection (439–446); a request registered in between (217) waits for its timeout. `CallsReturn` says that it returns. |
| `StrandedEvaluator.cfg` | `MCThreads`, `EvaluatorIsArchived` | The test at `agent_thread_manager.rs:2367`. When cancelling the pending route fails, the `?` at 524 skips the archiving at 525: the evaluator's thread stays active and the plane is closed to later checks (456–461). |
| `LostThread.cfg` | `MCThreads`, `MissingThreadIsReplaced` | The text at `agent_thread_manager.rs:44` says a lost thread is replaced by the user's choice; `session_service/operations.rs:385` refuses it for a run with a bound thread, which a refinement keeps (`session_service/runs.rs:529`). |
| `StaleRefresh.cfg` | `MCGraph`, `OneActiveRun` | The message at `session_service/runs.rs:34`. A refresh loads (`refresh.rs:13`) before it takes the lock (33): a run created meanwhile leaves the cache, and a second one is accepted. |
| `UserTitle.cfg` | `MCGraph`, `UserTitleStands` | The test at `session_service/tests/session_repository.rs:92`. A command that started before the user renamed a session saves the title it has cached (`session_repository.rs:871`). |
| `TwoFinalAnswers.cfg` | `Transcript`, `OneFinalAnswer` | The test at `codex_agent_adapter/tests.rs:239`. The collector of a turn without phases and the reading of its history choose the final answer by different rules (`codex_agent_adapter/events.rs:267`, `agent_thread_manager.rs:997`). |
| `StuckReconciling.cfg` | `Transcript`, `EveryRunEnds` | `src/README.md:156` promises recovery or an explicit failure after a restart. A turn that its history shows in progress leaves the run reconciling with no task behind it (`agent_gateway.rs:204`). A refresh that puts back a run from before it was marked lets the task that marked it give up without effect (`session_service/recovery.rs:112`). `RunEnds` names both. |
| `CleanupOrphans.cfg` | `MCArtifacts`, `OrphansOnly` | `session_service/artifact_management.rs:328` removes files that no manifest names, as known from a snapshot of the cache; a file written and recorded after the snapshot goes too. |

## 4. Proofs

| Theorem | Module | For every value of the constants |
| --- | --- | --- |
| `StoreSafe` | `ValidationProofs` | `StoreInv` is an invariant of the store |
| `VerdictFinal`, `AppliedFinal`, `OwnerLatest`, `LostClaimDead` | `ValidationProofs` | the four action properties of the store |
| `LifecycleImplemented` | `ValidationProofs` | the store implements `BatchLifecycle` |
| `CoordStoreSafe`, `CoordImplementsStore` | `ValidationProofs` | `StoreInv` is an invariant of the coordinator with its crashes; the coordinator implements the store |
| `CoordTyped`, `CoordExecutorOwns`, `CoordVerdicts` | `ValidationProofs` | the coordinator's type invariant; whoever acts on a batch owns it; a verdict is the one its checks give |
| `RunsImplementCoordinator` | `AgentRunsProofs` | gateway, agent, user, crash and startup only do to validation what the coordinator's environment may do |
| `RunsTyped`, `RunsActOnLatest`, `RunsAnsweredByLaterTurn`, `RunsOneRefinement`, `RunsSavesNeverConflict` | `AgentRunsProofs` | the five invariants of the composed run, with any number of turns, batches, iterations, cancellations and crashes |
| `RunsAnswerRejections`, `RunsEarnCompletion`, `RunsStayCancelled` | `AgentRunsProofs` | its three action properties: a rejection is closed by an answer; a completion is earned, or was recorded before; a recorded cancellation is undone only by an update in the step after its look at the run or by a refresh that loaded the run before |
| `ProgramImplementsLifecycle`, `ProgramVerdicts`, `ProgramKeepsVerdicts` | `AgentRunsProofs` | along the chain of refinements: the whole program implements `BatchLifecycle`, and has the coordinator's and the store's properties |
| `GraphSafe`, `GraphOutputIsFresh`, `GraphDeletedForever` | `SessionProofs` | the invariant and the two action properties of the session graph, with any number of processes, runs and revisions |
| `TranscriptSafe`, `TranscriptOutcome` | `SessionProofs` | a completed run has every message of its turn, for turns of any length and any number of restarts; an outcome stands against everybody but the update of `execute_run` that had seen the run open and the refresh that had loaded it open |
| `RouterSafe` | `StreamProofs` | the invariant of the router, for any threads, turns and capacities |
| `StreamImplemented` | `StreamProofs` | the router implements `TurnStream` |
| `ProcSafe` | `CodexProcessProofs` | the invariant of the process client, for any callers, calls and generations |
| `ThreadsSafe`, `ThreadsBound` | `AgentThreadsProofs` | a plane has one active thread, activated where it is loaded; a run with a turn keeps its thread; for any runs, checks, threads, generations and crashes |
| `VlmSafe` | `VlmTurnProofs` | a completed check was judged by the one submission of its completed turn and its evidence has no gap, for turns of any length |
| `EventsContiguous`, `EventsSafe` | `StreamProofs` | stored events are numbered without a gap and caches carry their numbers in order, for any processes, events and failed saves |
| `ArtifactsSafe` | `ArtifactsProofs` | what is deleted leaves no file and a lost file is noticed, for any artifacts, processes and crashes |

*Assumptions.* `StoreAssumption`: there is a VLM check, `None` is not an
identifier, the largest attempt is a natural number. `RouterAssumption` has the
check of `NotificationRouter::new` (a pending buffer fits into a channel).
`ThreadsAssumption` numbers the threads and keeps runs, checks and the user, who may
hold a lease, apart; `ArtifactsAssumption` does so for main thread, tasks and commands;
the other assumptions say of their constants what they are. Nothing is
assumed finite but what a bound counts.

*Store.* The inductive invariant is `StoreInv` itself, a conjunction of seven
named parts that need each other. That a claim is held only over a complete open
batch (`ClaimIsOnComplete`) gives, at settlement, that a settled batch is complete
(`EffectsFollowVerdict`); that is what makes a verdict final, because no check
operation is enabled on a complete batch. `RefinementAnswersRejection` carries
"applied means unowned", needed for `AppliedIsFinal`, since the guards of request
and bind test the owner and not the marker. `TokensExclusive` ties owners to
`issued`, without which a token could return (`LostClaimIsDead`). `AttemptsUnique`
is what "the newest attempt" means. `AbsentIsPristine` keeps a row from being
created with leftovers. The proofs go by operation, one leaf per conjunct an
operation can disturb; the action properties and the refinement reuse them through
lemmas on the shape of a step.

*Coordinator.* Every step of `CoordNext` is `[StoreNext]_storeVars`, which imports
the store's results. `CoordInv` adds to `StoreInv` the two facts that a task
relies on between two calls: an executor beyond its claim holds the token that the
row names (`ExecutorOwns`; the store's operations on other batches cannot touch
it, by `LostClaimIsDead` and the exclusiveness of tokens), and a settled row agrees
with its checks (`VerdictMatchesChecks`; a failed check is final on a complete
batch). Steps that write no row are treated once, as quiet.

*Runs.* The first step is the refinement: every `AgentNext` step is a step of the
coordinator, of its environment, or a stutter of its variables, so that `CoordInv`
and the store's action properties hold in the whole program. The properties of the
run itself are not inductive by far; `RunsInv` adds fourteen facts, in three groups.
Row and snapshot run along: whatever they hold is a run the process may fall back to
at a restart or an installation, so `QueuedIsNew`, `RunningTurn` and `LatestIsAnswered`
speak of `row` and `snap.run` as they do of `run`, and `CacheIsSound` of what a
snapshot knows (`SnapIsSound`).
(a) *Who works.* A modelling turn is due, is prepared, runs or is being concluded
(`Working`), or a verdict on the newest model is acted upon, never both:
`OneExecution` and `RunningTurn` say that there is one execution and whose turn it
runs, `OutdatedWhileWorking` that every task and executor left during it is of a
batch with a newer attempt, `ExecutorsOnLatest` that one past the check of
`latest_batch` is of the newest. What gateway and agent do in between is therefore
done to batches nobody acts on; and since the newest batch is unique, whoever acts
is alone, which gives the iteration numbers (`NumberIsNext`) and lets an executor
use what it read several steps ago (`ExecutorsFollowVerdict`).
(b) *What is known.* `NamesAreMade` and `CacheIsSound` say that cached batches exist
and that the cached output revision is theirs; without it `latest_batch`, which
reads the cache, and the row in the database could disagree when a task decides.
(c) *Who answers.* An open refinement is that of the newest model (`OpenIsLatest`),
the turn that confirms has it on its list (`TodoIsOpen`), the turn that made a batch
is over before its verdict is acted upon (`MakerIsPast`, on the history variable
`madeBy`), and while a turn is under way the newest batch is unsettled, answered or
open (`LatestIsAnswered`). The last one carries `CompletionIsEarned`.

*Session graph.* `GraphInv` needs two more facts. `LoadIsCovered`: the active
revision a load has read is one that the database has, and one that the load finds,
because it reads the revisions after the session that points to them.
`FreshIsStored`: a revision that a command will link is in the database.

*Transcript.* The strengthening orders everything on the way to the database: what
is in the route continues what the collector has (`QueueInOrder`), what it has
saved or holds back is a prefix without a gap while its route is open
(`CollectorInOrder`, `CollectorHasAll`), what a reading has saved is a prefix of
the history it read (`ReadersInOrder`), and the history of a turn that has
completed grows no more (`CompletedIsFinal`). That saving is idempotent per item
and keeps the order is one lemma, used by all three writers.

*Router.* `RouterInv` speaks of channels and idle threads; what makes it inductive
is what it does not say. `RoutesAreOwned`: every exact route, terminal mark and
pending route has the user of its thread for owner, and a connection that is down
left none of its turns' entries. `BufferInOrder`: a buffer that *can* be promoted,
because it holds notifications of its turn alone, holds the turn's beginning and
knows whether it has ended (a late notification of an earlier turn spoils the
buffer, and the promotion refuses it). `EndsAreMarked`: a route whose turn has ended
is marked, so that a repeated end never gets into a channel. `NewIsSilent`: a turn
that was not started has left nothing anywhere. The refinement maps each action to
one of `TurnStream` or to a stutter.

*Process client.* `CallsAreFresh` (what a caller is going to ask has not been asked)
makes the tables exclusive; `ServedWasWritten` ties what the app-server has read to
the request's fate: it can have failed only if the reader drained the table, so an
answer that finds no sender while the reader still reads belongs to a timeout.

*Threads.* `OneActiveThread` rests on who may retire and activate threads: the
holder of the plane's lease (`LeaseHoldsActive`: whoever holds it and has a thread in
hand has the plane's active one). `BoundOnActiveThread` adds that a run with a turn
either is the holder or blocks `validate_replacement_active_runs`, so that no other
holder replaces its thread. `ActivatedIsLoaded` is about generations: the ones in the
rows, in the manager's memory and with the leases are never ahead of the
connection's (`MemoryIsTrue`), so a new connection finds nothing that claims to be
loaded in it. `OneActiveThread` counts; the proof shows that two active threads are
equal and counts once.

*VLM turn.* The strengthening follows a notification from Codex to the record. While
the route is open, what was recorded, what was observed during an interrupt and what
is queued are together all that the turn has emitted (`NothingOvertakes`), each with
all that came before it recorded or in front of it; since a notification that cannot be
recorded ends the evaluation, the record has no gap. For the same reason the
notification that ends the turn finds every item recorded, looked at (`CollectorKnows`)
and not refused, and `held` is then the turn's only submission. A result taken from the
history is `Accepted` by the parser itself, and a turn that has completed begins and
ends no more items, so that it stays so (`ResultIsAccepted`).

*Run events.* The event that a process is saving is in no other cache, in no snapshot
and not stored (`HeldIsNew`), so its correction may be confined to its own cache
although the number changes. A snapshot is how the stream begins (`SnapshotIsPrefix`;
rows are only appended), so installing an old one loses events but no order. That numbers
do not run beyond their bound is a pigeonhole argument over identifiers. Sorting is
stable and written by ranks, so that what it does is a lemma about cardinalities
(`RanksAreNumbers`, `SortedIs`) and not an induction.

*Artifacts.* Only the main thread deletes (`DeletingIsGone`); a background task or a
command that has written a file is alone with it until its manifest is saved
(`WritersAreAlone`), so nobody else claims that file.
`LostIsBeforeDesk` sharpens "somebody will notice" to the main thread, which either is
in the middle of the deletion or has the artifact still before it in a verification
that expects its file; nobody else can take that away.

*Only model-checked*: the refuted promises of the runs listed in section 3, which no
proof could give, and liveness (`BatchesAreConcluded`, `VerdictEndsRun`,
`CollectorsWake`, `CallsReturn`, `LeaseIsReleased`, `RunEnds`, `CheckConcludes`), which
is beyond the prover together with `ENABLED`. Every invariant, every action property
and every refinement that a passing run checks is a theorem.

## 5. Not modelled

* *Errors of the database.* A claim whose owner gets such an error stays taken until
  the next start, like one whose owner dies, which is modelled; the gap in between
  is a hazard without a property. In `VlmTurn` the recording of an event may fail,
  in `SessionGraph` and `RunEvents` a save may.
* *Connection:* the diagnostics channels for global and orphan notifications,
  `shutdown`, the routing of approval requests (the policy refuses them).
* *Sessions:* archiving and its guards, import, more than one session.
* *Command line:* plan-commit, the read-only commands and the texts of the workflow
  guards. A turn that finalizes one revision and goes on with another is a hazard
  without a property.
* *Artifacts:* updates of hashes, exports, previews, files of deleted sessions.
* *Data or I/O:* geometry, slicing, rendering, prompts, report schemas, migrations
  of old rows, the evaluations that preceded batches, the front end. What the loop
  needs of them, a report or an error, is a choice in the model.

`PROJECT.json` says so for each component.

## 6. Plan

Done, in this order: the loop (`ValidationStore`, `BatchLifecycle`,
`ValidationCoordinator`, `AgentRuns`), what carries it (`NotificationRouter` with
`TurnStream`, `CodexProcess`, `AgentThreads`, `Transcript`, `VlmTurn`) and the
copies (`SessionGraph`, `RunEvents`, `Artifacts`); the proofs listed above.

Left:

1. Proofs: the step properties behind the liveness runs (what a fair step cannot
   undo), so that only the fairness argument itself is left to TLC.
2. `WorkflowGuards`: plan-commit, source-apply, finalize, and the order that the
   guards enforce on a turn.
3. Steps that fail in the middle of the coordinator's calls.
4. The composition of the router with the threads: a lease per route.
