# bucker in TLA+

bucker turns an objective into verified code changes. Everything a task does is an
event of an append-only stream; a task is planned by one model, worked on by another,
judged by verifiers, and retried, completed, halted or handed to a human by a pure
policy. Around that core stand a model gateway, a scheduler, graphs of tasks, a sandbox,
replay and benchmarks, several doors (HTTP, command line, MCP) and a desktop. This
directory holds TLA+ models of the parts where order, failure and concurrency decide
whether they are right, TLC configurations that check them on small instances, and
TLAPS proofs that nearly all of their safety properties hold for every value of the
constants.

Paths below are relative to the repository; those that begin with a package directory
are under `bucker/`. Run everything inside this directory:

    tlc -workers 2 -config EventLogSqlite.cfg MCEventLog
    tlc -workers 2 -config EdgeParts.cfg MCEdge
    tlapm EventLogProofs.tla

The other proof modules are `CodeTaskProofs`, `CodeTaskOutcomeProofs`, `GatewayProofs`,
`GraphProofs`, `LiveProofs`, `EdgeProofs` and `ServerProofs`; each is checked in a few
minutes.

## 1. Inventory of the system

| Component | Code | State it keeps | Operations | Module |
|---|---|---|---|---|
| Event store | `core/eventstore.py`, `core/events.py`, `lite/pool.py`, `migrations/` | table `events` (id, task, key, payload); the id sequence | `append`, `read_stream`, `count`, `last_event_id` | `EventLog`, `LiteStore` |
| State fold | `core/state.py` | none (pure) | `apply`, `rebuild_state` | in `CodeTask`, `Follow`, `Handoff` |
| Snapshots | `core/snapshots.py` | table `snapshots` (task, version, state) | `latest`, `save`, `get_state`, `rebuild_full` | `EventLog` |
| Followers | `core/watch.py`, `client.py`, `api/ws.py` | a cursor each | poll after the cursor, print or send, stop at a verdict | `EventLog`, `Follow` |
| Code task workflow | `workflows/code_task_workflow.py`, `lite/runner.py` | attempt, last verdict, cost, objective | plan, then rounds of guard, work, verify, decide | `CodeTask` |
| Pipeline activities | `activities/*`, `worker_agent.py`, `planner.py` | the workspace; events | plan, work, verify, decide, record | `CodeTask`, `Handoff`, `ReplyText` |
| Retry policy, budget, adaptive | `retry.py`, `core/budget.py`, `adaptive.py` | none (pure) | `decide`, `pre_spend_decision`, `choose_strategy` | `CodeTask` |
| Task control | `core/tasks.py`, `core/sweep.py`, `api/app.py` | `tasks.status` | create, reconcile, review, sweep, cancel | `TaskControl`, `Doors` |
| Graph tasks | `workflows/graph_workflow.py`, `activities/graph.py`, `contracts/graph.py`, `lite/runner.py` | results and failures by step | validate, waves, register and record steps | `Graph` |
| Demo tasks | `workflows/task_workflow.py`, `activities/demo.py` | marker files | numbered steps with an injected crash | `Demo` |
| Scheduling | `lite/scheduler.py`, `core/cron.py`, `core/schedules.py`, `workflows/scheduled_task_workflow.py` | table `schedules`; Temporal schedules | next fire, due, claim, run, pause, delete | `Schedules`, `Cron`, `RemoteSchedule` |
| Gateway | `gateway/*` | breakers, rolling stats, `gateway_usage`, the registry | plan, complete, stream, quota checks | `Gateway`, `Planning`, `InferenceStream`, `ToolWire` |
| Model router, blobs | `router/client.py`, `core/blob.py` | recordings by request digest, blobs by content | complete, stream, replay | `Archive` |
| Replay, memory | `replay/*`, `memory/*`, `bench/regression_gate.py` | copies of workspaces, facts, markers | replay, consolidate, gate | `Replay` |
| Benchmark, promotion | `bench/*`, `scripts/m2_gate.py` | workspaces, results, table `candidates` | run pairs, decide, score, promote, roll back | `Benchmark`, `Promotion` |
| Handoff | `core/handoff.py` | none | classify an interruption, build a pack | `Handoff` |
| Sandbox | `sandbox/*` | container or process, workspace | open, apply a diff, run, close | `Sandbox` |
| HTTP API, CLI, MCP, SDK | `api/*`, `cli.py`, `mcp/*`, `client.py` | terminal sessions | requests over the components above | `Doors`, `Follow`, `Terminal` |
| Local stack | `dev.py`, `setup.py` | containers, processes, ports | setup, dev | `Stack` |
| Desktop | `desktop/*`, `desktop_gateway/*`, `frontend/src/desktop/*` | agent, session, prompt, permissions, tabs | connect, prompt, permit, edit, save | `DesktopAgent`, `DesktopEditor`, `InferenceStream` |

How they interact:

- Everything about a task meets in two places, its **event stream** (shared, append-only,
  idempotent by key) and its **`tasks.status` row** (shared, last writer wins). No
  operation writes both in one transaction and nobody takes a lock.
- The workflow calls activities through Temporal, which retries them and may leave a
  timed-out try running; the in-process runner calls them directly, once. A graph's
  steps are tasks of their own, run as child workflows.
- Planner and worker call the **model router**, which calls the **gateway**; many
  requests share its breakers and its quota inside one `asyncio` process. What they are
  answered is archived and is what a replay is answered from.
- Doors, reconciler, sweeper, reviewers and schedules act on a task from other processes
  while its workflow runs; followers read the stream while it grows.
- The desktop's main process spawns a gateway and an agent, and the window talks to both
  through it.

What is hard here: exactly-once facts over at-least-once activities; two writes (event,
row) with a crash in between; check-then-act on rows, files, tables and descriptors; ids
drawn in one order and visible in another; a budget enforced from answers that may never
arrive; a breaker asked when a request is planned and not when it is sent; streams that
break after their first words; a dozen vocabularies for how a task ended; handlers that
await while others change what they read. `PROJECT.json` lists each with its line.

What makes each component correct:

- *Event store and snapshots*: a key names one fact and every caller gets that fact; an
  answered append is durable; a snapshot plus tail equals the whole fold; the SQLite pool
  binds and finds what the PostgreSQL text means.
- *Code task*: completed means verified; at most `max_retries + 1` rounds and every run
  ends; stream and workflow agree on attempts; one final decision, which stream and row
  both show; spending stays within budget plus one activity.
- *Task control and doors*: human verdicts only on escalated tasks; verdicts on the row
  have an event behind them; a registered task gets a workflow; what a door answers is so.
- *Graphs and schedules*: a step starts after what it depends on; the row is true of the
  steps; a slot runs once; a paused schedule rests.
- *Gateway*: an open breaker gets no new traffic; a caller never hears two models in one
  stream and gets one end; concurrent requests cannot run away with the quota; a plan
  keeps what was asked for.
- *Evidence*: a benchmark's conclusion rests on paired results; a replay's mismatch means
  that something changed; a handoff pack tells what was done.
- *Desktop and terminals*: the window is busy exactly while a prompt is pending; a save
  replaces what was read; a descriptor is its own session's.

## 2. Modules

| Module | Models | Checked by |
|---|---|---|
| `EventStream` | abstract: what the store promises (ordered, immutable, exactly-once facts) | `MCEventLog` |
| `EventLog` | `append`, `read_stream`, `get_state`, followers, on either backend; refines `EventStream` | `MCEventLog` |
| `EventLogProofs` | TLAPS proofs about `EventLog` | |
| `TaskLifecycle` | abstract: rounds, verdicts and the outcome a submitter is promised | `MCCodeTask` |
| `CodeTask` | the workflow (and in-process runner) with its activities, policy and budget guard; refines `TaskLifecycle` | `MCCodeTask` |
| `CodeTaskProofs` | TLAPS proofs about `CodeTask`: types, the row, the cost | |
| `CodeTaskOutcomeProofs` | TLAPS proofs about `CodeTask`: rounds, verdicts, outcome, refinement | |
| `TaskControl` | creation, reconciler, sweeper, reviewers, cancellation around a reduced workflow | `MCTaskControl`, `MCServer`, `MCLive` |
| `Gateway` | planning, breakers, quota, completions, streams and their consumers | `MCGateway`, `MCEdge` |
| `GatewayProofs` | TLAPS proofs about `Gateway` | |
| `Planning` | the registry and the filters and ranks of a plan | `MCEdge` |
| `InferenceStream` | one streamed request from wire to client, every way it goes | `MCEdge` |
| `ToolWire` | streamed tool calls chunk by chunk | `MCEdge` |
| `Graph` | a graph of tasks: waves, steps, verdict, row | `MCEdge`, `MCLive` |
| `GraphProofs` | TLAPS proofs about `Graph` | |
| `Cron`, `Schedules` | cron evaluation; the lite scheduler (extends `Cron`) | `MCEdge` |
| `RemoteSchedule` | a schedule kept by Temporal | `MCEdge` |
| `Demo` | the demo workflow and its injected crash | `MCLive` |
| `Follow` | when watch, wait, SDK, socket and pages stop, and what they say | `MCLive` |
| `Doors` | create, cancel, judge, rerun, schedules through API, CLI and MCP | `MCServer` |
| `Handoff` | what a pack says of an interrupted task | `MCServer` |
| `Replay` | replay of a task, consolidation, batches, the regression gate | `MCServer` |
| `Archive` | blobs and recordings written by several processes | `MCServer` |
| `LiteStore` | the SQLite pool behind PostgreSQL's text | `MCServer` |
| `Sandbox` | opening, applying diffs, timeouts, closing | `MCServer` |
| `Benchmark`, `Promotion` | paired runs and their decision; candidates and the active one | `MCServer` |
| `ReplyText` | how a model's reply becomes an object | `MCEdge` |
| `Terminal` | shells, their descriptors, sockets and panel | `MCEdge` |
| `Stack` | `bucker setup` and `bucker dev` | `MCEdge` |
| `DesktopAgent`, `DesktopEditor` | gateway, agent, prompt and permissions; a tab and its saves | `MCLive`, `MCEdge` |
| `LiveProofs`, `ServerProofs`, `EdgeProofs` | TLAPS proofs about the modules that `MCLive`, `MCServer` and `MCEdge` put together, and about the three compositions | |

Operators whose comment begins with `Mutant` are altered copies of the definition they
stand before: with the copy in its place the property named beside it in `PROJECT.json`
fails. They show that each property depends on the code it is about.

`MCLive`, `MCServer` and `MCEdge` each check several components that do not share state.
A variable `part`, picked in the initial state and never changed, says which of them
moves; the others rest in one of their initial states. The reachable states are
therefore the sum of what each component reaches and not their product, and every
property of a component is checked on all of that component's states.

### 2.1 EventLog

State: `events` is the table of one task's committed rows, `nextId` the `BIGSERIAL`
sequence, `writer` one `append` in progress per connection, `acks` (a ghost) what
`append` has returned, `snapshots` the cache, `reader` one `get_state` in progress per
caller, `watcher` a cursor and what it has delivered.

`append` is split where another connection can act: the INSERT draws its id
(`BeginInsert`), commits (`CommitInsert`) or meets the unique index (`SkipInsert`), looks
the original row up (`LookupExisting`) and answers (`ReturnEvent`). `SerialWrites` says
whether INSERTs exclude each other, which SQLite guarantees and PostgreSQL does not; with
it false, an id may become visible after a higher one. A caller may die anywhere
(`CrashWriter`, `CrashReader`). The fold is a pure function of the events in id order
(`core/state.py`), so a state is represented by the set of events folded into it.

Abstracted: payloads and states (values), the columns the fold ignores; SQL dialects are
in `LiteStore`.

### 2.2 CodeTask

`wf` holds the workflow's own variables; Temporal rebuilds them by replay, so they
survive crashes. An activity is a record in `execs` that moves one effect at a time: an
event appended, a model called, a diff applied, the row updated. `LoseTry` ends a try
between any two effects (an exception, a dead worker); `NextTry` schedules the next one
up to `MaxTries` (`RetryPolicy.maximum_attempts`), while the previous one may go on if
it merely timed out (`Overlap`). Only the answer of the latest try counts. `Append`
ignores an event whose key the stream already has and folds the others (`folded`).
`workspace` is what the applied diffs have made of the files; whether a diff makes them
good is chosen freely, and a verifier reads the files as they are. `spent` (a ghost) is
what providers have charged; `wf.cost` is what the workflow has been told.

`Lite` turns the workflow into `lite/runner.py`: one try, errors of `record_decision`
suppressed, a process nobody resumes.

Abstracted: model contents, prompts, critique and repair (`CallWorker` is one charge for
all calls of `execute_task`), `ModelCallCompleted`/`SchemaValidationFailed` events and
telemetry (they change no status), memory consolidation (in `Replay`) and notifications
(their errors are suppressed and nothing reads them back), the objective an adaptive step
rewrites, and which strategy is chosen.

### 2.3 TaskControl

`row` is `tasks.status`; `recorded` and `status` are the stream and its fold;
`runner` is the workflow reduced to what the others see: it runs, records a verdict,
updates the row, closes (CodeTask has the rest). Each other actor is a small program
whose steps are the separate writes of the code, so every order of writes is explored;
`CreatorDies` and `ReviewerDies` stop one between two writes. `Paths` stands for which
attempts of a run fail: workflow keys contain the attempt, so a second run of the same
task only adds events where it goes another way. Minutes are abstracted to `OldEnough`:
registration is over when a row is old enough for the reconciler or the sweeper.

### 2.4 Gateway, Planning, InferenceStream, ToolWire

`Gateway`: `breaker` is one `CircuitBreaker` per model (`ripe`: `open_for_s` has passed),
`ledger` today's usage rows of models with a `daily_limit`, `req` the requests. The
process is single-threaded: `Resumes` lets a request act only when no other is between
two awaits, so plans and attempts interleave exactly at the awaits (the quota query, the
provider, the usage INSERT, a planned stream handed to the server). The ranking is an
arbitrary order of the eligible models. `LeaveAtUsage` is `ModelRouter.stream_complete`,
which returns at the usage event and closes the stream before it records anything.
`stale` (a ghost) counts attempts sent to a model since its breaker opened.

`Planning` is the ranking `Gateway` leaves open: `registry` is filled by
`ModelRegistry.default` and by each router, a request's hard requirements filter it, the
policy and priority rank it, the model asked for comes first. The result of circuits,
keys and quota is an arbitrary set (`out`). A price or a latency that nobody knows is
`float("inf")` in the code and comes last here because its key is a pair (`Known`).

`InferenceStream` follows one request through the adapter, the engine and one of the two
consumers: status codes, timeouts, broken connections, odd chunks, empty answers,
failover before and failure after the first words, clients that leave, and the record
each consumer writes. `ToolWire` follows the fragments of streamed tool calls, which may
interleave, through the same layers to a client that concatenates.

Abstracted: tries inside one candidate (their outcome is the candidate's), latencies
except as an order, rolling statistics and the `balanced` policy that reads them, an
unreachable ledger (the gateway then ignores quotas by design), restarts (the breakers
are in memory), request bodies.

### 2.5 Graph

`graph` is the workflow (or `run_graph_task`, `durable = FALSE`), `step` each step's task,
`marks` the `GraphStepCompleted` events, `graphStatus` their fold, `graphRow` the row.
The spec is drawn when the graph is created: any dependencies, including unknown and
cyclic ones, which `validate_graph` must refuse. A child is reduced to its verdict. A
registration may succeed and its answer be lost, after which it is tried again and a
second task registered; a child may raise; the in-process runner may die. With
`GraphReconciles` the reconciler takes pending rows of graphs and steps and starts them as
what it believes they are.

### 2.6 Cron, Schedules, RemoteSchedule

`Cron` evaluates expressions on a calendar scaled down by constants; instants are half
minutes, so that an instant inside a minute exists. `Schedules` has the rows, the one
loop that reads what is due, claims each row and makes its task, the endpoints that pause,
resume, re-create and delete between its awaits, and a server that goes down. `ran`,
`again` and `quietSince` are ghosts: the last slot run, whether one ran twice, since when
a schedule rests. `RemoteSchedule` is one firing of a Temporal schedule: the registration
that is retried without a key, and the child.

### 2.7 Follow, Doors, Handoff

`Follow`: the task appends its events as the code does and each follower (`watch`, `wait`,
the SDK's `wait_for_task` and `iter_events`, the browser's socket) polls with its own
vocabulary of ends. `Doors`: `doorRow`, `said` (the last status of the stream) and `flow`
(the Temporal workflow or the asyncio task) of each task, `schedules`, and `answer`, what
the last request was told; Temporal comes and goes, lite mode has none. `Handoff`: the
worker and verifier activities write their events, die anywhere and are run again, and a
pack can be built of every stream they leave.

### 2.8 Replay, Archive, LiteStore, Sandbox

`Replay`: `oracle` fixes once which diffs land and which trees are green, so that a
replay repeats the original exactly unless a prompt (memory), a recording or a directory
has changed. `Archive`: callers in several processes make the same call; a file is
written under a temporary name shared by all writers of that file, then renamed, and
anyone may die in between (`clashed` is a ghost: two had it open). `LiteStore`: placeholders
reordered by their first use, dates as texts, values guessed back from texts. `Sandbox`:
a diff of sections with or without headers and prefixes goes through `git apply`, `patch
-p1` and `patch -p0`; a command that times out may still take effect; a container that
fails to go away stays.

### 2.9 Benchmark, Promotion

`Benchmark` runs each instance once with bucker and once with the baseline loop over the
same workspace, then logs, evaluates and decides; the process may die or be interrupted
(`LoseRun`). The statistics are checked against the exact binomial test for every pair of
counts up to `StatSpan`. `Promotion`: every statement commits by itself and promoters
overlap.

### 2.10 Demo, ReplyText, Terminal, Stack, DesktopAgent, DesktopEditor

`Demo`: tries time out or die anywhere (`DemoFaults` times) and go on beside their
successors; one process is killed between effect and record. `ReplyText`: the
text is every sequence of characters up to `ReplyLength`; `json.loads` (`Reading`) and the
scan of the repair (`Scanning`) are functions of the number of characters read.
`Terminal`: the descriptor table of the process (`owner`) is part of the state because
closing and opening reuse numbers while a thread is inside a system call. `Stack`: two
terminals on one machine run `setup` and `dev`. `DesktopAgent`: one state per await of
the main process, an agent that may answer, ask, stay silent or exit, and the card the
window shows. `DesktopEditor`: a tab, overlapping saves, and other programs that write.

## 3. Runs

Runs that must pass:

| Run | Instance | Shows |
|---|---|---|
| `EventLogSqlite` | 2 writers, 2 readers, 1 follower, 1 key, 3 ids, serial writes, fair follower | `SnapshotExact`, `GetStateExact`, `NoEventBehindCursor`, `EventuallyDelivered`; refinement of `EventStream` (`ImplementsStream`) |
| `EventLogPostgres` | 3 writers, 2 keys, 2 payloads, 4 ids, overlapping writes, crashes | `ExactlyOnce`, `AcksDurable`: idempotency does not depend on serial writes |
| `CodeTaskRetries` | 1 retry, 2 tries, one overlapping try | `AttemptsAgree`, `RowFollowsStream`, `OneFinalDecision` |
| `CodeTaskCrashes` | 1 adaptive retry, 2 tries, deadline, budget, uneven and unpriced calls, fair | `CompletedIsVerified`, `VerdictsAreTrue`, `EndIsRecorded`, `EventuallyCloses` |
| `CodeTaskLite` | in-process runner, 2 retries, recordings with and without price, budget, deadline | `OverrunBounded`; refinement of `TaskLifecycle` (`ImplementsLifecycle`) |
| `LiveParts` | graph, desktop agent, followers, demo, registration of a task; fair | see below |
| `ServerParts` | benchmark, promotion, replay, archive, SQLite pool, handoff, doors, sandbox, task control | see below |
| `EdgeParts` | streams, tool calls, plans, gateway, replies, terminals, stack, editor, schedules, graph | see below |

`LiveParts` (about 130 000 states):

| Property | Of | Says |
|---|---|---|
| `ReportsAreRight` | `Follow`, `DesktopAgent`, `Graph` | watch says what it printed, a verdict a follower was given stands, pages miss nothing; the window is busy exactly while a prompt is pending; the graph's order and row as below |
| `DemoIsDurable` | `Demo` | each step has its effect and its event once, the injected crash kills once, the row follows |
| `GraphConcludes` | `Graph` | a graph that began ends |
| `DesktopSettles` | `DesktopAgent` | a prompt is given back and a connection attempt ends, whatever the agent does |
| `EverybodyIsTold` | `Follow`, `Demo` | watch, wait and SDK end after a code task's verdict; a demo task ends |
| `EventuallyStarted` | `TaskControl` | a registered task gets a workflow |

`ServerParts` (about 970 000 states):

| Property | Of | Says |
|---|---|---|
| `MeasurementIsSound` | `Benchmark`, `Promotion` | results are paired and each names a tested diff; PROCEED by the approximate test is confirmed by the exact one; never more active candidates than promoters |
| `EvidenceIsSound` | `Replay`, `Handoff` | a mismatch means that something changed; what a pack calls safe or done is so |
| `StorageIsFaithful` | `Archive`, `LiteStore` | files are whole unless two writers clashed; arguments reach their placeholders, what is found is old enough |
| `DoorsAreHonest` | `Doors` | what a door says was done has been done; no task is lost |
| `SandboxHonest` | `Sandbox` | an edit that is reported applied is in the files; containers go away |
| `HumanJudgesEscalated`, `RowIsHonest` | `TaskControl` | human verdicts only on escalated tasks; a verdict on the row has its event, and row and stream agree when all is quiet, as far as writers without a lock can keep it |

`EdgeParts` (about 820 000 states):

| Property | Of | Says |
|---|---|---|
| `StreamIsHonest` | `InferenceStream` | the desktop gets one end and nothing after it; the ledger says the same as the client heard |
| `PlansAreRight` | `Planning` | a plan keeps the request's requirements and the configured order |
| `TextsAreKept` | `ReplyText`, `ToolWire` | JSON that loads is not touched, a repair is final, tool calls arrive whole |
| `ProcessesAreKept` | `Terminal`, `Stack` | open descriptors are those of the sessions, one each; a stack is complete while it serves and gone afterwards |
| `FiringsAreSound` | `Schedules`, `RemoteSchedule`, `Cron` | no slot runs twice; a firing leaves at most as many tasks as its registration has tries; `next_fire` is the first firing |
| `GraphIsSound` | `Graph` | a step begins after its dependencies ended and were recorded; the row is true of the steps |
| `OpenIsNearlyQuiet`, `OneVoice`, `QuotaOverrunBounded` | `Gateway` | an open breaker gets only attempts planned before; one model's words per stream; the quota is overrun by less than the requests in flight |
| `SaveReplacesWhatWasRead` | `DesktopEditor` | a save replaces the content it was based on |
| `PauseHolds` | `Schedules` | a schedule paused or deleted runs at most what was already due |

Runs whose property is a sentence of the sources that the code does not keep:

| Run | Property | What happens |
|---|---|---|
| `EventLogStaleSnapshot` | `SnapshotExact` on PostgreSQL | an append that drew a lower id commits after a snapshot was saved; `get_state` never folds it |
| `CodeTaskUnpriced` | `UnpricedIsHarmless` | a reply without a price makes `cost_usd` add `None` to a float, so the task fails with no budget set |
| `TaskControlRerun` | `RestartsOnlyUnstarted` | the row of a cancelled (or running) task is still `pending`, and the reconciler starts it again |
| `GatewayLostProbe` | `ProbeInFlight` | the half-open probe is spent while planning and lost when the request leaves without an outcome for that model; the breaker stays half open for good |

### 3.1 Sentences of the sources without a run

The modules state further sentences of this kind, each with its reason in the comment
above it. TLC finds each violated (constants as in the run of the module, unless named);
they are kept because they say what a repair would have to restore.

| Module | Statement | The code |
|---|---|---|
| `CodeTask` | `ApplyOnce`, `TerminalIsLast`, `SpendBounded` (prices 1 and 2), `ClosedRowIsTerminal`, with `MaxRetries = 0`, `MaxTries = 2` | a try that dies between effect and record repeats the effect, the charge, or leaves the row behind |
| `CodeTask` | `EndIsRecorded` with `Lite = TRUE` or `Overlap = 1` | suppressed errors; a planner try that timed out still records `TaskFailed` |
| `EventLog` | `NoEventBehindCursor` with `SerialWrites = FALSE` | a lower id becomes visible after the cursor passed it |
| `TaskControl` | `SweepsOnlyActive`, `ScheduleFailedNeverRan`, `ReviewAgrees`, `CancelIsRecorded` | check-then-act on the row; a start whose answer is lost; two reviewers; cancelling records nothing |
| `Graph` | `CompletedGraphRanSteps` | the reconciler restarts a graph as a plain code task |
| `Schedules` | `NoSlotSkipped` | `next_fire` keeps the seconds of `after`, and the slot at the next whole minute is passed over |
| `DesktopAgent` | `AgentUsesCurrentKeys`, `ConsentIsForWhatWasShown`, `GatewaysAreStopped` | an agent that is being connected while a connection is edited gets the old gateway; a card outlives its agent and answers the next agent's request of the same id; a gateway started twice, or one that misses its deadline, is left behind |
| `DesktopEditor` | `CleanTabIsSaved` | typing while a save is awaited is marked clean by its answer |
| `InferenceStream` | `InterruptionIsSaid`, `ApiEndsOnce`, `EngineNeverRaises` | the reason of a broken stream is replaced in the finally block; the finish of an empty answer is passed on before the next candidate; a choice that is no object raises |
| `ToolWire` | `NamesArriveOnce` | `api/gateway.py` repeats the name on every chunk |
| `Benchmark` | `BaselineStartsClean`, `WinningDiffIsTheChange`; `PairsAreAligned` with `BenchInstances = 3` | a workspace at the base commit is not cloned again, and applied diffs are not commits; only the last diff is reported; each side drops its own errors before pairing |
| `Promotion` | `OneIsActive`, `PromotionFlips`, `ScorerAnswers` | two statements without a transaction; `max()` over no failure reasons |
| `Replay` | `ReplayReproduces`, `ReplayUsesItsCopy`; `OneFactPerTask` with two consolidators | memory and files are read as they are now; the copy is named by the task alone; the marker is checked first and set last |
| `Archive` | `BlobsAreWhole` | two writers share the temporary name |
| `LiteStore` | `OldAreFound`, `ReadsWhatWasStored` | a text date with T sorts after one with a blank; a JSON text comes back as an object |
| `Sandbox` | `SuccessIsReal`, `FailureLeavesNothing`, `NothingComesLate`, `OwnDirectoriesStay` | `patch -p0` creates `b/`, which is removed; sections apply one by one; commands outlive their timeout; a project's own `a/` is removed too |
| `Terminal` | `CallsReachTheirOwn`, `NoSocketWithoutPanel`, `ClientsAreTold` | descriptors are reused under a thread; a session that arrives after its panel closed opens a socket; the handler waits for a key after the shell is gone |
| `Follow` | `SocketCloses`, `SocketTellsTheVerdict`, `SocketsAreForgotten`, `GraphWatchEnds`, `ClientVerdictStands` | the socket looks for a `status` that verdict events do not carry; graph ends are not in watch's list; a task whose schedule failed may run later |
| `Handoff` | `SafeIsBetweenTurns`, `BoundariesAreSafe` | between the recorded calls and the result of an attempt the advice is "safe"; a tool call announced by a try that died, and not repeated by the next, stays open past the verdict |
| `Doors` | `OneAuditTrail`, `UnreachableIsUnreachable`, `FailedMeansUndone` | `bucker start` records nothing when Temporal refuses; a missing schedule or a refused expression reads as Temporal's absence; cancelling an in-process task ends it and answers with an error |
| `Stack` | `OneWorker`, `OverLeavesNoBox` | the worker has no port to probe; the container is left |
| `Demo` | `DemoFailureIsSaid` | used-up tries end the workflow without an event |
| `ReplyText` | `SpanIsFound` | a whole text that loads, or repairs, to something else than an object ends the search before its braces are tried |

Met while modelling and not a property of any module: `local_first` of a request is never
read; `now()` in the quota query is not translated for SQLite; the digest of a request
leaves its tools out; a benchmark that is killed loses its log, which is written once at
the end; re-creating a paused schedule resumes it; `rerun` starts a graph again as a code
task; cancelling through MCP needs Temporal in lite mode; `int(max_retries or 2)` turns
zero retries into two; `snapshots.version` is a 32-bit column for a 64-bit id.

## 4. Bounds

- `EventLog`: `MaxId` ids may be drawn. Three let one id be below a snapshot, one in
  flight and one above it; with `SnapshotInterval = 2` a saved snapshot needs two.
- `CodeTask`: `MaxRetries`, `MaxTries`, `Overlap`. Two retries are the code's default and
  give a first, a middle and a last attempt; where tries can die as well one retry gives
  a first and a last; two tries are the smallest number in which a lost try is followed
  by another (the code allows three); one overlapping try is enough for every pair of
  effects of two tries to be swapped. Prices are 0, 1, 2 or unknown against a budget of 3
  or 4, small enough for each ceiling to be reached: the guard's and the policy's.
- `TaskControl`: `recorded` is finite; `starts` stops counting at 2. The loops of the
  reconciler and the sweeper are unbounded. `ServerParts` has two reviewers and no
  cancellation (a cancelled task that the reconciler starts again multiplies the states by
  eight), `LiveParts` and `TaskControlRerun` one reviewer and cancellation; the proofs are
  about both together.
- `Gateway`: `failures` stops counting at `Threshold`, `stale` just above the number of
  requests. Requests begin again and again; two at a time are enough for a plan to be
  stale, a quota check to be raced and a probe to be refused.
- `Planning`: four models, one of each kind the code tells apart (local, free, priced,
  unknown), chains of up to two (`ChainLength`) and one ceiling that only a price exceeds
  (`Ceilings`). `InferenceStream`: two candidates (one to fail over to) and `MaxDeltas = 2`
  (something before and after a failure); `Replies` has one of each class of
  `_map_error`. `ToolWire`: two calls that interleave over `WireChunks = 5`.
- `Graph`: three steps in `EdgeParts` (chains, forks, joins, cycles, an unknown
  dependency) without the reconciler (`GraphReconciles = FALSE`), two in `LiveParts` with
  it, where a second task per step multiplies the states.
- `Schedules`: two schedules, `Horizon = 4` half minutes (two slots of a minutely
  schedule), one restart (`MaxDowns`); hours of `MinutesPerHour = 2` minutes, days of one
  hour, months of two days, weeks of three days. `Cron` is checked for all instants up to
  `CronSpan = 51`, more than two of its years, so that every combination of day of month
  and day of week occurs. `RemoteTries = 3` is the code's number.
- `DesktopAgent`: `MaxEdits`, `MaxAgents` = 2 and one permission id: an agent, its
  successor, and a connection edited under each. `DesktopEditor`: three contents, two
  saves: typed before, during and after a save, and two saves that overlap.
- `Follow`: `MaxWork = 2` events of work and pages of two, so that a page is full, partly
  full and empty. `Demo`: two steps, three tries (the code allows five), two faults: with the
  injected crash they can use up the tries of a step.
- `Replay`: two attempts, two replays of the same task, one consolidation. `Archive`: two
  processes, two replies, three calls. `LiteStore`: three arguments, days of three ticks.
  `Handoff`: three attempts, two crashes. `Doors`: two tasks, one schedule. `Sandbox`:
  two files, two sections, two attempts over one workspace.
- `Benchmark`: two instances, two iterations; its thresholds are scaled
  (`FewInstances` for 5, `ManyDiscordant` for 25), so that every branch of the decision is
  reached; the corrected chi-squared test is compared with the exact one for every split
  of up to 12 discordant pairs. `Promotion`: three candidates, two
  promoters.
- `ReplyText`: every text of up to five characters of eight kinds, enough for a string
  with a quote inside, for an escape, for white space on either side of a quote, and for a
  brace or a comma behind it. `Terminal`: two
  sessions and two descriptors, so that a number is given out again. `Stack`: two terminals
  and one restart of the machine.

## 5. Fairness

- `EventLog`: weak fairness of `Poll`. A follower polls on a timer while it is connected.
  Nothing is assumed of writers.
- `CodeTask`: weak fairness of the workflow's steps (Temporal schedules tries until they
  are used up) and of the steps of running tries (a try that is not lost goes on). Losing
  a try is never required.
- `TaskControl`: weak fairness of the steps of calls that are not killed, of the workflow
  and of the reconciler's loop; strong fairness of `Restart`, that is, Temporal answers
  often enough for a start to succeed. Without it the claim is false and no code could
  make it true.
- `Graph`: weak fairness of the workflow and of each step's child: a worker is up, and
  children end (`EventuallyCloses` of `CodeTask`). Nothing is asked of the reconciler.
- `DesktopAgent`: weak fairness of continuations (what was awaited resumes) and of the
  timers of `acp.ts`; nothing is asked of the agent or of the user.
- `Follow`: weak fairness of each poller (a loop with a sleep). Nothing of the task, of a
  human or of the browser.
- `Demo`: weak fairness of `DemoProgress`: Temporal schedules tries and a try goes on.
  Faults are bounded and never required.

## 6. Proofs

Every safety property of the passing runs is a theorem, for all values of the constants
that the modules' assumptions admit, except those named at the end of this section. Each
proof has the same shape: the property is not inductive, a strengthening of it is, and
the proof that a step keeps the strengthening has one step per action. TLC agreed with
each strengthening on an instance before it was proved.

### 6.1 Event log (`EventLogProofs`)

For any sets of writers, readers, followers, keys and payloads, any snapshot interval and
any `MaxId`:

| Theorem | Statement |
|---|---|
| `Typing` | `Spec => []TypeOK` |
| `AppendExactlyOnce` | `Spec => []ExactlyOnce`, on both backends |
| `AcksAreDurable` | `Spec => []AcksDurable`, on both backends |
| `SnapshotsExact` | `SerialWrites => (Spec => []SnapshotExact)` |
| `GetStateIsExact` | `SerialWrites => (Spec => GetStateExact)`, an action property |
| `CursorsExact` | `SerialWrites => (Spec => []NoEventBehindCursor)` |
| `StoreImplementsStream` | `SerialWrites => (Spec => ImplementsStream)` |

`ExactlyOnce` is not inductive: nothing in it says that an id in flight is free, or that
what an append is about to answer is committed. `LogInv` adds that (`IdsFresh`,
`FactsUnique`, `AnswersCommitted`). The claims about snapshots and cursors need
`SerialInv`: the one INSERT in flight has an id above everything visible
(`InFlightOnTop`), so a commit never changes a prefix of the stream, and every snapshot,
reconstruction and cursor stands at an event and holds the stream up to there
(`PrefixesExact`). The refinement follows from `InFlightOnTop` and the conflict check: a
commit is a `Record` step, everything else stutters. `GetStateExact` follows from
`PrefixesExact` before the step and the lemma `TailCompletes`: a prefix and the tail
behind it make the whole stream. Without `SerialWrites` three of these are false, as the
run `EventLogStaleSnapshot` and section 3.1 show.

### 6.2 Code task (`CodeTaskProofs`, `CodeTaskOutcomeProofs`)

For any number of retries, tries and overlapping tries, any prices of which one is
highest, any budget and estimate, with or without faults, and, where no hypothesis says
otherwise, for the workflow as for the in-process runner:

| Theorem | Statement |
|---|---|
| `CodeTaskTyping` | `Spec => []TypeOK` |
| `RowNeverAhead` | `Spec => []RowFollowsStream` |
| `CostBounded` | `Spec => []OverrunBounded` |
| `TaskImplementsLifecycle` | `Spec => ImplementsLifecycle` |
| `FinalDecisionUnique` | `Spec => []OneFinalDecision` |
| `RetriesAgree` | `~Lite => (Spec => []AttemptsAgree)` |
| `VerdictsHold`, `CompletionIsVerified` | `Overlap = 0 => (Spec => []VerdictsAreTrue)`, the same of `CompletedIsVerified` |
| `OutcomeIsRecorded` | `Overlap = 0 /\ ~Lite => (Spec => []EndIsRecorded)` |

`TypeOK` is not inductive: that an attempt number is a legal index and that a decision has
been taken when it is recorded depends on where the workflow and its tries are (`InStep`).
`RowFollowsStream` needs `RowIsDue`: a try that stands before its second write has made
its first, which no other try can undo because the stream only grows. `OverrunBounded`
needs `WorkFits`, what the guard established when work was started and what no try, dead
or late, can change before its answer is accounted for.

`RoundInv` says what the workflow knows at each place of a round; with it every step of
the program is one of `TaskLifecycle` or stutters. `DecisionInv` says that a final
decision, in a try or in the stream, is the one that the workflow has taken, so that a
second one cannot differ from it. `RetryInv` counts the retries in the stream against
those of the workflow; a late try can only repeat one that was counted. `VerdictInv` ties
the verdict that the workflow holds to the files as its verifier saw them, and `EndInv`
the outcome to the event and then the row.

The hypotheses are those of the runs, and each is needed: TLC finds counterexamples
without it. A try that outlives its timeout (`Overlap > 0`) may change the files after
they were judged and may record an end after its successor; the in-process runner
suppresses the errors of `record_decision`, so that neither the retries nor the end need
be in its stream. With `Overlap = 0` the lemma `Alone` holds: the one try there is is the
one that the workflow waits for.

### 6.3 Gateway (`GatewayProofs`)

For any finite set of requests, any models, limits and thresholds, with or without
cancellation: `GatewayTyping`, `BreakersCount` (`ClosedBelowThreshold`),
`CallersHearOneModel` (`OneVoice`), `OpenBreakersAreQuiet` (`OpenIsNearlyQuiet`) and
`QuotaOverrun` (`QuotaOverrunBounded`).

`PlacesInv` says where a request is and whom its caller has heard. The two bounds are
counting arguments. `QuietInv`: while a breaker is open, the attempts since it opened and
the requests that still have the model in their plan are together fewer than the
requests; nobody new plans on it, and each attempt uses up one plan. `QuotaInv`: once the
limit is reached, what is recorded and what the requests that passed the check may still
record stay below the limit plus the number of requests. The lemmas `PlannedByTurn` and
`HoldersByTurn` say which steps a set of requests can grow by.

### 6.4 Graphs (`GraphProofs`)

For any finite set of steps and any dependencies, known or not, durable or in process,
with the reconciler or without, failing fast or not:

| Theorem | Statement |
|---|---|
| `CyclesAreFound` | Kahn's loop lists every step iff no set of steps waits for itself |
| `RunnableHasReady` | in an accepted graph a step is always ready, and the wave is what is ready: the cycle breaker of `topological_waves` never fires |
| `GraphsAreSound` | `GraphSpec => []GraphIsSound` |

The loop of `validate_graph` is a recursive function over the number of turns. `Counts`
is what holds before each turn; that it holds after every turn follows from a least
counterexample, with the well-foundedness of the natural numbers as a fact about sets.
`SourceInv` (what a step, its events and the row come from), `WavesInv` (the wave of a
step, what lies behind it, what failed) and `VerdictInv` (event and row of the graph at
its end) make `GraphIsSound` inductive.

### 6.5 Live parts (`LiveProofs`)

| Theorem | Statement | Strengthening |
|---|---|---|
| `FollowersHearTheTruth` | `FollowSpec => []FollowersAreRight` | `FollowInv`: once a verdict is in the stream it is the status, but for a human's word after an escalation |
| `WindowIsHonest` | `DesktopInit /\ [][DesktopNext]_desktopVars => []BusyWhilePending` | `PromptKnown`: agent, prompt and window at each await |
| `DemosAreDurable` | `DemoSpec => []DemoIsDurable` | `TryInv`, `FailedInv` and `StreamInv`: each try that is gone was lost to a fault or to the one crash; what a try has done is in the stream and in the files, in order |
| `ReportsRight`, `LiveDemosAreDurable` | `LiveSpec => []ReportsAreRight`, `LiveSpec => []DemoIsDurable` | the above and `GraphsAreSound` |

The fold of a stream is a function over its length: `FoldExists` and the lemmas after it
prove, again with a least counterexample, that it exists and what an event appended does
to it.

### 6.6 Edge parts (`EdgeProofs`)

| Theorem | Statement | Strengthening |
|---|---|---|
| `SavesReplaceWhatWasRead` | `EditorSpec => SaveReplacesWhatWasRead`, an action property | `EditorInv`: one save at a time is at the disk, its temporary file is its own |
| `SlotsRunOnce`, `PausesHold` | `ScheduleSpec => []SlotRunsOnce`, `ScheduleSpec => PauseHolds` | `ScheduleInv`: of a schedule the last slot run, the one claimed, the clock and the next one come in this order (`SlotInv`); what is pending of a quiet one was due before (`QuietInv`) |
| `NextFiresAreFirst` | `ScheduleSpec => []NextFireIsFirst` | the lemmas about instants and their parts, for any sizes of minutes, hours, days and months |
| `ScheduledTasksAreFew` | `RemoteSpec => []ScheduledTasksBounded` | `RemoteInv` |
| `StacksAreKept` | `StackSpec => []StackIsKept` | `StackInv`: what each terminal owns and has found at each step of the command |
| `DescriptorsAreOwned` | `TerminalSpec => []DescriptorsAreSessions` | `TerminalInv`: sessions and descriptors are each other's |
| `StreamsAreHonest` | `StreamSpec => []StreamIsHonest` | `StreamInv`: the loop is at the one candidate whose words were passed on (`SpeakerInv`); nothing ends the stream before its record (`EndingInv`) |
| `CallsAreWhole` | `WireSpec => []CallsArriveWhole` | `WireInv` |
| `PlansAreKept` | `PlanningSpec => []PlansAreRight` | `PlanInv`: how the ids of the registry came there (`Registered`) and what the plan is made from (`PlanMade`) |
| `RepliesAreKept` | `ReplySpec => [](ValidIsUnchanged /\ RepairIsFinal)` | none: both are about the text, which stays; `LoadedIsUnchanged` and `RepairedIsFinal` say them of every sequence of letters |
| `ProcessesKept`, `FiringsSound`, `EdgeStreamsAreHonest`, `EdgePlansAreKept`, `TextsKept` | the same of `EdgeSpec` | the above |

`PlansAreKept` rests on `RankSorts`: the place of a model in a plan is one more than the
number of models that rank before it. Ranks form a strict total order because no two ids
are born together, so that this gives every model a place of its own and the plan lists
each once, in order.

`RepliesAreKept` is about two automata over one text. `ScanFollows`: on JSON that loads,
the scan is inside a string exactly when `json.loads` is, meets no quote that does not
close a string, finds no comma missing, and has copied what it read. `RepairStep`: on any
text, the scan of what the scan of `t` put out comes by the states of the scan of `t` and
copies, because what is put for a character is read back as it is meant, whatever follows
it. Both functions are shown to exist, and to go on from one character to the next, before
anything is said of them (`ReadingGoesOn`, `ScanningGoesOn`).

### 6.7 Server parts (`ServerProofs`)

| Theorem | Statement | Strengthening |
|---|---|---|
| `ControlTyping`, `HumansJudgeEscalations`, `RowsAreHonest` | of `TaskControl`: `[]TypeOK`, `[]HumanJudgesEscalated`, `[]RowIsHonest` | `SourceInv`: whoever is about to write the row has recorded what it will write; `PhaseInv`: how far the only run and the only review have got |
| `DoorsHonest` | `DoorSpec => []DoorsAreHonest` | `DoorInv` |
| `SandboxesAreHonest` | `SandboxSpec => []SandboxHonest` | `SandboxInv`: a container that may be there is one that a docker command lost |
| `FilesAreWhole` | `ArchiveSpec => []OnlyClashesTear` | `ArchiveInv`: a file whose temporary was never shared has one writer, which renames it when it is written in full |
| `PoolIsFaithful` | `LiteSpec => []LiteFaithful` | `LiteInv`; a later day is a later minute |
| `MismatchesMeanChange` | `ReplaySpec => []MismatchMeansChange` | `ReplayInv`: what is recorded is in the workspace (`TaskInv`), and a replay left alone has the files of the original (`LeftAlone`) |
| `HandoffsAreSound` | `HandoffSpec => []HandoffIsSound` | `HandoffInv`: the log goes by attempts, the verdicts in it are those there are, a change was announced |
| `BenchmarksArePaired` | `BenchSpec => []ResultsArePaired` | `BenchInv`: how long each list is at each stage |
| `FewAreActive` | `PromotionSpec => []ActiveAreFew` | `PromotionInv`: active rows are at most the promoters at rest |
| `EvidenceSound`, `StorageFaithful`, `ServersAreHonest` | `ServerSpec => []EvidenceIsSound`, `[]StorageIsFaithful`, `ServerSpec => [](DoorsAreHonest /\ SandboxHonest /\ HumanJudgesEscalated /\ RowIsHonest)` | the above |

### 6.8 Compositions, induction, assumptions

`LivesAreParts`, `EdgesAreParts` and `ServersAreParts` say that a step of a composition is
a step of the part that `part` names and leaves the variables of the others as they are.
The theorems about the compositions follow: each is what its run checks, without the
run's bounds. (`Gateway` and `Graph` are proved about by themselves: in `EdgeParts` they
take the same steps.)

The prover cannot instantiate the induction theorems of its library. Where an induction
is needed (Kahn's loop, the fold of a stream, the latest verdict of a log, the first
firing, the two readings of a text) the proof takes the least number for which the claim fails, which exists because
`<` on the natural numbers is well founded, and refutes it.

The assumptions are those the modules state, each under the constants it is about. Most
say of a bound that it is a natural number. The others: `SomePriceIsHighest` gives
`MaxPrice` a meaning; requests, reviewers, replayers, promoters, sessions and steps are
finite sets; the names of a model's answers, of terminals and of replayers are none of
the names that the modules use themselves (`ArchiveAssumption`, `StackAssumption`,
`ReplayAssumption`). `NextFireIsFirst` takes the calendar of `CalendarAssumption` and
looks as many days ahead as the code does (`MaxScanDays`). `PlanningAssumption`: the
catalog names no model twice, as `models.CATALOG` does not, and a chain has at most 100
links; the hundred and first would get the priority of the first model of the catalog,
which the code starts at 100.

Only model-checked:

- In `MeasurementIsSound`, that a PROCEED by the approximate test is confirmed by the
  exact one (`ProceedIsEarned`): a comparison of numbers for each pair of counts, which
  TLC makes up to `StatSpan`. Its other parts are `BenchmarksArePaired` and
  `FewAreActive`.
- All liveness (`EventuallyDelivered`, `EventuallyCloses`, `EventuallyStarted`,
  `GraphConcludes`, `DesktopSettles`, `EverybodyIsTold`): the prover does not handle
  fairness or `ENABLED`.
- That the named sentences of sections 3 and 3.1 fail, which a counterexample shows.

The types of `EventLog`, `CodeTask`, `TaskControl` and `Gateway` are proved and no longer
part of a run.

## 7. Plan

Done: the models, their runs, and the proofs of section 6.

Open is one proof, `ProceedIsEarned` for every number of discordant pairs: a comparison of
a sum of binomial coefficients with a polynomial, which needs an induction over both.

### Not modelled

- *Projects, forecast, search, trajectory, context, notifications, telemetry, git*: queries,
  texts and best-effort output; nothing else reads back what they write.
- *Verifiers, security scans, contracts*: external tools and schemas over contents; a
  verdict is a function of the files, a reply is valid or not.
- *Contents*: prompts, diffs beyond their sections, redaction patterns, report and message
  texts, chat, files, dashboards and onboarding pages, settings, providers and templates.
- *Other adapters*: the Anthropic and Gemini wire formats; they raise the same errors.
- *Of modelled components*: the near-budget report, the choice among adaptive strategies,
  the `balanced` policy, skills and text ranking of memory, time zones and names in cron
  expressions, artifacts and redactions in the fold, and the views of the frontend that
  only show what the API says.
