# GaussFlow, modelled and checked

GaussFlow runs workflows of model calls, agents and data processing. A JSON
document becomes a graph, an engine traverses it and calls a handler per node; a
web server, a command line tool and a prompt-to-workflow compiler sit around the
engine. This directory holds TLA+ modules of the parts where order, failure and
concurrency decide whether the program is right, the TLC configurations that check
them on small instances, and TLAPS proofs that hold for every instance.

Contents: 1 the system; 2 the plan; 3 the modules and the code; 4 the runs;
5 bounds; 6 fairness; 7 the proofs; 8 modelling assumptions; 9 what is not modelled.

Paths are relative to `src/`. Running everything needs `tlc -config X.cfg M` per
row of section 4 and `tlapm X_proofs.tla` for the eight proof modules of section 7.

## 1. The system

Eight crates. *State* is what outlives one call of an operation or is shared by two.

### 1.1 Execution (crate `gaussflow-runtime`)

| Component | State | Operations | Hard behaviour | Correct when |
|---|---|---|---|---|
| Sequential engine, `lib.rs` | per call: outputs, active set, last node, position; per run id: a checkpoint and a run record | `execute`, `execute_resumable` | a crash or a failing save between a handler's result and its checkpoint; resumption from recorded outputs only; two calls with one run id; retry and timeout | dependencies precede; the branches run are those the outputs select; recorded work is not repeated; Completed means nothing left; every call returns |
| Concurrent engine, `concurrent.rs` | ready queue, countdown of in-edges, `JoinSet` of tasks, outputs | `execute_concurrent`, `..._with` | tasks end in any order; several predecessors resolved in one pass; a handler fails or panics while others run; tasks spawned by handlers outlive attempt and call | at most N in flight; each node once; same nodes as the sequential engine; a result stands for everything its handler spawned |
| Run store, `store.rs` | status of each run | start, finish, fail, get | shared by all calls; the in-memory one is lost in a crash | agrees with the checkpoint at the end of a run |
| Checkpoint stores, `checkpoint.rs` | one file per run id | save, load, clear | death or an I/O error between two system calls; readers beside writers; one temporary name per run id | what is published is whole and is the last acknowledged |
| Node handlers, `handler.rs` | none between calls (the agent loop counts its turns) | one call per node | error, timeout, panic, tool loops | a verdict per call |
| Planner and probes, `planner.rs`, `sys/` | executor gauges, permits, priorities | choose an executor, acquire, execute with timeout, release | gauges read and stored apart from the permits they mirror; a timed-out task keeps its permit | gauges equal permits when idle; the least loaded executor is chosen |
| Metrics, `metrics.rs` | atomic counters | count, expose | a run that ends unseen | started = ended + running |
| Providers, `provider.rs` | none | HTTP requests | - | - |

### 1.2 Model and core services (crate `gaussflow-core`)

| Component | State | Operations | Hard behaviour | Correct when |
|---|---|---|---|---|
| Model and parsing, `model.rs`, `dag.rs` | a workflow; a typed graph | `from_json`, add node, add edge, order | cycles, dangling edges, optional fields | what parses is what runs |
| Validator, `validator.rs` | none | cycle and dependency checks over a `TypeSafeDag` | recursion over a shared visited set | a graph passes exactly if it is acyclic |
| Resource manager, `resource.rs` | permits per pool, table of allocations | allocate, guard drop, usage | permits taken one at a time while holding; guards release in a copy of the table | all or nothing; what is released leaves the table |
| Scheduler, core executor, stream, batch | permits, node states | schedule, execute | order of execution | dependencies first |
| Core checkpoints, `checkpoint.rs` | a file per checkpoint | create, save, load latest | written in place | a half-written file hides nothing |
| Content store, `storage.rs` | one file per hash | put, get, has | two processes put one key; temporary file and rename | blobs are whole, immutable |
| Versioning, `versioning.rs` | versions per workflow | save, get, list, delete, latest matching | a removal under a live reference | calls return; the latest match is the latest |
| Policy, `policy.rs`; errors; core metrics | validators, enforcers, an audit trail, counters | validate, enforce, record | an audit trail that only grows | every validator and enforcer is asked until one refuses |

### 1.3 Around the engine

| Component | State | Operations | Hard behaviour | Correct when |
|---|---|---|---|---|
| Web server records, `gaussflow-web/src/main.rs` | maps of workflows and of executions (sharded, each shard locked), a background task per execution, a broadcast channel | create, update, duplicate, delete; execute, cancel, pause, resume, delete; `run_execution` | any two handlers interleave between map accesses; a cancel meets the engine's end; locks held while asking for locks | ended executions stay ended; events tell the truth, once, in order; calls are answered |
| Event stream and dashboard, `main.rs`, `static/index.html` | a receiver per client, a client count, the page's lists | subscribe, snapshot, forward, lag, close | what happens between subscription and snapshot; slow clients | the page converges to the server |
| CLI cache, `gaussflow-cli/src/cache.rs` | memory, LRU and disk tiers | get, set, remove, clear, persist | a get that promotes what a remove just removed; tiers that expire differently | no value after its removal or its time |
| CLI commands, server, config, database, metrics | a watched configuration; saved runs | run, serve, deploy, reload | replaced files, full channels, id collisions | the latest configuration is in force |
| Synthesis, `gaussflow-synth/src/{lib,plan,deploy,catalog,secrets}.rs` | deployments per id, versions per name | plan with repair, confirm, deploy, run | versions computed by reading the maximum; files written in place | deployments are immutable, versions unique, runs traceable |
| Security, `gaussflow-security/src/` | an audit chain; no state in the role table and the tokens | authorize, append, verify, mint, redact | a chain cut or edited anywhere | no change inside the chain verifies |
| Terminal interface, `gaussflow-tui/src/main.rs` | lists as of the last refresh, selections by place, a dialog | keys, refresh, execute, delete, cancel | a refresh between opening a dialog and confirming it | what is confirmed is what the screen shows |
| Python bindings | - | a wrapper over `execute` | - | - |

### 1.4 How the parts interact

- Both engines call a `HandlerResolver` for each node's handler, then the handler
  in a tokio task with a timeout; the sequential engine awaits that task before it
  looks at the next node, the concurrent one awaits whichever ends first.
- The sequential engine tells the **run store** (start, finish, fail) and the
  **checkpoint store** (after each node, at a failure, at the end) in that order.
  Nothing makes the two calls atomic, and the two stores die differently.
- The **web server** calls the sequential engine without a checkpoint store, in a
  spawned task, and copies its result into the execution record node by node. It
  shares nothing with the engine while it runs, so cancel and pause change the
  record only.
- Handlers, tasks and WebSocket sessions share the two maps and the broadcast
  channel. **Synthesis** ends in a deployment that the runtime engine runs.

### 1.5 Hazards

What of the list above a test hardly reaches is in `PROJECT.json` under `hazards`, at
the line where it bites, with the properties that cover it or a note that says why none
does. Smaller ones that are not listed there: the temporary name of an artifact is
unique per process, not per call, and is never removed after a death
(`gaussflow-core/src/storage.rs:94`); the exponential backoff overflows from attempt 58
on (`gaussflow-runtime/src/lib.rs:383`); a concurrency of 0 leaves the sequential engine's
semaphore without a permit (`lib.rs:255`); the client count of the web server saturates
at zero (`gaussflow-web/src/main.rs:1586`); a run that fails leaves no trace with its
deployment (`gaussflow-synth/src/deploy.rs:283`); a bad `--input` of `synth` is found after the plan was deployed
(`gaussflow-cli/src/commands.rs`, `SynthSteps` of `CliRun`); a guard releases in a copy of the
resource manager (`gaussflow-core/src/resource.rs:210`); only the second tier of the cache
expires its entries, and each clone of the cache persists it when dropped
(`gaussflow-cli/src/cache.rs:301`, `:501`); a saved run is named by the second
(`gaussflow-cli/src/database.rs:126`); a configuration file that is replaced ends its
watch (`gaussflow-cli/src/config.rs:403`).

## 2. The plan

The order is that of importance: what a run of a workflow means first, then what
keeps a run across a crash, then what users see of it, then the services around.

| Step | Module | Composes with | State |
|---|---|---|---|
| 1 | `Dag`: graph, outputs, activation | - | done |
| 2 | `DagRun`: what a run promises, engine aside | `Dag` | done |
| 3 | `SeqEngine` with checkpoints and run store; it implements `DagRun` | `Dag`, `INSTANCE DagRun` | done |
| 4 | `SeqEngine_proofs` | `SeqEngine` | done, all its safety properties |
| 5 | `ConcEngine`; it implements `DagRun` too; `ConcEngine_proofs` | `Dag`, `INSTANCE DagRun` | done, all its safety properties proved |
| 6 | `WebServer`: records, background tasks, events; `WebServer_proofs` | - | done, all its safety properties proved |
| 7 | `FileStore`, `FileStore_proofs`: what `SeqEngine` assumes of a save | - | done for writers that keep apart |
| 8 | `EventStream`, `Console`, `Gate`, `Listing`: what clients see of the server; `Clients_proofs` | run together by `MCClients` | done, their properties proved |
| 9 | `Plans`, `Synthesis`, `Deployments`: from a prompt to a deployed workflow | `Plans` is extended by all | done |
| 10 | `Handlers`: one node of each type, with its providers | `Plans` | done |
| 11 | `Resources`, `CoreEngine`, `Scheduler`, `Planner`: permits, gauges, orders | `CoreEngine` extends `Resources` | done |
| 12 | `TieredCache`, `Versions`, `CheckpointLog`; `Stores_proofs` | run with `FileStore` by `MCStores` | done, their properties proved |
| 13 | `HotReload`, `CliRun`: configuration and commands | run by `MCServices` | done |
| 14 | `Order`, `Order_proofs`: orders and repeated steps, with the facts about them | used by `Plans`, `CoreEngine`, `EventStream`, `Listing`, `Versions` | done |
| 15 | `Services_proofs` | `MCServices`, `Order_proofs` | done, every safety property that the run checks proved |

Every safety property that a passing run checks is a theorem; the four liveness properties stay
with TLC. Left to state: that an order
of `CoreEngine` without the reversal would be the right one, for every workflow without a loop.

## 3. The modules and the code

### 3.1 `Dag`

A workflow is a record of nodes, labelled edges, the order petgraph's `Topo` yields,
and the settings the engines read. An output, a JSON value in the code, keeps what
the engines read of it: whether it has an `error` field, whether its `skipped` is
true, and the labels its `branch` and `route` name. `EdgeTaken`, `IsActive` and
`SeedActive` are `edge_taken` and `is_active` and the seeding on resume
(`lib.rs:226`). `order` is not computed: every workflow of a run satisfies `IsTopo`,
which says what `Topo` guarantees, cycles included (it stops short of them without
an error).

### 3.2 `DagRun`

Nodes are resolved one at a time, once and for good, after their predecessors; an
active one by a handler's output, an inactive one by a skip; a run completes when
nothing is left, or may fail and be picked up again. Both engines are shown to
implement it, `StopsOnError` telling them apart: only the sequential one reads
`fail_fast`.

### 3.3 `SeqEngine`: `execute_core`

| Variable | In the code |
|---|---|
| `out`, `act`, `last` | `outputs`, `active_set`, `last_node_id` of a call |
| `pos` | the `Topo` iterator |
| `pc`, `try`, `val` | the point in the loop, the attempt, a handler's result before it is filed |
| `cp` | what `CheckpointStore::load` would return for this run id |
| `record` | the status in the run store |
| `completions`, `begins`, `crashes`, `saveErrors` | history and bounds |

`Begin` is the prologue (fresh, resume, already completed), `Break`, `PassRecorded`,
`SkipInactive`, `StartNode`, `Acquire` the loop, `HandlerOk`, `HandlerErr`,
`BackoffOver`, `HandlerTimeout` the spawned task (a panic and a timeout are both final),
`FileResult`, `FailRun`, `FailSave`, `FinishRun`, `FinishSave` what follows it.
An action ends at each await where another executor or a crash can come in. `Crash`
takes every executor and the in-memory run store, and leaves the checkpoint.

### 3.4 `ConcEngine`: `execute_concurrent_with`

`ready`, `pending`, `act`, `last`, `out` are the locals of the call; `task` is the
`JoinSet` with what each task came to. The call's actions (`Start`, `FillSkip`,
`FillSpawn`, `FillOver`, `JoinOk`, `JoinErr`, `JoinPanic`, `FailRun`, `Shutdown`,
`Finish`) and the tasks' (`HandlerOk`, `HandlerErr`, `BackoffOver`, `HandlerTimeout`,
`HandlerPanic`, `Aborted`) interleave freely. `Resolve` is `resolve_node`: parallel
edges count down their target once each, in any order, since the order in which
petgraph lists edges is left open. An error aborts the tasks and awaits them, a panic
only tells them to stop: the two ends differ, and the model keeps the difference.

Neither end reaches what a handler has spawned itself (`handler.rs:481` for each branch of a
parallel node, the task of the nested run's current node for a subgraph): a dropped `JoinHandle` detaches.
`work` holds these tasks by node, branch and attempt. They come with each attempt (`FillSpawn`, `BackoffOver`)
and end at any time (`BranchOver`), also after their attempt has failed, beside the branches of
the retry, and after the call has returned. So nothing says that an error
leaves no work behind; `ResultsAreWhole` says what does not happen to results.

### 3.5 `WebServer`: the handlers and `run_execution`

`workflows` and `executions` are the dashmaps, `call` the handler of each API call
with what it has read so far, `task` the background task of each execution, `told`
the broadcast events per subject. Each access to a map is one action, so any other
handler may step between two of them; what happens under one held entry is one
action. An entry is locked with its shard: `ShardOf` says which ids share one.
`held` has the references that a call keeps from one step to the next: `duplicate_workflow` that to the
original until its copy is inserted and announced, `delete_execution` that to the execution it would remove. A
write lock waits for all of them (`Writable`), those of the call itself included: a deletion is
`"stuck"`, a copy in the shard of its original is never inserted, and neither are two copies whose
originals are each in the shard of the other's copy. Records keep status, version, the list of finished nodes,
progress and whether an end time is set; texts, timestamps, logs and payloads are
left out, name and description are one field.

### 3.6 `FileStore`: checkpoints and artifacts

`dir` maps names to inodes, `data` inodes to contents of two parts, `wr` and `rd`
are the callers. `Begin`, `Open`, `Write` (twice), `Rename` are the system calls of
`save` and of `put`; `Abort` is a death or a refused call before any of them;
`Look`, `OpenToRead`, `Read`, `Clear` those of `load`, `get` and `clear`. The rename
is the acknowledgement. A `Setup` says which of the two stores a behaviour is
about and what the temporary names are.

### 3.7 The other stores: `TieredCache`, `CheckpointLog`, `Versions`

`TieredCache`: `l1` is the LRU sequence, `l2` the map that expires, `l3` the one that is
written to `file` when the manager is dropped (`Restart`). A `call` is where a get, set or
remove has got to; each layer is one action (`Get1`, `Get2`, `Get3`, `Promote1`,
`Promote2`, `Write1` ... `Write3`), so that other callers step in between. `known` is what the last call
that had a key to itself left there, as this process has to remember it: a `Restart` makes every key `"unknown"`,
because the new process may take nothing from the file (an entry in it cannot be read back, `cache.rs:68`).
`ServesWhatWasLeft` is about one
process; what the persistent tier promises to the next is `PersistsWhatWasLeft`, which the code does not keep.

`CheckpointLog`: `saved` says of each file whether it is whole; a save is `StartSave`,
`EndSave` or `AbortSave`; `Latest` is the loop of `load_latest_checkpoint`. The directory is
the constant `Hardwired`: the code saves under the literal `"workflow_id"` and looks under
the id of the manager's workflow, so a manager of any other workflow finds nothing.

`Versions`: `kept` is the map, whose locks are those of its shards (`ShardOf`). `held` has the shards whose lock a
stuck delete keeps, `waiting` who waits for them: a delete that takes the last version asks for the lock of the
shard under its own reference (`Delete`), and every later call for a workflow of that shard waits with it (`Open`
says which calls get in), whether that workflow has versions or not. `LatestMatching` is the loop over the versions in the order
they were saved, `Better` the comparison in it.

### 3.8 Clients of the server: `Console`, `EventStream`, `Gate`, `Listing`

`Console` is the terminal client: `at` is the place in the loop of `main`, `list` the rows
it holds, `screen` what it last drew. `Draw`, `Wait`, the keys (`Browse`, `InDialog`) and
`Tick` are the loop's parts; `Others` is the server, which other clients change at any
time. The lists arrive in any order of `Orders`, as the server's maps iterate.

`EventStream`: `held` is what the server holds, by the number of the change; `unsent`
the events whose handler has made its change and not sent yet; `queue` the session's
receiver, from which a full channel drops the oldest; `view` the rows of the page,
`Shown` and `Replace` being `handleServerEvent`.

`Gate`: `RequireAuth` is the middleware, from the token to the entry in the audit log, one
action because it holds no await between the check and the append; `Handle` what
follows, `HangUp` a client that goes away in between. A hash is its arguments.

`Listing`: `entries` change by `time`, a walk asks for page after page, `Listed` and `PageOf`
are the handlers' filter, sort and cut. Filters are reduced to the status.

### 3.9 From a prompt to a node: `Plans`, `Synthesis`, `Deployments`, `Handlers`

`Plans` has the pure part: `ValidatePlan`, `FromJson`, `Lower`, `Estimate`, `RemoveStep`,
`ProviderFor`. A step is a record of what these read. `Synthesis` is `synthesize_seeded` with its
bounded repairs, and a user who edits, validates again and asks for another plan.
`Deployments` has both stores: in memory `put` is one step, in a directory `PutLook`,
`PutCreate` and `PutWrite` are, and a caller may die (`Crash`) between them, leaving `Torn`.
Listing the directory is one step: what a listing reads of a file that is being written
is decided when it ends. `Handlers` takes one node of any type to its end, the model calls
counted, branches of a parallel node ending in any order.

### 3.10 The core's engine and the planner: `Resources`, `CoreEngine`, `Scheduler`, `Planner`

`Resources` takes permits one kind at a time and keeps them while waiting (`Take`), and
gives back all (`TimeUp`, `Release`): the timeout is around the whole of the waiting, whatever has been taken. `CoreEngine` is `ExecutionEngine::execute` on top of it: validation,
`ExecutionOrder` (the depth-first order, reversed), `MissDependency`, and the node's run.
`VisitNode` is one visit, given what visits within it do; `Visit` nests it as deep as there are nodes, which is
as deep as `visit_node` can recurse, since each call marks one more node. Of nodes with one id, the last is run. A `NodeSpec`'s own
`dependencies()` is always empty; the trait lets other nodes have some, and the model has both.
`Scheduler` is `calculate_priority` and the queue, with the casts to eight bits. `Planner` has, for
each task, where it is between reading a gauge, taking its permit, writing the gauge and
dropping; `spare` permits are those of tokio, `gauge` what the code says of them, `told` what
the caller was told, which may be a timeout while the task goes on.

### 3.11 The command line: `HotReload`, `CliRun`

`HotReload`: `config` is behind the lock, `env` the process's environment, `loader` where
`load_config` is, `updater` a call of `update` between its exchange and its export. `env` has the database's
address and an API key; the port (`config.rs:389`) is left out, because `serve` writes it over (`commands.rs:718`).
Nothing in the crate calls `update`: it is public, and the overlap with a reload is that of a caller to come. A file is saved in
place (`Truncate`, `Write`) or replaced (`Replace`), which takes inotify's watch with it. An
empty file adds nothing to the defaults. `CliRun`: `todo` is the list of steps the command has
left, `StepsOf` what `execute_command` dispatches to; `text` is the outermost context of the error, which
alone decides the exit code.

### 3.12 `Order`

What sorting, filtering and going through a collection come to, for the modules above: `InOrder` a set in
an order, `Kept` a sequence at some of its places, `Iterate` what steps one after the other come to. They stand
where the code calls `sort_by`, `retain` or loops; the library's definitions are recursive operators or choose
among all permutations, and neither can be reasoned about in `tlapm`.

### 3.13 Several small components in one run

`MCStores`, `MCClients` and `MCServices` put components side by side: the first variable
(`store`, `client`, `service`) says which one a behaviour is about, its `Init` and `Next` are that
component's, and the variables of the others rest at one initial value. Nothing is shared between them, and the
state space is the sum of theirs. Each of the three EXTENDS one component (`FileStore`, `Gate`, `Deployments`),
whose own properties its run checks, and takes the others by INSTANCE. A property of a component holds in the sum exactly if it holds in it.

## 4. The runs

Runs that pass:

| Run | Question | Properties |
|---|---|---|
| `SeqEngine` | Does one executor at a time, interrupted anywhere, drive a run to the right end? | `TypeOK`; `PredecessorsFirst`, `BranchesHonoured`, `CompletedIsComplete`; `ReworkBounded`, `FinishedIsDurable`, `CorrectFinalState` (against the history of handler calls); `ImplementsDagRun`, `EveryCallReturns` |
| `ConcEngine` | Is the concurrent engine the sequential one, only faster? | `InFlightBounded`, `CountdownExact`, `AgreesWithSequential`, `ResultsAreWhole`, `ImplementsDagRun`, `CallReturns` |
| `WebServer` | Do records, ends and events agree under every interleaving of three calls, and does every execution end, however it is paused, resumed, cancelled or deleted? | `TypeOK`, `NothingToldTwice` (and what is told is true, and the start first), `DeleteHonoursRunning`, `FinishedIffTerminal` (and a completed record shows every output), `EngineVerdictStands` (and progress never goes back), `ExecutionsEndUnlessHeld` (in the engine's verdict, unless a deletion keeps the lock of its shard) |
| `Stores` | Is what was acknowledged what is found, wherever writers are cut off or overlap? | `HoldsWhatWasAcked`, `ReadsWhole` (`FileStore`); `ServesWhatWasLeft` (`TieredCache`); `ResumesNoOlder` (`CheckpointLog`); `LatestIsGreatest` (`Versions`) |
| `Clients` | Is what clients see and confirm what the server has, and recorded? | `ConfirmsWhatIsShown` (`Console`); `DashboardCatchesUp` (`EventStream`); `ChangesAreRecorded`, `TamperingShows` (`Gate`); `WalkMissesNothing` (`Listing`) |
| `Services` | What do the services around the engines keep, and where do they stop keeping it? | `RemovalKeepsPlansValid` (`Synthesis`); `DeployedStays` (`Deployments`); `EstimateAndSecretsSuffice` (`Handlers`); `ExecutionsEnd` (`CoreEngine`: in spite of callers that keep what they have while they wait); `MoreNeedsMoreFirst` (`Scheduler`); `GaugeRightUnlessRaced` (`Planner`); `ReloadCatchesUp`, `EnvironmentFollows` (`HotReload`); `MisuseStartsNothing` (`CliRun`) |

Several of these say under which condition the code keeps a promise, and the condition
is the interesting part: `DashboardCatchesUp` leaves out entries whose events overtook each
other; `GaugeRightUnlessRaced` gauges that two tasks updated at a time; `DeployedStays`
files that two processes wrote at a time; `EnvironmentFollows` reloads that an update overlapped;
`WalkMissesNothing` lists that an entry left. Each condition is a history variable of its
module, set at the very step that breaks the promise; without it TLC finds the property
violated. `ServesWhatWasLeft` is about keys of calls that do not overlap, within one process.
`LatestIsGreatest` is about the search, in versions saved in any order and with any deleted between.
`MoreNeedsMoreFirst` stops at 256 gigabytes, where the cast begins again at none.
`EveryCallReturns` finds a retry without an end, not one attempt too many.

Runs that find what the program's own text says violated:

| Run | Text | What happens |
|---|---|---|
| `SeqExactlyOnce` | `lib.rs:168`, "already-completed nodes are **not** re-run (idempotent / exactly-once)" | The process dies after a handler returned and before the checkpoint; the resumption runs the node again. It is at least once, and `ReworkBounded` says by how much. |
| `SeqInputNode` | `lib.rs:279`, "A source node (no incoming edges) is always active and receives the run input" | A node whose id is `input`, which the web server's first sample has, is taken for recorded because the run input is filed under that key: it never runs, what is behind it is skipped, the run is Completed. |
| `WebCancel` | `main.rs:1211`, "Execution cancelled by user" | The engine goes on, and its end overwrites the cancellation. |
| `WebDeleteExecution` | `main.rs:1159`, "Cannot delete a running execution. Cancel it first." | Deleting an ended execution waits for a lock the call itself holds, and every later writer of the shard waits behind it: `run_execution` of the execution too, if it was only paused or cancelled, so that it never ends. |
| `CachePersists` | `gaussflow-cli/src/cache.rs:177`, "L3: Persistent cache for cold data" | The file that a manager writes when it is dropped cannot be read back: `CacheEntryVisitor` has no `visit_seq`, which bincode needs. The next process serves none of it. |
| `CoreMemory` | `gaussflow-core/README.md:16`, "Semaphore-based CPU/GPU/memory `ResourceManager` with RAII guards", working | The memory pool has one permit and an allocation takes one per megabyte: who needs two waits for what nobody holds. |

Further disagreements have no run of their own. For four of them a definition says what the text promises, and
listing it in the run's configuration finds it violated:
- `AcceptedIsWellFormed` (`Synthesis`; `gaussflow-synth/src/lib.rs:296`, "(e.g. a cycle or a dangling edge)"): `validate_plan`
  never calls a validator, so that a cycle is accepted and a dangling edge panics in `from_json`.
- `KeptIsServed` (`Versions`; `gaussflow-core/src/versioning.rs:68`, "Gets the latest version of a workflow that matches the
  version requirement"): deleting the last version of a workflow removes the entry while a reference into it is
  alive (`:149`). The call waits for itself, and calls for other workflows of the shard, which have versions, wait with it.
- `DependenciesFirst` (`CoreEngine`; `docs/PRODUCTION_ROADMAP.md:94`: the engine "with the dependency-ordering and node-id/index
  bugs" is deleted): the executor that is left reverses an order that was right (`executor.rs:407`), reaches a node before
  what it depends on, and fails. `NodeSpec` has no dependencies (`model.rs:165`), so only other types of node meet it.
- `DeletionShows` (`Gate`; `gaussflow-security/src/audit.rs:4`, "any insertion, deletion, reordering, or field edit
  breaks the chain"): a log without its last events is a chain too, and verifies.

And the concurrent engine does not read `fail_fast`
(`model.rs:78`, "Whether to fail fast on first error"; `StopsOnError` is what tells the two engines
apart in `DagRun`); an execution can be inserted between `delete_workflow`'s scan and
its removal (`main.rs:842`; `DeleteHonoursRunning` says what is left of the refusal).

Definitions that no configuration lists (`TypeOK` of the smaller components, `PublishedWhole`,
`PermitsKept`, which `PermitsAreKept` proves, `OnlyLooseNodesComplete`, which `NothingDependentCompletes` proves,
`ResultsInOrder`, `VoteIgnoresOrder`) hold in the same runs when they are listed; they are there for the proofs.
`OnlyLooseNodesComplete` is not what the core's engine is for: it says how far the reversed order and the single
memory permit reach, and becomes false when they are repaired.

Every property of a passing run has a mutant in `PROJECT.json`: a definition next to
the one it replaces, commented `MUTANT of`, with a mistake one could make in that
code. The property fails on it under the same configuration. No specification uses a
mutant.

Deadlock is not checked (`CHECK_DEADLOCK FALSE`): every one of these systems may
stop, when its calls are made and its runs ended. That nothing else stops them is what
the liveness properties say.

## 5. Bounds, and why they are enough

- **Workflows of up to four nodes.** Four make a conditional diamond, in which a node
  is active through one branch and the other is skipped; a failure branch that joins
  again; a cycle behind a chain; double edges; a fan-in of three; and three independent
  nodes over two slots. One node, which is retried, spawns two branches, so that four are at work when
  its second attempt meets what is left of the first. Whatever depends on one node's predecessors and on one
  checkpoint shows there; the order given to `SeqEngine` is not the alphabetical one,
  so nothing holds by accident of names.
- **`MaxBegins = 3`, `MaxCrashes = 2`, `MaxSaveErrors = 1`.** A resumption of a
  resumption is the smallest run in which a reconstructed active set is itself
  reconstructed from; a crash and a lost save may hit the same run.
- **Three API calls, one sample workflow, two executions, two shards.** Every pair of
  handlers meets, and each pair meets the background task; an execution can be started, paused and
  deleted, or two be started and one of them be cancelled. `duplicate` meets a copy
  in its own shard and in another. Ids are not reused. There is no symmetry, since liveness is checked as well; the
  theorems of `WebServer_proofs` are about any number of calls and executions.
- **Two writers, one reader, five inodes, four calls, two aborts.** Each file open at
  one time has an inode, and one more is free; a file in two parts can be half written
  and half read. The proofs need none of these bounds.
- **`TieredCache`: two keys, two callers, one entry in the first layer, four calls, one
  restart.** A second key evicts the first; a get can be anywhere in the layers while the
  other call passes. **`CheckpointLog`: three checkpoints, a clock of three**, so that
  two may have one timestamp, one be older, and a save be cut off twice. **`Versions`: three
  workflows, two of them in one shard, two callers, three numbers**: a stuck delete can meet a call for the other
  workflow of its shard and one for a workflow elsewhere.
- **`Console`: two workflows and one execution, two log lines**: the two can be exchanged
  and each deleted between a dialog and its confirmation. **`EventStream`: a channel of two
  and four changes**: it overflows, and a create, a change and a delete can all fall before,
  into and after the snapshot. **`Gate`: two clients, two secrets, a clock of two with a
  leeway of one**: a token is good, late, and expired. **`Listing`: three entries, pages of
  one or two, five changes**: an entry can move across the border of a page.
- **`Synthesis`: plans of up to three steps, two repairs, two edits. `Deployments`: two
  callers, three versions, one crash, one recorded run.** A third version is behind one that is torn.
  **`Handlers`: every type with and without each parameter, three members, two branches,
  inline workflows two deep (`MaxNesting`).**
  **`CoreEngine`: two nodes, two callers, pools of two CPU, one GPU and the one memory
  permit**: two callers can each hold what the other wants. One workflow has three nodes in a chain with a
  loop, so that visits nest, and one has an id twice. **`Scheduler`: memory of 32,
  64 and 256 gigabytes**, where the casts begin to cut. **`Planner`: three tasks on two
  permits. `HotReload`: three saves, two updates. `CliRun`: every command with every flag,
  every kind of file.**

The counters stop actions, never a property: a behaviour that reaches a bound goes
on with the other actions.

## 6. Fairness

- `SeqEngine`: weak fairness of each executor's own steps. tokio polls a ready task
  again, and every handler call ends, by its timeout at the latest (`lib.rs:368`). Nothing
  makes a caller begin or resume; nothing makes the process crash.
- `ConcEngine`: weak fairness of the call, and of each task, for the same reasons. What a handler
  spawned may go on for ever (`BranchOver` is not fair): the timeout of its node ends the wait.
- `WebServer`: weak fairness of each handler once it was called and of each background
  task. That `EngineOk` or `EngineErr` happens is the engine's `EveryCallReturns`. A call
  waiting for a lock is not enabled, so that fairness does not rescue a stuck one.
- `CoreEngine`: weak fairness of each caller once its execution has begun. A wait for permits and the run of a node
  are each inside a `tokio::time::timeout` (`resource.rs:205`, `executor.rs:383`), and the runtime polls a task
  whose permit or timer is ready. That a permit is granted in preference to a timeout is not assumed.
- The other modules have safety properties only: what they promise is about what is
  found or kept, and nothing obliges their callers to come back.

## 7. The proofs

`tlapm` 1.4.5 checks the eight proof modules to the last leaf, with Z3, Zenon and LS4.
They assume of the constants the named assumptions of the modules they extend, and what a
theorem's own `ASSUME` names; each of those is below, with what justifies it. The
inductive invariants also hold in TLC, on the instances of section 4.

### `SeqEngine_proofs`: dependencies

For every set of workflows that satisfies `IsWorkflow`, every set of outputs and
inputs, every number of executors and every bound:

- `TypeCorrect`: `Spec => []TypeOK`. Alone it is not inductive: filing a result
  needs a current node, so `InHand` adds that an executor with a task in hand has not
  walked past the end of the order.
- `DependenciesFirst`: `Spec => []PredecessorsFirst`, and `CompletionIsComplete`:
  `Spec => []CompletedIsComplete`. Neither is inductive. A resumption starts at the
  first node with the results of a checkpoint, so nothing in the current node says
  that its predecessors are on record. The invariant `WalkInv` relates the position to
  the record instead: the part of the order an executor has walked is on its record
  (`Walked`), its record and the checkpoint are closed under predecessors (`Closed`),
  and nothing is left when it is about to finish (`NothingLeft`). With `IsTopo`,
  whose predecessors come earlier in the order, the two properties follow.
  `IInv == TypeInv /\ WalkInv`; one lemma per action shows it is kept.

That the executors overlap costs the proof nothing: a checkpoint is only ever
overwritten by the record of some executor, and each record is closed by itself.

### `SeqEngine_proofs`: branches and interruptions

Three hypotheses, each at the theorems that need it. `NamesApart`: no node has the name
under which the run input is filed; the run `SeqInputNode` shows what happens otherwise.
`NoSkippedOutputs`: no handler's output reads as a skip marker; one that did would be
taken for skipped on resume. `OneAtATime`: the calls for a run id do not overlap. Nothing
in the code prevents an overlap; `BranchesHonoured` and all of the theorems above hold in
spite of it, the four below do not, and no text of the repository promises them then.

- `BranchesFollowTheRecord` (the first two): `Spec => []BranchesHonoured`. A checkpoint
  has no active set, so the invariant `BranchInv` says of every executor that its active
  set and its record agree (`KnowsItsBranch`) and that the record is one its own outputs
  select (`Branched`): what `SeedActive` rebuilds is what was lost.
- `ReworkIsBounded`, `FinishedHoldsOnDisk`, `FinalStateIsCorrect` (all three). The
  invariant `RecoveryInv` has three parts. `CheckpointInv`: the results on disk are a
  prefix of the order, and the last node is the last of them that ran. `SyncInv`: the
  executor that has a call works on what is on disk. `WorkInv` accounts for the calls: a
  node's handler has succeeded at most once for the result that is kept, and once for
  each crash or lost save; only of nodes that the record selects.
- `CheckpointTellsOneRun` (all three): `Spec => ImplementsDagRun`. The abstract state is
  the checkpoint's results without the input. A save that succeeds is a step of `DagRun`
  (`Run`, `Skip`, `Fail` or `Complete`); everything else, a crash included, is none.

### `ConcEngine_proofs`

All under `NamesApart` only: `TypeCorrect`, `SlotsAreEnough` (`InFlightBounded`),
`CountdownIsExact` (`CountdownExact`), `WholeResults` (`ResultsAreWhole`),
`SameAsSequential` (`AgreesWithSequential`) and `CallTellsOneRun` (`ImplementsDagRun`).

`CountdownExact` is not inductive, since a node must not be queued twice by two parallel
edges: `QueueInv` keeps queued, active and resolved nodes apart and says that everything
reached has all its predecessors resolved; `CountInv` that what is pending is the number
of in-edges from nodes that are not resolved, for every node. Resolving a node takes its
edges out of that set, and the lemma `CountsDown` says by how many it shrinks. `TaskInv` ties tasks, starts and the active set together,
`CallInv` bounds the tasks by the slots. `BranchInv` says that a reached node is active as
its predecessors' results say, whenever it was reached. `WorkInv` is about what handlers spawned: a
branch of the current attempt belongs to a node that has neither answered nor gone into its backoff.

`SequentialActive` is a recursive function along the order. That it equals the active set
at the end is proved by a minimal counterexample: the first place in the order where the
two differ has all its predecessors before it, where they do not (`SmallestOf`, from the
well-foundedness of the naturals; the induction theorems of the library cannot be used).

### `WebServer_proofs`

No hypotheses beyond the module's own assumptions: `TypeCorrect`, `RecordsAgree`
(`FinishedIffTerminal`), `NewsIsTrueAndOnce` (`NothingToldTwice`), `DeletionSeesRunning`
(`DeleteHonoursRunning`) and `VerdictIsFinal`: `Spec => EngineVerdictStands`, an action
property.

None of them is inductive, because a call keeps what it read while others write. `IdInv`
says that an id about to be inserted is new to the maps, to the clients and to every other
call; `OnceInv` that an event is broadcast, or waits in one call to be, once; `VersionInv`
that what is said of a workflow is a version it has had, so that the next one is new;
`CancelInv` that a cancellation is only told of an execution that stays ended. `TaskInv`
follows the background task: which outputs are in the record, which are told, and what is
still to do (`Reporting`), up to the end, where the record lists them all. `RecordInv`
carries the arithmetic of the progress, whose quotients only grow (`QuotientsGrow`).
`SteadyInv`: the running executions a deletion has not come across are in shards that it
has yet to scan. The steps of the eleven handlers are first sorted by their effect on the
maps (`CallEffects`: quiet, reserving an id, inserting, rewriting, removing,
starting, steering, telling), and each conjunct is shown to survive each effect.

### `FileStore_proofs`

Under `ExclusiveSetups`, for any number of writers and readers, deaths and refused
calls: `NeverTorn` (`PublishedWhole`), `NeverLost` (`HoldsWhatWasAcked`), `NoMixedRead`
(`ReadsWhole`). The invariant adds to the types that no inode has two names
(`OneName`), that a writer's inode is still the one of its temporary name and has as
much of the value as it has written (`WriterInv`), that the published one is whole and
acknowledged (`FinalInv`), and that the inode a reader reads is whole and no writer's
(`ReaderInv`): a rename hands an inode over, so without the third nothing keeps a
writer from writing into what a reader reads.

`ExclusiveSetups` says that writers which may meet have temporary names of their own
and, for artifacts, put the same bytes. That is so for artifacts put by different
processes (`storage.rs:94`, the name has the process id; the key is the hash of the
bytes) and for checkpoints as long as one call at a time executes a run id. It is
**not** so for two overlapping executors of one run id (`checkpoint.rs:101`), nor for two
tasks of one process putting the same artifact. There the second can go on writing
into the inode the first has published. The hazard is listed, with this note.

### `Stores_proofs`

About the other three stores, in the composition `MCStores` that the run checks, with its
constants left open.

- `GreatestIsFound` (`LatestIsGreatest`), under `VersionNumbers` (numbers are naturals, the mark for none is not
  one). `LoopFindsGreatest`: what the loop holds after each version is the greatest that matches of those it has
  come past, by `IterateFacts` along the history of the loop, and `Upwards`; that deletions keep a list a list of
  numbers is `KeptFacts`. Nothing is said of the order of the list.
- `ResumedIsNoOlder` (`ResumesNoOlder`), under `NoCheckpoint` (the mark for no checkpoint
  is none; there are milliseconds). `AckedIsWhole`: an acknowledged checkpoint has a whole
  file unless that very file is being written again. `NewestExists` gives the greatest
  timestamp among those found, by well-foundedness.
- `LeftIsServed` (`ServesWhatWasLeft`), for a first layer of any size. The property looks
  at keys whose value is known; the invariant has to follow the calls under way.
  `KnownIsEverywhere`: every layer that has a known key has its value, no call is writing
  it, and a get that is about to promote it holds that value. `AloneIsAlone`: a call is
  alone with a key as its history says. `WrittenSoFar`: a writer that is alone has left
  its value in the layers behind it. A get and a write each touch one key (`GetStep`,
  `WriteStep`); what an eviction, an expiry or a promotion does to the other keys is that
  a layer loses them, which every part allows.

### `Clients_proofs`

About `Console`, in the composition `MCClients` that the run checks, with
its constants left open: `ConfirmedAsShown` (`ConfirmsWhatIsShown`). `ShownAsHeld` says
that at the only place where keys are read the screen shows the dialog that is open and
the row that is selected; nothing the server or other clients do in between reaches
either, since lists are only exchanged on the way from a key to the next drawing.

About `Gate`: `NothingChangesUnrecorded` (`ChangesAreRecorded`): counting what was made
against what is logged is not inductive, because the event comes first; the invariant
`Accounted` counts the requests that were let through and are in their handlers as well,
so that a client that hangs up only takes something away from one side. `RoleInv` keeps,
for each of them, that a token with a role for changes exists. `TamperingIsFound`
(`TamperingShows`) follows from `Verify(log)`, which `Appended` preserves: an event that
is out of place has the wrong number, an edited one no longer fits its hash. A hash
stands for what it was computed of, so what is proved is that the chain covers the
fields, not that SHA-256 has no collisions.

About `EventStream`, for a channel of any positive length: `DashboardCatchesUpWithTheServer`
(`DashboardCatchesUp`). What the page shows and what the server holds differ by the events on
the way, so the invariant speaks of these, for each entry by itself: those in the queue and those not
sent yet (`Pending`) are in the order of the changes (`InLine`), they tell a story that
ends in what the server holds (`Story`: each change once, creation first, deletion last), and
they start where the rows of the page, or those collected for the snapshot, are (`Fits`). An
event that is shown or dropped by a full channel takes the first page of the story away; events that
overtook each other, or that nobody sends, put the entry into `jumbled` or `silent`, and nothing
is claimed of it.

About `Listing`, for any finite number of entries and any length of pages: `WalkIsComplete`
(`WalkMissesNothing`). Without a change, what was collected is the list up to the place where the
next page begins. With changes, the rank of an entry that nobody touched never shrinks in the default order, where what is
new or changed comes first, unless an entry leaves the list; so it is collected or still ahead of the walk
(`ListWalk`), and a page that is not full ends the list.

### `Order_proofs`

What the others cite. `InOrderFacts`: a finite set in a total order is a sequence that has each
element once, in the order; `KeptFacts` the same of a part of a sequence. `IterateFacts`: steps that
stay in a set have a history, which ends in what they come to. `Upwards` is the induction that all
of them and the proofs below use: it is about a set of numbers, not about a predicate, because the
library's induction theorems cannot be instantiated here, and follows from `WFMin`. `TotalChanges`:
when one number of finitely many changes, their sum changes as it does (by `Upwards` over the parts of
the set: the sum takes its elements away one by one, in an order that nobody knows).

### `Services_proofs`

About every component of `MCServices`, in the composition that the run checks, with its constants
left open. Each has an invariant of its own; the steps of the others leave its variables alone.

**Deployments.** `AcknowledgedStays` (`DeployedStays`), under `MarksApart` (the two marks are no
deployments; the number of versions is a natural number), for any number of callers and
deaths. The invariant has to say who may be writing which file: unless a version was
raced, at most one process is past its look at the file, and the file is not there or is
torn by that process (`FileInv`). Then what is readable stays (`ReadableStays`), what was
acknowledged stands (`AckInv`), and everything below a version that is about to be put is
readable (`OrderInv`, with `NextVersionFacts`: the next version is above all that can be
read, and what is below the greatest readable one is readable by `OrderInv` itself).

**Planner.** Under `KindsKnown` (three semaphores; a node asks for one of four things), for any number
of tasks and permits, finite or not: `PlannerTypeCorrect`, and `GaugesTellPermits`
(`GaugeRightUnlessRaced`). `Permits` is the account: what is free and who holds one add up
to the capacity, tasks that everybody gave up on included. For gauges, the property speaks
only of moments when no update is under way; the invariant `Undisturbed` says of the one
task that is updating (`Alone`) that what it has read is still so and what it has yet to
write will be right (`HalfWay`). A second task that starts an update puts the kind into
`overlap` in the same step, and nothing is claimed of it any more.

**Synthesis.** `RemovalKeepsPlans` (`RemovalKeepsPlansValid`), under `PlansKnown` (a plan is a sequence
of steps). `SoundIsValid` says what `validate_plan` looks at: known capabilities and dependencies on steps
that are there; `RemovedIsSound` that `remove_step` keeps it, since it takes the id out of every
dependency. Other edits may break it, and `scrubbed` says that there were none.

**Scheduler.** `MoreNeedsComeFirst` (`MoreNeedsMoreFirst`), under `NeedKnown` (needs are numbers).
The invariant is that a queued priority is that of its need; `PriorityGrows` that a priority
grows with each need although processors stop at 255, gigabytes begin again at 256 (which is where the
property stops) and the sum is divided and capped.

**HotReload.** `ManagerFollowsTheFile` (`ReloadCatchesUp`) and `EnvironmentFollowsTheManager`
(`EnvironmentFollows`), under `ConfigKnown`. `LoadInv`: a load that is under way while no change
waits to be handled is a load of the file as it is, wherever it has come to; a change in the middle of it
leaves an event behind, and then nothing is claimed until the event is taken. `EnvInv`: between the
export and the exchange the environment is ahead of the manager and says what is to be installed.

**CliRun.** `MisuseLeavesNoTrace` (`MisuseStartsNothing`), no hypotheses. `RefusesFirst`: among the
steps that a command has left, none that may refuse comes after one that leaves a trace. That holds
of the steps of every command but `synth` (`StepsInOrder`), and taking steps from the front keeps it.

**Handlers.** `EstimateAndSecretsCover` (`EstimateAndSecretsSuffice`), under `NodesKnown` (budgets are
numbers; `MaxNesting` is at least one) and `NoneIsNoNumber`. Calls never exceed the steps an agent has taken,
nor these its budget; the secret that is listed for a model is the key its provider asks for
(`SecretIsKey`), and the steps of an inline workflow are among those `required_secrets` goes through
(`InlineIsWithin`, from the history of the unfolding).

**CoreEngine.** `NothingDependentCompletes`: no reachable completion has a node with a dependency, or one that needs
more than the single memory permit (`OnlyLooseNodesComplete`), under `WorkflowsKnown` (nodes
and dependencies are sequences, needs and limits numbers). It is about the code as it is, not a goal: `CoreMemory` shows one
half of it on an instance, `DependenciesFirst` is what the other half breaks. Two halves.
- *Visits.* A visit only marks nodes and puts those it marked in order, after what was there
  (`Continues`; `HistoryContinues` for one after the other, `VisitNodeFacts` for one within the other).
  It ends with its own node (`EndsIn`). So the order of the first visited node with a dependency has that
  dependency at or before it (`Backward`, `VisitOfDependent`): it was in order already, or was visited within, or
  is the node itself. `VisitedFacts` carries this along the loop over all nodes: the order has every node once, and is
  `Backward` if there is any dependency. Turned around (`ExecutionOrderFacts`) no order with a dependency
  is one in which everything finds its dependencies done (`Forward`).
- *Executions.* `IsRun`: what a caller has done is a beginning of its order, each node of which found its dependencies
  done. `MemoryOnce`: the one permit of memory is free or one caller's, so a node that ran needed at most one. A run that
  reaches its end has done the whole order, which is then `Forward`.

`PermitsAreKept`, under `WorkflowsKnown` and `CallersKnown` (finitely many callers): what is free of a
kind and what callers hold of it are the pool. Every step moves permits between the pools and one caller
(`CallerMoves`), and the sum of what callers hold changes as that one does (`AccountMoves`). It is a
theorem and in no run: that permits go back when they are dropped is what `Resources` takes from tokio,
and what the theorem adds is that no step of the engine, a timeout in the middle of a wait
included, leaves the account open.

### Only model-checked

- Liveness (`EveryCallReturns`, `CallReturns`, `ExecutionsEndUnlessHeld`, `ExecutionsEnd`): fairness and
  `ENABLED` are out of this prover's reach.
- The six violations of section 4, which are counterexamples and not theorems.
- The definitions that no configuration lists, apart from `PermitsKept` and those that an
  invariant above contains.

## 8. Modelling assumptions

Sequential engine
- A resumption is given the same workflow as the run that was interrupted; the code
  does not check it. Node ids are unique.
- Executors of one run id are tasks of one process, which share the in-memory run
  store and lose it together. A checkpoint save is one step, or an error that leaves
  the file as it was; section 7 says under which condition `FileStore` discharges that.
- An error of `load` or of `start_run` ends the call before it did anything.
- Every handler call returns, fails, panics or times out, and may return any output of
  `HandlerOutput`. None of them looks like a skip marker: a handler that returned
  `{"skipped": true}` would be taken for skipped on resume.
- The setting `concurrency` is at least one in the runs. Zero leaves the sequential
  engine's semaphore without a permit, and its first cpu node waits for ever
  (`Acquire`); the concurrent engine makes it one.
- The retry of a node waits and tries again; how long is left out.
- `failFast` is the JSON key; documents, and the lowering of plans
  (`gaussflow-synth/src/lib.rs:286`), write `fail_fast`, which the parser ignores.

Concurrent engine
- The output reported is that of the task that ended last, not of the last node in
  order; no text promises more, so no property does.
- A task aborted by a panic of another may still take steps after the call returned
  (`"dropped"`, `Aborted`).
- A subgraph counts as a node with one branch: its nested run has one task at a time, and once nobody
  polls that run its current task is the last. In `SeqEngine` what a handler spawned outlives a timeout and a
  retry in the same way; its properties speak of handlers that returned Ok, which have awaited it, and it is left out there.

Web server
- dashmap 5.5: a write lock waits for every reference into the shard; a reader is
  not held up by a waiting writer. A blocked handler also holds a worker thread of the
  runtime, which the model leaves out: that makes a stuck call worse, not rarer, and as many
  of them as the runtime has workers stop everything, other shards included.
- `delete_execution` never gets as far as removing an entry, so the branches of
  `run_execution` for an entry that is gone are unreachable and have no action.
- An update may set any of its optional fields; keeping the old value is one of the
  choices. The version counts accepted updates.
- A document that parses is one the engine runs, with outputs for any of its nodes.

File stores
- No power loss: what a system call wrote stays. Names in a directory are exact, and a
  run id contains no path separator.
- A file is written and read in two parts; `fs::write` of a longer one is more of the
  same steps.

The other stores
- moka expires at any time after an entry's time to live; the LRU counts entries. The
  cache's file is written whole or not at all: nothing dies while it is written.
- Version numbers are a total order, requirements upper bounds. The map of versions is the dashmap of the web
  server, with its locks per shard.

Clients
- The terminal client and the dashboard send no `Authorization` header, and this server
  refuses every mutating request without one. `Console` and `EventStream` are about a
  server that accepts them, as one behind a proxy that adds the header does.
- Which requests the server refuses is left to it (`Confirm`): one that it need not refuse may be refused.
- A hash and a signature are injective; the clock of the tokens does not go back.

Services
- The planner of `Synthesis`, a model, may answer anything, and the answers of the model set
  are plans with cycles, dangling edges, double ids and unknown capabilities.
- A process of `Deployments` that dies leaves a file empty or cut off; there is no power loss.
- A core node's run ends, fails or times out; its result is not looked at. The guard of its permits is dropped with
  `block_in_place`, which panics in a runtime of one thread: a runtime of several is assumed.
- `Estimate` adds without a width: budgets whose sum does not fit a `usize` (`gaussflow-synth/src/lib.rs:345`) are left out.
- The configuration path is given; variables of the environment that begin with `GAUSSFLOW`
  do not change while the program runs. A watch is inotify's: a file that is
  replaced takes it away. Fewer than 100 events are pending.
- A command is one process. `execute` is the engine above, whose outcome is taken as either.

## 9. What is not modelled

`PROJECT.json` lists every component with its status. Not modelled: the HTTP requests of
model providers, the SurrealDB store and the server of the command line in front of it (a
remote database), signatures and hashes as algorithms, the redaction of personal data
(patterns over text), error types and texts, what is drawn or printed, argument parsing,
counters that nothing reads (both metrics modules), probes of the operating system, the
policy engine (sequential, and called by nothing), the Python wrapper, and files that are
in no module tree (`stream.rs` and `batch.rs` of the core, `error.rs` of the command line).
Of the components modelled, these parts are abstracted: the merge of predecessors'
outputs into a node's input, metrics counters, statistics, the periodic broadcast of
system metrics, typed edges.
