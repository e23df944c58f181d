# Formal models of polarisagi-harness

TLA+ modules for the parts of the harness in which goroutines, SQLite rows,
timeouts and crashes meet, the TLC configurations that check them on small
instances, and TLAPS proofs of their main properties for every size. Line
numbers are those of the sources at the modelled commit; `PROJECT.json` gives
the lines behind every definition.

Run the tools in this directory: `tlc -config MCBlackboard.cfg MCBlackboard`,
`tlapm BlackboardProofs.tla`.

## 1. Inventory

The harness is one Go process over SQLite. A request becomes a row on the
blackboard; the orchestrator and the workers claim it; a worker drives an agent,
whose state machine asks a model for a plan, validates it, and executes it as a
graph of tool calls; writes go through one writer goroutine, and projections to
other engines through an outbox. Users and timers interfere at any time.

| Component | State | Operations | What is hard |
|---|---|---|---|
| Blackboard, Reaper (`pkg/swarm/sqlite_blackboard.go`, `reaper.go`) | table `tasks`, cancel functions, subscribers | post, claim, start, settle, renew, suspend, resume, compensate, pre-check, reap, GC, watch | claims and renewals race with a reaper that unlocks for five seconds between its scan and its write-backs; stale owners act on; expiry compared as text |
| MutationBus / DatabaseWriter (`pkg/substrate/mutation_bus*.go`) | two channels, the batch, the transaction, event hash chain | submit one, several or a group; run; close | batches that fail half way, answers that must match what is committed, order over two channels, shutdown |
| EventWriteBuffer (`event_buffer.go`) | ring of events | emit, emit critical, flush | feeds the bus with upserts of table `events` |
| Outbox (`outbox_worker.go`, `cmd/polaris/main.go:236-262`) | table `outbox`, cursor in memory and in `sys_config` | fetch, handle, mark, save cursor | two loops of which production runs the simpler one; crashes between effect, mark and cursor; retries behind the cursor; ignored errors |
| Agent kernel (`pkg/cognition/kernel/`) | state machine, intent channel, step budget, plan | dispatch, effects, interrupt | every effect sends its trigger from a goroutine into a lossy channel that users also write to |
| DAG executor, action log (`dag_executor.go`, `agent_execute.go`, `episodic_mem.go`) | completed nodes, undo list, log of pending and done actions | waves, retry, compensation, write-ahead log | crash between log and effect, retry and replanning of effects, concurrent nodes, failure in the middle of a wave |
| Orchestrator, registry, workers, patterns (`orchestrator.go`, `registry.go`, `worker.go`, `pkg/swarm/patterns/`) | registry of agents, push channels, current task, pending set of a pattern | poll, admit, assign, push; claim, run the agent, settle; post and wait | two claims for one task, events that are lost, a pattern that waits for them |
| HITL gateway (`pkg/edge/hitl/gateway.go`), its callers and the approval handlers | records `hitl:pending:*`, waiters, one-place channels | prompt, list, respond | answers before, at and after the waiter's time; ids in common; a send under the mutex |
| Automations (`pkg/gateway/server/cron.go`) | tables `automations`, `automation_runs`, goroutines | edit, trigger, tick, webhook, execute, shut down | a status column as a lock, requests' contexts, rows edited under a run, the end of the process |
| Conversations (`sse.go`, `channels.go`, `sessions.go`, `compressor.go`) | tables `chat_sessions`, `chat_messages` | turns of page and channels, compaction, deletion | turns of one session overlap, one rewrites it |
| Extensions, MCP (`plugin_*.go`, `mcp_servers.go`, `marketplace/manager.go`, `mcp_manager.go`) | catalog, instances, runtime rows, directories, MCP clients, tools | install, uninstall, edit, test, toggle, sync, connect | long downloads and connections in goroutines against edits and removal; requests that overlap without a lock; several tables and memory for one thing; ignored errors |
| Providers (`providers.go`, `provider_loader.go`, `provider_seed.go`, `inference/router.go`) | tables `providers`, `provider_models`, registry, circuit breakers | seed, edit, reload, infer, fail over | tables and registry that must agree although failed loads are ignored; the one connection and an RWMutex held across each other and across calls without a timeout |
| Channel pollers (`pkg/gateway/channels/manager.go`) | goroutine per channel | start, stop, redeliver | see section 5 |
| Supervisor tree, KillSwitch, schedulers, in-memory blackboard | | | little of it runs in production: section 5 |
| Policy, memory, knowledge, skills, sandboxes, evaluation, configuration | | | I/O, ranking and rules; see `PROJECT.json` |

Interactions: the worker calls the blackboard and the agent; the agent calls the
executor, the action log and the outbox; the executor calls tools and, by its
parameter, the blackboard's lease renewal (nil in production); the event buffer
calls the bus; the gateway interrupts agents, answers the prompts their tools
wait for, and calls models through the same registry; the reaper cancels executions
through the cancel functions. What makes each part correct is section 3; what can
go wrong, line by line, is the list of hazards in `PROJECT.json`.

## 2. Modules

| Module | Stands for | Extends / instantiates |
|---|---|---|
| `TaskLease` | what a blackboard promises about ownership: abstract specification | |
| `Blackboard` | the SQLite blackboard and its reaper | refines `TaskLease` (`Lease!LeaseSpec`) |
| `Dispatch` | orchestrator, registry, workers' loops, patterns | built on `TaskLease`'s steps |
| `CommitLog` | what the bus promises to those who submit (abstract specification) | |
| `MutationBus` | the bus, its writer, one transaction per flush | refines `CommitLog` (`Log!LogSpec`) |
| `Outbox` | the outbox table and its worker | |
| `AgentKernel` | agent, state machine, effects as triggers, worker, user | |
| `SagaPattern` | what the executor of a plan promises: forward, or back over what was done (abstract specification) | |
| `DagExecution` | executor, action log, tools, crashes | refines `SagaPattern` (`TwoWay!SagaSpec`) |
| `Approvals` | HITL gateway, actions and installations that ask, humans | |
| `Automations` | cron runner, webhooks, triggers, executions | |
| `Conversations` | turns on one session, compaction | |
| `Extensions` | installer, uninstaller, management, MCPManager, sandbox tools | |
| `Providers` | settings, seeding, reload, registry, router | |
| `SubstrateProofs` | theorems about the storage layer | `MutationBus`, `Outbox`, TLAPS |
| `AgentProofs` | theorems about agents and their orchestration | `AgentKernel`, `DagExecution`, `Dispatch`, TLAPS |
| `XProofs` for `Blackboard`, `Extensions`, `Providers`, `Automations`, `Approvals`, `Conversations` | theorems | the module, TLAPS |
| `MCX` | instances for TLC, where a constant needs a definition | the module of that name |

**Blackboard.** `row` is table `tasks`; each SQL statement is one action, because
the handle has one connection. `exec` are the goroutines that work on a task, with
the version each remembers; the blackboard itself knows agents only. `reaper` has
three steps, as `reap` has: the scan under the mutex, the grace period without it,
the write-backs under it, one UPDATE at a time. A lease is not a number but the
answer to the two comparisons the code makes: *fresh*, *lapsed* (expired today)
and *visible* (expired on an earlier UTC day, which is what the text comparison of
the scan can see). `Lapse` and `Midnight` are the clock. `Restart` keeps the table
and loses everything else.

**MutationBus.** `Program` says what each caller submits with its one call.
`writer.pc` follows `Run` and `flushBatch`: *poll* and *wait* are its two selects,
*verify* and *recheck* the two lease checks, *begin* and *execute* the
transaction. `tx.store` is what the open transaction sees, `db` what is committed,
`told` the answers. A hash is the event it is the hash of. An event of the
EventWriteBuffer is the upsert of table `events` that always fails. The SELECT of
the last hash may fail, an error `insertEvent` ignores: the event is then stored
as the first of a chain (`NewEvents`; `read` is history).

**Outbox.** `RunsWorker` says which loop runs: `OutboxWorker.Run`, which marks
each record and saves its cursor but has no caller in production, or the loop of
`main.go`, which calls the same `FetchBatch` and `Process`, marks nothing, saves
nothing and begins at zero with each process. `saved` is the cursor in
`sys_config`, `worker.cursor` the one in memory. A record of `Unhandled` has an
engine nobody registered; `Process` returns nil for it. The UPDATEs to done and
dead name a column the table does not have, so that they never change a row; the
one to failed may be lost (`faulty`).

**AgentKernel.** `intent` is the channel, `sends` the goroutines about to send;
`run` says whether `Agent.Run` is off, at its select, or in an effect. An effect
is the choice of the triggers it can send. A call of the model need not return.
`plan = "approved"` is history: the plan has been validated since it was drafted.

**DagExecution.** One action per step between two observable points of `Execute`,
`executeNode`, `runCompensation` and the tool closure. `log` has an entry per
tool, because the code looks entries up by the tool's name alone. `effects` and
`succeeded` are history: what the tools did to the world. `Crash` keeps `log` and
the world.

**Dispatch.** Claims, settlements and evictions are the steps of `TaskLease`
(`Acquire`, `Settle`, `TakeAway`, `Publish`), which `Blackboard` is shown to
implement: the composition is by that interface. `orch` is one call of the
dispatch loop: the list it has read, and whether the next task was admitted.
`worker[a]` is the task a listen loop is blocked with, also after the task was
taken away. A broadcast reaches the pattern or not, since the channel may be full.
`TypeColumn` says whether table `tasks` has the column `type` that the
orchestrator's query names: the tables of the tests have it, `007_tasks.sql` has
not, and there the scan ends in silence.

**Approvals.** `call` follows `Prompt` statement by statement; `human` follows
`Respond`, and is at *send* while it holds the mutex. `pending` remembers which
prompt each record is, `said` which prompts a human has read and approved: the
link the code does not keep.

**Automations.** `next_run_at` is empty, future or due; `job` is one call of
`executeAutomation` with what its caller has read. `InsertRun` and `MarkRunning`
run with the caller's context and may fail with it, the rest with its own. Each of
the four statements of an execution may also fail by itself (`faults`); the code
logs that and goes on. `unended` and `stuck` remember where it was the one that
was to record the end.

**Conversations.** `rows` are the messages of one session. Each statement is a
step; `turn` holds what a turn has read. A call of a provider need not return. The
system prompt and texts are left out; what is too long is open.

**Extensions.** `row` and `name` are the row in `mcp_servers`, `plugins` or
`skills`, `inst` the one in `extension_instances`. `jobs` are goroutines that wait
for the manager's mutex, `adding` the one that has it. `install` and `removal` are
handlers between two statements, `calls` the management requests under way, of
which one server may have several. `Add` refuses the `BadNames`, which no handler
asks about, before it leaves an entry. `lost` and `crossed` are history:
extensions for which an UPDATE or DELETE failed whose error is ignored, and
servers enabled by one request between the UPDATE and the `Remove` of another.

**Providers.** `conn` is the one database connection where it is kept between
steps; `writer` and `readers` are the RWMutex, in which a waiting writer stops new
readers. `loads` tells the entries of one reload from those of the next, since an
outcome is recorded on the entry a call began with. A reload's query may fail, a
row may not be readable, and reading may end early: nobody repeats any of it
(`failed` and `skipped` are history). `Infer` and `InferSecond` need not return.

Names that several modules would share carry a prefix in `Outbox`, `DagExecution`
and `Dispatch` (`DagSpec`, `dagVars`), which a module of theorems extends together
with another one.

## 3. Runs

Eleven runs pass. A mutant of the code that breaks each of the properties is
listed in `PROJECT.json`.

| Run | States | Properties |
|---|---|---|
| `blackboard` | 773,852 | `RowsAgree`: status, owner, lease and toxicity fit. `Fencing`: of all executions of a task at most one passes the pre-check. `SuspendedExempt`: the reaper leaves suspended and compensating tasks alone, also if it had selected them. `VersionMoves`: every change of a row moves its version. `LeaseRefinement`: the blackboard implements `TaskLease`. `ExpiredLeaseEnds`: an expired active task does not stay so |
| `mutation_bus` | 500,895 | `AnswersTrue`: "ok" exactly when committed. `LogRefinement`: the bus implements `CommitLog`, so that an answer is also final and "stale" has a reason. `HashChain`: the events form one chain, but where the read of the last hash failed. `OneWinner`: one of the writers that claim a version wins. `SubmissionOrder`: no overtaking within a priority. `Answered`: everybody is answered before shutdown |
| `outbox` | 74,104 | `NoneSkipped`: no cursor passes a record that did not go through `Process`. `RetryWaits`: retries wait until they are due. `AtLeastOnce`: `OutboxWorker.Run` delivers every record that has a handler at last, unless the UPDATE that keeps it for a retry is lost or the query for retries is full (`Crowded`) |
| `agent_kernel` | 174,222 | `OneDriver`: at most one effect or its trigger is under way. `ExecutesValidated`: no plan is executed that was not validated as it is. `ExecutionsBounded`: executions are bounded by replanning. `DriverHeard`: the trigger that drives a task is dropped only when users have filled the channel. `TaskEnds`: a task nobody interrupts ends, unless a call of the model never returns |
| `dag_execution` | 83,161 | `AtMostOnce`: an effect happens once, over retries, replanning and crashes. `SagaRefinement`: the executor implements `SagaPattern`. `UndoneInReverse`, `AllUndone`: compensation is in reverse and complete. `Returns`: `Execute` returns |
| `dispatch` | 284,492 | `PatternSound`: a pattern that succeeds has its tasks done, a sequential one in order. `StraysCounted`: whoever executes a task without holding it lost it by an eviction. `PatternReturns`: the patterns with a timeout return, whatever orchestrator and kernels do |
| `extensions` | 4,554,048 | `NoDanglingTool`: a tool belongs to a connected server of that name. `DownloaderAtWork`: what is downloading has its downloader, but after a restart or an ignored failure of its last UPDATE. `EnabledIsServed`: an enabled server with a name `Add` accepts has an entry, or somebody is about to see to it, but after a failed DELETE or an update crossed by another |
| `providers` | 1,767,404 | `RegistryIsCurrent`: at rest the registry offers what the tables enable, unless the last query failed, and but for rows that could not be read. `AllReturn`: a provider that never answers holds up nobody else, except by the second call of a failover, in spite of connection and lock |
| `automations` | 1,424,951 | `RunningIsTrue`: what a table calls running has an execution that will end it, unless the process ended or that very UPDATE failed. `DueIsServed`: what is due gets an execution, with the same exceptions |
| `approvals` | 1,162,237 | `RunsApproved`: an attempt runs only on the approval of its own prompt. `WaitersAreInside`: a waiter in the map is inside its call. `SendIsFree`: a send under the mutex never blocks |
| `conversations` | 681,322 | `OnceInOrder`: no message twice, no reply before its question. `TurnsEnd`: a turn that has begun ends, unless one of its own calls of a provider never returns |

One listed run expects a violation, `blackboard_evict`. The other configurations
here do so too: each checks one property that states what a document or comment
says, and TLC shows how the code differs (the findings quote the lines). An
`MCXClaims.cfg` lists several such properties, all but one of them in comments.

| Configuration | Property | What TLC shows |
|---|---|---|
| `MCBlackboardEvict.cfg` (run `blackboard_evict`) | `EvictsOnlyExpired` | a task renewed in the grace period is evicted all the same |
| `MCBlackboardScan.cfg` | `ScanSelectsExpired` | the reaper's query misses leases that expired on the same UTC day |
| `MCMutationBusClaims.cfg` | `CompositeAtomic` | a group is committed without the member that was refused |
| `MCMutationBusClaims.cfg` | `ShutdownAnswers` | accepted intents are dropped without an answer at shutdown |
| `MCMutationBusClaims.cfg` | `ChainIsUnbroken` | a failed read of the last hash starts a second chain in the middle of the log |
| `MCOutboxDead.cfg` | `DeadAfterMaxRetries` | a record that failed as often as allowed is tried again |
| `MCOutboxCrowded.cfg` | `EachIsDelivered` | delivered records fill the query for retries, and a later one is never tried again |
| `MCOutboxMain.cfg` | `EachIsDelivered` | the loop production runs never tries a failed record again |
| `MCAgentKernelDone.cfg` | `DoneMeansComplete` | a task is reported done while its machine is in S_INTERRUPT |
| `MCDagExecutionLog.cfg` | `SuccessIsReal` | a failed call is logged as done, and its retry "succeeds" |
| `MCDispatchScan.cfg` | `TasksEnd` | with the table of `007_tasks.sql` the poll finds nothing, and a task whose event is lost is never settled |
| `MCExtensionsClaims.cfg` | `UninstallIsComplete` | an extension removed during its download leaves row and files |
| `MCExtensionsClaims.cfg` | `RefusedIsNotInstalled` | a server with a name `Add` refuses stays stored and enabled |
| `MCProvidersClaims.cfg` | `RoleIsExclusive` | two requests leave two models with the exclusive role |
| `MCProvidersClaims.cfg` | `EnabledIsRegistered` | a load that failed is not repeated, and an enabled model is not registered |
| `MCProvidersClaims.cfg` | `ReloadsEnd` | a failover whose second call never returns stops the reload for good |
| `MCAutomationsClaims.cfg` | `CronOnSchedule` | a manual trigger makes cron start the automation too early |
| `MCAutomationsClaims.cfg` | `EndIsRecorded` | after a failed UPDATE a row says running without an execution |
| `MCApprovalsList.cfg` | `PendingListsAll` | an answer before the waiter leaves a call that no list shows |
| `MCConversationsLost.cfg` | `ReplacesWhatItRead` | a compaction deletes a message stored since its history was read |
| `MCConversationsStall.cfg` | `AllTurnsEnd` | a channel's turn waits for its provider for ever |

Where a module's configuration is `MCX.cfg` the module to check is `MCX`, or `X`
where there is no such module (`Outbox`, `AgentKernel`, `Conversations`).

### Bounds, and why they are enough

- *Blackboard*: one task (tasks share only the mutex, the reaper and the event
  channel), two agents, two executions: the smallest numbers with a stale owner
  and a new one, also of the same agent. Two evictions for three make the limit
  reachable. No renewal or suspension at or past version `MaxVersion`; the other
  operations lead to a terminal state or count toxicity. One restart. The
  theorems are for all of these numbers.
- *MutationBus*: channels of two and one and batches of two, so that channels
  fill, a batch is cut in the middle of a group and a full batch is flushed
  without the ticker. The callers compete for one version of a key and insert
  the same event twice.
- *Outbox*: four records, one without a handler, batches of two beyond the
  cursor, two retries for twelve, two tries, three failures, one lost UPDATE, one
  restart. Delivered records stay failed and are due for good, so two of them keep
  a third from its retry, as twelve do in the code: the case happens, and
  `AtLeastOnce` excepts it as `Crowded`.
- *AgentKernel*: the code's values of `MaxReplan` and `MaxSteps`; a channel of
  three rather than ten, with two tasks and two interrupts, so that it fills.
  The watchdog is off, as in production (`SystemTier` is never set); switched on
  it sends each trigger twice, and `OneDriver` is violated (finding).
- *DagExecution*: a dependency, two nodes side by side, a retry, a tool that
  asks a human, two compensations of which one has no side effects; two
  executions, one crash, one fault of the log.
- *Dispatch*: two tasks of one pattern, two agents of which one lacks a skill, a
  limit of one active task, push channels of one place: tasks queue, are passed
  over, and pushes are dropped. Two evictions for three. An event of another task
  restarts the patterns' timer in the code; only the pattern's own tasks are here,
  so `PatternReturns` says nothing about a board that never falls silent.
  The run has the column `type`, without which nothing would be dispatched and
  there would be little to check; `MCDispatchScan.cfg` is the production table.
- *Extensions*: two attempts, which is what the unique index and names in common
  need: the same entry installed twice, or two servers of the user; two names, of
  which `Add` refuses one; two management requests, also for one server and at the
  same time; one extension with a failing statement, one restart. The two attempts
  are symmetric, which is sound as the properties are invariants. The theorems
  are for all numbers.
- *Providers*: two providers (one seeded), two models whose names differ in the
  registry (those of the environment collide: finding), two handlers with two
  requests, two clients of the router, one of them with images. A client that
  goes past the router, as the gateway does (`Direct`), neither records an outcome
  nor fails over; the run has none, the theorems allow any.
  Foreign keys are off, as the connection string leaves them.
- *Automations*: two automations, three settings (a schedule with a webhook, one
  that cannot be read, a disabled webhook), two executions, three requests, one
  end, one failing statement. With one handler requests do not overlap each other,
  but they do overlap the executions and the ticks; with a second one the run
  takes too long.
- *Approvals*: an action with one retry, two installations of one package, two
  humans with an answer each, one end of the process.
- *Conversations*: two turns of the page, which compact, and one of a channel;
  two rounds for ten; one deletion, one end; foreign keys off.

Deadlock is not checked where the bounded environment may stop for good; the
liveness properties say what must not stop.

### Fairness

- *Blackboard*: the clock (`Midnight`) and the reaper's goroutine, which a ticker
  drives. Not the workers: they may die.
- *MutationBus*: the writer's goroutine, one weak fairness for all its steps: the
  ticker wakes it and SQLite answers. Callers, lost leases and shutdown are not
  fair.
- *Outbox*: the loop, and the time that makes retries due. A crash is never fair.
- *AgentKernel*: `Run`, each goroutine that sends, and the worker's wait for the
  end: Go schedules them, and a tool call has its 60 seconds. Not the calls of the
  model (`LLMFill`): `agent_execute.go:93` and `140` hand on the worker's context,
  which has no deadline, and the adapters' client sets no overall timeout
  (`safe_dialer.go:87-97`). The worker renews its lease as long as `Run` blocks, so
  the reaper does not help either. Neither users nor new tasks are fair.
- *DagExecution*: the executor's goroutines and the tool calls (60 s timeout).
- *Dispatch*: in the passing run only the pattern's goroutine and its timer
  (`PatternFairSpec`). `MCDispatchScan.cfg` adds the orchestrator's ticker, the
  listen loops with their kernels and the reaper (`DispatchFairSpec`), to show that
  even these do not help. Never the events of posted tasks: they may be lost.
- *Providers*: each handler, and what a client does between its calls. Not the
  calls themselves: the client with 120 seconds (`router.go:283`) is used by no
  method. A waiting writer gets the lock when the readers have gone, as RWMutex
  promises. Nobody has to make a request.
- *Automations*: the ticker, each execution (its context has a timeout of 5 to 60
  minutes), and the end of a process that is shutting down. Neither users, clock
  nor webhooks are fair.
- *Conversations*: the statements of each turn that has begun, not its calls of a
  provider: a channel's turn has `context.Background()` (`channels.go:260`), and of
  the adapters only Google's `StreamInfer` sets a deadline.

## 4. Proofs

`tlapm XProofs.tla` checks each of the eight proof modules to the last leaf. All
invariants and action properties that a run checks are proved for every value of
the constants. What an invariant needs was first checked by TLC. Type invariants
are not listed in the configurations, but proved (`TypeCorrect`,
`OutboxTypeCorrect`, `DagTypeCorrect`, `DispatchTypeCorrect`).

**Blackboard** (assumption: `ConstantsAssumption`, which says of which kind each
constant is). `TypeCorrect` and `RowsAlwaysAgree` are inductive together: most
guards are on the status alone, and the row has to say what the status implies.
`VersionAlwaysMoves` and `SuspendedAlwaysExempt` follow from them step by step.
`AlwaysFenced` does not: an execution whose task was taken away keeps its version,
and nothing in its own state says that it is stale. The invariant is about all
live executions of a task: `TokensBounded`, the version an execution remembers is
at most the row's, and `TokensDiffer`, two of them never remember the same one. A
claim or a start moves the row to a version that nobody can hold yet and remembers
that one; all other operations only move the row further. At most one of different
versions equals the row's, which is what the pre-check asks. `ImplementsLease`
shows that the initial states map to initial states and each step to a step of
`TaskLease` or a stutter.

**MutationBus** (`BusAssumption`, `NilAssumption`: any programs of any number of
callers, any capacities and batch size). All safety properties of the run are
proved. `EventsAreChained` and `ClaimsAreExclusive` follow from the store alone:
`SoundStore` says of the open transaction and of the database that the events are
chained and that the version under a key is as high as any that was claimed, so a
statement that matches claims a higher one. `EventFacts` is what an event adds:
the last hash, or none where its read failed, which is all `HashChain` excepts.
`AnswersAreTrue`, `AnswersAreFinal` and `NobodyOvertakes` follow an intent on its
`Way`. `NotLater(i, j)`, which of two intents a channel accepted first, is the
only thing said about order, and it is reflexive: that the parts of the pipeline
(database, flush, batch, channels) are ahead of one another (`Overtaken`) says at
once that nothing overtakes and that nothing is at two places. `Open` says that
what is on its way has no answer, and `Transaction` that the open transaction has
exactly the part of the batch that it has gone through without the stale ones.

`ImplementsLog` is the refinement. `CommitLog` has no channels, batch, leases or transaction: it
accepts intents in two lanes, turns one down for its lease, lets some fail together
without a trace, or adds a batch to its history in one step (`AddBatch`). Every
intent of the batch must fit what the intents before it left (`Stands`, computed from the
history alone), all that its lane accepted earlier must be dealt with by then, and an intent
told "stale" must be outdated at some place in the batch or belong to somebody who
has a lease to lose. In the bus these are facts of different moments: a statement is
checked against the table of an open transaction, whose history only grows
(`Continues`, `JudgedAsBefore`) and which is what its history makes of an empty table
(`Lawful`); the order comes from `Overtaken`, but only because the writer loses
nothing while it runs (`NoneLost`): whatever has no answer is in a channel, in the batch
or in the flush. `CollectKeeps`, `PollingKeeps` and `FlushingKeeps` prove that part; it
fails when the writer stops, after which nothing is committed any more.

**Outbox** (`OutboxAssumption`, for either loop). That no cursor passes a record
whose handler was not called (`CursorSkipsNone`) is not inductive: a batch is
worked off from its retries behind the cursor to the records beyond it, and its
largest id becomes the cursor. `CursorInv` adds that records are posted without
gaps and that what is not due had its turn (`TableInOrder`), that a batch holds
records that are due (`BatchInOrder`), that whatever lies below a record of the
batch was tried or is in the batch (`Backed`, for which `SmallestIsClosed` says
what LIMIT cuts off), and that up to the largest id so far all were tried
(`MaxTried`).

**Agent kernel** (assumption: `KernelAssumption`; the last two theorems for
`~Watchdog`, as in production). `CountInv` is the argument for
`ExecutionsAlwaysBounded`: as long as a plan may still be executed its replanning
has been counted (`Pending`), and the full count is reached in S_FAILED only. Its
first conjunct, that no effect runs in a terminal state, gives
`TerminalAlwaysStays`. `Control` is the argument for `AlwaysOneDriver` and
`AlwaysExecutesValidated`: there is one driver, an idle machine has none, a
validation that succeeded and is still on its way is of the present plan, and so
is a plan in execution. A trigger that is late, as after an interrupt, is in the
channel or about to be sent; that a stale one finds no transition is the table's
doing (`TableShape`), and with the watchdog it would not be true.
`DriverAlwaysHeard` counts: what is in the channel, about to be sent or still to
come from an effect is at most two for each interrupt and one for each task
(`FewTriggers`), so that a full channel has had that many.

**DAG executor** (`PlanAssumption`, `AcyclicAssumption`). `LoggedFirst` is the
argument for `AlwaysAtMostOnce`: a tool whose log works has acted only if the log
says that it began, and a call for it that got past the log finds that it has not
acted. Two calls cannot have asked before one of them writes, for the theorem is
about tools whose nodes depend on each other (`Serial`; the others are a hazard at
`agent_execute.go:380`), and a node is scheduled only when its dependencies are
done (`Grounded`). `Places` says which position of the executor goes with which
states of nodes and calls, `UndoQueue` that the queue has what succeeded and is
not undone, and before a node all that depend on it. `AlwaysUndoneInReverse` and
`AlwaysAllUndone` follow. `AlwaysOnSolidGround` says of a node that runs what
`StartNode` of `SagaPattern` says of its start.

`ImplementsSaga` is the refinement. A node's state and the set `undone` map to one
work state (idle, running, done, mute, failed, undone: `SagaWork`), the executor's
position to a mode (`SagaMode`). `SagaStep` takes the steps one by one: `SagaWorkMoves` is
for those that change one node, `SagaWorkStays` for those that the abstraction does
not see (a wave is scheduled, a call asks the log or the tool). `UndoneOnce` is the part the
other invariants left out: a node in the undo queue is not undone, so that `SagaWork`
moves when it is, and once only.

**Dispatch** (`DispatchAssumption`). `PatternInv` follows a pattern's news back to
the blackboard: a task has an outcome exactly when it is closed (`Outcomes`, which
nothing changes: `OutcomesAreFinal`), a completion on its way to the pattern is
one (`NewsIsTrue`), the tasks on the blackboard are those the pattern has posted
(`OnBoard`), each of which it waits for or has heard of as done (`Accounted`); the
sequential one leaves a task only when it is done (`InTurn`), and a pattern that
ends well has posted all and waits for none (`Finished`). The tasks of a pattern
are distinct by assumption: a task's id is a primary key, and a pattern given one
twice ends with the error of its second post. `StraysAlwaysCounted` needs finite
sets only (`StraysFew`): an agent that works on a task begins with its lease, and
an eviction takes the lease from one of them at a time. `UsesLease` closes the
composition with the blackboard: every step here is a step of `TaskLease` or
leaves the lease alone, and `Blackboard` implements that same specification
(`ImplementsLease`), so nothing proved here rests on more than the SQLite
blackboard keeps.

**Extensions** (assumption: `ExtensionsAssumption`). `NoDanglingTool` is inductive
with the types, for whoever changes an entry takes its tools first.
`DownloaderAtWork` follows the handler's position. `EnabledIsServed` needs more:
`Places` (which positions of a handler go with which kind of extension, and that a
server that is not installed yet has no row and no request), `PluginCalls`
(requests about plugins are about plugins), `StoppedIsOff` (a server is stopped
without being started again only when its row is off, it has a refused name, or it
was `crossed`) and `OneAdd` (one Add at most holds the mutex). An enabled server
without an entry then always has a job, a request or the uninstaller that will see
to it. Nothing is assumed about how many requests overlap or statements fail; each
exception names the server it is about, and holds for no other.

**Providers** (`ProvidersAssumption`). A reload keeps the only connection from its
query to its last row, so the rows it has read stay true (`Reading`: what is left
to register, with what is registered, is what the tables enable less what could
not be read, `Offered`; `EntriesTrue` and `Complete` are its two halves), and only
one reload is at it (`OneReload`). Whoever changes a table owes a reload, so at
rest the last one has finished after the last change (`Current`), unless its query
failed.

**Automations** (`AutomationsAssumption`). `RunningIsTrue` is inductive with the
types: a mark is made by an execution that is then at work, and the execution that
ends takes it away, or its failing is remembered for that automation (`stuck`) or
that row (`unended`) alone.

**Approvals** (`ApprovalsAssumption`). Two invariants. `Locks` is about the mutex
(`OneSender`: who is about to send holds it alone; `Waited`: a sender has found
its waiter; `RoomForWaiters`: a channel in the map is empty; `WaitersAreInside`):
sending empties the place in the map, so nobody is sent to twice. `Said` is about
which prompt an id stands for (`PendingIsPrompt`, `SeenIsPrompt`, `KeysAreSaid`,
`ChansAreSaid`, `RunsApproved`): an approval on its way to an action, wherever it
is, is one that was given after reading the prompt of that attempt. It holds as
ids of attempts are never used again; for installations, which share one, the
module claims nothing.

**Conversations** (`ConversationsAssumption`). `OnceInOrder` is about the table
alone and is not inductive: what a turn has read comes back when it compacts. The
invariant says of the rows, of every history and of every tail that they are in
order, and that they have no message its turn has not yet said (`Said`); a message
that is about to be written is therefore new.

Only model-checked: the liveness properties, for fairness and ENABLED are out of
the prover's reach.

## 5. Not modelled, and abstractions to know

- Errors of statements that the code ignores or only logs are modelled where a
  property is about their effect: the outbox's UPDATEs, the hash of the last event,
  the executions of automations, the statuses, deletions and rows of extensions, the
  queries of a reload, the action log. Elsewhere a statement succeeds, unless the module says
  otherwise. A commit whose answer is lost is not modelled.
- What a payload, plan, prompt or error says. Policy, taint and validation layers
  are a choice between pass and deny.
- `EventWriteBuffer`'s own ring buffer; the file fallback of critical events.
- The fast path of the kernel's effects and the surprise index (it is constant in
  this code), the token budget (never set), replay mode.
- An agent without a provider (`agent_execute.go:38`), whose `Run` ends with an error:
  all of production have the router.
- That a terminal state is left only by the next task (`TerminalStays`) is proved, and
  checked by no run: the table of transitions has it.
- HITL timeout of suspended tasks: the documents promise it, no code does it.
- Channel pollers (`channels.go:103-147`, `channels/manager.go`): mostly adapters.
  Two overlapping updates of a channel can leave an enabled row without a poller
  or a poller of a disabled one; Telegram's offset begins at zero again, so that
  updates are delivered twice; a message is acknowledged before it is dispatched
  and lost in a crash. A model would need the adapters' promises, which are not
  in this repository.
- `KillSwitch`: only `OnSIGINT` has a caller in production (`main.go:97-109`).
  The resource governor, credential pool, rate tracker, fallback chain and
  semantic cache have none; `main.go:501` makes a scheduler and only prints it.
- Supervisor: a goroutine and counters per child, which nobody shares. A
  worker function that returns without an error is not run again (`tree.go:113`).
- What one work step stands for: in `Automations` a whole execution, in
  `Conversations` a round of inference with its tools, in `Extensions` the
  connection of a server, in `Providers` a call of a model.
- The workers and the patterns of `Dispatch` are built by tests and by library
  callers; `main.go` starts the orchestrator without workers.
- The components with status `not_modelled` in `PROJECT.json`.

## 6. Plan

Done: blackboard and lease, bus, outbox, kernel, executor, dispatch, extensions,
providers, automations, approvals, conversations; proofs of the safety properties
of all eleven. Next:

1. An abstract specification for `Outbox`, an at-least-once queue, and the refinement.
2. `Automations` over `Conversations`: an execution as a turn of its own session.
3. The event buffer's own queue and file fallback.
