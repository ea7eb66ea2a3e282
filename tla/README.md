# Verification of the Tea runtime

TLA+ models of the parts of Tea in which order, failure and concurrency matter:
the session log, the artifact store, the root lane of the session supervisor
with its forks, the operations it drives and their tool batches, the child
agents, and the process-local machinery around them (agent runs, event hub,
compaction, cache warming, credential refresh, HTTP routes, shell commands, the
terminal link). TLC checks them on small
instances; TLAPS proves most of the safety properties for every value of the
constants (section 5).

The definitions follow the Rust code; `PROJECT.json` gives for each one the file
and lines it stands for. Where a comment or a document of the repository says
something the code does not do, a run or a configuration with an expected
violation shows it (see "Findings").

## 1. The system

Tea is a single-session agent runtime. A *session* is an append-only log of
commits plus a store of content-addressed objects. Everything else, model
context included, is derived from the log. A *supervisor* owns one session in
one process and runs *operations* on *lanes* (one root lane, plus forks and
children). An operation alternates provider requests and batches of tool calls
until it has an outcome. Before any external effect an intent is committed;
after it, a result.

    host / TUI / one-shot CLI            EventHub (snapshot + stream)
          |  submit, drive, prompt, resume, abort, close, commands, fork
    SessionSupervisor  (claim per lane, cancellation bit, completion cells)
          |  epochs                      | children: spawn, settle, apply
    Agent run          (request -> stream -> tools -> continuation;
          |             compaction and cache warming beside it)
          |  EffectGate: intent before effect, result after it
    session writer     (JSONL log) + artifact store

### Inventory

| Component | State | Operations | What is hard | What makes it correct |
|---|---|---|---|---|
| Session log writer (`tea-session/jsonl.rs`, `store.rs`) | lines, torn tail, sync point, HEAD cache, flock, per-handle snapshot and fault | create, open, repair, commit in four stages, export, drop | process death, power loss, failed writes, two processes | readable forever; acknowledged commits survive; a handle never appends on a wrong base |
| Artifact store and collection (`artifact.rs`, `gc.rs`) | objects, their sync state, references, plan | put in five stages, plan, apply | equal contents share an object; crashes; stale plans | a committed reference always resolves; collection removes orphans only |
| Lane reducer (`reduction.rs`, `store.rs`) | per-lane inputs, operations, epochs, controls, checkpoints, recovery plan | reduce, incremental append index | the index must accept only what a reduction accepts | one open operation, dispositions final, checkpoints exact |
| Root lane supervisor (`supervisor/mod.rs`, `operation.rs`, `lane.rs`) | durable queue; claim, cancellation bit, agent slot, completion cells, pending continuation | submit, withdraw, drive, prompt, resume, command, idle evaluation, thinking change, abort, close | all calls race the drive; commits fail; crashes | completions truthful and not lost; no lost cancellation; close joins |
| Forks (`supervisor/fork.rs`) | validated snapshot, copied prefix | fork | the log moves between snapshot and commit | a fork holds a closed prefix |
| Operation drive and recovery (`supervisor/mod.rs`, `recovery.rs`, `run/`) | epoch, provider attempt, assistant turn, tool intents and results, activation request | provider request, tool batch, rollover, finish, recovery plan, reconcile | crash at any commit; parallel batches; changed tool declarations | no effect without intent; non-replayable effects once; nothing runs past an unknown outcome; recovery ends |
| Tool scheduler (`run/tool_execution.rs`, `scheduler.rs`) | live futures, callbacks not yet taken, waker, emitted events | announce, prepare, launch, poll, settle, append | callbacks and cancellation from other threads; early drops | ordered events; one result for each call; a cancelled batch ends |
| Agent run state machine (`agent/`, `run/`, `queue.rs`) | phase, active-run slot, steering and follow-up queues | run, continue, steer, abort, reset, wait | separate locks for phase, slot, run and queues | one run at a time; idle is announced; no input lost |
| Automatic compaction (`compaction.rs`, `supervisor/compaction.rs`, `context.rs`) | live transcript, branch, replacement | split, summarise, reserve, commit, publish, overflow retry | cancellation and failure between reservation and publication | the live transcript is what the log derives |
| Agent graph and subagents (`agents.rs`, `runtime/subagents/`, `app/subagents/`) | graph facts, reservations, handles, workspaces | spawn, wait, interrupt, apply, recover | completion before installation; parent finishing first; two runners of one settlement | bounded admission; edits kept; no lost wake-up; a delta applied once |
| Event hub (`runtime/events.rs`) | subscriber buffer, previews, fences | subscribe, publish, receive | bounded buffers, late previews | snapshot and stream have no gap; lag is explicit; settled stays settled |
| Cache warming (`cache_warming.rs`) | plan, generation, request in flight, records | schedule, sleep, refresh, settle | timer and answer against a live request | maintenance never beside or instead of a real request; no use unattributed |
| Credentials (`tea-providers/codex`) | token file, lock, leader flag | snapshot, refresh, login, logout | threads and processes refreshing at once; lost answers | no live refresh token is thrown away |
| Harness lineage and evolution (`harness/`, `evolution/`) | candidates, revisions, experiments | stage, validate, activate, roll back | crash between revision and activation | active revision always reconstructible |
| HTTP client (`tea-http/client.rs`) | slots, interval, cooldown and waiters of a route; deadline and retries of a request | acquire, attempt, retry, drop, cancel | slots given back on every path; wake-ups of waiters | never more requests in flight than the route allows; a free slot is taken |
| Shell commands (`coding/host/process.rs`) | the shell, its process group, capture files | spawn, poll, signal, reap, report | background processes; failures half-way; reuse of a group number | what is reported as stopped is stopped; no other group is signalled |
| Terminal link (`detach.rs`, `cli/headful.rs`, `terminal.rs`) | sent input window, link, decoder, received and consumed counts | attach, deliver, act, hand over, reattach | input is in four places when the session is switched | every key is acted on once |
| Provider formats, Luau host, file tools, presentation, traces | wire formats, interpreter | | external effects | seen here as nondeterministic answers, failures and effects |

The complete list with the status of each part is in `PROJECT.json`
("components"); the places where each part can go wrong are under "hazards".

## 2. Modules

| Module | Contents |
|---|---|
| `DurableLog` | abstract promise of a session: a log, an acknowledged prefix that only grows, and a loss that may take only what was not acknowledged |
| `SessionLog` | `JsonlSession`; instantiates `DurableLog` with its complete lines as the log |
| `SessionLogProofs` | proofs about `SessionLog` and `AppendIndex` |
| `AppendIndex` | how a commit is found to fit the log: the reduction every open repeats, and the index that replaces it for ordinary appends |
| `ArtifactStore` | `FileArtifactStore`, references and collection |
| `StoreProofs` | proofs about `ArtifactStore` and `HarnessLineage` |
| `RootLaneProofs`, `OperationDriveProofs`, `SubagentsProofs`, `RelayLinkProofs` | proofs about the module they are named after |
| `SharedProofs` | proofs about `AgentRun`, `ToolBatch` and `CredentialRefresh` |
| `LocalProofs` | proofs about `CommandRunner`, `RouteLimiter`, `CacheWarmer`, `EventHub` and `Compaction` |
| `RootLane` | input queue, claim, cancellation, controls, continuations, forks and close of the root lane |
| `OperationDrive` | one lane inside its operations: effect gate, batches, recovery |
| `ToolBatch` | the scheduler of one response's tool calls, future by future |
| `Subagents` | the children of one root operation: spawn, task, settlement, tools, crash, resume |
| `AgentRun` | one `Agent` shared by threads, its runs and its input queues |
| `EventHub` | publication and one bounded subscription |
| `Compaction` | a run's transcript, the branch in the log, and what replaces part of both |
| `CacheWarmer` | the warmer polled beside its run |
| `CredentialRefresh` | the Codex credential shared by threads and processes |
| `RouteLimiter` | the requests of one HTTP route |
| `CommandRunner` | one shell command and its process group |
| `RelayLink` | a terminal, its relay, and the runtimes it is handed between |
| `HarnessLineage` | the harness repository the lanes share, its catalogs, activation, reopen and collection |
| `MC*` | the TLC instances; `MCStorage`, `MCWaits`, `MCShared` and `MCLocal` hold several specifications |

`RootLane`, `OperationDrive`, `ToolBatch` and `Subagents` divide one supervisor
between them. In `RootLane` an operation is a black box that ends, rolls over or
is left open; `OperationDrive` opens that box and reduces the queue to "an
operation is accepted"; `ToolBatch` opens the batch, which there completes in
any order, and reduces the effect gate to "the call starts"; `Subagents` opens
the five tools that make and use children, and what a root operation does before
it finishes. All take one commit of the session as one atomic step, which is
what `SessionLog` establishes for a strict session, and treat a failed commit as
the end of the drive, which is what the fault of the effect gate does.

`MCStorage`, `MCWaits`, `MCShared` and `MCLocal` put specifications that share no state into one instance:
the variable `part` chooses one of them in the initial state, the others rest.
The state space is the sum of the parts', not their product.

### SessionLog

A handle walks through `pc`: closed, creating, publishing, ready, body, newline,
sync, head, faulted. `WriteBody`, `WriteNewline`, `SyncAndAdopt` and
`RefreshHead` are the four stages of `write_commit`/`write_complete_line`, each
with its failure; `Fault` is `indeterminate_write`. `Open` and `RepairTornTail`
need the flock. `ProcessCrash` drops a handle in place; `PowerLoss` also cuts
the file to what was synchronised (or more) and may forget an unsynchronised
directory entry. A line is reduced to what the reader checks: canonical bytes,
sequence number, digest of the predecessor; digests do not collide.

### AppendIndex

`log` is the state of `reduce_lane_prefix` and `reduce_agent_graph_prefix` after
the accepted items, `idx` the `SessionAppendIndex`. `Reducible` and `Reduced` are
the arms of the reduction for lanes, entries, operations, epochs, steps, requests,
tool intents, activations, inputs and spawns; `Reopens` adds what is validated at
the end of the prefix. `Covered` and `LocallyValid` are the three answers of
`is_locally_validated_mutation` (not covered, valid, error), `Advance` is
`advance`. A commit of one item (`CommitOne`) takes the index where it covers the
item, a group (`CommitGroup`, used by `accept_prompt` and the spawn of a child) is
always replayed. `Items` ranges over everything a caller may offer, so most offers
are refused. `Reuse` lets a caller choose the identifier of a user message freely.

### ArtifactStore

An object is a directory entry (absent, linked, durable, unlinked) and its
content (cached, synced, torn). `WriteTemporary` ... `SyncDirectories` are the
stages of `put_reader`, `CommitReference` the session commit that uses the
descriptor. `PlanRoots`, `PlanInventory`, `ApplyBegin`, `Remove` and
`SyncRemoval` are the two halves of a collection. `Exclusive` chooses between
the maintenance collection that owns the session and the supervisor's own.
The referenced set stands for session roots and the additional roots together.
Directory synchronisation is assumed to work; the code tolerates file systems
that refuse it.

### RootLane

Durable variables are the reduction of the log: inputs, operations, controls,
revision, leaf, checkpoint readiness, forks. Process-local ones are the claim
holder `drv`, the cancellation bit, the agent slot, completion cells, and the
halves of calls that release the lock in between: a withdrawal that has committed
and not published (`owed`), a handle that is registered and has not read the
status (`look`), a command or thinking change that has observed and not committed
(`cmd`, `think`), a canceller that raised the bit and has not reached the agent
(`aborting`). One drive is at most one claim; its stages are the values of
`drv.pc`. A fork validates a snapshot (`ForkSnapshot`), and commits only when the
log is still the one it read (`SnapshotCurrent`, `ForkCommit`); submissions need
no claim and can fall between the two. `DriveError` is every error return;
`Crash` forgets all that is process-local.

### OperationDrive

Durable: the outcome of each operation, the epoch, the open provider request,
the latest assistant turn with its intents and results, the activation request.
Earlier turns are fully answered when a new one is requested; `broken` records
the one way in which they may not be. The drive is one process whose parallel
batch is a set of live calls that execute and complete in any order.
`RecoveryPlan` is `derive_recovery_plan` in the order of its checks,
`FollowPlan` one turn of the resume loop. `declared` is what a reopened host
says about replay safety, which may differ from what it said before. Call
identifiers are unique. Streaming, hooks, routing and compaction within a run
appear only through their results.

### ToolBatch

`Announce`, `PrepareImmediate`/`PrepareExecute` and `Launch` are the first pass
over the calls; a tool may call back synchronously from `Launch`. A poll of the
batch is `PollLook` (register the waker, look at the cancellation and the
callbacks) and then one of `PollReady`, `PollUpdates` or `PollPending`; between
the two, `Callback`, `ToolReady` and `CancelRun` of other threads happen. After a
cancellation the calls in `batch.await` (`CancellationSettlementMode::AwaitFuture`)
are polled until they end and the others are polled once more and dropped.
`Finalize` and `EndCall` carry the circuit breaker for consecutive retryable
failures; `AppendResult` adds the results in source order.

### Subagents

Durable: the spawn fact and the terminal fact of each child, the root's tool
intent, the application fact. In Git: the child's worktree, its delta reference,
the parent's files. Process-local: the coordinator's reservations, handles,
workspaces, early completions and activity counter (`co`), and where each runner
of the settlement is (`st`). `SpawnStart` ... `SpawnInstall` are the stages of
`spawn_agent` with the point at which a child may finish before its handle is
installed; `Settle*` are the stages of `settle_subagent_task`, run by the child's
task or by the root after it cancelled and joined the task (`InterruptStart`,
`FinishStart`, `CloseStart`, `ResumeStart`); `GhostWork` is blocking Git work
whose task was dropped. A tool call of a child runs on a blocking thread too
(`smol::unblock`, `nonblocking_operations.rs`): when its drive is dropped or times
out nobody stops or joins it. `Abandon` leaves it in `late`, and `LateEdit` lets it
write at any later moment, after the result ref was fixed, after the terminal fact
and, as a shell that outlives the process, after a crash. The worktree tells apart
edits made while the child was driven (`"unsaved"`) from such ones (`"late"`).
`WaitSnapshot`/`WaitCheck`/`WaitWake` are the activity
loop. `ChildEffect`, `ChildEdit` and `ChildResult` stand for the child's own
operation, which is an `OperationDrive` with its own lane. `SpecGate` adds the
error of the root's own effect gate, which returns without settling children.

### AgentRun

Phase, active-run slot, run state and the two queues have locks of their own, so
every critical section is one step and other threads run in between.
`StartClaim`/`StartBusy`/`StartInstall` are `start_run`; `ContinueCheck` and
`ContinueDrain` the prologue of `continue_run`; `Abort*` and `Handle*` the two
ways to stop a run; `Drive*` the turn loop with its drains at the turn boundary;
`Wait*` is `wait_for_idle`, with the registration of its waker between two looks.

### EventHub

Every publication and every subscription takes the hub lock and is one step.
`CommitFact` and `PublishFact` are apart, because a writer publishes after it has
released the session; `Update` may record a preview that `PublishDelayed` delivers
later. `PushBounded` is the ring of fences, `Accepted` the filter they make,
`EnqueuePreview` and `EnqueueSemantic` what a full buffer does; `Filtered` is the
`retain` of these queues. `view` is what an
application derives from the events it receives.

### Compaction

The run keeps `live`, the gate keeps `branch`. `Drain` is a drain of the steering
or follow-up queue with `inject_queued_messages`: a user message joins `live` and
nothing is written, so no entry stands for it and a later run knows nothing of it.
It happens before the first request or the recovered calls of a run
(`InitialDrain`, from the stages `"start"` and `"recover"`) and after every turn
(`AfterTurn`); what it finds is free, because `enqueue_steering` and
`enqueue_follow_up` of the supervisor may put messages there at any time. A
transcript with queued input is not the durable context any more, and
`WriteReplacement` refuses to replace it: the run ends. `ThresholdCompaction` and
`Overflow` start a transaction; `SummaryRequest`, `SummarySettles`, `Reserve`,
`WriteReplacement` and `PublishReplacement` are its stages, with cancellation and
failure between them. `Visible`, `SourceBefore` and `Derived` are the projection
of `runtime/context.rs`, and `Derivable` its `validate_protected_context`. A message of
the projection is named by its entry and its place there (`Places`), and `Derived` puts
each at the position given by how many come before it (`InOrder`), which is the order
`source_ordered_selected_entries` builds by a scan and a sort. A finished batch enters
the transcript behind its last response, in call order and ahead of what was drained
at the start of a recovered batch (`order_recovered_tool_results`).
`RunLost` and `NextRun` throw the live transcript away and rebuild it.

### CacheWarmer

Run and warmer are two futures of one task. A poll of the task polls the run
(`StartRequest`, `Settle`, ...) and then the driver (`LookPlans`, `SleepPends`,
`RefreshSent`, ...); the task is polled again only when it was woken. `Clear`
raises the generation, drops the plan and cancels the refresh in flight.

### CredentialRefresh

`SnapshotStart` ... `LeaderFinish` are one call of `snapshot`/`force_refresh`:
the leader flag between threads, the lock file between processes, the reload
under the lock, up to three sends with answers that may be lost after the server
rotated, the save, the release. `LockGivesUp`, `SaveFails`, `CancelRefresh` and
`AuthCrash` leave it early; `GrantReceived` ... `ClearLogin` are login and logout,
which take neither. The server is external: it rotates or keeps the refresh
token, and refuses one it has replaced.

### RouteLimiter

A request is a future that moves when its task was woken. `Turn` starts an
attempt, `Acquire` takes a slot or registers a waiter and a timer, `PollParked` is
what a poll of the parked future finds, `EndAttempt` gives the slot back and wakes
the waiters, `SettleAttempt` decides about another attempt, `PollSleep` is the
delay before it. `Abandon` drops the future at any await, with the slot if it
holds one; `CancelRequests` sets the token, `Tick` is the clock. Authorization,
encoding, streaming of the body and the choice of the route are left out.

### CommandRunner

`Spawn`, `Look`, `CheckGone`, `Signal`, `WaitGone` and `Output` are the
runner: it polls the shell, the cancellation and the deadline, asks whether the
group is gone, kills it, waits for it and reads the capture files; each system
call may fail. `Forks`, `ShellEnds`, `Departs` and `NumberGivenAway` are the
operating system, which is external; so is the moment at which it gives the number
of an empty group to another one. `captures` says that the capture files are still to
be removed: their removal is tried once and its errors are ignored
(`process.rs:391`), so a result does not promise that they are gone from the disk.
Output limits and the non-Unix path are left out.

### RelayLink

The unit of input is a complete key sequence with its number. It is in the wire,
in the link's buffer, in the decoder, or acted on (`Act`); the relay keeps a
window of what it sent. `Attach`, `SendReplay`, `Type` and `Finish` are the relay;
`ReadGeneration`, `ReadFrame`, `Deliver` and `EndServe` the thread of a connection;
`EnterRemote`, `PollGeneration`, `WaitInput`, `Act` and `LeaveLoop` the event loop;
`CloseWithHandoff` tells the relay how much was consumed, `RuntimeEnds` is the end of
a runtime and `Finish` starts the next one. `RelayGone` and `WriteOutputFails` lose a terminal. Output, sizes,
split key sequences, external programs that are given the terminal for a while
(`terminal.rs:239` starts a new decoder when they return) and the failure to start
a runtime are left out.

### HarnessLineage

`repo` is the `HarnessRepository` all lanes share, `catalog` what the session's
latest `HarnessCatalog` fact names, `sources` the trees whose objects are stored,
`branch` what the log says of each lane (active revision, activations asked for
and entered, rollovers). `ApplySources` and `StageRollback` are the mutating
commands of `tea_harness` up to the candidate, `PersistStaged` and `Schedule` the
rest of `schedule_candidate`; `CloseEpoch`, `ActivateCandidate`, `CommitCatalog`,
`CommitRevision` and `StartEpoch` are a rollover. The last two commits of an
activation hold the session's lock together, but the process may end between
them. What was staged before a refusal stays in `repo`, as in the code.
`HarnessCrash` keeps only what is on disk; `Reopen` restores the catalog, `Resume`
continues the open epoch, the owed activation or the operation. `CollectSources`
is `tea session gc`, plan and removal under the writer lock (`ArtifactStore` has
the two halves apart). The unresolved outcome of an interrupted tool call and the
choice of a recovery plan are `OperationDrive`'s; here an interrupted operation
may go on or end.

## 3. Runs

Passing runs:

| Run | Bounds | Shows |
|---|---|---|
| `log_strict` | file: 2 processes, 3 commits, strict, durable rename; index: 4 commits to a new session or to one in the middle of an operation, 3 entries, 2 operations, 2 lanes, 2 epochs, 2 steps, 1 request | readable log, exact handles, no acknowledged commit lost, refinement of `DurableLog`; what the index accepts reopens, what it refuses would not |
| `root_queue` | 2 inputs, 2 operations, 1 configuration change, 1 crash | completions truthful and not lost, batches atomic, dispositions final |
| `root_controls` | 1 input, 2 operations, 2 controls, 2 revisions, 1 change, 1 fork, 1 crash | checkpoint exactly when no control is pending; a fork copies a settled turn of the log it validated |
| `root_cancel` | 2 inputs, 2 operations, abort and close at any point | no lost cancellation, close returns |
| `drive_effects` | 2 operations, 3 responses, 2 calls each, 2 failures, all tools and stop reasons | intent before effect, at most once, unknown outcomes block, completion is settled |
| `drive_recovery` | 1 operation, 3 responses, 2 calls, 2 failures | every open operation is finished eventually |
| `agents_settle` | 2 children, both may run at once, 1 host error, 1 crash | what a child did while driven survives, a finished root leaves no child, waiters wake, a delta is applied at most once and reported as it happened |
| `waits_live` | 2 children, 1 crash; or 2 calls, 1 callback each, limit of 2 retryable failures | ordered batch events, a cancelled batch ends, a call that settles children ends |
| `shared_parts` | agent: 2 callers, 2 runs, 1 message; credentials: 2 threads of one process and a second process, 3 calls, 3 credentials, 1 lost answer, 1 crash; harness: 2 lanes, 4 trees of which one is broken, one denied and one rejected, 3 mutating calls, 2 operations, 1 crash, 1 rollover per operation; artifacts: 3 contents, 2 lanes, collection under the writer lock | one owner, idle wakes its waiter; no live token lost; what every lane's active revision and owed activation refer to is in the catalog and in the store; references resolve durably and a collection leaves exactly the referenced objects |
| `local_parts` | hub: 2 lanes, 1 run, 2 subjects, buffer of 2, 1 fence, 2 commits; compaction: batches of 0 or 2, 1 compaction, 1 overflow retry, 1 queued message in a transcript, 3 turns, 2 runs; warmer: 3 requests, 3 refreshes; command: 2 background processes; route: 2 requests, 1 slot, interval of 1, 1 retry, clock up to 2; relay: 1 terminal, 4 units, window of 2, 3 runtimes | no gap between snapshot and stream, settled stays settled, no lost notice; the live transcript without its queued input is the durable one; maintenance stays subordinate; a group reported as stopped is stopped; the limit of a route holds and no slot leaks; input is acted on once across handoffs (`docs/crash-isolation.md:52`, "exactly once") |

Two more configurations pass and are kept for use by hand:
`RootLane_hooks` with `MCRootLane` (`TypeOK`, `OneOpenOperation`, `HooksRunOnce`: one
open operation, idle hooks run once for each settled turn) and
`SessionLog_development` with `MCSessionLog`: without synchronisation the log stays
readable and only a power loss takes back an acknowledged commit. `RootLane_cancel`
also passes with `PROPERTIES ClosedIsQuiet AbortEndsDrive` in the place of its own.

Why the bounds are enough. Two processes and three commits give a commit before,
at and after a crash with another process in between; two crashes in a row need
no more, since a crash leaves only the file. For the index, four
commits are enough to spawn a child, end its operation and offer its lane another
one, and to record a step, its request and its settlement. Two lanes and three contents give a
shared object, an orphan and a collected one at the same time. Two inputs form a
batch or two operations, and let one be withdrawn while the other is accepted.
Two operations are the one at hand and the one that inherits its leftovers. Two
calls are a call and a sibling, in both orders and in both batch modes. Two
failures allow recovery to be interrupted itself. Two children are the one a call
is about and one that changes beside it; a host error and a crash may hit the
same settlement. A buffer of two overflows with previews and with facts, a single
fence is evicted by the second subject, and a preview can be delayed past both.
Two callers and two runs give every pair of an ending and a beginning run. Two
threads make a leader and a follower, and the second process a competing leader.
Three turns put a compaction between a parallel batch and a later request, and one
queued message falls before, between or behind each of them. Two
background processes are one that stays in the group and one that leaves it. Two
requests for one slot give a holder and a waiter, and the clock reaches every
deadline. Three mutating calls in two operations of two lanes are an activation,
a refused or second one beside it, and a rollback. Four units with a window of two push units out of the window, and three
runtimes are two handoffs in a row, the second with input of the first replayed.
`InputOnce` also holds with two terminals, two units and two runtimes
(`TerminalsSeparate` does not; section 4).

The runs of `RootLane` switch host calls on and off (`HostCalls`) so that each
question gets deep bounds for the calls it is about; together they use all.
Processes, children and callers are interchangeable, and the runs
without a temporal property use that symmetry.

Deadlock is checked for the log and `agents_settle`: there a root can
always take another step until it is finished or closed, after which it may
reopen or stutter. In the other runs it is not: a closed supervisor, a finished
batch, or a part whose bounds are used up has nothing left to do.

Fairness is assumed in three runs. In `root_cancel` the host keeps polling a drive
that has begun and a `close` that has begun, calls that released the lock finish,
and a run whose agent was aborted returns; the run of a live agent need not end,
and no error is ever assumed to happen.
In `drive_recovery` the host polls the drive, calls `resume` while an operation
is open and reconciles an effect of unknown outcome; providers and tools
answer. The code is driven by polling, so nothing less makes it move, and
failures are bounded. The run uses well-formed responses only (calls come with
the tool-use stop reason), because `OperationDrive_truncated` and
`OperationDrive_stream` show that other ones do not recover (section 4).
In `waits_live` the executor polls futures that were woken, blocking Git work
ends, and the drive of a child ends, because its deadline is armed with it. A
tool whose future is awaited after a cancellation settles; a tool whose future is
dropped need not. The cancellation itself is not assumed.

## 4. Findings

Two runs expect a violation; `PROJECT.json` quotes both sides.

| Run | What happens |
|---|---|
| `compaction_cover` | a parallel batch settled out of call order; the compaction that follows covers a range that leaves one of its results visible, and the branch cannot be projected again |
| `agents_late` | a child is interrupted while its tool call runs on a blocking thread; the dropped future neither stops nor joins the call, the root finalizes and settles the child, and the call writes to the worktree afterwards: the edit is in no result ref and goes with the worktree |

Further configurations are kept for use by hand; each ends in a counterexample.
The module to give TLC is named in the table
(`tlc -config AppendIndex_reuse.cfg MCStorage`).

| Configuration | Module | Property | What happens |
|---|---|---|---|
| `AppendIndex_reuse` | `MCStorage` | `AcceptedReopens` | a user message is committed by the index under the identifier a tool intent keeps for its result; the log no longer opens. The runtime derives its identifiers and does not do this; `SessionWriter::commit` accepts it |
| `RootLane_inherit` | `MCRootLane` | `FreshOperationUncancelled` | a cancellation raised while the claim holder has no operation cancels the next, unrelated operation |
| `RootLane_rollover` | `MCRootLane` | `ControlRevisionActive` | a control queued before a rollover of its operation is never applicable again and blocks every later drive |
| `RootLane_checkpoint` | `MCRootLane` | `ControlCheckpointable` | an input accepted after an operation finished ends checkpoint readiness and makes its last control uncommittable |
| `RootLane_yield` | `MCRootLane` | `ContinuationYields` | an input accepted after the queue decision waits behind an automatic continuation |
| `OperationDrive_stream` | `MCOperationDrive` | `ContextStaysPaired` | a response that ends in an error leaves unanswered calls behind which the next prompt is accepted |
| `OperationDrive_batch` | `MCOperationDrive` | `ContextStaysPaired` | a cancelled parallel batch leaves a replay-safe sibling unanswered for good |
| `OperationDrive_truncated` | `MCOperationDrive` | `Recovers` | an interruption before the refusal of truncated calls leaves an operation no resume accepts |
| `Subagents_outlive` | `Subagents` | `EditsKept` | an error of the root's effect gate returns without settling the children; the supervisor's fate then decides about their edits |

The following need only a line of a configuration changed. Take `Shared_parts.cfg`
with `MCShared`, `Local_parts.cfg` with `MCLocal`, `SessionLog_strict.cfg` with
`MCStorage`,
`OperationDrive_effects.cfg` with `MCOperationDrive` or `Subagents_settle.cfg` with
`MCSubagents`, and put the property in the place of the invariants and properties.

| Configuration | Property | Change | What happens |
|---|---|---|---|
| `SessionLog_strict` | `ReopenDecides` (a PROPERTY) |  | a strict open takes an unsynchronised complete line for history and does not synchronise it, so a later power loss takes it back; `docs/session-format-v1.md` lets the reopen decide |
| `SessionLog_strict` | `ExportManifestExact` |  | `export_to` does not ask `writable()`: a faulted handle exports a file longer than its manifest says |
| `Shared_parts` | `ReferencesDurable` | `Exclusive = FALSE` | a plan applied by an idle supervisor removes an object that became referenced after planning |
| `OperationDrive_effects` | `MixedBatchRejected` |  | a mixed batch interrupted while it is being rejected is recovered as a smaller one and runs; `run/tool_execution.rs:64` promises that no call of it begins |
| `OperationDrive_effects` | `ActivationHonored` |  | recovery completes an operation whose harness activation is still pending |
| `Subagents_settle` | `CleanedBeforeFinish` |  | after a crash between terminal fact and cleanup, recovery skips the settled child and the root finishes with its worktree still there; `docs/subagents.md` puts cleanup before the finish |
| `Shared_parts` | `SettledIsIdle` | | an aborted run is settled while its agent still counts as running it (`run/mod.rs:2858`) |
| `Shared_parts` | `UnrelatedRunProceeds` | | an abort that read the slot of an ended run cancels the next one (`agent/mod.rs:1000`) |
| `Shared_parts` | `InputKept` | | `continue_run` drains a queue before `start_run` finds the agent busy; the drained messages are dropped (`agent/mod.rs:686`) |
| `Shared_parts` | `LogoutHolds` (a PROPERTY) | | a refresh under way saves its replacement after a logout removed the credential (`codex/auth.rs:200`) |
| `Shared_parts` | `CatalogRestores` | | `apply` stages a tree before the extension engine looks at it (`resolver.rs:691`). A refused tree stays in the repository without a snapshot and is in the next catalog; `artifact_roots` (`lineage.rs:474`) covers trees of snapshots only, so `tea session gc` removes its objects, and `from_catalog_json` (`catalog.rs:102`) reads the files of every tree: the session can no longer be reopened, verified or exported. `docs/artifact-recovery.md:38` counts "harness catalog and immutable source-tree objects" among the roots |
| `SessionLog_strict` | `AckedSurvives` | `RenameDurable = FALSE` | on a file system whose renames need a parent sync, a session left by an interrupted creation is opened and used without that sync |
| `Local_parts` | `OwnGroupOnly` | | once the shell is reaped and its group empty, the number may belong to somebody else's group, and cleanup kills that one; `process.rs:157` says "That group is this invocation's only kill target" |
| `Local_parts` | `FreeSlotTaken` | `Interval = 0` | a request that waits for a slot is woken when one is given back, but `StateNotification::poll` is always pending (`client.rs:620`) and nothing else is armed before the deadline: it does not take the slot and times out. The route of the web tool has four slots and no interval (`app/durable.rs:1394`); a batch may have eight addresses |
| `Local_parts` | `TerminalsSeparate` | `Terms = {t1, t2}` | input of a terminal that was dropped as too slow is delivered under the generation of the one that took its place (`detach.rs:371`); `docs/crash-isolation.md:37` |

## 5. Proofs

Every theorem is about the specification the runs check, for every value of the
constants that its module's assumption allows: any numbers of processes, inputs,
operations, children, crashes and so on. The assumptions give the constants their
types and keep names apart that the code keeps apart by construction (`"root"` is
no child identity, `"base"` no tree of a candidate); what else a theorem assumes is
in the table. Each proof has the same shape: an
inductive invariant, one lemma per action that the action preserves it, and the
properties as consequences. Where a property is not inductive, the paragraph
says what the invariant adds and why the property needs it.

### The session log (`SessionLogProofs`)

| Theorem | Statement | Assumes |
|---|---|---|
| `TypeCorrect` | `Spec => []TypeOK` | |
| `LogInvariant` | `Spec => []IInv` | |
| `Readable` | `Spec => []LogReadable` | |
| `HandleExact` | `Spec => []ReadyHandleIsExact` | |
| `AckedDurable` | `Spec => []AckedSurvives` | `Strict`, `RenameDurable` |
| `Refines` | `Spec => ImplementsDurableLog` | `Strict`, `RenameDurable` |

`LogReadable` is
not inductive: that a line fits its predecessor depends on the handle that
writes it. `IInv` adds who holds the lock and that at most one process does
(`LockInv`); how far each stage has taken the file beyond the holder's snapshot
and that a prepared commit is sealed for exactly that snapshot (`StageInv`); that
the log is readable and the synchronised prefix is part of it (`DiskInv`); and
that what was acknowledged lies within the synchronised prefix (`AckInv`, which
needs strict mode and durable renames; section 4 shows why). `HandleExact` is the
first stage of `StageInv`: nobody else writes while the lock is held, so a ready
handle's snapshot is the file. The refinement
maps a newline to `Join`, adoption to `Acknowledge`, a power loss to `Lose`, and
everything else to a stutter.

### The append index (`SessionLogProofs`)

| Theorem | Statement | Assumes |
|---|---|---|
| `IndexIsExact` | `IdxSpec => [](idx = IndexOf(log))` | |
| `RefusalsAreJustified` | `IdxSpec => []RefusalJustified` | |
| `AcceptedAlwaysReopens` | `IdxSpec => []AcceptedReopens` | `~Reuse` |

Neither property is inductive, since both depend on what the index holds. The
invariant `ExactInv` says that it holds exactly what the reduction knows: `IndexOf`
gives for a reduced prefix, field by field, the index an open would build, and `idx`
is always that one, switched on. `Known` adds the references inside the log that the
reduction follows (an operation's lane, the call of a result). For each kind of item
one lemma shows that `Indexed` and `Reduced` go on together, and one that the
shortcut `LocallyValid` and the reduction `Reducible` ask the same; a group is grown
item by item (`Sound`) from a prefix that reopens. What the reduction validates at the
end of the prefix, results and activations, is outside the index. A user message
committed by the shortcut leaves it alone because the runtime made its identifier
(`Minted`), and that is the only place where `~Reuse` is used: with `Reuse` the third
theorem is false (`AppendIndex_reuse`), the other two hold. The
assumption `AppendIndexAssumption` says that the markers `"none"` and `"empty"`,
for which the code has `Option`, are no identifiers.

### The artifact store (`StoreProofs`)

| Theorem | Statement | Assumes |
|---|---|---|
| `StoreTypeCorrect` | `Spec => []TypeOK` | |
| `ReferencesStay` | `Spec => []ReferencesDurable` | `Exclusive` |
| `CollectsOrphans` | `Spec => []CollectionExact` | `Exclusive` |

The invariant `StoreInv` adds that
content is synchronised before it has an entry (`ContentInv`), that a returned
descriptor names a durable object and only an active drive publishes
(`PublishInv`), and that a collection runs with nobody driving, over roots that
are still the session's, with exactly the planned rest left in the store
(`CollectInv`). Without `Exclusive` the second theorem is false (section 4).

### The root lane (`RootLaneProofs`)

| Theorem | Statement |
|---|---|
| `LaneInvariant`, `LaneTypeCorrect` | `Spec => []IInv`, `Spec => []TypeOK` |
| `CompletionsTrue` | `Spec => []CompletionTruthful` |
| `CompletionsOnTheirWay` | `Spec => []NoLostCompletion` |
| `BatchesAtomic` | `Spec => []BatchAtomic` |
| `TurnsForkable` | `Spec => []CompletedIsForkable` |
| `AbortsReachTheRun` | `Spec => []NoLostAbort` |
| `SingleOperation` | `Spec => []OneOpenOperation` |
| `IdleHooksOnce` | `Spec => []HooksRunOnce` |
| `DispositionsFinal`, `ForksFromSettled`, `CloseIsQuiet` | the action properties `DispositionFinal`, `ForkFromSettled`, `ClosedIsQuiet` |

One invariant serves all of them. `OpsInv` orders the operations: one starts only
after the one before has an outcome. `DriveInv` says for each place of the claim
holder which operation it drives and in what state, that the lane is idle where it
decides, that no control is pending once it went past them, and that a closed and
joined supervisor has no holder. `ControlInv` ties pending controls to the latest
operation, without which a checkpoint could be written for an operation a control
still waits for. `InputInv` ties the disposition of an input to the outcome of its
operation; `CellInv` adds what a withdrawal still owes; `AbortInv` has the agent in
its slot from the installation to the end of the run; `HookInv` has the durable
idle claim before the callbacks. `CompletionTruthful` alone is not inductive: a
drive publishes an outcome it took from its operation, so the operation must
already have it. A fork commits against a snapshot it took without the lock:
`Place` records what that snapshot is still worth, and the comparison in
`SnapshotCurrent` does the rest.

### The operation drive (`OperationDriveProofs`)

| Theorem | Statement |
|---|---|
| `DriveInvariant`, `DriveTypeCorrect` | `Spec => []IInv`, `Spec => []TypeOK` |
| `IntentFirst` | `Spec => []EffectHasIntent` |
| `NeverRepeated` | `Spec => []NeverAtMostOnce` |
| `CompletesSettled` | `Spec => []CompletedIsSettled` |
| `IndeterminateHeld` | the action property `IndeterminateBlocks` |

`EffectInv` counts executions against intents: a non-replayable call that has been
executed is not among the live calls still to be executed. `BatchInv` makes a batch
a partition of the unanswered calls into those to prepare, live ones and immediate
ones, with no non-replayable intent among the first and the last; this is what keeps
a resumed batch from starting such a call again. `StageInv` says what each place of
the drive has settled, and above all that a drive gets past its recovery plan only
when every unresolved intent is of a replay-safe call.

### Child assignments (`SubagentsProofs`)

| Theorem | Statement |
|---|---|
| `SettlementInvariant`, `SubagentTypeCorrect` | `Spec => []IInv`, `Spec => []TypeOK` |
| `ChildEditsKept` | `Spec => []EditsKept` |
| `RootFinishesLast` | `Spec => []RootSettles` |
| `WakeupsKept` | `Spec => []NoLostWakeup` |
| `AppliesTrue` | `Spec => []ApplyTruthful` |

The pipeline has two runners, and the proof is about which of them may be where.
`Stage` says what holds of a child at each stage, whoever runs it. `TaskInv` says
of a task that it is alone until it has written the terminal fact, that somebody
can join it (its handle is in the coordinator, or its spawn is about to install it),
and that blocking work left behind belongs to a task that ended. `SettleInv` says
that past its join a call meets no running task (`Rests`), and what a finishing
root still has to settle. `CallInv` and `SpawnInv` tie the root's stage to its call
and drive, `WaitInv` relates the snapshot of a waiter to the generation it read, and
`LogInv` is the durable part: what was edited while the child was driven is in the
result ref once there is one (only `"late"` edits may follow it), and a terminal fact
repeats what the ref says. `EditsKept` needs the
whole of it, since a second runner that came early would clean up an unfinished
child. `WorktreeEdited` and `LateEditInv` show that abandoned calls, which may write at
any time, do not disturb this; that nothing at all is outside the ref
(`CompleteResult`) is false (`agents_late`, section 4). The theorems are about `Spec`; for `SpecGate`, in which the root's gate fails
and nobody settles the children, they are false (`Subagents_outlive`).

### The harness lineage (`StoreProofs`)

| Theorem | Statement |
|---|---|
| `LineageInvariant`, `HarnessTypeCorrect` | `HarnessSpec => []HarnessInv`, `HarnessSpec => []HarnessTypeOK` |
| `Recoverable` | `HarnessSpec => []HarnessRecoverable` |

`SourceInv` has repository and catalog closed under what revisions and candidates
refer to, their snapshots in the store, and the catalog inside the repository of a
running process; `LaneInv` says how far the object of each lane's stage has got:
a scheduled candidate is in the catalog, an activated revision too before the
branch names it. The proof covers collections between any two of these steps.

### Agent, tool batch and credential (`SharedProofs`)

| Theorem | Statement |
|---|---|
| `AgentInvariant`, `AgentTypeCorrect` | `AgentSpec => []AgentInv`, `AgentSpec => []AgentTypeOK` |
| `SingleOwner` | `AgentSpec => []OneOwner` |
| `WaiterWoken` | `AgentSpec => []IdleWakesWaiter` |
| `BatchInvariant`, `BatchTypeCorrect` | `BatchSpec => []BatchInv`, `BatchSpec => []BatchTypeOK` |
| `BatchIsOrdered` | `BatchSpec => []BatchOrdered` |
| `CredInvariant` | `CredSpec => []CredInv` |
| `RotationsSafe` | `CredSpec => []RotationSafe` |

For the agent, `DutyInv` says that exactly one party has the duty to settle a run:
the caller that claimed it, its drive, or the one caller that cancelled it before
its drive began; `ClaimInv` that runs are claimed in order. For the tool batch,
`OrderInv` is the order itself, stated over the places of events in what was emitted;
to keep it, `SeqInv` and `ParInv` say for each place of the scheduler which calls have
started, ended and been answered, and `UpdateInv` that a call which has ended is closed
to callbacks while anything may still be emitted, and that what it called back before
was emitted before its end: without it a late update could follow an end. For the credential,
`LockInv` has at most one leader under the lock file, `TokenInv` keeps a login's
token apart from every other until it is installed, and `RotationInv` says that
neither the file, nor what a leader presents, nor what an answer brings is a token
whose replacement was saved.

### Command, route, warmer and event hub (`LocalProofs`)

| Theorem | Statement |
|---|---|
| `CommandInvariant`, `ClaimsTrue` | `CmdSpec => []CmdInv`, `CmdSpec => []ClaimedStopped` |
| `RouteInvariant`, `QuotaKept` | `RouteSpec => []RouteInv`, `RouteSpec => []RouteQuota` |
| `WarmInvariant`, `RefreshSubordinate` | `WarmSpec => []WarmInv`, `WarmSpec => []MaintenanceSubordinate` |
| `HubInvariant`, `HubTypeCorrect` | `HubSpec => []HubInv`, `HubSpec => []HubTypeOK` |
| `FactsOnce` | `HubSpec => []SnapshotThenFacts` |
| `SettledWorkStays` | `HubSpec => []SettledStaysSettled` |
| `NoticesNotLost` | `HubSpec => []NoLostNotice` |

A command's claim is true when the runner gets to its output, not only when it
reports (`RunnerInv`), because the group may still gain members before. The quota of
a route is inductive once every request keeps its shape; `QuotaKept` is about
cardinalities of any finite set of requests. For the warmer, `FlightInv` ties the
refresh in flight to the place of the driver, `AccountInv` balances usage, and
`WakeInv` has what will poll a settling run.

The hub's `HubInv` has five parts besides the types. `SeenInv` ties what the hub has
seen of a run to the run's own place, and `DelayInv` says that a preview still to be
published whose subject is done is older than that: this, not the bounded fences, is
why a late preview cannot revive settled work. `LineInv` orders the queue: what an
event in it ends is over, and no preview is behind the end of its subject, which
would show the subject again after the consumer was told it is over. `FactInv`
(`Placed`) puts every fact after the snapshot in exactly one place: with its writer,
in the queue, or delivered. `NoticeInv` is the wake-up with what it needs about a
lagged or absent subscription. An event changes the queue by filtering and appending;
the lemmas about `Filtered` (`FilteredIs`, `Carried` and its three) show once, by
the least counterexample on the length (`Least`), that it keeps the order and every
fact, and the parts of the invariant follow for any such change (`CarriedLines`,
`CarriedPlaced`) and for taking an entry off the front (`TailLines`, `TailPlaced`).

### Compaction (`LocalProofs`)

| Theorem | Statement |
|---|---|
| `TranscriptIsDurable` | `CmpSpec => []LiveIsDurable` |
| `CompactionTypeCorrect` | `CmpSpec => []CmpTypeOK` |
| `SequentialRebuilt` | `CmpSpec => [](~ParallelTools => AlwaysRebuilt)` |

`LiveIsDurable` compares the transcript, its queued messages taken out
(`DurablePart`), with the projection at the request boundaries
only; in between they differ, and `CmpInv` says by how much (`StageInv`): a streamed
response is one message ahead, a written replacement is the projection but not yet the
transcript, and during a batch the transcript up to its last response is the projection
of the branch up to that response (`OpenAt`), whatever results are already appended.
A branch either is `Broken` (a replacement left a result whose call it covers, the
violation of section 4, after which no projection succeeds and the property claims
nothing) or has distinct places in source order (`Orderly`) and a
visible part that is its end (`Suffixed`). `Closed` says that a later run finds no
unanswered call, so that it may add a user message.

The projection of a branch of any length is never computed. `InOrderLists` shows
that counting what comes before gives a listing of a finite set along a strict order,
`OneList` that there is only one, and `DerivedGrows` that entries placed behind all
others append to the projection; so a message appends itself (`AppendMessage`), a
finished batch appends its results in call order although the branch has them in any
order (`SettledDerived`), and a replacement of everything visible is the projection
(`Replaced`). On the transcript's side, `DurableConcat` adds messages with entries to
both, `DurableQueued` adds queued ones to the transcript alone, and
`LastResponseWithin` says that neither results nor queued input move the last
response. A replacement consists of messages with entries only (`ReplacementType`),
because it is written only when its source is the projection.

`SequentialRebuilt` says where the violation of `AlwaysRebuilt` comes from. When calls
settle in their order, branch order is source order (`Aligned`), a response other than
the last has all its results (`Resolved`), and those of the last are of its first calls
(`Prefixed`); then the last entry in source order is the last of the branch, a
replacement covers all of it, and the branch stays projectable through every lost run.

### The terminal link (`RelayLinkProofs`)

| Theorem | Statement |
|---|---|
| `InputActedOnce` | `RelaySpec => []InputOnce` |
| `RelayTypeCorrect` | `RelaySpec => []RelayTypeOK` |

A unit of input is at one moment acted on, in the decoder, in the link's buffer, held
by a thread, in the wire, or only in the window of a relay that will send it again, and
`InputOnce` is about the first of these places only. The invariant `RelayInv` is about
all of them. For each terminal (`TrackInv`), what was acted on, what is ahead of the
application (`Ahead`) and what its connection still carries (`Stream`) are in order
and without overlap (`OrderOf`); what the relay sent and what it will replay end with
the unit typed last (`SentOf`); before a replay is sent nothing of the terminal is on
its way (`FreshOf`, with `AttachedOf` for who may have a thread or the link). The two
halves of a handoff meet in the count: the link's count covers all that arrived on
this connection (`CountOf`), so that what a relay is told was consumed is no less
than what was acted on (`PendingOf`), and its replay begins behind that.
`AloneInv` is the part that forbids skipping. It holds while the other
terminals never attached and the window was not overrun, and makes
the count exact: acted on, ahead and carried follow each other without a gap. With a
second terminal it is false, because input can be counted for the wrong connection
(`TerminalsSeparate`, section 4); acting at most once and in order survives even
that. `TuiInv` has the decoder counted when the loop is left, `OnePending` at most one
relay between two runtimes. Each action is shown once as a change of one terminal's
track, with lemmas about consecutive units (`FromConcat`, `FromSuffix`). The
assumption asks for one runtime at least; numbers of terminals, units and runtimes and
the size of the window are arbitrary.

### Only model-checked

Every invariant and action property of a passing run is stated by a theorem.
All liveness (`CloseJoins`, `Recovers`, `SettlementEnds`, `CancelEndsBatch`,
`AbortEndsDrive`) is outside what the proof system handles.

## 6. Not modelled

The map covers about 12.5% of the implementation's lines. The rest is mostly
code in which the order of steps is not the question: encodings and validations
of records, provider wire formats, presentation, configuration, interpreter
bindings. In detail:

- The JSON codec, digests and format limits of the log, abstracted to what the
  reader accepts.
- Repeated tool-call identifiers in one response: results are matched to the
  first position (`supervisor/mod.rs:5905`); the models give every call its own.
- The manual `CompactionHandle` and the size estimates of compaction; they appear
  as free choices.
- Hooks, observers, model routing and nested tool calls of a run.
- The evolution store and the comparison of experiments: a single file with one
  writer. What a source tree contains and how a snapshot is compiled from it; in
  `HarnessLineage` a tree is good, refused by the engine, denied by the host's tool
  authority, or rejected as a candidate.
- Provider adapters, the Luau interpreter, file and search tools, and the terminal
  application apart from its link (`app/durable.rs` included, which wires hosts and
  supervisors together): external effects or presentation, which occur only as
  nondeterministic outcomes.
- Authorization and the exchange of an HTTP request, and process control on other
  systems than Unix.

Observations made on the way that no property states: an error of the gate in
`commit_replacement_durably` leaves a compaction without a terminal lifecycle
record, and an error of its port emits the terminal record but no end event;
`StaleSource` cannot be produced by the automatic path; `spawn_agent` drops its
reservation lease before the handle is installed (`coordinator.rs:414`), which is
why `Subagents` has the early completion; with a rollover budget above one a second
change in the same operation is still refused, because `schedule_candidate` compares
it with the operation's first request even when that one is resolved
(`harness_tool.rs:601`; the host's budget is one); applying again the sources of an
ancestor is recorded as a rollback (`lineage.rs:673`); a commit of the evolution
store that fails after its rename leaves a file newer than the store in memory,
which the next commit overwrites (`evolution/store.rs:390`).

## 7. Plan

1. `OperationDrive` with repeated call identifiers; the evolution store.
