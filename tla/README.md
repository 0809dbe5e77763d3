# Verification of the geo-agent platform

TLA+ models of the server of the geo-agent platform (`src/`, a TypeScript
monorepo), the TLC configurations that check them on small instances, and TLAPS
proofs of what matters most for instances of any size. File names below are
relative to `src/`; `server/` stands for `apps/server/src/`.

1. [The system](#1-the-system): inventory, state, interactions, hard parts
2. [The modules](#2-the-modules): what models what
3. [The runs](#3-the-runs): bounds, results, findings
4. [Fairness](#4-fairness)
5. [The proofs](#5-the-proofs)
6. [What is left out](#6-what-is-left-out)
7. [The plan](#7-the-plan)

## 1. The system

A single Node process (`apps/server`) serves HTTP and a WebSocket control plane,
runs agents, and owns a PostgreSQL database and a runtime directory. PostgreSQL
is the ledger; what is on disk is named by content hash or is a projection of a
row. The process is the only writer: its in-memory queues are its locks, and a
crash destroys them all. A Python worker (`apps/worker`) computes without state.
An Electron desktop and an operations console are clients. A supervisor
(`packages/operations-supervisor`) starts and restarts the processes.

### Components

| Component | State | Operations | Hard parts | What makes it correct |
|---|---|---|---|---|
| **Run steering** `server/agent/runSteeringController.ts`, `server/store/postgres/runInputRepository.ts` | rows of inputs with a sequence number; cursor, lease, next sequence of the run; the window (`acceptingRuns`) and a queue per run | enqueue, lease, acknowledge (by checkpoint), requeue, try to claim the end, close | clients that resend; a message between the last check and the end; a crash with a batch leased | nothing accepted is lost, repeated or answered over |
| **Run executor, goal loop** `server/agent/runtimeSdkExecutor.ts`, `runtime.ts`, `turnRunner.ts` | RunState, session, objective revision, goal | segments of the SDK Runner, model input filter, checkpoint, candidate, judge, recheck, finalise, cancel | every await is a point where a message, a cancellation or a crash gets in | a verdict belongs to the newest objective; a request holds exactly the messages its revision counts |
| **Admission, resume, recovery** `runTaskManager.ts`, `runResumePolicy.ts`, `runStore.ts` | active runs, run status | start, resume, continue after approval, recover orphans | partially written state, one executor per run | a restart neither repeats nor forgets |
| **Checkpoints** `runCheckpointRepository.ts` | RunState blob, cursor, pending tool calls | save SDK checkpoint, save run checkpoint | several ledgers in one transaction | atomic with what it acknowledges |
| **Tool ledger** `toolCallRecoveryLedger.ts`, `toolExecutionCoordinator.ts`, `runtimeTranscriptProjector.ts`, `subAgentToolFactory.ts` | `pendingToolCallIds` in memory and in the row; a chain of mutations | book, dispatch, settle, accept a checkpoint | two writers of one durable set, failing writes, lost replies, calls that outlive their sub-agent, calls the SDK makes by itself | an effect in doubt is booked; no effect is repeated |
| **Publication section** `server/store/objectPublicationCoordinator.ts` | counter of publishers, flag of the collector, two queues | publish, collect | hand-over by callbacks, writer starvation | exclusive, no lost wake-up, no overtaking |
| **File lifecycle** `fileLifecycleService.ts`, `fileStore.ts`, `fileObjectRepository.ts`, `objectReferenceRepository.ts`, `conversationObjectGarbageCollector.ts` | rows (pending, ready, deleted), metadata files, objects by hash | upload, retire, copy, delete, collect | rows, metadata and objects change one after the other; retries; purges; crashes | a ready row is readable; no object somebody needs is collected |
| **Threads, transcript** `threadStore.ts`, `threadMutationQueue.ts`, `conversation/*` | threads, append-only entries, memory versions | trash, restore, purge, fork, append | poisoned queue after a failed write; purge in two stores | a purge leaves nothing, an append is not lost |
| **Meteorology route** `routes/meteorology.ts` | data set rows | upload with compensation | a second step outside the section | a data set pins its object |
| **Tool gate** `runToolConcurrencyGate.ts` | shared and exclusive lanes, waiting list | acquire, release, nested calls | deadlock of nested exclusive calls, starvation, sub-agents that run out of time | exclusion, order, progress |
| **Sub-agents** `subAgentControlPlane.ts`, `subAgentRuntimeSupport.ts`, `subAgentToolFactory.ts` | the agent's status, a row and an event for each control, the invocation in memory | submit a follow-up or a cancellation, put instructions together, claim the outcome, pause, resume, reject what is left | events are read before an await and rows changed after it; a control arrives while the outcome is claimed | a model is told once and in the right call; an accepted cancellation decides |
| **Approvals** `runtimeApprovalPersistence.ts`, `ws/decisionCommand.ts` | list of approvals | persist, decide, consume | two devices decide; several interruptions of one turn | each is decided once |
| **WebSocket plane, item streams** `ws/subscriptions.ts`, `handler.ts`, `store/runStore.ts` | live streams with cursors, reserved delivery slots, capture queue, limits | change an item, push, subscribe, capture, deliver, cut off | asynchronous snapshots among pushes; slow clients; streams that start anew | no gap, no reordering |
| **Client projection** `packages/conversation-presentation/src/streamProjection.ts`, `apps/desktop/src/` (`useRunState.ts`, `controlGateway.ts`) | items with cursors, buffered updates, one synchronization | merge a snapshot, apply an update, ask again | replies decoded beside pushes, a second snapshot that does not fit | what is shown is what the server has |
| **Automations** `automations/*` | run records with node states, queue jobs, a registry of tasks, schedules | start, dispatch, execute, pause, answer, cancel, reconcile | jobs delivered again, crashes between a record and its effect, requests of two devices | no effect is repeated, no run forgotten |
| **Supervisor** `packages/operations-supervisor/src/supervisor.ts` | services, starts in flight, restart budget and timers, leases | start, stop, restart, exit, probe, recover leases | a late exit of an older child; timers and starts beside a stop; a crash with services running | one watched process per service, a stop that tells the truth |
| Startup check, memory notes, context assembly, security, GIS, worker, views of the user interfaces | — | — | sequential, or pure computation | — |

### How they interact

A client sends `run:start` or a steering message over the WebSocket. The task
manager registers an executor; the executor opens the steering window, runs
segments of the SDK Runner, and before each model request writes a checkpoint
(acknowledging what the last one delivered), leases new messages and puts them
into the request. Tool calls go from the SDK through the coordinator, which books
them in the tool ledger; the stream of SDK events is consumed beside them. An
answer is a candidate until it is checked against queue and goal; the steering
controller then claims the end in one synchronous step. Uploads, forks,
checkpoints, thread memory and map projections put objects by hash inside the
publication section; the purge of a thread collects what nobody refers to, alone
in the section. What changes in the items of a run is pushed to its subscribers, and
snapshots are captured between the pushes; the client merges both by their cursors.
An automation run goes through a queue of jobs in the database; its agent nodes are
runs like any other. After a crash the server recovers orphaned runs from the rows,
and refuses to start if rows, metadata and objects disagree.

## 2. The modules

| Module | Models | EXTENDS / INSTANCE |
|---|---|---|
| `RunMailbox` | abstract: what a run promises to whoever steers it | |
| `RunInputs` | steering, executor, goal loop, checkpoint, resume, recovery, crash of one run | instance of `RunMailbox` |
| `RunInputs_proofs` | its proofs | `RunInputs` |
| `ToolLedger`, `MCToolLedger` | the tool ledger, its three writers, dispatch and settling of calls | |
| `ToolLedger_proofs` | its proofs | `ToolLedger` |
| `ObjectPublication` | the publication section; also the abstract specification of the section as its users see it (`GateSpec`) | |
| `FileLifecycle`, `MCFileLifecycle` | rows, metadata and objects of files, composed with the section | `ObjectPublication` |
| `FileLifecycle_proofs` | its proofs and those of the section | `FileLifecycle` |
| `ToolGate` | which tool calls of a run may execute together; calls of sub-agents under their lease | |
| `ToolGate_proofs` | its proofs | `ToolGate` |
| `SubAgents` | follow-ups and cancellations of an agent used as a tool | |
| `SubAgents_proofs` | its proofs | `SubAgents` |
| `Automation`, `MCAutomation` | one automation run: record, queue job, executor, requests, reconciliation | |
| `Automation_proofs` | its proofs | `Automation` |
| `Supervisor`, `MCSupervisor` | the services of a machine and what starts, watches and stops them | |
| `Supervisor_proofs` | its proofs | `Supervisor` |
| `RunStream` | the items of a run on their way to a client, and their projection there | |
| `RunStream_proofs` | its proofs | `RunStream` |

Throughout, an action is one database transaction, one file operation, or the
synchronous code between two awaits. Each operator marked `Seeded fault` or `A slip` is the
wrong version of the action or helper below it; no specification uses it. It
records the bug that the property named in the project file detects.

### RunInputs

Durable variables are the columns of the run (`status next cursor lease hasBlob
blob asked objRev goal`) and its input `rows`; the others live in the process and are
reset by `Crash`, those of the executor also by `Close`. `since` and `lost` are history:
no action reads them. A message is its sequence number; a RunState or a session is the
set of sequence numbers it holds.

- Steering: `Enqueue` is the transaction of `enqueueRunInput`; `EnqueueDone` the
  synchronisation of the objective and the projection of the item, `EnqueueFails`
  their failure after the row is stored, or a lost reply. The per-run queue of the
  controller is held meanwhile (`enq`); `SlotFree` says it is free. `SteerIdle` and
  `SteerClosed` are the answers outside the window.
- Executor: `pc` walks through `MarkRunning`, `Open` (with `Requeue`), the filter
  (`Checkpoint`, `LeaseInputs`, `Stage`), the stream (`CallTools`, `EndStream`,
  `Interrupt`), the candidate (`Snapshot`, `Repair`, `BeginJudge`, the verdicts), the
  terminal claims, `Settle`, `Complete`, `ExtractMemories`, `Close`. `Abandon` is an
  exception at any await.
- Environment: `Launch` (start, resume, approval), `Cancel` and `CancelGoal` (the
  two writes of a cancellation), `Decide`, `Crash`, `Restart`. `Decide` asks for a pending
  approval and a run without a task, as `acceptApprovalDecision` and
  `decisionCommand.ts:50-61` do; neither looks at the status, so a run that was cancelled
  while it waited, or failed with a second approval open, is queued again (`Reopen` of
  `RunMailbox`).

Abstractions. The status in memory and in the row is one variable. The verdict of
the judge and the need for a repair are choices (the code caps repairs at two for a
revision; the model does not). Which of `interrupted` and `requires_action` a
recovered run gets is a choice here and decided in `ToolLedger`. One cancellation
is in progress at a time. A failure of the goal write after an interruption was
flushed is left out. If the flush of the finalizer fails, the run keeps the status
`running` without an executor: that is modelled.

The session of a resumed run. `assembleThreadContext` leaves the entries of the run out
(`excludeRunId`, `runtimeAssembly.ts:234`), and whether the SDK, which is not in the
repository, puts the messages of a restored RunState back into it is not said: `Open`
takes both. If it does not, the first segment after the resume has all messages (they are
in the RunState), and the next segment, started from the session, lacks those acknowledged
before the resume; its checkpoint makes that durable. `AckedInputsDurable` and
`RequestHoldsItsObjective` state what holds for every SDK: nothing is missing except in
that case, and then only what was acknowledged before the resume (`lost` is the cursor at
that resume, set by the new segment and by nothing else). The comment at
`fileAgentsSession.ts:69-71` promises replay to every later segment; that reading is
`AckedInputsReplayed`, violated under `RunInputs_replay.cfg`. It is not listed as a
finding because it depends on the SDK.

### ToolLedger

`booked` is `pendingToolCallIds` of the row, `ledger` the set in memory, `ops` the
serial chain of mutations. `Apply` is one operation of the chain, `WriteFails` its
failure, whether or not the write took place (a lost reply). `Checkpoint` removes
calls with results from the durable set in the transaction of the checkpoint and
queues the acceptance. A call goes from `Ask` or `AskInner` through `Dispatch`
(booking), `Start`, `Finish`; MCP and sandbox calls start without booking, and
`Project` books them when the stream event is consumed. After a failure of the run,
calls in flight go on; so do calls of a sub-agent that has ended. `Resume` is
guarded by `assertRunCheckpointResumable`. The events of one turn are a set (their
order does not matter to the ledger); the event "started" that a call writes before
dispatch is part of `Start`. The initial pending state of a call that waits for an
approval is not modelled. Bound: `Start` at most twice per call, enough to see a
repetition.

### ObjectPublication and FileLifecycle

`ObjectPublication` has the four private operations of the coordinator as actions
and `GateRestart` for the process's end. `publishing` and `sweeping` are the callers
inside, which the code does not keep: the properties compare them with its counter
and flag. All waiting publishers are resolved together, so they are a set; the
collectors are a sequence.

`FileLifecycle` conjoins these operations with its own steps. `row` is
`platform_file_objects.status` ("none": no row), `meta` the files with a
`metadata.json`, `disk` the objects, `dataset` the files of ready data sets. An
attempt is an upload (or its retry) or the copy of one file by a fork:

`Admit` -> `Reserve` (insert, or the row of the same request) -> `Enter` the section
-> `Publish` (object, metadata) -> `Promote` (one transaction: this version ready,
the others of its thread and key deleted; then the section is left) -> `Clean`, one
retired file after the other -> for a data set `Index`, or `IndexFails` and `Undo`.

A purge is `PurgeRows` (database first), `EnterCollector`, `PurgeFiles`, the
reference queries `ListFiles` and `ListDatasets` in either order with anything in
between, and `Sweep`, which may stop half way. `Delete` and `Unlink` are the two steps
of a deletion by a user.

Abstractions. Operations of `RuntimeFileStore` in one thread are serialised by its
scope queue, so object and metadata are one action, with a failing variant
(`PublishFails`) that leaves the object; the two file operations of a copy stay in the
section, where no object is collected. Leaving the section is joined to the
transaction before it: nobody else can tell the difference. The scan of metadata by
the collector is at one instant; if a file vanishes under it, it throws
(`PurgeFails`). Reading and marking a row in `delete` are one step, since only a
deletion of the thread's row could come between. The references that run records,
checkpoints, transcript and thread memory hold are left out: their objects are other
contents. An attempt that ended is `idle` again, so a client may resend with the same
request id. Data sets are never removed. The start-up check, which may refuse to
start after a crash, is not: the model always restarts.

### ToolGate

`activeShared`, `activeExclusive` and `waiting` are the fields of the gate; `lease` is
what `AsyncLocalStorage` hands down (a call without a parent is its own lease),
`tail` the promise chain `nestedExclusiveTail` as the calls hanging on it. `phase` is how
far the code of a call is: in the queue or the chain, reading the authorization,
about to be dispatched, executing, settled with its lease still to be given back.
`Call` and `CallInner` are `run` with and without a parent; `Pump` is the synchronous
loop that lets calls in, part of `Acquire` and `Release`. `Refuse` is a failed
authorization; `RefuseOrphan` the coordinator's refusal of a tool whose sub-agent has
ended. `GiveUp` is a sub-agent that reaches its time limit: its operation throws
while calls it made are under way.

Abstractions. Which lane a tool asks for is a choice; `toolExecutionLane` is a pure
function of its definition. A nested call is a tool: sub-agents are not given to
sub-agents, so there is one level of nesting. A shared nested call is not ordered
with an exclusive one of the same lease (`run` starts it at once), so the exclusion
is stated between leases, and for the chain within one. Each sub-agent has an
identity of its own; the coordinator looks it up by its name, so that a second call
of the same sub-agent may let an orphan of the first one pass. Losing the right to
run tools is for good. The gate lives as long as the executor of the run, so there is
no crash in it. `MaxInner` bounds the calls of one sub-agent, as its turns do.

### SubAgents

One agent of a run, whose calls come one after the other. `status`, `controls` (the
status of each control's row) and `bound` (the call that its event names) are the
run's state and events; `active` and `pending` are the maps of the control plane;
`queue` is the serial queue of mutations of the run's state.

- A control: `Submit` (a cancellation takes hold in memory at once), the row
  (`WriteControl`), transcript and event (`LogControl`), or a failure.
- Instructions and rejections read the events first (`ReadBindings`) and change the
  rows when their turn in the queue comes (`Consume`, `RejectQueued`).
- A call: `Begin`, `Enter`, `Start` or `Resume`, then `Turn`, `Again`, `Settle`, the claim
  (`Claim`, `Pause`, `Orphaned`), `Close`, `WriteOutcome`, `Finish`. `FinishRun` is the end of
  the run's executor at any moment.

Abstractions. A mutation is computed and takes effect in one step, as nothing else
writes the state in between. Handoffs and the stall timer are left out; the timer's
effect, an error at any moment, is `Settle("error")`. `told` and `returned` record
what the model and the parent saw.

### Automation

`row` is the record of the run with its execution state, `orch` the orchestration run
it points to, `job` the queue's jobs; `registry`, `worker` and `client` are in memory. Each
await is a step boundary, and what was read before it is in a `seen` field.

- The queue: `Deliver`, `Expire` (a job that lasts more than 1800 s), `Failed` (two retries).
- The executor: `Load`, `Track` (the registry admits one task for a run), `Interrupt` (a
  node that was running when the process died is failed, not repeated), `Orchestrate`,
  `Enter`, the loop `Look` - `Claim` - `Act` - `Effect` - `Save`, and the ways out: `Pause`,
  `Bury`, `Drop`, `Close`, `Complete`, `Fail` with its two further writes.
- Requests of the devices: `Start`, the dispatch with its failures, a cancellation in
  four steps (`CancelJob`, `CancelOrchestration`, `CancelRow`, `AbortTask`), `AskAnswer` and
  `Decide`. `Crash`, `Restart` and `Reconcile` (a queued record is sent again).

Abstractions. What a node computes is a choice of its port. The queue (pg-boss) is
external: a job is delivered, expires, and is retried twice. A job may expire under a
handler that runs on, as its definition may last longer than the queue waits
(`overruns`, at most `MaxOverruns`; with crashes at most `MaxFaults`), and an answer is written as late as its device likes,
over whatever question the run then asks. Each write of a whole execution state (`FailRow`,
`Decide`) is compared with the record it replaces: the nodes on which the two differ
(`Stale`) are collected in the history variable `undone`. Schedules, runs that are
attached to a conversation, and retries inside an agent node are left out.

### Supervisor

`rec` is the record of a service, `attempt` its `startPromise` with those who wait for
it, `op` the operation in progress, `closing` the handlers of closed processes that are
writing the lease file, `probe` the health monitor, `lease` the file. `proc`, `event` and
`told` are the operating system: processes by generation, exits not yet reported,
signals sent. Two history variables say what became of leases: `doubted` is the process
whose lease the running supervisor could not verify, `lost` are those whose supervisor
died before it had written the lease, met a recovery that could not read it, or was
itself in doubt of it.

- Operations: `StartTarget`, `StopTarget`, `RestartTarget`, worked off by `StopSingle`, `Kill`,
  `Closed`, `CloseTimeout`, `Released`, `StillHeld`, `LeaseStop`, `StartNext`.
- A start: `DepsHealthy` or `NeedDep`, `Spawn` or `PortTaken`, `LeaseStart`, then `Healthy`,
  `Superseded` or `StartTimeout`. An exit: `HandleClose`, `AfterClose`, the restart `Timer`,
  `Forget` (the window of the budget). `Monitor` and `GiveUpOn` are the probes.
- Environment: `Bind`, `Exit` (a wrapper may leave a descendant with the port), `OrphanEnds`,
  `Crash`.
- Recovery: `RecoverNothing` (lease file or process table unreadable: a warning, the file
  stays until the next write, nothing is told) or `RecoverLeases` (any leases may fail to
  match the process under their PID: those services are in conflict, state `unverified`,
  and are not told; the file is removed). A start refuses such a service for as long as the
  supervisor lives, as the test at `supervisor.test.ts:410` wants it.

Abstractions. Process groups are one process and possibly one orphan; a kill that
fails is a signal that is ignored. The code's state `conflict` with the kind
`unverified_lease` is a state of its own. `crossed` marks services for which a stop met an
automatic start that had not created its process yet: what the code does then is a
finding below, and the properties are about all other histories.

### RunStream

Server: `rows`, `live` (the stream in memory with a sequence number for each item), `op`
and `due` (mutations between row and stream), `slots` (delivery slots, some reserved),
`capture` (the one under way). Client: `view`, `ready`, `pending`, `sync`, `fate`. Between
them `wire`. An item is a status and the length of its text; a delta carries its
offset, so equal lengths mean equal texts.

- Items: `WriteMessage` then `ApplyMessage`; `Delta`; `StoreInput` (in the transaction of
  the input ledger) then `ProjectInput`. The run: `Complete`, `Reopen`, `Touch`, `Crash`.
- Delivery: `Push`, `PublishRun` and `HandleSubscribe` reserve slots; `ReadRows`, `Settle`,
  `CaptureFails`; `Drained` is what leaves the FIFO; `CutOff` is the end of a connection.
- Client: `TakeUpdate`, `TakeSnapshot`, `TakeAnswer`, `TakeFailure`, `TakeConnected` over
  `Accept`, `Abort` and `Applied` of the projection; `Synchronize` asks once more, then gives up.
  `Replayed` applies the buffered updates one after the other.

Abstractions. The client is the `synchronize` of the effect in the desktop's hook, with its
listener in place. Not modelled: the hook's other readers. `hydrateRun`, which opens a run, and
`refreshActiveRun` and `finishRun` over it (`useRunState.ts:547-604`, `649`) take an answer without
`beginSnapshot`: nothing is buffered meanwhile; updates pushed before the effect has
mounted its listener (720) are dropped; an answer that does not fit is ignored (566); and the
run counts as subscribed (565), so the effect does not synchronize (757). What is lost
that way stays lost until the next snapshot, a gap in a text or a reconnection, and
`SettledIsCurrent` says nothing about it. `Rebased` takes the run of a snapshot as it is, where
`mergeRunLifecycleProjection` (293-303) keeps a newer or final one: in histories taken in order
that is the same. The console shares the projection but
synchronizes in its own way and is not modelled, nor are `run.event` pushes, byte
limits and the time-out of a request (45 s; a lost connection fails a request the
same way). Replies may be taken out of turn with pushes, as the desktop decodes them
beside each other (`Takeable`); `swapped` records it. `MaxSlots` is the code's limit of
4096, here 2; the other bounds name how much may happen.

## 3. The runs

Two workers, on an ordinary machine.

| Run | Instance | Distinct states | Time |
|---|---|---|---|
| `RunInputs` | 2 messages, goal with one recheck, 2 approvals, with fairness | 1,036,624 | 140 s |
| `ToolLedger` | a tool, a sub-agent with one inner call, an MCP call | 50,737 | 3 s |
| `ToolLedger_native` | the same | violation, 7 states | 1 s |
| `FileLifecycle` | 2 threads, 2 versions of one file and its copy, 2 uploads (one with a data set) and a copy | 1,530,357 | 90 s |
| `ToolGate` | 4 calls, one of them a sub-agent with up to 3 calls, with fairness | 28,884 | 15 s |
| `SubAgents` | 1 follow-up, 1 cancellation, 2 calls, 2 begins, 2 turns, 1 failing write, with fairness | 1,136,792 | 45 s |
| `Automation` | approval, guarded tool, agent node, output; 2 handlers, 2 devices, 2 requests, 3 jobs, 1 crash or 1 overrun | 4,200,628 | 160 s |
| `Automation_live` | the same, without overruns, with fairness | 708,098 | 70 s |
| `Automation_resume` | the same; 1 request | violation | 2 s |
| `Supervisor` | 2 services, budget 1, 2 operations, 1 exit, 2 crashes, with fairness | 573,684 | 130 s |
| `RunStream` | 1 streamed item, 1 steering item, 2 slots, 2 rows written, 1 delta, 1 disturbance, with fairness | 193,693 | 80 s |
| `RunStream_torn` | the same | violation | 5 s |

**RunInputs** checks `LedgerConsistent` (cursor, lease and rows tell one story),
`NoDoubleDelivery`, `AnswerCoversInputs` (no answer over an unread message),
`VerdictIsCurrent`, `AckedInputsDurable`, `RequestHoldsItsObjective`, and that the run
refines `RunMailbox` (`MailboxSpec`), and the liveness `QueuedInputIsDelivered`. Deadlock is checked. Two messages are needed for one batch to be leased while the
other arrives, and for a superseded answer followed by another; one recheck reaches
both verdict paths and the exhausted budget. Three messages bring no new kind of step; the proofs cover the rest. Two
approvals leave one pending while the run goes on after the other.

**ToolLedger** checks `EffectInDoubtIsBooked`, `EffectRunsOnce` and `CompletedIsQuiet`: a run
never completes while a call of it, or of a sub-agent that has ended, is on its way.
`LedgerIsDurable` (what the process believes pending is pending in the database, whichever of
the two writers is last) is part of the inductive invariant and proved. The instance has
one call of each kind: calls of one kind meet only in the two sets and the chain, and the
proofs are for any number.

**FileLifecycle** checks `ReadyIsReadable`, `MetaHasContent`, the three properties of
the section (`Exclusion`, `NoLostWakeup`, `NoOvertaking`) and `DatasetKeepsContent`. Two
threads are two collectors, so one can wait behind the
other; three attempts let two publishers be inside while a third waits; the copy
shares the object of its source. Two attempts for one row (a duplicated request)
were explored in an instance of their own and are covered by the proofs. `Crash` is
always possible, so the absence of deadlock says nothing there; `NoLostWakeup` is
the property that matters.

**ToolGate** checks `NoMissedWakeup`, `OperationExclusion`, `NoOvertaking`,
`RevokedNeverRuns` and the liveness `CallSettles`. Four calls let one execute, two wait,
and a third arrive, or a sub-agent hold two calls in its chain while another call
waits. Three calls of a sub-agent refill its chain once. A second sub-agent and a
fifth call were explored once (five minutes, no new result); the proofs cover any
number.

**SubAgents** checks `SubAgentsInv` (types, the invocation in memory, the order of row and
event, what "cancelling" and the outcome in the row mean), `ToldOnlyItsCall`,
`CancelDecides` and the liveness `QueuedIsSettled`. A follow-up and a cancellation interact
only through the row of the agent; the second call is where a late one would do
harm, the second begin of a call is its resume. By hand: 3 begins with 1 turn
(3.9 million states) and 3 begins with 2 turns and no failing write (2.2 million).

**Automation** checks `AutomationInv` (types; one executor in the registry; that what it will
write agrees with the record but for nodes a stale write has changed; and, until a job has
expired under its handler, that no running record's job is done or exhausted),
`EffectStartedOnce`, `GuardedRunsOnApproval` and the action properties
`StaleWritesHaveCause` and `EndedRunStaysEnded`; **Automation_live** the liveness
`QueuedRunIsTaken`. Both allow answers as late as can be, and the first what the queue
allows as well: two handlers of one run, of which it has given one up. The safety
properties hold of every node whose record no stale write has changed, and
`StaleWritesHaveCause` says where such a write comes from: an overrun or an answer that
meets another question, and nothing else. What the code does wrong there is shown by
`Automation_overrun` and `Automation_late` (below).

The graphs have each kind of node that behaves in a way of its own and both branches of an
error; the approval before the guarded tool makes two questions. Two devices are two
answers, or an answer and a cancellation; three jobs are the first dispatch, one after each
answer; one overrun brings the second handler. `MaxFaults` = 1 takes a crash or an overrun,
not both, in one behaviour. Handlers and devices are interchangeable, which the safety run
uses as symmetry. By hand: `Automation_tool.cfg`, the graph without the first approval with
1 request, 2 jobs, a crash and an overrun (4,467,312 states), and `QueuedRunIsTaken` with
overruns (that graph with 1 request and 2 jobs, 670,622 states; the short graph with a
crash, 248,789).

**Supervisor** checks `SupervisorInv` (types; states that agree with the handle, the
handle with the newest process, the lease file with the handle; and that what a stop has
seen of its process is so until it reports), `NoStrayProcess`, the action property `StopEndsProcess` and the liveness `OperationSettles`. Two services,
one of which needs the other, give a start that waits for a start; two operations are
a start and whatever comes beside it. `MaxProcs = 4` keeps no process from being created:
two operations, an exit and a restart come to fewer. Two crashes let a recovery that read
nothing be followed by one that reads what was left, and a doubted process outlive the
supervisor that doubted it. `NoStrayProcess` says of every living process that it is held, or
was told to end, or that its service is in conflict because of it; what it exempts is
`lost`, a history variable: `NothingIsLost`, without the exemption, is violated (below).

**RunStream** checks `StreamInv` (the inductive invariant of section 5, with what follows
from it: the head of a waiting FIFO is a slot whose capture is under way; no text is
missing before what is taken in order),
`SettledIsCurrent`, the action property `NoRegression` and the liveness `SyncSettles`. Two
slots let a push wait behind a reserved slot, and a third one cut the client off. One
disturbance is one of: a continuation, another change of the run, a lost connection, a
failing capture, a crash. By hand, safety only: 3 slots (300,615 states), 3 rows
(1.65 million), 2 disturbances (3.7 million).

### Findings

Three are runs with a counterexample, quoted in the project file.

- `ToolLedger_native` (`NoResumeInDoubt`): an MCP or sandbox call is dispatched
  before it is booked; a crash in between leaves a run that may be resumed and
  repeat it, against invariant I-05 of the architecture.
- `Automation_resume` (`RefusedOnlyWhileRunning`): the registry keeps a task for five
  minutes after its end; an approval answered within them makes the resumed run fail
  as already running.
- `RunStream_torn` (`RepairedIsCurrent`): an item read from its row has the cursor 0, and
  so has its first change in a new stream. A client that took the first refuses the
  second, and the snapshot that should repair it is refused for the same reason.

Further configurations, each with a counterexample, are kept to be run by hand
(`tlc -config <cfg> <module>`):

| Configuration, module | Property | What the code does |
|---|---|---|
| `RunInputs_final`, `RunInputs` | `TerminalStatusIsFinal` | `cancel` (`runtime.ts:241-257`) has no guard on the status; a cancellation during the extraction of memories turns `completed` into `cancelled`, although the user is told that a terminal run is not rewritten (`runResumePolicy.ts:57`) |
| `RunInputs_replay`, `RunInputs` | `AckedInputsReplayed` | if the SDK does not put the messages of a resumed RunState into the session, the first segment after a resume has them and the next one does not; its checkpoint loses them |
| `RunInputs_retry`, `RunInputs` | `RetryIsIdempotent` | a client that resends a stored message while the run is finishing gets an error although the message was taken: the item fence is closed before the window |
| `FileLifecycle_dataset`, `MCFileLifecycle` | `DatasetHasContent` | the row of a data set is inserted outside the publication section and without looking at the file again; its object may have been collected. `DatasetKeepsContent` is the weaker property that holds: once in place with its file ready and no collection at work, it keeps its object |
| `FileLifecycle_purge`, `MCFileLifecycle` | `PurgeIsFinal` | an upload that waits at the section behind the purge of its thread writes metadata afterwards, which nothing removes; the next start of the server refuses it |
| `ToolGate_timeout`, `ToolGate` | `ExclusivityIsKept` | a sub-agent whose time is up gives its lease back while an exclusive tool it called may still execute; the next call is let in beside it. `OperationExclusion` leaves out the calls of a sub-agent that was given up |
| `SubAgents_early`, `SubAgents` | `RejectedIsForeign` | the row of a follow-up is seen before the event that binds it, and the instructions of the very call it was sent to reject it as foreign |
| `Automation_overrun`, `MCAutomation` | `NodeNotRerun` | a definition may last 86,400 s, its job expires after 1800 s (`jobQueueService.ts:67`) and is delivered again; the second delivery is refused by the registry, its failure writes the node states it read (`automationRunner.ts:594-615`), and the first handler, which has executed a node in between, reads those and runs the node again, against `automationRunner.ts:227` (no automatic second run, to avoid repeated side effects) |
| `Automation_late`, `MCAutomation` | `AnswerMeetsItsQuestion` | `scheduledTaskService.ts:371` expects the status `waiting_approval` but not the identity of the approval that line 307 compares, so an answer checked against one question is accepted for the next, whose own state it overwrites |
| `Supervisor_stop`, `MCSupervisor` | `StopIsTrue` | a stop of all services works one after the other; a later one whose wrapper exits meanwhile is marked stopped by its close handler (590), and `stopSingle` then skips the wait for its ports (639) while a descendant holds them, against the comment at `supervisor.ts:717-720` |
| `Supervisor_lost`, `MCSupervisor` | `NothingIsLost` | a supervisor that dies between the creation of a process and its lease, or whose lease cannot be read, leaves a process that no later one tells to end; one in doubt is shown, but only until the supervisor dies too |
| `RunStream_late`, `RunStream` | `LateIsCurrent` | an answer decoded after the events of a newer stream takes the client back to the older one, as only pushes are decoded in order |

Other behaviour of the code that the models show, and that a reader should know:

- Automation. After an overrun a failed record can be set to running again by the
  handler that the queue gave up; and after an overrun or a late answer a node may run
  twice, since the stale write sets it back to pending. A cancellation that is refused
  at its last write has already cancelled the job and the orchestration run, and the
  executor goes on. A running record whose job was cancelled, or never sent, stays
  running after a crash; so does one whose handler died three times, once more than
  the queue retries (`retryLimit` 2): its job is failed, and the reconciliation sends
  only queued records again.
- Supervisor. `AutomaticStartIsWanted` is violated: an automatic start in flight creates
  the process of a service stopped meanwhile (line 474), and the restart of a dependent
  starts a dependency whose budget is used up (601). A start whose dependency fails
  stays `waiting_dependency` and nobody retries it.
- Sub-agents. A follow-up whose event is written just after `finish` read the events stays
  queued for good. A cancellation that reaches a call waiting to resume leaves its row
  `cancelling` (`subAgentRuntimeSupport.ts:306`). A cancellation whose row cannot be written
  still aborts the call. A control whose event was not written cannot be sent again.
- Streams. With larger bounds, text is missing in the client after a failed
  synchronization, and when a pushed snapshot ends the buffering of a request that is
  still under way: the hook ignores what does not fit while it synchronizes, and the
  answer repairs it. An item taken as completed from its row may be seen running again
  under the cursor 1 of a new stream. In the console `respondDecision` and `resume` begin
  a snapshot before their request and do not abort it when the request fails
  (`localAgentSession.ts:189, 224`): updates stay buffered until the next snapshot.

## 4. Fairness

No fairness is assumed of clients, users, exits, crashes, failing writes and drops.

- `RunInputs`: `WF` on `EnqueueDone \/ EnqueueFails`: an enqueue that has started returns or
  throws, since every database call does. `SF` on `Executor`: the executor shares the
  steering queue with the clients; the queue is FIFO, so an executor that waits for it
  is served, however many messages arrive; weak fairness would let clients take the
  slot forever, which the code does not. The model and the judge answer or fail (a
  timeout is an exception).
- `ToolGate`: `WF` on the steps of each call: a promise that can go on does, the
  authorization answers, an operation ends (its tool returns or throws). Nobody has
  to make a call or to run out of time. Weak fairness is enough: a call that can go on
  can do so until it does, and a sub-agent makes finitely many calls.
- `SubAgents`: `WF` on the queue of mutations (`Mutate`), the tasks that read events, the
  acceptance of each control, and the call that has begun (`Proceeds`): its model calls are
  bounded and have a time limit. No call has to begin.
- `Automation`: `WF` on each executor and each request in progress, on the delivery and
  the expiry of a job (pg-boss polls), on the registry's timer, on the restart of the
  process (the supervisor starts it again) and on the reconciliation. No request has to be made.
- `Supervisor`: `WF` on the operation in progress, the recovery of leases, each start in
  flight, each close handler and restart timer, and on a process that binds its port.
  `StartTimeout` needs none: a process that does not serve may exit or be timed out.
- `RunStream`: one `WF` on everything that is due: the server works off captures and
  requests, the client takes what arrived, a request opens a connection. One condition
  is enough, since each of these steps uses up something finite.

The other runs state safety. A collection that repeats without end may keep
publishers waiting; the code allows it and no property denies it.

## 5. The proofs

All theorems hold for every value of the constants under the named assumptions:
`RunInputsConstants` (a finite set of messages, a natural number of rechecks, at least one
approval),
`ToolLedgerConstants` (disjoint kinds of calls, an owner of each inner one),
`ObjectPublicationConstants` (finitely many publishers, needed to count them),
`FileLifecycleConstants` (what an attempt and a row are; a copy has a row of its own
and the bytes of its source), `SubAgentsConstants` (a control is either a follow-up or
a cancellation; the bounds are natural numbers), `GraphAssumption` (an edge of an
automation leads on, as the validation of definitions demands), `CatalogAssumption`
(the services are finitely many, numbered in their order, and depend on earlier ones) and
`RunStreamConstants` (messages and steering inputs are different items; the bounds are
natural numbers, the limit of the FIFO at least 1).

**RunInputs.** `LedgerConsistent` is not inductive: whether `Stage` may extend the
lease depends on what the executor holds at that point. `IInv` adds where the executor
has a lease (`LeaseFollowsExecutor`), what RunState and session hold meanwhile
(`MemoryFollowsLease`), and that a terminal claim closes the window with nothing
unread (`ClaimIsFinal`), on which `AnswerCoversInputs` rests. `Inductive` proves it;
`TypeCorrect`, `LedgerTheorem`, `NoDoubleDeliveryTheorem`, `AnswerTheorem` follow.
`VerdictTheorem` needs a second strengthening, about the revision each step of the
goal loop holds. `ReplayTheorem` and `ObjectiveTheorem` rest on a third (`Replay`): beyond
the gap that a new segment after a resume has opened, RunState and checkpoint hold every
message up to the cursor or the lease, and the session those since the resume. They hold for
either answer of the SDK. `Refinement` proves `Spec => MailboxSpec`, step by step
over the same invariant.

**ToolLedger.** `LedgerInv` adds what the chain may contain, that a call in doubt is
tracked in memory until the process dies, and where calls in flight are.
`DoubtIsBookedTheorem`, `RunsOnceTheorem`, `LedgerIsDurableTheorem` follow.
`QuietTheorem` (`CompletedIsQuiet`) needs the order of the chain, in `QuietInv`: outside a
turn no call of the model is under way (`TurnsAreOver`); a call inside a sub-agent is booked
in memory and in the row while it executes, and what is still to be done about it is in the
chain once (`InnerIsBooked`); the executor waits for the only acceptance in the chain, which
before the clean check is behind every booking (`AcceptedLast`), so none is on its way when
`persistCleanCheckpoint` reads the row. A call that would book later has no running
sub-agent to be dispatched from. `PushedInner`, `PoppedInner` and `PushedOrder` say what an
operation that joins or leaves the chain does to that order.

**ObjectPublication.** `GateInv` relates the counter and the flag to who is inside,
and says that no collector waits twice. `GateInductive` proves it by lemmas on
cardinality (`Counting`, `CountingAll`); `NoOvertakingTheorem` is an action property.

**FileLifecycle.** Every step is a step of the section or leaves it alone
(`GateRespected`), so `SectionRefinement` (`Spec => GateSpec`) brings over what was
proved of it. `FileInv` adds that who is inside is where its program counter says
(`InSection`), that a key has one ready version, that what is about to lose its
metadata is gone for good, and that an attempt that has published either has its
metadata or was overtaken by a deletion (`RowsAreSound`). `ReadableTheorem`,
`MetaTheorem`, `SectionTheorem`, `WakeupTheorem` follow. `DatasetTheorem` proves the temporal
`DatasetKeepsContent` from a predicate that is stable under every step (`Pinned`):
each purge inside that has read the data sets has seen this one.

**ToolGate.** `LeaseInv` adds that exactly the waiting calls are in the queue, once
(`QueueInv`), that a nested call belongs to a sub-agent which is not about to start
(`NestingInv`), and that a chain holds the exclusive calls of its lease, all but the
first of them still queued (`ChainInv`). `PumpEffect` says what the loop of `pump` does,
`PushOnly` that the pump after a push lets nobody in, which needs `NoMissedWakeup`.
`GateInductive` proves the invariant; `CountedLeases`, `WokenUp`, `ExclusiveAlone` follow,
and `FirstComeFirstServed` (`NoOvertaking`) for every step. `RevocationHolds` proves the
temporal `RevokedNeverRuns` from a predicate that no step leaves.

**SubAgents.** The properties speak of rows, events and reports, but what decides them
waits in the queue of mutations. `ControlInv` adds that each write in the queue is sound:
the control it is for still waits for its row, the call it is for still waits for it,
and what was read of the events is still true, because an event is never changed
(`QueueInv`). A write stays sound until its turn (`SoundStep`) because of two writes for the
same control or the same call only one is in the queue. A control that waits belongs to
this invocation or to an earlier one (`PendingInv`), so that the second look at the
invocation in `persistControl` refuses a late one. A cancellation on record met its
call before the outcome was claimed, or found it paused, and then the row it changed
keeps the call from being resumed (`CancellingInv`, `ClaimInv`, `DecisionInv`).
`ControlInductive` proves it; `SubAgentsTheorem`, `ToldTheorem` and `CancelTheorem` follow.

**Automation.** The theorems assume nothing of timing: any number of handlers that the queue
has given up, and answers of any age. `AutomationInv` has two parts. `OverlapInv` is inductive
by itself. The registry admits one executor (`OneExecutor`), and while it has the run the
others can only fail, cancel or answer, so the status it meets is known (`StatusInStep`).
For a node that no stale write has touched, what the executor will write is what the record
says, but for the node it is at (`NodeInStep`); a node whose effect has begun is not on
record as still to begin, and none is about to be begun twice (`NodeBooked`); what is granted
has the one decision (`ApprovalBooked`). That a grant comes from an approval of its own
question (`GrantsApproved`) needs no exception at all. The exceptions of `undone` are where the
induction would fail, and they are where the code fails: `FailRow` and `Decide` write back a
state that others have changed, as `Automation_overrun` and `Automation_late` show.

`InOrder` is what holds, besides, until the first overrun: one handler, whose job is held
while it works; each handler holds a copy that the record has either not moved away from,
or moved away from in its status, which the conditional writes compare (`HandlerInStep`); the
jobs sent are accounted for, so that a record which is to run has a job to run on
(`JobsAccounted`, `NoOrphanedRun`). It is proved from the inductive `ExecutionInv`.

A lemma per action says what the step means for the record, its job and its actor (`LoadMeans`
to `ReconcileMeans`); from these, what a handler (`Written`) or a request (`Asked`, `Answered`) may
do to the record is enough for the invariants. `OnceTheorem` and `ApprovalTheorem` read the
conclusion off `OverlapInv`. `EndedTheorem`'s first half holds with overruns, since every
write compares the status it read (`WritesOpen`); that a failed run is not resumed, and
`OrphanTheorem`, hold until the first overrun, as they say. `StaleTheorem` is the half of
`StaleWritesHaveCause` about handlers: without an overrun only an answer changes `undone`. That
such an answer meets another question than its own is model-checked.

**Supervisor.** That a process is not stray says nothing of how the supervisor comes to
hold it. `SupervisorInv` adds that the handle, if there is one, is that of the newest
process, and that a start in flight which has not created its process has none beside
it (`HandleIsNewest`); that the lease file names the process before it is first probed
(`LeaseIsWritten`). `EveryProcessKnown` has two halves for a living process: as long as its
supervisor runs it has the handle, and later it was told, doubted or lost; and at any time
it was told or lost, or the lease file or a doubt names it, unless its start is just about to
write the lease. The second half is what a crash leaves to the next recovery. `DoubtIsShown`
says that a doubt is a conflict, in which no start and no handler is at work. And, for a stop, that between its steps the handle stays the one it
has seen or goes away (`StopKnows`): no timer and no start can put another one there,
unless the stop met an automatic start before its process (`crossed`), which is what
the code does not exclude. Most steps leave handles and generations alone; for them one
lemma (`CalmStep`) says what they may do to a service (`Calm`), and each action has a
lemma that it does no more. The others, which create a process, give its handle up
(by a stop or by a close handler), lose the supervisor or recover, are proved one by
one, the recovery with both its outcomes (`RecoverStep`, `RecoverNothingStep`). `SupervisorTheorem`, `StrayTheorem` and the action property `StopTheorem` follow.
The theorem on stops rests on `ReportStep`: only a stop that found no handle or gave it
up reports a service as stopped. The operators for dependencies (`Above`) and for who
waits for a start (`Waiting`) are least closed sets rather than recursive definitions,
which no prover here could use.

**RunStream.** What the client shows follows from what is still on its way to it. `FlowInv`
reads the wire and the slots behind it as one queue of messages (`Msg`), in which a reserved
slot stands for the snapshot that is being captured for it, and says three things of it.
`Ordered`: a message of a stream is not newer than a later snapshot of the same stream, nor is
the client, so that what the client keeps over a snapshot (`Keeps`) is the same or a later
truth. `Gapless`: before each delta, the last snapshot, an update after it, or the client's
own projection has brought the item to the position before it (`Fed`). `UpToDate`: the last
snapshot with the updates behind it, or the client with all that is on its way, says what the
server says, but for a mutation between its row and its place in the stream (`Underway`); a
capture of which only the stream is copied is current except for items that a push behind it
brings (`InWork`). The other parts say what the store, the connection and the hook may
hold (`StoreInv`, `DeliveryInv`) and that no stream of the future is known (`StreamsInv`),
without which a reused stream identity would break `Ordered`.

A step of the server is one of seven kinds by what it does to the queue (`Served`: nothing, a
row that changes, a cut, a push, a publication behind a row, the filling of a slot, the rows
of a capture), and each kind has a lemma for each of the three. A step of the client takes
the head and moves every other message one place up (`TakenShift`); the snapshot it takes is
the one of which the invariant spoke, replayed with what was buffered. The replay is a
function over the queue; what holds of its last value (`ReplayedOld`, `ReplayedSame`,
`ReplayedFits`) is proved by `SetInduction`: the set of places at which it fails would have a
least element. `StreamInductive` proves the invariant. `StreamTheorem` adds that no text is
missing at the head; `CurrentTheorem` reads `UpToDate` off an empty queue;
`NoRegressionTheorem` is an action property. `FlowInv` is stated for histories without a
reply decoded out of turn (`swapped`): `RunStream_late` is what happens with one. Types,
`StreamsInv` and `NoRegression` hold in every order.

Only model-checked: the liveness properties `QueuedInputIsDelivered`, `CallSettles`,
`QueuedIsSettled`, `QueuedRunIsTaken`, `OperationSettles` and `SyncSettles`, as liveness is out of
the prover's reach; and of `StaleWritesHaveCause` the part about answers. Every invariant and
every other action property of the passing runs is a theorem.

## 6. What is left out

Per component the project file says what is modelled, partly or not. Not modelled
because there is no protocol to check: agent memory notes, context assembly,
security checks, GIS and meteorology computation, the worker, the views of the user
interfaces. Not modelled yet: see the plan. Data is abstracted everywhere: texts, hashes,
formats, prompts, telemetry, usage. Several servers on one database are outside the
design of the code and of the models.

Inside the modelled components: validation of a restored checkpoint (it only
refuses), the projection index of the run store, `RuntimeFileStore.save` and
`cloneThreadFiles` (no longer called by the server), staging of uploaded bytes.

## 7. The plan

Done: `RunInputs` over `RunMailbox`; `ToolLedger`; `ObjectPublication` and
`FileLifecycle`; `ToolGate`; `SubAgents`; `Automation`; `Supervisor`; `RunStream`; proofs of all
of them.

What would come next, in this order:

1. `Approval` (`runtimeApprovalPersistence.ts`, `ws/decisionCommand.ts`): several
   interruptions of a turn, two devices, a crash between them; composed with the
   interruption of `RunInputs`.
2. `WorkflowClaims` (`toolExecutionCoordinator.ts`): claims of workflow steps by parallel
   calls of one turn.
3. The rest of `StaleWritesHaveCause`, and schedules: one-shot and missed firings around a restart, on top of `Automation`.
4. The console's synchronization over the server half of `RunStream`.
5. Proofs: `Supervisor` with more of what a stop guarantees where it meets an automatic start;
   an abstract specification of a client's view that `RunStream` implements.
