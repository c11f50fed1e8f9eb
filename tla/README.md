# A formal model of golutra-agent

golutra-agent is a coding agent: a Rust workspace of about thirty crates in which one or
several *host* processes (TUI, CLI, app server, SDK) share a workspace directory, a SQLite
event ledger and a set of file locks, and run model-and-tool loops for the user. This
directory holds TLA+ specifications of the parts where several actors, crashes, retries or
dropped requests meet: what is durable, who owns it, and who repairs it. Paths below are
relative to `src/`; `client/` stands for `crates/golutra-agent-client/src/` and so on.

* `*.tla` without prefix: the specifications; `*Proofs.tla`: theorems checked by TLAPS;
  `MC*.tla` and `*.cfg`: TLC instances.
* `PROJECT.json`: components, runs, the map from definitions to source lines, hazards,
  findings, theorems, and for every property a mutation of the model that breaks it.

Run one instance with `tlc -config MCPostTaskJobs.cfg MCPostTaskJobs`, one proof with
`tlapm DurableWorkProofs.tla`.

## 1. Inventory

| Component | State | Operations | What is hard |
|---|---|---|---|
| Session runtime (`client/lib.rs`, `command.rs`, `execution.rs`, `recovery.rs`) | ledger and its projection (active task, status, pending turns, terminal facts, open tools), session file lease, one worker per host | prompt, queue, cancel, abort, reconcile, start-up recovery, worker and recorder steps | reads before the lease is held, owner crashes at any point, uncertain side effects |
| Pending-turn queue (`runtime/lib.rs` 900-1320) | entries with a durable flag, `accepting`, a `Notify` | reserve, update, cancel, commit, roll back, take or close, take ready steers, close | three-step commits against the taking loop, lost wake-ups, requests dropped between steps |
| Command dispatcher (`client/command.rs` 199-593) and journal (`store/lib.rs` 266-372) | ack rows by idempotency key, per-host mutex, per-key file lock | enter, lock, claim, run, complete, answer, close the host | redelivery to another host, a drop at any await, shutdown while requests are inside |
| Observation recorder (`client/observation_recorder.rs`) | lossless lane, coalescing live lane, byte counters, `Notify` | send, flush, close, next, record, drop | overload from synchronous code, flush barrier before a side effect, order under coalescing |
| Post-task jobs (`store/lib.rs` 1647-2051, `client/post_task.rs`) | job rows with lease, owner, attempt; schedule channel | schedule, claim, start, requeue, retry, finish, expiry | slow workers that outlive their lease, lost schedules, failing store calls |
| Release store (`release/lib.rs`) | deployment log, pending file, four pointer files, file lock | preview, canary, promote, cancel, roll back, recover, verify | a stop between any two file operations or inside a write |
| Evolution supervisor (`supervisor/lib.rs`, `store.rs`) | observations, opportunities, epochs, candidates with gate and health reports, in a control journal | observe, start an epoch, register, evaluate, build, preview, canary, promote, roll back, enforce deadlines, reconcile | two stores changed one after the other, checks on a snapshot, overlapping commands, a stop between the stores |
| Runtime lane, step machine (`runtime/lane.rs`, `step_machine.rs`) | phase of a turn, phase of a step | transition tables | late events in a terminal phase |
| Agent loop (`runtime/lib.rs`) | counters of the governor, tool calls of a response, reports, pending approval, candidate, corrections | step, compaction, request, tool batch, approval, checkpoint, steer, verify, correct | cancellation, pause and deadline at every await; stale answers; failing tools inside a batch |
| Provider session and recovery (`runtime/provider_*.rs`), LLM adapters (`llm`) | transport, provider, retry counters, previews on display | send, retry, wait for a connection, switch transport or provider | a failure after a preview was shown, nested retry budgets, cancellation inside a backoff |
| Process supervisor (`tools/process_supervisor.rs`) | registered processes, their locks, termination intents, published states | start, terminate, terminate a session, shut down, supervise, reap, publish, prune | start while the session is terminated, a signal to a reaped process id, an exit racing a termination |
| Tool executor and policy (`tools`, `policy`) | none that outlives a call | run a tool, decide a permission | mostly I/O |
| Delegation (`client/delegation.rs`) | child tasks, budgets | spawn, join, cancel | cancellation of a tree |
| Event stream and transport (`client/transport.rs`, `replay.rs`, `event`) | cursors, subscriptions | subscribe, replay, publish | gaps between replay and live events |
| Auth (`auth`) | tokens, a refresh lock | log in, refresh | two processes rotate one token |
| App server, TUI, CLI, SDKs, configuration, context, memory, evolution, governor, evaluation, plugins, MCP, code intelligence, file search, project service, sandbox, vis | mostly data | mostly pure or I/O | little shared state of their own |

How they interact: a client sends a command to the **dispatcher** of a host, which claims it
in the **journal** and calls a handler. The prompt handler of a free session takes the
**session lease** and starts a worker; of a busy one it reserves a place in the **pending-turn
queue** of the worker's agent loop. The **agent loop** asks the model through a **provider session**, hands tool calls to the
executor (a long-lived shell command becomes an entry of the **process supervisor**) and decides
when a task is done. It emits observations into the **recorder**, which alone writes the task's
facts into the ledger and is flushed before a side effect. A terminal
fact makes the host schedule a **post-task job**. When a host dies, the OS releases its leases,
and the next host rebuilds everything from the ledger (**recovery**). Improvements accepted by
the **supervisor** become deployments in the **release store**.

Correct means: one owner per session; every turn that the ledger calls queued starts once and
only once; one terminal fact per task; no side effect the ledger does not know of, and none
that is silently forgotten; a command acknowledged once stays acknowledged in the same way; a
job is done once and never lost; a cancelled task stops spending and acting; a terminated
process is gone and nobody else is signalled; a release becomes stable only after its preview, and a
deployment is all or nothing, and the supervisor's records agree with the pointers again after a restart.
`PROJECT.json` lists the hazards at the lines where they bite.

## 2. Modules

```
PostTaskJobs                 <- DurableWorkProofs, MCPostTaskJobs
CommandDispatch              <- DurableWorkProofs, MCCommandDispatch
SessionRuntime               <- SessionRuntimeProofs, MCSessionRuntime
PendingTurnQueue             <- PendingTurnQueueProofs, MCPendingTurnQueue
ObservationRecorder          <- ObservationRecorderProofs, MCObservationRecorder
ReleaseOperations <- Deployments
                  <- ReleaseStore (implements Deployments) <- ReleaseStoreProofs, MCReleaseStore
                  <- EvolutionSupervisor <- EvolutionSupervisorProofs, MCEvolutionSupervisor
ProcessSupervisor            <- ProcessSupervisorProofs, MCProcessSupervisor
ProviderSession <- AgentLoop <- AgentLoopProofs, MCAgentLoop
```

### PostTaskJobs
Each SQL statement on `post_task_jobs` is an operator on a row (its `WHERE` clause a guard,
`RecoverExpired`, `ClaimRow`, `CanFinish`, ...); each await of the worker loop
(`PostTaskCoordinator::run`, `process`, `finish_or_retry`) is an action of a worker: `IdleTick`,
`RecoverLeases`, `ClaimJob`, `Start`, `Evaluate`, `FinishSucceeded`, `RecordCompleted`, `Requeue`,
`FinishFailed`. `Boot` is the start-up scan for terminal events without job. The clock is
`LeaseExpires`: a lease may run out while its worker is still evaluating, since the code has
no renewal. A `CrashHost` loses the memory of a host; a worker identity is never reused, as in
`<instance>:<pid>`. `storeFaults` decides at the start of a behaviour whether store calls of
the workers may fail; two of the properties speak of a store that answers. Names it would share with
`CommandDispatch` are qualified (`JobsInit`, `ClaimJob`, ...), so that one module can hold the proofs
about both.

### CommandDispatch
A request passes `Enter` (the host's `command_mutex`), `AcquireLease` (the file lock of the
key), `Claim`, `Run`, `Complete`, `Answer`. It may be dropped at each of them (`Disconnect`), its
host may die (`Crash`) or close (`BeginClose`, `CollectTasks`: refuse new prompts, pass the
mutex once, collect the running tasks). `Run` stands for the handler: it stores its own events
in a transaction of its own, so it is not atomic with the journal. Modelled are the commands that
start work (Create, Prompt); hosts that keep everything in memory have no file lock and are
left out, as they share nothing. The barrier of `shutdown_active_work` gives up after a timeout
in the code; here it waits.

### SessionRuntime
One session. The ledger is reduced to what its readers derive: active task, status, pending
turns per task, number of starts per turn, terminal facts, the open tool of a task. A host is one
process lifetime. `RecoverScan`, `RecoverLease`, `Transfer`, `Restart` are start-up recovery;
`PromptLease`, `CreateTask`, `QueueTurn`, `CancelTurn`, `Abort`, `AbortRead`, `AbortOrphan`,
`ReconcileRead`, `Reconcile` are the handlers, split where they read the projection, take the
lease or store an event; `TakeTurn`, `StartTool`, `Execute`, `FinishTool`, `LoopEnds`, `LoopFails`
are the loop, `RecordTrace`, `DrainLate`, `Finish`, `ClearControl` the recorder and the
supervisor of the worker. Three switches name races so that a run can say which of them a
property survives: `StaleReads` (another host writes between a handler's read of the projection
and its lease), `OrphanAbort` (abort is sent to a host that does not own the task),
`WorkerAborts` (a worker panics and its recorder drains late). Handlers are not dropped halfway
here; `PendingTurnQueue` and `CommandDispatch` do that.

### PendingTurnQueue
The queue under its mutex, the ledger it must agree with, one command handler
(`command_mutex` admits one) and the agent loop. A handler's reservation, its `RecordEvent`, its
`Commit` or `Rollback` and the notification after the unlock are separate steps;
`Disconnect` drops the request after the event was stored. `Notify` is tokio's
`notify_waiters`: it reaches a `Notified` future that exists already, whether or not it was
polled, and `Arm` creates the future before the lock is taken. What stays in the queue is written as
`Subsequence(queue, K)`, the entries at the positions `K` in their order, and not as a filter by a
predicate, which is a recursion the prover cannot look into.

### ObservationRecorder
The queue's two lanes are operators on the queue record that follow the functions of
`ObservationSender` (`PushLive`, `PushLossless`, `Coalesce`, `MakeRoom`, `FlushPendingLive`).
The estimated size of an observation is abstracted to a constant per kind; limits and counters
are kept. `Emit`, `BeginFlush`, `EndFlush`, `Close`, `Join`, `DropLoop` are the run,
`Arm`, `Take`, `Wait`, `Wake`, `Record`, `Acknowledge`, `DropReceiver` the drain worker; `NotifyOne`,
`NotifyWaiters`, `DropNotified` are tokio's `Notify` with its stored permit.

### ReleaseOperations, Deployments, ReleaseStore
`ReleaseOperations` gives the guard (`Allowed`), the pointers (`NextPointers`) and the record
(`Deployment`) of set_preview, start_canary, promote, cancel_canary and rollback, and the replay
of a log (`ExpectedPointers`). `Deployments` is the abstract specification: an operation changes
all pointers and the log at once. `ReleaseStore` is the code: a step is one durable file
operation (rename of the pending file, write of the record, write of its newline, each of the
four pointer files, removal of the pending file), and a process may stop between any two, or
inside the write of a record. Its refinement mapping takes the pending file, once renamed, as
having happened. Digests are numbers that differ; generations of the pointer files, manifests
and file sizes are left out.

### EvolutionSupervisor
The composition of the supervisor with the release store. A command is a process: it starts by
reconciling the candidates with the release pointers (`ReconcileSnapshot`, `ReconcileRead`,
`ReconcileCommit`), then takes one step per store access: `...Check` reads and decides,
`...Deploy`/`DeployRelease`/`RollbackRelease` changes the release store, `...Commit` is the
supervisor's own transaction. Each step is atomic under the lock of one store, nothing holds the
two together, and `Stop` ends a process anywhere; a failing check does the same. The release
store is at the level of `Deployments`, whose guards and pointers (`Allowed`, `NextPointers`) it
uses directly. Of a gate report the model keeps the verdict and the sealed queries it spent, of
a canary's health the observations' verdicts; a deadline (`Expire`) may pass at any time.

### ProcessSupervisor
A *launch* is one child and its `ManagedProcess`. Callers run `start` (`StartCall` to
`StartInsert`: the check under the start gate, spawn, registration, the second check, abort or
insert), `terminate`, `terminate_session` and the two shutdowns; a task per launch supervises it
(`SuperviseStop`, `WaitProbe`, `WaitReap`, `SuperviseExit`, `PublishRead`, `PublishState`,
`SuperviseRelease`, `SuperviseScan`). Kept are the start gate, the count per terminating session,
the lock that a launch's signals share with its reaping, the lock that its termination shares
with the publication of its end, the latched reason, and the child as the kernel sees it
(running, zombie, reaped; a reaped id may be somebody else's).

### ProviderSession and AgentLoop
`ProviderSession` is one logical model request: `Send`, `Stream`, `Succeed`, `Retry`,
`SwitchTransport`, `SwitchProvider`, `GiveUp`, `BackoffOver`, cancellation and deadline. Errors are
reduced to what the retry rules tell apart. `shown` is the set of attempts whose preview the user
sees; a recovery event resets it.
`AgentLoop` extends it: `BeginStep`, `Summarise` and `Compacted` (compaction uses a session of its
own), `Govern`, `Request`, `Session`, the kinds of responses (`RespondText` ... `RespondTools`),
`SettleAgain` and `SettleCandidate` (steers, further turns, closing the queue), `PickBatch` and
`PickOne` (parallel and single calls), `GovernTool`, `Approval`, `Prepare`, `Checkpoint`, `Invoke`,
`BatchGate`, `InvokeInBatch`, `TakeResult`, `EndStep`, `Verify`, `Judge`, `Correct`, and `Aborted`, the
branch of each select that sees the cancellation. The user cancels, pauses, answers (an earlier
request's answer may arrive again) and queues turns; these events are offered only where the loop
looks at them next, as what happens in between has the same effect there. A tool call is a read,
a write (needs a checkpoint) or a check (a shell command that validates and needs approval as well).

## 3. Runs

| Run | Shows | Bounds and why they are enough | Distinct states |
|---|---|---|---|
| `jobs` | A completion is reported at most once and only for a row that succeeded (`CompletedOnce`); a queued job has attempts left and, with an answering store, failure means that all were used (`AttemptsAddUp`) and no lease is leaked (`LeaseHeldByBusyWorker`); a queued job is settled while a worker lives; a new host schedules what a dead one left out. | 1 task (rows are independent), 2 workers, the code's 3 attempts, 1 manual retry: a lease can be lost and the job taken over and finished while the first worker still runs. The theorems cover other sizes. | 61,820 |
| `session_safety` | A turn starts once and a task gets one terminal fact (`SaidOnce`), an unreconciled side effect keeps the session blocked, and at every instant the ledger's queued turns are those the loop has not durably started. | 3 host lifetimes: an owner, a recoverer that dies too, and its successor; 2 turns; 3 tasks; one tool of each kind. Current reads (`StaleReads` etc. off). | 176,883 |
| `session_races` | With all three races on, the session still has one owner and flushed side effects are journaled first. | 2 hosts, 2 turns, 3 tasks; tools that read or have a flushed side effect. | 346,951 |
| `session_liveness` | A host opened after the owner's death gives the orphaned task its terminal fact. | 2 hosts, 2 tasks. | 124,387 |
| `queue` | What the loop takes is what the ledger says, in order (`TakenAsRecorded`); only a turn whose request was dropped can be left behind; a stored turn is taken. | 3 turns and 2 places (the queue gets full), 1 update or cancellation, which meets every step of the loop. | 506,735 |
| `dispatch` | Of the deliveries that ran a handler for one key at most one was answered and acknowledgements agree (`RedeliveryIsIdempotent`); a closed host is quiet; every delivery ends. | 2 hosts, 3 deliveries of 2 commands with one key: a redelivery and a conflict on either host. | 325,720 |
| `recorder` | Order and content survive coalescing (`LedgerTellsTheRun`); the flush is a barrier; the ledger has no hole and a run that ends well lost nothing (`NoSilentLoss`); flush and close return. | 3 observations and 1 flush over one stream and one tool, a queue of 2 commands, 5 bytes and a live lane of 1: every limit is hit. | 581,408 |
| `release` | `ReleaseStore` implements `Deployments` (`DeploymentsAreAtomic`); what is stable was previewed and promoted with nothing decided in between (`StableWasVetted`); only a lost newline makes recovery refuse; a begun deployment is completed. | 2 processes, 2 releases, 5 deployments, 2 stops: a stop inside the recovery from a stop. | 78,557 |
| `supervisor` | Nothing is deployed that did not pass its gate (`DeployedIsVetted`); an epoch moves with its candidate; no command chooses a rolled-back candidate for a preview (`RolledBackStaysOut`); after a reconciliation that saw both stores unchanged, a pointed candidate has the status of its pointer (`RestartRepairs`). | 2 processes that run any commands, 1 candidate in 1 epoch, 2 bootstraps (they race), 2 tasks, 1 sealed query. Two candidates are in the configurations of section 6. | 2,045,362 |
| `processes` | No signal reaches a reaped id; an accepted termination is what is published; a finished shutdown or session termination leaves nothing running (`TerminationIsComplete`); every stopped process is published. | 2 callers, 2 ids of one session, 1 launch, 1 shutdown: each pair of operations meets over one child. A second shutdown breaks `NoStaleSignal` (section 6, item 8). `MCProcessSupervisor_large.cfg` has 2 launches and takes longer. | 68,794 |
| `agent_loop` | The preview on display is of one attempt; every tool call of the history has its answer before the next request (`PairedHistory`); no side effect without its checkpoint and approval; tool and retry budgets hold; success needs a validation newer than the last change (`SuccessIsEarned`); after a cancellation no request and no tool begins, and the task ends. | 2 iterations, 2 tool calls, 2 failures, 5 call lists of at most 2 calls, 1 queued turn, 1 correction, 2 summaries, 1 retry per transport, 1 waited connection, 3 contracts: each budget can be used up and exceeded by one. | 1,829,269 |
| `release_lost_newline` | The finding of section 6. | Smallest instance that shows it. | |

Deadlock is checked in `agent_loop`, whose only rest is a finished task. It is not checked in the
others: there the system may rest (no command, no job), and the bounded inputs run out.

Every passing property has a mutation of one definition (named `Mut...` beside the original)
that a plausible bug would make, and that TLC finds to violate it.

### Fairness
* PostTaskJobs: weak fairness of every step of a live host and of lease expiry. Tokio
  polls ready tasks, SQLite calls return, and the clock runs. Crashes and retries are not fair.
* SessionRuntime: weak fairness of recovery, of a handler that has begun and of the recorder and
  supervisor. The loop itself is not fair: a model call may last for ever.
* PendingTurnQueue: weak fairness of the handler's steps, the notifications and the loop's calls
  of `take_or_close`; a turn ends because its budgets bound it.
* CommandDispatch: weak fairness of each request's steps, the wait for a file lock included; with
  `flock` in a blocking thread a waiter gets the lock once it is free and the holders are finitely
  many.
* ObservationRecorder: weak fairness of the loop's task and of the drain worker.
* ProcessSupervisor: weak fairness of the supervising tasks and of the exit of a signalled child
  (SIGKILL cannot be ignored), strong fairness of the callers' steps: tokio's mutexes queue their
  waiters in order. Children need not exit by themselves.
* AgentLoop: weak fairness of the loop, and of `Aborted` on its own, since the selects poll the
  cancellation token again after every wake-up. The user is not fair.
* ReleaseStore: weak fairness of the steps under the lock, strong fairness of taking the lock
  (a blocking `flock` that is free again and again is granted).
* EvolutionSupervisor: none; its properties are safety properties, as commands are started by hand.

## 4. Proofs

All theorems hold for arbitrary sets and bounds, subject only to the named `ASSUME`s and to the
hypotheses given here. Each safety theorem rests on an inductive invariant that TLC checked on the
run's instance first; what follows says what the invariant adds to the property and why.

* `DurableWorkProofs`, about the two kinds of work the store keeps for its hosts.
  Commands: `TypeCorrect`, `RerunsNeedInterruption`, `AcknowledgementsAreStable`,
  `RedeliveryIsSafe`, `ClosingIsFinal`, `SettlementIsFinal`. A request's knowledge of the journal is good only as long as
  it holds the file lock of the key, so lock ownership (`MutexHeld`, `LeaseHeld`), the row while a
  handler runs (`RunningIsProcessing`) and the row after an answer (`AnsweredRunIsSettled`,
  `AcknowledgedIsStored`) make up the invariant `IInv`.
  Jobs, assuming at least one attempt and that `Nothing` is no task and no worker: `JobsTypeCorrect`,
  `CompletionIsRecordedOnce`, `QueuedJobsStayClaimable`, `LeasesAreNotLeaked`, `FailureUsesTheBudget`, `AttemptsAreAccounted`,
  `SuccessIsFinal`. A lease and the worker that runs under it change in different
  steps, and the completion event follows the row in another one, so the invariant `JobsIInv` carries
  what a worker knows between the two: a worker about to record a completion is the only one, and
  its row succeeded (`CompletingIsExclusive`); one whose requeue was refused and that still owns the
  row has used the last attempt (`FailingIsExhausted`); one that has not started owns no
  running row (`ClaimedIsNotRunning`); schedule requests name ended tasks (`RequestsHaveEnded`).
* `ObservationRecorderProofs`: `TypeCorrect` (with the limits and the byte counters of the queue),
  `LedgerIsFaithful` (`LedgerTellsTheRun`), `FlushIsDurable` (`FlushIsBarrier`) and `LossIsNeverSilent`
  (`NoSilentLoss`), for any keys, limits and length of a run. `ControlInv` relates the control states,
  `ContentInv` says what the ledger, the worker and the two lanes hold. A reader's order follows from
  `OrderInv`: the ledger and the lossless lane are each in order and each part of the pipeline is before
  the next, while live events have different keys and need no order among themselves. `CompleteInv` and `CountInv`
  carry every accepted fact and delta through coalescing and eviction as long as the worker has not
  failed. A failure ends them, so `NoSilentLoss` is kept for itself, from `AcceptedInv`: what
  is accepted ends at the first refusal. `FlushInv` has no fact behind the newest flush in the
  lossless lane, so that its answer covers all of them. Every step has one of nine shapes (`Shapes`: an
  observation is refused or taken, a flush is asked for, the queue is closed, ...), and each part of
  the invariant is proved per shape.
* `ReleaseStoreProofs`: `TypeCorrect`; `Refinement` (`DeploymentsAreAtomic`): the files implement
  `Deployments`, for any number of processes, releases and deployments and wherever a process stops.
  `PlacesInv` says what each place of an operation knows of the pending file, the log's end and the
  pointers already written (`Placed`), and `DigestsInv` that a digest is used once; every step
  then is one deployment (the creation of the pending file) or leaves the mapped state alone. What
  `Deployments` guarantees holds of the files: `StableIsVetted` (`StableWasVetted`) and
  `CandidateIsUnique`. There a promotion looks at pointers and the property at the log, so
  `PointedWasPreviewed` adds that what the preview and canary pointers name was previewed and not
  decided since. `JournalInOrder`: until a newline is lost, the log is sound up to the
  record being written and explains the pointers (`JournalInv`); hence `OnlyNewlineIsLost`
  (`OnlyLostNewlineRefused`). The lemmas say what the folds of recovery (replaying the log, joining
  fragments, collecting records) do to a log that grows at its end.
* `SessionRuntimeProofs`. With every race on: `TypeCorrect`; `OneOwner` (`SingleOwner`), from
  `LeaseHeld`: who runs, starts or closes a task holds the lease; `EffectsAreJournaled`
  (`EffectIsJournaled`) under the hypothesis that no tool is external, which the code does not flush
  (section 6, item 7). The recorder writes later than the loop acts, so its invariant `JournalInv`
  follows an event from the trace into the ledger: the current turn is started or its start is in the
  trace (`TurnIsTraced`), a prepared tool is the last event of the trace until the ledger has it, and a
  tool executes with an empty trace (`ToolsAreTraced`); a late recorder is never about a task in use
  (`TasksInUse`).
  Under `NoRaces` (the three switches off: each of them breaks these properties, section 6, items 3 to
  5): `LedgerSaysItOnce` (`SaidOnce`), `OrphansKeepTheSession` (`UnreconciledBlocks`) and
  `QueuesAreJournaled`. The invariant `CalmInv` says that the active task is the one without a terminal
  fact (`ActiveIsOpen`), that an unreconciled orphan still has its open tool and its status
  (`OrphansBlock`), and that a turn waits in one place only: with a handler, in a queue, in a trace or
  in the ledger (`WaitingTurns`). On top of it `LedgerFollowsQueue` (`LedgerMatchesQueue`) has `OrderInv`:
  the ledger's queue is the turns in the trace followed by those still queued, as sequences. Its lemmas
  follow `SelectSeq` through a trace that grows at its end and is recorded at its head.
* `PendingTurnQueueProofs`: `TypeCorrect`, `TakenIsAsRecorded` (`TakenAsRecorded`), `OnlyDroppedIsLeft`
  (`OnlyDroppedLeftBehind`). `QueueInv` says that the queue is in the order of arrival and behind what
  was taken of its kind (`OrderInv`), that the one entry that is not durable is the handler's
  (`HandlerInv`), what the ledger says of a durable entry and of the handler's turn at each of its
  steps (`LedgerInv`), and that a turn of the ledger was taken, cancelled, dropped or is queued
  (`LeftInv`). A record changes the ledger for the handler's turn only, and that turn is no durable
  entry's and was not taken. The lemmas on `Nth` and `Subsequence` number the positions of a finite
  set by counting those below, which needs no induction; `Takes(K)` is the common shape of
  `take_or_close` and `take_ready_steers`.
* `ProcessSupervisorProofs`: `TypeCorrect`; `TerminateAlwaysWins` (`TerminateWins`): the reason is
  published under the lock under which it was read (`ReasonInv`); `StaleSignalTakesTwo`: a signal to a
  reaped id needs a second shutdown, whence `SignalsAreOurs` (`NoStaleSignal`) for `MaxShutdowns <= 1`,
  the only case in which it is true (section 6, item 8); `EndIsComplete` (`TerminationIsComplete`): a
  living child is with the caller that starts it or in the list (`KeptInv`), and what a closing
  caller has collected covers all of them (`CloseInv`, `SessionInv`). A session's marks are counted
  (`MarkInv`), since two calls may terminate it at once. All of them use `LifeInv`, which ties
  the supervising task of a launch to its child, its starter and its place in the list.
* `AgentLoopProofs` (with the provider session inside the loop): `TypeCorrect`,
  `PreviewIsOfOneAttempt`, `RetriesAreBounded`, `CancelledIsQuiet` (an action property),
  `HistoryIsPaired`, `EffectsAreAlwaysCleared`, `BudgetsAlwaysHold`, `SuccessIsAlwaysEarned`. The calls of
  a response are at different stages while a batch is handled, so `CallInv` says which may be where
  and `BudgetInv` counts the calls that may still be carried out (`Owed`). For `SuccessIsEarned`,
  a change of the workspace is known by the reports only after its result was taken: `DirtyInv` says
  that it shows in the reports, with no passing validation after it, or in a result not taken yet.
* `EvolutionSupervisorProofs`: `TypeCorrect`, `DeployedAlwaysVetted`, `EpochAlwaysFollows`,
  `RolledBackAlwaysOut`, `RestartAlwaysRepairs`, for any number of overlapping processes. The checks of a
  command are stale when it acts; `DeployedIsVetted` holds because what they look at only grows
  (`Grows`, `CheckedHolds`). `RolledBackStaysOut` follows what a command found (`FoundStatus`): a candidate
  that was rolled back has a late status unless a decision was written over (`LateInv`). The proof
  showed that an earlier form of that property, about the candidate's status at the preview itself, and a
  form of `SawTheStores` without the builds, held with two processes only: with three, a stale
  reconciliation can bring `Previewing` back between two reads, and a build can end in between.

`Deployments` is unbounded and has no run of its own: TLC checks it through `ReleaseStore`, whose
run evaluates `StableWasVetted` of the mapped state.

The library's induction theorems take an operator as a parameter and cannot be used. Where a fact about
a fold or a filter over a sequence is needed, the recursion is a recursive function on `0..Len(s)`, and
the lemma is proved by contradiction at the least length for which it fails: that there is a least one
is `WFMin` for the order on the naturals.

Every invariant and every safety property of steps that a passing run checks is stated by a theorem.
Model-checked only are the liveness properties (`QueuedIsTaken`, `CancelEnds`, `StoppedIsPublished`,
`NewHostSettlesOrphan` and the others of the runs): fairness and `ENABLED` are outside the prover's
reach.

## 5. Not modelled

* Of the session runtime: resume, goals, delegated runs, snapshots inside events; the shutdown
  barrier's timeout (`client/execution.rs` 249), here the barrier waits.
* Of the agent loop: questions to the user, delegation and its notifications, the upgrade of a
  documentation-only contract, an unavailable verifier and the verifier's own side effects. The
  fingerprints that stop a correction and the step machine's verdict on progress are
  nondeterministic choices.
* Of the process supervisor: input, output pages and rings. Of the supervisor: its control journal
  below a transaction, worktrees, sandboxes and the statistics of an evaluation.
* OAuth refresh, delegation, event transport: in the plan.
* Data-centred parts (adapters, context, memory, scoring, configuration, rendering, serialisation,
  UI) are left out for good: they have no state that outlives a call or no second actor. They and
  the tests inside the source files are most of the repository's lines, so that the map covers a
  small share of it (about 5%): the modelled crates' handlers, loops and stores.

## 6. Where the code departs from its documents

Checked by a run that expects the violation:

1. **A stop between a record and its newline makes the release log unreadable** (`release_lost_newline`,
   `release/lib.rs` 1123-1124), although `docs/supervisor-operations.md:35` says that both journals repair an
   interrupted append. `OnlyLostNewlineRefused` shows that it is the only such place.

The others can be reproduced with the configurations named, each of which makes TLC report a violation:

2. `MCPendingTurnQueue_lost.cfg`, `NothingLeftBehind`: `record_event` makes `TurnQueued` durable and still awaits
   its publication (`client/command.rs` 926); a request dropped there rolls its reservation back.
   `docs/ARCHITECTURE.md:148` calls `TurnQueued` the durable queue fact. `OnlyDroppedLeftBehind` shows that no
   other turn suffers.
3. `MCSessionRuntime_terminal.cfg`, `OneTerminalFact`: recovery acts on a projection read before the lease
   (`client/lib.rs` 2092-2112) and can add a second terminal fact, against `docs/runtime-stability.md:21` and `:49`.
4. `MCSessionRuntime_twice.cfg`, `StartedOnce`: the same stale read restarts a turn that another host has already
   transferred and started (`client/lib.rs` 2117; `docs/runtime-stability.md:26`, `:46`).
5. `MCSessionRuntime_freeze.cfg`, `UnreconciledBlocks`: aborting an orphaned task records it cancelled without
   classifying its open tool, and the next prompt runs (`client/command.rs` 1583; `docs/runtime-stability.md:24`, `:48`).
6. `MCSessionRuntime_stranded.cfg`, `QueuedIsRecoverable`: a prompt that settles an orphaned task starts a new one
   with an empty queue and leaves the orphan's queued turns behind (`client/command.rs` 1110;
   `docs/ARCHITECTURE.md:356`).
7. `MCSessionRuntime_external.cfg`, `EffectIsJournaled`: only tools with a workspace snapshot or before-images are
   flushed before they run; an external tool may run before its `ToolStarted` is durable
   (`runtime/lib.rs` 3137; `docs/runtime-stability.md:48`).
8. `MCProcessSupervisor_signal.cfg`, `NoStaleSignal`: a `start` that finds the supervisor shut down by a first
   shutdown aborts its child and reaps it without the lifecycle lock; a second shutdown that has looked the
   registration up already then signals the reaped id, against the comment at `tools/process_supervisor.rs` 573-574.
9. `MCEvolutionSupervisor_pointers.cfg`, `RestartRepairsAll`: rolling the stable release back clears the preview
   pointer of another candidate, and reconciliation leaves that candidate `Previewing`
   (`docs/supervisor-operations.md:35`: a restart repairs the mirrored states from the pointers).
10. `MCEvolutionSupervisor_parent.cfg`, `PromotedOverItsParent`: the parent is compared when a candidate is
   evaluated, built and checked, not with its promotion, so that it can replace a release it was not measured
   against (`supervisor/lib.rs` 119).

Seen while modelling and not checked: concurrent evaluations can together exceed the holdout budget or overwrite
a verdict; an unhealthy observation between promotion's health snapshot and the promotion is ignored; an epoch
ended by its deadline can be revived by a commit that checked before; a second rollback restores the release the first one
removed; `snapshot_page` reads output before state; a dropped `start` leaves its registration behind; a policy
decision is not evaluated again after the wait for an approval; a cancelled call has a `ToolStarted` without
`ToolCompleted`; the queue is closed at the first candidate, so corrections cannot be steered; waits for a
connection are unlimited without a deadline; a failing verification request after the terminal fact
(`client/execution_trace.rs` 694) fails the run; the release log's size limit is checked after the pending file is on disk
(`release/lib.rs` 1118).

## 7. Plan

In order of importance:

1. `SupervisorStore`: the control journal of `supervisor/store.rs` (two writes per record, as in
   `ReleaseStore`), below `EvolutionSupervisor`.
2. `TurnJournal`: the event analysis of `client/recovery.rs` (unclosed tools, running processes,
   their order) as operators checked against a reference, to replace `openTool` in `SessionRuntime`.
3. `OAuthRefresh`: rotation under the refresh lock; `Delegation`: cancellation of a tree.
4. An abstract `TaskOwnership` (a task is owned, orphaned, settled) implemented by `SessionRuntime` with
   current reads, and an abstract FIFO with steering implemented by `PendingTurnQueue`.
