--------------------------- MODULE SessionRuntime ---------------------------
(***************************************************************************)
(* One session shared by several runtime processes (hosts).                 *)
(*                                                                         *)
(* The event ledger and its projection are durable and shared; a host that  *)
(* runs the session's task holds the session lease, an OS file lock that    *)
(* dies with the process.  The host's agent loop takes queued turns, calls   *)
(* tools and emits trace events, which a recorder appends to the ledger      *)
(* later and in order.  A host that opens the session after its owner died   *)
(* classifies the orphaned task from the ledger alone and restarts the turns  *)
(* that were queued but never started.                                       *)
(*                                                                         *)
(* Sources (crates/golutra-agent-...): client/src/command.rs (prompt, abort, *)
(* cancel, reconcile), client/src/lib.rs (recovery, lease), client/src/      *)
(* execution.rs (spawn, supervise), client/src/execution_trace.rs (trace     *)
(* recording, terminal facts), client/src/recovery.rs (classification),      *)
(* runtime/src/lane.rs, store/src/projection.rs.                             *)
(***************************************************************************)
EXTENDS Integers, Sequences

CONSTANTS
    Hosts,        \* process lifetimes: a restarted process is a new host
    Turns,        \* user turns; a prompt command brings a fresh one
    MaxTasks,     \* bound: tasks created in a behaviour
    MaxTools,     \* bound: tool calls of one task
    ToolKind,     \* what the tools do: "read"; "side" (write files, run a
                  \* shell, delegate); "external" (call a network or MCP service)
    StaleReads,   \* TRUE if another host may write to the session between a
                  \* handler's read of the projection and its lease attempt
    OrphanAbort,  \* TRUE if Abort may be sent to a host that does not own the task
    WorkerAborts, \* TRUE if a worker may panic or be aborted by the runtime
    NoHost, NoTurn

ASSUME MaxTasksAssumption == MaxTasks \in Nat \ {0}
ASSUME MaxToolsAssumption == MaxTools \in Nat
ASSUME ToolKindAssumption == ToolKind \subseteq {"read", "side", "external"}
ASSUME FlagsAssumption == {StaleReads, OrphanAbort, WorkerAborts} \subseteq BOOLEAN
ASSUME NoneAssumption == NoHost \notin Hosts /\ NoTurn \notin Turns

Tasks == 1..MaxTasks
NoTask == 0

VARIABLES
    \* durable: the ledger, reduced to what its readers derive from it
    nextTask,     \* the next fresh task id
    active,       \* projection: active_task_id
    status,       \* projection: task_status
    lanePending,  \* projection: runtime_lane.pending_turns
    pending,      \* task -> its turns queued, not started, not cancelled
    starts,       \* turn -> number of TaskCreated/TurnStarted events with it
    facts,        \* task -> its terminal facts, in order
    openTool,     \* task -> kind of its ToolStarted without ToolCompleted
    reconciled,   \* tasks with a TaskReconciled event
    \* the session lease
    lease,
    \* in memory of one host
    pc,           \* control state of the command handler or start-up recovery
    local,        \* locals of the handler: what it read of the projection, the
                  \* turns and the task it is about to start
    run,          \* the worker and its control entry
    late,         \* trace events of a dead worker whose recorder still drains
    \* history
    prompted,     \* turns some prompt has brought
    orphaned,     \* tasks whose owner died before their terminal fact
    effects       \* <<turn, task>> pairs that executed a side effect

ledgerVars == <<nextTask, active, status, lanePending, pending, starts, facts,
                openTool, reconciled>>
handlerVars == <<pc, local>>
workerVars == <<run, late>>
historyVars == <<prompted, orphaned, effects>>
vars == <<ledgerVars, lease, handlerVars, workerVars, historyVars>>

-----------------------------------------------------------------------------
(* The ledger *)

ActiveStatus == {"running", "aborting"}
SideKind == {"side", "external"}

ElementsOf(s) == {s[i] : i \in 1..Len(s)}
WithoutAt(s, i) == SubSeq(s, 1, i - 1) \o SubSeq(s, i + 1, Len(s))

\* s without the turn t, which it holds at most once
Without(s, t) ==
    IF t \in ElementsOf(s)
    THEN WithoutAt(s, CHOOSE i \in 1..Len(s) : s[i] = t)
    ELSE s

\* apply_event_to_state: only the active task's events move the projection
Project(task, newStatus) ==
    status' = IF active = task THEN newStatus ELSE status

AppendFact(task, fact) == facts' = [facts EXCEPT ![task] = Append(@, fact)]

\* Every interrupted tool is taken for a read-only one.
MutAnalyzeTask(task) == "interrupted"

\* analyze_task: an unclosed tool that may have changed something outside
AnalyzeTask(task) == IF openTool[task] \in SideKind THEN "uncertain" ELSE "interrupted"

Recorded(task) == {f \in ElementsOf(facts[task]) : f \in {"interrupted", "uncertain"}}

\* The record record_orphaned_task_recovery answers with: the stored one if
\* there is one, otherwise a new classification.
Disposition(task) ==
    IF Recorded(task) # {} THEN CHOOSE f \in Recorded(task) : TRUE ELSE AnalyzeTask(task)

RecordOrphanedTaskRecovery(task) ==
    IF Recorded(task) # {}
    THEN UNCHANGED <<facts, status>>
    ELSE AppendFact(task, AnalyzeTask(task)) /\ Project(task, AnalyzeTask(task))

Projection ==
    [task |-> active, active |-> status \in ActiveStatus,
     uncertain |-> status = "uncertain", queued |-> lanePending # {}]

\* What a handler acts on once it has the lease.
Seen(h) == IF StaleReads THEN local[h].seen ELSE Projection

-----------------------------------------------------------------------------
(* The worker of a host *)

NoRun == [stage |-> "none", task |-> NoTask, turn |-> NoTurn, queue |-> <<>>,
          lane |-> {}, trace |-> <<>>, tool |-> "none", tools |-> 0, result |-> "none"]

\* spawn_agent_task, with the recovered turns already in its queue
NewRun(task, turn, queue) ==
    [NoRun EXCEPT !.stage = "loop", !.task = task, !.turn = turn,
                  !.queue = queue, !.lane = ElementsOf(queue)]

NoLate == [task |-> NoTask, trace |-> <<>>]

TurnEvent(t) == [kind |-> "turn", turn |-> t]
ToolEvent(k) == [kind |-> k, turn |-> NoTurn]

NothingSeen == [task |-> NoTask, active |-> FALSE, uncertain |-> FALSE, queued |-> FALSE]
NoLocal == [seen |-> NothingSeen, turns |-> <<>>, task |-> NoTask]

Goto(h, label) == pc' = [pc EXCEPT ![h] = label]

\* The handler reads the projection.
Read(h, label) ==
    /\ Goto(h, label)
    /\ local' = [local EXCEPT ![h] = [NoLocal EXCEPT !.seen = Projection]]

\* The handler holds the lease and goes on to start turns.
Prepare(h, label, turns) ==
    /\ Goto(h, label)
    /\ local' = [local EXCEPT ![h] = [NoLocal EXCEPT !.turns = turns]]
    /\ lease' = h

Return(h) == Goto(h, "idle") /\ local' = [local EXCEPT ![h] = NoLocal]
Running(h) == run[h].stage \in {"loop", "closing"}

\* The pending-turn queue is closed; the run will end with that status.
Closing(h, result) == [run EXCEPT ![h].stage = "closing", ![h].result = result]

Init ==
    /\ nextTask = 1 /\ active = NoTask /\ status = "idle" /\ lanePending = {}
    /\ pending = [k \in Tasks |-> <<>>]
    /\ starts = [t \in Turns |-> 0]
    /\ facts = [k \in Tasks |-> <<>>]
    /\ openTool = [k \in Tasks |-> "none"]
    /\ reconciled = {}
    /\ lease = NoHost
    /\ pc = [h \in Hosts |-> "off"]
    /\ local = [h \in Hosts |-> NoLocal]
    /\ run = [h \in Hosts |-> NoRun]
    /\ late = [h \in Hosts |-> NoLate]
    /\ prompted = {} /\ orphaned = {} /\ effects = {}

-----------------------------------------------------------------------------
(* Start-up recovery: recover_orphaned_tasks *)

\* It reads the projections of the workspace before it tries any lease.
RecoverScan(h) ==
    /\ pc[h] = "off"
    /\ Read(h, "scanned")
    /\ UNCHANGED <<ledgerVars, lease, workerVars, historyVars>>

\* Only queued turns are worth a recovery.
MutNeedsRecovery(s) == ~s.uncertain /\ s.queued

NeedsRecovery(s) == ~s.uncertain /\ (s.active \/ s.queued)

\* With the lease, it classifies the orphan and collects its queued turns.
RecoverLease(h) ==
    LET s == Seen(h) IN
    /\ pc[h] = "scanned"
    /\ NeedsRecovery(s) /\ lease = NoHost
    /\ IF s.active THEN RecordOrphanedTaskRecovery(s.task) ELSE UNCHANGED <<facts, status>>
    /\ IF pending[s.task] = <<>> \/ (s.active /\ Disposition(s.task) = "uncertain")
       THEN Return(h) /\ UNCHANGED lease
       ELSE Prepare(h, "transferring", pending[s.task])
    /\ UNCHANGED <<nextTask, active, lanePending, pending, starts, openTool, reconciled,
                   workerVars, historyVars>>

\* Nothing to recover, or the session is owned by another process.
RecoverSkip(h) ==
    /\ pc[h] = "scanned"
    /\ ~NeedsRecovery(Seen(h)) \/ lease # NoHost
    /\ Return(h)
    /\ UNCHANGED <<ledgerVars, lease, workerVars, historyVars>>

\* restart_pending_turns: the transfer event gives the turns to a new task,
\* which does not become the active one yet
Transfer(h) ==
    /\ pc[h] = "transferring" /\ nextTask \in Tasks
    /\ nextTask' = nextTask + 1
    /\ local' = [local EXCEPT ![h].task = nextTask]
    /\ pending' = [pending EXCEPT ![nextTask] = local[h].turns]
    /\ Goto(h, "restarting")
    /\ UNCHANGED <<active, status, lanePending, starts, facts, openTool, reconciled,
                   lease, workerVars, historyVars>>

\* The restarted turn stays in the durable queue.
MutRestart(h) ==
    LET task == local[h].task
        first == Head(local[h].turns)
        rest == Tail(local[h].turns) IN
    /\ pc[h] = "restarting"
    /\ active' = task /\ status' = "running" /\ lanePending' = ElementsOf(rest)
    /\ starts' = [starts EXCEPT ![first] = @ + 1]
    /\ run' = [run EXCEPT ![h] = NewRun(task, first, rest)]
    /\ Return(h)
    /\ UNCHANGED <<nextTask, pending, facts, openTool, reconciled, lease, late, historyVars>>

\* then the first turn is started and the others wait in the worker's queue.
Restart(h) ==
    LET task == local[h].task
        first == Head(local[h].turns)
        rest == Tail(local[h].turns) IN
    /\ pc[h] = "restarting"
    /\ active' = task /\ status' = "running" /\ lanePending' = ElementsOf(rest)
    /\ pending' = [pending EXCEPT ![task] = rest]
    /\ starts' = [starts EXCEPT ![first] = @ + 1]
    /\ run' = [run EXCEPT ![h] = NewRun(task, first, rest)]
    /\ Return(h)
    /\ UNCHANGED <<nextTask, facts, openTool, reconciled, lease, late, historyVars>>

-----------------------------------------------------------------------------
(* Commands; command_mutex admits one per host at a time *)

\* handle_prompt while the own task runs: the turn is queued
QueueTurn(h, t) ==
    /\ pc[h] = "idle" /\ t \notin prompted
    /\ run[h].stage = "loop"
    /\ prompted' = prompted \cup {t}
    /\ pending' = [pending EXCEPT ![run[h].task] = Append(@, t)]
    /\ run' = [run EXCEPT ![h].queue = Append(@, t), ![h].lane = @ \cup {t}]
    /\ lanePending' = IF active = run[h].task THEN run[h].lane \cup {t} ELSE lanePending
    /\ UNCHANGED <<nextTask, active, status, starts, facts, openTool, reconciled,
                   lease, handlerVars, late, orphaned, effects>>

\* handle_cancel_queued_turn
CancelTurn(h, t) ==
    /\ pc[h] = "idle" /\ Running(h) /\ t \in ElementsOf(run[h].queue)
    /\ pending' = [pending EXCEPT ![run[h].task] = Without(@, t)]
    /\ run' = [run EXCEPT ![h].queue = Without(@, t), ![h].lane = @ \ {t}]
    /\ lanePending' = IF active = run[h].task THEN run[h].lane \ {t} ELSE lanePending
    /\ UNCHANGED <<nextTask, active, status, starts, facts, openTool, reconciled,
                   lease, handlerVars, late, historyVars>>

\* handle_prompt without an own task: it takes the lease, classifies an
\* orphan it finds, and refuses while side effects are unreconciled
PromptLease(h, t) ==
    /\ pc[h] = "idle" /\ t \notin prompted /\ run[h].stage = "none"
    /\ lease = NoHost /\ status # "uncertain"
    /\ IF status \in ActiveStatus
       THEN RecordOrphanedTaskRecovery(active)
       ELSE UNCHANGED <<facts, status>>
    /\ IF status \in ActiveStatus /\ Disposition(active) = "uncertain"
       THEN UNCHANGED <<lease, handlerVars, prompted>>
       ELSE /\ Prepare(h, "creating", <<t>>)
            /\ prompted' = prompted \cup {t}
    /\ UNCHANGED <<nextTask, active, lanePending, pending, starts, openTool, reconciled,
                   workerVars, orphaned, effects>>

\* The TaskCreated event, and the worker.
CreateTask(h) ==
    LET t == Head(local[h].turns) IN
    /\ pc[h] = "creating" /\ nextTask \in Tasks
    /\ nextTask' = nextTask + 1
    /\ active' = nextTask /\ status' = "running" /\ lanePending' = {}
    /\ starts' = [starts EXCEPT ![t] = @ + 1]
    /\ run' = [run EXCEPT ![h] = NewRun(nextTask, t, <<>>)]
    /\ Return(h)
    /\ UNCHANGED <<pending, facts, openTool, reconciled, lease, late, historyVars>>

\* handle_lane_command("abort") on the own task
Abort(h) ==
    /\ pc[h] = "idle" /\ Running(h)
    /\ Project(run[h].task, "aborting")
    /\ run' = IF run[h].stage = "loop" THEN Closing(h, "cancelled") ELSE run
    /\ UNCHANGED <<nextTask, active, lanePending, pending, starts, facts, openTool,
                   reconciled, lease, handlerVars, late, historyVars>>

\* handle_lane_command("abort") on a task of another process: the task is
\* read first
AbortRead(h) ==
    /\ OrphanAbort
    /\ pc[h] = "idle" /\ run[h].stage = "none" /\ status \in ActiveStatus
    /\ Read(h, "aborting")
    /\ UNCHANGED <<ledgerVars, lease, workerVars, historyVars>>

\* then cancelled if its lease is free.
AbortOrphan(h) ==
    LET s == Seen(h) IN
    /\ pc[h] = "aborting"
    /\ Return(h)
    /\ IF lease = NoHost /\ s.active
       THEN AppendFact(s.task, "cancelled") /\ Project(s.task, "cancelled")
       ELSE UNCHANGED <<facts, status>>
    /\ UNCHANGED <<nextTask, active, lanePending, pending, starts, openTool, reconciled,
                   lease, workerVars, historyVars>>

\* handle_reconcile_task_command reads the uncertain task
ReconcileRead(h) ==
    /\ pc[h] = "idle" /\ status = "uncertain"
    /\ Read(h, "reconciling")
    /\ UNCHANGED <<ledgerVars, lease, workerVars, historyVars>>

\* and, with the lease, reconciles it unless that was done meanwhile.
Reconcile(h) ==
    LET s == Seen(h) IN
    /\ pc[h] = "reconciling"
    /\ IF lease = NoHost /\ s.uncertain /\ s.task \notin reconciled
       THEN /\ reconciled' = reconciled \cup {s.task}
            /\ \E decided \in {"interrupted", "cancelled"} : Project(s.task, decided)
            /\ IF pending[s.task] = <<>>
               THEN Return(h) /\ UNCHANGED lease
               ELSE Prepare(h, "transferring", pending[s.task])
       ELSE Return(h) /\ UNCHANGED <<reconciled, status, lease>>
    /\ UNCHANGED <<nextTask, active, lanePending, pending, starts, facts, openTool,
                   workerVars, historyVars>>

-----------------------------------------------------------------------------
(* The agent loop and its trace recorder *)

\* At a turn boundary the loop takes the next queued turn; its TurnStarted
\* event only enters the recorder's queue.
TakeTurn(h) ==
    /\ run[h].stage = "loop" /\ run[h].tool = "none" /\ run[h].queue # <<>>
    /\ run' = [run EXCEPT ![h].turn = Head(run[h].queue), ![h].queue = Tail(@),
                          ![h].trace = Append(@, TurnEvent(Head(run[h].queue)))]
    /\ UNCHANGED <<ledgerVars, lease, handlerVars, late, historyVars>>

StartTool(h, k) ==
    /\ run[h].stage = "loop" /\ run[h].tool = "none" /\ run[h].tools < MaxTools
    /\ run' = [run EXCEPT ![h].tool = k, ![h].tools = @ + 1,
                          ![h].trace = Append(@, ToolEvent(k))]
    /\ UNCHANGED <<ledgerVars, lease, handlerVars, late, historyVars>>

\* A side effect is executed while its trace events are still in memory.
MutExecute(h) ==
    /\ run[h].stage = "loop" /\ run[h].tool \in SideKind
    /\ run' = [run EXCEPT ![h].tool = "executing"]
    /\ effects' = effects \cup {<<run[h].turn, run[h].task>>}
    /\ UNCHANGED <<ledgerVars, lease, handlerVars, late, prompted, orphaned>>

\* persist_before_side_effect: the recorder is flushed first, but only for a
\* tool whose preparation holds a workspace snapshot or before-images
Execute(h) ==
    /\ run[h].stage = "loop" /\ run[h].tool \in SideKind
    /\ run[h].tool = "side" => run[h].trace = <<>>
    /\ run' = [run EXCEPT ![h].tool = "executing"]
    /\ effects' = effects \cup {<<run[h].turn, run[h].task>>}
    /\ UNCHANGED <<ledgerVars, lease, handlerVars, late, prompted, orphaned>>

FinishTool(h) ==
    /\ Running(h) /\ run[h].tool # "none"
    /\ run' = [run EXCEPT ![h].tool = "none", ![h].trace = Append(@, ToolEvent("done"))]
    /\ UNCHANGED <<ledgerVars, lease, handlerVars, late, historyVars>>

\* The TurnStarted of a taken turn leaves it in the durable queue.
MutAppendTraceEvent(task, e) ==
    IF e.kind = "turn"
    THEN /\ starts' = [starts EXCEPT ![e.turn] = @ + 1]
         /\ active' = task /\ status' = "running"
         /\ UNCHANGED <<pending, openTool>>
    ELSE /\ openTool' = [openTool EXCEPT ![task] = IF e.kind = "done" THEN "none" ELSE e.kind]
         /\ UNCHANGED <<starts, pending, active, status>>

\* record_agent_trace: what the ledger derives from one trace event
AppendTraceEvent(task, e) ==
    IF e.kind = "turn"
    THEN /\ starts' = [starts EXCEPT ![e.turn] = @ + 1]
         /\ pending' = [pending EXCEPT ![task] = Without(@, e.turn)]
         /\ active' = task /\ status' = "running"
         /\ UNCHANGED openTool
    ELSE /\ openTool' = [openTool EXCEPT ![task] = IF e.kind = "done" THEN "none" ELSE e.kind]
         /\ UNCHANGED <<starts, pending, active, status>>

RecordTrace(h) ==
    /\ Running(h) /\ run[h].trace # <<>>
    /\ AppendTraceEvent(run[h].task, Head(run[h].trace))
    /\ run' = [run EXCEPT ![h].trace = Tail(@), ![h].lane = @ \ {Head(run[h].trace).turn}]
    /\ UNCHANGED <<nextTask, lanePending, facts, reconciled, lease, handlerVars, late,
                   historyVars>>

\* take_or_close finds no turn and closes the queue; verification decides
LoopEnds(h) ==
    /\ run[h].stage = "loop" /\ run[h].tool = "none" /\ run[h].queue = <<>>
    /\ \E result \in {"completed", "failed"} : run' = Closing(h, result)
    /\ UNCHANGED <<ledgerVars, lease, handlerVars, late, historyVars>>

\* A provider, tool or recorder error ends the run where it is.
LoopFails(h) ==
    /\ run[h].stage = "loop"
    /\ run' = Closing(h, "failed")
    /\ UNCHANGED <<ledgerVars, lease, handlerVars, late, historyVars>>

\* The worker panics or is aborted: its recorder drains in the background.
WorkerDies(h) ==
    /\ WorkerAborts /\ Running(h) /\ late[h] = NoLate
    /\ late' = [late EXCEPT ![h] = [task |-> run[h].task, trace |-> run[h].trace]]
    /\ \E result \in {"failed", "cancelled"} :
          run' = [run EXCEPT ![h].stage = "closing", ![h].trace = <<>>, ![h].tool = "none",
                             ![h].result = result]
    /\ UNCHANGED <<ledgerVars, lease, handlerVars, historyVars>>

\* One event of a dead worker's recorder, or its timeout or failure: a
\* TurnStarted needs the turn to be pending on the host's lane.
DrainLate(h) ==
    /\ late[h].trace # <<>>
    /\ LET e == Head(late[h].trace) IN
       IF e.kind = "turn" => e.turn \in run[h].lane
       THEN /\ AppendTraceEvent(late[h].task, e)
            /\ run' = [run EXCEPT ![h].lane = @ \ {e.turn}]
            /\ late' = [late EXCEPT ![h].trace = Tail(@)]
            /\ UNCHANGED <<nextTask, lanePending, facts, reconciled>>
       ELSE late' = [late EXCEPT ![h] = NoLate] /\ UNCHANGED <<ledgerVars, run>>
    /\ UNCHANGED <<lease, handlerVars, historyVars>>

\* The lease is dropped with the terminal fact, before the worker is gone.
MutFinish(h) ==
    /\ run[h].stage = "closing" /\ run[h].trace = <<>>
    /\ AppendFact(run[h].task, run[h].result)
    /\ Project(run[h].task, run[h].result)
    /\ lanePending' = IF active = run[h].task THEN run[h].lane ELSE lanePending
    /\ run' = [run EXCEPT ![h].stage = "ended"]
    /\ lease' = NoHost
    /\ UNCHANGED <<nextTask, active, pending, starts, openTool, reconciled,
                   handlerVars, late, historyVars>>

\* finish_lane_with_diagnostic, from run_agent_task or from its supervisor
Finish(h) ==
    /\ run[h].stage = "closing" /\ run[h].trace = <<>>
    /\ AppendFact(run[h].task, run[h].result)
    /\ Project(run[h].task, run[h].result)
    /\ lanePending' = IF active = run[h].task THEN run[h].lane ELSE lanePending
    /\ run' = [run EXCEPT ![h].stage = "ended"]
    /\ UNCHANGED <<nextTask, active, pending, starts, openTool, reconciled, lease,
                   handlerVars, late, historyVars>>

\* clear_task_control drops the control entry and with it the lease; the
\* lane stays
ClearControl(h) ==
    /\ run[h].stage = "ended"
    /\ run' = [run EXCEPT ![h] = [NoRun EXCEPT !.lane = run[h].lane]]
    /\ lease' = NoHost
    /\ UNCHANGED <<ledgerVars, handlerVars, late, historyVars>>

\* The process dies; the kernel drops its file locks.
Crash(h) ==
    /\ pc[h] \notin {"off", "dead"}
    /\ Goto(h, "dead")
    /\ local' = [local EXCEPT ![h] = NoLocal]
    /\ run' = [run EXCEPT ![h] = NoRun]
    /\ late' = [late EXCEPT ![h] = NoLate]
    /\ lease' = IF lease = h THEN NoHost ELSE lease
    /\ orphaned' = IF Running(h) THEN orphaned \cup {run[h].task} ELSE orphaned
    /\ UNCHANGED <<ledgerVars, prompted, effects>>

-----------------------------------------------------------------------------

Recovery(h) == RecoverScan(h) \/ RecoverLease(h) \/ RecoverSkip(h)

HandlerStep(h) ==
    Transfer(h) \/ Restart(h) \/ CreateTask(h) \/ AbortOrphan(h) \/ Reconcile(h)

Command(h) ==
    \/ \E t \in Turns : QueueTurn(h, t) \/ CancelTurn(h, t) \/ PromptLease(h, t)
    \/ Abort(h) \/ AbortRead(h) \/ ReconcileRead(h)

LoopStep(h) ==
    \/ TakeTurn(h) \/ Execute(h) \/ FinishTool(h) \/ LoopEnds(h) \/ LoopFails(h)
    \/ \E k \in ToolKind : StartTool(h, k)

WorkerStep(h) ==
    RecordTrace(h) \/ DrainLate(h) \/ Finish(h) \/ ClearControl(h)

Next ==
    \E h \in Hosts :
        \/ Recovery(h) \/ HandlerStep(h) \/ Command(h)
        \/ LoopStep(h) \/ WorkerStep(h) \/ WorkerDies(h) \/ Crash(h)

Spec == Init /\ [][Next]_vars

\* The tokio runtime runs every ready task of a live process; processes are
\* opened again on the workspace.
Fairness ==
    \A h \in Hosts :
        WF_vars(Recovery(h)) /\ WF_vars(HandlerStep(h)) /\ WF_vars(WorkerStep(h))

FairSpec == Spec /\ Fairness

-----------------------------------------------------------------------------
(* Properties *)

Status == {"idle", "completed", "failed", "cancelled", "interrupted", "uncertain"}
              \cup ActiveStatus
Fact == {"completed", "failed", "cancelled", "interrupted", "uncertain"}
PcLabels == {"off", "scanned", "transferring", "restarting", "idle", "creating",
             "aborting", "reconciling", "dead"}
TraceEvent == [kind: {"turn"}, turn: Turns] \cup [kind: {"done"} \cup ToolKind, turn: {NoTurn}]
Local == [seen: [task: Tasks \cup {NoTask}, active: BOOLEAN, uncertain: BOOLEAN,
                 queued: BOOLEAN],
          turns: Seq(Turns), task: Tasks \cup {NoTask}]
Run == [stage: {"none", "loop", "closing", "ended"}, task: Tasks \cup {NoTask},
        turn: Turns \cup {NoTurn}, queue: Seq(Turns), lane: SUBSET Turns,
        trace: Seq(TraceEvent), tool: {"none", "executing"} \cup ToolKind,
        tools: 0..MaxTools, result: {"none"} \cup Fact]

\* A handler that holds the lease and is about to start a turn.
Starting(h) == pc[h] \in {"transferring", "restarting", "creating"}

\* The types of the ledger, the lease and the hosts: a run has a task and a
\* turn, and a handler that holds the lease to start turns has turns to start.
TypeOK ==
    /\ nextTask \in 1..(MaxTasks + 1) /\ active \in Tasks \cup {NoTask}
    /\ status \in Status /\ lanePending \subseteq Turns
    /\ pending \in [Tasks -> Seq(Turns)]
    /\ starts \in [Turns -> Nat]
    /\ facts \in [Tasks -> Seq(Fact)]
    /\ openTool \in [Tasks -> {"none"} \cup ToolKind]
    /\ reconciled \subseteq Tasks
    /\ lease \in Hosts \cup {NoHost}
    /\ pc \in [Hosts -> PcLabels]
    /\ local \in [Hosts -> Local]
    /\ run \in [Hosts -> Run]
    /\ \A h \in Hosts : run[h].stage # "none" => run[h].task \in Tasks /\ run[h].turn \in Turns
    /\ \A h \in Hosts : Starting(h) => local[h].turns # <<>>
    /\ \A h \in Hosts : pc[h] = "restarting" => local[h].task \in Tasks
    /\ late \in [Hosts -> [task: Tasks \cup {NoTask}, trace: Seq(TraceEvent)]]
    /\ prompted \subseteq Turns /\ orphaned \subseteq Tasks
    /\ effects \subseteq Turns \X Tasks

\* A host that runs the task, or is about to start one.
Owns(h) == run[h].stage # "none" \/ Starting(h)

\* The session has one owner at a time, through crashes, recovery,
\* reconciliation and new prompts: every path goes through the lease.
SingleOwner == \A g, h \in Hosts : Owns(g) /\ Owns(h) => g = h

\* The turns that the events of a trace start, in their order.
WithTurn(turns, e) == IF e.kind = "turn" THEN Append(turns, e.turn) ELSE turns
TakenTurns(trace) ==
    LET taken[n \in 0..Len(trace)] ==
            IF n = 0 THEN <<>> ELSE WithTurn(taken[n - 1], trace[n])
    IN  taken[Len(trace)]

\* At every instant, and so at every possible crash, the ledger's queued
\* turns of a running task are exactly the ones its loop has not durably
\* started, in the order in which it will start them.
LedgerMatchesQueue ==
    \A h \in Hosts :
        Running(h) /\ late[h].task # run[h].task =>
            pending[run[h].task] = TakenTurns(run[h].trace) \o run[h].queue

\* A side effect is journaled before it happens: its turn is durably started,
\* and until the tool has returned the ledger shows an unclosed
\* side-effecting tool, which recovery classifies as uncertain.
EffectIsJournaled ==
    /\ \A e \in effects : starts[e[1]] > 0
    /\ \A h \in Hosts : Running(h) /\ run[h].tool = "executing" =>
                            openTool[run[h].task] \in SideKind

\* A task whose owner died while the ledger shows an unclosed side-effecting
\* tool keeps the session: no other task becomes active before it is reconciled.
UnreconciledBlocks ==
    \A k \in orphaned : openTool[k] \in SideKind /\ k \notin reconciled => active = k

\* A turn is started at most once, whatever crashes and restarts happen
\* between its queueing, its transfer to a recovery task and its start.
StartedOnce == \A t \in Turns : starts[t] <= 1

\* A task has at most one terminal fact.
OneTerminalFact == \A k \in Tasks : Len(facts[k]) <= 1

\* Nothing the ledger says once is said twice: the start of a turn and the end
\* of a task, through crashes, recoveries and transfers.
SaidOnce == StartedOnce /\ OneTerminalFact

\* A turn that was queued on a task whose owner died, and never started or
\* cancelled, stays in the queue of the active task, the only one whose queued
\* turns a later recovery looks at.
QueuedIsRecoverable ==
    \A k \in orphaned : \A t \in ElementsOf(pending[k]) :
        starts[t] = 0 => t \in ElementsOf(pending[active])

\* A host that opens the workspace after a task lost its owner gives the task
\* its terminal fact, unless it dies too.
NewHostSettlesOrphan ==
    \A h \in Hosts, k \in Tasks :
        pc[h] = "off" /\ k \in orphaned ~> facts[k] # <<>> \/ pc[h] = "dead"
=============================================================================
