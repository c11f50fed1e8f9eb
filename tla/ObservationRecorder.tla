------------------------- MODULE ObservationRecorder -------------------------
(***************************************************************************)
(* The observation queue between one agent loop and its recorder.           *)
(*                                                                         *)
(* The loop emits observations from synchronous code, so it can never wait   *)
(* for the store: facts are queued, live deltas of one provider stream or    *)
(* one tool are coalesced, and beyond the queue's limits the observation is  *)
(* refused and the run cancelled.  A drain worker records the queue in order. *)
(* Before a side effect the loop flushes: it waits until the worker has       *)
(* recorded all that it emitted.                                              *)
(*                                                                         *)
(* Sources (crates/golutra-agent-client/src): observation_recorder.rs (the    *)
(* queue), execution.rs (ChannelObservationSink, HostedObservationRecorder,   *)
(* run_agent_task), execution_trace.rs (CanonicalFactRecorder::drain),        *)
(* lib.rs (HostedCheckpointRecorder).                                         *)
(***************************************************************************)
EXTENDS Integers, Sequences, SequencesExt

CONSTANTS
    StreamKeys,    \* provider streams: text, reasoning and tool-call deltas
    ProgressKeys,  \* running tools: progress reports
    NoKey,
    FactBytes,     \* estimated size of a fact; that of a delta is 2
    MaxCommands, MaxBytes, MaxLive,   \* QueueLimits
    MaxEmits,      \* bound: observations the loop emits
    MaxFlushes,    \* bound: side effects the loop prepares
    StoreFails,    \* TRUE if recording an observation may fail
    Aborts         \* TRUE if the task of the loop may be dropped

ASSUME LimitsAssumption == {FactBytes, MaxCommands, MaxBytes, MaxLive} \subseteq Nat \ {0}
ASSUME BoundsAssumption == {MaxEmits, MaxFlushes} \subseteq Nat
ASSUME FlagsAssumption == {StoreFails, Aborts} \subseteq BOOLEAN
ASSUME KeysAssumption == NoKey \notin StreamKeys \cup ProgressKeys

VARIABLES
    queue,     \* QueueState: commands, live, command_bytes, live_bytes, closed
    permit,    \* the stored permit of Notify
    waiter,    \* the worker's Notified future: "none", "armed", or woken by
               \* "one", "all" or a stored "permit"
    worker,    \* control state of the drain worker
    current,   \* the command the worker has taken
    result,    \* how the worker ended
    loop,      \* control state of the agent loop's task
    flushNo,   \* flushes begun; the number of the newest
    ack,       \* what its oneshot channel holds
    sendError, \* the sink's sticky error
    cancelled, \* the run's cancellation token
    outcome,   \* how the run ended
    \* history
    emitted,   \* what the loop emitted: <<key, kind>> in order
    accepted,  \* positions in emitted of what the queue took
    recorded,  \* what the worker recorded, in order
    barrier    \* Len(emitted) when the last flush let a side effect through

notifyVars == <<permit, waiter>>
workerVars == <<worker, current, result>>
sinkVars == <<sendError, emitted, accepted>>
runVars == <<loop, flushNo, ack, cancelled, outcome, barrier>>
vars == <<queue, notifyVars, workerVars, sinkVars, runVars, recorded>>

-----------------------------------------------------------------------------
(* Commands *)

MergingKinds == {"text", "reasoning"}
StreamKinds == MergingKinds \cup {"call"}
PayloadBytes == 1
Keys == StreamKeys \cup ProgressKeys
Kinds == StreamKinds \cup {"fact", "progress"}

\* A command is an event that stands for 1 + omitted emitted observations and
\* carries the payloads of parts, or a flush.
Event(key, kind, position, bytes) ==
    [key |-> key, kind |-> kind, parts |-> <<position>>, omitted |-> 0, bytes |-> bytes]
NewEvent(key, kind, position) ==
    Event(key, kind, position, IF key = NoKey THEN FactBytes ELSE 1 + PayloadBytes)
FlushCommand(n) == Event(NoKey, "flush", n, 0)
NoCommand == Event(NoKey, "none", 0, 0)
IsEvent(c) == c.kind \in Kinds

\* The sum of a sequence of numbers.
Total(numbers) ==
    LET sum[n \in 0..Len(numbers)] == IF n = 0 THEN 0 ELSE sum[n - 1] + numbers[n]
    IN  sum[Len(numbers)]

Bytes(commands) == Total([i \in 1..Len(commands) |-> commands[i].bytes])

-----------------------------------------------------------------------------
(* QueueState *)

NewQueue == [commands |-> <<>>, live |-> <<>>, commandBytes |-> 0, liveBytes |-> 0,
             closed |-> FALSE]

FitsLimits(q, moreCommands, moreBytes) ==
    /\ Len(q.commands) + Len(q.live) + moreCommands <= MaxCommands
    /\ q.commandBytes + q.liveBytes + moreBytes <= MaxBytes

\* The live observation at i leaves the live lane.
RemoveLive(q, i) ==
    [q EXCEPT !.live = RemoveAt(@, i), !.liveBytes = @ - q.live[i].bytes]

PushBackLive(q, e) == [q EXCEPT !.live = Append(@, e), !.liveBytes = @ + e.bytes]
EnqueueLive(q, e) == [q EXCEPT !.commands = Append(@, e), !.commandBytes = @ + e.bytes]

FlushPendingLive(q) ==
    [q EXCEPT !.commands = @ \o q.live, !.commandBytes = @ + Bytes(q.live),
              !.live = <<>>, !.liveBytes = @ - Bytes(q.live)]

LiveIndexes(q, key) == {i \in 1..Len(q.live) : q.live[i].key = key}

\* Text is appended to, everything else replaced.
Coalesce(old, e) ==
    IF e.kind \in MergingKinds
    THEN [old EXCEPT !.parts = @ \o e.parts, !.omitted = @ + 1, !.bytes = @ + PayloadBytes]
    ELSE [e EXCEPT !.omitted = old.omitted + 1]

\* The oldest entry of a full live lane is enqueued.
MakeRoom(q) ==
    IF Len(q.live) >= MaxLive THEN EnqueueLive(RemoveLive(q, 1), Head(q.live)) ELSE q

\* push_live: the set holds the next queue, or is empty on overload.
PushLive(q, e) ==
    IF LiveIndexes(q, e.key) = {}
    THEN IF FitsLimits(q, 1, e.bytes) THEN {PushBackLive(MakeRoom(q), e)} ELSE {}
    ELSE LET i == CHOOSE j \in LiveIndexes(q, e.key) : TRUE
             old == q.live[i]
             next == Coalesce(old, e) IN
         IF old.kind # e.kind
         THEN IF FitsLimits(q, 1, e.bytes)
              THEN {PushBackLive(EnqueueLive(RemoveLive(q, i), old), e)} ELSE {}
         ELSE IF FitsLimits(q, 0, next.bytes - old.bytes)
              THEN {PushBackLive(RemoveLive(q, i), next)} ELSE {}

\* A command overtakes the live observations before it.
MutPushLossless(q, c) ==
    IF FitsLimits(q, 1, c.bytes)
    THEN {[q EXCEPT !.commands = Append(@, c), !.commandBytes = @ + c.bytes]} ELSE {}

PushLossless(q, c) ==
    IF FitsLimits(q, 1, c.bytes)
    THEN {[FlushPendingLive(q) EXCEPT !.commands = Append(@, c),
                                      !.commandBytes = @ + c.bytes]} ELSE {}

CloseState(q) == FlushPendingLive([q EXCEPT !.closed = TRUE])

-----------------------------------------------------------------------------
(* tokio::sync::Notify with one waiter *)

NotifyOne ==
    IF waiter = "armed"
    THEN waiter' = "one" /\ UNCHANGED permit
    ELSE permit' = TRUE /\ UNCHANGED waiter

NotifyWaiters ==
    /\ waiter' = IF waiter = "armed" THEN "all" ELSE waiter
    /\ UNCHANGED permit

\* A Notified that was woken by notify_one and never polled passes it on.
DropNotified ==
    /\ waiter' = "none"
    /\ permit' = (permit \/ waiter = "one")

-----------------------------------------------------------------------------
(* The agent loop *)

Init ==
    /\ queue = NewQueue
    /\ permit = FALSE /\ waiter = "none"
    /\ worker = "next" /\ current = NoCommand /\ result = "none"
    /\ loop = "run" /\ flushNo = 0 /\ ack = "none"
    /\ sendError = FALSE /\ cancelled = FALSE /\ outcome = "none"
    /\ emitted = <<>> /\ accepted = {} /\ recorded = <<>> /\ barrier = 0

Position == Len(emitted) + 1

\* The sink goes on sending after an error.
MutRefused == queue.closed

\* Sink or queue take nothing any more.
Refused == sendError \/ queue.closed

\* ChannelObservationSink::emit and ObservationSender::send.  The first error
\* stays and cancels the run.
Emit(key, kind) ==
    LET e == NewEvent(key, kind, Position)
        pushed == IF key = NoKey THEN PushLossless(queue, e) ELSE PushLive(queue, e) IN
    /\ loop = "run" /\ Len(emitted) < MaxEmits
    /\ emitted' = Append(emitted, <<key, kind>>)
    /\ IF Refused \/ pushed = {}
       THEN /\ sendError' = TRUE /\ cancelled' = TRUE
            /\ UNCHANGED <<queue, accepted>>
       ELSE /\ queue' \in pushed
            /\ accepted' = accepted \cup {Position}
            /\ UNCHANGED <<sendError, cancelled>>
    /\ loop' = IF Refused THEN "run" ELSE "notify"
    /\ UNCHANGED <<notifyVars, workerVars, flushNo, ack, outcome, recorded, barrier>>

\* The wakeup after the queue's lock is released.
Notify ==
    /\ loop \in {"notify", "notifyFlush"}
    /\ NotifyOne
    /\ loop' = IF loop = "notify" THEN "run" ELSE "flushing"
    /\ UNCHANGED <<queue, workerVars, sinkVars, flushNo, ack, cancelled, outcome, recorded,
                   barrier>>

\* persist_before_side_effect; a flush that is refused only fails the tool
BeginFlush ==
    LET pushed == PushLossless(queue, FlushCommand(flushNo + 1)) IN
    /\ loop = "run" /\ ~cancelled /\ flushNo < MaxFlushes
    /\ flushNo' = flushNo + 1 /\ ack' = "none"
    /\ IF queue.closed \/ pushed = {}
       THEN UNCHANGED <<queue, loop>>
       ELSE queue' \in pushed /\ loop' = "notifyFlush"
    /\ UNCHANGED <<notifyVars, workerVars, sinkVars, cancelled, outcome, recorded, barrier>>

\* The side effect goes ahead on any answer.
MutEndFlush ==
    /\ loop = "flushing"
    /\ cancelled \/ ack # "none"
    /\ loop' = "run"
    /\ barrier' = IF ack # "none" THEN Len(emitted) ELSE barrier
    /\ UNCHANGED <<queue, notifyVars, workerVars, sinkVars, flushNo, ack, cancelled, outcome,
                   recorded>>

\* await_runtime_operation looks at the cancellation before the answer.
EndFlush ==
    /\ loop = "flushing"
    /\ cancelled \/ ack # "none"
    /\ loop' = "run"
    /\ barrier' = IF ~cancelled /\ ack = "ok" THEN Len(emitted) ELSE barrier
    /\ UNCHANGED <<queue, notifyVars, workerVars, sinkVars, flushNo, ack, cancelled, outcome,
                   recorded>>

\* The run's deadline passes; the flush command stays queued.
FlushTimesOut ==
    /\ loop = "flushing"
    /\ loop' = "run"
    /\ UNCHANGED <<queue, notifyVars, workerVars, sinkVars, flushNo, ack, cancelled, outcome,
                   recorded, barrier>>

Cancel ==
    /\ loop \in {"run", "flushing"} /\ ~cancelled
    /\ cancelled' = TRUE
    /\ UNCHANGED <<queue, notifyVars, workerVars, sinkVars, loop, flushNo, ack, outcome,
                   recorded, barrier>>

\* HostedObservationRecorder::close, once the loop has returned
Close ==
    /\ loop = "run"
    /\ queue' = IF queue.closed THEN queue ELSE CloseState(queue)
    /\ loop' = IF queue.closed THEN "joining" ELSE "notifyClose"
    /\ UNCHANGED <<notifyVars, workerVars, sinkVars, flushNo, ack, cancelled, outcome,
                   recorded, barrier>>

\* The waiting worker is not told that the queue was closed.
MutCloseNotify ==
    /\ loop = "notifyClose" /\ loop' = "joining"
    /\ UNCHANGED <<queue, notifyVars, workerVars, sinkVars, flushNo, ack, cancelled, outcome,
                   recorded, barrier>>

CloseNotify ==
    /\ loop = "notifyClose"
    /\ NotifyWaiters
    /\ loop' = "joining"
    /\ UNCHANGED <<queue, workerVars, sinkVars, flushNo, ack, cancelled, outcome, recorded,
                   barrier>>

\* run_agent_task fails if the worker or the sink has failed.
Join ==
    /\ loop = "joining" /\ worker = "ended"
    /\ loop' = "done"
    /\ outcome' = IF result = "ok" /\ ~sendError THEN "ok" ELSE "failed"
    /\ UNCHANGED <<queue, notifyVars, workerVars, sinkVars, flushNo, ack, cancelled, recorded,
                   barrier>>

\* The loop's task is dropped at an await: ingress is closed, and the worker
\* has a while to drain.
DropLoop ==
    /\ Aborts /\ loop \in {"run", "flushing", "joining"}
    /\ loop' = "dropped"
    /\ IF queue.closed
       THEN UNCHANGED <<queue, notifyVars>>
       ELSE queue' = CloseState(queue) /\ NotifyWaiters
    /\ UNCHANGED <<workerVars, sinkVars, flushNo, ack, cancelled, outcome, recorded, barrier>>

-----------------------------------------------------------------------------
(* The drain worker *)

\* next() registers with Notify before it looks at the queue.
Arm ==
    /\ worker = "next" /\ worker' = "check"
    /\ waiter' = IF permit THEN "permit" ELSE "armed"
    /\ permit' = FALSE
    /\ UNCHANGED <<queue, current, result, sinkVars, runVars, recorded>>

\* try_next finds a command, or else a live observation
Take ==
    /\ worker = "check"
    /\ \/ /\ queue.commands # <<>>
          /\ current' = Head(queue.commands)
          /\ queue' = [queue EXCEPT !.commands = Tail(@), !.commandBytes = @ - current'.bytes]
       \/ /\ queue.commands = <<>> /\ ~queue.closed /\ queue.live # <<>>
          /\ current' = Head(queue.live)
          /\ queue' = RemoveLive(queue, 1)
    /\ worker' = "recording"
    /\ DropNotified
    /\ UNCHANGED <<result, sinkVars, runVars, recorded>>

\* The queue is closed and empty: drain returns.
Drained ==
    /\ worker = "check" /\ queue.commands = <<>> /\ queue.closed
    /\ worker' = "ended" /\ result' = "ok"
    /\ DropNotified
    /\ UNCHANGED <<queue, current, sinkVars, runVars, recorded>>

Wait ==
    /\ worker = "check" /\ queue.commands = <<>> /\ ~queue.closed /\ queue.live = <<>>
    /\ worker' = "waiting"
    /\ UNCHANGED <<queue, notifyVars, current, result, sinkVars, runVars, recorded>>

Wake ==
    /\ worker = "waiting" /\ waiter \in {"one", "all", "permit"}
    /\ worker' = "next" /\ waiter' = "none"
    /\ UNCHANGED <<queue, permit, current, result, sinkVars, runVars, recorded>>

\* The observation is in the ledger.
Record ==
    /\ worker = "recording" /\ current.kind # "flush"
    /\ recorded' = Append(recorded, current)
    /\ worker' = "next" /\ current' = NoCommand
    /\ UNCHANGED <<queue, notifyVars, result, sinkVars, runVars>>

\* A flush is answered; nobody may wait for it any more.
Acknowledge ==
    /\ worker = "recording" /\ current.kind = "flush"
    /\ ack' = IF current.parts = <<flushNo>> /\ ack = "none" THEN "ok" ELSE ack
    /\ worker' = "next" /\ current' = NoCommand
    /\ UNCHANGED <<queue, notifyVars, result, sinkVars, loop, flushNo, cancelled, outcome,
                   recorded, barrier>>

\* ObservationReceiver::drop: what is queued is lost, flushes are refused.
DropReceiver ==
    /\ queue' = [queue EXCEPT !.closed = TRUE, !.live = <<>>, !.commands = <<>>]
    /\ ack' = IF ack = "none" /\ \E c \in ToSet(queue.commands) \cup {current} :
                                     c.kind = "flush" /\ c.parts = <<flushNo>>
              THEN "closed" ELSE ack
    /\ worker' = "ended" /\ result' = "failed" /\ current' = NoCommand
    /\ UNCHANGED <<sinkVars, loop, flushNo, cancelled, outcome, barrier>>

\* The store fails, before or after it has appended the observation.
RecordFails ==
    /\ StoreFails /\ worker = "recording" /\ current.kind # "flush"
    /\ DropReceiver /\ UNCHANGED notifyVars
    /\ recorded' \in {recorded, Append(recorded, current)}

\* The drain of a dropped run takes too long, or nobody waits for it any more:
\* the worker is aborted.
DrainTimesOut ==
    /\ loop = "dropped" /\ worker \in {"waiting", "recording"}
    /\ DropReceiver /\ DropNotified
    /\ recorded' \in {recorded} \cup
           (IF IsEvent(current) THEN {Append(recorded, current)} ELSE {})

-----------------------------------------------------------------------------

LoopStep == Notify \/ EndFlush \/ CloseNotify \/ Join
WorkerStep == Arm \/ Take \/ Drained \/ Wait \/ Wake \/ Record \/ Acknowledge \/ RecordFails

Next ==
    \/ Emit(NoKey, "fact")
    \/ \E key \in StreamKeys, kind \in StreamKinds : Emit(key, kind)
    \/ \E key \in ProgressKeys : Emit(key, "progress")
    \/ BeginFlush \/ FlushTimesOut \/ Cancel \/ Close \/ DropLoop \/ DrainTimesOut
    \/ LoopStep \/ WorkerStep

Spec == Init /\ [][Next]_vars

\* Both tasks are scheduled by tokio and a store call returns.
FairSpec == Spec /\ WF_vars(LoopStep) /\ WF_vars(WorkerStep)

-----------------------------------------------------------------------------
(* Properties *)

Commands == [key: Keys \cup {NoKey}, kind: Kinds \cup {"flush", "none"}, parts: Seq(Nat),
             omitted: Nat, bytes: Nat]

\* The queue never exceeds its limits, and its byte counters are exact.
WithinLimits ==
    /\ Len(queue.commands) + Len(queue.live) <= MaxCommands
    /\ Len(queue.live) <= MaxLive
    /\ queue.commandBytes + queue.liveBytes <= MaxBytes
    /\ result # "failed" => /\ queue.commandBytes = Bytes(queue.commands)
                            /\ queue.liveBytes = Bytes(queue.live)

\* The types of the queue, the worker and the run, and the limits that the
\* queue never exceeds, whatever is coalesced, evicted or flushed.
TypeOK ==
    /\ queue \in [commands: Seq(Commands), live: Seq(Commands), commandBytes: Nat,
                  liveBytes: Nat, closed: BOOLEAN]
    /\ permit \in BOOLEAN /\ waiter \in {"none", "armed", "one", "all", "permit"}
    /\ worker \in {"next", "check", "waiting", "recording", "ended"}
    /\ current \in Commands /\ result \in {"none", "ok", "failed"}
    /\ loop \in {"run", "notify", "notifyFlush", "flushing", "notifyClose", "joining", "done",
                 "dropped"}
    /\ flushNo \in 0..MaxFlushes /\ ack \in {"none", "ok", "closed"}
    /\ sendError \in BOOLEAN /\ cancelled \in BOOLEAN
    /\ outcome \in {"none", "ok", "failed"}
    /\ emitted \in Seq((Keys \cup {NoKey}) \X Kinds)
    /\ accepted \subseteq 1..Len(emitted) /\ barrier \in 0..Len(emitted)
    /\ recorded \in Seq(Commands)
    /\ WithinLimits

\* Everything taken and not lost, in the order in which it is or will be
\* recorded.
Pipeline == recorded \o <<current>> \o queue.commands \o queue.live

\* Observations of one key, or of which one is a fact, keep their order.
KeepOrder(a, b) == a.key = b.key \/ a.key = NoKey \/ b.key = NoKey
InOrder(a, b) ==
    IsEvent(a) /\ IsEvent(b) /\ KeepOrder(a, b) =>
        \A p \in ToSet(a.parts), r \in ToSet(b.parts) : p < r
Increasing(parts) == \A k, l \in 1..Len(parts) : k < l => parts[k] < parts[l]

\* Coalescing, moving to the back, flushing the live lane and pushing its
\* oldest entry out never reorder what a reader of the ledger relates: the
\* deltas of one stream or tool, and any observation and a fact.
RecordedInOrder ==
    \A i \in 1..Len(Pipeline) :
        /\ IsEvent(Pipeline[i]) => Increasing(Pipeline[i].parts)
        /\ \A j \in 1..Len(Pipeline) : i < j => InOrder(Pipeline[i], Pipeline[j])

\* How many emitted observations the commands stand for.
Observations(c) == IF IsEvent(c) THEN 1 + c.omitted ELSE 0
Covered(commands) == Total([i \in 1..Len(commands) |-> Observations(commands[i])])

CarriedOf(key, kind) ==
    UNION {ToSet(c.parts) : c \in {d \in ToSet(Pipeline) : d.key = key /\ d.kind = kind}}
AcceptedOf(key, kind) == {p \in accepted : emitted[p] = <<key, kind>>}

\* Nothing accepted disappears as long as the worker lives: text and facts
\* are carried completely (and, being in order, once), and every delta that was
\* replaced is counted in the omitted_events of the one that replaced it.
NothingDisappears ==
    result # "failed" =>
        /\ Covered(Pipeline) = Cardinality(accepted)
        /\ \A key \in Keys \cup {NoKey}, kind \in MergingKinds \cup {"fact"} :
               CarriedOf(key, kind) = AcceptedOf(key, kind)

\* Whatever is merged, replaced, held back and pushed out, the ledger tells what
\* the run emitted, in an order its readers cannot tell from the run's.
LedgerTellsTheRun == RecordedInOrder /\ NothingDisappears

RecordedParts == UNION {ToSet(c.parts) : c \in ToSet(recorded)}
FactsBelow(n) == {p \in 1..n : emitted[p] = <<NoKey, "fact">>}

\* A side effect goes ahead only when every fact emitted before it is in the
\* ledger, also when the queue was overloaded, the flush timed out or the
\* store failed in between.
FlushIsBarrier == FactsBelow(barrier) \subseteq RecordedParts

\* The ledger of a run that loses observations has no hole: the recorded
\* facts are the first ones of those emitted.
NoHole ==
    \A p \in RecordedParts : emitted[p] = <<NoKey, "fact">> =>
        FactsBelow(p) \subseteq RecordedParts

\* A run that ends well has lost nothing.
OkMeansComplete == outcome = "ok" => Covered(recorded) = Len(emitted)

\* At the limits of the queue, with a failed store or a dropped run, nothing is
\* lost silently: the facts end where the loss begins, and the run fails.
NoSilentLoss == NoHole /\ OkMeansComplete

\* A flush is answered or given up.
FlushReturns == loop = "flushing" ~> loop # "flushing"

\* A closed recorder's worker ends, and so does the run that waits for it.
CloseReturns == queue.closed ~> worker = "ended" /\ loop \in {"run", "done", "dropped"}

\* Whoever waits for the recorder is answered: a flush, and the close.
CallersReturn == FlushReturns /\ CloseReturns
=============================================================================
