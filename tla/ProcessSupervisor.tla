-------------------------- MODULE ProcessSupervisor --------------------------
(***************************************************************************)
(* Long-lived child processes of the shell tools: start, termination of one   *)
(* process, of a session and of everything, the task that supervises each     *)
(* child, and the reuse of process identifiers by the operating system.       *)
(*                                                                         *)
(* A launch is one child and its ManagedProcess.  A launch's signals and its  *)
(* reaping share a lock (pid_lifecycle), its termination and the publication  *)
(* of its end share another (operation), and starting is behind a gate that   *)
(* the two mass terminations take to collect what there is.                   *)
(*                                                                         *)
(* Source: crates/golutra-agent-tools/src/process_supervisor.rs               *)
(***************************************************************************)
EXTENDS Naturals, FiniteSets

CONSTANTS
    Callers,        \* concurrent callers of the supervisor
    Ids,            \* process ids, one per tool call
    SessionOf,      \* the session of each
    Launches,       \* bound: children ever spawned
    MaxProcesses,   \* children that may run at a time
    MaxShutdowns,   \* bound: calls of shutdown and shutdown_and_wait
    NoOne

ASSUME ProcessAssumption ==
    /\ DOMAIN SessionOf = Ids
    /\ NoOne \notin Callers \cup Launches
    /\ MaxProcesses \in Nat /\ MaxShutdowns \in Nat

VARIABLES
    processes,          \* the entry of each id
    gate,               \* start_gate
    terminating,        \* terminating_sessions: how often each is marked
    shutdown,           \* the supervisor's cancellation token
    child,              \* the child as the system sees it
    pid, reaped,        \* pid_lifecycle
    lifecycle,          \* who holds its lock
    active,             \* launches registered in active_pids
    operation,          \* who holds the operation lock
    intent,             \* termination_intent
    control, cancelled, timedOut,   \* the tokens and the timer of a launch
    state, scanned,     \* its published state and workspace scan
    sup, wait,          \* its supervising task, and the task's wait for the child
    pc, arg, todo, waiting,         \* the callers
    shutdowns,          \* how often a shutdown began
    misfired,           \* a signal went to an id the system may have reused
    accepted,           \* launches that terminate() found running
    closed              \* shutdown_and_wait returned Ok

launchVars == <<child, pid, reaped, lifecycle, active, operation, intent, control, cancelled,
                timedOut, state, scanned, sup, wait>>
callerVars == <<pc, arg, todo, waiting>>
ghosts == <<misfired, accepted, closed, shutdowns>>
vars == <<processes, gate, terminating, shutdown, launchVars, callerVars, ghosts>>

Sessions == {SessionOf[i] : i \in Ids}
Entries == {processes[i] : i \in Ids} \ {NoOne}

\* TerminationReason, in order of priority
Reasons == [none |-> 0, TimedOut |-> 1, Cancelled |-> 2, Terminated |-> 3]
Terminal(l) == state[l] \notin {"none", "Running"}

Init ==
    /\ processes = [i \in Ids |-> NoOne] /\ gate = NoOne
    /\ terminating = [s \in Sessions |-> 0] /\ shutdown = FALSE
    /\ child = [l \in Launches |-> "none"]
    /\ pid = [l \in Launches |-> FALSE] /\ reaped = [l \in Launches |-> FALSE]
    /\ lifecycle = [l \in Launches |-> NoOne]
    /\ active = {}
    /\ operation = [l \in Launches |-> NoOne]
    /\ intent = [l \in Launches |-> "none"]
    /\ control = {} /\ cancelled = {} /\ timedOut = {}
    /\ state = [l \in Launches |-> "none"] /\ scanned = {}
    /\ sup = [l \in Launches |-> "idle"] /\ wait = [l \in Launches |-> "probe"]
    /\ pc = [a \in Callers |-> "idle"] /\ arg = [a \in Callers |-> NoOne]
    /\ todo = [a \in Callers |-> {}] /\ waiting = [a \in Callers |-> {}]
    /\ misfired = FALSE /\ accepted = {} /\ closed = FALSE /\ shutdowns = 0

-----------------------------------------------------------------------------
(* Signals and reasons *)

\* TerminationIntent::request: a stronger reason stays.
Latched(old, new) == IF Reasons[old] < Reasons[new] THEN new ELSE old

\* terminate_process_group: the child and its group are dying; one that was
\* reaped has given its id back.
Signals(l) ==
    /\ child' = [child EXCEPT ![l] = IF @ = "running" THEN "dying" ELSE @]
    /\ misfired' = (misfired \/ child[l] = "reaped")

\* terminate_entry_process, under the lifecycle lock
TerminateEntry(l) ==
    /\ lifecycle[l] = NoOne
    /\ IF reaped[l] \/ ~pid[l] THEN UNCHANGED <<pid, child, misfired>>
       ELSE pid' = [pid EXCEPT ![l] = FALSE] /\ Signals(l)

Goto(a, step) == pc' = [pc EXCEPT ![a] = step] /\ UNCHANGED <<arg, todo, waiting>>

Return(a) ==
    /\ pc' = [pc EXCEPT ![a] = "idle"] /\ arg' = [arg EXCEPT ![a] = NoOne]
    /\ todo' = [todo EXCEPT ![a] = {}] /\ waiting' = [waiting EXCEPT ![a] = {}]

\* A child ends, by itself or because of a signal; it stays a zombie until its
\* parent waits for it.
Exit(l) ==
    /\ child[l] \in {"running", "dying"} /\ child' = [child EXCEPT ![l] = "zombie"]
    /\ UNCHANGED <<processes, gate, terminating, shutdown, pid, reaped, lifecycle, active, operation,
                   intent, control, cancelled, timedOut, state, scanned, sup, wait, callerVars,
                   ghosts>>

\* The task that started it is cancelled; its time is over.
CancelOrTimeout(l) ==
    /\ child[l] # "none" /\ state[l] \in {"none", "Running"} /\ l \notin cancelled \cup timedOut
    /\ \/ cancelled' = cancelled \cup {l} /\ UNCHANGED timedOut
       \/ sup[l] # "idle" /\ timedOut' = timedOut \cup {l} /\ UNCHANGED cancelled
    /\ UNCHANGED <<processes, gate, terminating, shutdown, child, pid, reaped, lifecycle, active,
                   operation, intent, control, state, scanned, sup, wait, callerVars, ghosts>>

-----------------------------------------------------------------------------
(* start_with_input *)

StartCall(a, i) ==
    /\ pc[a] = "idle" /\ ~shutdown
    /\ pc' = [pc EXCEPT ![a] = "start"] /\ arg' = [arg EXCEPT ![a] = i]
    /\ UNCHANGED <<processes, gate, terminating, shutdown, launchVars, todo, waiting, ghosts>>

Running == {l \in Entries : ~Terminal(l)}

MayStart(i) ==
    /\ ~shutdown /\ terminating[SessionOf[i]] = 0
    /\ processes[i] = NoOne /\ Cardinality(Running) < MaxProcesses

\* An existing process is returned to the caller; the rest are errors, of the
\* checks or of what comes before the spawn.
StartRefused(a) ==
    /\ pc[a] = "start" /\ gate = NoOne
    /\ Return(a)
    /\ UNCHANGED <<processes, gate, terminating, shutdown, launchVars, ghosts>>

StartSpawn(a, l) ==
    /\ pc[a] = "start" /\ gate = NoOne /\ MayStart(arg[a]) /\ child[l] = "none"
    /\ gate' = a
    /\ child' = [child EXCEPT ![l] = "running"]
    /\ todo' = [todo EXCEPT ![a] = {l}] /\ pc' = [pc EXCEPT ![a] = "register"]
    /\ UNCHANGED <<processes, terminating, shutdown, pid, reaped, lifecycle, active, operation,
                   intent, control, cancelled, timedOut, state, scanned, sup, wait, arg, waiting,
                   ghosts>>

Spawned(a) == CHOOSE l \in todo[a] : TRUE

StartRegister(a) ==
    /\ pc[a] = "register"
    /\ active' = active \cup {Spawned(a)} /\ pid' = [pid EXCEPT ![Spawned(a)] = TRUE]
    /\ Goto(a, "recheck")
    /\ UNCHANGED <<processes, gate, terminating, shutdown, child, reaped, lifecycle, operation,
                   intent, control, cancelled, timedOut, state, scanned, sup, wait, ghosts>>

\* The child has no id or no pipe.
StartBroken(a) ==
    /\ pc[a] = "register" /\ Goto(a, "abort")
    /\ UNCHANGED <<processes, gate, terminating, shutdown, launchVars, ghosts>>

\* A shutdown that the first checks did not see: the child is taken back.
StartRecheck(a) ==
    /\ pc[a] = "recheck"
    /\ IF shutdown THEN active' = active \ {Spawned(a)} /\ Goto(a, "abort")
       ELSE UNCHANGED active /\ Goto(a, "insert")
    /\ UNCHANGED <<processes, gate, terminating, shutdown, child, pid, reaped, lifecycle, operation,
                   intent, control, cancelled, timedOut, state, scanned, sup, wait, ghosts>>

\* abort_spawned_child: signal the group, then wait for the child
StartAbort(a) ==
    /\ pc[a] = "abort" /\ Signals(Spawned(a)) /\ Goto(a, "abort_wait")
    /\ UNCHANGED <<processes, gate, terminating, shutdown, pid, reaped, lifecycle, active, operation,
                   intent, control, cancelled, timedOut, state, scanned, sup, wait, accepted, closed,
                   shutdowns>>

StartAborted(a) ==
    /\ pc[a] = "abort_wait" /\ child[Spawned(a)] = "zombie"
    /\ child' = [child EXCEPT ![Spawned(a)] = "reaped"]
    /\ gate' = NoOne
    /\ Return(a)
    /\ UNCHANGED <<processes, terminating, shutdown, pid, reaped, lifecycle, active, operation,
                   intent, control, cancelled, timedOut, state, scanned, sup, wait, ghosts>>

\* The entry is listed, and its supervising task begins.
StartInsert(a) ==
    LET l == Spawned(a) IN
    /\ pc[a] = "insert"
    /\ processes' = [processes EXCEPT ![arg[a]] = l]
    /\ state' = [state EXCEPT ![l] = "Running"] /\ sup' = [sup EXCEPT ![l] = "select"]
    /\ gate' = NoOne
    /\ Return(a)
    /\ UNCHANGED <<terminating, shutdown, child, pid, reaped, lifecycle, active, operation, intent,
                   control, cancelled, timedOut, scanned, wait, ghosts>>

-----------------------------------------------------------------------------
(* supervise_process *)

\* The reason that the first ready token gives, none if no token is ready.
Ready(l) ==
    CASE l \in control -> "Terminated"
      [] l \notin control /\ (l \in cancelled \/ shutdown) -> "Cancelled"
      [] l \notin control \cup cancelled /\ ~shutdown /\ l \in timedOut -> "TimedOut"
      [] OTHER -> "none"

\* The child is waited for without having been signalled.
MutSuperviseStop(l) ==
    /\ sup[l] = "select" /\ Ready(l) # "none"
    /\ intent' = [intent EXCEPT ![l] = Latched(@, Ready(l))]
    /\ sup' = [sup EXCEPT ![l] = "wait"]
    /\ UNCHANGED <<processes, gate, terminating, shutdown, child, pid, reaped, lifecycle, active,
                   operation, control, cancelled, timedOut, state, scanned, wait, callerVars,
                   ghosts>>

SuperviseStop(l) ==
    /\ sup[l] = "select" /\ Ready(l) # "none"
    /\ intent' = [intent EXCEPT ![l] = Latched(@, Ready(l))]
    /\ TerminateEntry(l)
    /\ sup' = [sup EXCEPT ![l] = "wait"]
    /\ UNCHANGED <<processes, gate, terminating, shutdown, reaped, lifecycle, active,
                   operation, control, cancelled, timedOut, state, scanned, wait, callerVars,
                   accepted, closed, shutdowns>>

\* The child is reaped first and its id given up after.
MutWaitProbe(l) ==
    /\ sup[l] \in {"select", "wait"} /\ wait[l] = "probe" /\ child[l] = "zombie"
    /\ lifecycle[l] = NoOne
    /\ child' = [child EXCEPT ![l] = "reaped"]
    /\ wait' = [wait EXCEPT ![l] = "reap"]
    /\ UNCHANGED <<processes, gate, terminating, shutdown, pid, reaped, lifecycle, active, operation,
                   intent, control, cancelled, timedOut, state, scanned, sup, callerVars, ghosts>>

\* wait_for_child_before_reap: the zombie is seen without being reaped, the rest
\* of its group is killed, and the id is given up before the wait that reaps it.
WaitProbe(l) ==
    /\ sup[l] \in {"select", "wait"} /\ wait[l] = "probe" /\ child[l] = "zombie"
    /\ lifecycle[l] = NoOne
    /\ reaped' = [reaped EXCEPT ![l] = TRUE] /\ pid' = [pid EXCEPT ![l] = FALSE]
    /\ active' = active \ {l}
    /\ wait' = [wait EXCEPT ![l] = "reap"]
    /\ UNCHANGED <<processes, gate, terminating, shutdown, child, lifecycle, operation, intent,
                   control, cancelled, timedOut, state, scanned, sup, callerVars, ghosts>>

WaitReap(l) ==
    /\ wait[l] = "reap"
    /\ child' = [child EXCEPT ![l] = "reaped"] /\ wait' = [wait EXCEPT ![l] = "done"]
    /\ UNCHANGED <<processes, gate, terminating, shutdown, pid, reaped, lifecycle, active, operation,
                   intent, control, cancelled, timedOut, state, scanned, sup, callerVars, ghosts>>

\* The reasons of the tokens that fired by now, but for the timer's.
Relatched(l) ==
    LET r == IF l \in control THEN Latched(intent[l], "Terminated") ELSE intent[l]
    IN  IF l \in cancelled \/ shutdown THEN Latched(r, "Cancelled") ELSE r

\* The child is gone: its readers are drained or aborted.
SuperviseExit(l) ==
    /\ sup[l] \in {"select", "wait"} /\ wait[l] = "done"
    /\ intent' = [intent EXCEPT ![l] = IF sup[l] = "select" THEN Relatched(l) ELSE @]
    /\ sup' = [sup EXCEPT ![l] = "publish"]
    /\ UNCHANGED <<processes, gate, terminating, shutdown, child, pid, reaped, lifecycle, active,
                   operation, control, cancelled, timedOut, state, scanned, wait, callerVars, ghosts>>

\* The operation lock is not taken.
MutPublishRead(l) ==
    /\ sup[l] = "publish"
    /\ intent' = [intent EXCEPT ![l] = Relatched(l)]
    /\ sup' = [sup EXCEPT ![l] = intent'[l]]
    /\ UNCHANGED <<processes, gate, terminating, shutdown, child, pid, reaped, lifecycle, active,
                   operation, control, cancelled, timedOut, state, scanned, wait, callerVars, ghosts>>

\* Under the operation lock the reason is read; the task's place says which.
PublishRead(l) ==
    /\ sup[l] = "publish" /\ operation[l] = NoOne
    /\ operation' = [operation EXCEPT ![l] = l]
    /\ intent' = [intent EXCEPT ![l] = Relatched(l)]
    /\ sup' = [sup EXCEPT ![l] = intent'[l]]
    /\ UNCHANGED <<processes, gate, terminating, shutdown, child, pid, reaped, lifecycle, active,
                   control, cancelled, timedOut, state, scanned, wait, callerVars, ghosts>>

\* A child with no reason exited, well or not.
PublishState(l) ==
    /\ sup[l] \in DOMAIN Reasons
    /\ state' = [state EXCEPT ![l] = IF sup[l] = "none" THEN "Exited" ELSE sup[l]]
    /\ operation' = [operation EXCEPT ![l] = NoOne]
    /\ sup' = [sup EXCEPT ![l] = "release"]
    /\ UNCHANGED <<processes, gate, terminating, shutdown, child, pid, reaped, lifecycle, active,
                   intent, control, cancelled, timedOut, scanned, wait, callerVars, ghosts>>

\* release_process_pid
SuperviseRelease(l) ==
    /\ sup[l] = "release" /\ lifecycle[l] = NoOne
    /\ pid' = [pid EXCEPT ![l] = FALSE] /\ active' = active \ {l}
    /\ sup' = [sup EXCEPT ![l] = "scan"]
    /\ UNCHANGED <<processes, gate, terminating, shutdown, child, reaped, lifecycle, operation,
                   intent, control, cancelled, timedOut, state, scanned, wait, callerVars, ghosts>>

SuperviseScan(l) ==
    /\ sup[l] = "scan"
    /\ scanned' = scanned \cup {l} /\ sup' = [sup EXCEPT ![l] = "done"]
    /\ UNCHANGED <<processes, gate, terminating, shutdown, child, pid, reaped, lifecycle, active,
                   operation, intent, control, cancelled, timedOut, state, wait, callerVars, ghosts>>

\* An ended process is forgotten, by age or by what the others need.
Prune(i) ==
    /\ processes[i] \in scanned
    /\ processes' = [processes EXCEPT ![i] = NoOne]
    /\ UNCHANGED <<gate, terminating, shutdown, launchVars, callerVars, ghosts>>

-----------------------------------------------------------------------------
(* terminate *)

\* Under the operation lock.
Terminate(a, i) ==
    LET l == processes[i] IN
    /\ pc[a] = "idle" /\ l # NoOne /\ operation[l] = NoOne /\ ~Terminal(l)
    /\ intent' = [intent EXCEPT ![l] = Latched(@, "Terminated")]
    /\ control' = control \cup {l}
    /\ TerminateEntry(l)
    /\ accepted' = accepted \cup {l}
    /\ pc' = [pc EXCEPT ![a] = "terminate"] /\ waiting' = [waiting EXCEPT ![a] = {l}]
    /\ UNCHANGED <<processes, gate, terminating, shutdown, reaped, lifecycle, active,
                   operation, cancelled, timedOut, state, scanned, sup, wait, arg, todo, closed,
                   shutdowns>>

-----------------------------------------------------------------------------
(* terminate_session and shutdown *)

\* The session is marked under the gate, and its entries are collected.
TerminateSession(a, s) ==
    /\ pc[a] = "idle" /\ gate = NoOne
    /\ terminating' = [terminating EXCEPT ![s] = @ + 1]
    /\ pc' = [pc EXCEPT ![a] = "session"] /\ arg' = [arg EXCEPT ![a] = s]
    /\ todo' = [todo EXCEPT ![a] = {processes[i] : i \in {j \in Ids : SessionOf[j] = s}} \ {NoOne}]
    /\ UNCHANGED <<processes, gate, shutdown, launchVars, waiting, ghosts>>

\* shutdown and shutdown_and_wait begin with the registered children.
Shutdown(a, returns) ==
    /\ pc[a] = "idle" /\ shutdowns < MaxShutdowns
    /\ shutdowns' = shutdowns + 1
    /\ pc' = [pc EXCEPT ![a] = "kill"] /\ arg' = [arg EXCEPT ![a] = returns]
    /\ todo' = [todo EXCEPT ![a] = active]
    /\ UNCHANGED <<processes, gate, terminating, shutdown, launchVars, waiting, misfired, accepted,
                   closed>>

\* terminate_active_processes, one registration: its lifecycle is locked and its
\* id taken, then it is looked up again ...
KillTake(a, l) ==
    /\ pc[a] = "kill" /\ l \in todo[a] /\ lifecycle[l] = NoOne
    /\ IF reaped[l] \/ ~pid[l] \/ l \notin active
       THEN /\ todo' = [todo EXCEPT ![a] = @ \ {l}]
            /\ pid' = [pid EXCEPT ![l] = IF reaped[l] THEN @ ELSE FALSE]
            /\ UNCHANGED <<lifecycle, pc, arg, waiting>>
       ELSE /\ lifecycle' = [lifecycle EXCEPT ![l] = a]
            /\ pid' = [pid EXCEPT ![l] = FALSE]
            /\ Goto(a, "signal")
    /\ UNCHANGED <<processes, gate, terminating, shutdown, child, reaped, active, operation, intent,
                   control, cancelled, timedOut, state, scanned, sup, wait, ghosts>>

\* ... and signalled, with the lock held.
KillSignal(a, l) ==
    /\ pc[a] = "signal" /\ lifecycle[l] = a
    /\ intent' = [intent EXCEPT ![l] = Latched(@, "Cancelled")]
    /\ Signals(l)
    /\ lifecycle' = [lifecycle EXCEPT ![l] = NoOne]
    /\ todo' = [todo EXCEPT ![a] = @ \ {l}] /\ pc' = [pc EXCEPT ![a] = "kill"]
    /\ UNCHANGED <<processes, gate, terminating, shutdown, pid, reaped, active, operation,
                   control, cancelled, timedOut, state, scanned, sup, wait, arg, waiting, accepted,
                   closed, shutdowns>>

ShutdownCancel(a) ==
    /\ pc[a] = "kill" /\ todo[a] = {}
    /\ shutdown' = TRUE
    /\ IF arg[a] = "now" THEN Return(a) ELSE Goto(a, "gate")
    /\ UNCHANGED <<processes, gate, terminating, launchVars, ghosts>>

\* The gate is not taken.
MutShutdownCollect(a) ==
    /\ pc[a] = "gate"
    /\ todo' = [todo EXCEPT ![a] = Entries] /\ pc' = [pc EXCEPT ![a] = "close"]
    /\ UNCHANGED <<processes, gate, terminating, shutdown, launchVars, arg, waiting, ghosts>>

ShutdownCollect(a) ==
    /\ pc[a] = "gate" /\ gate = NoOne
    /\ todo' = [todo EXCEPT ![a] = Entries] /\ pc' = [pc EXCEPT ![a] = "close"]
    /\ UNCHANGED <<processes, gate, terminating, shutdown, launchVars, arg, waiting, ghosts>>

\* One collected entry: what has ended is passed over (shutdown still waits for
\* its scan) ...
SkipEnded(a, l) ==
    /\ pc[a] \in {"session", "close"} /\ l \in todo[a] /\ Terminal(l)
    /\ todo' = [todo EXCEPT ![a] = @ \ {l}]
    /\ waiting' = [waiting EXCEPT ![a] = IF pc[a] = "close" THEN @ \cup {l} ELSE @]
    /\ UNCHANGED <<processes, gate, terminating, shutdown, launchVars, pc, arg, ghosts>>

\* ... and what runs is told to stop, though it may end between the two.
SeeRunning(a, l) ==
    /\ pc[a] \in {"session", "close"} /\ l \in todo[a] /\ ~Terminal(l) /\ l \notin waiting[a]
    /\ waiting' = [waiting EXCEPT ![a] = @ \cup {l}]
    /\ UNCHANGED <<processes, gate, terminating, shutdown, launchVars, pc, arg, todo, ghosts>>

StopSeen(a, l) ==
    /\ pc[a] \in {"session", "close"} /\ l \in todo[a] \cap waiting[a]
    /\ intent' = [intent EXCEPT ![l] =
                     Latched(@, IF pc[a] = "session" THEN "Terminated" ELSE "Cancelled")]
    /\ control' = IF pc[a] = "session" THEN control \cup {l} ELSE control
    /\ TerminateEntry(l)
    /\ todo' = [todo EXCEPT ![a] = @ \ {l}]
    /\ UNCHANGED <<processes, gate, terminating, shutdown, reaped, lifecycle, active,
                   operation, cancelled, timedOut, state, scanned, sup, wait, pc, arg, waiting,
                   accepted, closed, shutdowns>>

\* TerminatingSessionGuard is dropped with the call.
Unmarked(a) ==
    IF pc[a] = "session" THEN [terminating EXCEPT ![arg[a]] = @ - 1] ELSE terminating

Awaits(a) == pc[a] \in {"terminate", "session", "close"} /\ todo[a] = {}

\* What the caller waits for has ended: the call returns Ok.
AwaitDone(a) ==
    /\ Awaits(a)
    /\ \A l \in waiting[a] : Terminal(l) /\ (pc[a] = "close" => l \in scanned)
    /\ closed' = (closed \/ pc[a] = "close")
    /\ terminating' = Unmarked(a)
    /\ Return(a)
    /\ UNCHANGED <<processes, gate, shutdown, launchVars, misfired, accepted, shutdowns>>

\* Five seconds have passed: it returns an error, and what runs goes on.
AwaitTimeout(a) ==
    /\ Awaits(a)
    /\ \E l \in waiting[a] : ~Terminal(l) \/ (pc[a] = "close" /\ l \notin scanned)
    /\ terminating' = Unmarked(a)
    /\ Return(a)
    /\ UNCHANGED <<processes, gate, shutdown, launchVars, ghosts>>

-----------------------------------------------------------------------------

Supervise(l) ==
    \/ SuperviseStop(l) \/ WaitProbe(l) \/ WaitReap(l) \/ SuperviseExit(l)
    \/ PublishRead(l) \/ PublishState(l) \/ SuperviseRelease(l) \/ SuperviseScan(l)

CallerStep(a) ==
    \/ StartRefused(a) \/ StartRegister(a) \/ StartBroken(a) \/ StartRecheck(a) \/ StartAbort(a)
    \/ StartAborted(a) \/ StartInsert(a)
    \/ ShutdownCancel(a) \/ ShutdownCollect(a) \/ AwaitDone(a)
    \/ \E l \in Launches :
        \/ StartSpawn(a, l) \/ KillTake(a, l) \/ KillSignal(a, l)
        \/ SkipEnded(a, l) \/ SeeRunning(a, l) \/ StopSeen(a, l)

Call(a) ==
    \/ \E i \in Ids : StartCall(a, i) \/ Terminate(a, i)
    \/ \E s \in Sessions : TerminateSession(a, s)
    \/ \E returns \in {"now", "after"} : Shutdown(a, returns)

Next ==
    \/ \E a \in Callers : Call(a) \/ CallerStep(a) \/ AwaitTimeout(a)
    \/ \E l \in Launches : Supervise(l) \/ Exit(l) \/ CancelOrTimeout(l)
    \/ \E i \in Ids : Prune(i)

Spec == Init /\ [][Next]_vars

\* Tasks go on, and a child whose group was signalled dies.
FairSpec ==
    /\ Spec
    /\ \A l \in Launches : WF_vars(Supervise(l)) /\ WF_vars(child[l] = "dying" /\ Exit(l))
    /\ \A a \in Callers : SF_vars(CallerStep(a))

-----------------------------------------------------------------------------
(* Properties *)

\* No signal is ever sent to the id of a child that was reaped: the system may
\* have given it to a process that is not ours.
NoStaleSignal == ~misfired

\* A process that terminate() found running ends as Terminated, even if the
\* child exits by itself, times out or is cancelled at the same moment.
TerminateWins == \A l \in accepted : Terminal(l) => state[l] = "Terminated"

\* Once shutdown_and_wait has returned Ok no child is left and none is started,
\* whatever starts were in flight.
CloseLeavesNothing == closed => \A l \in Launches : child[l] \in {"none", "reaped"}

\* When terminate_session returns Ok, every child of the session is gone: also
\* the one of a start that was in flight when it began.
SessionIsCleared(a) ==
    /\ \A i \in Ids : SessionOf[i] = arg[a] /\ processes[i] # NoOne => Terminal(processes[i])
    /\ \A b \in Callers : pc[b] \in {"register", "recheck", "insert"} => SessionOf[arg[b]] # arg[a]

\* An answer that all has ended is true, of a session (terminate_session) and of
\* the supervisor (shutdown_and_wait), and stays true of the supervisor.
TerminationIsComplete ==
    [][/\ CloseLeavesNothing'
       /\ \A a \in Callers : pc[a] = "session" /\ AwaitDone(a) => SessionIsCleared(a)]_vars

\* A child that was told to stop is reaped, published and unregistered.
StoppedIsPublished ==
    \A l \in Launches :
        shutdown /\ sup[l] # "idle" ~> Terminal(l) /\ l \notin active /\ child[l] = "reaped"
=============================================================================
