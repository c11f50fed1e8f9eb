---------------------------- MODULE PostTaskJobs ----------------------------
(***************************************************************************)
(* The durable post-task job queue.  When a task reaches its terminal      *)
(* event, its host asks its own post-task worker to schedule a deep        *)
(* evaluation; the worker inserts a job row (one per task) and then any     *)
(* worker of the workspace claims it under a lease, runs the evaluation     *)
(* and finishes, requeues or fails the row.  A lease that runs out lets     *)
(* another worker take the job over while the first one, slow but not       *)
(* dead, is still running.                                                  *)
(*                                                                         *)
(* Sources: store/src/lib.rs (the SQL statements on post_task_jobs),        *)
(* client/src/post_task.rs (the worker loop), client/src/task_governance.rs *)
(* (scheduling), client/src/governance_commands.rs (manual retry).          *)
(***************************************************************************)
EXTENDS Integers, FiniteSets

CONSTANTS
    Tasks,        \* tasks of one workspace; a task has at most one job row
    Workers,      \* worker identities "<host instance>:<pid>": never reused
    MaxAttempts,  \* POST_TASK_JOB_MAX_ATTEMPTS
    MaxRetries,   \* bound: manual RetryPostTaskJob commands in a behaviour
    Nothing       \* no task, no worker

ASSUME MaxAttemptsAssumption == MaxAttempts \in Nat \ {0}
ASSUME MaxRetriesAssumption == MaxRetries \in Nat
ASSUME NothingAssumption == Nothing \notin Tasks \cup Workers

VARIABLES
    \* durable
    terminal,     \* tasks whose terminal event (governance "pending") is stored
    stageFailed,  \* tasks with a terminal PostTaskStageFailed event
    job,          \* task -> its row of post_task_jobs
    completed,    \* task -> number of PostTaskJobCompleted events recorded
    \* in memory of one host
    toSubmit,     \* worker -> ended tasks whose request is not yet sent
    inbox,        \* worker -> requests in its schedule channel
    scan,         \* worker -> unscheduled tasks its start-up scan still holds
    pc,           \* worker -> control state of PostTaskCoordinator::run
    held,         \* worker -> task of the job it claimed last
    storeFaults,  \* TRUE if store calls of the workers may return an error; chosen
                  \* at the start of a behaviour
    \* bound
    retries       \* manual retries so far

durableVars == <<terminal, stageFailed, job, completed>>
memoryVars == <<toSubmit, inbox, scan, pc, held>>
boundVars == <<storeFaults, retries>>
jobsVars == <<durableVars, memoryVars, boundVars>>

-----------------------------------------------------------------------------
(* The row.  `expired` abstracts lease_expires_at <= now.                   *)

Leased == {"leased", "running"}
JobStatus == {"absent", "queued", "succeeded", "failed"} \cup Leased

JobRow == [status: JobStatus, attempt: 0..MaxAttempts,
           owner: Workers \cup {Nothing}, expired: BOOLEAN]

NewRow(status, attempt) ==
    [status |-> status, attempt |-> attempt, owner |-> Nothing, expired |-> FALSE]

NoJob == NewRow("absent", 0)

(* Operators named Mut... are deliberately wrong variants of the definition  *)
(* that follows them; they show that the properties notice the difference.   *)

\* A takeover at the last attempt puts the job back in the queue.
MutRecoverLate(row) ==
    IF row.status \in Leased /\ row.expired
    THEN NewRow(IF row.attempt <= MaxAttempts THEN "queued" ELSE "failed", row.attempt)
    ELSE row

\* Only jobs that were never started are taken over.
MutRecoverLeasedOnly(row) ==
    IF row.status = "leased" /\ row.expired
    THEN NewRow(IF row.attempt < MaxAttempts THEN "queued" ELSE "failed", row.attempt)
    ELSE row

\* recover_expired_post_task_jobs, on one row
RecoverExpired(row) ==
    IF row.status \in Leased /\ row.expired
    THEN NewRow(IF row.attempt < MaxAttempts THEN "queued" ELSE "failed", row.attempt)
    ELSE row

\* claim_post_task_job_matching: the rows its SELECT may return
Claimable(row) == row.status = "queued" /\ row.attempt < MaxAttempts

ClaimRow(row, w) ==
    [status |-> "leased", attempt |-> row.attempt + 1, owner |-> w, expired |-> FALSE]

\* The WHERE clauses of start, requeue, retry and finish: each answers how
\* many rows it changed, and the caller acts on that answer.
CanStart(row, w)   == row.status = "leased" /\ row.owner = w
CanRequeue(row, w) == row.owner = w /\ row.status \in Leased /\ row.attempt < MaxAttempts
CanFinish(row, w)  == row.owner = w /\ row.status \in Leased
CanRetry(row)      == row.status = "failed"

\* enqueue_deep_task_evaluation: insert the missing row, retry a failed one
EnqueueRow(row) ==
    CASE row.status = "absent" -> NewRow("queued", 0)
      [] CanRetry(row)         -> NewRow("queued", 0)
      [] OTHER                 -> row

\* unscheduled_post_task_terminal_events
Unscheduled ==
    {t \in terminal : job[t].status = "absent" /\ t \notin stageFailed}

-----------------------------------------------------------------------------

JobsInit ==
    /\ terminal = {} /\ stageFailed = {}
    /\ job = [t \in Tasks |-> NoJob]
    /\ completed = [t \in Tasks |-> 0]
    /\ toSubmit = [w \in Workers |-> {}]
    /\ inbox = [w \in Workers |-> {}]
    /\ scan = [w \in Workers |-> {}]
    /\ pc = [w \in Workers |-> "off"]
    /\ held = [w \in Workers |-> Nothing]
    /\ storeFaults \in BOOLEAN
    /\ retries = 0

Alive(w) == pc[w] \notin {"off", "dead"}
Goto(w, label) == pc' = [pc EXCEPT ![w] = label]

\* A new host never looks for terminal events without a job.
MutBoot(w) ==
    /\ pc[w] = "off"
    /\ Goto(w, "idle")
    /\ job' = [t \in Tasks |-> RecoverExpired(job[t])]
    /\ UNCHANGED <<terminal, stageFailed, completed, toSubmit, inbox, scan, held, boundVars>>

\* A host opens the workspace: it recovers expired leases before its worker
\* starts, and then scans for terminal events that never got a job.
Boot(w) ==
    /\ pc[w] = "off"
    /\ Goto(w, "idle")
    /\ job' = [t \in Tasks |-> RecoverExpired(job[t])]
    /\ scan' = [scan EXCEPT ![w] = Unscheduled]
    /\ UNCHANGED <<terminal, stageFailed, completed, toSubmit, inbox, held, boundVars>>

\* recover_unscheduled_post_task_jobs, one terminal event of its snapshot
RecoverUnscheduled(w, t) ==
    /\ Alive(w) /\ t \in scan[w]
    /\ scan' = [scan EXCEPT ![w] = @ \ {t}]
    /\ job' = [job EXCEPT ![t] = EnqueueRow(@)]
    /\ UNCHANGED <<terminal, stageFailed, completed, toSubmit, inbox, pc, held, boundVars>>

\* finish_lane_with_diagnostic stores the terminal event of a task
EndTask(w, t) ==
    /\ Alive(w) /\ t \notin terminal
    /\ terminal' = terminal \cup {t}
    /\ toSubmit' = [toSubmit EXCEPT ![w] = @ \cup {t}]
    /\ UNCHANGED <<stageFailed, job, completed, inbox, scan, pc, held, boundVars>>

\* schedule_task_evaluation_best_effort sends the request to the own worker
SubmitSchedule(w, t) ==
    /\ Alive(w) /\ t \in toSubmit[w]
    /\ toSubmit' = [toSubmit EXCEPT ![w] = @ \ {t}]
    /\ inbox' = [inbox EXCEPT ![w] = @ \cup {t}]
    /\ UNCHANGED <<durableVars, scan, pc, held, boundVars>>

\* process_schedule: queue the job, or record the terminal stage failure; the
\* record of the failure is best effort and may fail as well
ProcessSchedule(w, t) ==
    /\ pc[w] = "idle" /\ t \in inbox[w]
    /\ inbox' = [inbox EXCEPT ![w] = @ \ {t}]
    /\ Goto(w, "polled")
    /\ \/ /\ job' = [job EXCEPT ![t] = EnqueueRow(@)]
          /\ UNCHANGED stageFailed
       \/ /\ storeFaults
          /\ stageFailed' \in {stageFailed, stageFailed \cup {t}}
          /\ UNCHANGED job
    /\ UNCHANGED <<terminal, completed, toSubmit, scan, held, boundVars>>

\* The idle poll interval passes.
IdleTick(w) ==
    /\ pc[w] = "idle" /\ inbox[w] = {}
    /\ Goto(w, "polled")
    /\ UNCHANGED <<durableVars, toSubmit, inbox, scan, held, boundVars>>

RecoverLeases(w) ==
    /\ pc[w] = "polled"
    /\ \/ /\ job' = [t \in Tasks |-> RecoverExpired(job[t])]
          /\ Goto(w, "claiming")
       \/ /\ storeFaults
          /\ Goto(w, "idle")
          /\ UNCHANGED job
    /\ UNCHANGED <<terminal, stageFailed, completed, toSubmit, inbox, scan, held, boundVars>>

ClaimJob(w) ==
    /\ pc[w] = "claiming"
    /\ \/ \E t \in Tasks :
            /\ Claimable(job[t])
            /\ job' = [job EXCEPT ![t] = ClaimRow(@, w)]
            /\ held' = [held EXCEPT ![w] = t]
            /\ Goto(w, "claimed")
       \/ /\ storeFaults \/ \A t \in Tasks : ~Claimable(job[t])
          /\ Goto(w, "idle")
          /\ UNCHANGED <<job, held>>
    /\ UNCHANGED <<terminal, stageFailed, completed, toSubmit, inbox, scan, boundVars>>

\* start: a call that changed no row, or failed, makes the worker walk away
Start(w) ==
    /\ pc[w] = "claimed"
    /\ \/ /\ CanStart(job[held[w]], w)
          /\ job' = [job EXCEPT ![held[w]].status = "running"]
          /\ Goto(w, "evaluating")
       \/ /\ storeFaults \/ ~CanStart(job[held[w]], w)
          /\ Goto(w, "idle")
          /\ UNCHANGED job
    /\ UNCHANGED <<terminal, stageFailed, completed, toSubmit, inbox, scan, held, boundVars>>

\* reconstruct_post_task_context, evaluate_deep and record_task_evaluation
Evaluate(w) ==
    /\ pc[w] = "evaluating"
    /\ \E outcome \in {"evaluated", "retrying"} : Goto(w, outcome)
    /\ UNCHANGED <<durableVars, toSubmit, inbox, scan, held, boundVars>>

\* The completion event ignores whether finish changed a row.
MutFinishSucceeded(w) ==
    /\ pc[w] = "evaluated"
    /\ IF CanFinish(job[held[w]], w)
       THEN job' = [job EXCEPT ![held[w]] = NewRow("succeeded", @.attempt)]
       ELSE UNCHANGED job
    /\ Goto(w, "completing")
    /\ UNCHANGED <<terminal, stageFailed, completed, toSubmit, inbox, scan, held, boundVars>>

\* finish(Succeeded); a call that changed no row, or failed, ends the matter
FinishSucceeded(w) ==
    /\ pc[w] = "evaluated"
    /\ \/ /\ CanFinish(job[held[w]], w)
          /\ job' = [job EXCEPT ![held[w]] = NewRow("succeeded", @.attempt)]
          /\ Goto(w, "completing")
       \/ /\ storeFaults \/ ~CanFinish(job[held[w]], w)
          /\ Goto(w, "idle")
          /\ UNCHANGED job
    /\ UNCHANGED <<terminal, stageFailed, completed, toSubmit, inbox, scan, held, boundVars>>

\* The PostTaskJobCompleted event: a second, best-effort store call
RecordCompleted(w) ==
    /\ pc[w] = "completing"
    /\ \/ completed' = [completed EXCEPT ![held[w]] = @ + 1]
       \/ storeFaults /\ UNCHANGED completed
    /\ Goto(w, "idle")
    /\ UNCHANGED <<terminal, stageFailed, job, toSubmit, inbox, scan, held, boundVars>>

\* A requeue that changed no row is taken for the end of the job.
MutRequeue(w) ==
    /\ pc[w] = "retrying"
    /\ IF CanRequeue(job[held[w]], w)
       THEN job' = [job EXCEPT ![held[w]] = NewRow("queued", @.attempt)]
       ELSE UNCHANGED job
    /\ Goto(w, "idle")
    /\ UNCHANGED <<terminal, stageFailed, completed, toSubmit, inbox, scan, held, boundVars>>

\* finish_or_retry, first call: a requeue that changed no row falls through
Requeue(w) ==
    /\ pc[w] = "retrying"
    /\ \/ /\ CanRequeue(job[held[w]], w)
          /\ job' = [job EXCEPT ![held[w]] = NewRow("queued", @.attempt)]
          /\ Goto(w, "idle")
       \/ /\ storeFaults \/ ~CanRequeue(job[held[w]], w)
          /\ Goto(w, "failing")
          /\ UNCHANGED job
    /\ UNCHANGED <<terminal, stageFailed, completed, toSubmit, inbox, scan, held, boundVars>>

\* finish_or_retry, second call
FinishFailed(w) ==
    /\ pc[w] = "failing"
    /\ \/ /\ CanFinish(job[held[w]], w)
          /\ job' = [job EXCEPT ![held[w]] = NewRow("failed", @.attempt)]
       \/ /\ storeFaults \/ ~CanFinish(job[held[w]], w)
          /\ UNCHANGED job
    /\ Goto(w, "idle")
    /\ UNCHANGED <<terminal, stageFailed, completed, toSubmit, inbox, scan, held, boundVars>>

\* The clock passes lease_expires_at of a leased row.
LeaseExpires(t) ==
    /\ job[t].status \in Leased /\ ~job[t].expired
    /\ job' = [job EXCEPT ![t].expired = TRUE]
    /\ UNCHANGED <<terminal, stageFailed, completed, memoryVars, boundVars>>

\* handle_retry_post_task_job_command
ManualRetry(t) ==
    /\ retries < MaxRetries
    /\ CanRetry(job[t])
    /\ job' = [job EXCEPT ![t] = NewRow("queued", 0)]
    /\ retries' = retries + 1
    /\ UNCHANGED <<terminal, stageFailed, completed, memoryVars, storeFaults>>

\* The host process dies; its channel and its identity die with it.
CrashHost(w) ==
    /\ Alive(w)
    /\ Goto(w, "dead")
    /\ toSubmit' = [toSubmit EXCEPT ![w] = {}]
    /\ inbox' = [inbox EXCEPT ![w] = {}]
    /\ scan' = [scan EXCEPT ![w] = {}]
    /\ UNCHANGED <<durableVars, held, boundVars>>

WorkerStep(w) ==
    \/ \E t \in Tasks : ProcessSchedule(w, t)
    \/ IdleTick(w) \/ RecoverLeases(w) \/ ClaimJob(w) \/ Start(w) \/ Evaluate(w)
    \/ FinishSucceeded(w) \/ RecordCompleted(w) \/ Requeue(w) \/ FinishFailed(w)

HostStep(w) ==
    \E t \in Tasks : RecoverUnscheduled(w, t) \/ SubmitSchedule(w, t)

JobsNext ==
    \/ \E w \in Workers : Boot(w) \/ HostStep(w) \/ WorkerStep(w) \/ CrashHost(w)
    \/ \E w \in Workers, t \in Tasks : EndTask(w, t)
    \/ \E t \in Tasks : LeaseExpires(t) \/ ManualRetry(t)

JobsSpec == JobsInit /\ [][JobsNext]_jobsVars

\* The tokio runtime keeps running every spawned task of a live host, a new
\* host is eventually opened on the workspace, and the clock advances.
Fairness ==
    /\ \A w \in Workers :
           WF_jobsVars(Boot(w)) /\ WF_jobsVars(HostStep(w)) /\ WF_jobsVars(WorkerStep(w))
    /\ \A t \in Tasks : WF_jobsVars(LeaseExpires(t))

JobsFairSpec == JobsSpec /\ Fairness

-----------------------------------------------------------------------------
(* Properties *)

WorkerLabels == {"off", "idle", "polled", "claiming", "claimed", "evaluating",
                 "evaluated", "completing", "retrying", "failing", "dead"}

\* The labels between a successful claim and the last store call about it.
Working == {"claimed", "evaluating", "evaluated", "completing", "retrying", "failing"}

\* The types of the rows and the workers: a row never counts more attempts than
\* allowed, and a worker between claim and finish knows its job.
JobsTypeOK ==
    /\ terminal \subseteq Tasks /\ stageFailed \subseteq Tasks
    /\ job \in [Tasks -> JobRow]
    /\ completed \in [Tasks -> Nat]
    /\ toSubmit \in [Workers -> SUBSET Tasks]
    /\ inbox \in [Workers -> SUBSET Tasks]
    /\ scan \in [Workers -> SUBSET Tasks]
    /\ pc \in [Workers -> WorkerLabels]
    /\ held \in [Workers -> Tasks \cup {Nothing}]
    /\ \A w \in Workers : pc[w] \in Working => held[w] \in Tasks
    /\ storeFaults \in BOOLEAN /\ retries \in 0..MaxRetries

\* However leases expire and slow workers come back, the completion of a job
\* is reported at most once, and only if its row succeeded: `finish` changes
\* a row only for the worker that still owns the lease, and the event follows
\* that answer.  (A crash between the two loses the event.)
CompletedOnce ==
    \A t \in Tasks :
        completed[t] <= 1 /\ (completed[t] = 1 => job[t].status = "succeeded")

\* A queued job can always be claimed: no path puts a job back in the queue
\* with its attempts used up, where claim would skip it for ever.
QueuedIsClaimable ==
    \A t \in Tasks : job[t].status = "queued" => Claimable(job[t])

\* While the store answers, a lease is never leaked: the worker named in a
\* leased row is still busy with that very job, or its process is dead.
LeaseHeldByBusyWorker ==
    ~storeFaults =>
        \A t \in Tasks : \A w \in Workers :
            job[t].status \in Leased /\ job[t].owner = w =>
                pc[w] = "dead" \/ (pc[w] \in Working /\ held[w] = t)

\* While the store answers, a job fails only after the last allowed attempt
\* (the PostTaskJobFailed event says the retry budget is exhausted).
FailedMeansExhausted ==
    ~storeFaults =>
        \A t \in Tasks : job[t].status = "failed" => job[t].attempt = MaxAttempts

\* Attempts are counted the same wherever a job changes hands: a queued job has
\* one left, a failed one has none.
AttemptsAddUp == QueuedIsClaimable /\ FailedMeansExhausted

\* A success is final: no retry, takeover or late worker reopens the job.
SucceededIsFinal ==
    [][\A t \in Tasks : job[t].status = "succeeded" => job'[t] = job[t]]_jobsVars

JobSettled(t) == job[t].status \in {"succeeded", "failed"}

\* While the store answers, every queued job is settled as long as a worker of
\* the workspace survives.
QueuedJobSettles ==
    \A t \in Tasks :
        ~storeFaults /\ job[t].status = "queued"
            ~> JobSettled(t) \/ ~\E w \in Workers : Alive(w)

\* A host that opens the workspace after a task ended makes up for a host
\* that died between the terminal event and the enqueue, also when its own
\* store calls fail later.
NewHostSchedules ==
    \A w \in Workers, t \in Tasks :
        pc[w] = "off" /\ t \in terminal
            ~> job[t].status # "absent" \/ t \in stageFailed \/ pc[w] = "dead"
=============================================================================
