------------------------------ MODULE AgentLoop ------------------------------
(***************************************************************************)
(* The loop that runs a task: context compaction, the runtime governor, the   *)
(* model request, tool calls one by one or as a parallel batch, approvals,    *)
(* checkpoints before side effects, steering and further turns, verification  *)
(* of the candidate and automatic correction.                                 *)
(*                                                                         *)
(* Source: crates/golutra-agent-runtime/src/lib.rs                            *)
(***************************************************************************)
EXTENDS ProviderSession, Sequences, SequencesExt, FiniteSets

CONSTANTS
    MaxIterations, MaxToolCalls, MaxFailures,   \* GovernorLimits; 0 is no limit
    CallLists,          \* bound: the tool calls a response may hold
    MaxTurns,           \* bound: turns queued while the task runs
    MaxSummaries,       \* attempts at a compaction summary
    MaxCorrections,     \* max_correction_rounds
    Contracts           \* the task contracts a turn may have

ASSUME LoopAssumption ==
    /\ {MaxIterations, MaxToolCalls, MaxFailures, MaxTurns, MaxSummaries, MaxCorrections} \subseteq Nat
    /\ CallLists \subseteq Seq({"read", "write", "check"}) \ {<<>>}
    /\ Contracts \subseteq [bestEffort : BOOLEAN, objective : BOOLEAN, external : BOOLEAN,
                            deferred : BOOLEAN]

VARIABLES
    pc,
    paused, expired,    \* the pause switch; the turn's deadline has passed
    spent,              \* the cost is over its budget
    iterations, toolCalls, failures,    \* what the governor counts
    guard, action,      \* guard_reason is set; governor_action
    calls, stage, result,   \* tool calls of the response, how far each is, its report
    at, last,           \* the call being handled, the last of its batch
    durable,            \* calls whose checkpoint is on disk
    reports,            \* the tool_reports of the turn that verification looks at
    queue, closed,      \* pending turns
    contract, corrections, candidate,
    empties, summaries,
    asked, answers, granted,    \* approvals: ids handed out, the channel, a session grant
    outcome,
    executed,           \* tool calls that reached the executor
    dirty,              \* the turn changed the workspace and did not validate it since
    allowed,            \* the user approved the pending request
    unapproved          \* a call that needs approval ran without one

callVars == <<calls, stage, result, at, last, durable>>
turnVars == <<reports, contract, corrections, candidate, empties, dirty>>
userVars == <<paused, queue, closed, asked, answers, granted>>
counts == <<iterations, toolCalls, failures, spent, summaries>>
ghosts == <<executed, unapproved, allowed>>
vars == <<pc, expired, guard, action, outcome, cancelled, sessionVars, callVars, turnVars, userVars,
          counts, ghosts>>

\* A read is allowed and has no effect, a write is allowed and needs a
\* checkpoint, a check (a shell command that validates) is asked for as well.
Effects == {"write", "check"}
Report(kind, ok, changed) == [kind |-> kind, ok |-> ok, changed |-> changed]
\* a call that was not carried out, whatever the reason
NoReport == Report("none", FALSE, FALSE)
\* Only changes and validations matter to verification.
Relevant(r) == r.changed \/ r.kind \in {"check", "verifier"}

Init ==
    /\ SessionInit
    /\ pc = "top" /\ paused = FALSE /\ expired = FALSE /\ spent = FALSE
    /\ iterations = 0 /\ toolCalls = 0 /\ failures = 0
    /\ guard = FALSE /\ action = "none"
    /\ calls = <<>> /\ stage = <<>> /\ result = <<>> /\ at = 1 /\ last = 0 /\ durable = {}
    /\ reports = <<>> /\ queue = <<>> /\ closed = FALSE
    /\ contract \in Contracts /\ corrections = 0 /\ candidate = FALSE
    /\ empties = 0 /\ summaries = 0
    /\ asked = 0 /\ answers = <<>> /\ granted = FALSE
    /\ outcome = "none" /\ executed = 0 /\ dirty = FALSE /\ unapproved = FALSE /\ allowed = FALSE

-----------------------------------------------------------------------------
(* The user and the clock.  The loop looks at each of these in some places     *)
(* only; what happens between two of them can as well happen at the next one. *)

Outside == <<pc, guard, action, outcome, sessionVars, callVars, turnVars, counts, ghosts>>

Cancel ==
    /\ pc \notin {"done", "govern", "result", "results", "judge"}
    /\ ~cancelled /\ cancelled' = TRUE /\ closed' = TRUE
    /\ UNCHANGED <<expired, paused, queue, asked, answers, granted, Outside>>

Pause ==
    /\ pc \in {"top", "request", "summary", "pick", "tool", "prepare", "invoke", "invokes", "verify"}
    /\ ~cancelled /\ paused' = ~paused
    /\ UNCHANGED <<cancelled, expired, queue, closed, asked, answers, granted, Outside>>

Expire ==
    /\ pc \in {"govern", "provider", "summarising", "pick", "tool", "result", "results", "judge"}
    /\ ~expired /\ expired' = TRUE
    /\ UNCHANGED <<cancelled, userVars, Outside>>

Enqueue(t) ==
    /\ pc = "settle" \/ (pc = "pick" /\ at > Len(calls))
    /\ ~closed /\ Len(queue) < MaxTurns
    /\ queue' = Append(queue, t)
    /\ UNCHANGED <<cancelled, expired, paused, closed, asked, answers, granted, Outside>>

\* The user answers a request, or one of before once more.
Answer(id, decision) ==
    /\ pc = "approval" /\ answers = <<>>
    /\ answers' = <<[id |-> id, decision |-> decision]>>
    /\ allowed' = (allowed \/ (id = asked /\ decision # "deny"))
    /\ UNCHANGED <<pc, guard, action, outcome, sessionVars, callVars, turnVars, counts, executed,
                   unapproved, cancelled, expired, paused, queue, closed, asked, granted>>

-----------------------------------------------------------------------------
(* The step *)

Runnable == ~cancelled /\ ~paused

\* RuntimeGovernor::evaluate; "Ask" and "Block" stop the task.  Failures are
\* looked at with a tool result only.
Governor(tools, fails, blocked) ==
    IF blocked THEN "Block"
    ELSE IF spent THEN "Ask"
    ELSE IF MaxIterations > 0 /\ iterations > MaxIterations THEN "Block"
    ELSE IF MaxToolCalls > 0 /\ tools > MaxToolCalls THEN "Block"
    ELSE IF MaxFailures > 0 /\ fails >= MaxFailures THEN "Block"
    ELSE IF expired THEN "Ask" ELSE "Allow"

Finish(how) == pc' = "done" /\ outcome' = how

\* The wait for the user's answer goes on after a cancellation.
MutAborted ==
    /\ pc \in {"top", "request", "summary", "tool", "prepare", "invoke", "verify"}
    /\ cancelled /\ Finish("Cancelled")
    /\ UNCHANGED <<expired, guard, action, cancelled, sessionVars, callVars, turnVars, userVars,
                   counts, ghosts>>

\* Every wait of the loop ends with the task when it is cancelled.
Aborted ==
    /\ pc \in {"top", "request", "summary", "tool", "approval", "prepare", "invoke", "verify"}
    /\ cancelled /\ Finish("Cancelled")
    /\ UNCHANGED <<expired, guard, action, cancelled, sessionVars, callVars, turnVars, userVars,
                   counts, ghosts>>

Guarded(how) == guard' = TRUE /\ action' = how /\ pc' = "verify"

\* The step begins; a context over its limit is compacted first.
BeginStep ==
    /\ pc = "top" /\ Runnable
    /\ iterations' = iterations + 1
    /\ pc' \in {"govern", "summary"}
    /\ UNCHANGED <<expired, guard, action, outcome, cancelled, sessionVars, callVars, turnVars,
                   userVars, toolCalls, failures, spent, summaries, ghosts>>

\* semantic_compaction_summary: a request that is not shown.
Summarise ==
    /\ pc = "summary" /\ Runnable
    /\ Begin(FALSE) /\ summaries' = summaries + 1 /\ pc' = "summarising"
    /\ UNCHANGED <<expired, guard, action, outcome, cancelled, callVars, turnVars, userVars,
                   iterations, toolCalls, failures, spent, ghosts>>

\* Without a summary the facts are kept; a cancelled compaction changes nothing.
Compacted ==
    /\ pc = "summarising" /\ Ended
    /\ Leave
    /\ cancelled' = (cancelled \/ phase = "cancelled")
    /\ spent' \in IF phase = "ok" THEN {spent, TRUE} ELSE {spent}
    /\ \/ cancelled' /\ Finish("Cancelled") /\ summaries' = 0
       \/ ~cancelled' /\ pc' = "govern" /\ summaries' = 0 /\ UNCHANGED outcome
       \/ ~cancelled' /\ phase = "ok" /\ summaries < MaxSummaries /\ pc' = "summary"
          /\ UNCHANGED <<outcome, summaries>>
    /\ UNCHANGED <<expired, guard, action, callVars, turnVars, userVars, iterations,
                   toolCalls, failures, ghosts>>

\* The context may still be too long; then the governor is asked.
Govern ==
    /\ pc = "govern"
    /\ \/ Guarded("Ask")
       \/ LET g == Governor(toolCalls, 0, FALSE)
          IN  IF g = "Allow" THEN pc' = "request" /\ UNCHANGED <<guard, action>> ELSE Guarded(g)
    /\ UNCHANGED <<expired, outcome, cancelled, sessionVars, callVars, turnVars, userVars,
                   iterations, toolCalls, failures, spent, summaries, ghosts>>

Request ==
    /\ pc = "request" /\ Runnable
    /\ Begin(TRUE) /\ pc' = "provider"
    /\ UNCHANGED <<expired, guard, action, outcome, cancelled, callVars, turnVars, userVars, counts,
                   ghosts>>

Session ==
    /\ pc \in {"provider", "summarising"}
    /\ SessionStep \/ (expired /\ DeadlineExceeded)
    /\ UNCHANGED <<pc, expired, guard, action, outcome, cancelled, callVars, turnVars, userVars,
                   counts, ghosts>>

SessionFailed ==
    /\ pc = "provider" /\ phase \in {"failed", "cancelled", "deadline"}
    /\ Leave
    /\ IF phase = "deadline" THEN Guarded(action) /\ UNCHANGED outcome
       ELSE /\ Finish(IF phase = "cancelled" THEN "Cancelled" ELSE "Error")
            /\ UNCHANGED <<guard, action>>
    /\ UNCHANGED <<expired, cancelled, callVars, turnVars, userVars, counts, ghosts>>

-----------------------------------------------------------------------------
(* The response *)

\* The response is recorded with its cost; what it holds decides what follows.
Responded ==
    /\ pc = "provider" /\ phase = "ok" /\ Leave
    /\ spent' \in {spent, TRUE}
    /\ UNCHANGED <<cancelled, expired, userVars, ghosts, iterations, toolCalls, failures, summaries,
                   reports, contract, corrections, candidate, dirty>>

RespondText ==
    /\ Responded /\ empties' = 0
    /\ pc' = "settle" /\ UNCHANGED <<callVars, guard, action, outcome>>

\* An empty answer is asked for once more.
RespondEmpty ==
    /\ Responded /\ empties' = empties + 1
    /\ IF empties' < 2 THEN pc' = "top" /\ UNCHANGED <<guard, action>> ELSE Guarded(action)
    /\ UNCHANGED <<callVars, outcome>>

\* A truncated answer is continued, unless the progress policy stops it; one
\* that stays silent too often is an error.
RespondContinue ==
    /\ Responded /\ empties' = 0
    /\ \/ pc' = "top" /\ UNCHANGED <<guard, action, outcome>>
       \/ Guarded(action) /\ UNCHANGED outcome
       \/ Finish("Error") /\ UNCHANGED <<guard, action>>
    /\ UNCHANGED callVars

\* Filtered, failed, unknown, or tool calls cut short
RespondMalformed ==
    /\ Responded /\ UNCHANGED <<empties>>
    /\ Finish("Error") /\ UNCHANGED <<callVars, guard, action>>

RespondTools(cs) ==
    /\ Responded /\ empties' = 0
    /\ calls' = cs /\ stage' = [i \in DOMAIN cs |-> "waiting"]
    /\ result' = [i \in DOMAIN cs |-> NoReport]
    /\ at' = 1 /\ last' = 0 /\ durable' = {}
    /\ pc' = "pick" /\ UNCHANGED <<guard, action, outcome>>

\* A pending turn starts, with a contract, a deadline and facts of its own; a
\* steer goes on with those of the turn.
StartTurn ==
    /\ contract' \in Contracts /\ expired' = FALSE /\ guard' = FALSE
    /\ reports' = <<>> /\ corrections' = 0 /\ candidate' = FALSE
    /\ empties' = 0 /\ dirty' = FALSE

Steers == IF closed THEN <<>> ELSE SelectSeq(queue, LAMBDA t : t = "steer")
Others == SelectSeq(queue, LAMBDA t : t # "steer")

\* The answer is final unless a child has reported or a turn is waiting;
\* otherwise the queue is closed and the candidate is ready.
SettleAgain ==
    /\ pc = "settle" /\ pc' = "top"
    /\ \/ UNCHANGED <<turnVars, expired, guard, queue>>
       \/ Steers # <<>> /\ queue' = Others /\ UNCHANGED <<turnVars, expired, guard>>
       \/ ~closed /\ Steers = <<>> /\ Others # <<>> /\ StartTurn /\ queue' = Tail(Others)
    /\ UNCHANGED <<action, outcome, cancelled, sessionVars, callVars, paused, closed, asked, answers,
                   granted, counts, ghosts>>

SettleCandidate ==
    /\ pc = "settle" /\ (closed \/ queue = <<>>)
    /\ closed' = TRUE /\ candidate' = TRUE /\ pc' = "verify"
    /\ guard' \in BOOLEAN
    /\ UNCHANGED <<expired, action, outcome, cancelled, sessionVars, callVars, reports, contract,
                   corrections, empties, dirty, paused, queue, asked, answers, granted,
                   counts, ghosts>>

-----------------------------------------------------------------------------
(* Tool calls *)

Batchable(j) == \A k \in at..j : calls[k] = calls[at] /\ calls[at] # "check"

\* Only the first call of the batch is held against the budget.
MutPickBatch(j) ==
    /\ pc = "pick" /\ Runnable /\ at <= Len(calls) /\ j \in at + 1 .. Len(calls) /\ Batchable(j)
    /\ Governor(toolCalls + 1, 0, FALSE) = "Allow"
    /\ last' = j /\ toolCalls' = toolCalls + (j - at + 1)
    /\ pc' = IF calls[at] = "write" THEN "checkpoints" ELSE "invokes"
    /\ UNCHANGED <<expired, guard, action, outcome, cancelled, sessionVars, calls, stage, result, at,
                   durable, turnVars, userVars, iterations, failures, spent, summaries, ghosts>>

\* A run of reads, or of writes to different files, may be a batch; it is one
\* only if every call of it is within the budget and can be prepared.
PickBatch(j) ==
    /\ pc = "pick" /\ Runnable /\ at <= Len(calls) /\ j \in at + 1 .. Len(calls) /\ Batchable(j)
    /\ \A k \in at..j : Governor(toolCalls + (k - at + 1), 0, FALSE) = "Allow"
    /\ last' = j /\ toolCalls' = toolCalls + (j - at + 1)
    /\ pc' = IF calls[at] = "write" THEN "checkpoints" ELSE "invokes"
    /\ UNCHANGED <<expired, guard, action, outcome, cancelled, sessionVars, calls, stage, result, at,
                   durable, turnVars, userVars, iterations, failures, spent, summaries, ghosts>>

\* Otherwise the calls are handled one by one.
PickOne(j) ==
    /\ pc = "pick" /\ at <= Len(calls) /\ j \in at .. Len(calls) /\ (j > at => Batchable(j) /\ ~paused)
    /\ last' = j /\ pc' = "tool"
    /\ UNCHANGED <<expired, guard, action, outcome, cancelled, sessionVars, calls, stage, result, at,
                   durable, turnVars, userVars, counts, ghosts>>

\* ToolCompleted: the report of the call is there.
Reported(i, r, how) ==
    /\ result' = [result EXCEPT ![i] = r] /\ stage' = [stage EXCEPT ![i] = how]

GovernTool ==
    /\ pc = "tool" /\ Runnable /\ allowed' = FALSE
    /\ LET g == Governor(toolCalls + 1, 0, FALSE) IN
       IF g # "Allow" THEN Guarded(g) /\ UNCHANGED <<toolCalls, result, stage, asked>>
       ELSE /\ toolCalls' = toolCalls + 1
            /\ \/ /\ Reported(at, NoReport, "refused")
                  /\ pc' = "result" /\ UNCHANGED asked
               \/ /\ calls[at] = "check" /\ ~granted
                  /\ asked' = asked + 1 /\ pc' = "approval" /\ UNCHANGED <<result, stage>>
               \/ /\ calls[at] = "check" => granted
                  /\ pc' = "prepare" /\ UNCHANGED <<result, stage, asked>>
            /\ UNCHANGED <<guard, action>>
    /\ UNCHANGED <<expired, outcome, cancelled, sessionVars, calls, at, last, durable, turnVars,
                   paused, queue, closed, answers, granted, iterations, failures, spent, summaries, executed,
                   unapproved>>

\* wait_for_approval: answers to other requests are dropped.
Approval ==
    /\ pc = "approval" /\ answers # <<>> /\ answers' = <<>>
    /\ LET answer == Head(answers) IN
       CASE answer.id # asked -> UNCHANGED <<pc, granted, result, stage>>
         [] answer.id = asked /\ answer.decision = "deny" ->
               /\ Reported(at, NoReport, "refused")
               /\ pc' = "result" /\ UNCHANGED granted
         [] OTHER ->
               /\ granted' = (granted \/ answer.decision = "session")
               /\ pc' = "prepare" /\ UNCHANGED <<result, stage>>
    /\ UNCHANGED <<expired, guard, action, outcome, cancelled, sessionVars, calls, at, last, durable,
                   turnVars, paused, queue, closed, asked, counts, ghosts>>

\* The snapshot and its checkpoint; a failure, the deadline or a cancellation
\* is the call's result.
Prepare ==
    /\ pc = "prepare" /\ Runnable
    /\ \/ /\ durable' = IF calls[at] \in Effects THEN durable \cup {at} ELSE durable
          /\ pc' = "invoke" /\ UNCHANGED <<result, stage>>
       \/ /\ Reported(at, NoReport, "refused")
          /\ pc' = "result" /\ UNCHANGED durable
    /\ UNCHANGED <<expired, guard, action, outcome, cancelled, sessionVars, calls, at, last, turnVars,
                   userVars, counts, ghosts>>

\* A write that fails may have changed something; a check that passes has seen
\* the workspace as it is.
Outcomes(kind) ==
    {Report(kind, TRUE, kind = "write")}
        \cup {Report(kind, FALSE, changed) : changed \in IF kind = "write" THEN BOOLEAN ELSE {FALSE}}

Execute(i) ==
    \E r \in Outcomes(calls[i]) :
        /\ Reported(i, r, "executed")
        /\ executed' = executed + 1
        /\ dirty' = (r.changed \/ (dirty /\ ~(r.kind = "check" /\ r.ok)))

Invoke ==
    /\ pc = "invoke" /\ Runnable
    /\ Execute(at) /\ pc' = "result"
    /\ unapproved' = (unapproved \/ (calls[at] = "check" /\ ~granted /\ ~allowed))
    /\ allowed' = FALSE
    /\ UNCHANGED <<expired, guard, action, outcome, cancelled, sessionVars, calls, at, last, durable,
                   reports, contract, corrections, candidate, empties, userVars, counts>>

\* The checkpoints of a batch are written side by side ...
Checkpoint(i) ==
    /\ pc = "checkpoints" /\ i \in at..last /\ stage[i] = "waiting"
    /\ \/ /\ ~cancelled /\ durable' = durable \cup {i}
          /\ stage' = [stage EXCEPT ![i] = "ready"]
       \/ stage' = [stage EXCEPT ![i] = "refused"] /\ UNCHANGED durable
    /\ UNCHANGED <<pc, expired, guard, action, outcome, cancelled, sessionVars, calls, result, at,
                   last, turnVars, userVars, counts, ghosts>>

\* The calls whose checkpoint is there go on without the others.
MutBatchGate ==
    /\ pc = "checkpoints" /\ \A i \in at..last : stage[i] # "waiting"
    /\ pc' = "invokes"
    /\ UNCHANGED <<expired, guard, action, outcome, cancelled, sessionVars, callVars, turnVars,
                   userVars, counts, ghosts>>

\* ... and if one fails, no call of the batch is carried out.
BatchGate ==
    /\ pc = "checkpoints" /\ \A i \in at..last : stage[i] # "waiting"
    /\ IF \E i \in at..last : stage[i] = "refused"
       THEN stage' = [i \in DOMAIN stage |-> IF i \in at..last THEN "refused" ELSE stage[i]]
            /\ pc' = "results"
       ELSE pc' = "invokes" /\ UNCHANGED stage
    /\ UNCHANGED <<expired, guard, action, outcome, cancelled, sessionVars, calls, result, at, last,
                   durable, turnVars, userVars, counts, ghosts>>

\* invoke_parallel_calls: in any order, each once the task may run
InvokeInBatch(i) ==
    /\ pc = "invokes" /\ i \in at..last /\ stage[i] \in {"waiting", "ready"}
    /\ \/ cancelled /\ Reported(i, NoReport, "refused") /\ UNCHANGED <<executed, dirty>>
       \/ Runnable /\ Execute(i)
    /\ UNCHANGED <<pc, expired, guard, action, outcome, cancelled, sessionVars, calls, at, last,
                   durable, reports, contract, corrections, candidate, empties, userVars,
                   counts, unapproved, allowed>>

BatchDone ==
    /\ pc = "invokes" /\ \A i \in at..last : stage[i] \in {"executed", "refused"}
    /\ pc' = "results"
    /\ UNCHANGED <<expired, guard, action, outcome, cancelled, sessionVars, callVars, turnVars,
                   userVars, counts, ghosts>>

\* The results enter the history in the order of the calls.  The governor stops
\* a single call's task at once, a batch's when all of its results are in.
TakeResult(blocked) ==
    /\ pc \in {"result", "results"}
    /\ blocked => pc = "result" /\ stage[at] = "refused"
    /\ reports' = IF Relevant(result[at]) THEN Append(reports, result[at]) ELSE reports
    /\ result' = [result EXCEPT ![at] = NoReport]
    /\ stage' = [stage EXCEPT ![at] = "answered"] /\ at' = at + 1
    /\ failures' = IF result[at].ok THEN 0 ELSE failures + 1
    /\ LET g == Governor(toolCalls, failures', blocked) IN
       /\ guard' = (guard \/ g # "Allow")
       /\ action' = IF g = "Allow" THEN action ELSE g
    /\ pc' = CASE at < last /\ (pc = "results" \/ ~guard') ->
                     IF pc = "results" THEN "results" ELSE "tool"
               [] OTHER -> IF guard' THEN "verify" ELSE "pick"
    /\ UNCHANGED <<expired, outcome, cancelled, sessionVars, calls, last, durable, contract,
                   corrections, candidate, empties, dirty, userVars, iterations, toolCalls,
                   spent, summaries, ghosts>>

\* All calls are answered: a steer that waits is taken in, and goes before the
\* progress policy.
EndStep ==
    /\ pc = "pick" /\ at > Len(calls)
    /\ \/ /\ Steers # <<>> /\ queue' = Others
          /\ pc' = "top" /\ UNCHANGED <<guard, action>>
       \/ /\ Steers = <<>> /\ UNCHANGED queue
          /\ Guarded(action) \/ (pc' = "top" /\ UNCHANGED <<guard, action>>)
    /\ calls' = <<>> /\ stage' = <<>> /\ result' = <<>> /\ at' = 1 /\ last' = 0 /\ durable' = {}
    /\ UNCHANGED <<expired, outcome, cancelled, sessionVars, turnVars, paused, closed, asked, answers,
                   granted, counts, ghosts>>

-----------------------------------------------------------------------------
(* Verification *)

\* The external verifier of the contract, behind a checkpoint of its own
Verify ==
    /\ pc = "verify" /\ pc' = "judge"
    /\ IF contract.external
       THEN /\ Runnable
            /\ \E ok \in BOOLEAN :
                /\ reports' = Append(reports, Report("verifier", ok, FALSE))
                /\ dirty' = (dirty /\ ~ok)
       ELSE UNCHANGED <<reports, dirty>>
    /\ UNCHANGED <<expired, guard, action, outcome, cancelled, sessionVars, callVars, contract,
                   corrections, candidate, empties, userVars, counts, ghosts>>

\* What was checked once stays checked.
MutValidationIsCurrent(i) == TRUE

\* validation_is_current: nothing changed after it.
ValidationIsCurrent(i) == \A j \in i + 1 .. Len(reports) : ~reports[j].changed

\* The last check of the turn counts, and the verifier.
Checks ==
    {i \in DOMAIN reports :
        /\ reports[i].kind \in {"check", "verifier"}
        /\ \A j \in i + 1 .. Len(reports) : reports[j].kind # reports[i].kind}
Passed(i) == reports[i].ok /\ ValidationIsCurrent(i)
Changed == \E i \in DOMAIN reports : reports[i].changed

\* verify_governed; the criteria of the contract may lower a result further.
Verdicts ==
    CASE contract.objective /\ ~\E i \in Checks : Passed(i) -> {"Fail"}
      [] contract.external /\ ~\E i \in Checks : reports[i].kind = "verifier" /\ Passed(i) -> {"Fail"}
      [] OTHER ->
            IF ~Changed \/ (Checks # {} /\ \A i \in Checks : Passed(i))
            THEN {"Pass", "Partial", "Fail"} ELSE {"Partial", "Fail"}

\* accepts_best_effort_completion
BestEffort(verdict) ==
    /\ contract.bestEffort /\ ~contract.objective /\ ~contract.deferred
    /\ verdict = "Partial" /\ Changed /\ Checks = {}

Decision(verdict, best, acts) ==
    CASE acts = "Ask" -> "AskUser"
      [] acts = "Block" -> "Blocked"
      [] OTHER -> IF verdict = "Pass" \/ best THEN "StopSuccess"
                  ELSE IF verdict = "Partial" THEN "StopPartial" ELSE "StopFailed"

\* Only the model's own reports survive a correction: the verifier's, which
\* Verify has just pushed, is the last one.
OwnReports == IF reports # <<>> /\ Last(reports).kind = "verifier" THEN Front(reports) ELSE reports

\* The candidate is sent back, or not, or the task ends.
Correct ==
    /\ corrections' = corrections + 1 /\ candidate' = FALSE
    /\ reports' = OwnReports
    /\ guard' = FALSE /\ action' = "none" /\ pc' = "top" /\ UNCHANGED outcome

\* A stopped task is corrected, too.
MutMayCorrect(verdict, stopped) ==
    /\ verdict # "Pass" /\ corrections < MaxCorrections /\ ~BestEffort(verdict)

MayCorrect(verdict, stopped) ==
    /\ candidate /\ ~stopped /\ verdict # "Pass" /\ corrections < MaxCorrections
    /\ ~BestEffort(verdict) /\ ~(contract.deferred /\ verdict # "Fail")

Judge ==
    /\ pc = "judge"
    /\ LET g == Governor(toolCalls, 0, FALSE)
           stopped == guard \/ g # "Allow"
           acts == IF g = "Allow" THEN action ELSE g
       IN
       \E verdict \in Verdicts :
          LET v == IF stopped /\ verdict = "Pass" THEN "Partial" ELSE verdict
              best == candidate /\ ~stopped /\ BestEffort(v)
          IN
          \/ MayCorrect(v, stopped) /\ Correct
          \/ /\ guard' = (stopped \/ MayCorrect(v, stopped)) /\ action' = acts
             /\ Finish(Decision(v, best, acts))
             /\ UNCHANGED <<corrections, candidate, reports>>
    /\ UNCHANGED <<expired, cancelled, sessionVars, callVars, contract, empties, dirty,
                   userVars, counts, ghosts>>

-----------------------------------------------------------------------------

Loop ==
    \/ Aborted \/ BeginStep \/ Summarise \/ Compacted \/ Govern \/ Request \/ Session \/ SessionFailed
    \/ RespondText \/ RespondEmpty \/ RespondContinue \/ RespondMalformed
    \/ \E cs \in CallLists : RespondTools(cs)
    \/ SettleAgain \/ SettleCandidate
    \/ \E i \in DOMAIN calls : PickBatch(i) \/ PickOne(i) \/ Checkpoint(i) \/ InvokeInBatch(i)
    \/ GovernTool \/ Approval \/ Prepare \/ Invoke \/ BatchGate \/ BatchDone
    \/ \E blocked \in BOOLEAN : TakeResult(blocked)
    \/ EndStep \/ Verify \/ Judge

User ==
    \/ Cancel \/ Pause \/ Expire
    \/ \E t \in {"steer", "turn"} : Enqueue(t)
    \/ \E id \in 1..asked, decision \in {"once", "session", "deny"} : Answer(id, decision)

Done == pc = "done" /\ UNCHANGED vars

Next == Loop \/ User \/ Done

Spec == Init /\ [][Next]_vars

\* The task's future is polled as long as it can go on, and a select that finds
\* the cancellation ready again and again takes it some time.
FairSpec == Spec /\ WF_vars(Loop) /\ WF_vars(Aborted)

-----------------------------------------------------------------------------
(* Properties *)

\* The model is never asked while a tool call of the history has no result:
\* also not after a steer, a stopped batch or a correction.
PairedHistory == pc = "provider" => \A i \in DOMAIN stage : stage[i] = "answered"

\* No side effect without its checkpoint on disk, and none of a batch before the
\* checkpoints of all of it are.
CheckpointFirst ==
    \A i \in DOMAIN calls :
        stage[i] = "executed" /\ calls[i] \in Effects =>
            i \in durable /\ (pc = "invokes" => at..last \subseteq durable)

\* Over all turns, batches and corrections no more tools run than the governor
\* allows.
ToolBudget == MaxToolCalls > 0 => executed <= MaxToolCalls

\* A tool that must be asked for runs only if the user approved this very
\* request, or approved all of them.
AskedTools == ~unapproved

\* Nothing is done to the workspace that was not cleared first, by a checkpoint
\* and, where one is needed, by the user: one by one and in batches.
EffectsAreCleared == CheckpointFirst /\ AskedTools

\* What is retried, batched or corrected stays within its budget.
BudgetsHold == ToolBudget /\ RetriesAreShared

\* Success means a finished candidate that nothing stopped, and a workspace that
\* was validated after its last change, unless the contract asks for no
\* validation.
SuccessIsEarned ==
    outcome = "StopSuccess" =>
        candidate /\ ~guard /\ (dirty => contract.bestEffort /\ ~contract.objective)

\* Once the task is cancelled no request is sent and no tool begins.
QuietAfterCancel == [][cancelled => executed' = executed /\ sent' <= sent]_vars

\* A cancelled task ends wherever it is: paused, waiting for the user, backing
\* off or in the middle of a batch.
CancelEnds == cancelled ~> pc = "done"
=============================================================================
