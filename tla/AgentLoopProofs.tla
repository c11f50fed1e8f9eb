--------------------------- MODULE AgentLoopProofs ---------------------------
(***************************************************************************)
(* Proofs about the agent loop and its model requests, for every limit of the *)
(* governor, every retry policy, every list of tool calls and every contract. *)
(***************************************************************************)
EXTENDS AgentLoop, FiniteSetTheorems, TLAPS

-----------------------------------------------------------------------------
(* Types *)

Kinds == {"read", "write", "check"}
Stages == {"waiting", "ready", "refused", "executed", "answered"}
Reports == [kind : Kinds \cup {"none", "verifier"}, ok : BOOLEAN, changed : BOOLEAN]
Phases == {"idle", "attempt", "sent", "backoff", "ok", "failed", "cancelled", "deadline"}

\* What the loop does apart from the tool calls of a response, up to the end
\* of the task.
Thinking == {"top", "govern", "request", "provider", "summary", "summarising", "settle"}
Single == {"tool", "approval", "prepare", "invoke", "result"}
Batch == {"checkpoints", "invokes", "results"}

SessionTypes ==
    /\ cancelled \in BOOLEAN /\ visible \in BOOLEAN
    /\ phase \in Phases
    /\ transport \in {"stream", "buffered"}
    /\ ordinary \in Nat /\ waits \in Nat /\ attempt \in Nat /\ sent \in Nat

CallTypes ==
    /\ calls \in Seq(Kinds)
    /\ stage \in [DOMAIN calls -> Stages]
    /\ result \in [DOMAIN calls -> Reports]
    /\ at \in Nat \ {0} /\ last \in Nat
    /\ pc \in Single \cup Batch => at \in DOMAIN calls /\ last \in DOMAIN calls /\ at <= last

TaskTypes ==
    /\ pc \in Thinking \cup Single \cup Batch \cup {"pick", "verify", "judge", "done"}
    /\ guard \in BOOLEAN /\ candidate \in BOOLEAN /\ dirty \in BOOLEAN
    /\ granted \in BOOLEAN /\ allowed \in BOOLEAN /\ unapproved \in BOOLEAN
    /\ reports \in Seq(Reports)
    /\ contract \in Contracts
    /\ toolCalls \in Nat /\ executed \in Nat /\ asked \in Nat

\* Every variable the properties are about has its type.
TypeOK == SessionTypes /\ CallTypes /\ TaskTypes

-----------------------------------------------------------------------------
(* The inductive invariants *)

\* A display is cleared before the next attempt, and what is sent is paid for by
\* the retries counted so far.
SessionInv ==
    /\ phase \in {"attempt", "sent", "ok"} => shown \subseteq {attempt}
    /\ phase = "backoff" => shown = {}
    /\ ordinary <= TotalRetries
    /\ sent <= ordinary + waits + 1
    /\ phase \in {"attempt", "backoff"} => sent <= ordinary + waits

\* Outside the tool loop all calls have their result, or the task is stopped.
HistoryInv ==
    /\ pc \in Thinking => \A i \in DOMAIN stage : stage[i] = "answered"
    /\ pc \in {"verify", "judge"} /\ ~guard => \A i \in DOMAIN stage : stage[i] = "answered"

\* Nothing was done yet for the calls after those being handled.
Waiting ==
    /\ pc \in {"pick", "tool", "approval", "prepare", "invoke"} =>
          \A i \in DOMAIN calls : i >= at => stage[i] = "waiting"
    /\ pc = "result" => \A i \in DOMAIN calls : i > at => stage[i] = "waiting"
    /\ pc \in Batch => \A i \in DOMAIN calls : i > last => stage[i] = "waiting"

\* A batch is of one kind and asks for no approval; only writes have checkpoints
\* to wait for.
OneKind ==
    /\ pc \in Batch => \A i \in at..last : calls[i] = calls[at] /\ calls[i] # "check"
    /\ pc = "checkpoints" =>
          /\ calls[at] = "write"
          /\ \A i \in at..last : stage[i] \in {"waiting", "ready", "refused"}

\* What was carried out is being handled, and had its checkpoint.
Cleared ==
    /\ pc = "invokes" /\ calls[at] = "write" => at..last \subseteq durable
    /\ pc = "invoke" /\ calls[at] \in Effects => at \in durable
    /\ \A i \in DOMAIN calls : stage[i] = "ready" => i \in durable
    /\ \A i \in DOMAIN calls : stage[i] = "executed" =>
          /\ \/ pc \in {"invokes", "results"} /\ i \in at..last
             \/ pc = "result" /\ i = at
          /\ calls[i] \in Effects => i \in durable

CallInv == Waiting /\ OneKind /\ Cleared

\* An approval that the loop goes by is the user's.
ApprovalInv ==
    /\ ~unapproved
    /\ answers # <<>> => pc \in {"approval", "done"}
    /\ answers # <<>> =>
          (Head(answers).id = asked /\ Head(answers).decision # "deny" => allowed)
    /\ pc \in {"prepare", "invoke"} /\ calls[at] = "check" => granted \/ allowed

\* Calls that were counted and may still be carried out
Pending == {i \in at..last : stage[i] \in {"waiting", "ready"}}
Owed ==
    CASE pc \in {"approval", "prepare", "invoke"} -> 1
      [] pc \in {"checkpoints", "invokes"} -> Cardinality(Pending)
      [] OTHER -> 0

BudgetInv ==
    /\ executed + Owed <= toolCalls
    /\ MaxToolCalls > 0 => toolCalls <= MaxToolCalls

\* A change with no passing validation after it
Stale(s) ==
    \E i \in DOMAIN s :
        /\ s[i].changed
        /\ \A j \in DOMAIN s : j > i => ~(s[j].kind \in {"check", "verifier"} /\ s[j].ok)

\* Only writes change something, and a verifier's report is looked at at once.
OwnOrLast(s, judged) ==
    \A i \in DOMAIN s :
        /\ s[i].changed => s[i].kind = "write"
        /\ s[i].kind = "verifier" => judged /\ i = Len(s)

\* A call has a report of its own once it was carried out, until it is taken.
ResultInv ==
    \A i \in DOMAIN calls :
        IF stage[i] = "executed" THEN result[i] \in Outcomes(calls[i]) ELSE result[i] = NoReport

ReportInv == OwnOrLast(reports, pc \in {"judge", "done"})

\* A dirty workspace shows in the reports, or in a result that is not taken yet.
DirtyInv ==
    /\ dirty => \/ Stale(reports)
                \/ \E i \in DOMAIN calls : stage[i] = "executed" /\ result[i].changed
    /\ pc = "result" /\ result[at].kind = "check" /\ result[at].ok => ~dirty

VerdictInv ==
    /\ pc \in {"verify", "judge"} /\ ~guard => candidate
    /\ outcome = "StopSuccess" => pc = "done"
    /\ SuccessIsEarned

-----------------------------------------------------------------------------
(* The shapes of a step *)

\* Most steps leave the tool calls and the turn as they are.
Apart ==
    /\ UNCHANGED <<callVars, reports, dirty, contract, candidate, toolCalls, executed, unapproved,
                   allowed, asked, granted, answers>>
    /\ \/ pc' = pc /\ UNCHANGED <<guard, outcome>>
       \/ /\ pc' = "done" /\ pc \notin Batch \cup {"result"}
          /\ outcome' \in {"Cancelled", "Error"} /\ UNCHANGED guard
       \/ pc \in Thinking /\ pc' \in Thinking /\ UNCHANGED <<guard, outcome>>
       \/ pc \in Thinking /\ pc' = "verify" /\ guard' = TRUE /\ UNCHANGED outcome

\* The steps that do not
ToolStep ==
    \/ \E cs \in CallLists : RespondTools(cs)
    \/ \E i \in DOMAIN calls : PickBatch(i) \/ PickOne(i) \/ Checkpoint(i) \/ InvokeInBatch(i)
    \/ GovernTool \/ Approval \/ Prepare \/ Invoke \/ BatchGate \/ BatchDone
    \/ \E blocked \in BOOLEAN : TakeResult(blocked)
    \/ \E id \in 1..asked, decision \in {"once", "session", "deny"} : Answer(id, decision)
    \/ EndStep

\* Every step leaves the calls alone or is one of the others.
LEMMA NextShapes ==
    ASSUME [Next]_vars
    PROVE  Apart \/ SettleAgain \/ SettleCandidate \/ ToolStep \/ Verify \/ Judge
<1> USE DEF Apart, vars, callVars, turnVars, userVars, counts, ghosts, Outside, Thinking, Batch
<1>1. CASE UNCHANGED vars
  BY <1>1
<1>2. CASE Done
  BY <1>2 DEF Done
<1>3. CASE User
  <2>1. CASE Cancel
    BY <2>1 DEF Cancel
  <2>2. CASE Pause
    BY <2>2 DEF Pause
  <2>3. CASE Expire
    BY <2>3 DEF Expire
  <2>4. CASE \E t \in {"steer", "turn"} : Enqueue(t)
    BY <2>4 DEF Enqueue
  <2>5. CASE \E id \in 1..asked, decision \in {"once", "session", "deny"} : Answer(id, decision)
    BY <2>5 DEF ToolStep
  <2> QED BY <1>3, <2>1, <2>2, <2>3, <2>4, <2>5 DEF User
<1>4. CASE Loop
  <2>1. CASE Aborted
    BY <2>1 DEF Aborted, Finish
  <2>2. CASE BeginStep
    BY <2>2 DEF BeginStep
  <2>3. CASE Summarise
    BY <2>3 DEF Summarise
  <2>4. CASE Compacted
    BY <2>4 DEF Compacted, Finish
  <2>5. CASE Govern
    BY <2>5 DEF Govern, Guarded
  <2>6. CASE Request
    BY <2>6 DEF Request
  <2>7. CASE Session
    BY <2>7 DEF Session
  <2>8. CASE SessionFailed
    BY <2>8 DEF SessionFailed, Guarded, Finish
  <2>9. CASE RespondText \/ RespondEmpty \/ RespondContinue \/ RespondMalformed
    BY <2>9 DEF RespondText, RespondEmpty, RespondContinue, RespondMalformed, Responded, Guarded,
                Finish
  <2>10. CASE ToolStep
    BY <2>10
  <2>11. CASE SettleAgain \/ SettleCandidate \/ Verify \/ Judge
    BY <2>11
  <2> QED BY <1>4, <2>1, <2>2, <2>3, <2>4, <2>5, <2>6, <2>7, <2>8, <2>9, <2>10, <2>11
          DEF Loop, ToolStep
<1> QED BY <1>1, <1>2, <1>3, <1>4 DEF Next

\* What a step may do to the model request
Requests == Begin(TRUE) \/ Begin(FALSE) \/ Leave \/ SessionStep \/ DeadlineExceeded

\* A model request is begun, goes on, is left or is not touched.
LEMMA SessionShapes ==
    ASSUME [Next]_vars
    PROVE  UNCHANGED sessionVars \/ Requests
<1> USE DEF vars, Requests, Outside, counts
<1>1. CASE UNCHANGED vars \/ Done
  BY <1>1 DEF Done
<1>2. CASE User
  BY <1>2 DEF User, Cancel, Pause, Expire, Enqueue, Answer
<1>3. CASE Loop
  <2>1. CASE Aborted \/ BeginStep \/ Summarise \/ Compacted \/ Govern \/ Request
    BY <2>1 DEF Aborted, BeginStep, Summarise, Compacted, Govern, Request
  <2>2. CASE Session \/ SessionFailed
    BY <2>2 DEF Session, SessionFailed
  <2>3. CASE \/ RespondText \/ RespondEmpty \/ RespondContinue \/ RespondMalformed
             \/ \E cs \in CallLists : RespondTools(cs)
    BY <2>3 DEF RespondText, RespondEmpty, RespondContinue, RespondMalformed, RespondTools, Responded
  <2>4. CASE SettleAgain \/ SettleCandidate \/ EndStep \/ Verify \/ Judge
    BY <2>4 DEF SettleAgain, SettleCandidate, EndStep, Verify, Judge
  <2>5. CASE \E i \in DOMAIN calls : PickBatch(i) \/ PickOne(i) \/ Checkpoint(i) \/ InvokeInBatch(i)
    BY <2>5 DEF PickBatch, PickOne, Checkpoint, InvokeInBatch
  <2>6. CASE GovernTool \/ Approval \/ Prepare \/ Invoke \/ BatchGate \/ BatchDone
    BY <2>6 DEF GovernTool, Approval, Prepare, Invoke, BatchGate, BatchDone
  <2>7. CASE \E blocked \in BOOLEAN : TakeResult(blocked)
    BY <2>7 DEF TakeResult
  <2> QED BY <1>3, <2>1, <2>2, <2>3, <2>4, <2>5, <2>6, <2>7 DEF Loop
<1> QED BY <1>1, <1>2, <1>3 DEF Next

-----------------------------------------------------------------------------
(* The model request *)

\* A cancelled task stays cancelled.
LEMMA CancelledStays ==
    ASSUME cancelled \in BOOLEAN, [Next]_vars
    PROVE  cancelled' \in BOOLEAN /\ (cancelled => cancelled')
<1> USE DEF vars, Outside
<1>1. CASE UNCHANGED vars \/ Done
  BY <1>1 DEF Done
<1>2. CASE User
  BY <1>2 DEF User, Cancel, Pause, Expire, Enqueue, Answer
<1>3. CASE Compacted
  BY <1>3 DEF Compacted
<1>4. CASE Loop /\ ~Compacted
  <2>1. CASE Aborted \/ BeginStep \/ Summarise \/ Govern \/ Request
    BY <2>1 DEF Aborted, BeginStep, Summarise, Govern, Request
  <2>2. CASE Session \/ SessionFailed
    BY <2>2 DEF Session, SessionFailed
  <2>3. CASE \/ RespondText \/ RespondEmpty \/ RespondContinue \/ RespondMalformed
             \/ \E cs \in CallLists : RespondTools(cs)
    BY <2>3 DEF RespondText, RespondEmpty, RespondContinue, RespondMalformed, RespondTools, Responded
  <2>4. CASE SettleAgain \/ SettleCandidate \/ EndStep \/ Verify \/ Judge
    BY <2>4 DEF SettleAgain, SettleCandidate, EndStep, Verify, Judge
  <2>5. CASE \E i \in DOMAIN calls : PickBatch(i) \/ PickOne(i) \/ Checkpoint(i) \/ InvokeInBatch(i)
    <3>1. cancelled' = cancelled
      BY <2>5 DEF PickBatch, PickOne, Checkpoint, InvokeInBatch
    <3> QED BY <3>1
  <2>6. CASE GovernTool \/ Approval \/ Prepare \/ Invoke \/ BatchGate \/ BatchDone
    BY <2>6 DEF GovernTool, Approval, Prepare, Invoke, BatchGate, BatchDone
  <2>7. CASE \E blocked \in BOOLEAN : TakeResult(blocked)
    BY <2>7 DEF TakeResult
  <2> QED BY <1>4, <2>1, <2>2, <2>3, <2>4, <2>5, <2>6, <2>7 DEF Loop
<1> QED BY <1>1, <1>2, <1>3, <1>4 DEF Next

\* The retry budget of a request is a number, and no kind of error has more.
LEMMA TotalIsNat == TotalRetries \in Nat /\ \A e \in Errors : RetryLimit(e) <= TotalRetries
<1>1. MaxStreamRetries \in Nat /\ MaxRequestRetries \in Nat
  BY SessionAssumption
<1> QED BY <1>1 DEF TotalRetries, RetryLimit, StreamRetries

\* A failed attempt: whatever is done next, the display is clean, unless the
\* error is given up, and the retry is counted.
LEMMA FailEffect ==
    ASSUME SessionTypes, SessionInv, NEW e \in Errors, Fail(e)
    PROVE  /\ visible' = visible /\ attempt' \in Nat /\ transport' \in {"stream", "buffered"}
           /\ ordinary' \in Nat /\ waits' \in Nat /\ sent' \in Nat
           /\ ordinary' <= TotalRetries /\ sent' <= ordinary' + waits' + 1
           /\ \/ phase' \in {"attempt", "backoff"} /\ shown' = {} /\ sent' <= ordinary' + waits'
              \/ phase' = "failed"
<1>1. TotalRetries \in Nat /\ RetryLimit(e) <= TotalRetries /\ RetryLimit(e) \in Nat
  <2>1. MaxStreamRetries \in Nat /\ MaxRequestRetries \in Nat
    BY SessionAssumption
  <2> QED BY <2>1 DEF TotalRetries, RetryLimit, StreamRetries
<1>2. /\ visible' = visible /\ attempt' \in Nat
      /\ phase = "sent" /\ shown \subseteq {attempt} /\ sent <= ordinary + waits + 1
      /\ ordinary \in Nat /\ waits \in Nat /\ sent \in Nat /\ ordinary <= TotalRetries
      /\ transport \in {"stream", "buffered"}
  BY DEF Fail, SessionTypes, SessionInv
<1>3. PICK seen \in Drained : Retry(e, seen) \/ SwitchTransport(e) \/ SwitchProvider(e) \/ GiveUp(e, seen)
  BY DEF Fail
<1>4. seen \subseteq {attempt}
  BY <1>2, <1>3 DEF Drained
<1>5. CASE Retry(e, seen)
  <2>1. phase' = "backoff" /\ shown' = {} /\ transport' = transport /\ sent' = sent
    BY <1>4, <1>5 DEF Retry
  <2>2. ordinary' <= TotalRetries /\ ordinary' \in Nat /\ waits' \in Nat
    BY <1>1, <1>2, <1>5 DEF Retry, MayRetry
  <2>3. sent <= ordinary' + waits'
    BY <1>2, <1>5 DEF Retry
  <2>4. sent' \in Nat /\ sent' <= ordinary' + waits' + 1
    BY <1>2, <1>5, <2>1, <2>2, <2>3 DEF Retry
  <2> QED BY <1>2, <2>1, <2>2, <2>3, <2>4
<1>6. CASE SwitchTransport(e)
  BY <1>1, <1>2, <1>6 DEF SwitchTransport
<1>7. CASE SwitchProvider(e)
  BY <1>1, <1>2, <1>7 DEF SwitchProvider
<1>8. CASE GiveUp(e, seen)
  BY <1>1, <1>2, <1>8 DEF GiveUp
<1> QED BY <1>3, <1>5, <1>6, <1>7, <1>8

\* The session's types and its invariant are kept, whatever the loop does.
LEMMA SessionKept ==
    ASSUME SessionTypes, SessionInv, [Next]_vars
    PROVE  SessionTypes' /\ SessionInv'
<1>0. cancelled' \in BOOLEAN
  BY CancelledStays DEF SessionTypes
<1>1. TotalRetries \in Nat
  BY TotalIsNat
<1>2. CASE UNCHANGED sessionVars
  BY <1>0, <1>2 DEF sessionVars, SessionTypes, SessionInv
<1>3. CASE Begin(TRUE) \/ Begin(FALSE) \/ Leave
  <2>0. visible' \in BOOLEAN
    BY <1>3 DEF Begin, Leave
  <2>1. /\ phase' \in {"attempt", "idle"} /\ transport' = "stream"
        /\ ordinary' = 0 /\ waits' = 0 /\ attempt' \in {0, 1} /\ sent' = 0 /\ shown' = {}
    BY <1>3 DEF Begin, Leave
  <2>2. SessionTypes'
    BY <1>0, <2>0, <2>1 DEF SessionTypes, Phases
  <2>3. SessionInv'
    BY <1>1, <2>1 DEF SessionInv, TotalRetries
  <2> QED BY <2>2, <2>3
<1>4. CASE DeadlineExceeded
  BY <1>0, <1>4 DEF DeadlineExceeded, Active, SessionTypes, SessionInv, Phases
<1>5. CASE SessionStep
  <2>1. CASE Send
    BY <1>0, <2>1 DEF Send, SessionTypes, SessionInv, Phases
  <2>2. CASE Stream
    BY <1>0, <2>2 DEF Stream, SessionTypes, SessionInv, Phases
  <2>3. CASE Succeed
    BY <1>0, <2>3 DEF Succeed, Drained, SessionTypes, SessionInv, Phases
  <2>4. CASE BackoffOver \/ SessionCancelled
    BY <1>0, <2>4 DEF BackoffOver, SessionCancelled, SessionTypes, SessionInv, Phases
  <2>5. CASE \E e \in Errors : Fail(e)
    <3>1. PICK e \in Errors : Fail(e)
      BY <2>5
    <3>2. /\ visible' = visible /\ attempt' \in Nat /\ transport' \in {"stream", "buffered"}
          /\ ordinary' \in Nat /\ waits' \in Nat /\ sent' \in Nat
          /\ ordinary' <= TotalRetries /\ sent' <= ordinary' + waits' + 1
          /\ \/ phase' \in {"attempt", "backoff"} /\ shown' = {} /\ sent' <= ordinary' + waits'
             \/ phase' = "failed"
      BY <3>1, FailEffect
    <3>3. SessionTypes'
      BY <1>0, <3>2 DEF SessionTypes, Phases
    <3>4. SessionInv'
      <4>1. (phase \in {"attempt", "sent", "ok"} => shown \subseteq {attempt})'
        BY <3>2
      <4>2. (phase = "backoff" => shown = {})'
        BY <3>2
      <4>3. (ordinary <= TotalRetries)'
        BY <3>2
      <4>4. (phase \in {"attempt", "backoff"} => sent <= ordinary + waits)'
        BY <3>2
      <4>5. (sent <= ordinary + waits + 1)'
        BY <3>2
      <4> QED BY <4>1, <4>2, <4>3, <4>4, <4>5 DEF SessionInv
    <3> QED BY <3>3, <3>4
  <2> QED BY <1>5, <2>1, <2>2, <2>3, <2>4, <2>5 DEF SessionStep
<1> QED BY <1>2, <1>3, <1>4, <1>5, SessionShapes DEF Requests

\* A provider session keeps its types and its invariant inside the agent loop.
LEMMA SessionHolds == Spec => [](SessionTypes /\ SessionInv)
<1>1. Init => SessionTypes /\ SessionInv
  <2>1. Init => SessionTypes
    <3>1. Init => cancelled \in BOOLEAN /\ visible \in BOOLEAN
      BY DEF Init, SessionInit
    <3>2. Init => /\ phase \in Phases /\ transport \in {"stream", "buffered"}
                  /\ ordinary \in Nat /\ waits \in Nat /\ attempt \in Nat /\ sent \in Nat
      BY DEF Init, SessionInit, Phases
    <3> QED BY <3>1, <3>2 DEF SessionTypes
  <2>2. Init => SessionInv
    BY TotalIsNat DEF Init, SessionInit, SessionInv
  <2> QED BY <2>1, <2>2
<1>2. SessionTypes /\ SessionInv /\ [Next]_vars => SessionTypes' /\ SessionInv'
  BY SessionKept
<1> QED BY <1>1, <1>2, PTL DEF Spec

\* Whatever is retried, on either transport and provider, no preview of an
\* attempt that failed is left on display.
THEOREM PreviewIsOfOneAttempt == Spec => []PreviewOfOneAttempt
<1>1. SessionInv => PreviewOfOneAttempt
  BY DEF SessionInv, PreviewOfOneAttempt
<1> QED BY <1>1, SessionHolds, PTL

\* A provider is asked at most once more than it may be retried, lost
\* connections apart: under every policy.
THEOREM RetriesAreBounded == Spec => []RetriesAreShared
<1>1. SessionTypes /\ SessionInv => RetriesAreShared
  BY TotalIsNat DEF SessionTypes, SessionInv, RetriesAreShared
<1> QED BY <1>1, SessionHolds, PTL

\* Nothing begins after a cancellation: requests and tools look at the token
\* before they do, each at its place.
LEMMA QuietStep ==
    ASSUME SessionTypes, [Next]_vars, cancelled
    PROVE  executed' = executed /\ sent' <= sent
<1> USE DEF vars, Outside, ghosts, Runnable
<1>0. sent \in Nat
  BY DEF SessionTypes
<1> SUFFICES executed' = executed /\ (sent' = sent \/ sent' = 0)
  BY <1>0
<1>1. CASE UNCHANGED vars \/ Done
  BY <1>1 DEF Done, sessionVars
<1>2. CASE User
  BY <1>2 DEF User, Cancel, Pause, Expire, Enqueue, Answer, sessionVars
<1>3. CASE Loop
  <2>1. CASE Aborted \/ BeginStep \/ Summarise \/ Compacted \/ Govern \/ Request
    BY <2>1 DEF Aborted, BeginStep, Summarise, Compacted, Govern, Request, sessionVars, Leave
  <2>2. CASE Session
    <3>1. executed' = executed
      BY <2>2 DEF Session
    <3>2. CASE Send \/ Stream \/ Succeed \/ BackoffOver \/ SessionCancelled \/ DeadlineExceeded
      BY <3>1, <3>2
         DEF Send, Stream, Succeed, BackoffOver, SessionCancelled, DeadlineExceeded
    <3>3. ~\E e \in Errors : Fail(e)
      BY DEF Fail
    <3> QED BY <2>2, <3>2, <3>3 DEF Session, SessionStep
  <2>3. CASE SessionFailed
    BY <2>3 DEF SessionFailed, Leave
  <2>4. CASE \/ RespondText \/ RespondEmpty \/ RespondContinue \/ RespondMalformed
             \/ \E cs \in CallLists : RespondTools(cs)
    BY <2>4 DEF RespondText, RespondEmpty, RespondContinue, RespondMalformed, RespondTools,
                      Responded, Leave
  <2>5. CASE SettleAgain \/ SettleCandidate \/ EndStep \/ Verify \/ Judge
    BY <2>5 DEF SettleAgain, SettleCandidate, EndStep, Verify, Judge, sessionVars
  <2>6. CASE \E i \in DOMAIN calls : PickBatch(i) \/ PickOne(i) \/ Checkpoint(i) \/ InvokeInBatch(i)
    BY <2>6 DEF PickBatch, PickOne, Checkpoint, InvokeInBatch, sessionVars
  <2>7. CASE GovernTool \/ Approval \/ Prepare \/ Invoke \/ BatchGate \/ BatchDone
    BY <2>7 DEF GovernTool, Approval, Prepare, Invoke, BatchGate, BatchDone, sessionVars
  <2>8. CASE \E blocked \in BOOLEAN : TakeResult(blocked)
    BY <2>8 DEF TakeResult, sessionVars
  <2> QED BY <1>3, <2>1, <2>2, <2>3, <2>4, <2>5, <2>6, <2>7, <2>8 DEF Loop
<1> QED BY <1>1, <1>2, <1>3 DEF Next

\* Once the task is cancelled no request is sent and no tool begins, in no
\* retry, batch or correction that was under way.
THEOREM CancelledIsQuiet == Spec => QuietAfterCancel
<1>1. SessionTypes /\ [Next]_vars => [cancelled => executed' = executed /\ sent' <= sent]_vars
  BY QuietStep
<1> QED BY <1>1, SessionHolds, PTL DEF Spec, QuietAfterCancel

-----------------------------------------------------------------------------
(* Types of the loop *)

\* What appending does to a sequence.
LEMMA AppendType ==
    ASSUME NEW S, NEW s \in Seq(S), NEW x \in S
    PROVE  /\ Append(s, x) \in Seq(S) /\ Len(Append(s, x)) = Len(s) + 1
           /\ Append(s, x)[Len(s) + 1] = x
           /\ \A i \in 1..Len(s) : Append(s, x)[i] = s[i]
OBVIOUS

\* The empty report is a report that changed and validated nothing.
LEMMA NoReportType == NoReport \in Reports /\ NoReport.kind = "none" /\ ~NoReport.changed /\ ~NoReport.ok
BY DEF NoReport, Report, Reports

\* What a tool may report
LEMMA OutcomeTypes ==
    ASSUME NEW k \in Kinds, NEW r \in Outcomes(k)
    PROVE  /\ r \in Reports /\ r.kind = k
           /\ r.changed => k = "write"
<1>1. CASE r = Report(k, TRUE, k = "write")
  BY <1>1 DEF Report, Reports, Kinds
<1>2. CASE \E c \in BOOLEAN : r = Report(k, FALSE, c) /\ (c => k = "write")
  BY <1>2 DEF Report, Reports, Kinds
<1> QED BY <1>1, <1>2 DEF Outcomes

\* The types hold at the start.
LEMMA CallTypesInit == Init => CallTypes /\ TaskTypes
<1> SUFFICES ASSUME Init PROVE CallTypes /\ TaskTypes
  OBVIOUS
<1>1. CallTypes
  <2>1. calls = <<>> /\ stage = <<>> /\ result = <<>> /\ at = 1 /\ last = 0 /\ pc = "top"
    BY DEF Init
  <2> QED BY <2>1 DEF CallTypes, Single, Batch
<1>2. guard \in BOOLEAN /\ candidate \in BOOLEAN /\ dirty \in BOOLEAN
      /\ granted \in BOOLEAN /\ allowed \in BOOLEAN /\ unapproved \in BOOLEAN
  BY DEF Init
<1>3. /\ pc \in Thinking /\ reports \in Seq(Reports) /\ contract \in Contracts
      /\ toolCalls \in Nat /\ executed \in Nat /\ asked \in Nat
  BY DEF Init, Thinking
<1> QED BY <1>1, <1>2, <1>3 DEF TaskTypes

\* The calls of a step and their stages
LEMMA CallTypesStep ==
    ASSUME CallTypes, TaskTypes, [Next]_vars
    PROVE  CallTypes'
<1>t. /\ calls \in Seq(Kinds) /\ stage \in [DOMAIN calls -> Stages]
      /\ result \in [DOMAIN calls -> Reports] /\ at \in Nat \ {0} /\ last \in Nat
  BY DEF CallTypes
<1>p. /\ pc \in Single \cup Batch => at \in DOMAIN calls /\ last \in DOMAIN calls /\ at <= last
  BY DEF CallTypes
<1>n. NoReport \in Reports
  BY NoReportType
<1>l. Len(calls) \in Nat /\ DOMAIN calls = 1..Len(calls)
  BY <1>t
<1> USE DEF Single, Batch, Stages
<1>1. CASE Apart
  BY <1>1 DEF Apart, CallTypes, callVars, Thinking
<1>2. CASE SettleAgain \/ SettleCandidate
  BY <1>2 DEF SettleAgain, SettleCandidate, CallTypes, callVars
<1>3. CASE Verify \/ Judge
  <2>1. UNCHANGED callVars /\ pc' \in {"judge", "top", "done"}
    BY <1>3 DEF Verify, Judge, Correct, Finish
  <2> QED BY <2>1 DEF CallTypes, callVars
<1>4. CASE \E cs \in CallLists : RespondTools(cs)
  <2>1. PICK cs \in CallLists : RespondTools(cs)
    BY <1>4
  <2>2. cs \in Seq(Kinds)
    BY LoopAssumption DEF Kinds
  <2> QED BY <2>1, <2>2, <1>n DEF RespondTools, CallTypes
<1>5. CASE \E i \in DOMAIN calls : PickBatch(i) \/ PickOne(i)
  <2>1. PICK i \in DOMAIN calls : PickBatch(i) \/ PickOne(i)
    BY <1>5
  <2>2. /\ calls' = calls /\ stage' = stage /\ result' = result /\ at' = at
        /\ last' = i /\ at <= i /\ at \in DOMAIN calls
    <3>1. CASE PickBatch(i)
      BY <3>1, <1>t, <1>l DEF PickBatch
    <3>2. CASE PickOne(i)
      BY <3>2, <1>t, <1>l DEF PickOne
    <3> QED BY <2>1, <3>1, <3>2
  <2> QED BY <2>2, <1>t, <1>l DEF CallTypes
<1>6. CASE \E i \in DOMAIN calls : Checkpoint(i) \/ InvokeInBatch(i)
  <2>1. PICK i \in DOMAIN calls : Checkpoint(i) \/ InvokeInBatch(i)
    BY <1>6
  <2>2. pc' = pc /\ calls' = calls /\ at' = at /\ last' = last
    BY <2>1 DEF Checkpoint, InvokeInBatch
  <2>3. stage' \in [DOMAIN calls -> Stages]
    BY <2>1, <1>t DEF Checkpoint, InvokeInBatch, Reported, Execute
  <2>4. result' \in [DOMAIN calls -> Reports]
    <3>1. CASE Checkpoint(i)
      BY <3>1, <1>t DEF Checkpoint
    <3>2. CASE InvokeInBatch(i)
      <4>1. PICK r \in Reports : result' = [result EXCEPT ![i] = r]
        <5>1. calls[i] \in Kinds
          BY <1>t
        <5> QED BY <3>2, <5>1, <1>n, OutcomeTypes DEF InvokeInBatch, Reported, Execute
      <4> QED BY <4>1, <1>t
    <3> QED BY <2>1, <3>1, <3>2
  <2> QED BY <2>2, <2>3, <2>4, <1>t, <1>p DEF CallTypes
<1>7. CASE GovernTool \/ Approval \/ Prepare
  <2>1. pc \in Single /\ calls' = calls /\ at' = at /\ last' = last
    BY <1>7 DEF GovernTool, Approval, Prepare
  <2>2. stage' \in [DOMAIN calls -> Stages] /\ result' \in [DOMAIN calls -> Reports]
    BY <1>7, <1>t, <1>n DEF GovernTool, Approval, Prepare, Reported
  <2> QED BY <2>1, <2>2, <1>t, <1>p DEF CallTypes
<1>8. CASE Invoke
  <2>1. pc \in Single /\ calls' = calls /\ at' = at /\ last' = last
    BY <1>8 DEF Invoke
  <2>2. PICK r \in Reports : Reported(at, r, "executed")
    <3>1. calls[at] \in Kinds
      BY <2>1, <1>t, <1>p
    <3> QED BY <1>8, <3>1, OutcomeTypes DEF Invoke, Execute
  <2>3. stage' \in [DOMAIN calls -> Stages] /\ result' \in [DOMAIN calls -> Reports]
    BY <2>2, <1>t DEF Reported
  <2> QED BY <2>1, <2>3, <1>t, <1>p DEF CallTypes
<1>9. CASE BatchGate \/ BatchDone
  <2>1. /\ pc \in Batch /\ calls' = calls /\ at' = at /\ last' = last /\ result' = result
    BY <1>9 DEF BatchGate, BatchDone, callVars
  <2>2. stage' \in [DOMAIN calls -> Stages]
    BY <1>9, <1>t DEF BatchGate, BatchDone, callVars
  <2> QED BY <2>1, <2>2, <1>t, <1>p DEF CallTypes
<1>10. CASE \E blocked \in BOOLEAN : TakeResult(blocked)
  <2>1. /\ pc \in Single \cup Batch /\ calls' = calls /\ at' = at + 1 /\ last' = last
        /\ stage' = [stage EXCEPT ![at] = "answered"]
        /\ result' = [result EXCEPT ![at] = NoReport]
    BY <1>10 DEF TakeResult
  <2>2. pc' \in Single \cup Batch => at < last
    BY <1>10 DEF TakeResult
  <2>3. stage' \in [DOMAIN calls -> Stages] /\ result' \in [DOMAIN calls -> Reports]
    BY <2>1, <1>t, <1>n
  <2>4. at' \in Nat \ {0}
    BY <2>1, <1>t
  <2>5. pc' \in Single \cup Batch => at' \in DOMAIN calls /\ at' <= last
    BY <2>1, <2>2, <1>t, <1>p, <1>l
  <2> QED BY <2>1, <2>3, <2>4, <2>5, <1>t, <1>p DEF CallTypes
<1>11. CASE \E id \in 1..asked, decision \in {"once", "session", "deny"} : Answer(id, decision)
  <2>1. pc' = pc /\ UNCHANGED callVars
    BY <1>11 DEF Answer
  <2> QED BY <2>1 DEF callVars, CallTypes
<1>12. CASE EndStep
  <2>1. calls' = <<>> /\ stage' = <<>> /\ result' = <<>> /\ at' = 1 /\ last' = 0
    BY <1>12 DEF EndStep
  <2>2. pc' \in {"top", "verify"}
    BY <1>12 DEF EndStep, Guarded
  <2> QED BY <2>1, <2>2 DEF CallTypes
<1> QED BY <1>1, <1>2, <1>3, <1>4, <1>5, <1>6, <1>7, <1>8, <1>9, <1>10, <1>11, <1>12, NextShapes
        DEF ToolStep

\* The rest of the loop's state
LEMMA TaskTypesStep ==
    ASSUME CallTypes, TaskTypes, [Next]_vars
    PROVE  TaskTypes'
<1>b. /\ guard \in BOOLEAN /\ candidate \in BOOLEAN /\ dirty \in BOOLEAN
      /\ granted \in BOOLEAN /\ allowed \in BOOLEAN /\ unapproved \in BOOLEAN
  BY DEF TaskTypes
<1>t. /\ pc \in Thinking \cup Single \cup Batch \cup {"pick", "verify", "judge", "done"}
      /\ reports \in Seq(Reports) /\ contract \in Contracts
      /\ toolCalls \in Nat /\ executed \in Nat /\ asked \in Nat
  BY DEF TaskTypes
<1>c. /\ calls \in Seq(Kinds) /\ result \in [DOMAIN calls -> Reports] /\ at \in Nat \ {0}
      /\ pc \in Single \cup Batch => at \in DOMAIN calls
  BY DEF CallTypes
<1> DEFINE Flags == /\ guard \in BOOLEAN /\ candidate \in BOOLEAN /\ dirty \in BOOLEAN
                    /\ granted \in BOOLEAN /\ allowed \in BOOLEAN /\ unapproved \in BOOLEAN
           Facts == /\ pc \in Thinking \cup Single \cup Batch \cup {"pick", "verify", "judge", "done"}
                    /\ reports \in Seq(Reports) /\ contract \in Contracts
                    /\ toolCalls \in Nat /\ executed \in Nat /\ asked \in Nat
<1> SUFFICES Flags' /\ Facts'
  BY DEF TaskTypes
<1> USE DEF Single, Batch, Thinking, turnVars, userVars, counts, ghosts
<1>1. CASE Apart
  <2>1. Flags'
    BY <1>1, <1>b DEF Apart
  <2>2. Facts'
    BY <1>1, <1>t DEF Apart
  <2> QED BY <2>1, <2>2
<1>2. CASE SettleAgain
  <2>1. Flags'
    BY <1>2, <1>b DEF SettleAgain, StartTurn
  <2>2. Facts'
    <3>1. /\ pc' = "top" /\ UNCHANGED <<toolCalls, executed, asked>>
          /\ \/ UNCHANGED <<reports, contract>>
             \/ reports' = <<>> /\ contract' \in Contracts
      BY <1>2 DEF SettleAgain, StartTurn
    <3>2. <<>> \in Seq(Reports)
      OBVIOUS
    <3>3. reports' \in Seq(Reports) /\ contract' \in Contracts
      BY <3>1, <3>2, <1>t
    <3> QED BY <3>1, <3>3, <1>t
  <2> QED BY <2>1, <2>2
<1>3. CASE SettleCandidate
  <2>1. Flags'
    BY <1>3, <1>b DEF SettleCandidate
  <2>2. Facts'
    BY <1>3, <1>t DEF SettleCandidate
  <2> QED BY <2>1, <2>2
<1>4. CASE Verify
  <2>1. Flags'
    BY <1>4, <1>b DEF Verify
  <2>2. \A ok \in BOOLEAN : Report("verifier", ok, FALSE) \in Reports
    BY DEF Report, Reports
  <2>3. Facts'
    <3>1. /\ pc' = "judge" /\ UNCHANGED <<contract, toolCalls, executed, asked>>
          /\ \/ reports' = reports
             \/ \E ok \in BOOLEAN : reports' = Append(reports, Report("verifier", ok, FALSE))
      BY <1>4 DEF Verify
    <3>2. reports' \in Seq(Reports)
      <4>1. \A ok \in BOOLEAN : Append(reports, Report("verifier", ok, FALSE)) \in Seq(Reports)
        BY <2>2, <1>t, AppendType
      <4> QED BY <3>1, <4>1, <1>t
    <3> QED BY <3>1, <3>2, <1>t
  <2> QED BY <2>1, <2>3
<1>5. CASE Judge
  <2>1. /\ dirty' = dirty /\ contract' = contract /\ pc' \in {"top", "done"}
        /\ UNCHANGED <<granted, allowed, unapproved, toolCalls, executed, asked>>
    BY <1>5 DEF Judge, Correct, Finish
  <2>2. guard' \in BOOLEAN /\ candidate' \in BOOLEAN
    BY <1>5, <1>b DEF Judge, Correct
  <2>3. reports' = reports \/ reports' = OwnReports
    BY <1>5 DEF Judge, Correct
  <2>4. OwnReports \in Seq(Reports)
    BY <1>t DEF OwnReports, Front
  <2>5. reports' \in Seq(Reports)
    BY <1>t, <2>3, <2>4
  <2> QED BY <1>b, <1>t, <2>1, <2>2, <2>5
<1>6. CASE \E cs \in CallLists : RespondTools(cs)
  <2>1. Flags'
    BY <1>6, <1>b DEF RespondTools, Responded
  <2>2. Facts'
    BY <1>6, <1>t DEF RespondTools, Responded
  <2> QED BY <2>1, <2>2
<1>7. CASE \E i \in DOMAIN calls : PickBatch(i) \/ PickOne(i)
  <2>1. PICK i \in DOMAIN calls : PickBatch(i) \/ PickOne(i)
    BY <1>7
  <2>2. Flags'
    BY <2>1, <1>b DEF PickBatch, PickOne
  <2>3. /\ pc' \in {"tool", "invokes", "checkpoints"}
        /\ UNCHANGED <<reports, contract, executed, asked>>
    BY <2>1 DEF PickBatch, PickOne
  <2>4. toolCalls' \in Nat
    <3>1. CASE PickBatch(i)
      <4>1. Len(calls) \in Nat /\ i \in at + 1 .. Len(calls) /\ toolCalls' = toolCalls + (i - at + 1)
        BY <3>1, <1>c DEF PickBatch
      <4> QED BY <4>1, <1>t, <1>c
    <3>2. CASE PickOne(i)
      BY <3>2, <1>t DEF PickOne
    <3> QED BY <2>1, <3>1, <3>2
  <2> QED BY <2>2, <2>3, <2>4, <1>t
<1>8. CASE \E i \in DOMAIN calls : Checkpoint(i) \/ InvokeInBatch(i)
  <2>1. PICK i \in DOMAIN calls : Checkpoint(i) \/ InvokeInBatch(i)
    BY <1>8
  <2>2. Flags'
    BY <2>1, <1>b DEF Checkpoint, InvokeInBatch, Execute
  <2>3. Facts'
    BY <2>1, <1>t DEF Checkpoint, InvokeInBatch, Execute
  <2> QED BY <2>2, <2>3
<1>9. CASE GovernTool
  <2>1. Flags'
    BY <1>9, <1>b DEF GovernTool, Guarded
  <2>2. Facts'
    <3>1. /\ pc' \in {"verify", "result", "approval", "prepare"}
          /\ UNCHANGED <<reports, contract, executed>>
          /\ toolCalls' = toolCalls \/ toolCalls' = toolCalls + 1
      BY <1>9 DEF GovernTool, Guarded
    <3>2. asked' = asked \/ asked' = asked + 1
      BY <1>9 DEF GovernTool
    <3> QED BY <3>1, <3>2, <1>t
  <2> QED BY <2>1, <2>2
<1>10. CASE Approval
  <2>1. Flags'
    BY <1>10, <1>b DEF Approval
  <2>2. Facts'
    BY <1>10, <1>t DEF Approval
  <2> QED BY <2>1, <2>2
<1>11. CASE Prepare \/ Invoke
  <2>1. Flags'
    BY <1>11, <1>b DEF Prepare, Invoke, Execute
  <2>2. Facts'
    BY <1>11, <1>t DEF Prepare, Invoke, Execute
  <2> QED BY <2>1, <2>2
<1>12. CASE BatchGate \/ BatchDone
  <2>1. Flags'
    BY <1>12, <1>b DEF BatchGate, BatchDone
  <2>2. Facts'
    BY <1>12, <1>t DEF BatchGate, BatchDone
  <2> QED BY <2>1, <2>2
<1>13. CASE \E blocked \in BOOLEAN : TakeResult(blocked)
  <2>1. PICK blocked \in BOOLEAN : TakeResult(blocked)
    BY <1>13
  <2>2. Flags'
    BY <2>1, <1>b DEF TakeResult
  <2>3. result[at] \in Reports
    BY <2>1, <1>c DEF TakeResult
  <2>4. reports' \in Seq(Reports)
    BY <2>1, <2>3, <1>t DEF TakeResult
  <2>5. /\ pc' \in {"results", "tool", "verify", "pick"}
        /\ UNCHANGED <<contract, toolCalls, executed, asked>>
    BY <2>1 DEF TakeResult
  <2> QED BY <2>2, <2>4, <2>5, <1>t
<1>14. CASE \E id \in 1..asked, decision \in {"once", "session", "deny"} : Answer(id, decision)
  <2>1. Flags'
    BY <1>14, <1>b DEF Answer
  <2>2. Facts'
    BY <1>14, <1>t DEF Answer
  <2> QED BY <2>1, <2>2
<1>15. CASE EndStep
  <2>1. Flags'
    BY <1>15, <1>b DEF EndStep, Guarded
  <2>2. Facts'
    BY <1>15, <1>t DEF EndStep, Guarded
  <2> QED BY <2>1, <2>2
<1> QED BY <1>1, <1>2, <1>3, <1>4, <1>5, <1>6, <1>7, <1>8, <1>9, <1>10, <1>11, <1>12, <1>13, <1>14,
           <1>15, NextShapes DEF ToolStep

\* The types hold, for the proofs that follow.
LEMMA TypeHolds == Spec => []TypeOK
<1>1. Init => CallTypes /\ TaskTypes
  BY CallTypesInit
<1>2. CallTypes /\ TaskTypes /\ [Next]_vars => CallTypes' /\ TaskTypes'
  BY CallTypesStep, TaskTypesStep
<1>3. SessionTypes /\ CallTypes /\ TaskTypes => TypeOK
  BY DEF TypeOK
<1> QED BY <1>1, <1>2, <1>3, SessionHolds, PTL DEF Spec

\* The calls, the requests and the task have their types, and a call that is
\* being handled is one of the response.
THEOREM TypeCorrect == Spec => []TypeOK
BY TypeHolds, PTL

-----------------------------------------------------------------------------
(* The history *)

\* Every step keeps the history paired.
LEMMA HistoryStep ==
    ASSUME TypeOK, HistoryInv, [Next]_vars
    PROVE  HistoryInv'
<1> DEFINE Answered == \A i \in DOMAIN stage : stage[i] = "answered"
<1>h. /\ pc \in Thinking => Answered
      /\ pc \in {"verify", "judge"} /\ ~guard => Answered
  BY DEF HistoryInv
<1>g. guard \in BOOLEAN
  BY DEF TypeOK, TaskTypes
<1>a. ASSUME stage' = stage PROVE Answered' = Answered
  BY <1>a
<1> SUFFICES /\ pc' \in Thinking => Answered'
             /\ pc' \in {"verify", "judge"} /\ ~guard' => Answered'
  BY DEF HistoryInv
<1> HIDE DEF Answered
<1> USE DEF Thinking, callVars
<1>1. CASE Apart
  BY <1>1, <1>h, <1>a DEF Apart
<1>2. CASE SettleAgain \/ SettleCandidate
  <2>1. pc = "settle" /\ stage' = stage
    BY <1>2 DEF SettleAgain, SettleCandidate
  <2> QED BY <2>1, <1>h, <1>a
<1>3. CASE Verify
  <2>1. pc = "verify" /\ stage' = stage /\ guard' = guard /\ pc' = "judge"
    BY <1>3 DEF Verify
  <2> QED BY <2>1, <1>h, <1>a
<1>4. CASE Judge
  <2>1. pc = "judge" /\ stage' = stage
    BY <1>4 DEF Judge
  <2>2. pc' = "done" \/ (pc' = "top" /\ ~guard)
    BY <1>4 DEF Judge, Correct, MayCorrect, Finish
  <2> QED BY <2>1, <2>2, <1>h, <1>a
<1>5. CASE \E cs \in CallLists : RespondTools(cs)
  BY <1>5 DEF RespondTools
<1>6. CASE \E i \in DOMAIN calls : PickBatch(i) \/ PickOne(i) \/ Checkpoint(i) \/ InvokeInBatch(i)
  BY <1>6 DEF PickBatch, PickOne, Checkpoint, InvokeInBatch
<1>7. CASE GovernTool
  BY <1>7 DEF GovernTool, Guarded
<1>8. CASE Approval
  BY <1>8 DEF Approval
<1>9. CASE Prepare \/ Invoke
  BY <1>9 DEF Prepare, Invoke
<1>10. CASE BatchGate \/ BatchDone
  BY <1>10 DEF BatchGate, BatchDone
<1>11. CASE \E blocked \in BOOLEAN : TakeResult(blocked)
  BY <1>11 DEF TakeResult
<1>12. CASE \E id \in 1..asked, decision \in {"once", "session", "deny"} : Answer(id, decision)
  BY <1>12 DEF Answer
<1>13. CASE EndStep
  <2>1. stage' = <<>>
    BY <1>13 DEF EndStep
  <2>2. Answered'
    BY <2>1 DEF Answered
  <2> QED BY <2>2
<1> QED BY <1>1, <1>2, <1>3, <1>4, <1>5, <1>6, <1>7, <1>8, <1>9, <1>10, <1>11, <1>12, <1>13,
           NextShapes DEF ToolStep

\* The model is asked only when every call of its last response has a result in
\* the history: a stopped or refused call never leads back to a request.
THEOREM HistoryIsPaired == Spec => []PairedHistory
<1>1. Init => HistoryInv
  BY DEF Init, HistoryInv
<1>2. TypeOK /\ HistoryInv /\ [Next]_vars => HistoryInv'
  BY HistoryStep
<1>3. HistoryInv => PairedHistory
  BY DEF HistoryInv, PairedHistory, Thinking
<1> QED BY <1>1, <1>2, <1>3, TypeHolds, PTL DEF Spec

-----------------------------------------------------------------------------
(* Approvals *)

\* Every step keeps an approval that the loop goes by the user's.
LEMMA ApprovalStep ==
    ASSUME TypeOK, ApprovalInv, [Next]_vars
    PROVE  ApprovalInv'
<1>b. unapproved \in BOOLEAN /\ granted \in BOOLEAN /\ allowed \in BOOLEAN /\ asked \in Nat
  BY DEF TypeOK, TaskTypes
<1>h. /\ ~unapproved
      /\ answers # <<>> => pc \in {"approval", "done"}
      /\ answers # <<>> =>
            (Head(answers).id = asked /\ Head(answers).decision # "deny" => allowed)
      /\ pc \in {"prepare", "invoke"} /\ calls[at] = "check" => granted \/ allowed
  BY DEF ApprovalInv
<1> USE DEF Thinking, callVars, userVars, ghosts, ApprovalInv
<1>1. CASE Apart
  BY <1>1, <1>h DEF Apart
<1>2. CASE SettleAgain \/ SettleCandidate \/ Verify
  <2>1. /\ UNCHANGED <<answers, asked, allowed, unapproved, granted>>
        /\ pc \in {"settle", "verify"} /\ pc' \in {"top", "verify", "judge"}
    BY <1>2 DEF SettleAgain, SettleCandidate, Verify
  <2> QED BY <2>1, <1>h
<1>3. CASE Judge
  <2>1. UNCHANGED <<answers, asked, allowed, unapproved, granted>> /\ pc' \in {"top", "done"}
    BY <1>3 DEF Judge, Correct, Finish
  <2>2. pc = "judge"
    BY <1>3 DEF Judge
  <2> QED BY <2>1, <2>2, <1>h
<1>4. CASE \E cs \in CallLists : RespondTools(cs)
  <2>1. /\ pc = "provider" /\ pc' = "pick" /\ answers' = answers /\ unapproved' = unapproved
    BY <1>4 DEF RespondTools, Responded
  <2> QED BY <2>1, <1>h
<1>5. CASE \E i \in DOMAIN calls : PickBatch(i) \/ PickOne(i) \/ Checkpoint(i) \/ InvokeInBatch(i)
  <2>1. /\ pc \in {"pick", "checkpoints", "invokes"}
        /\ pc' \notin {"prepare", "invoke"} /\ answers' = answers /\ unapproved' = unapproved
    BY <1>5 DEF PickBatch, PickOne, Checkpoint, InvokeInBatch
  <2> QED BY <2>1, <1>h
<1>6. CASE GovernTool
  <2>1. /\ pc = "tool" /\ answers' = answers /\ unapproved' = unapproved /\ calls' = calls /\ at' = at
        /\ granted' = granted
    BY <1>6 DEF GovernTool
  <2>2. pc' \notin {"prepare", "invoke"} \/ (calls[at] = "check" => granted)
    BY <1>6 DEF GovernTool, Guarded
  <2> QED BY <2>1, <2>2, <1>h
<1>7. CASE Approval
  <2>1. /\ pc = "approval" /\ answers # <<>> /\ answers' = <<>> /\ unapproved' = unapproved
        /\ allowed' = allowed
    BY <1>7 DEF Approval
  <2>2. pc' \in {"approval", "result"} \/ allowed
    BY <1>7, <1>h DEF Approval
  <2> QED BY <2>1, <2>2, <1>h
<1>8. CASE Prepare
  <2>1. /\ pc = "prepare" /\ calls' = calls /\ at' = at
        /\ UNCHANGED <<answers, asked, allowed, unapproved, granted>>
    BY <1>8 DEF Prepare
  <2> QED BY <2>1, <1>h
<1>9. CASE Invoke
  <2>1. /\ pc = "invoke" /\ pc' = "result" /\ answers' = answers
        /\ unapproved' = (unapproved \/ (calls[at] = "check" /\ ~granted /\ ~allowed))
    BY <1>9 DEF Invoke
  <2> QED BY <2>1, <1>h
<1>10. CASE BatchGate \/ BatchDone
  <2>1. /\ pc \in {"checkpoints", "invokes"} /\ pc' \in {"results", "invokes"}
        /\ answers' = answers /\ unapproved' = unapproved
    BY <1>10 DEF BatchGate, BatchDone
  <2> QED BY <2>1, <1>h
<1>11. CASE \E blocked \in BOOLEAN : TakeResult(blocked)
  <2>1. /\ pc \in {"result", "results"} /\ pc' \notin {"prepare", "invoke"}
        /\ answers' = answers /\ unapproved' = unapproved
    BY <1>11 DEF TakeResult
  <2> QED BY <2>1, <1>h
<1>12. CASE \E id \in 1..asked, decision \in {"once", "session", "deny"} : Answer(id, decision)
  <2>1. PICK id \in 1..asked, decision \in {"once", "session", "deny"} : Answer(id, decision)
    BY <1>12
  <2>2. /\ pc = "approval" /\ pc' = pc /\ asked' = asked /\ unapproved' = unapproved
        /\ answers' = <<[id |-> id, decision |-> decision]>>
        /\ allowed' = (allowed \/ (id = asked /\ decision # "deny"))
    BY <2>1 DEF Answer
  <2>3. Head(answers').id = id /\ Head(answers').decision = decision
    BY <2>2
  <2> QED BY <2>2, <2>3, <1>h
<1>13. CASE EndStep
  <2>1. /\ pc = "pick" /\ pc' \in {"top", "verify"}
        /\ answers' = answers /\ unapproved' = unapproved
    BY <1>13 DEF EndStep, Guarded
  <2> QED BY <2>1, <1>h
<1> QED BY <1>1, <1>2, <1>3, <1>4, <1>5, <1>6, <1>7, <1>8, <1>9, <1>10, <1>11, <1>12, <1>13,
           NextShapes DEF ToolStep

-----------------------------------------------------------------------------
(* The calls of a response *)

\* The calls are in order at the start.
LEMMA CallInvInit == Init => CallInv
BY DEF Init, CallInv, Waiting, OneKind, Cleared, Batch

\* Every step keeps the calls of a response cleared before they run.
LEMMA CallStep ==
    ASSUME TypeOK, CallInv, HistoryInv, [Next]_vars
    PROVE  CallInv'
<1>t. /\ calls \in Seq(Kinds) /\ stage \in [DOMAIN calls -> Stages] /\ at \in Nat \ {0} /\ last \in Nat
      /\ Len(calls) \in Nat /\ DOMAIN calls = 1..Len(calls)
  BY DEF TypeOK, CallTypes
<1>p. pc \in Single \cup Batch => at \in DOMAIN calls /\ last \in DOMAIN calls /\ at <= last
  BY DEF TypeOK, CallTypes
<1>w. /\ pc \in {"pick", "tool", "approval", "prepare", "invoke"} =>
            \A i \in DOMAIN calls : i >= at => stage[i] = "waiting"
      /\ pc = "result" => \A i \in DOMAIN calls : i > at => stage[i] = "waiting"
      /\ pc \in Batch => \A i \in DOMAIN calls : i > last => stage[i] = "waiting"
  BY DEF CallInv, Waiting
<1>k. /\ pc \in Batch => \A i \in at..last : calls[i] = calls[at] /\ calls[i] # "check"
      /\ pc = "checkpoints" =>
            /\ calls[at] = "write"
            /\ \A i \in at..last : stage[i] \in {"waiting", "ready", "refused"}
  BY DEF CallInv, OneKind
<1>c. /\ pc = "invokes" /\ calls[at] = "write" => at..last \subseteq durable
      /\ pc = "invoke" /\ calls[at] \in Effects => at \in durable
      /\ \A i \in DOMAIN calls : stage[i] = "ready" => i \in durable
      /\ \A i \in DOMAIN calls : stage[i] = "executed" =>
            /\ \/ pc \in {"invokes", "results"} /\ i \in at..last
               \/ pc = "result" /\ i = at
            /\ calls[i] \in Effects => i \in durable
  BY DEF CallInv, Cleared
<1> USE DEF Single, Batch, Thinking
\* Steps that change no call and end outside of the tool loop, or stay
<1>q. ASSUME UNCHANGED callVars,
             pc' = pc \/ (pc' \notin Single \cup Batch \cup {"pick"} /\ pc \notin {"invokes", "results", "result"})
      PROVE  CallInv'
  <2>1. calls' = calls /\ stage' = stage /\ at' = at /\ last' = last /\ durable' = durable
    BY <1>q DEF callVars
  <2>2. Waiting'
    BY <2>1, <1>q, <1>w DEF Waiting
  <2>3. OneKind'
    BY <2>1, <1>q, <1>k DEF OneKind
  <2>4. Cleared'
    BY <2>1, <1>q, <1>c DEF Cleared
  <2> QED BY <2>2, <2>3, <2>4 DEF CallInv
<1>1. CASE Apart
  BY <1>1, <1>q DEF Apart
<1>2. CASE SettleAgain \/ SettleCandidate \/ Verify \/ Judge
  <2>1. /\ UNCHANGED callVars /\ pc \in {"settle", "verify", "judge"}
        /\ pc' \in {"top", "verify", "judge", "done"}
    BY <1>2 DEF SettleAgain, SettleCandidate, Verify, Judge, Correct, Finish
  <2> QED BY <2>1, <1>q
<1>3. CASE \E id \in 1..asked, decision \in {"once", "session", "deny"} : Answer(id, decision)
  BY <1>3, <1>q DEF Answer
<1>4. CASE \E cs \in CallLists : RespondTools(cs)
  <2>1. PICK cs \in CallLists : RespondTools(cs)
    BY <1>4
  <2>2. calls' = cs /\ stage' = [i \in DOMAIN cs |-> "waiting"] /\ pc' = "pick"
    BY <2>1 DEF RespondTools
  <2>3. \A i \in DOMAIN calls' : stage'[i] = "waiting"
    BY <2>2
  <2> QED BY <2>2, <2>3 DEF CallInv, Waiting, OneKind, Cleared
<1>5. CASE \E j \in DOMAIN calls : PickBatch(j) \/ PickOne(j)
  <2>1. PICK j \in DOMAIN calls : PickBatch(j) \/ PickOne(j)
    BY <1>5
  <2>2. /\ pc = "pick" /\ calls' = calls /\ stage' = stage /\ at' = at /\ last' = j
        /\ durable' = durable /\ at <= j
    <3>1. CASE PickBatch(j)
      BY <3>1, <1>t DEF PickBatch
    <3>2. CASE PickOne(j)
      BY <3>2, <1>t DEF PickOne
    <3> QED BY <2>1, <3>1, <3>2
  <2>3. \A i \in DOMAIN calls : stage[i] # "executed"
    BY <2>2, <1>c
  <2>4. CASE PickBatch(j)
    <3>1. /\ pc' = IF calls[at] = "write" THEN "checkpoints" ELSE "invokes"
          /\ \A k \in at..j : calls[k] = calls[at] /\ calls[at] # "check"
      BY <2>4 DEF PickBatch, Batchable
    <3>2. Waiting'
      BY <3>1, <2>2, <1>w, <1>t DEF Waiting
    <3>3. OneKind'
      <4>1. \A i \in at..j : stage[i] = "waiting"
        BY <2>2, <1>w, <1>t
      <4> QED BY <3>1, <2>2, <4>1, <1>t DEF OneKind
    <3>4. Cleared'
      BY <3>1, <2>2, <2>3, <1>c, <1>t DEF Cleared
    <3> QED BY <3>2, <3>3, <3>4 DEF CallInv
  <2>5. CASE PickOne(j)
    <3>1. pc' = "tool"
      BY <2>5 DEF PickOne
    <3>2. Waiting'
      BY <3>1, <2>2, <1>w, <1>t DEF Waiting
    <3>3. OneKind'
      BY <3>1 DEF OneKind
    <3>4. Cleared'
      BY <3>1, <2>2, <2>3, <1>c, <1>t DEF Cleared
    <3> QED BY <3>2, <3>3, <3>4 DEF CallInv
  <2> QED BY <2>1, <2>4, <2>5
\* Steps on the single call at hand
<1>s. ASSUME calls' = calls, at' = at, last' = last, pc \in Single, pc' \in Single \ {"tool"},
             pc # "result",
             \/ stage' = stage /\ pc' # "result"
             \/ pc' = "result" /\ (\E how \in {"refused", "executed"} : stage' = [stage EXCEPT ![at] = how])
                /\ (pc = "invoke" \/ stage'[at] = "refused"),
             durable \subseteq durable',
             pc' = "invoke" /\ calls[at] \in Effects => at \in durable'
      PROVE  CallInv'
  <2>1. at \in DOMAIN calls /\ \A i \in DOMAIN calls : i >= at => stage[i] = "waiting"
    BY <1>s, <1>p, <1>w
  <2>2. \A i \in DOMAIN calls : i # at => stage'[i] = stage[i]
    BY <1>s, <1>t
  <2>3. Waiting'
    BY <1>s, <2>1, <2>2, <1>t DEF Waiting
  <2>4. OneKind'
    BY <1>s DEF OneKind
  <2>5. \A i \in DOMAIN calls : stage[i] # "executed"
    BY <1>s, <1>c
  <2>6. Cleared'
    <3>1. pc' # "invokes"
      BY <1>s
    <3>2. \A i \in DOMAIN calls : stage'[i] = "ready" => i \in durable'
      BY <1>s, <1>c, <2>1, <2>2, <1>t
    <3>3. ASSUME NEW i \in DOMAIN calls, stage'[i] = "executed"
          PROVE  pc' = "result" /\ i = at /\ (calls[i] \in Effects => i \in durable')
      <4>1. i = at
        BY <3>3, <2>2, <2>5
      <4>2. pc = "invoke" /\ pc' = "result"
        BY <3>3, <4>1, <2>5, <1>s
      <4> QED BY <4>1, <4>2, <1>c, <1>s
    <3> QED BY <1>s, <3>1, <3>2, <3>3 DEF Cleared
  <2> QED BY <2>3, <2>4, <2>6 DEF CallInv
<1>6. CASE GovernTool
  <2>1. /\ calls' = calls /\ at' = at /\ last' = last /\ durable' = durable /\ pc = "tool"
    BY <1>6 DEF GovernTool
  <2>2. CASE pc' = "verify"
    <3>1. stage' = stage
      BY <1>6, <2>2 DEF GovernTool
    <3>2. Waiting' /\ OneKind'
      BY <2>2 DEF Waiting, OneKind
    <3>3. Cleared'
      BY <2>1, <2>2, <3>1, <1>c DEF Cleared
    <3> QED BY <3>2, <3>3 DEF CallInv
  <2>3. CASE pc' # "verify"
    <3>1. /\ pc' \in {"result", "approval", "prepare"}
          /\ \/ stage' = stage /\ pc' # "result"
             \/ pc' = "result" /\ stage' = [stage EXCEPT ![at] = "refused"]
      BY <1>6, <2>3 DEF GovernTool, Guarded, Reported
    <3>2. at \in DOMAIN stage
      BY <2>1, <1>p, <1>t
    <3> QED BY <2>1, <3>1, <3>2, <1>s
  <2> QED BY <2>2, <2>3
<1>7. CASE Approval
  <2>1. /\ calls' = calls /\ at' = at /\ last' = last /\ durable' = durable /\ pc = "approval"
    BY <1>7 DEF Approval
  <2>2. /\ pc' \in {"result", "approval", "prepare"}
        /\ \/ stage' = stage /\ pc' # "result"
           \/ pc' = "result" /\ stage' = [stage EXCEPT ![at] = "refused"]
    BY <1>7 DEF Approval, Reported
  <2>3. at \in DOMAIN stage
    BY <2>1, <1>p, <1>t
  <2> QED BY <2>1, <2>2, <2>3, <1>s
<1>8. CASE Prepare
  <2>1. /\ calls' = calls /\ at' = at /\ last' = last /\ durable \subseteq durable' /\ pc = "prepare"
        /\ pc' = "invoke" /\ calls[at] \in Effects => at \in durable'
    BY <1>8 DEF Prepare
  <2>2. /\ pc' \in {"result", "invoke"}
        /\ \/ stage' = stage /\ pc' # "result"
           \/ pc' = "result" /\ stage' = [stage EXCEPT ![at] = "refused"]
    BY <1>8 DEF Prepare, Reported
  <2>3. at \in DOMAIN stage
    BY <2>1, <1>p, <1>t
  <2> QED BY <2>1, <2>2, <2>3, <1>s
<1>9. CASE Invoke
  <2>1. /\ calls' = calls /\ at' = at /\ last' = last /\ durable' = durable
        /\ pc = "invoke" /\ pc' = "result" /\ stage' = [stage EXCEPT ![at] = "executed"]
    BY <1>9 DEF Invoke, Execute, Reported
  <2> QED BY <2>1, <1>s
<1>10. CASE \E i \in DOMAIN calls : Checkpoint(i)
  <2>1. PICK i \in DOMAIN calls : Checkpoint(i)
    BY <1>10
  <2>2. /\ calls' = calls /\ at' = at /\ last' = last /\ pc = "checkpoints" /\ pc' = pc
        /\ durable \subseteq durable' /\ i \in at..last /\ stage[i] = "waiting"
    BY <2>1 DEF Checkpoint
  <2>3. PICK how \in {"ready", "refused"} :
          stage' = [stage EXCEPT ![i] = how] /\ (how = "ready" => i \in durable')
    BY <2>1 DEF Checkpoint
  <2>4. Waiting'
    BY <2>2, <2>3, <1>w, <1>t, <1>p DEF Waiting
  <2>5. OneKind'
    BY <2>2, <2>3, <1>k, <1>t DEF OneKind
  <2>6. Cleared'
    BY <2>2, <2>3, <1>c, <1>t DEF Cleared
  <2> QED BY <2>4, <2>5, <2>6 DEF CallInv
<1>11. CASE \E i \in DOMAIN calls : InvokeInBatch(i)
  <2>1. PICK i \in DOMAIN calls : InvokeInBatch(i)
    BY <1>11
  <2>2. /\ calls' = calls /\ at' = at /\ last' = last /\ pc = "invokes" /\ pc' = pc
        /\ durable' = durable /\ i \in at..last
    BY <2>1 DEF InvokeInBatch
  <2>3. PICK how \in {"executed", "refused"} : stage' = [stage EXCEPT ![i] = how]
    BY <2>1 DEF InvokeInBatch, Execute, Reported
  <2>4. Waiting'
    BY <2>2, <2>3, <1>w, <1>t, <1>p DEF Waiting
  <2>5. OneKind'
    BY <2>2, <2>3, <1>k, <1>t DEF OneKind
  <2>6. calls[i] \in Effects => i \in durable
    BY <2>2, <1>k, <1>c DEF Effects
  <2>7. Cleared'
    BY <2>2, <2>3, <2>6, <1>c, <1>t DEF Cleared
  <2> QED BY <2>4, <2>5, <2>7 DEF CallInv
<1>12. CASE BatchGate
  <2>1. /\ calls' = calls /\ at' = at /\ last' = last /\ pc = "checkpoints" /\ durable' = durable
        /\ \A i \in at..last : stage[i] # "waiting"
    BY <1>12 DEF BatchGate
  <2>2. CASE \E i \in at..last : stage[i] = "refused"
    <3>1. /\ pc' = "results"
          /\ stage' = [i \in DOMAIN stage |-> IF i \in at..last THEN "refused" ELSE stage[i]]
      BY <1>12, <2>2 DEF BatchGate
    <3>2. Waiting'
      BY <2>1, <3>1, <1>w, <1>t, <1>p DEF Waiting
    <3>3. OneKind'
      BY <2>1, <3>1, <1>k DEF OneKind
    <3>4. Cleared'
      BY <2>1, <3>1, <1>c, <1>t DEF Cleared
    <3> QED BY <3>2, <3>3, <3>4 DEF CallInv
  <2>3. CASE ~\E i \in at..last : stage[i] = "refused"
    <3>1. pc' = "invokes" /\ stage' = stage
      BY <1>12, <2>3 DEF BatchGate
    <3>2. at..last \subseteq durable
      <4>1. ASSUME NEW i \in at..last PROVE i \in DOMAIN calls /\ stage[i] = "ready"
        BY <2>1, <2>3, <1>k, <1>p, <1>t
      <4> QED BY <4>1, <1>c
    <3>3. Waiting'
      BY <2>1, <3>1, <1>w DEF Waiting
    <3>4. OneKind'
      BY <2>1, <3>1, <1>k DEF OneKind
    <3>5. Cleared'
      BY <2>1, <3>1, <3>2, <1>c, <1>t DEF Cleared
    <3> QED BY <3>3, <3>4, <3>5 DEF CallInv
  <2> QED BY <2>2, <2>3
<1>13. CASE BatchDone
  <2>1. /\ calls' = calls /\ stage' = stage /\ at' = at /\ last' = last /\ durable' = durable
        /\ pc = "invokes" /\ pc' = "results"
    BY <1>13 DEF BatchDone, callVars
  <2> QED BY <2>1, <1>w, <1>k, <1>c DEF CallInv, Waiting, OneKind, Cleared
<1>14. CASE \E blocked \in BOOLEAN : TakeResult(blocked)
  <2>1. /\ calls' = calls /\ at' = at + 1 /\ last' = last /\ durable' = durable
        /\ pc \in {"result", "results"}
        /\ stage' = [stage EXCEPT ![at] = "answered"]
    BY <1>14 DEF TakeResult
  <2>2. \/ pc = "results" /\ at < last /\ pc' = "results"
        \/ pc = "result" /\ at < last /\ pc' = "tool"
        \/ pc = "result" /\ pc' \in {"verify", "pick"}
        \/ pc = "results" /\ ~(at < last) /\ pc' \in {"verify", "pick"}
    BY <1>14 DEF TakeResult
  <2>3. at \in DOMAIN calls /\ last \in DOMAIN calls /\ at <= last
    BY <2>1, <1>p
  <2>4. Waiting'
    BY <2>1, <2>2, <2>3, <1>w, <1>t DEF Waiting
  <2>5. OneKind'
    BY <2>1, <2>2, <2>3, <1>k, <1>t DEF OneKind
  <2>6. Cleared'
    <3>1. \A i \in DOMAIN calls : i # at => stage'[i] = stage[i]
      BY <2>1, <1>t
    <3>2. stage'[at] = "answered"
      BY <2>1, <2>3, <1>t
    <3>3. \A i \in DOMAIN calls : stage'[i] = "ready" => i \in durable
      BY <3>1, <3>2, <1>c
    <3>4. ASSUME NEW i \in DOMAIN calls, stage'[i] = "executed"
          PROVE  pc' = "results" /\ i \in at'..last' /\ (calls[i] \in Effects => i \in durable)
      <4>1. i # at /\ stage[i] = "executed"
        BY <3>1, <3>2, <3>4
      <4>2. pc = "results" /\ i \in at..last /\ (calls[i] \in Effects => i \in durable)
        BY <4>1, <2>1, <1>c
      <4>3. at < last
        BY <4>1, <4>2, <1>t, <2>3
      <4> QED BY <4>1, <4>2, <4>3, <2>1, <2>2, <1>t
    <3> QED BY <2>1, <2>2, <3>3, <3>4 DEF Cleared
  <2> QED BY <2>4, <2>5, <2>6 DEF CallInv
<1>15. CASE EndStep
  <2>1. calls' = <<>> /\ stage' = <<>> /\ pc' \in {"top", "verify"}
    BY <1>15 DEF EndStep, Guarded
  <2> QED BY <2>1 DEF CallInv, Waiting, OneKind, Cleared
<1> QED BY <1>1, <1>2, <1>3, <1>4, <1>5, <1>6, <1>7, <1>8, <1>9, <1>10, <1>11, <1>12, <1>13, <1>14,
           <1>15, NextShapes DEF ToolStep

\* The three invariants about tool calls hold together.
LEMMA CallsHold == Spec => [](HistoryInv /\ CallInv /\ ApprovalInv)
<1>1. Init => HistoryInv /\ CallInv /\ ApprovalInv
  BY CallInvInit DEF Init, HistoryInv, ApprovalInv
<1>2. TypeOK /\ HistoryInv /\ CallInv /\ ApprovalInv /\ [Next]_vars
        => HistoryInv' /\ CallInv' /\ ApprovalInv'
  BY HistoryStep, CallStep, ApprovalStep
<1> QED BY <1>1, <1>2, TypeHolds, PTL DEF Spec

\* Whatever a batch, a refused checkpoint, a late approval or a cancellation do
\* to each other: no side effect without its checkpoint, none of a batch without
\* all of them, and no call that must be asked for without the user's consent.
THEOREM EffectsAreAlwaysCleared == Spec => []EffectsAreCleared
<1>1. TypeOK /\ CallInv /\ ApprovalInv => EffectsAreCleared
  <2> SUFFICES ASSUME TypeOK, CallInv, ApprovalInv PROVE CheckpointFirst /\ AskedTools
    BY DEF EffectsAreCleared
  <2>1. AskedTools
    BY DEF ApprovalInv, AskedTools
  <2>2. ASSUME NEW i \in DOMAIN calls, stage[i] = "executed", calls[i] \in Effects
        PROVE  i \in durable /\ (pc = "invokes" => at..last \subseteq durable)
    <3>1. i \in durable
      BY <2>2 DEF CallInv, Cleared
    <3>2. ASSUME pc = "invokes" PROVE at..last \subseteq durable
      <4>1. i \in at..last
        BY <2>2, <3>2 DEF CallInv, Cleared
      <4>2. calls[i] = calls[at] /\ calls[i] # "check"
        BY <3>2, <4>1 DEF CallInv, OneKind, Batch
      <4>3. calls[at] = "write"
        BY <2>2, <4>2 DEF Effects
      <4> QED BY <3>2, <4>3 DEF CallInv, Cleared
    <3> QED BY <3>1, <3>2
  <2> QED BY <2>1, <2>2 DEF CheckpointFirst
<1> QED BY <1>1, TypeHolds, CallsHold, PTL

-----------------------------------------------------------------------------
(* The tool budget *)

\* What the governor allows is within the limit.
LEMMA GovernorAllows ==
    ASSUME NEW n \in Nat, NEW f, NEW b, Governor(n, f, b) = "Allow", MaxToolCalls > 0
    PROVE  n <= MaxToolCalls
<1>1. MaxToolCalls \in Nat
  BY LoopAssumption
<1>2. ~(n > MaxToolCalls)
  BY DEF Governor
<1> QED BY <1>1, <1>2

\* What is carried out or given up was counted, and what is counted is allowed.
LEMMA Ledger ==
    ASSUME NEW e \in Nat, NEW o \in Nat, NEW t \in Nat, e + o <= t, NEW p \in Nat
    PROVE  /\ p <= o => e + p <= t
           /\ p = o - 1 => e + p <= t /\ e + 1 + p <= t
           /\ p <= 1 => e + p <= t + 1
           /\ t + p \in Nat
OBVIOUS

\* The calls that still have to be answered can be counted.
LEMMA PendingFinite ==
    ASSUME CallTypes
    PROVE  IsFiniteSet(Pending) /\ Cardinality(Pending) \in Nat /\ Owed \in Nat
<1>1. at \in Int /\ last \in Int
  BY DEF CallTypes
<1>2. IsFiniteSet(at..last)
  BY <1>1, FS_Interval
<1>3. Pending \subseteq at..last
  BY DEF Pending
<1>4. IsFiniteSet(Pending) /\ Cardinality(Pending) \in Nat
  BY <1>2, <1>3, FS_Subset, FS_CardinalityType
<1> QED BY <1>4 DEF Owed

\* Every step keeps the calls made and the calls owed within the budget.
LEMMA BudgetStep ==
    ASSUME TypeOK, TypeOK', BudgetInv, [Next]_vars
    PROVE  BudgetInv'
<1>t. /\ toolCalls \in Nat /\ executed \in Nat /\ toolCalls' \in Nat /\ executed' \in Nat
      /\ at \in Nat /\ last \in Nat /\ stage \in [DOMAIN calls -> Stages]
      /\ calls \in Seq(Kinds) /\ DOMAIN calls = 1..Len(calls) /\ Len(calls) \in Nat
  BY DEF TypeOK, TaskTypes, CallTypes
<1>p. pc \in Single \cup Batch => at \in DOMAIN calls /\ last \in DOMAIN calls /\ at <= last
  BY DEF TypeOK, CallTypes
<1>f. IsFiniteSet(Pending) /\ Cardinality(Pending) \in Nat /\ Owed \in Nat
  BY PendingFinite DEF TypeOK
<1>f2. Owed' \in Nat /\ IsFiniteSet(Pending') /\ Cardinality(Pending') \in Nat
  <2>1. at' \in Int /\ last' \in Int
    BY DEF TypeOK, CallTypes
  <2>2. IsFiniteSet(at'..last')
    BY <2>1, FS_Interval
  <2>3. Pending' \subseteq at'..last'
    BY DEF Pending
  <2>4. IsFiniteSet(Pending') /\ Cardinality(Pending') \in Nat
    BY <2>2, <2>3, FS_Subset, FS_CardinalityType
  <2> QED BY <2>4 DEF Owed
<1>h. /\ executed + Owed <= toolCalls
      /\ MaxToolCalls > 0 => toolCalls <= MaxToolCalls
  BY DEF BudgetInv
<1>n. toolCalls \in Nat /\ executed \in Nat /\ toolCalls' \in Nat /\ executed' \in Nat
  BY <1>t
<1>o. executed + Owed <= toolCalls /\ Owed \in Nat
  BY <1>h, <1>f
<1>o2. Owed' \in Nat
  BY <1>f2
<1> USE DEF Batch, Single, Thinking, counts, ghosts
\* Steps that carry nothing out and leave nothing owed
<1>z. ASSUME toolCalls' = toolCalls, executed' = executed,
             pc' \notin {"approval", "prepare", "invoke", "checkpoints", "invokes"}
      PROVE  BudgetInv'
  <2>1. Owed' = 0
    BY <1>z DEF Owed
  <2> QED BY <2>1, <1>z, <1>t, <1>f, <1>h DEF BudgetInv
<1>s. ASSUME toolCalls' = toolCalls, executed' = executed, Owed' <= Owed
      PROVE  BudgetInv'
  <2>1. executed' + Owed' <= toolCalls'
    BY <1>s, <1>n, <1>o, <1>o2, Ledger
  <2> QED BY <1>s, <2>1, <1>h DEF BudgetInv
<1>1. CASE Apart
  <2>1. toolCalls' = toolCalls /\ executed' = executed
    BY <1>1 DEF Apart
  <2>2. CASE pc' = pc
    <3>1. Owed' = Owed
      BY <1>1, <2>2 DEF Apart, callVars, Owed, Pending
    <3> QED BY <2>1, <3>1, <1>s, <1>f
  <2>3. CASE pc' # pc
    BY <1>1, <2>1, <2>3, <1>z DEF Apart
  <2> QED BY <2>2, <2>3
<1>2. CASE SettleAgain \/ SettleCandidate \/ Verify \/ Judge
  <2>1. /\ toolCalls' = toolCalls /\ executed' = executed
        /\ pc' \in {"top", "verify", "judge", "done"}
    BY <1>2 DEF SettleAgain, SettleCandidate, Verify, Judge, Correct, Finish
  <2> QED BY <2>1, <1>z
<1>3. CASE \E id \in 1..asked, decision \in {"once", "session", "deny"} : Answer(id, decision)
  <2>1. /\ toolCalls' = toolCalls /\ executed' = executed /\ pc' = pc /\ UNCHANGED callVars
    BY <1>3 DEF Answer
  <2>2. Owed' = Owed
    BY <2>1 DEF callVars, Owed, Pending
  <2> QED BY <2>1, <2>2, <1>s, <1>f
<1>4. CASE \E cs \in CallLists : RespondTools(cs)
  BY <1>4, <1>z DEF RespondTools, Responded
<1>5. CASE \E j \in DOMAIN calls : PickBatch(j)
  <2>1. PICK j \in DOMAIN calls : PickBatch(j)
    BY <1>5
  <2>2. /\ j \in at + 1 .. Len(calls) /\ at' = at /\ last' = j /\ executed' = executed
        /\ toolCalls' = toolCalls + (j - at + 1)
        /\ \A k \in at..j : Governor(toolCalls + (k - at + 1), 0, FALSE) = "Allow"
        /\ pc' \in {"checkpoints", "invokes"}
    BY <2>1 DEF PickBatch
  <2>3. Pending' \subseteq at..j
    BY <2>2 DEF Pending
  <2>4. IsFiniteSet(at..j) /\ Cardinality(at..j) = j - at + 1
    <3>1. at \in Int /\ j \in Int /\ at <= j
      BY <2>2, <1>t
    <3> QED BY <3>1, FS_Interval
  <2>5. Cardinality(Pending') <= j - at + 1
    BY <2>3, <2>4, FS_Subset, ZenonT(60)
  <2>6. Owed' <= j - at + 1
    BY <2>2, <2>5 DEF Owed
  <2>7. executed <= toolCalls
    BY <1>t, <1>f, <1>h
  <2>8. executed' + Owed' <= toolCalls'
    BY <2>2, <2>6, <2>7, <1>t, <1>f2
  <2>9. MaxToolCalls > 0 => toolCalls' <= MaxToolCalls
    <3>1. Governor(toolCalls + (j - at + 1), 0, FALSE) = "Allow" /\ toolCalls + (j - at + 1) \in Nat
      <4>1. j \in at..j /\ j - at + 1 \in Nat
        BY <2>2, <1>t
      <4>2. Governor(toolCalls + (j - at + 1), 0, FALSE) = "Allow"
        BY <2>2, <4>1
      <4>3. toolCalls + (j - at + 1) \in Nat
        BY <4>1, <1>n, <1>o, Ledger
      <4> QED BY <4>2, <4>3
    <3> QED BY <2>2, <3>1, GovernorAllows
  <2> QED BY <2>8, <2>9 DEF BudgetInv
<1>6. CASE \E j \in DOMAIN calls : PickOne(j)
  BY <1>6, <1>z DEF PickOne
<1>7. CASE \E i \in DOMAIN calls : Checkpoint(i)
  <2>1. PICK i \in DOMAIN calls : Checkpoint(i)
    BY <1>7
  <2>2. /\ toolCalls' = toolCalls /\ executed' = executed /\ pc = "checkpoints" /\ pc' = pc
        /\ at' = at /\ last' = last /\ stage[i] = "waiting"
        /\ \E how \in {"ready", "refused"} : stage' = [stage EXCEPT ![i] = how]
    BY <2>1 DEF Checkpoint
  <2>3. Pending' \subseteq Pending
    BY <2>2, <1>t DEF Pending
  <2>4. Cardinality(Pending') <= Cardinality(Pending)
    BY <2>3, <1>f, FS_Subset
  <2>5. Owed' <= Owed
    BY <2>2, <2>4 DEF Owed
  <2> QED BY <2>2, <2>5, <1>s
<1>8. CASE \E i \in DOMAIN calls : InvokeInBatch(i)
  <2>1. PICK i \in DOMAIN calls : InvokeInBatch(i)
    BY <1>8
  <2>2. /\ toolCalls' = toolCalls /\ pc = "invokes" /\ pc' = pc
        /\ at' = at /\ last' = last /\ i \in at..last /\ stage[i] \in {"waiting", "ready"}
    BY <2>1 DEF InvokeInBatch
  <2>3. \E how \in {"executed", "refused"} : stage' = [stage EXCEPT ![i] = how]
    BY <2>1 DEF InvokeInBatch, Execute, Reported
  <2>4. executed' = executed \/ executed' = executed + 1
    BY <2>1 DEF InvokeInBatch, Execute
  <2>5. i \in Pending /\ Pending' = Pending \ {i}
    <3>1. i \in Pending
      BY <2>2 DEF Pending
    <3>2. \A k \in DOMAIN calls : k # i => stage'[k] = stage[k]
      BY <2>3, <1>t
    <3>3. stage'[i] \notin {"waiting", "ready"}
      BY <2>3, <1>t
    <3>4. at..last \subseteq DOMAIN calls
      BY <2>2, <1>p, <1>t
    <3> QED BY <2>2, <3>1, <3>2, <3>3, <3>4 DEF Pending
  <2>6. Cardinality(Pending') = Cardinality(Pending) - 1
    BY <2>5, <1>f, FS_RemoveElement
  <2>7. Owed' = Owed - 1
    BY <2>2, <2>6 DEF Owed
  <2>8. executed' + Owed' <= toolCalls'
    <3>1. executed + Owed' <= toolCalls /\ executed + 1 + Owed' <= toolCalls
      BY <2>7, <1>n, <1>o, <1>o2, Ledger
    <3> QED BY <2>2, <2>4, <3>1
  <2> QED BY <2>2, <2>8, <1>h DEF BudgetInv
<1>9. CASE GovernTool
  <2>1. executed' = executed /\ pc = "tool"
    BY <1>9 DEF GovernTool
  <2>2. CASE toolCalls' = toolCalls /\ pc' = "verify"
    BY <2>1, <2>2, <1>z
  <2>3. CASE /\ Governor(toolCalls + 1, 0, FALSE) = "Allow" /\ toolCalls' = toolCalls + 1
             /\ pc' \in {"result", "approval", "prepare"}
    <3>1. Owed' <= 1
      BY <2>3 DEF Owed
    <3>2. MaxToolCalls > 0 => toolCalls' <= MaxToolCalls
      BY <2>3, <1>t, GovernorAllows
    <3>3. executed' + Owed' <= toolCalls'
      BY <2>1, <2>3, <3>1, <1>n, <1>o, <1>o2, Ledger
    <3> QED BY <3>2, <3>3 DEF BudgetInv
  <2> QED BY <1>9, <2>2, <2>3 DEF GovernTool, Guarded
<1>10. CASE Approval \/ Prepare
  <2>1. /\ toolCalls' = toolCalls /\ executed' = executed /\ pc \in {"approval", "prepare"}
        /\ pc' \in {"result", "approval", "prepare", "invoke"}
    BY <1>10 DEF Approval, Prepare
  <2>2. Owed = 1 /\ Owed' <= 1
    BY <2>1 DEF Owed
  <2> QED BY <2>1, <2>2, <1>s
<1>11. CASE Invoke
  <2>1. toolCalls' = toolCalls /\ executed' = executed + 1 /\ pc = "invoke" /\ pc' = "result"
    BY <1>11 DEF Invoke, Execute
  <2>2. Owed = 1 /\ Owed' = 0
    BY <2>1 DEF Owed
  <2> QED BY <2>1, <2>2, <1>t, <1>h DEF BudgetInv
<1>12. CASE BatchGate
  <2>1. toolCalls' = toolCalls /\ executed' = executed /\ pc = "checkpoints" /\ at' = at /\ last' = last
    BY <1>12 DEF BatchGate
  <2>2. CASE pc' = "results"
    BY <2>1, <2>2, <1>z
  <2>3. CASE pc' = "invokes" /\ stage' = stage
    <3>1. Owed' = Owed
      BY <2>1, <2>3 DEF Owed, Pending
    <3> QED BY <2>1, <3>1, <1>s, <1>f
  <2> QED BY <1>12, <2>2, <2>3 DEF BatchGate
<1>13. CASE BatchDone \/ EndStep
  BY <1>13, <1>z DEF BatchDone, EndStep, Guarded
<1>14. CASE \E blocked \in BOOLEAN : TakeResult(blocked)
  BY <1>14, <1>z DEF TakeResult
<1> QED BY <1>1, <1>2, <1>3, <1>4, <1>5, <1>6, <1>7, <1>8, <1>9, <1>10, <1>11, <1>12, <1>13, <1>14,
           NextShapes DEF ToolStep

\* Over all turns, batches and corrections no more tools run than the limit
\* allows, and no provider is asked more often than the policy says.
THEOREM BudgetsAlwaysHold == Spec => []BudgetsHold
<1>1. Init => BudgetInv
  <2> SUFFICES ASSUME Init PROVE BudgetInv
    OBVIOUS
  <2>1. executed = 0 /\ toolCalls = 0 /\ pc = "top"
    BY DEF Init
  <2>2. Owed = 0
    BY <2>1 DEF Owed
  <2> QED BY <2>1, <2>2, LoopAssumption DEF BudgetInv
<1>2. TypeOK /\ TypeOK' /\ BudgetInv /\ [Next]_vars => BudgetInv'
  BY BudgetStep
<1>3. TypeOK /\ BudgetInv => ToolBudget
  <2> SUFFICES ASSUME TypeOK, BudgetInv, MaxToolCalls > 0 PROVE executed <= MaxToolCalls
    BY DEF ToolBudget
  <2>1. Owed \in Nat
    BY PendingFinite DEF TypeOK
  <2>2. executed \in Nat /\ toolCalls \in Nat /\ MaxToolCalls \in Nat
    BY LoopAssumption DEF TypeOK, TaskTypes
  <2> QED BY <2>1, <2>2 DEF BudgetInv
<1>4. RetriesAreShared /\ ToolBudget => BudgetsHold
  BY DEF BudgetsHold
<1> QED BY <1>1, <1>2, <1>3, <1>4, TypeHolds, RetriesAreBounded, PTL DEF Spec

-----------------------------------------------------------------------------
(* The reports, and what verification sees of them *)

\* The list of reports keeps its shape with one more.
LEMMA OwnAppend ==
    ASSUME NEW s \in Seq(Reports), OwnOrLast(s, FALSE), NEW r \in Reports,
           r.changed => r.kind = "write"
    PROVE  /\ OwnOrLast(Append(s, r), TRUE)
           /\ r.kind # "verifier" => OwnOrLast(Append(s, r), FALSE)
<1> DEFINE t == Append(s, r)
<1>1. /\ t \in Seq(Reports) /\ Len(t) = Len(s) + 1 /\ t[Len(s) + 1] = r
      /\ \A i \in 1..Len(s) : t[i] = s[i]
  BY AppendType
<1>2. DOMAIN t = 1..Len(s) + 1 /\ DOMAIN s = 1..Len(s) /\ Len(s) \in Nat
  BY <1>1
<1>3. \A i \in DOMAIN t : i = Len(s) + 1 \/ i \in DOMAIN s
  BY <1>2
<1> HIDE DEF t
<1>4. OwnOrLast(t, TRUE)
  BY <1>1, <1>2, <1>3 DEF OwnOrLast
<1>5. r.kind # "verifier" => OwnOrLast(t, FALSE)
  BY <1>1, <1>2, <1>3 DEF OwnOrLast
<1> QED BY <1>4, <1>5 DEF t

\* A change that is reported is stale until a validation passes.
LEMMA StaleAppend ==
    ASSUME NEW s \in Seq(Reports), NEW r \in Reports
    PROVE  /\ r.changed => Stale(Append(s, r))
           /\ Stale(s) /\ ~(r.kind \in {"check", "verifier"} /\ r.ok) => Stale(Append(s, r))
<1> DEFINE t == Append(s, r)
<1>1. /\ t \in Seq(Reports) /\ Len(t) = Len(s) + 1 /\ t[Len(s) + 1] = r
      /\ \A i \in 1..Len(s) : t[i] = s[i]
  BY AppendType
<1>2. DOMAIN t = 1..Len(s) + 1 /\ DOMAIN s = 1..Len(s) /\ Len(s) \in Nat
  BY <1>1
<1>3. \A i \in DOMAIN t : i = Len(s) + 1 \/ i \in DOMAIN s
  BY <1>2
<1>4. DOMAIN s \subseteq DOMAIN t /\ Len(s) + 1 \in DOMAIN t
  BY <1>2
<1> HIDE DEF t
<1>5. r.changed => Stale(t)
  BY <1>1, <1>2, <1>4 DEF Stale
<1>6. ASSUME Stale(s), ~(r.kind \in {"check", "verifier"} /\ r.ok) PROVE Stale(t)
  <2>1. PICK i \in DOMAIN s :
          /\ s[i].changed
          /\ \A j \in DOMAIN s : j > i => ~(s[j].kind \in {"check", "verifier"} /\ s[j].ok)
    BY <1>6 DEF Stale
  <2>2. i \in DOMAIN t /\ t[i].changed
    BY <1>1, <1>2, <1>4, <2>1
  <2>3. ASSUME NEW j \in DOMAIN t, j > i PROVE ~(t[j].kind \in {"check", "verifier"} /\ t[j].ok)
    BY <1>1, <1>2, <1>3, <1>6, <2>1, <2>3
  <2> QED BY <2>2, <2>3 DEF Stale
<1> QED BY <1>5, <1>6 DEF t

\* A correction takes the verifier's report away and no change with it.
LEMMA CorrectedReports ==
    ASSUME reports \in Seq(Reports), OwnOrLast(reports, TRUE)
    PROVE  OwnOrLast(OwnReports, FALSE) /\ (Stale(reports) => Stale(OwnReports))
<1>1. DOMAIN reports = 1..Len(reports) /\ Len(reports) \in Nat
  OBVIOUS
<1>2. CASE reports # <<>> /\ Last(reports).kind = "verifier"
  <2> DEFINE t == SubSeq(reports, 1, Len(reports) - 1)
  <2>1. OwnReports = t /\ reports[Len(reports)].kind = "verifier" /\ Len(reports) > 0
    BY <1>1, <1>2 DEF OwnReports, Front, Last
  <2>2. /\ DOMAIN t = 1..Len(reports) - 1 /\ Len(t) = Len(reports) - 1
        /\ \A i \in DOMAIN t : t[i] = reports[i]
    BY <1>1, <2>1
  <2> HIDE DEF t
  <2>3. \A i \in DOMAIN t : i \in DOMAIN reports /\ i # Len(reports)
    BY <1>1, <2>2
  <2>4. OwnOrLast(t, FALSE)
    BY <2>2, <2>3 DEF OwnOrLast
  <2>5. ASSUME Stale(reports) PROVE Stale(t)
    <3>1. PICK i \in DOMAIN reports :
            /\ reports[i].changed
            /\ \A j \in DOMAIN reports : j > i => ~(reports[j].kind \in {"check", "verifier"} /\ reports[j].ok)
      BY <2>5 DEF Stale
    <3>2. i # Len(reports)
      BY <2>1, <3>1 DEF OwnOrLast
    <3>3. i \in DOMAIN t
      BY <1>1, <2>2, <3>2
    <3> QED BY <2>2, <2>3, <3>1, <3>3 DEF Stale
  <2> QED BY <2>1, <2>4, <2>5
<1>3. CASE ~(reports # <<>> /\ Last(reports).kind = "verifier")
  <2>1. OwnReports = reports
    BY <1>3 DEF OwnReports
  <2>2. OwnOrLast(reports, FALSE)
    BY <1>1, <1>3 DEF OwnOrLast, Last
  <2> QED BY <2>1, <2>2
<1> QED BY <1>2, <1>3

\* Stale reports are no reason to pass.
LEMMA StaleFails ==
    ASSUME reports \in Seq(Reports), OwnOrLast(reports, TRUE), Stale(reports)
    PROVE  Changed /\ ~(Checks # {} /\ \A i \in Checks : Passed(i))
<1>1. DOMAIN reports = 1..Len(reports) /\ Len(reports) \in Nat
  OBVIOUS
<1>2. PICK i \in DOMAIN reports :
        /\ reports[i].changed
        /\ \A j \in DOMAIN reports : j > i => ~(reports[j].kind \in {"check", "verifier"} /\ reports[j].ok)
  BY DEF Stale
<1>3. ASSUME NEW c \in Checks, Passed(c) PROVE FALSE
  <2>1. c \in DOMAIN reports /\ reports[c].kind \in {"check", "verifier"} /\ reports[c].ok
    BY <1>3 DEF Checks, Passed
  <2>2. ~(c > i)
    BY <1>2, <2>1
  <2>3. c # i
    BY <1>2, <2>1 DEF OwnOrLast
  <2>4. i \in c + 1 .. Len(reports)
    BY <1>1, <2>1, <2>2, <2>3
  <2>5. ~reports[i].changed
    BY <1>3, <2>4 DEF Passed, ValidationIsCurrent
  <2> QED BY <1>2, <2>5
<1> QED BY <1>2, <1>3 DEF Changed

\* What a step does to calls, stages and results, apart from the two steps that
\* carry calls out and the one that takes their results
LEMMA ResultStep ==
    ASSUME TypeOK, CallInv, ResultInv, [Next]_vars
    PROVE  ResultInv'
<1>t. /\ calls \in Seq(Kinds) /\ stage \in [DOMAIN calls -> Stages]
      /\ result \in [DOMAIN calls -> Reports]
      /\ pc \in Single \cup Batch => at \in DOMAIN calls
  BY DEF TypeOK, CallTypes
<1>h. \A i \in DOMAIN calls :
        IF stage[i] = "executed" THEN result[i] \in Outcomes(calls[i]) ELSE result[i] = NoReport
  BY DEF ResultInv
<1> USE DEF Single, Batch
<1>q. ASSUME calls' = calls, stage' = stage, result' = result PROVE ResultInv'
  BY <1>q, <1>h DEF ResultInv
\* One call gets a report that says what happened to it.
<1>r. ASSUME calls' = calls, NEW i \in DOMAIN calls, NEW r, NEW how, Reported(i, r, how),
             IF how = "executed" THEN r \in Outcomes(calls[i]) ELSE r = NoReport
      PROVE  ResultInv'
  <2>1. stage'[i] = how /\ result'[i] = r
    BY <1>r, <1>t DEF Reported
  <2>2. \A k \in DOMAIN calls : k # i => stage'[k] = stage[k] /\ result'[k] = result[k]
    BY <1>r, <1>t DEF Reported
  <2>3. ASSUME NEW k \in DOMAIN calls
        PROVE  IF stage'[k] = "executed" THEN result'[k] \in Outcomes(calls[k]) ELSE result'[k] = NoReport
    BY <2>1, <2>2, <1>r, <1>h
  <2> QED BY <1>r, <2>3 DEF ResultInv
<1>1. CASE Apart
  BY <1>1, <1>q DEF Apart, callVars
<1>2. CASE SettleAgain \/ SettleCandidate \/ Verify \/ Judge
  BY <1>2, <1>q DEF SettleAgain, SettleCandidate, Verify, Judge, callVars
<1>3. CASE \E id \in 1..asked, decision \in {"once", "session", "deny"} : Answer(id, decision)
  BY <1>3, <1>q DEF Answer, callVars
<1>4. CASE \E cs \in CallLists : RespondTools(cs)
  <2>1. PICK cs \in CallLists : RespondTools(cs)
    BY <1>4
  <2>2. /\ calls' = cs /\ stage' = [i \in DOMAIN cs |-> "waiting"]
        /\ result' = [i \in DOMAIN cs |-> NoReport]
    BY <2>1 DEF RespondTools
  <2>3. \A i \in DOMAIN calls' : stage'[i] # "executed" /\ result'[i] = NoReport
    BY <2>2
  <2> QED BY <2>3 DEF ResultInv
<1>5. CASE \E j \in DOMAIN calls : PickBatch(j) \/ PickOne(j)
  BY <1>5, <1>q DEF PickBatch, PickOne
<1>6. CASE \E i \in DOMAIN calls : Checkpoint(i)
  <2>1. PICK i \in DOMAIN calls : Checkpoint(i)
    BY <1>6
  <2>2. calls' = calls /\ result' = result /\ stage[i] = "waiting"
    BY <2>1 DEF Checkpoint
  <2>3. PICK how \in {"ready", "refused"} : stage' = [stage EXCEPT ![i] = how]
    BY <2>1 DEF Checkpoint
  <2>4. Reported(i, NoReport, how)
    BY <2>2, <2>3, <1>h, <1>t DEF Reported
  <2> QED BY <2>2, <2>3, <2>4, <1>r
<1>7. CASE \E i \in DOMAIN calls : InvokeInBatch(i)
  <2>1. PICK i \in DOMAIN calls : InvokeInBatch(i)
    BY <1>7
  <2>2. calls' = calls
    BY <2>1 DEF InvokeInBatch
  <2>3. CASE Reported(i, NoReport, "refused")
    BY <2>2, <2>3, <1>r
  <2>4. CASE \E r \in Outcomes(calls[i]) : Reported(i, r, "executed")
    BY <2>2, <2>4, <1>r
  <2> QED BY <2>1, <2>3, <2>4 DEF InvokeInBatch, Execute
<1>8. CASE GovernTool \/ Approval \/ Prepare
  <2>1. calls' = calls /\ at \in DOMAIN calls
    BY <1>8, <1>t DEF GovernTool, Approval, Prepare
  <2>2. CASE stage' = stage /\ result' = result
    BY <2>1, <2>2, <1>q
  <2>3. CASE Reported(at, NoReport, "refused")
    BY <2>1, <2>3, <1>r
  <2> QED BY <1>8, <2>2, <2>3 DEF GovernTool, Approval, Prepare
<1>9. CASE Invoke
  <2>1. calls' = calls /\ at \in DOMAIN calls
    BY <1>9, <1>t DEF Invoke
  <2>2. PICK r \in Outcomes(calls[at]) : Reported(at, r, "executed")
    BY <1>9 DEF Invoke, Execute
  <2> QED BY <2>1, <2>2, <1>r
<1>10. CASE BatchGate
  <2>1. calls' = calls /\ result' = result /\ pc = "checkpoints"
    BY <1>10 DEF BatchGate
  <2>2. CASE stage' = stage
    BY <2>1, <2>2, <1>q
  <2>3. CASE stage' = [i \in DOMAIN stage |-> IF i \in at..last THEN "refused" ELSE stage[i]]
    <3>1. \A i \in at..last : stage[i] # "executed"
      BY <2>1 DEF CallInv, OneKind
    <3>2. ASSUME NEW i \in DOMAIN calls
          PROVE  IF stage'[i] = "executed" THEN result'[i] \in Outcomes(calls[i]) ELSE result'[i] = NoReport
      BY <2>1, <2>3, <3>1, <1>h, <1>t
    <3> QED BY <2>1, <3>2 DEF ResultInv
  <2> QED BY <1>10, <2>2, <2>3 DEF BatchGate
<1>11. CASE BatchDone
  BY <1>11, <1>q DEF BatchDone, callVars
<1>12. CASE \E blocked \in BOOLEAN : TakeResult(blocked)
  <2>1. calls' = calls /\ at \in DOMAIN calls /\ Reported(at, NoReport, "answered")
    BY <1>12, <1>t DEF TakeResult, Reported
  <2> QED BY <2>1, <1>r
<1>13. CASE EndStep
  <2>1. calls' = <<>>
    BY <1>13 DEF EndStep
  <2> QED BY <2>1 DEF ResultInv
<1> QED BY <1>1, <1>2, <1>3, <1>4, <1>5, <1>6, <1>7, <1>8, <1>9, <1>10, <1>11, <1>12, <1>13,
           NextShapes DEF ToolStep

\* What a taken result may look like
LEMMA ResultKinds ==
    ASSUME TypeOK, ResultInv, NEW i \in DOMAIN calls
    PROVE  /\ result[i] \in Reports /\ result[i].kind # "verifier"
           /\ result[i].changed => stage[i] = "executed" /\ result[i].kind = "write"
           /\ result[i].kind = "check" => stage[i] = "executed" /\ calls[i] = "check"
<1>1. calls[i] \in Kinds
  BY DEF TypeOK, CallTypes
<1>2. CASE stage[i] = "executed"
  <2>1. result[i] \in Outcomes(calls[i])
    BY <1>2 DEF ResultInv
  <2>2. /\ result[i] \in Reports /\ result[i].kind = calls[i]
        /\ result[i].changed => calls[i] = "write"
    BY <1>1, <2>1, OutcomeTypes
  <2> QED BY <1>1, <1>2, <2>2 DEF Kinds
<1>3. CASE stage[i] # "executed"
  <2>1. result[i] = NoReport
    BY <1>3 DEF ResultInv
  <2> QED BY <2>1, NoReportType
<1> QED BY <1>2, <1>3

\* Every step keeps a verifier's report the last one.
LEMMA ReportStep ==
    ASSUME TypeOK, ResultInv, ReportInv, [Next]_vars
    PROVE  ReportInv'
<1>t. /\ reports \in Seq(Reports)
      /\ pc \in Single \cup Batch => at \in DOMAIN calls
  BY DEF TypeOK, TaskTypes, CallTypes
<1>h. OwnOrLast(reports, pc \in {"judge", "done"})
  BY DEF ReportInv
<1>m. OwnOrLast(reports, TRUE)
  BY <1>h DEF OwnOrLast
<1>q. ASSUME reports' = reports, pc \in {"judge", "done"} => pc' \in {"judge", "done"} PROVE ReportInv'
  BY <1>q, <1>h DEF ReportInv, OwnOrLast
<1> USE DEF turnVars, Single, Batch, Thinking
<1>1. CASE Apart
  BY <1>1, <1>q DEF Apart
<1>2. CASE SettleAgain
  <2>1. CASE reports' = reports /\ pc = "settle"
    BY <2>1, <1>q
  <2>2. CASE reports' = <<>>
    BY <2>2 DEF ReportInv, OwnOrLast
  <2> QED BY <1>2, <2>1, <2>2 DEF SettleAgain, StartTurn
<1>3. CASE SettleCandidate
  BY <1>3, <1>q DEF SettleCandidate
<1>4. CASE Verify
  <2>1. pc = "verify" /\ pc' = "judge"
    BY <1>4 DEF Verify
  <2>2. CASE reports' = reports
    BY <2>1, <2>2, <1>q
  <2>3. CASE \E ok \in BOOLEAN : reports' = Append(reports, Report("verifier", ok, FALSE))
    <3>1. PICK ok \in BOOLEAN : reports' = Append(reports, Report("verifier", ok, FALSE))
      BY <2>3
    <3>2. Report("verifier", ok, FALSE) \in Reports /\ ~Report("verifier", ok, FALSE).changed
      BY DEF Report, Reports
    <3>3. OwnOrLast(reports, FALSE)
      BY <2>1, <1>h DEF OwnOrLast
    <3>4. OwnOrLast(Append(reports, Report("verifier", ok, FALSE)), TRUE)
      BY <3>2, <3>3, <1>t, OwnAppend
    <3>5. OwnOrLast(reports', TRUE)
      BY <3>1, <3>4
    <3> QED BY <2>1, <3>5 DEF ReportInv, OwnOrLast
  <2> QED BY <1>4, <2>2, <2>3 DEF Verify
<1>5. CASE Judge
  <2>1. CASE reports' = reports /\ pc' = "done"
    BY <2>1, <1>q
  <2>2. CASE reports' = OwnReports /\ pc' = "top"
    <3>1. OwnOrLast(OwnReports, FALSE)
      BY <1>t, <1>m, CorrectedReports
    <3>2. OwnOrLast(reports', FALSE)
      BY <2>2, <3>1
    <3> QED BY <2>2, <3>2 DEF ReportInv, OwnOrLast
  <2> QED BY <1>5, <2>1, <2>2 DEF Judge, Correct, Finish
<1>6. CASE \E id \in 1..asked, decision \in {"once", "session", "deny"} : Answer(id, decision)
  BY <1>6, <1>q DEF Answer
<1>7. CASE \E cs \in CallLists : RespondTools(cs)
  BY <1>7, <1>q DEF RespondTools, Responded
<1>8. CASE \E i \in DOMAIN calls : PickBatch(i) \/ PickOne(i) \/ Checkpoint(i) \/ InvokeInBatch(i)
  BY <1>8, <1>q DEF PickBatch, PickOne, Checkpoint, InvokeInBatch
<1>9. CASE GovernTool \/ Approval \/ Prepare \/ Invoke \/ BatchGate \/ BatchDone
  BY <1>9, <1>q DEF GovernTool, Approval, Prepare, Invoke, BatchGate, BatchDone
<1>10. CASE \E blocked \in BOOLEAN : TakeResult(blocked)
  <2>1. /\ pc \in {"result", "results"} /\ pc' \notin {"judge", "done"} /\ at \in DOMAIN calls
    BY <1>10, <1>t DEF TakeResult
  <2>2. CASE reports' = reports
    BY <2>1, <2>2, <1>q
  <2>3. CASE reports' = Append(reports, result[at])
    <3>1. /\ result[at] \in Reports /\ result[at].kind # "verifier"
          /\ result[at].changed => result[at].kind = "write"
      BY <2>1, ResultKinds
    <3>2. OwnOrLast(reports, FALSE)
      BY <2>1, <1>h DEF OwnOrLast
    <3>3. OwnOrLast(Append(reports, result[at]), FALSE)
      BY <3>1, <3>2, <1>t, OwnAppend
    <3>4. OwnOrLast(reports', FALSE)
      BY <2>3, <3>3
    <3> QED BY <2>1, <3>4 DEF ReportInv, OwnOrLast
  <2> QED BY <1>10, <2>2, <2>3 DEF TakeResult
<1>11. CASE EndStep
  BY <1>11, <1>q DEF EndStep
<1> QED BY <1>1, <1>2, <1>3, <1>4, <1>5, <1>6, <1>7, <1>8, <1>9, <1>10, <1>11, NextShapes DEF ToolStep

\* Every step keeps a change without a newer validation visible.
LEMMA DirtyStep ==
    ASSUME TypeOK, CallInv, ResultInv, ReportInv, DirtyInv, [Next]_vars
    PROVE  DirtyInv'
<1> DEFINE Held(i) == stage[i] = "executed" /\ result[i].changed
<1>t. /\ calls \in Seq(Kinds) /\ stage \in [DOMAIN calls -> Stages]
      /\ result \in [DOMAIN calls -> Reports] /\ reports \in Seq(Reports)
      /\ pc \in Single \cup Batch => at \in DOMAIN calls /\ last \in DOMAIN calls /\ at <= last
      /\ at \in Nat /\ last \in Nat
  BY DEF TypeOK, CallTypes, TaskTypes
<1>b. dirty \in BOOLEAN
  BY DEF TypeOK, TaskTypes
<1>d. dirty => Stale(reports) \/ \E i \in DOMAIN calls : Held(i)
  BY DEF DirtyInv
<1>k. pc = "result" /\ result[at].kind = "check" /\ result[at].ok => ~dirty
  BY DEF DirtyInv
<1> SUFFICES /\ dirty' => Stale(reports') \/ \E i \in DOMAIN calls' : stage'[i] = "executed" /\ result'[i].changed
             /\ pc' = "result" /\ result'[at'].kind = "check" /\ result'[at'].ok => ~dirty'
  BY DEF DirtyInv, Stale
\* Where no call is being carried out, a change is in the reports.
<1>s. dirty /\ pc \notin {"invokes", "results", "result"} => Stale(reports)
  <2>1. pc \notin {"invokes", "results", "result"} => \A i \in DOMAIN calls : stage[i] # "executed"
    BY DEF CallInv, Cleared
  <2> QED BY <2>1, <1>d
<1> USE DEF turnVars, callVars, Single, Batch, Thinking
<1>q. ASSUME dirty' = dirty, reports' = reports, pc \notin {"invokes", "results", "result"},
             pc' # "result" \/ result'[at'].kind # "check"
      PROVE  /\ dirty' => Stale(reports') \/ \E i \in DOMAIN calls' : stage'[i] = "executed" /\ result'[i].changed
             /\ pc' = "result" /\ result'[at'].kind = "check" /\ result'[at'].ok => ~dirty'
  BY <1>q, <1>s
<1>1. CASE Apart
  <2>1. dirty' = dirty /\ reports' = reports /\ UNCHANGED callVars /\ (pc' = pc \/ pc' # "result")
    BY <1>1 DEF Apart
  <2> QED BY <2>1, <1>d, <1>k
<1>2. CASE SettleAgain \/ SettleCandidate
  <2>1. /\ pc = "settle" /\ pc' \in {"top", "verify"}
        /\ (dirty' = dirty /\ reports' = reports) \/ dirty' = FALSE
    BY <1>2 DEF SettleAgain, SettleCandidate, StartTurn
  <2> QED BY <2>1, <1>s
<1>3. CASE Verify
  <2>1. pc = "verify" /\ pc' = "judge"
    BY <1>3 DEF Verify
  <2>2. CASE dirty' = dirty /\ reports' = reports
    BY <2>1, <2>2, <1>s
  <2>3. CASE \E ok \in BOOLEAN : /\ reports' = Append(reports, Report("verifier", ok, FALSE))
                                 /\ dirty' = (dirty /\ ~ok)
    <3>1. PICK ok \in BOOLEAN : /\ reports' = Append(reports, Report("verifier", ok, FALSE))
                                /\ dirty' = (dirty /\ ~ok)
      BY <2>3
    <3>2. Report("verifier", ok, FALSE) \in Reports /\ Report("verifier", ok, FALSE).ok = ok
      BY DEF Report, Reports
    <3>3. dirty' => Stale(Append(reports, Report("verifier", ok, FALSE)))
      BY <2>1, <3>1, <3>2, <1>s, <1>t, StaleAppend
    <3>4. dirty' => Stale(reports')
      BY <3>1, <3>3
    <3> QED BY <2>1, <3>4
  <2> QED BY <1>3, <2>2, <2>3 DEF Verify
<1>4. CASE Judge
  <2>1. pc = "judge" /\ pc' \in {"top", "done"} /\ dirty' = dirty
    BY <1>4 DEF Judge, Correct, Finish
  <2>2. reports' = reports \/ reports' = OwnReports
    BY <1>4 DEF Judge, Correct
  <2>3. OwnOrLast(reports, TRUE)
    BY DEF ReportInv, OwnOrLast
  <2>4. Stale(reports) => Stale(OwnReports)
    BY <2>3, <1>t, CorrectedReports
  <2>5. Stale(reports) => Stale(reports')
    BY <2>2, <2>4
  <2> QED BY <2>1, <2>5, <1>s
<1>5. CASE \E cs \in CallLists : RespondTools(cs)
  <2>1. dirty' = dirty /\ reports' = reports /\ pc = "provider" /\ pc' = "pick"
    BY <1>5 DEF RespondTools, Responded
  <2> QED BY <2>1, <1>q
<1>6. CASE \E i \in DOMAIN calls : PickBatch(i) \/ PickOne(i) \/ Checkpoint(i)
  <2>1. /\ dirty' = dirty /\ reports' = reports /\ pc \in {"pick", "checkpoints"}
        /\ pc' \in {"tool", "checkpoints", "invokes"}
    BY <1>6 DEF PickBatch, PickOne, Checkpoint
  <2> QED BY <2>1, <1>q
<1>7. CASE GovernTool \/ Approval \/ Prepare
  <2>1. /\ dirty' = dirty /\ reports' = reports /\ pc \in {"tool", "approval", "prepare"}
        /\ at' = at
    BY <1>7 DEF GovernTool, Approval, Prepare
  <2>2. pc' = "result" => result' = [result EXCEPT ![at] = NoReport]
    BY <1>7 DEF GovernTool, Approval, Prepare, Reported, Guarded
  <2>3. pc' # "result" \/ result'[at'].kind # "check"
    BY <2>1, <2>2, <1>t, NoReportType
  <2> QED BY <2>1, <2>3, <1>q
<1>8. CASE Invoke
  <2>1. /\ pc = "invoke" /\ calls' = calls /\ at' = at /\ reports' = reports /\ at \in DOMAIN calls
    BY <1>8, <1>t DEF Invoke
  <2>2. PICK r \in Outcomes(calls[at]) :
          /\ result' = [result EXCEPT ![at] = r] /\ stage' = [stage EXCEPT ![at] = "executed"]
          /\ dirty' = (r.changed \/ (dirty /\ ~(r.kind = "check" /\ r.ok)))
    BY <1>8 DEF Invoke, Execute, Reported
  <2>3. r \in Reports /\ (r.changed => r.kind = "write")
    BY <2>1, <2>2, <1>t, OutcomeTypes
  <2>4. result'[at] = r /\ stage'[at] = "executed"
    BY <2>1, <2>2, <1>t
  <2>5. dirty' => r.changed \/ Stale(reports)
    BY <2>1, <2>2, <1>s
  <2>6. r.kind = "check" /\ r.ok => ~dirty'
    BY <2>2, <2>3
  <2> QED BY <2>1, <2>4, <2>5, <2>6
<1>9. CASE \E i \in DOMAIN calls : InvokeInBatch(i)
  <2>1. PICK i \in DOMAIN calls : InvokeInBatch(i)
    BY <1>9
  <2>2. /\ pc = "invokes" /\ pc' = pc /\ calls' = calls /\ reports' = reports
        /\ stage[i] \in {"waiting", "ready"}
    BY <2>1 DEF InvokeInBatch
  <2>3. PICK r, how : Reported(i, r, how)
    BY <2>1 DEF InvokeInBatch, Execute
  <2>4. \A j \in DOMAIN calls : Held(j) => stage'[j] = "executed" /\ result'[j].changed
    BY <2>2, <2>3, <1>t DEF Reported
  <2>5. CASE dirty' = dirty
    BY <2>2, <2>4, <2>5, <1>d
  <2>6. CASE \E o \in Outcomes(calls[i]) :
               Reported(i, o, "executed") /\ dirty' = (o.changed \/ (dirty /\ ~(o.kind = "check" /\ o.ok)))
    <3>1. PICK o \in Outcomes(calls[i]) :
            Reported(i, o, "executed") /\ dirty' = (o.changed \/ (dirty /\ ~(o.kind = "check" /\ o.ok)))
      BY <2>6
    <3>2. result'[i] = o /\ stage'[i] = "executed"
      BY <3>1, <1>t DEF Reported
    <3>3. CASE o.changed
      BY <2>2, <3>2, <3>3
    <3>4. CASE ~o.changed
      BY <2>2, <2>4, <3>1, <3>4, <1>d
    <3> QED BY <3>3, <3>4
  <2> QED BY <2>1, <2>5, <2>6 DEF InvokeInBatch, Execute
<1>10. CASE BatchGate
  <2>1. /\ dirty' = dirty /\ reports' = reports /\ pc = "checkpoints" /\ pc' \in {"invokes", "results"}
    BY <1>10 DEF BatchGate
  <2> QED BY <2>1, <1>q
<1>11. CASE BatchDone
  <2>1. dirty' = dirty /\ reports' = reports /\ UNCHANGED callVars /\ pc' = "results"
    BY <1>11 DEF BatchDone
  <2> QED BY <2>1, <1>d
<1>12. CASE \E blocked \in BOOLEAN : TakeResult(blocked)
  <2>1. /\ pc \in {"result", "results"} /\ pc' # "result" /\ dirty' = dirty /\ calls' = calls
        /\ result' = [result EXCEPT ![at] = NoReport] /\ stage' = [stage EXCEPT ![at] = "answered"]
        /\ reports' = IF Relevant(result[at]) THEN Append(reports, result[at]) ELSE reports
    BY <1>12 DEF TakeResult
  <2>2. at \in DOMAIN calls /\ result[at] \in Reports
    BY <2>1, <1>t
  <2>3. \A j \in DOMAIN calls : j # at /\ Held(j) => stage'[j] = "executed" /\ result'[j].changed
    BY <2>1, <1>t
  <2>4. CASE result[at].changed
    <3>1. reports' = Append(reports, result[at])
      BY <2>1, <2>4 DEF Relevant
    <3>2. Stale(Append(reports, result[at]))
      BY <2>2, <2>4, <1>t, StaleAppend
    <3>3. Stale(reports')
      BY <3>1, <3>2
    <3> QED BY <2>1, <3>3
  <2>5. CASE ~result[at].changed
    <3>1. ASSUME dirty PROVE ~(result[at].kind \in {"check", "verifier"} /\ result[at].ok)
      <4>1. result[at].kind # "verifier" /\ (result[at].kind = "check" => calls[at] = "check")
        BY <2>2, ResultKinds
      <4>2. pc = "results" => calls[at] # "check"
        <5>1. pc = "results" => at \in at..last
          BY <1>t
        <5> QED BY <5>1 DEF CallInv, OneKind
      <4> QED BY <2>1, <3>1, <4>1, <4>2, <1>k
    <3>2. ASSUME dirty, Stale(reports) PROVE Stale(reports')
      <4>1. Stale(Append(reports, result[at]))
        BY <2>2, <3>1, <3>2, <1>t, StaleAppend
      <4> QED BY <2>1, <3>2, <4>1
    <3>3. (\E i \in DOMAIN calls : Held(i)) => \E i \in DOMAIN calls : i # at /\ Held(i)
      BY <2>5
    <3> QED BY <2>1, <2>3, <3>2, <3>3, <1>d
  <2> QED BY <2>4, <2>5
<1>13. CASE \E id \in 1..asked, decision \in {"once", "session", "deny"} : Answer(id, decision)
  <2>1. dirty' = dirty /\ reports' = reports /\ pc = "approval" /\ pc' = pc
    BY <1>13 DEF Answer
  <2> QED BY <2>1, <1>q
<1>14. CASE EndStep
  <2>1. dirty' = dirty /\ reports' = reports /\ pc = "pick" /\ pc' \in {"top", "verify"}
    BY <1>14 DEF EndStep, Guarded
  <2> QED BY <2>1, <1>q
<1> QED BY <1>1, <1>2, <1>3, <1>4, <1>5, <1>6, <1>7, <1>8, <1>9, <1>10, <1>11, <1>12, <1>13, <1>14,
           NextShapes DEF ToolStep

\* Judge ends the task with success only where it was earned.
LEMMA JudgedSuccess ==
    ASSUME TypeOK, CallInv, ReportInv, DirtyInv, VerdictInv, Judge, outcome' = "StopSuccess"
    PROVE  /\ pc' = "done" /\ candidate' = TRUE /\ guard' = FALSE
           /\ dirty' => contract'.bestEffort /\ ~contract'.objective
<1>t. /\ reports \in Seq(Reports) /\ guard \in BOOLEAN /\ candidate \in BOOLEAN /\ dirty \in BOOLEAN
  BY DEF TypeOK, TaskTypes
<1>1. pc = "judge" /\ dirty' = dirty /\ contract' = contract
  BY DEF Judge
<1>2. outcome # "StopSuccess"
  BY <1>1 DEF VerdictInv
<1> DEFINE g == Governor(toolCalls, 0, FALSE)
           stopped == guard \/ g # "Allow"
           acts == IF g = "Allow" THEN action ELSE g
<1>3. PICK verdict \in Verdicts :
        LET v == IF stopped /\ verdict = "Pass" THEN "Partial" ELSE verdict
            best == candidate /\ ~stopped /\ BestEffort(v)
        IN  \/ MayCorrect(v, stopped) /\ Correct
            \/ /\ guard' = (stopped \/ MayCorrect(v, stopped)) /\ action' = acts
               /\ Finish(Decision(v, best, acts))
               /\ UNCHANGED <<corrections, candidate, reports>>
  BY DEF Judge
<1> HIDE DEF g, acts
<1> DEFINE v == IF stopped /\ verdict = "Pass" THEN "Partial" ELSE verdict
           best == candidate /\ ~stopped /\ BestEffort(v)
<1>4. /\ guard' = (stopped \/ MayCorrect(v, stopped)) /\ pc' = "done"
      /\ outcome' = Decision(v, best, acts) /\ candidate' = candidate
  BY <1>2, <1>3 DEF Correct, Finish
<1>5. v = "Pass" \/ best
  BY <1>4 DEF Decision
<1>6. ~stopped /\ ~MayCorrect(v, stopped)
  BY <1>5 DEF MayCorrect
<1>7. guard' = FALSE /\ ~guard
  BY <1>4, <1>6
<1>8. candidate
  BY <1>1, <1>7 DEF VerdictInv
<1>9. CASE best
  <2>1. contract.bestEffort /\ ~contract.objective
    BY <1>9 DEF BestEffort
  <2> QED BY <1>1, <1>4, <1>7, <1>8, <2>1, <1>t
<1>10. CASE v = "Pass"
  <2>1. verdict = "Pass"
    BY <1>6, <1>10
  <2>2. ~Changed \/ (Checks # {} /\ \A i \in Checks : Passed(i))
    BY <1>3, <2>1 DEF Verdicts
  <2>3. OwnOrLast(reports, TRUE)
    BY DEF ReportInv, OwnOrLast
  <2>4. ~Stale(reports)
    BY <2>2, <2>3, <1>t, StaleFails
  <2>5. \A i \in DOMAIN calls : stage[i] # "executed"
    BY <1>1 DEF CallInv, Cleared
  <2>6. ~dirty
    BY <2>4, <2>5 DEF DirtyInv
  <2> QED BY <1>1, <1>4, <1>7, <1>8, <2>6, <1>t
<1> QED BY <1>5, <1>9, <1>10

\* Every step keeps a verdict of success earned.
LEMMA VerdictStep ==
    ASSUME TypeOK, CallInv, ReportInv, DirtyInv, VerdictInv, [Next]_vars
    PROVE  VerdictInv'
<1>h. /\ pc \in {"verify", "judge"} /\ ~guard => candidate
      /\ outcome = "StopSuccess" => pc = "done"
      /\ outcome = "StopSuccess" =>
            candidate /\ ~guard /\ (dirty => contract.bestEffort /\ ~contract.objective)
  BY DEF VerdictInv, SuccessIsEarned
<1>b. guard \in BOOLEAN /\ candidate \in BOOLEAN
  BY DEF TypeOK, TaskTypes
<1> USE DEF turnVars, Thinking
\* No step but Judge's ends in success, and none leaves it.
<1>q. ASSUME outcome' # "StopSuccess", pc' \in {"verify", "judge"} /\ ~guard' => candidate'
      PROVE  VerdictInv'
  BY <1>q DEF VerdictInv, SuccessIsEarned
<1>o. pc # "done" => outcome # "StopSuccess"
  BY <1>h
<1>1. CASE Apart
  <2>1. CASE pc' = pc /\ UNCHANGED <<guard, outcome>>
    <3>1. UNCHANGED <<dirty, contract, candidate>>
      BY <1>1 DEF Apart
    <3> QED BY <2>1, <3>1, <1>h DEF VerdictInv, SuccessIsEarned
  <2>2. CASE pc' = "done" /\ outcome' \in {"Cancelled", "Error"}
    BY <2>2, <1>q
  <2>3. CASE pc \in Thinking /\ pc' \in Thinking /\ outcome' = outcome
    BY <2>3, <1>q, <1>o
  <2>4. CASE pc \in Thinking /\ pc' = "verify" /\ guard' = TRUE /\ outcome' = outcome
    BY <2>4, <1>q, <1>o
  <2> QED BY <1>1, <2>1, <2>2, <2>3, <2>4 DEF Apart
<1>2. CASE SettleAgain \/ SettleCandidate
  <2>1. pc = "settle" /\ outcome' = outcome /\ (pc' = "top" \/ candidate' = TRUE)
    BY <1>2 DEF SettleAgain, SettleCandidate
  <2> QED BY <2>1, <1>q, <1>o
<1>3. CASE Verify
  <2>1. pc = "verify" /\ pc' = "judge" /\ UNCHANGED <<outcome, guard, candidate>>
    BY <1>3 DEF Verify
  <2> QED BY <2>1, <1>q, <1>o, <1>h
<1>4. CASE Judge
  <2>1. pc' \in {"top", "done"}
    BY <1>4 DEF Judge, Correct, Finish
  <2>2. CASE outcome' # "StopSuccess"
    BY <2>1, <2>2, <1>q
  <2>3. CASE outcome' = "StopSuccess"
    <3>1. /\ pc' = "done" /\ candidate' = TRUE /\ guard' = FALSE
          /\ dirty' => contract'.bestEffort /\ ~contract'.objective
      BY <1>4, <2>3, JudgedSuccess
    <3> QED BY <3>1 DEF VerdictInv, SuccessIsEarned
  <2> QED BY <2>2, <2>3
<1>5. CASE \E cs \in CallLists : RespondTools(cs)
  <2>1. pc = "provider" /\ pc' = "pick" /\ outcome' = outcome
    BY <1>5 DEF RespondTools, Responded
  <2> QED BY <2>1, <1>q, <1>o
<1>6. CASE \E i \in DOMAIN calls : PickBatch(i) \/ PickOne(i) \/ Checkpoint(i) \/ InvokeInBatch(i)
  <2>1. /\ pc \in {"pick", "checkpoints", "invokes"} /\ pc' \in {"tool", "checkpoints", "invokes"}
        /\ outcome' = outcome
    BY <1>6 DEF PickBatch, PickOne, Checkpoint, InvokeInBatch
  <2> QED BY <2>1, <1>q, <1>o
<1>7. CASE GovernTool \/ Approval \/ Prepare \/ Invoke \/ BatchGate \/ BatchDone
  <2>1. /\ pc # "done" /\ pc' # "judge" /\ outcome' = outcome /\ (pc' = "verify" => guard' = TRUE)
    BY <1>7 DEF GovernTool, Approval, Prepare, Invoke, BatchGate, BatchDone, Guarded
  <2> QED BY <2>1, <1>q, <1>o
<1>8. CASE \E blocked \in BOOLEAN : TakeResult(blocked)
  <2>1. /\ pc # "done" /\ pc' # "judge" /\ outcome' = outcome /\ (pc' = "verify" => guard')
    BY <1>8 DEF TakeResult
  <2> QED BY <2>1, <1>q, <1>o
<1>9. CASE \E id \in 1..asked, decision \in {"once", "session", "deny"} : Answer(id, decision)
  <2>1. pc = "approval" /\ pc' = pc /\ outcome' = outcome
    BY <1>9 DEF Answer
  <2> QED BY <2>1, <1>q, <1>o
<1>10. CASE EndStep
  <2>1. /\ pc = "pick" /\ pc' \in {"top", "verify"} /\ outcome' = outcome
        /\ pc' = "verify" => guard' = TRUE
    BY <1>10 DEF EndStep, Guarded
  <2> QED BY <2>1, <1>q, <1>o
<1> QED BY <1>1, <1>2, <1>3, <1>4, <1>5, <1>6, <1>7, <1>8, <1>9, <1>10, NextShapes DEF ToolStep

\* A task succeeds only with a finished candidate that nothing stopped, and with
\* a workspace validated after its last change unless the contract waives it:
\* whatever was batched, corrected or verified by others in between.
THEOREM SuccessIsAlwaysEarned == Spec => []SuccessIsEarned
<1>1. Init => ResultInv /\ ReportInv /\ DirtyInv /\ VerdictInv
  <2> SUFFICES ASSUME Init PROVE ResultInv /\ ReportInv /\ DirtyInv /\ VerdictInv
    OBVIOUS
  <2>1. calls = <<>> /\ reports = <<>> /\ pc = "top" /\ dirty = FALSE /\ outcome = "none"
    BY DEF Init
  <2> QED BY <2>1 DEF ResultInv, ReportInv, OwnOrLast, DirtyInv, VerdictInv, SuccessIsEarned
<1>2. /\ TypeOK /\ CallInv /\ ResultInv /\ ReportInv /\ DirtyInv /\ VerdictInv /\ [Next]_vars
      => ResultInv' /\ ReportInv' /\ DirtyInv' /\ VerdictInv'
  BY ResultStep, ReportStep, DirtyStep, VerdictStep
<1>3. VerdictInv => SuccessIsEarned
  BY DEF VerdictInv
<1> QED BY <1>1, <1>2, <1>3, TypeHolds, CallsHold, PTL DEF Spec
=============================================================================
