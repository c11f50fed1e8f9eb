-------------------------- MODULE PendingTurnQueue --------------------------
(***************************************************************************)
(* The pending-turn queue of one running task.                              *)
(*                                                                         *)
(* A command handler reserves a place in the queue, records the event in     *)
(* the ledger and only then commits the reservation; the same protocol       *)
(* changes or cancels a queued turn.  Until the commit the entry is in the    *)
(* queue but not durable, and the agent loop may not take it: it waits on a   *)
(* tokio Notify.  A handler that fails gives its reservation back.  The loop  *)
(* takes steering turns before ordinary ones and closes the queue when it     *)
(* finds it empty; a prompt that meets a closed queue starts a new task.      *)
(*                                                                         *)
(* Sources: runtime/src/lib.rs (PendingTurnQueue, the agent loop),            *)
(* client/src/command.rs (prompt, update and cancel of a queued turn).        *)
(***************************************************************************)
EXTENDS Integers, Sequences, FiniteSets

CONSTANTS
    Turns,       \* user turns; each is queued at most once
    Capacity,    \* configured capacity of the queue
    MaxChanges,  \* bound: updates and cancellations attempted in a behaviour
    NoTurn

ASSUME CapacityAssumption == Capacity \in Nat
ASSUME MaxChangesAssumption == MaxChanges \in Nat
ASSUME NoTurnAssumption == NoTurn \notin Turns

VARIABLES
    \* shared, behind the mutex
    accepting,   \* PendingTurnQueueState::accepting
    queue,       \* PendingTurnQueueState::turns
    \* the ledger
    stored,      \* turn -> version of its last TurnQueued/TurnUpdated; 0: none
    cancelled,   \* turns with a TurnCancelled
    \* the command handler (command_mutex admits one) and a closing thread
    handler,     \* what it is doing, to which turn, with which version, and
                 \* the original version
    closer,      \* "none", or "notify" between close and its notification
    \* the agent loop
    taker,       \* control state around take_or_close and take_ready_steers
    woken,       \* the current Notified future has been notified
    \* history
    arrived,     \* turns in the order of their reservations
    taken,       \* what the loop took, in order
    cut,         \* turns whose request was dropped after its event was stored
    ended,       \* take_or_close itself closed the queue
    changes      \* updates and cancellations attempted; names their versions

sharedVars == <<accepting, queue>>
ledgerVars == <<stored, cancelled>>
loopVars == <<taker, taken, ended>>
historyVars == <<arrived, changes, cut>>
vars == <<sharedVars, ledgerVars, handler, closer, loopVars, woken, historyVars>>

\* The content of a turn: version 1 is the prompt, every update is a new one.
Versions == 1..MaxChanges + 1

Entry == [turn: Turns, ver: Versions, steer: BOOLEAN, durable: BOOLEAN]

\* capacity.max(1)
Limit == IF Capacity = 0 THEN 1 ELSE Capacity

Positions(t) == {i \in 1..Len(queue) : queue[i].turn = t}

\* The k-th of a finite set of positions, and the entries at such positions.
Nth(K, k) == CHOOSE i \in K : Cardinality({j \in K : j < i}) = k - 1
Subsequence(s, K) == [k \in 1..Cardinality(K) |-> s[Nth(K, k)]]

Retain(t) == Subsequence(queue, (1..Len(queue)) \ Positions(t))

\* find(...) and an assignment to the entry it returns, if any
SetEntry(t, ver, durable) ==
    [i \in 1..Len(queue) |->
        IF queue[i].turn = t
        THEN [queue[i] EXCEPT !.ver = ver, !.durable = durable]
        ELSE queue[i]]

Busy(pc, t, ver, original) == [pc |-> pc, turn |-> t, ver |-> ver, original |-> original]
Idle == Busy("idle", NoTurn, 1, 1)
At(pc) == [handler EXCEPT !.pc = pc]

\* notify_waiters reaches every Notified future that exists already, polled
\* or not; one that is created later does not see it.
Notify == woken' = (woken \/ taker \in {"armed", "waiting"})

Init ==
    /\ accepting = TRUE /\ queue = <<>>
    /\ stored = [t \in Turns |-> 0] /\ cancelled = {}
    /\ handler = Idle /\ closer = "none"
    /\ taker = "away" /\ woken = FALSE
    /\ arrived = <<>> /\ cut = {} /\ taken = <<>> /\ ended = FALSE /\ changes = 0

-----------------------------------------------------------------------------
(* The command handler *)

\* The reservation does not look at `accepting`.
MutHasRoomClosed == Len(queue) < Limit

\* neither PendingTurnQueueClosed nor PendingTurnQueueFull
HasRoom == accepting /\ Len(queue) < Limit

\* reserve_with_origin
Reserve(t, steer) ==
    /\ handler = Idle /\ \A i \in 1..Len(arrived) : arrived[i] # t
    /\ HasRoom
    /\ queue' = Append(queue, [turn |-> t, ver |-> 1, steer |-> steer, durable |-> FALSE])
    /\ arrived' = Append(arrived, t)
    /\ handler' = Busy("queueing", t, 1, 1)
    /\ UNCHANGED <<accepting, ledgerVars, closer, loopVars, woken, changes, cut>>

\* reserve_update_with_origin: the new content is in place at once, but not
\* durable; an entry that is missing or being changed refuses the command
ReserveUpdate(t) ==
    \E i \in Positions(t) :
        /\ handler = Idle /\ queue[i].durable /\ changes < MaxChanges
        /\ changes' = changes + 1
        /\ queue' = SetEntry(t, changes + 2, FALSE)
        /\ handler' = Busy("updating", t, changes + 2, queue[i].ver)
        /\ UNCHANGED <<accepting, ledgerVars, closer, loopVars, woken, arrived, cut>>

\* reserve_cancellation
ReserveCancellation(t) ==
    \E i \in Positions(t) :
        /\ handler = Idle /\ queue[i].durable /\ changes < MaxChanges
        /\ changes' = changes + 1
        /\ queue' = SetEntry(t, queue[i].ver, FALSE)
        /\ handler' = Busy("cancelling", t, queue[i].ver, queue[i].ver)
        /\ UNCHANGED <<accepting, ledgerVars, closer, loopVars, woken, arrived, cut>>

\* The record_event of the three commands succeeds.
RecordEvent ==
    LET t == handler.turn IN
    /\ \/ /\ handler.pc \in {"queueing", "updating"}
          /\ stored' = [stored EXCEPT ![t] = handler.ver]
          /\ handler' = At(IF handler.pc = "queueing" THEN "queued" ELSE "updated")
          /\ UNCHANGED cancelled
       \/ /\ handler.pc = "cancelling"
          /\ cancelled' = cancelled \cup {t}
          /\ handler' = At("cancelled")
          /\ UNCHANGED stored
    /\ UNCHANGED <<sharedVars, closer, loopVars, woken, historyVars>>

\* commit of a reservation; it notifies before it unlocks
Commit ==
    /\ handler.pc = "queued"
    /\ queue' = SetEntry(handler.turn, handler.ver, TRUE)
    /\ handler' = Idle
    /\ Notify
    /\ UNCHANGED <<accepting, ledgerVars, closer, loopVars, historyVars>>

\* commit_mutation; it unlocks and then notifies
CommitMutation ==
    LET t == handler.turn IN
    /\ \/ handler.pc = "updated" /\ queue' = SetEntry(t, handler.ver, TRUE)
       \/ handler.pc = "cancelled" /\ queue' = Retain(t)
    /\ handler' = Busy("notifying", NoTurn, 1, 1)
    /\ UNCHANGED <<accepting, ledgerVars, closer, loopVars, woken, historyVars>>

\* rollback_mutation keeps the replacement.
MutRollback ==
    LET t == handler.turn IN
    /\ \/ handler.pc = "queueing" /\ queue' = Retain(t)
       \/ handler.pc = "updating" /\ queue' = SetEntry(t, handler.ver, TRUE)
       \/ handler.pc = "cancelling" /\ queue' = SetEntry(t, handler.original, TRUE)
    /\ handler' = Busy("notifying", NoTurn, 1, 1)
    /\ UNCHANGED <<accepting, ledgerVars, closer, loopVars, woken, historyVars>>

\* The record_event fails: dropping the reservation or the mutation undoes
\* it (rollback, rollback_mutation)
Rollback ==
    LET t == handler.turn IN
    /\ \/ handler.pc = "queueing" /\ queue' = Retain(t)
       \/ handler.pc \in {"updating", "cancelling"} /\ queue' = SetEntry(t, handler.original, TRUE)
    /\ handler' = Busy("notifying", NoTurn, 1, 1)
    /\ UNCHANGED <<accepting, ledgerVars, closer, loopVars, woken, historyVars>>

\* The request is dropped after its event was stored, while record_event
\* still publishes it: the reservation or mutation is undone all the same.
Disconnect ==
    LET t == handler.turn IN
    /\ cut' = cut \cup {t}
    /\ \/ handler.pc = "queued" /\ queue' = Retain(t)
       \/ handler.pc \in {"updated", "cancelled"} /\ queue' = SetEntry(t, handler.original, TRUE)
    /\ handler' = Busy("notifying", NoTurn, 1, 1)
    /\ UNCHANGED <<accepting, ledgerVars, closer, loopVars, woken, arrived, changes>>

\* A mutation that is committed or rolled back notifies nobody.
MutHandlerNotify ==
    /\ handler.pc = "notifying"
    /\ handler' = Idle
    /\ UNCHANGED <<sharedVars, ledgerVars, closer, loopVars, woken, historyVars>>

\* changed.notify_waiters() after the lock of commit_mutation,
\* rollback_mutation or rollback was given back
HandlerNotify ==
    /\ handler.pc = "notifying"
    /\ handler' = Idle
    /\ Notify
    /\ UNCHANGED <<sharedVars, ledgerVars, closer, loopVars, historyVars>>

-----------------------------------------------------------------------------
(* Cancelling the task: AgentExecutionHandle::cancel *)

Close ==
    /\ accepting /\ closer = "none"
    /\ accepting' = FALSE
    /\ closer' = "notify"
    /\ UNCHANGED <<queue, ledgerVars, handler, loopVars, woken, historyVars>>

CloseNotify ==
    /\ closer = "notify"
    /\ closer' = "none"
    /\ Notify
    /\ UNCHANGED <<sharedVars, ledgerVars, handler, loopVars, historyVars>>

-----------------------------------------------------------------------------
(* The agent loop *)

Steers == {i \in 1..Len(queue) : queue[i].steer}

\* position(steer).unwrap_or(0)
NextIndex ==
    IF Steers = {} THEN 1 ELSE CHOOSE i \in Steers : \A j \in Steers : i <= j

Taken(e) == [turn |-> e.turn, ver |-> e.ver, steer |-> e.steer]

\* take_or_close is called: the Notified future exists before the lock
Arm ==
    /\ taker = "away"
    /\ taker' = "armed" /\ woken' = FALSE
    /\ UNCHANGED <<sharedVars, ledgerVars, handler, closer, historyVars, taken, ended>>

\* The critical section of take_or_close
TakeOrClose ==
    /\ taker = "armed"
    /\ \/ /\ ~accepting
          /\ taker' = "done"
          /\ UNCHANGED <<sharedVars, taken, ended, woken>>
       \/ /\ accepting /\ queue # <<>> /\ queue[NextIndex].durable
          /\ taken' = Append(taken, Taken(queue[NextIndex]))
          /\ taker' = IF queue[NextIndex].steer THEN "steers" ELSE "away"
          /\ queue' = Retain(queue[NextIndex].turn)
          /\ UNCHANGED <<accepting, ended, woken>>
       \/ /\ accepting /\ queue # <<>> /\ ~queue[NextIndex].durable
          /\ taker' = "waiting"
          /\ UNCHANGED <<sharedVars, taken, ended, woken>>
       \/ /\ accepting /\ queue = <<>>
          /\ accepting' = FALSE /\ ended' = TRUE
          /\ taker' = "done"
          /\ UNCHANGED <<queue, taken, woken>>
    /\ UNCHANGED <<ledgerVars, handler, closer, historyVars>>

\* changed.await returns, and the loop of take_or_close starts over
Wake ==
    /\ taker = "waiting" /\ woken
    /\ taker' = "armed" /\ woken' = FALSE
    /\ UNCHANGED <<sharedVars, ledgerVars, handler, closer, historyVars, taken, ended>>

\* Steering turns up to the first one that is not durable.
ReadySteers == {k \in Steers : \A j \in Steers : j <= k => queue[j].durable}

\* take_ready_steers, after a steering turn was taken and at every step end
TakeReadySteers ==
    /\ taker \in {"away", "steers"}
    /\ taker' = "away"
    /\ IF accepting
       THEN LET ready == Subsequence(queue, ReadySteers) IN
            /\ taken' = taken \o [i \in 1..Len(ready) |-> Taken(ready[i])]
            /\ queue' = Subsequence(queue, (1..Len(queue)) \ ReadySteers)
       ELSE UNCHANGED <<taken, queue>>
    /\ UNCHANGED <<accepting, ledgerVars, handler, closer, woken, historyVars, ended>>

\* The run fails; dropping its AgentExecutionControl closes the queue.
LoopFails ==
    /\ taker # "done"
    /\ taker' = "done" /\ woken' = FALSE
    /\ accepting' = FALSE
    /\ UNCHANGED <<queue, ledgerVars, handler, closer, historyVars, taken, ended>>

HandlerStep ==
    RecordEvent \/ Commit \/ CommitMutation \/ Rollback \/ HandlerNotify

Next ==
    \/ \E t \in Turns, steer \in BOOLEAN : Reserve(t, steer)
    \/ \E t \in Turns : ReserveUpdate(t) \/ ReserveCancellation(t)
    \/ HandlerStep \/ Disconnect
    \/ Close \/ CloseNotify
    \/ Arm \/ TakeOrClose \/ Wake \/ TakeReadySteers \/ LoopFails

Spec == Init /\ [][Next]_vars

\* Store calls return, the runtime polls a woken task, and a turn of the
\* agent loop ends (its budgets bound it).
Fairness ==
    /\ WF_vars(HandlerStep) /\ WF_vars(CloseNotify)
    /\ WF_vars(Arm) /\ WF_vars(TakeOrClose) /\ WF_vars(Wake)
    /\ WF_vars(taker = "steers" /\ TakeReadySteers)

FairSpec == Spec /\ Fairness

-----------------------------------------------------------------------------
(* Properties *)

\* The types of the queue, the ledger and the two threads; the queue never
\* holds more than its capacity, reservations included.
TypeOK ==
    /\ accepting \in BOOLEAN /\ ended \in BOOLEAN /\ woken \in BOOLEAN
    /\ queue \in Seq(Entry) /\ Len(queue) <= Limit
    /\ stored \in [Turns -> 0..MaxChanges + 1]
    /\ cancelled \subseteq Turns
    /\ handler \in [pc: {"idle", "queueing", "queued", "updating", "updated",
                         "cancelling", "cancelled", "notifying"},
                    turn: Turns \cup {NoTurn}, ver: Versions, original: Versions]
    /\ closer \in {"none", "notify"}
    /\ taker \in {"away", "armed", "waiting", "steers", "done"}
    /\ arrived \in Seq(Turns) /\ cut \subseteq Turns /\ changes \in 0..MaxChanges
    /\ taken \in Seq([turn: Turns, ver: Versions, steer: BOOLEAN])

\* What the loop executes is what the ledger says: a turn it took has the
\* version last stored for it and is not cancelled, then and for ever after,
\* whatever update, cancellation or failed store call raced with the take.
\* Only a turn whose request was dropped behind its event may differ.
TakenMatchesLedger ==
    \A i \in 1..Len(taken) : taken[i].turn \notin cut =>
        /\ stored[taken[i].turn] = taken[i].ver
        /\ taken[i].turn \notin cancelled

Arrival(t) == CHOOSE i \in 1..Len(arrived) : arrived[i] = t

\* Ordinary turns are taken in the order in which they were queued, and so
\* are steering turns; none is taken twice.  A turn that is being changed
\* holds the others back.
TakenInOrder ==
    \A i, j \in 1..Len(taken) :
        i < j /\ taken[i].steer = taken[j].steer
            => Arrival(taken[i].turn) < Arrival(taken[j].turn)

\* What the loop takes is what the ledger says, in content and in order.
TakenAsRecorded == TakenMatchesLedger /\ TakenInOrder

TakenTurns == {taken[i].turn : i \in 1..Len(taken)}

LeftBehind == {t \in Turns : stored[t] > 0} \ (TakenTurns \cup cancelled)

\* When the loop ends by closing the empty queue, no turn of the ledger is
\* left behind: a prompt is either in the queue before the close or refused.
NothingLeftBehind == ended => LeftBehind = {}

\* No turn is left behind but those whose request was dropped between the
\* event and the commit: one dropped request costs no other turn.
OnlyDroppedLeftBehind == ended => LeftBehind \subseteq cut

\* A durably queued turn is taken, unless it is cancelled or the task is, or
\* its request was dropped.
QueuedIsTaken ==
    \A t \in Turns : stored[t] > 0 ~> t \in TakenTurns \cup cancelled \cup cut \/ ~accepting
=============================================================================
