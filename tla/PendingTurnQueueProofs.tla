------------------------ MODULE PendingTurnQueueProofs ------------------------
(***************************************************************************)
(* Proofs about the pending-turn queue, for any number of turns, any capacity *)
(* and any number of updates and cancellations: what the loop takes is what   *)
(* the ledger says, in content and in order, and when it closes the queue     *)
(* nothing is left behind but what a dropped request left.                    *)
(***************************************************************************)
EXTENDS PendingTurnQueue, FiniteSetTheorems, TLAPS

-----------------------------------------------------------------------------
(* Subsequences *)

\* The positions of a set are numbered in their order, without a gap.
LEMMA NthPosition ==
    ASSUME NEW n \in Nat, NEW K \in SUBSET (1..n)
    PROVE  /\ IsFiniteSet(K) /\ Cardinality(K) \in Nat /\ Cardinality(K) <= n
           /\ \A k \in 1..Cardinality(K) : Nth(K, k) \in K
           /\ \A k, l \in 1..Cardinality(K) : k < l => Nth(K, k) < Nth(K, l)
           /\ \A i \in K : \E k \in 1..Cardinality(K) : Nth(K, k) = i
<1>. DEFINE Below(i) == {j \in K : j < i}
            f == [i \in K |-> Cardinality(Below(i)) + 1]
            c == Cardinality(K)
<1>0. \A i \in K : i \in Nat
  OBVIOUS
<1>1. IsFiniteSet(K) /\ c \in Nat /\ c <= n
  <2>1. IsFiniteSet(1..n) /\ Cardinality(1..n) = n
    BY FS_Interval
  <2>. QED
    BY <2>1, FS_Subset, FS_CardinalityType
<1>2. ASSUME NEW i \in K
      PROVE  /\ IsFiniteSet(Below(i)) /\ Cardinality(Below(i)) \in Nat
             /\ Cardinality(Below(i)) < c
  <2>1. Below(i) \in SUBSET K /\ Below(i) # K
    OBVIOUS
  <2>2. IsFiniteSet(Below(i)) /\ Cardinality(Below(i)) <= c /\ c # Cardinality(Below(i))
    BY <1>1, <2>1, FS_Subset
  <2>3. Cardinality(Below(i)) \in Nat
    BY <2>2, FS_CardinalityType
  <2>. QED
    BY <1>1, <2>2, <2>3
<1>3. ASSUME NEW i \in K, NEW j \in K, i < j
      PROVE  Cardinality(Below(i)) < Cardinality(Below(j))
  <2>1. Below(i) \in SUBSET Below(j) /\ Below(i) # Below(j)
    <3>1. i \in Below(j) /\ i \notin Below(i)
      BY <1>3
    <3>2. Below(i) \subseteq Below(j)
      <4>. SUFFICES ASSUME NEW x \in K, x < i
                    PROVE  x < j
        OBVIOUS
      <4>1. x \in Nat /\ i \in Nat /\ j \in Nat
        BY <1>0
      <4>. QED
        BY <1>3, <4>1
    <3>. QED
      BY <3>1, <3>2
  <2>2. /\ Cardinality(Below(i)) <= Cardinality(Below(j))
        /\ Cardinality(Below(j)) # Cardinality(Below(i))
    BY <1>2, <2>1, FS_Subset
  <2>. QED
    BY <1>2, <2>2
<1>4. f \in [K -> 1..c] /\ \A i \in K : f[i] = Cardinality(Below(i)) + 1
  BY <1>1, <1>2
<1>. HIDE DEF f, Below
<1>5. \A i, j \in K : i < j => f[i] < f[j]
  BY <1>2, <1>3, <1>4
<1>6. \A i, j \in K : f[i] = f[j] => i = j
  <2>. SUFFICES ASSUME NEW i \in K, NEW j \in K, f[i] = f[j], i # j
                PROVE  FALSE
    OBVIOUS
  <2>1. i \in Nat /\ j \in Nat /\ f[i] \in Nat /\ f[j] \in Nat
    BY <1>1, <1>4
  <2>. QED
    BY <1>5, <2>1
<1>7. \A k \in 1..c : \E i \in K : f[i] = k
  <2>1. f \in Injection(K, 1..c)
    BY <1>4, <1>6 DEF Injection, IsInjective
  <2>2. IsFiniteSet(1..c) /\ Cardinality(1..c) = c
    BY <1>1, FS_Interval
  <2>3. f \in Surjection(K, 1..c)
    BY <2>1, <2>2, FS_Injection
  <2>. QED
    BY <2>3 DEF Surjection
<1>8. ASSUME NEW k \in 1..c
      PROVE  Nth(K, k) \in K /\ f[Nth(K, k)] = k
  <2>1. PICK i \in K : f[i] = k
    BY <1>7
  <2>2. Cardinality({j \in K : j < i}) = k - 1
    BY <1>2, <1>4, <2>1 DEF Below
  <2>3. Nth(K, k) \in K /\ Cardinality({j \in K : j < Nth(K, k)}) = k - 1
    BY <2>2 DEF Nth
  <2>4. f[Nth(K, k)] = Cardinality(Below(Nth(K, k))) + 1
    BY <1>4, <2>3
  <2>5. Below(Nth(K, k)) = {j \in K : j < Nth(K, k)}
    BY DEF Below
  <2>. QED
    BY <1>1, <2>3, <2>4, <2>5
<1>9. \A k, l \in 1..c : k < l => Nth(K, k) < Nth(K, l)
  <2>. SUFFICES ASSUME NEW k \in 1..c, NEW l \in 1..c, k < l, ~(Nth(K, k) < Nth(K, l))
                PROVE  FALSE
    OBVIOUS
  <2>1. Nth(K, k) \in K /\ Nth(K, l) \in K /\ f[Nth(K, k)] = k /\ f[Nth(K, l)] = l
    BY <1>8
  <2>2. Nth(K, k) \in Nat /\ Nth(K, l) \in Nat /\ k \in Nat /\ l \in Nat
    <3>1. Nth(K, k) \in Nat /\ Nth(K, l) \in Nat
      BY <1>0, <2>1
    <3>. QED
      BY <1>1, <3>1
  <2>3. CASE Nth(K, k) = Nth(K, l)
    BY <2>1, <2>2, <2>3
  <2>4. CASE Nth(K, l) < Nth(K, k)
    BY <1>5, <2>1, <2>2, <2>4
  <2>. QED
    BY <2>2, <2>3, <2>4
<1>10. ASSUME NEW i \in K
       PROVE  \E k \in 1..c : Nth(K, k) = i
  <2>1. f[i] \in 1..c
    BY <1>4
  <2>2. Nth(K, f[i]) \in K /\ f[Nth(K, f[i])] = f[i]
    BY <1>8, <2>1
  <2>3. Nth(K, f[i]) = i
    BY <1>6, <2>2
  <2>. QED
    BY <2>1, <2>3
<1>. QED
  BY <1>1, <1>8, <1>9, <1>10

\* A subsequence has the entries of its positions, in their order.
LEMMA SubsequenceFacts ==
    ASSUME NEW S, NEW s \in Seq(S), NEW K \in SUBSET (1..Len(s))
    PROVE  /\ Subsequence(s, K) \in Seq(S)
           /\ Len(Subsequence(s, K)) = Cardinality(K) /\ Cardinality(K) \in Nat
           /\ Cardinality(K) <= Len(s)
           /\ \A k \in 1..Cardinality(K) :
                Nth(K, k) \in K /\ Subsequence(s, K)[k] = s[Nth(K, k)]
           /\ \A k, l \in 1..Cardinality(K) : k < l => Nth(K, k) < Nth(K, l)
           /\ \A i \in K : \E k \in 1..Cardinality(K) : Nth(K, k) = i
<1>1. /\ Cardinality(K) \in Nat /\ Cardinality(K) <= Len(s)
      /\ \A k \in 1..Cardinality(K) : Nth(K, k) \in K
      /\ \A k, l \in 1..Cardinality(K) : k < l => Nth(K, k) < Nth(K, l)
      /\ \A i \in K : \E k \in 1..Cardinality(K) : Nth(K, k) = i
  BY NthPosition
<1>2. ASSUME NEW k \in 1..Cardinality(K)
      PROVE  s[Nth(K, k)] \in S
  <2>1. Nth(K, k) \in 1..Len(s)
    BY <1>1
  <2>. QED
    BY <2>1
<1>3. Subsequence(s, K) \in Seq(S) /\ Len(Subsequence(s, K)) = Cardinality(K)
  BY <1>1, <1>2 DEF Subsequence
<1>. QED
  BY <1>1, <1>3 DEF Subsequence

-----------------------------------------------------------------------------
(* Types *)

USE CapacityAssumption, MaxChangesAssumption, NoTurnAssumption

Steps == {"idle", "queueing", "queued", "updating", "updated", "cancelling", "cancelled", "notifying"}
Handlers == [pc: Steps, turn: Turns \cup {NoTurn}, ver: Versions, original: Versions]
TakenEntry == [turn: Turns, ver: Versions, steer: BOOLEAN]

QueueTypes == queue \in Seq(Entry) /\ Len(queue) <= Limit
HandlerTypes ==
    /\ handler \in Handlers
    /\ handler.pc \notin {"idle", "notifying"} => handler.turn \in Turns
LedgerTypes == stored \in [Turns -> 0..MaxChanges + 1] /\ cancelled \subseteq Turns
HistoryTypes == arrived \in Seq(Turns) /\ cut \subseteq Turns /\ changes \in 0..MaxChanges
TakenTypes == taken \in Seq(TakenEntry)
FlagTypes ==
    /\ accepting \in BOOLEAN /\ ended \in BOOLEAN /\ woken \in BOOLEAN
    /\ closer \in {"none", "notify"} /\ taker \in {"away", "armed", "waiting", "steers", "done"}

Types == QueueTypes /\ HandlerTypes /\ LedgerTypes /\ HistoryTypes /\ TakenTypes /\ FlagTypes

\* What the queue's operations return.
LEMMA SetEntryFacts ==
    ASSUME queue \in Seq(Entry), NEW t, NEW ver \in Versions, NEW durable \in BOOLEAN
    PROVE  /\ SetEntry(t, ver, durable) \in Seq(Entry)
           /\ Len(SetEntry(t, ver, durable)) = Len(queue)
           /\ \A i \in 1..Len(queue) :
                /\ SetEntry(t, ver, durable)[i].turn = queue[i].turn
                /\ SetEntry(t, ver, durable)[i].steer = queue[i].steer
                /\ queue[i].turn = t => /\ SetEntry(t, ver, durable)[i].ver = ver
                                        /\ SetEntry(t, ver, durable)[i].durable = durable
                /\ queue[i].turn # t => SetEntry(t, ver, durable)[i] = queue[i]
<1>1. \A i \in 1..Len(queue) : queue[i] \in Entry
  OBVIOUS
<1>. DEFINE set(i) == IF queue[i].turn = t THEN [queue[i] EXCEPT !.ver = ver, !.durable = durable]
                      ELSE queue[i]
            q == SetEntry(t, ver, durable)
<1>2. \A i \in 1..Len(queue) : set(i) \in Entry
  BY <1>1 DEF Entry
<1>3. /\ q \in Seq(Entry) /\ Len(q) = Len(queue)
      /\ \A i \in 1..Len(queue) : q[i] = set(i)
  <2>1. q = [i \in 1..Len(queue) |-> set(i)]
    BY DEF SetEntry
  <2>. HIDE DEF q, set
  <2>2. Len(queue) \in Nat
    OBVIOUS
  <2>. QED
    BY <1>2, <2>1, <2>2
<1>. HIDE DEF q
<1>4. \A i \in 1..Len(queue) :
        /\ q[i].turn = queue[i].turn /\ q[i].steer = queue[i].steer
        /\ queue[i].turn = t => q[i].ver = ver /\ q[i].durable = durable
        /\ queue[i].turn # t => q[i] = queue[i]
  BY <1>1, <1>3 DEF Entry
<1>. QED
  BY <1>3, <1>4 DEF q

\* Removing a turn does not lengthen the queue.
LEMMA RetainFacts ==
    ASSUME queue \in Seq(Entry), NEW t
    PROVE  Retain(t) \in Seq(Entry) /\ Len(Retain(t)) <= Len(queue)
<1>1. (1..Len(queue)) \ Positions(t) \in SUBSET (1..Len(queue))
  OBVIOUS
<1>. QED
  BY <1>1, SubsequenceFacts DEF Retain

\* take_or_close looks at the first entry of its kind.
LEMMA NextIndexFacts ==
    ASSUME queue \in Seq(Entry), queue # <<>>
    PROVE  /\ NextIndex \in 1..Len(queue)
           /\ \A j \in 1..Len(queue) : queue[j].steer = queue[NextIndex].steer => NextIndex <= j
<1>1. CASE Steers = {}
  BY <1>1 DEF NextIndex
<1>2. CASE Steers # {}
  <2>1. Steers \in SUBSET (1..Len(queue))
    BY DEF Steers
  <2>. DEFINE c == Cardinality(Steers)
              m == Nth(Steers, 1)
  <2>2. /\ c \in Nat
        /\ \A k \in 1..c : Nth(Steers, k) \in Steers
        /\ \A k, l \in 1..c : k < l => Nth(Steers, k) < Nth(Steers, l)
        /\ \A i \in Steers : \E k \in 1..c : Nth(Steers, k) = i
    BY <2>1, NthPosition
  <2>3. 1 \in 1..c
    BY <1>2, <2>2
  <2>4. m \in Steers
    BY <2>2, <2>3
  <2>5. \A j \in Steers : m <= j
    <3>. SUFFICES ASSUME NEW j \in Steers
                  PROVE  m <= j
      OBVIOUS
    <3>1. PICK k \in 1..c : Nth(Steers, k) = j
      BY <2>2
    <3>2. m \in Nat /\ j \in Nat
      <4>1. \A i \in Steers : i \in Nat
        BY <2>1
      <4>. QED
        BY <2>4, <4>1
    <3>3. CASE k = 1
      BY <3>1, <3>2, <3>3
    <3>4. CASE k # 1
      <4>1. 1 < k
        BY <2>2, <3>4
      <4>2. m < j
        BY <2>2, <2>3, <3>1, <4>1
      <4>. QED
        BY <3>2, <4>2
    <3>. QED
      BY <3>3, <3>4
  <2>6. NextIndex \in Steers /\ \A j \in Steers : NextIndex <= j
    BY <1>2, <2>4, <2>5 DEF NextIndex
  <2>. QED
    BY <2>1, <2>6 DEF Steers
<1>. QED
  BY <1>1, <1>2

\* The types hold at the start.
LEMMA TypesInit ==
    ASSUME Init
    PROVE  Types
<1>. USE DEF Init
<1>1. QueueTypes /\ HistoryTypes /\ TakenTypes
  BY DEF QueueTypes, HistoryTypes, TakenTypes, Limit
<1>2. HandlerTypes
  BY DEF HandlerTypes, Handlers, Idle, Busy, Steps, Versions
<1>3. LedgerTypes
  BY DEF LedgerTypes
<1>4. FlagTypes
  BY DEF FlagTypes
<1>. QED
  BY <1>1, <1>2, <1>3, <1>4 DEF Types

\* Every step keeps the type of the queue and its capacity.
LEMMA QueueTypesStep ==
    ASSUME Types, [Next]_vars
    PROVE  QueueTypes'
<1>t. QueueTypes /\ HandlerTypes /\ handler.ver \in Versions /\ handler.original \in Versions
      /\ changes \in Nat /\ Limit \in Nat
  BY DEF Types, HandlerTypes, Handlers, HistoryTypes, Limit
<1>e. \A i \in 1..Len(queue) : queue[i] \in Entry
  BY <1>t DEF QueueTypes
<1>0. ASSUME UNCHANGED queue
      PROVE  QueueTypes'
  BY <1>t, <1>0 DEF QueueTypes, Limit
<1>1. ASSUME NEW t, NEW ver \in Versions, NEW durable \in BOOLEAN, queue' = SetEntry(t, ver, durable)
      PROVE  QueueTypes'
  BY <1>t, <1>1, SetEntryFacts DEF QueueTypes, Limit
<1>2. ASSUME NEW t, queue' = Retain(t)
      PROVE  QueueTypes'
  <2>1. queue' \in Seq(Entry) /\ Len(queue') <= Len(queue)
    BY <1>t, <1>2, RetainFacts DEF QueueTypes
  <2>2. Len(queue') \in Nat /\ Len(queue) \in Nat /\ Len(queue) <= Limit /\ Limit' = Limit
    BY <1>t, <2>1 DEF QueueTypes, Limit
  <2>. QED
    BY <1>t, <2>1, <2>2 DEF QueueTypes
<1>3. ASSUME NEW t \in Turns, NEW steer \in BOOLEAN, Reserve(t, steer)
      PROVE  QueueTypes'
  <2>1. [turn |-> t, ver |-> 1, steer |-> steer, durable |-> FALSE] \in Entry
    BY DEF Entry, Versions
  <2>. QED
    BY <1>t, <1>3, <2>1 DEF Reserve, HasRoom, QueueTypes, Limit
<1>4. ASSUME NEW t \in Turns, ReserveUpdate(t) \/ ReserveCancellation(t)
      PROVE  QueueTypes'
  <2>1. CASE ReserveUpdate(t)
    <3>1. changes + 2 \in Versions
      BY <1>t, <2>1 DEF ReserveUpdate, Versions
    <3>. QED
      BY <1>1, <2>1, <3>1 DEF ReserveUpdate
  <2>2. CASE ReserveCancellation(t)
    <3>1. PICK i \in Positions(t) : queue' = SetEntry(t, queue[i].ver, FALSE)
      BY <2>2 DEF ReserveCancellation
    <3>2. queue[i].ver \in Versions
      BY <1>e DEF Positions, Entry
    <3>. QED
      BY <1>1, <3>1, <3>2
  <2>. QED
    BY <1>4, <2>1, <2>2
<1>5. CASE Commit \/ CommitMutation \/ Rollback \/ Disconnect
  BY <1>t, <1>1, <1>2, <1>5 DEF Commit, CommitMutation, Rollback, Disconnect
<1>6. CASE TakeOrClose
  BY <1>0, <1>2, <1>6 DEF TakeOrClose, sharedVars
<1>7. CASE TakeReadySteers
  <2>1. CASE accepting
    <3>. DEFINE K == (1..Len(queue)) \ ReadySteers
    <3>1. queue' = Subsequence(queue, K) /\ K \in SUBSET (1..Len(queue))
      BY <1>7, <2>1 DEF TakeReadySteers
    <3>. HIDE DEF K
    <3>2. queue' \in Seq(Entry) /\ Len(queue') <= Len(queue)
      BY <1>t, <3>1, SubsequenceFacts DEF QueueTypes
    <3>3. Len(queue') \in Nat /\ Len(queue) \in Nat /\ Len(queue) <= Limit /\ Limit' = Limit
      BY <1>t, <3>2 DEF QueueTypes, Limit
    <3>. QED
      BY <1>t, <3>2, <3>3 DEF QueueTypes
  <2>2. CASE ~accepting
    BY <1>0, <1>7, <2>2 DEF TakeReadySteers
  <2>. QED
    BY <2>1, <2>2
<1>8. CASE \/ RecordEvent \/ HandlerNotify \/ Close \/ CloseNotify \/ Arm \/ Wake \/ LoopFails
           \/ UNCHANGED vars
  BY <1>0, <1>8 DEF RecordEvent, HandlerNotify, Close, CloseNotify, Arm, Wake, LoopFails, vars, sharedVars
<1>. QED
  BY <1>3, <1>4, <1>5, <1>6, <1>7, <1>8 DEF Next, HandlerStep

\* Every step keeps the type of the handler.
LEMMA HandlerTypesStep ==
    ASSUME Types, [Next]_vars
    PROVE  HandlerTypes'
<1>t. HandlerTypes /\ QueueTypes /\ changes \in 0..MaxChanges
  BY DEF Types, HistoryTypes
<1>e. \A i \in 1..Len(queue) : queue[i] \in Entry
  BY <1>t DEF QueueTypes
<1>0. ASSUME UNCHANGED handler
      PROVE  HandlerTypes'
  BY <1>t, <1>0 DEF HandlerTypes
<1>1. ASSUME NEW pc \in Steps, NEW t \in Turns, NEW ver \in Versions, NEW original \in Versions,
             handler' = Busy(pc, t, ver, original)
      PROVE  HandlerTypes'
  BY <1>1 DEF HandlerTypes, Handlers, Busy
<1>2. ASSUME handler' = Idle \/ handler' = Busy("notifying", NoTurn, 1, 1)
      PROVE  HandlerTypes'
  BY <1>2 DEF HandlerTypes, Handlers, Idle, Busy, Steps, Versions
<1>3. ASSUME NEW t \in Turns, NEW steer \in BOOLEAN, Reserve(t, steer)
      PROVE  HandlerTypes'
  <2>1. "queueing" \in Steps /\ 1 \in Versions
    BY DEF Steps, Versions
  <2>. QED
    BY <1>1, <1>3, <2>1 DEF Reserve
<1>4. ASSUME NEW t \in Turns, ReserveUpdate(t)
      PROVE  HandlerTypes'
  <2>1. PICK i \in Positions(t) : /\ handler' = Busy("updating", t, changes + 2, queue[i].ver)
                                  /\ changes < MaxChanges
    BY <1>4 DEF ReserveUpdate
  <2>2. queue[i].ver \in Versions /\ changes + 2 \in Versions /\ "updating" \in Steps
    BY <1>t, <1>e, <2>1 DEF Positions, Entry, Versions, Steps
  <2>. QED
    BY <1>1, <2>1, <2>2
<1>5. ASSUME NEW t \in Turns, ReserveCancellation(t)
      PROVE  HandlerTypes'
  <2>1. PICK i \in Positions(t) : handler' = Busy("cancelling", t, queue[i].ver, queue[i].ver)
    BY <1>5 DEF ReserveCancellation
  <2>2. queue[i].ver \in Versions /\ "cancelling" \in Steps
    BY <1>t, <1>e DEF Positions, Entry, Versions, Steps
  <2>. QED
    BY <1>1, <2>1, <2>2
<1>6. CASE RecordEvent
  <2>1. \E pc \in {"queued", "updated", "cancelled"} : handler' = [handler EXCEPT !.pc = pc]
    BY <1>6 DEF RecordEvent, At
  <2>2. handler.turn \in Turns
    BY <1>t, <1>6 DEF RecordEvent, HandlerTypes
  <2>. QED
    BY <1>t, <2>1, <2>2 DEF HandlerTypes, Handlers, Steps
<1>7. CASE Commit \/ CommitMutation \/ Rollback \/ Disconnect \/ HandlerNotify
  BY <1>2, <1>7 DEF Commit, CommitMutation, Rollback, Disconnect, HandlerNotify
<1>8. CASE Close \/ CloseNotify \/ Arm \/ TakeOrClose \/ Wake \/ TakeReadySteers \/ LoopFails
           \/ UNCHANGED vars
  BY <1>0, <1>8 DEF Close, CloseNotify, Arm, TakeOrClose, Wake, TakeReadySteers, LoopFails, vars
<1>. QED
  BY <1>3, <1>4, <1>5, <1>6, <1>7, <1>8 DEF Next, HandlerStep

\* Every step keeps the types of the ledger.
LEMMA LedgerTypesStep ==
    ASSUME Types, [Next]_vars
    PROVE  LedgerTypes'
<1>t. LedgerTypes
  BY DEF Types
<1>1. CASE RecordEvent
  <2>1. handler.ver \in 0..MaxChanges + 1 /\ handler.turn \in Turns
    BY <1>1 DEF Types, HandlerTypes, Handlers, Versions, RecordEvent
  <2>. QED
    BY <1>t, <1>1, <2>1 DEF RecordEvent, LedgerTypes
<1>2. ASSUME UNCHANGED ledgerVars
      PROVE  LedgerTypes'
  BY <1>t, <1>2 DEF ledgerVars, LedgerTypes
<1>. QED
  BY <1>1, <1>2 DEF Next, HandlerStep, Reserve, ReserveUpdate, ReserveCancellation, Commit,
     CommitMutation, Rollback, Disconnect, HandlerNotify, Close, CloseNotify, Arm, TakeOrClose, Wake,
     TakeReadySteers, LoopFails, vars

\* Every step keeps the types of the history.
LEMMA HistoryTypesStep ==
    ASSUME Types, [Next]_vars
    PROVE  HistoryTypes'
<1>t. HistoryTypes
  BY DEF Types
<1>1. ASSUME UNCHANGED historyVars
      PROVE  HistoryTypes'
  BY <1>t, <1>1 DEF historyVars, HistoryTypes
<1>2. ASSUME NEW t \in Turns, NEW steer \in BOOLEAN, Reserve(t, steer)
      PROVE  HistoryTypes'
  BY <1>t, <1>2 DEF Reserve, HistoryTypes
<1>3. ASSUME NEW t \in Turns, ReserveUpdate(t) \/ ReserveCancellation(t)
      PROVE  HistoryTypes'
  <2>1. changes < MaxChanges /\ changes' = changes + 1 /\ UNCHANGED <<arrived, cut>>
    BY <1>3 DEF ReserveUpdate, ReserveCancellation
  <2>. QED
    BY <1>t, <2>1 DEF HistoryTypes
<1>4. CASE Disconnect
  <2>1. handler.turn \in Turns
    BY <1>4 DEF Types, HandlerTypes, Disconnect
  <2>. QED
    BY <1>t, <1>4, <2>1 DEF Disconnect, HistoryTypes
<1>. QED
  BY <1>1, <1>2, <1>3, <1>4 DEF Next, HandlerStep, RecordEvent, Commit, CommitMutation, Rollback,
     HandlerNotify, Close, CloseNotify, Arm, TakeOrClose, Wake, TakeReadySteers, LoopFails, vars

\* Every step keeps the types of the flags and of the control states.
LEMMA FlagTypesStep ==
    ASSUME Types, [Next]_vars
    PROVE  FlagTypes'
<1>t. FlagTypes
  BY DEF Types
<1>1. accepting' \in BOOLEAN /\ ended' \in BOOLEAN
  BY <1>t DEF FlagTypes, Next, HandlerStep, Reserve, ReserveUpdate, ReserveCancellation, RecordEvent,
     Commit, CommitMutation, Rollback, Disconnect, HandlerNotify, Close, CloseNotify, Arm, TakeOrClose,
     Wake, TakeReadySteers, LoopFails, vars, sharedVars, loopVars
<1>2. woken' \in BOOLEAN
  BY <1>t DEF FlagTypes, Next, HandlerStep, Reserve, ReserveUpdate, ReserveCancellation, RecordEvent,
     Commit, CommitMutation, Rollback, Disconnect, HandlerNotify, Close, CloseNotify, Arm, TakeOrClose,
     Wake, TakeReadySteers, LoopFails, vars, Notify
<1>3. closer' \in {"none", "notify"}
  BY <1>t DEF FlagTypes, Next, HandlerStep, Reserve, ReserveUpdate, ReserveCancellation, RecordEvent,
     Commit, CommitMutation, Rollback, Disconnect, HandlerNotify, Close, CloseNotify, Arm, TakeOrClose,
     Wake, TakeReadySteers, LoopFails, vars
<1>4. taker' \in {"away", "armed", "waiting", "steers", "done"}
  BY <1>t DEF FlagTypes, Next, HandlerStep, Reserve, ReserveUpdate, ReserveCancellation, RecordEvent,
     Commit, CommitMutation, Rollback, Disconnect, HandlerNotify, Close, CloseNotify, Arm, TakeOrClose,
     Wake, TakeReadySteers, LoopFails, vars, loopVars
<1>. QED
  BY <1>1, <1>2, <1>3, <1>4 DEF FlagTypes

\* Every step keeps the type of what was taken.
LEMMA TakenTypesStep ==
    ASSUME Types, [Next]_vars
    PROVE  TakenTypes'
<1>t. TakenTypes /\ queue \in Seq(Entry)
  BY DEF Types, QueueTypes
<1>e. \A e \in Entry : Taken(e) \in TakenEntry
  BY DEF Taken, TakenEntry, Entry
<1>0. ASSUME UNCHANGED taken
      PROVE  TakenTypes'
  BY <1>t, <1>0 DEF TakenTypes
<1>1. CASE TakeOrClose
  <2>1. CASE accepting /\ queue # <<>> /\ queue[NextIndex].durable
    <3>1. taken' = Append(taken, Taken(queue[NextIndex]))
      BY <1>1, <2>1 DEF TakeOrClose
    <3>2. Taken(queue[NextIndex]) \in TakenEntry
      <4>1. queue[NextIndex] \in Entry
        BY <1>t, <2>1, NextIndexFacts
      <4>. QED
        BY <1>e, <4>1
    <3>. QED
      BY <1>t, <3>1, <3>2 DEF TakenTypes
  <2>. QED
    BY <1>0, <1>1, <2>1 DEF TakeOrClose
<1>2. CASE TakeReadySteers
  <2>1. CASE accepting
    <3>. DEFINE ready == Subsequence(queue, ReadySteers)
    <3>1. ReadySteers \in SUBSET (1..Len(queue))
      BY DEF ReadySteers, Steers
    <3>2. ready \in Seq(Entry)
      BY <1>t, <3>1, SubsequenceFacts
    <3>3. taken' = taken \o [i \in 1..Len(ready) |-> Taken(ready[i])]
      BY <1>2, <2>1 DEF TakeReadySteers
    <3>. HIDE DEF ready
    <3>4. [i \in 1..Len(ready) |-> Taken(ready[i])] \in Seq(TakenEntry)
      <4>1. \A i \in 1..Len(ready) : Taken(ready[i]) \in TakenEntry
        BY <1>e, <3>2
      <4>. QED
        BY <3>2, <4>1
    <3>. QED
      BY <1>t, <3>3, <3>4 DEF TakenTypes
  <2>. QED
    BY <1>0, <1>2, <2>1 DEF TakeReadySteers
<1>. QED
  BY <1>0, <1>1, <1>2 DEF Next, HandlerStep, Reserve, ReserveUpdate, ReserveCancellation, RecordEvent,
     Commit, CommitMutation, Rollback, Disconnect, HandlerNotify, Close, CloseNotify, Arm, Wake,
     LoopFails, vars, loopVars

\* Every step keeps the types.
LEMMA TypesStep == Types /\ [Next]_vars => Types'
BY QueueTypesStep, HandlerTypesStep, LedgerTypesStep, HistoryTypesStep, FlagTypesStep, TakenTypesStep
   DEF Types

\* The queue, the ledger and the threads keep their types, and the queue never
\* holds more than its capacity, reservations included.
THEOREM TypeCorrect == Spec => []TypeOK
<1>1. Types => TypeOK
  BY DEF Types, QueueTypes, HandlerTypes, Handlers, Steps, LedgerTypes, HistoryTypes, TakenTypes,
     TakenEntry, FlagTypes, TypeOK
<1>. QED
  BY <1>1, TypesInit, TypesStep, PTL DEF Spec

-----------------------------------------------------------------------------
(* The inductive invariant *)

Changing == {"queueing", "queued", "updating", "updated", "cancelling", "cancelled"}

Queued == {queue[i].turn : i \in 1..Len(queue)}

\* The turns that have arrived, and which of two arrived first.
Came == {arrived[i] : i \in 1..Len(arrived)}
Order == {p \in Turns \X Turns :
            \E i, j \in 1..Len(arrived) : i < j /\ arrived[i] = p[1] /\ arrived[j] = p[2]}

\* A turn arrives once, and the ledger and the loop know only those that did.
ArrivalInv ==
    /\ \A i, j \in 1..Len(arrived) : arrived[i] = arrived[j] => i = j
    /\ Queued \subseteq Came
    /\ TakenTurns \subseteq Came
    /\ \A t \in Turns \ Came : stored[t] = 0 /\ t \notin cancelled

\* The queue is in the order of arrival, and what was taken came before what is
\* still queued of its kind.
OrderInv ==
    /\ \A i, j \in 1..Len(queue) : i < j => <<queue[i].turn, queue[j].turn>> \in Order
    /\ \A i \in 1..Len(taken), j \in 1..Len(queue) :
        /\ taken[i].turn # queue[j].turn
        /\ taken[i].steer = queue[j].steer => <<taken[i].turn, queue[j].turn>> \in Order
    /\ \A i, j \in 1..Len(taken) :
        i < j /\ taken[i].steer = taken[j].steer => <<taken[i].turn, taken[j].turn>> \in Order

\* The one entry that is not durable is the handler's.
HandlerInv ==
    /\ handler.pc \in Changing =>
        \E i \in 1..Len(queue) :
            queue[i].turn = handler.turn /\ ~queue[i].durable /\ queue[i].ver = handler.ver
    /\ \A i \in 1..Len(queue) :
        ~queue[i].durable => handler.pc \in Changing /\ queue[i].turn = handler.turn

\* A turn has the version v in the ledger, unless its request was dropped.
Agrees(t, v) == t \notin cut => stored[t] = v /\ t \notin cancelled

\* What the ledger says of a durable entry, of the handler's turn at each of its
\* steps, and of what was taken.
QueueAgrees == \A i \in 1..Len(queue) : queue[i].durable => Agrees(queue[i].turn, queue[i].ver)
HandlerAgrees ==
    /\ handler.pc = "queueing" => stored[handler.turn] = 0 /\ handler.turn \notin cancelled
    /\ handler.pc \in {"queued", "updated"} => Agrees(handler.turn, handler.ver)
    /\ handler.pc \in {"updating", "cancelling"} => Agrees(handler.turn, handler.original)
    /\ handler.pc = "cancelled" => handler.turn \in cancelled
TakenAgrees == \A i \in 1..Len(taken) : Agrees(taken[i].turn, taken[i].ver)

LedgerInv == QueueAgrees /\ HandlerAgrees /\ TakenAgrees

\* A turn of the ledger is accounted for.
LeftInv ==
    /\ \A t \in Turns : stored[t] # 0 => t \in TakenTurns \cup cancelled \cup cut \cup Queued
    /\ ended => ~accepting /\ queue = <<>>

QueueInv == ArrivalInv /\ OrderInv /\ HandlerInv /\ LedgerInv /\ LeftInv

\* No turn is twice in the queue.
LEMMA QueuedOnce ==
    ASSUME Types, ArrivalInv, OrderInv,
           NEW i \in 1..Len(queue), NEW j \in 1..Len(queue), queue[i].turn = queue[j].turn
    PROVE  i = j
<1>1. \A t : <<t, t>> \notin Order
  <2>. SUFFICES ASSUME NEW t, <<t, t>> \in Order
                PROVE  FALSE
    OBVIOUS
  <2>1. PICK k, l \in 1..Len(arrived) : k < l /\ arrived[k] = t /\ arrived[l] = t
    BY DEF Order
  <2>2. k = l /\ k \in Nat
    BY <2>1 DEF ArrivalInv, Types, HistoryTypes
  <2>. QED
    BY <2>1, <2>2
<1>2. \A k, l \in 1..Len(queue) : k < l => queue[k].turn # queue[l].turn
  BY <1>1 DEF OrderInv
<1>3. i \in Nat /\ j \in Nat
  BY DEF Types, QueueTypes
<1>. QED
  BY <1>2, <1>3

-----------------------------------------------------------------------------
(* The shapes of a step *)

Sets(t, ver, durable) == queue' = SetEntry(t, ver, durable) /\ UNCHANGED <<taken, arrived>>

Removes(t) == queue' = Retain(t) /\ UNCHANGED <<taken, arrived>>

\* The loop takes the durable entries at K, which precede the others of their kind.
Takes(K) ==
    /\ K \in SUBSET (1..Len(queue))
    /\ \A i \in K : queue[i].durable
    /\ \A i \in K, j \in (1..Len(queue)) \ K : queue[i].steer = queue[j].steer => i < j
    /\ queue' = Subsequence(queue, (1..Len(queue)) \ K)
    /\ Len(taken') = Len(taken) + Cardinality(K)
    /\ \A i \in 1..Len(taken) : taken'[i] = taken[i]
    /\ \A k \in 1..Cardinality(K) : taken'[Len(taken) + k] = Taken(queue[Nth(K, k)])
    /\ UNCHANGED <<arrived, ledgerVars, handler, cut, accepting, ended>>

\* take_or_close takes the first durable entry of its kind, if it takes one.
LEMMA TakeOrCloseTakes ==
    ASSUME Types, ArrivalInv, OrderInv, TakeOrClose, queue' # queue \/ taken' # taken
    PROVE  Takes({NextIndex})
<1>t. queue \in Seq(Entry) /\ taken \in Seq(TakenEntry)
  BY DEF Types, QueueTypes, TakenTypes
<1>. DEFINE n == NextIndex
<1>1. /\ queue # <<>> /\ queue[n].durable
      /\ taken' = Append(taken, Taken(queue[n])) /\ queue' = Retain(queue[n].turn)
      /\ UNCHANGED <<arrived, ledgerVars, handler, cut, accepting, ended>>
  BY DEF TakeOrClose, sharedVars, historyVars
<1>2. n \in 1..Len(queue) /\ \A j \in 1..Len(queue) : queue[j].steer = queue[n].steer => n <= j
  BY <1>t, <1>1, NextIndexFacts
<1>. HIDE DEF n
<1>3. Positions(queue[n].turn) = {n}
  BY <1>2, QueuedOnce DEF Positions
<1>4. queue' = Subsequence(queue, (1..Len(queue)) \ {n})
  BY <1>1, <1>3 DEF Retain
<1>5. Cardinality({n}) = 1 /\ Nth({n}, 1) = n
  <2>1. Cardinality({n}) = 1
    BY FS_Singleton
  <2>2. {n} \in SUBSET (1..Len(queue)) /\ Len(queue) \in Nat
    BY <1>t, <1>2
  <2>3. \A k \in 1..Cardinality({n}) : Nth({n}, k) \in {n}
    BY <2>2, NthPosition
  <2>. QED
    BY <2>1, <2>3
<1>6. /\ Len(taken') = Len(taken) + 1 /\ taken'[Len(taken) + 1] = Taken(queue[n])
      /\ \A i \in 1..Len(taken) : taken'[i] = taken[i]
  BY <1>t, <1>1
<1>7. \A j \in (1..Len(queue)) \ {n} : queue[n].steer = queue[j].steer => n < j
  BY <1>t, <1>2
<1>8. Takes({n})
  <2>1. {n} \in SUBSET (1..Len(queue)) /\ \A i \in {n} : queue[i].durable
    BY <1>1, <1>2
  <2>2. \A i \in {n}, j \in (1..Len(queue)) \ {n} : queue[i].steer = queue[j].steer => i < j
    BY <1>7
  <2>3. \A k \in 1..Cardinality({n}) : taken'[Len(taken) + k] = Taken(queue[Nth({n}, k)])
    BY <1>5, <1>6
  <2>4. Len(taken') = Len(taken) + Cardinality({n})
    BY <1>5, <1>6
  <2>. QED
    BY <1>1, <1>4, <1>6, <2>1, <2>2, <2>3, <2>4 DEF Takes
<1>. QED
  BY <1>8 DEF n

\* take_ready_steers takes the leading durable steering entries.
LEMMA TakeReadySteersTakes ==
    ASSUME Types, TakeReadySteers, queue' # queue \/ taken' # taken
    PROVE  Takes(ReadySteers)
<1>t. queue \in Seq(Entry) /\ taken \in Seq(TakenEntry)
  BY DEF Types, QueueTypes, TakenTypes
<1>. DEFINE K == ReadySteers
            ready == Subsequence(queue, K)
            new == [i \in 1..Len(ready) |-> Taken(ready[i])]
<1>1. /\ taken' = taken \o new
      /\ queue' = Subsequence(queue, (1..Len(queue)) \ K)
      /\ UNCHANGED <<arrived, ledgerVars, handler, cut, accepting, ended>>
  BY DEF TakeReadySteers, historyVars
<1>2. K \in SUBSET (1..Len(queue)) /\ \A i \in K : queue[i].durable
  BY <1>t DEF ReadySteers, Steers
<1>3. \A i \in K, j \in (1..Len(queue)) \ K : queue[i].steer = queue[j].steer => i < j
  <2>. SUFFICES ASSUME NEW i \in K, NEW j \in (1..Len(queue)) \ K, queue[i].steer = queue[j].steer,
                       ~(i < j)
                PROVE  FALSE
    OBVIOUS
  <2>1. i \in Steers /\ j \in Steers /\ \A k \in Steers : k <= i => queue[k].durable
    BY DEF ReadySteers, Steers
  <2>2. i \in Nat /\ j \in Nat /\ \A k \in Steers : k \in Nat
    BY <1>t, <2>1 DEF Steers
  <2>3. j <= i
    BY <2>2
  <2>4. \A k \in Steers : k <= j => k <= i
    BY <2>2, <2>3
  <2>. QED
    BY <2>1, <2>4 DEF ReadySteers
<1>4. /\ ready \in Seq(Entry) /\ Len(ready) = Cardinality(K) /\ Cardinality(K) \in Nat
      /\ \A k \in 1..Cardinality(K) : ready[k] = queue[Nth(K, k)]
  BY <1>t, <1>2, SubsequenceFacts
<1>. HIDE DEF K, ready
<1>5. \A k \in 1..Cardinality(K) : Taken(ready[k]) \in TakenEntry
  <2>1. \A e \in Entry : Taken(e) \in TakenEntry
    BY DEF Taken, TakenEntry, Entry
  <2>. QED
    BY <1>4, <2>1
<1>6. /\ new \in Seq(TakenEntry) /\ Len(new) = Cardinality(K)
      /\ \A k \in 1..Cardinality(K) : new[k] = Taken(queue[Nth(K, k)])
  BY <1>4, <1>5
<1>. HIDE DEF new
<1>7. /\ Len(taken') = Len(taken) + Cardinality(K)
      /\ \A i \in 1..Len(taken) : taken'[i] = taken[i]
      /\ \A k \in 1..Cardinality(K) : taken'[Len(taken) + k] = new[k]
  <2>1. Len(taken) \in Nat /\ Len(new) \in Nat
    BY <1>t, <1>4, <1>6
  <2>2. Len(taken') = Len(taken) + Cardinality(K)
    <3>1. Len(taken \o new) = Len(taken) + Len(new)
      BY <1>t, <1>6
    <3>. QED
      BY <1>1, <1>6, <3>1
  <2>3. ASSUME NEW i \in 1..Len(taken)
        PROVE  taken'[i] = taken[i]
    <3>1. i \in 1..(Len(taken) + Len(new)) /\ i <= Len(taken)
      BY <2>1
    <3>. QED
      BY <1>t, <1>1, <1>6, <2>1, <3>1
  <2>4. ASSUME NEW k \in 1..Cardinality(K)
        PROVE  taken'[Len(taken) + k] = new[k]
    <3>1. k \in 1..Len(new) /\ Len(taken) + k > Len(taken)
          /\ Len(taken) + k <= Len(taken) + Len(new) /\ Len(taken) + k - Len(taken) = k
      BY <1>4, <1>6, <2>1
    <3>. QED
      BY <1>t, <1>1, <1>6, <2>1, <3>1
  <2>. QED
    BY <2>2, <2>3, <2>4
<1>8. Takes(K)
  BY <1>1, <1>2, <1>3, <1>6, <1>7 DEF Takes
<1>. QED
  BY <1>8 DEF K

\* Every step reserves a place, or keeps the entries it does not remove in their
\* order.
Moves ==
    \/ \E t \in Turns, ver \in Versions, durable \in BOOLEAN : Sets(t, ver, durable)
    \/ \E t \in Turns : Removes(t)
    \/ \E K : Takes(K)
    \/ UNCHANGED <<queue, taken, arrived>>

\* Every step is a reservation or has one of the shapes.
LEMMA NextMoves ==
    ASSUME Types, ArrivalInv, OrderInv, [Next]_vars
    PROVE  Moves \/ \E t \in Turns, steer \in BOOLEAN : Reserve(t, steer)
<1>t. /\ handler.ver \in Versions /\ handler.original \in Versions /\ changes \in 0..MaxChanges
      /\ handler.pc \in Changing => handler.turn \in Turns
  BY DEF Types, HandlerTypes, Handlers, HistoryTypes, Changing
<1>e. \A i \in 1..Len(queue) : queue[i] \in Entry
  BY DEF Types, QueueTypes
<1>. USE DEF Moves
<1>1. ASSUME NEW t \in Turns, ReserveUpdate(t)
      PROVE  Moves
  <2>1. changes + 2 \in Versions
    BY <1>t, <1>1 DEF ReserveUpdate, Versions
  <2>. QED
    BY <1>1, <2>1 DEF ReserveUpdate, Sets, loopVars
<1>2. ASSUME NEW t \in Turns, ReserveCancellation(t)
      PROVE  Moves
  <2>1. PICK i \in Positions(t) : queue' = SetEntry(t, queue[i].ver, FALSE)
    BY <1>2 DEF ReserveCancellation
  <2>2. queue[i].ver \in Versions
    BY <1>e DEF Positions, Entry
  <2>. QED
    BY <1>2, <2>1, <2>2 DEF ReserveCancellation, Sets, loopVars
<1>3. CASE Commit \/ CommitMutation \/ Rollback \/ Disconnect
  <2>1. UNCHANGED <<taken, arrived>> /\ handler.pc \in Changing
    BY <1>3 DEF Commit, CommitMutation, Rollback, Disconnect, loopVars, historyVars, Changing
  <2>2. \/ queue' = Retain(handler.turn) \/ queue' = SetEntry(handler.turn, handler.ver, TRUE)
        \/ queue' = SetEntry(handler.turn, handler.original, TRUE)
    BY <1>3 DEF Commit, CommitMutation, Rollback, Disconnect
  <2>. QED
    BY <1>t, <2>1, <2>2 DEF Sets, Removes
<1>4. CASE TakeOrClose \/ TakeReadySteers
  <2>1. UNCHANGED arrived
    BY <1>4 DEF TakeOrClose, TakeReadySteers, historyVars
  <2>. QED
    BY <1>4, <2>1, TakeOrCloseTakes, TakeReadySteersTakes
<1>5. CASE \/ RecordEvent \/ HandlerNotify \/ Close \/ CloseNotify \/ Arm \/ Wake \/ LoopFails
           \/ UNCHANGED vars
  BY <1>5 DEF RecordEvent, HandlerNotify, Close, CloseNotify, Arm, Wake, LoopFails, vars, sharedVars,
     loopVars, historyVars
<1>. QED
  BY <1>1, <1>2, <1>3, <1>4, <1>5 DEF Next, HandlerStep

\* Where the entries of the next queue were.
Embeds(pos) ==
    /\ \A k \in 1..Len(queue') :
        /\ pos[k] \in 1..Len(queue)
        /\ queue'[k].turn = queue[pos[k]].turn /\ queue'[k].steer = queue[pos[k]].steer
    /\ \A k, l \in 1..Len(queue') : k < l => pos[k] < pos[l]

\* Steps of these shapes keep the order of the entries that stay.
LEMMA MovesEmbed ==
    ASSUME Types, Moves
    PROVE  \E pos : Embeds(pos)
<1>t. queue \in Seq(Entry) /\ Len(queue) \in Nat
  BY DEF Types, QueueTypes
<1>1. ASSUME NEW K \in SUBSET (1..Len(queue)), queue' = Subsequence(queue, K)
      PROVE  \E pos : Embeds(pos)
  <2>. DEFINE c == Cardinality(K)
              pos == [k \in 1..c |-> Nth(K, k)]
  <2>1. /\ Len(queue') = c /\ c \in Nat
        /\ \A k \in 1..c : Nth(K, k) \in K /\ queue'[k] = queue[Nth(K, k)]
        /\ \A k, l \in 1..c : k < l => Nth(K, k) < Nth(K, l)
    BY <1>t, <1>1, SubsequenceFacts
  <2>2. Embeds(pos)
    BY <2>1 DEF Embeds
  <2>. QED
    BY <2>2
<1>2. ASSUME Len(queue') = Len(queue),
             \A k \in 1..Len(queue) : queue'[k].turn = queue[k].turn /\ queue'[k].steer = queue[k].steer
      PROVE  \E pos : Embeds(pos)
  <2>. DEFINE pos == [k \in 1..Len(queue) |-> k]
  <2>1. Embeds(pos)
    BY <1>2 DEF Embeds
  <2>. QED
    BY <2>1
<1>3. ASSUME NEW t \in Turns, NEW ver \in Versions, NEW durable \in BOOLEAN, Sets(t, ver, durable)
      PROVE  \E pos : Embeds(pos)
  BY <1>t, <1>2, <1>3, SetEntryFacts DEF Sets
<1>4. ASSUME NEW t \in Turns, Removes(t)
      PROVE  \E pos : Embeds(pos)
  BY <1>1, <1>4 DEF Removes, Retain
<1>5. ASSUME NEW K, Takes(K)
      PROVE  \E pos : Embeds(pos)
  BY <1>1, <1>5 DEF Takes
<1>. QED
  BY <1>2, <1>3, <1>4, <1>5 DEF Moves

\* What is taken was taken before, or is one of the queue's entries.
LEMMA MovesTake ==
    ASSUME Types, Moves, NEW i \in 1..Len(taken')
    PROVE  \/ i \in 1..Len(taken) /\ taken'[i] = taken[i]
           \/ \E K, k : /\ Takes(K) /\ k \in 1..Cardinality(K) /\ i = Len(taken) + k
                        /\ Nth(K, k) \in K /\ taken'[i] = Taken(queue[Nth(K, k)])
<1>t. taken \in Seq(TakenEntry) /\ Len(taken) \in Nat /\ Len(queue) \in Nat
  BY DEF Types, TakenTypes, QueueTypes
<1>1. CASE UNCHANGED taken
  BY <1>1
<1>2. ASSUME NEW K, Takes(K)
      PROVE  \/ i \in 1..Len(taken) /\ taken'[i] = taken[i]
             \/ \E k : /\ k \in 1..Cardinality(K) /\ i = Len(taken) + k
                       /\ Nth(K, k) \in K /\ taken'[i] = Taken(queue[Nth(K, k)])
  <2>1. /\ Cardinality(K) \in Nat /\ \A k \in 1..Cardinality(K) : Nth(K, k) \in K
        /\ Len(taken') = Len(taken) + Cardinality(K)
    BY <1>t, <1>2, NthPosition DEF Takes
  <2>2. CASE i \in 1..Len(taken)
    BY <1>2, <2>2 DEF Takes
  <2>3. CASE i \notin 1..Len(taken)
    <3>1. i - Len(taken) \in 1..Cardinality(K) /\ i = Len(taken) + (i - Len(taken))
      BY <1>t, <2>1, <2>3
    <3>2. taken'[Len(taken) + (i - Len(taken))] = Taken(queue[Nth(K, i - Len(taken))])
      BY <1>2, <3>1 DEF Takes
    <3>. QED
      BY <2>1, <3>1, <3>2
  <2>. QED
    BY <2>2, <2>3
<1>. QED
  BY <1>1, <1>2 DEF Moves, Sets, Removes

\* Only the handler's record changes the ledger, and only for its turn.
LEMMA LedgerChanges ==
    ASSUME Types, [Next]_vars
    PROVE  \/ UNCHANGED ledgerVars
           \/ /\ RecordEvent
              /\ \A t \in Turns : t # handler.turn =>
                    stored'[t] = stored[t] /\ (t \in cancelled' <=> t \in cancelled)
<1>1. CASE RecordEvent
  BY <1>1 DEF RecordEvent, Types, LedgerTypes
<1>. QED
  BY <1>1 DEF Next, HandlerStep, Reserve, ReserveUpdate, ReserveCancellation, Commit, CommitMutation,
     Rollback, Disconnect, HandlerNotify, Close, CloseNotify, Arm, TakeOrClose, Wake, TakeReadySteers,
     LoopFails, vars

\* Every step keeps queue, ledger and loop to turns that have arrived, once.
LEMMA ArrivalInvStep ==
    ASSUME Types, Types', QueueInv, [Next]_vars
    PROVE  ArrivalInv'
<1>t. arrived \in Seq(Turns) /\ Len(arrived) \in Nat /\ queue \in Seq(Entry) /\ Len(queue) \in Nat
  BY DEF Types, HistoryTypes, QueueTypes
<1>i. ArrivalInv /\ OrderInv /\ HandlerInv
  BY DEF QueueInv
<1>1. ASSUME Moves
      PROVE  ArrivalInv'
  <2>0. UNCHANGED arrived /\ Came' = Came
    BY <1>1 DEF Moves, Sets, Removes, Takes, Came
  <2>1. Queued' \subseteq Came
    <3>1. PICK pos : Embeds(pos)
      BY <1>1, MovesEmbed
    <3>. QED
      BY <1>i, <3>1 DEF Embeds, Queued, ArrivalInv
  <2>2. TakenTurns' \subseteq Came
    <3>. SUFFICES ASSUME NEW i \in 1..Len(taken')
                  PROVE  taken'[i].turn \in Came
      BY DEF TakenTurns
    <3>1. CASE i \in 1..Len(taken) /\ taken'[i] = taken[i]
      BY <1>i, <3>1 DEF ArrivalInv, TakenTurns
    <3>2. ASSUME NEW K, NEW k, Takes(K), Nth(K, k) \in K, taken'[i] = Taken(queue[Nth(K, k)])
          PROVE  taken'[i].turn \in Came
      <4>1. PICK n \in K : n = Nth(K, k)
        BY <3>2
      <4>2. n \in 1..Len(queue)
        BY <3>2 DEF Takes
      <4>3. taken'[i].turn = queue[n].turn
        BY <3>2, <4>1 DEF Taken
      <4>. QED
        BY <1>i, <4>2, <4>3 DEF ArrivalInv, Queued
    <3>. QED
      BY <1>1, <3>1, <3>2, MovesTake
  <2>3. \A t \in Turns \ Came : stored'[t] = 0 /\ t \notin cancelled'
    <3>1. CASE UNCHANGED ledgerVars
      BY <1>i, <3>1 DEF ledgerVars, ArrivalInv
    <3>2. CASE /\ RecordEvent
               /\ \A t \in Turns : t # handler.turn =>
                    stored'[t] = stored[t] /\ (t \in cancelled' <=> t \in cancelled)
      <4>1. handler.turn \in Came
        BY <1>i, <3>2 DEF RecordEvent, HandlerInv, ArrivalInv, Changing, Queued
      <4>. QED
        BY <1>i, <3>2, <4>1 DEF ArrivalInv
    <3>. QED
      BY <3>1, <3>2, LedgerChanges
  <2>. QED
    BY <1>i, <2>0, <2>1, <2>2, <2>3 DEF ArrivalInv
<1>2. ASSUME NEW t \in Turns, NEW steer \in BOOLEAN, Reserve(t, steer)
      PROVE  ArrivalInv'
  <2>1. /\ arrived' = Append(arrived, t) /\ UNCHANGED <<taken, ledgerVars>>
        /\ queue' = Append(queue, [turn |-> t, ver |-> 1, steer |-> steer, durable |-> FALSE])
        /\ \A i \in 1..Len(arrived) : arrived[i] # t
    BY <1>2 DEF Reserve, loopVars
  <2>2. Came' = Came \cup {t}
    BY <1>t, <2>1 DEF Came
  <2>3. Queued' = Queued \cup {t}
    BY <1>t, <2>1 DEF Queued
  <2>4. \A i, j \in 1..Len(arrived') : arrived'[i] = arrived'[j] => i = j
    BY <1>t, <1>i, <2>1 DEF ArrivalInv
  <2>5. TakenTurns' = TakenTurns
    BY <2>1 DEF TakenTurns
  <2>. QED
    BY <1>i, <2>1, <2>2, <2>3, <2>4, <2>5 DEF ArrivalInv, ledgerVars
<1>. QED
  BY <1>i, <1>1, <1>2, NextMoves

\* Every step keeps queue and taken turns in the order of arrival.
LEMMA OrderInvStep ==
    ASSUME Types, Types', QueueInv, [Next]_vars
    PROVE  OrderInv'
<1>t. arrived \in Seq(Turns) /\ Len(arrived) \in Nat /\ queue \in Seq(Entry) /\ Len(queue) \in Nat
      /\ taken \in Seq(TakenEntry) /\ Len(taken) \in Nat
  BY DEF Types, HistoryTypes, QueueTypes, TakenTypes
<1>i. ArrivalInv /\ OrderInv
  BY DEF QueueInv
<1>1. ASSUME Moves
      PROVE  OrderInv'
  <2>0. Order' = Order
    BY <1>1 DEF Moves, Sets, Removes, Takes, Order
  <2>1. PICK pos : Embeds(pos)
    BY <1>1, MovesEmbed
  <2>2. \A i, j \in 1..Len(queue') : i < j => <<queue'[i].turn, queue'[j].turn>> \in Order
    BY <1>i, <2>1 DEF Embeds, OrderInv
  <2>3. CASE UNCHANGED taken
    <3>1. \A i \in 1..Len(taken), j \in 1..Len(queue') :
            /\ taken[i].turn # queue'[j].turn
            /\ taken[i].steer = queue'[j].steer => <<taken[i].turn, queue'[j].turn>> \in Order
      BY <1>i, <2>1 DEF Embeds, OrderInv
    <3>. QED
      BY <1>i, <2>0, <2>2, <2>3, <3>1 DEF OrderInv
  <2>4. ASSUME NEW K, Takes(K)
        PROVE  OrderInv'
    <3>. DEFINE c == Cardinality(K)
                L == (1..Len(queue)) \ K
                d == Cardinality(L)
    <3>1. /\ K \in SUBSET (1..Len(queue)) /\ L \in SUBSET (1..Len(queue))
          /\ queue' = Subsequence(queue, L)
          /\ \A i \in K, j \in L : queue[i].steer = queue[j].steer => i < j
      BY <2>4 DEF Takes
    <3>2. /\ Len(queue') = d
          /\ \A k \in 1..d : Nth(L, k) \in L /\ queue'[k] = queue[Nth(L, k)]
      BY <1>t, <3>1, SubsequenceFacts, SMTT(40)
    <3>3. \A k, l \in 1..c : k < l => Nth(K, k) < Nth(K, l)
      BY <1>t, <3>1, NthPosition
    <3>4. c \in Nat
      BY <1>t, <3>1, NthPosition
    <3>5. ASSUME NEW i \in 1..Len(taken')
          PROVE  \/ i \in 1..Len(taken) /\ taken'[i] = taken[i]
                 \/ \E k \in 1..c : /\ i = Len(taken) + k /\ Nth(K, k) \in K
                                    /\ taken'[i] = Taken(queue[Nth(K, k)])
      <4>1. Len(taken') = Len(taken) + c
        BY <2>4 DEF Takes
      <4>2. CASE i \in 1..Len(taken)
        BY <2>4, <4>2 DEF Takes
      <4>3. CASE i \notin 1..Len(taken)
        <5>1. i - Len(taken) \in 1..c /\ i = Len(taken) + (i - Len(taken))
          BY <1>t, <3>4, <4>1, <4>3
        <5>2. taken'[Len(taken) + (i - Len(taken))] = Taken(queue[Nth(K, i - Len(taken))])
          BY <2>4, <5>1 DEF Takes
        <5>3. Nth(K, i - Len(taken)) \in K
          BY <1>t, <3>1, <5>1, NthPosition
        <5>. QED
          BY <5>1, <5>2, <5>3
      <4>. QED
        BY <4>2, <4>3
    <3>. HIDE DEF L, c, d
    <3>6. ASSUME NEW i \in 1..Len(taken'), NEW j \in 1..Len(queue')
          PROVE  /\ taken'[i].turn # queue'[j].turn
                 /\ taken'[i].steer = queue'[j].steer => <<taken'[i].turn, queue'[j].turn>> \in Order
      <4>1. PICK m \in L : queue'[j] = queue[m]
        BY <3>2
      <4>2. m \in 1..Len(queue) /\ m \notin K
        BY <3>1 DEF L
      <4>3. CASE i \in 1..Len(taken) /\ taken'[i] = taken[i]
        BY <1>i, <4>1, <4>2, <4>3 DEF OrderInv
      <4>4. ASSUME NEW k \in 1..c, Nth(K, k) \in K, taken'[i] = Taken(queue[Nth(K, k)])
            PROVE  /\ taken'[i].turn # queue'[j].turn
                   /\ taken'[i].steer = queue'[j].steer => <<taken'[i].turn, queue'[j].turn>> \in Order
        <5>1. PICK n \in K : n = Nth(K, k)
          BY <4>4
        <5>2. n \in 1..Len(queue) /\ n # m
          BY <3>1, <4>2
        <5>3. taken'[i].turn = queue[n].turn /\ taken'[i].steer = queue[n].steer
          BY <4>4, <5>1 DEF Taken
        <5>4. queue[n].turn # queue[m].turn
          BY <1>i, <4>2, <5>2, QueuedOnce
        <5>5. queue[n].steer = queue[m].steer => <<queue[n].turn, queue[m].turn>> \in Order
          BY <1>i, <3>1, <4>2, <5>2 DEF OrderInv
        <5>. QED
          BY <4>1, <5>3, <5>4, <5>5
      <4>. QED
        BY <3>5, <4>3, <4>4
    <3>7. ASSUME NEW i \in 1..Len(taken'), NEW j \in 1..Len(taken'), i < j,
                 taken'[i].steer = taken'[j].steer
          PROVE  <<taken'[i].turn, taken'[j].turn>> \in Order
      <4>1. CASE j \in 1..Len(taken) /\ taken'[j] = taken[j]
        <5>1. i \in 1..Len(taken)
          BY <1>t, <3>7, <4>1
        <5>2. taken'[i] = taken[i]
          BY <2>4, <5>1 DEF Takes
        <5>. QED
          BY <1>i, <3>7, <4>1, <5>1, <5>2 DEF OrderInv
      <4>2. ASSUME NEW l \in 1..c, j = Len(taken) + l, Nth(K, l) \in K,
                   taken'[j] = Taken(queue[Nth(K, l)])
            PROVE  <<taken'[i].turn, taken'[j].turn>> \in Order
        <5>1. PICK m \in K : m = Nth(K, l)
          BY <4>2
        <5>2. m \in 1..Len(queue) /\ taken'[j].turn = queue[m].turn /\ taken'[j].steer = queue[m].steer
          BY <3>1, <4>2, <5>1 DEF Taken
        <5>3. CASE i \in 1..Len(taken) /\ taken'[i] = taken[i]
          BY <1>i, <3>7, <5>2, <5>3 DEF OrderInv
        <5>4. ASSUME NEW k \in 1..c, i = Len(taken) + k, Nth(K, k) \in K,
                     taken'[i] = Taken(queue[Nth(K, k)])
              PROVE  <<taken'[i].turn, taken'[j].turn>> \in Order
          <6>1. k < l
            BY <1>t, <3>4, <3>7, <4>2, <5>4
          <6>2. Nth(K, k) < Nth(K, l)
            BY <3>3, <6>1
          <6>3. PICK n \in K : n = Nth(K, k)
            BY <5>4
          <6>4. n \in 1..Len(queue) /\ taken'[i].turn = queue[n].turn /\ n < m
            BY <3>1, <5>1, <5>4, <6>2, <6>3 DEF Taken
          <6>. QED
            BY <1>i, <5>2, <6>4 DEF OrderInv
        <5>. QED
          BY <3>5, <5>3, <5>4
      <4>. QED
        BY <3>5, <4>1, <4>2
    <3>. QED
      BY <2>0, <2>2, <3>6, <3>7 DEF OrderInv
  <2>. QED
    BY <1>1, <2>3, <2>4 DEF Moves, Sets, Removes
<1>2. ASSUME NEW t \in Turns, NEW steer \in BOOLEAN, Reserve(t, steer)
      PROVE  OrderInv'
  <2>1. /\ arrived' = Append(arrived, t) /\ UNCHANGED taken
        /\ queue' = Append(queue, [turn |-> t, ver |-> 1, steer |-> steer, durable |-> FALSE])
        /\ \A i \in 1..Len(arrived) : arrived[i] # t
    BY <1>2 DEF Reserve, loopVars
  <2>2. Order \subseteq Order'
    <3>1. /\ Len(arrived') = Len(arrived) + 1
          /\ \A k \in 1..Len(arrived) : k \in 1..Len(arrived') /\ arrived'[k] = arrived[k]
      BY <1>t, <2>1
    <3>. SUFFICES ASSUME NEW p \in Order
                  PROVE  p \in Order'
      OBVIOUS
    <3>2. PICK k, l \in 1..Len(arrived) : k < l /\ arrived[k] = p[1] /\ arrived[l] = p[2]
      BY DEF Order
    <3>3. p \in Turns \X Turns
      BY DEF Order
    <3>. QED
      BY <3>1, <3>2, <3>3 DEF Order
  <2>3. \A u \in Came : u # t /\ <<u, t>> \in Order'
    <3>. SUFFICES ASSUME NEW k \in 1..Len(arrived)
                  PROVE  arrived[k] # t /\ <<arrived[k], t>> \in Order'
      BY DEF Came
    <3>1. arrived'[k] = arrived[k] /\ arrived'[Len(arrived) + 1] = t /\ k < Len(arrived) + 1
          /\ k \in 1..Len(arrived') /\ Len(arrived) + 1 \in 1..Len(arrived') /\ arrived[k] \in Turns
      BY <1>t, <2>1
    <3>. QED
      BY <2>1, <3>1 DEF Order
  <2>4. /\ Len(queue') = Len(queue) + 1 /\ queue'[Len(queue) + 1].turn = t
        /\ \A i \in 1..Len(queue) : queue'[i] = queue[i] /\ queue[i].turn \in Came
    BY <1>t, <1>i, <2>1 DEF ArrivalInv, Queued
  <2>5. \A i \in 1..Len(taken) : taken[i].turn \in Came
    BY <1>i DEF ArrivalInv, TakenTurns
  <2>6. \A i, j \in 1..Len(queue') : i < j => <<queue'[i].turn, queue'[j].turn>> \in Order'
    <3>. SUFFICES ASSUME NEW i \in 1..Len(queue'), NEW j \in 1..Len(queue'), i < j
                  PROVE  <<queue'[i].turn, queue'[j].turn>> \in Order'
      OBVIOUS
    <3>1. i \in 1..Len(queue)
      BY <1>t, <2>4
    <3>2. CASE j \in 1..Len(queue)
      BY <1>i, <2>2, <2>4, <3>1, <3>2 DEF OrderInv
    <3>3. CASE j = Len(queue) + 1
      BY <2>3, <2>4, <3>1, <3>3
    <3>. QED
      BY <1>t, <2>4, <3>2, <3>3
  <2>7. ASSUME NEW i \in 1..Len(taken), NEW j \in 1..Len(queue')
        PROVE  /\ taken[i].turn # queue'[j].turn
               /\ taken[i].steer = queue'[j].steer => <<taken[i].turn, queue'[j].turn>> \in Order'
    <3>1. CASE j \in 1..Len(queue)
      BY <1>i, <2>2, <2>4, <3>1 DEF OrderInv
    <3>2. CASE j = Len(queue) + 1
      BY <2>3, <2>4, <2>5, <3>2
    <3>. QED
      BY <1>t, <2>4, <3>1, <3>2
  <2>. QED
    BY <1>i, <2>1, <2>2, <2>6, <2>7, ZenonT(60) DEF OrderInv
<1>. QED
  BY <1>i, <1>1, <1>2, NextMoves

\* What stays in the queue when a turn is removed from it.
LEMMA RetainEntries ==
    ASSUME queue \in Seq(Entry), NEW t
    PROVE  /\ \A k \in 1..Len(Retain(t)) :
                \E i \in 1..Len(queue) : queue[i].turn # t /\ Retain(t)[k] = queue[i]
           /\ \A i \in 1..Len(queue) : queue[i].turn # t =>
                \E k \in 1..Len(Retain(t)) : Retain(t)[k] = queue[i]
<1>. DEFINE L == (1..Len(queue)) \ Positions(t)
            d == Cardinality(L)
            q == Retain(t)
<1>1. \A i : i \in L <=> i \in 1..Len(queue) /\ queue[i].turn # t
  BY DEF Positions
<1>2. L \in SUBSET (1..Len(queue)) /\ q = Subsequence(queue, L)
  BY DEF Retain
<1>. HIDE DEF L
<1>3. /\ Len(q) = d
      /\ \A k \in 1..d : Nth(L, k) \in L /\ q[k] = queue[Nth(L, k)]
      /\ \A i \in L : \E k \in 1..d : Nth(L, k) = i
  BY <1>2, SubsequenceFacts
<1>. HIDE DEF q, d
<1>4. \A k \in 1..Len(q) : \E i \in L : q[k] = queue[i]
  BY <1>3
<1>5. \A i \in L : \E k \in 1..Len(q) : q[k] = queue[i]
  BY <1>3
<1>. QED
  BY <1>1, <1>4, <1>5 DEF q

\* What stays in the queue when the loop takes some of its entries.
LEMMA TakesEntries ==
    ASSUME queue \in Seq(Entry), NEW K, Takes(K)
    PROVE  /\ \A k \in 1..Len(queue') : \E i \in (1..Len(queue)) \ K : queue'[k] = queue[i]
           /\ \A i \in (1..Len(queue)) \ K : \E k \in 1..Len(queue') : queue'[k] = queue[i]
<1>. DEFINE L == (1..Len(queue)) \ K
            d == Cardinality(L)
<1>1. L \in SUBSET (1..Len(queue)) /\ queue' = Subsequence(queue, L)
  BY DEF Takes
<1>. HIDE DEF L
<1>2. /\ Len(queue') = d
      /\ \A k \in 1..d : Nth(L, k) \in L /\ queue'[k] = queue[Nth(L, k)]
      /\ \A i \in L : \E k \in 1..d : Nth(L, k) = i
  BY <1>1, SubsequenceFacts
<1>. HIDE DEF d
<1>3. \A k \in 1..Len(queue') : \E i \in L : queue'[k] = queue[i]
  BY <1>2
<1>4. \A i \in L : \E k \in 1..Len(queue') : queue'[k] = queue[i]
  BY <1>2
<1>. QED
  BY <1>3, <1>4 DEF L

\* While the handler holds no reservation or mutation every entry is durable.
AllDurable == \A i \in 1..Len(queue) : queue[i].durable

\* Giving up or committing the handler's own entry leaves only durable ones.
LEMMA SettledIsDurable ==
    ASSUME Types, HandlerInv, Commit \/ CommitMutation \/ Rollback \/ Disconnect
    PROVE  AllDurable' /\ handler'.pc \notin Changing
<1>t. queue \in Seq(Entry) /\ handler.ver \in Versions /\ handler.original \in Versions
  BY DEF Types, QueueTypes, HandlerTypes, Handlers
<1>1. handler'.pc \notin Changing
  <2>1. handler' = Idle \/ handler' = Busy("notifying", NoTurn, 1, 1)
    BY DEF Commit, CommitMutation, Rollback, Disconnect
  <2>. QED
    BY <2>1 DEF Idle, Busy, Changing
<1>2. \A i \in 1..Len(queue) : queue[i].turn # handler.turn => queue[i].durable
  BY DEF HandlerInv
<1>3. ASSUME NEW ver \in Versions, queue' = SetEntry(handler.turn, ver, TRUE)
      PROVE  AllDurable'
  <2>0. PICK t : t = handler.turn
    OBVIOUS
  <2>b. PICK b \in BOOLEAN : b = TRUE
    OBVIOUS
  <2>1. queue' = SetEntry(t, ver, b)
    BY <1>3, <2>0, <2>b
  <2>2. /\ Len(queue') = Len(queue)
        /\ \A i \in 1..Len(queue) :
            /\ queue[i].turn = t => queue'[i].durable = b
            /\ queue[i].turn # t => queue'[i] = queue[i]
    BY <1>t, <2>1, SetEntryFacts
  <2>3. \A i \in 1..Len(queue) : queue'[i].durable
    BY <1>2, <2>0, <2>b, <2>2
  <2>. QED
    BY <2>2, <2>3 DEF AllDurable
<1>4. CASE queue' = Retain(handler.turn)
  <2>1. \A k \in 1..Len(queue') :
          \E i \in 1..Len(queue) : queue[i].turn # handler.turn /\ queue'[k] = queue[i]
    BY <1>t, <1>4, RetainEntries
  <2>2. \A k \in 1..Len(queue') : queue'[k].durable
    BY <1>2, <2>1
  <2>. QED
    BY <1>1, <2>2 DEF AllDurable
<1>5. \/ queue' = Retain(handler.turn) \/ queue' = SetEntry(handler.turn, handler.ver, TRUE)
      \/ queue' = SetEntry(handler.turn, handler.original, TRUE)
  BY DEF Commit, CommitMutation, Rollback, Disconnect
<1>. QED
  BY <1>t, <1>1, <1>3, <1>4, <1>5

\* The entry that is not durable stays the handler's.
LEMMA HandlerInvStep ==
    ASSUME Types, QueueInv, [Next]_vars
    PROVE  HandlerInv'
<1>t. queue \in Seq(Entry) /\ Len(queue) \in Nat /\ handler \in Handlers /\ changes \in 0..MaxChanges
  BY DEF Types, QueueTypes, HandlerTypes, HistoryTypes
<1>e. \A i \in 1..Len(queue) : queue[i] \in Entry
  BY <1>t
<1>i. ArrivalInv /\ OrderInv /\ HandlerInv
  BY DEF QueueInv
<1>0. ASSUME UNCHANGED <<queue, handler>>
      PROVE  HandlerInv'
  BY <1>i, <1>0 DEF HandlerInv
<1>d. ASSUME AllDurable', handler'.pc \notin Changing
      PROVE  HandlerInv'
  BY <1>d DEF AllDurable, HandlerInv
<1>m. ASSUME handler = Idle \/ handler.pc = "notifying"
      PROVE  AllDurable
  BY <1>i, <1>m DEF HandlerInv, AllDurable, Idle, Busy, Changing
<1>1. ASSUME NEW t \in Turns, NEW steer \in BOOLEAN, Reserve(t, steer)
      PROVE  HandlerInv'
  <2>1. /\ queue' = Append(queue, [turn |-> t, ver |-> 1, steer |-> steer, durable |-> FALSE])
        /\ handler' = Busy("queueing", t, 1, 1) /\ handler = Idle
    BY <1>1 DEF Reserve
  <2>2. AllDurable
    BY <1>m, <2>1
  <2>3. /\ Len(queue') = Len(queue) + 1
        /\ queue'[Len(queue) + 1] = [turn |-> t, ver |-> 1, steer |-> steer, durable |-> FALSE]
        /\ \A i \in 1..Len(queue) : queue'[i] = queue[i]
    BY <1>t, <2>1
  <2>4. handler'.pc \in Changing /\ handler'.turn = t /\ handler'.ver = 1
    BY <2>1 DEF Busy, Changing
  <2>5. Len(queue) + 1 \in 1..Len(queue') /\ \A i \in 1..Len(queue') : i \in 1..Len(queue) \/ i = Len(queue) + 1
    BY <1>t, <2>3
  <2>. QED
    BY <2>2, <2>3, <2>4, <2>5 DEF HandlerInv, AllDurable
<1>2. ASSUME NEW t \in Turns, NEW ver \in Versions, NEW i \in Positions(t), handler = Idle,
             queue' = SetEntry(t, ver, FALSE), handler'.pc \in Changing, handler'.turn = t,
             handler'.ver = ver
      PROVE  HandlerInv'
  <2>1. AllDurable
    BY <1>m, <1>2
  <2>2. i \in 1..Len(queue) /\ queue[i].turn = t
    BY DEF Positions
  <2>3. PICK b \in BOOLEAN : b = FALSE
    OBVIOUS
  <2>4. queue' = SetEntry(t, ver, b)
    BY <1>2, <2>3
  <2>5. /\ Len(queue') = Len(queue)
        /\ \A j \in 1..Len(queue) :
            /\ queue'[j].turn = queue[j].turn
            /\ queue[j].turn = t => queue'[j].ver = ver /\ queue'[j].durable = b
            /\ queue[j].turn # t => queue'[j] = queue[j]
    BY <1>t, <2>4, SetEntryFacts
  <2>6. i \in 1..Len(queue') /\ queue'[i].turn = t /\ queue'[i].ver = ver /\ ~queue'[i].durable
    BY <2>2, <2>3, <2>5
  <2>7. ASSUME NEW j \in 1..Len(queue'), ~queue'[j].durable
        PROVE  queue'[j].turn = t
    BY <2>1, <2>5, <2>7 DEF AllDurable
  <2>. QED
    BY <1>2, <2>6, <2>7 DEF HandlerInv
<1>3. ASSUME NEW t \in Turns, ReserveUpdate(t) \/ ReserveCancellation(t)
      PROVE  HandlerInv'
  <2>1. CASE ReserveUpdate(t)
    <3>1. PICK i \in Positions(t) :
            /\ handler = Idle /\ queue' = SetEntry(t, changes + 2, FALSE) /\ changes < MaxChanges
            /\ handler' = Busy("updating", t, changes + 2, queue[i].ver)
      BY <2>1 DEF ReserveUpdate
    <3>2. changes + 2 \in Versions
      BY <1>t, <3>1 DEF Versions
    <3>3. handler'.pc \in Changing /\ handler'.turn = t /\ handler'.ver = changes + 2
      BY <3>1 DEF Busy, Changing
    <3>. QED
      BY <1>2, <3>1, <3>2, <3>3
  <2>2. CASE ReserveCancellation(t)
    <3>1. PICK i \in Positions(t) :
            /\ handler = Idle /\ queue' = SetEntry(t, queue[i].ver, FALSE)
            /\ handler' = Busy("cancelling", t, queue[i].ver, queue[i].ver)
      BY <2>2 DEF ReserveCancellation
    <3>2. queue[i].ver \in Versions
      BY <1>e DEF Positions, Entry
    <3>3. handler'.pc \in Changing /\ handler'.turn = t /\ handler'.ver = queue[i].ver
      BY <3>1 DEF Busy, Changing
    <3>. QED
      BY <1>2, <3>1, <3>2, <3>3
  <2>. QED
    BY <1>3, <2>1, <2>2
<1>4. CASE RecordEvent
  <2>1. /\ handler.pc \in Changing /\ handler'.pc \in Changing /\ UNCHANGED queue
        /\ handler'.turn = handler.turn /\ handler'.ver = handler.ver
    BY <1>t, <1>4 DEF RecordEvent, At, Handlers, Changing, sharedVars
  <2>. QED
    BY <1>i, <2>1 DEF HandlerInv
<1>5. CASE Commit \/ CommitMutation \/ Rollback \/ Disconnect
  BY <1>d, <1>i, <1>5, SettledIsDurable
<1>6. CASE HandlerNotify
  <2>1. AllDurable /\ UNCHANGED queue /\ handler' = Idle
    BY <1>m, <1>6 DEF HandlerNotify, sharedVars
  <2>. QED
    BY <1>d, <2>1 DEF AllDurable, Idle, Busy, Changing
<1>7. CASE TakeOrClose \/ TakeReadySteers
  <2>1. UNCHANGED handler
    BY <1>7 DEF TakeOrClose, TakeReadySteers
  <2>2. ASSUME NEW K, Takes(K)
        PROVE  HandlerInv'
    <3>1. /\ \A k \in 1..Len(queue') : \E i \in (1..Len(queue)) \ K : queue'[k] = queue[i]
          /\ \A i \in (1..Len(queue)) \ K : \E k \in 1..Len(queue') : queue'[k] = queue[i]
      BY <1>t, <2>2, TakesEntries
    <3>2. \A i \in K : queue[i].durable
      BY <2>2 DEF Takes
    <3>3. \A k \in 1..Len(queue') : ~queue'[k].durable =>
            handler.pc \in Changing /\ queue'[k].turn = handler.turn
      BY <1>i, <3>1 DEF HandlerInv
    <3>4. handler.pc \in Changing =>
            \E k \in 1..Len(queue') :
                queue'[k].turn = handler.turn /\ ~queue'[k].durable /\ queue'[k].ver = handler.ver
      BY <1>i, <3>1, <3>2, ZenonT(60) DEF HandlerInv
    <3>. QED
      BY <2>1, <3>3, <3>4 DEF HandlerInv
  <2>. QED
    BY <1>0, <1>i, <1>7, <2>1, <2>2, TakeOrCloseTakes, TakeReadySteersTakes
<1>8. CASE Close \/ CloseNotify \/ Arm \/ Wake \/ LoopFails \/ UNCHANGED vars
  BY <1>0, <1>8 DEF Close, CloseNotify, Arm, Wake, LoopFails, vars, sharedVars
<1>. QED
  BY <1>1, <1>3, <1>4, <1>5, <1>6, <1>7, <1>8 DEF Next, HandlerStep

\* The handler's turn is in the queue, is no durable entry's and was not taken.
LEMMA HandlersTurn ==
    ASSUME Types, QueueInv, handler.pc \in Changing
    PROVE  /\ handler.turn \in Queued
           /\ \A i \in 1..Len(queue) : queue[i].durable => queue[i].turn # handler.turn
           /\ \A i \in 1..Len(taken) : taken[i].turn # handler.turn
<1>i. ArrivalInv /\ OrderInv /\ HandlerInv
  BY DEF QueueInv
<1>1. PICK h \in 1..Len(queue) : queue[h].turn = handler.turn /\ ~queue[h].durable
  BY <1>i DEF HandlerInv
<1>2. \A i \in 1..Len(queue) : queue[i].turn = queue[h].turn => i = h
  BY <1>i, QueuedOnce
<1>3. \A i \in 1..Len(queue) : queue[i].durable => queue[i].turn # handler.turn
  BY <1>1, <1>2
<1>4. \A i \in 1..Len(taken) : taken[i].turn # queue[h].turn
  BY <1>i DEF OrderInv
<1>5. handler.turn \in Queued
  BY <1>1 DEF Queued
<1>. QED
  BY <1>1, <1>3, <1>4, <1>5

\* A step other than a record keeps what the ledger says of every turn.
LEMMA AgreesStays ==
    ASSUME UNCHANGED ledgerVars, cut \subseteq cut', NEW t, NEW v, Agrees(t, v)
    PROVE  Agrees(t, v)'
BY DEF Agrees, ledgerVars

\* Each way in which the queue changes keeps the durable entries as recorded.
LEMMA QueueAgreesStays ==
    ASSUME Types, QueueAgrees, UNCHANGED ledgerVars, cut \subseteq cut'
    PROVE  /\ UNCHANGED queue => QueueAgrees'
           /\ \A t : queue' = Retain(t) => QueueAgrees'
           /\ \A K : Takes(K) => QueueAgrees'
           /\ \A t : \A ver \in Versions, durable \in BOOLEAN :
                queue' = SetEntry(t, ver, durable) /\ (durable => Agrees(t, ver)') => QueueAgrees'
<1>t. queue \in Seq(Entry)
  BY DEF Types, QueueTypes
<1>0. ASSUME \A k \in 1..Len(queue') : \E i \in 1..Len(queue) : queue'[k] = queue[i]
      PROVE  QueueAgrees'
  <2>. SUFFICES ASSUME NEW k \in 1..Len(queue'), queue'[k].durable
                PROVE  Agrees(queue[k].turn, queue[k].ver)'
    BY DEF QueueAgrees
  <2>1. PICK i \in 1..Len(queue) : queue'[k] = queue[i]
    BY <1>0
  <2>2. PICK t, v : t = queue[i].turn /\ v = queue[i].ver
    OBVIOUS
  <2>3. Agrees(t, v)
    BY <2>1, <2>2 DEF QueueAgrees
  <2>4. Agrees(t, v)'
    BY <2>3, AgreesStays
  <2>5. queue'[k].turn = t /\ queue'[k].ver = v
    BY <2>1, <2>2
  <2>. QED
    BY <2>4, <2>5 DEF Agrees
<1>1. UNCHANGED queue => QueueAgrees'
  BY <1>0
<1>2. \A t : queue' = Retain(t) => QueueAgrees'
  BY <1>t, <1>0, RetainEntries, SMTT(40)
<1>3. \A K : Takes(K) => QueueAgrees'
  <2>. SUFFICES ASSUME NEW K, Takes(K)
                PROVE  QueueAgrees'
    OBVIOUS
  <2>1. \A k \in 1..Len(queue') : \E i \in (1..Len(queue)) \ K : queue'[k] = queue[i]
    BY <1>t, TakesEntries
  <2>. QED
    BY <1>0, <2>1
<1>4. ASSUME NEW t, NEW ver \in Versions, NEW durable \in BOOLEAN,
             queue' = SetEntry(t, ver, durable), durable => Agrees(t, ver)'
      PROVE  QueueAgrees'
  <2>1. /\ Len(queue') = Len(queue)
        /\ \A i \in 1..Len(queue) :
            /\ queue'[i].turn = queue[i].turn
            /\ queue[i].turn = t => queue'[i].ver = ver /\ queue'[i].durable = durable
            /\ queue[i].turn # t => queue'[i] = queue[i]
    BY <1>t, <1>4, SetEntryFacts
  <2>. SUFFICES ASSUME NEW k \in 1..Len(queue'), queue'[k].durable
                PROVE  Agrees(queue[k].turn, queue[k].ver)'
    BY DEF QueueAgrees
  <2>2. k \in 1..Len(queue)
    BY <2>1
  <2>3. CASE queue[k].turn = t
    <3>1. queue'[k].turn = t /\ queue'[k].ver = ver /\ durable
      BY <2>1, <2>2, <2>3
    <3>. QED
      BY <1>4, <3>1 DEF Agrees
  <2>4. CASE queue[k].turn # t
    <3>1. queue'[k] = queue[k]
      BY <2>1, <2>2, <2>4
    <3>2. PICK u, v : u = queue[k].turn /\ v = queue[k].ver
      OBVIOUS
    <3>3. Agrees(u, v)
      BY <2>2, <3>1, <3>2 DEF QueueAgrees
    <3>4. Agrees(u, v)'
      BY <3>3, AgreesStays
    <3>5. queue'[k].turn = u /\ queue'[k].ver = v
      BY <3>1, <3>2
    <3>. QED
      BY <3>4, <3>5 DEF Agrees
  <2>. QED
    BY <2>3, <2>4
<1>. QED
  BY <1>1, <1>2, <1>3, <1>4

\* What was taken, and what a step takes, is as recorded.
LEMMA TakenAgreesStays ==
    ASSUME Types, QueueAgrees, TakenAgrees, UNCHANGED ledgerVars, cut \subseteq cut',
           Moves \/ UNCHANGED taken
    PROVE  TakenAgrees'
<1>. SUFFICES ASSUME NEW i \in 1..Len(taken')
              PROVE  Agrees(taken[i].turn, taken[i].ver)'
  BY DEF TakenAgrees
<1>0. ASSUME NEW t, NEW v, Agrees(t, v), taken'[i].turn = t, taken'[i].ver = v
      PROVE  Agrees(taken[i].turn, taken[i].ver)'
  <2>1. Agrees(t, v)'
    BY <1>0, AgreesStays
  <2>. QED
    BY <1>0, <2>1 DEF Agrees
<1>1. CASE i \in 1..Len(taken) /\ taken'[i] = taken[i]
  <2>1. PICK t, v : t = taken[i].turn /\ v = taken[i].ver
    OBVIOUS
  <2>2. Agrees(t, v)
    BY <1>1, <2>1 DEF TakenAgrees
  <2>. QED
    BY <1>0, <1>1, <2>1, <2>2
<1>2. ASSUME NEW K, NEW k, Takes(K), Nth(K, k) \in K, taken'[i] = Taken(queue[Nth(K, k)])
      PROVE  Agrees(taken[i].turn, taken[i].ver)'
  <2>1. PICK n \in K : n = Nth(K, k)
    BY <1>2
  <2>2. n \in 1..Len(queue) /\ queue[n].durable
    BY <1>2 DEF Takes
  <2>3. PICK t, v : t = queue[n].turn /\ v = queue[n].ver
    OBVIOUS
  <2>4. Agrees(t, v)
    BY <2>2, <2>3 DEF QueueAgrees
  <2>5. taken'[i].turn = t /\ taken'[i].ver = v
    BY <1>2, <2>1, <2>3 DEF Taken
  <2>. QED
    BY <1>0, <2>4, <2>5
<1>3. CASE Moves
  BY <1>1, <1>2, <1>3, MovesTake
<1>4. CASE UNCHANGED taken
  BY <1>1, <1>4
<1>. QED
  BY <1>3, <1>4

\* The ledger goes on saying what the queue holds and what was taken.
LEMMA LedgerInvStep ==
    ASSUME Types, QueueInv, [Next]_vars
    PROVE  LedgerInv'
<1>t. /\ queue \in Seq(Entry) /\ handler \in Handlers /\ stored \in [Turns -> 0..MaxChanges + 1]
      /\ changes \in 0..MaxChanges
      /\ handler.pc \in Changing => handler.turn \in Turns
  BY DEF Types, QueueTypes, HandlerTypes, LedgerTypes, HistoryTypes, Changing
<1>e. \A i \in 1..Len(queue) : queue[i] \in Entry
  BY <1>t
<1>i. /\ ArrivalInv /\ OrderInv /\ HandlerInv
      /\ QueueAgrees /\ HandlerAgrees /\ TakenAgrees
  BY DEF QueueInv, LedgerInv
<1>q. ASSUME UNCHANGED ledgerVars, cut \subseteq cut', handler'.pc \notin Changing
      PROVE  HandlerAgrees'
  BY <1>q DEF HandlerAgrees, Changing
<1>h. ASSUME UNCHANGED <<ledgerVars, handler, cut>>
      PROVE  HandlerAgrees'
  BY <1>i, <1>h DEF HandlerAgrees, Agrees, ledgerVars
<1>1. ASSUME NEW t \in Turns, NEW steer \in BOOLEAN, Reserve(t, steer)
      PROVE  LedgerInv'
  <2>1. /\ queue' = Append(queue, [turn |-> t, ver |-> 1, steer |-> steer, durable |-> FALSE])
        /\ UNCHANGED <<ledgerVars, taken, cut>> /\ handler' = Busy("queueing", t, 1, 1)
        /\ \A i \in 1..Len(arrived) : arrived[i] # t
    BY <1>1 DEF Reserve, loopVars
  <2>2. QueueAgrees'
    <3>1. /\ Len(queue) \in Nat /\ Len(queue') = Len(queue) + 1
          /\ ~queue'[Len(queue) + 1].durable
          /\ \A k \in 1..Len(queue) : queue'[k] = queue[k]
      BY <1>t, <2>1
    <3>2. \A k \in 1..Len(queue') : queue'[k].durable => k \in 1..Len(queue)
      BY <3>1
    <3>. QED
      BY <1>i, <2>1, <3>1, <3>2 DEF QueueAgrees, Agrees, ledgerVars
  <2>3. TakenAgrees'
    BY <1>i, <2>1 DEF TakenAgrees, Agrees, ledgerVars
  <2>4. HandlerAgrees'
    <3>1. t \notin Came
      BY <2>1 DEF Came
    <3>2. stored[t] = 0 /\ t \notin cancelled
      BY <1>i, <3>1 DEF ArrivalInv
    <3>3. handler'.pc = "queueing" /\ handler'.turn = t
      BY <2>1 DEF Busy
    <3>. QED
      BY <2>1, <3>2, <3>3 DEF HandlerAgrees, ledgerVars
  <2>. QED
    BY <2>2, <2>3, <2>4 DEF LedgerInv
<1>2. ASSUME NEW t \in Turns, NEW i \in Positions(t), NEW ver \in Versions, queue[i].durable,
             queue' = SetEntry(t, ver, FALSE), UNCHANGED <<ledgerVars, taken, cut>>,
             handler'.pc \in {"updating", "cancelling"}, handler'.turn = t,
             handler'.original = queue[i].ver
      PROVE  LedgerInv'
  <2>1. i \in 1..Len(queue) /\ queue[i].turn = t
    BY DEF Positions
  <2>2. PICK b \in BOOLEAN : b = FALSE
    OBVIOUS
  <2>3. QueueAgrees'
    <3>1. queue' = SetEntry(t, ver, b) /\ (b => Agrees(t, ver)')
      BY <1>2, <2>2
    <3>. QED
      BY <1>i, <1>2, <3>1, QueueAgreesStays
  <2>4. TakenAgrees'
    BY <1>i, <1>2, TakenAgreesStays
  <2>5. HandlerAgrees'
    <3>1. Agrees(t, queue[i].ver)
      BY <1>i, <1>2, <2>1 DEF QueueAgrees
    <3>2. t \notin cut' => stored'[t] = handler'.original /\ t \notin cancelled'
      BY <1>2, <3>1 DEF Agrees, ledgerVars
    <3>. QED
      BY <1>2, <3>2 DEF HandlerAgrees, Agrees
  <2>. QED
    BY <2>3, <2>4, <2>5 DEF LedgerInv
<1>3. ASSUME NEW t \in Turns, ReserveUpdate(t) \/ ReserveCancellation(t)
      PROVE  LedgerInv'
  <2>1. CASE ReserveUpdate(t)
    <3>1. PICK i \in Positions(t) :
            /\ queue[i].durable /\ queue' = SetEntry(t, changes + 2, FALSE) /\ changes < MaxChanges
            /\ handler' = Busy("updating", t, changes + 2, queue[i].ver)
            /\ UNCHANGED <<ledgerVars, taken, cut>>
      BY <2>1 DEF ReserveUpdate, loopVars
    <3>2. changes + 2 \in Versions
      BY <1>t, <3>1 DEF Versions
    <3>3. handler'.pc = "updating" /\ handler'.turn = t /\ handler'.original = queue[i].ver
      BY <3>1 DEF Busy
    <3>. QED
      BY <1>2, <3>1, <3>2, <3>3
  <2>2. CASE ReserveCancellation(t)
    <3>1. PICK i \in Positions(t) :
            /\ queue[i].durable /\ queue' = SetEntry(t, queue[i].ver, FALSE)
            /\ handler' = Busy("cancelling", t, queue[i].ver, queue[i].ver)
            /\ UNCHANGED <<ledgerVars, taken, cut>>
      BY <2>2 DEF ReserveCancellation, loopVars
    <3>2. queue[i].ver \in Versions
      BY <1>e DEF Positions, Entry
    <3>3. handler'.pc = "cancelling" /\ handler'.turn = t /\ handler'.original = queue[i].ver
      BY <3>1 DEF Busy
    <3>. QED
      BY <1>2, <3>1, <3>2, <3>3
  <2>. QED
    BY <1>3, <2>1, <2>2
<1>4. CASE RecordEvent
  <2>1. /\ handler.pc \in Changing /\ UNCHANGED <<queue, taken, cut>>
        /\ handler.pc \in {"queueing", "updating", "cancelling"}
    BY <1>4 DEF RecordEvent, Changing, sharedVars, loopVars, historyVars
  <2>2. /\ \A i \in 1..Len(queue) : queue[i].durable => queue[i].turn # handler.turn
        /\ \A i \in 1..Len(taken) : taken[i].turn # handler.turn
    BY <2>1, HandlersTurn
  <2>3. \A t \in Turns : t # handler.turn =>
            stored'[t] = stored[t] /\ (t \in cancelled' <=> t \in cancelled)
    BY <1>t, <1>4 DEF RecordEvent
  <2>4. QueueAgrees'
    <3>1. \A i \in 1..Len(queue) : queue[i].turn \in Turns
      BY <1>e DEF Entry
    <3>. QED
      BY <1>i, <2>1, <2>2, <2>3, <3>1 DEF QueueAgrees, Agrees
  <2>5. TakenAgrees'
    <3>1. \A i \in 1..Len(taken) : taken[i].turn \in Turns
      <4>1. \A i \in 1..Len(taken) : taken[i] \in TakenEntry
        BY DEF Types, TakenTypes
      <4>. QED
        BY <4>1 DEF TakenEntry
    <3>. QED
      BY <1>i, <2>1, <2>2, <2>3, <3>1 DEF TakenAgrees, Agrees
  <2>6. HandlerAgrees'
    <3>1. handler.turn \in Turns /\ handler'.turn = handler.turn /\ handler'.ver = handler.ver
      BY <1>t, <1>4, <2>1 DEF RecordEvent, At, Handlers
    <3>2. CASE handler.pc = "queueing"
      <4>1. /\ handler'.pc = "queued" /\ stored'[handler.turn] = handler.ver
            /\ handler.turn \notin cancelled'
        BY <1>t, <1>i, <1>4, <3>1, <3>2 DEF RecordEvent, At, Handlers, HandlerAgrees
      <4>. QED
        BY <3>1, <4>1 DEF HandlerAgrees, Agrees
    <3>3. CASE handler.pc = "updating"
      <4>1. /\ handler'.pc = "updated" /\ stored'[handler.turn] = handler.ver
            /\ handler.turn \notin cut => handler.turn \notin cancelled'
        BY <1>t, <1>i, <1>4, <3>1, <3>3 DEF RecordEvent, At, Handlers, HandlerAgrees, Agrees
      <4>. QED
        BY <2>1, <3>1, <4>1 DEF HandlerAgrees, Agrees
    <3>4. CASE handler.pc = "cancelling"
      <4>1. handler'.pc = "cancelled" /\ handler.turn \in cancelled'
        BY <1>t, <1>4, <3>1, <3>4 DEF RecordEvent, At, Handlers
      <4>. QED
        BY <3>1, <4>1 DEF HandlerAgrees
    <3>. QED
      BY <2>1, <3>2, <3>3, <3>4
  <2>. QED
    BY <2>4, <2>5, <2>6 DEF LedgerInv
<1>5. CASE Commit \/ CommitMutation \/ Rollback \/ Disconnect
  <2>1. UNCHANGED <<ledgerVars, taken>> /\ cut \subseteq cut'
    BY <1>5 DEF Commit, CommitMutation, Rollback, Disconnect, loopVars, historyVars
  <2>2. HandlerAgrees'
    BY <1>i, <1>q, <1>5, <2>1, SettledIsDurable
  <2>3. TakenAgrees'
    BY <1>i, <2>1, TakenAgreesStays
  <2>4. QueueAgrees'
    <3>0. PICK b \in BOOLEAN : b = TRUE
      OBVIOUS
    <3>t. PICK t : t = handler.turn
      OBVIOUS
    <3>1. CASE queue' = Retain(t)
      BY <1>i, <2>1, <3>1, QueueAgreesStays
    <3>2. ASSUME NEW ver \in Versions, queue' = SetEntry(t, ver, b), Agrees(t, ver)'
          PROVE  QueueAgrees'
      BY <1>i, <2>1, <3>2, QueueAgreesStays
    <3>3. PICK v, o \in Versions : v = handler.ver /\ o = handler.original
      BY <1>t DEF Handlers
    <3>4. CASE Commit \/ (CommitMutation /\ handler.pc = "updated")
      <4>1. queue' = SetEntry(t, v, b) /\ Agrees(t, v)
        BY <1>i, <3>0, <3>t, <3>3, <3>4 DEF Commit, CommitMutation, HandlerAgrees
      <4>2. Agrees(t, v)'
        BY <2>1, <4>1, AgreesStays
      <4>. QED
        BY <3>2, <4>1, <4>2
    <3>5. CASE Rollback /\ handler.pc \in {"updating", "cancelling"}
      <4>1. queue' = SetEntry(t, o, b) /\ Agrees(t, o)
        BY <1>i, <3>0, <3>t, <3>3, <3>5 DEF Rollback, HandlerAgrees
      <4>2. Agrees(t, o)'
        BY <2>1, <4>1, AgreesStays
      <4>. QED
        BY <3>2, <4>1, <4>2
    <3>6. CASE Disconnect /\ handler.pc \in {"updated", "cancelled"}
      <4>1. queue' = SetEntry(t, o, b) /\ t \in cut'
        BY <3>0, <3>t, <3>3, <3>6 DEF Disconnect
      <4>2. Agrees(t, o)'
        BY <4>1 DEF Agrees
      <4>. QED
        BY <3>2, <4>1, <4>2
    <3>7. CASE \/ CommitMutation /\ handler.pc = "cancelled"
               \/ Rollback /\ handler.pc = "queueing"
               \/ Disconnect /\ handler.pc = "queued"
      BY <3>t, <3>1, <3>7 DEF CommitMutation, Rollback, Disconnect
    <3>. QED
      <4>1. CommitMutation => handler.pc \in {"updated", "cancelled"}
        BY DEF CommitMutation
      <4>2. Rollback => handler.pc \in {"queueing", "updating", "cancelling"}
        BY DEF Rollback
      <4>3. Disconnect => handler.pc \in {"queued", "updated", "cancelled"}
        BY DEF Disconnect
      <4>. QED
        BY <1>5, <3>4, <3>5, <3>6, <3>7, <4>1, <4>2, <4>3
  <2>. QED
    BY <2>2, <2>3, <2>4 DEF LedgerInv
<1>6. CASE TakeOrClose \/ TakeReadySteers
  <2>1. UNCHANGED <<ledgerVars, handler, cut>>
    BY <1>6 DEF TakeOrClose, TakeReadySteers, historyVars
  <2>2. UNCHANGED <<queue, taken>> \/ \E K : Takes(K)
    BY <1>i, <1>6, TakeOrCloseTakes, TakeReadySteersTakes
  <2>3. QueueAgrees'
    BY <1>i, <2>1, <2>2, QueueAgreesStays
  <2>4. TakenAgrees'
    BY <1>i, <2>1, <2>2, TakenAgreesStays DEF Moves
  <2>. QED
    BY <1>h, <2>1, <2>3, <2>4 DEF LedgerInv
<1>7. CASE HandlerNotify
  <2>1. UNCHANGED <<ledgerVars, queue, taken, cut>> /\ handler' = Idle
    BY <1>7 DEF HandlerNotify, sharedVars, loopVars, historyVars
  <2>2. HandlerAgrees'
    BY <1>q, <2>1 DEF Idle, Busy, Changing
  <2>. QED
    BY <1>i, <2>1, <2>2, QueueAgreesStays, TakenAgreesStays DEF LedgerInv
<1>8. CASE Close \/ CloseNotify \/ Arm \/ Wake \/ LoopFails \/ UNCHANGED vars
  <2>1. UNCHANGED <<ledgerVars, queue, handler, taken, cut>>
    BY <1>8 DEF Close, CloseNotify, Arm, Wake, LoopFails, vars, sharedVars, loopVars, historyVars
  <2>. QED
    BY <1>h, <1>i, <2>1, QueueAgreesStays, TakenAgreesStays DEF LedgerInv
<1>. QED
  BY <1>1, <1>3, <1>4, <1>5, <1>6, <1>7, <1>8 DEF Next, HandlerStep

\* A step loses no turn of the ledger: what leaves the queue was taken, is
\* cancelled, was never stored, or belongs to a dropped request.
LEMMA AccountedStep ==
    ASSUME Types, QueueInv, [Next]_vars, NEW t \in Turns, stored'[t] # 0
    PROVE  t \in (TakenTurns \cup cancelled \cup cut \cup Queued)'
<1>t. /\ queue \in Seq(Entry) /\ Len(queue) \in Nat /\ taken \in Seq(TakenEntry) /\ Len(taken) \in Nat
      /\ handler.ver \in Versions /\ handler.original \in Versions
  BY DEF Types, QueueTypes, TakenTypes, HandlerTypes, Handlers
<1>i. ArrivalInv /\ OrderInv /\ HandlerInv /\ HandlerAgrees /\ LeftInv
  BY DEF QueueInv, LedgerInv
<1>g. cancelled \subseteq cancelled' /\ cut \subseteq cut'
  BY DEF Next, HandlerStep, RecordEvent, Reserve, ReserveUpdate, ReserveCancellation, Commit,
     CommitMutation, Rollback, Disconnect, HandlerNotify, Close, CloseNotify, Arm, TakeOrClose, Wake,
     TakeReadySteers, LoopFails, vars, ledgerVars, historyVars
<1>0. ASSUME TakenTurns \subseteq TakenTurns', t \in Queued => t \in Queued',
             UNCHANGED stored \/ t \in Queued
      PROVE  t \in (TakenTurns \cup cancelled \cup cut \cup Queued)'
  BY <1>g, <1>i, <1>0 DEF LeftInv
<1>u. UNCHANGED taken => TakenTurns' = TakenTurns
  BY DEF TakenTurns
<1>1. ASSUME NEW u, NEW ver \in Versions, NEW durable \in BOOLEAN, queue' = SetEntry(u, ver, durable),
             UNCHANGED <<stored, taken>>
      PROVE  t \in (TakenTurns \cup cancelled \cup cut \cup Queued)'
  <2>1. /\ Len(queue') = Len(queue)
        /\ \A i \in 1..Len(queue) : queue'[i].turn = queue[i].turn
    BY <1>t, <1>1, SetEntryFacts
  <2>2. t \in Queued => t \in Queued'
    BY <2>1 DEF Queued
  <2>. QED
    BY <1>0, <1>1, <1>u, <2>2
<1>2. ASSUME queue' = Retain(handler.turn), UNCHANGED <<stored, taken>>,
             stored[handler.turn] = 0 \/ handler.turn \in cancelled' \cup cut'
      PROVE  t \in (TakenTurns \cup cancelled \cup cut \cup Queued)'
  <2>1. CASE t = handler.turn
    BY <1>2, <2>1
  <2>2. CASE t # handler.turn
    <3>1. ASSUME t \in Queued
          PROVE  t \in Queued'
      <4>1. PICK i \in 1..Len(queue) : queue[i].turn = t
        BY <3>1 DEF Queued
      <4>u. PICK u : u = handler.turn
        OBVIOUS
      <4>r. queue' = Retain(u) /\ queue[i].turn # u
        BY <1>2, <2>2, <4>1, <4>u
      <4>2. PICK k \in 1..Len(queue') : queue'[k] = queue[i]
        BY <1>t, <4>r, RetainEntries
      <4>. QED
        BY <4>1, <4>2 DEF Queued
    <3>. QED
      BY <1>0, <1>2, <1>u, <3>1
  <2>. QED
    BY <2>1, <2>2
<1>3. ASSUME NEW K, Takes(K)
      PROVE  t \in (TakenTurns \cup cancelled \cup cut \cup Queued)'
  <2>1. /\ UNCHANGED stored /\ K \in SUBSET (1..Len(queue))
        /\ Len(taken') = Len(taken) + Cardinality(K)
        /\ \A i \in 1..Len(taken) : taken'[i] = taken[i]
        /\ \A k \in 1..Cardinality(K) : taken'[Len(taken) + k] = Taken(queue[Nth(K, k)])
    BY <1>3 DEF Takes, ledgerVars
  <2>2. Cardinality(K) \in Nat /\ \A i \in K : \E k \in 1..Cardinality(K) : Nth(K, k) = i
    BY <1>t, <2>1, NthPosition
  <2>3. TakenTurns \subseteq TakenTurns'
    <3>1. \A i \in 1..Len(taken) : i \in 1..Len(taken')
      BY <1>t, <2>1, <2>2
    <3>. QED
      BY <2>1, <3>1 DEF TakenTurns
  <2>4. ASSUME NEW n \in K, queue[n].turn = t
        PROVE  t \in TakenTurns'
    <3>1. PICK k \in 1..Cardinality(K) : Nth(K, k) = n
      BY <2>2
    <3>2. PICK m : m = Len(taken) + k
      OBVIOUS
    <3>3. m \in 1..Len(taken')
      BY <1>t, <2>1, <2>2, <3>2
    <3>4. taken'[m].turn = t
      <4>1. taken'[m] = Taken(queue[n])
        BY <2>1, <3>1, <3>2
      <4>. QED
        BY <2>4, <4>1 DEF Taken
    <3>. QED
      BY <3>3, <3>4 DEF TakenTurns
  <2>5. CASE t \in Queued
    <3>1. PICK i \in 1..Len(queue) : queue[i].turn = t
      BY <2>5 DEF Queued
    <3>2. CASE i \in K
      BY <2>4, <3>1, <3>2
    <3>3. CASE i \notin K
      <4>1. PICK k \in 1..Len(queue') : queue'[k] = queue[i]
        BY <1>t, <1>3, <3>3, TakesEntries
      <4>. QED
        BY <3>1, <4>1 DEF Queued
    <3>. QED
      BY <3>2, <3>3
  <2>6. CASE t \notin Queued
    BY <1>0, <2>1, <2>3, <2>6
  <2>. QED
    BY <2>5, <2>6
<1>4. ASSUME NEW u \in Turns, NEW steer \in BOOLEAN, Reserve(u, steer)
      PROVE  t \in (TakenTurns \cup cancelled \cup cut \cup Queued)'
  <2>1. /\ queue' = Append(queue, [turn |-> u, ver |-> 1, steer |-> steer, durable |-> FALSE])
        /\ UNCHANGED <<stored, taken>>
    BY <1>4 DEF Reserve, ledgerVars, loopVars
  <2>2. \A i \in 1..Len(queue) : i \in 1..Len(queue') /\ queue'[i] = queue[i]
    BY <1>t, <2>1
  <2>3. t \in Queued => t \in Queued'
    BY <2>2 DEF Queued
  <2>. QED
    BY <1>0, <1>u, <2>1, <2>3
<1>5. ASSUME NEW u \in Turns, ReserveUpdate(u) \/ ReserveCancellation(u)
      PROVE  t \in (TakenTurns \cup cancelled \cup cut \cup Queued)'
  <2>1. UNCHANGED <<stored, taken>>
    BY <1>5 DEF ReserveUpdate, ReserveCancellation, ledgerVars, loopVars
  <2>2. \E ver \in Versions, durable \in BOOLEAN : queue' = SetEntry(u, ver, durable)
    <3>1. CASE ReserveUpdate(u)
      <4>1. changes + 2 \in Versions /\ queue' = SetEntry(u, changes + 2, FALSE)
        BY <3>1 DEF ReserveUpdate, Types, HistoryTypes, Versions
      <4>. QED
        BY <4>1
    <3>2. CASE ReserveCancellation(u)
      <4>1. PICK i \in Positions(u) : queue' = SetEntry(u, queue[i].ver, FALSE)
        BY <3>2 DEF ReserveCancellation
      <4>2. queue[i] \in Entry
        BY <1>t DEF Positions
      <4>3. queue[i].ver \in Versions
        BY <4>2 DEF Entry
      <4>. QED
        BY <4>1, <4>3
    <3>. QED
      BY <1>5, <3>1, <3>2
  <2>. QED
    BY <1>1, <2>1, <2>2
<1>6. CASE RecordEvent
  <2>1. handler.pc \in Changing /\ UNCHANGED <<queue, taken>>
    BY <1>6 DEF RecordEvent, Changing, sharedVars, loopVars
  <2>2. handler.turn \in Queued
    BY <2>1, HandlersTurn
  <2>3. t # handler.turn => stored'[t] = stored[t]
    BY <1>6 DEF RecordEvent, Types, LedgerTypes
  <2>4. Queued' = Queued
    BY <2>1 DEF Queued
  <2>. QED
    BY <1>g, <1>i, <1>u, <2>1, <2>2, <2>3, <2>4 DEF LeftInv
<1>7. CASE Commit \/ CommitMutation \/ Rollback \/ Disconnect
  <2>1. UNCHANGED <<stored, taken>>
    BY <1>7 DEF Commit, CommitMutation, Rollback, Disconnect, ledgerVars, loopVars
  <2>2. \/ queue' = SetEntry(handler.turn, handler.ver, TRUE)
        \/ queue' = SetEntry(handler.turn, handler.original, TRUE)
        \/ /\ queue' = Retain(handler.turn)
           /\ stored[handler.turn] = 0 \/ handler.turn \in cancelled' \cup cut'
    BY <1>g, <1>i, <1>7 DEF Commit, CommitMutation, Rollback, Disconnect, HandlerAgrees
  <2>. QED
    BY <1>t, <1>1, <1>2, <2>1, <2>2
<1>8. CASE TakeOrClose \/ TakeReadySteers
  <2>1. UNCHANGED <<queue, taken>> \/ \E K : Takes(K)
    BY <1>i, <1>8, TakeOrCloseTakes, TakeReadySteersTakes
  <2>2. UNCHANGED stored
    BY <1>8 DEF TakeOrClose, TakeReadySteers, ledgerVars
  <2>3. UNCHANGED queue => Queued' = Queued
    BY DEF Queued
  <2>. QED
    BY <1>0, <1>3, <1>u, <2>1, <2>2, <2>3
<1>9. CASE HandlerNotify \/ Close \/ CloseNotify \/ Arm \/ Wake \/ LoopFails \/ UNCHANGED vars
  <2>1. UNCHANGED <<stored, queue, taken>>
    BY <1>9 DEF HandlerNotify, Close, CloseNotify, Arm, Wake, LoopFails, vars, sharedVars, ledgerVars,
       loopVars
  <2>2. Queued' = Queued
    BY <2>1 DEF Queued
  <2>. QED
    BY <1>0, <1>u, <2>1, <2>2
<1>. QED
  BY <1>4, <1>5, <1>6, <1>7, <1>8, <1>9 DEF Next, HandlerStep

\* The loop closes an empty queue, and nothing comes into a closed one.
LEMMA EndedStep ==
    ASSUME Types, QueueInv, [Next]_vars, ended'
    PROVE  ~accepting' /\ queue' = <<>>
<1>i. HandlerInv /\ (ended => ~accepting /\ queue = <<>>)
  BY DEF QueueInv, LeftInv
<1>1. CASE ended
  <2>1. ~accepting /\ queue = <<>>
    BY <1>i, <1>1
  <2>2. handler.pc \notin Changing
    BY <1>i, <2>1 DEF HandlerInv
  <2>3. \A t : Positions(t) = {}
    BY <2>1 DEF Positions
  <2>4. ~accepting'
    BY <2>1 DEF Next, HandlerStep, RecordEvent, Reserve, ReserveUpdate, ReserveCancellation, Commit,
       CommitMutation, Rollback, Disconnect, HandlerNotify, Close, CloseNotify, Arm, TakeOrClose, Wake,
       TakeReadySteers, LoopFails, vars, sharedVars
  <2>5. \A t, steer : ~Reserve(t, steer) /\ ~ReserveUpdate(t) /\ ~ReserveCancellation(t)
    BY <2>1, <2>3 DEF Reserve, HasRoom, ReserveUpdate, ReserveCancellation
  <2>6. ~Commit /\ ~CommitMutation /\ ~Rollback /\ ~Disconnect
    BY <2>2 DEF Commit, CommitMutation, Rollback, Disconnect, Changing
  <2>7. UNCHANGED queue
    BY <2>1, <2>5, <2>6 DEF Next, HandlerStep, RecordEvent, HandlerNotify, Close, CloseNotify, Arm,
       TakeOrClose, Wake, TakeReadySteers, LoopFails, vars, sharedVars
  <2>. QED
    BY <2>1, <2>4, <2>7
<1>2. CASE ~ended
  <2>1. TakeOrClose /\ ended' # ended
    BY <1>2 DEF Next, HandlerStep, RecordEvent, Reserve, ReserveUpdate, ReserveCancellation, Commit,
       CommitMutation, Rollback, Disconnect, HandlerNotify, Close, CloseNotify, Arm, Wake,
       TakeReadySteers, LoopFails, vars, loopVars
  <2>. QED
    BY <2>1 DEF TakeOrClose
<1>. QED
  BY <1>1, <1>2

\* The inductive invariant holds at the start.
LEMMA QueueInvInit ==
    ASSUME Init
    PROVE  QueueInv
<1>. USE DEF Init
<1>1. Queued = {} /\ TakenTurns = {}
  BY DEF Queued, TakenTurns
<1>2. ArrivalInv
  BY <1>1 DEF ArrivalInv
<1>3. OrderInv /\ HandlerInv
  BY DEF OrderInv, HandlerInv, Idle, Busy, Changing
<1>4. LedgerInv
  BY DEF LedgerInv, QueueAgrees, HandlerAgrees, TakenAgrees, Idle, Busy
<1>5. LeftInv
  BY DEF LeftInv
<1>. QED
  BY <1>2, <1>3, <1>4, <1>5 DEF QueueInv

\* Every step keeps the inductive invariant.
LEMMA QueueInvStep == Types /\ QueueInv /\ [Next]_vars => QueueInv'
<1>. SUFFICES ASSUME Types, QueueInv, [Next]_vars
              PROVE  QueueInv'
  OBVIOUS
<1>1. Types'
  BY TypesStep
<1>2. ArrivalInv' /\ OrderInv' /\ HandlerInv' /\ LedgerInv'
  BY <1>1, ArrivalInvStep, OrderInvStep, HandlerInvStep, LedgerInvStep
<1>3. LeftInv'
  BY AccountedStep, EndedStep DEF LeftInv
<1>. QED
  BY <1>2, <1>3 DEF QueueInv

-----------------------------------------------------------------------------
(* What the queue promises *)

\* What the agent loop takes from the queue has the content last recorded in the
\* ledger and is not cancelled, whatever update, cancellation or failed store
\* call raced with the take, and the turns of one kind are taken in the order in
\* which they were queued, none twice.
THEOREM TakenIsAsRecorded == Spec => []TakenAsRecorded
<1>1. Types /\ QueueInv => TakenMatchesLedger
  BY DEF QueueInv, LedgerInv, TakenAgrees, Agrees, TakenMatchesLedger
<1>2. Types /\ QueueInv => TakenInOrder
  <2>. SUFFICES ASSUME Types, QueueInv,
                       NEW i \in 1..Len(taken), NEW j \in 1..Len(taken),
                       i < j, taken[i].steer = taken[j].steer
                PROVE  Arrival(taken[i].turn) < Arrival(taken[j].turn)
    BY DEF TakenInOrder
  <2>1. <<taken[i].turn, taken[j].turn>> \in Order
    BY DEF QueueInv, OrderInv
  <2>2. PICK a, b : a = taken[i].turn /\ b = taken[j].turn
    OBVIOUS
  <2>3. PICK k, l \in 1..Len(arrived) : k < l /\ arrived[k] = a /\ arrived[l] = b
    BY <2>1, <2>2 DEF Order
  <2>4. \A x, y \in 1..Len(arrived) : arrived[x] = arrived[y] => x = y
    BY DEF QueueInv, ArrivalInv
  <2>5. Arrival(a) = k /\ Arrival(b) = l
    BY <2>3, <2>4 DEF Arrival
  <2>. QED
    BY <2>2, <2>3, <2>5
<1>. QED
  BY <1>1, <1>2, TypesInit, TypesStep, QueueInvInit, QueueInvStep, PTL DEF Spec, TakenAsRecorded

\* When take_or_close finds the queue empty and closes it, every turn of the
\* ledger was taken or cancelled, but those whose request was dropped between
\* the event and the commit.
THEOREM OnlyDroppedIsLeft == Spec => []OnlyDroppedLeftBehind
<1>1. Types /\ QueueInv => OnlyDroppedLeftBehind
  <2>. SUFFICES ASSUME Types, QueueInv, ended, NEW t \in LeftBehind
                PROVE  t \in cut
    BY DEF OnlyDroppedLeftBehind
  <2>1. t \in Turns /\ stored[t] > 0 /\ t \notin TakenTurns /\ t \notin cancelled
    BY DEF LeftBehind
  <2>2. stored[t] # 0
    BY <2>1 DEF Types, LedgerTypes
  <2>3. Queued = {}
    BY DEF QueueInv, LeftInv, Queued
  <2>. QED
    BY <2>1, <2>2, <2>3 DEF QueueInv, LeftInv
<1>. QED
  BY <1>1, TypesInit, TypesStep, QueueInvInit, QueueInvStep, PTL DEF Spec
=============================================================================
