------------------------ MODULE SessionRuntimeProofs ------------------------
(* Proofs about SessionRuntime, for any number of hosts, turns, tasks and     *)
(* tools.                                                                    *)
EXTENDS SessionRuntime, SequenceTheorems, WellFoundedInduction, TLAPS

-----------------------------------------------------------------------------
(* Sequences without repetition, and the removal of one element *)

Distinct(s) == \A i, j \in 1..Len(s) : s[i] = s[j] => i = j

\* Removing a position leaves the other elements in their order.
LEMMA WithoutAtIndex ==
    ASSUME NEW S, NEW s \in Seq(S), NEW i \in 1..Len(s)
    PROVE  /\ WithoutAt(s, i) \in Seq(S)
           /\ Len(WithoutAt(s, i)) = Len(s) - 1
           /\ \A j \in 1..(Len(s) - 1) :
                 WithoutAt(s, i)[j] = IF j < i THEN s[j] ELSE s[j + 1]
  <1> DEFINE a == SubSeq(s, 1, i - 1)
             b == SubSeq(s, i + 1, Len(s))
  <1>1. a \in Seq(S) /\ Len(a) = i - 1 /\ \A j \in 1..(i - 1) : a[j] = s[j]
    OBVIOUS
  <1>2. b \in Seq(S) /\ Len(b) = Len(s) - i /\ \A j \in 1..(Len(s) - i) : b[j] = s[j + i]
    OBVIOUS
  <1> HIDE DEF a, b
  <1>3. /\ a \o b \in Seq(S) /\ Len(a \o b) = Len(s) - 1
        /\ \A j \in 1..(Len(s) - 1) : (a \o b)[j] = IF j < i THEN s[j] ELSE s[j + 1]
    <2>0. a \o b \in Seq(S) /\ Len(a \o b) = Len(a) + Len(b)
      BY <1>1, <1>2, ConcatProperties
    <2>1. a \o b \in Seq(S) /\ Len(a \o b) = Len(s) - 1
      BY <1>1, <1>2, <2>0
    <2>2. ASSUME NEW j \in 1..(i - 1) PROVE (a \o b)[j] = s[j]
      BY <1>1, <1>2
    <2>3. ASSUME NEW j \in i..(Len(s) - 1) PROVE (a \o b)[j] = s[j + 1]
      <3>1. j - (i - 1) \in 1..(Len(s) - i) /\ (a \o b)[j] = b[j - (i - 1)]
        BY <1>1, <1>2
      <3> QED BY <1>2, <3>1
    <2> QED BY <2>1, <2>2, <2>3
  <1> QED BY <1>3 DEF a, b, WithoutAt

\* Without keeps the type of the queue.
LEMMA WithoutType ==
    ASSUME NEW S, NEW s \in Seq(S), NEW t
    PROVE  Without(s, t) \in Seq(S)
  <1>1. CASE t \in ElementsOf(s)
    <2>1. PICK i \in 1..Len(s) : s[i] = t
      BY <1>1 DEF ElementsOf
    <2>2. (CHOOSE k \in 1..Len(s) : s[k] = t) \in 1..Len(s)
      BY <2>1
    <2> QED BY <1>1, <2>2, WithoutAtIndex DEF Without
  <1>2. CASE t \notin ElementsOf(s)
    BY <1>2 DEF Without
  <1> QED BY <1>1, <1>2

\* From a queue without repetition, Without takes exactly the one element.
LEMMA WithoutElements ==
    ASSUME NEW S, NEW s \in Seq(S), Distinct(s), NEW t
    PROVE  /\ Distinct(Without(s, t))
           /\ ElementsOf(Without(s, t)) = ElementsOf(s) \ {t}
  <1>1. CASE t \in ElementsOf(s)
    <2> DEFINE i == CHOOSE k \in 1..Len(s) : s[k] = t
               w == WithoutAt(s, i)
    <2>1. i \in 1..Len(s) /\ s[i] = t
      BY <1>1 DEF ElementsOf
    <2> HIDE DEF i
    <2>2. /\ w \in Seq(S) /\ Len(w) = Len(s) - 1
          /\ \A j \in 1..(Len(s) - 1) : w[j] = IF j < i THEN s[j] ELSE s[j + 1]
      BY <2>1, WithoutAtIndex
    <2> HIDE DEF w
    <2>3. Distinct(w)
      BY <2>1, <2>2 DEF Distinct
    <2>4. ASSUME NEW j \in 1..Len(w) PROVE w[j] \in ElementsOf(s) \ {t}
      BY <2>1, <2>2 DEF Distinct, ElementsOf
    <2>5. ASSUME NEW j \in 1..Len(s), s[j] # t PROVE s[j] \in ElementsOf(w)
      <3>1. CASE j < i
        BY <2>1, <2>2, <3>1 DEF ElementsOf
      <3>2. CASE j > i
        <4>1. j - 1 \in 1..Len(w) /\ w[j - 1] = s[j]
          BY <2>1, <2>2, <3>2
        <4> QED BY <4>1 DEF ElementsOf
      <3> QED BY <2>1, <2>5, <3>1, <3>2
    <2>6. ElementsOf(w) = ElementsOf(s) \ {t}
      BY <2>4, <2>5 DEF ElementsOf
    <2>7. Without(s, t) = w
      BY <1>1 DEF Without, w, i
    <2> QED BY <2>3, <2>6, <2>7
  <1>2. CASE t \notin ElementsOf(s)
    BY <1>2 DEF Without
  <1> QED BY <1>1, <1>2

\* A new element at the end, and the first one gone.
LEMMA AppendElements ==
    ASSUME NEW S, NEW s \in Seq(S), NEW t \in S
    PROVE  /\ ElementsOf(Append(s, t)) = ElementsOf(s) \cup {t}
           /\ Distinct(s) /\ t \notin ElementsOf(s) => Distinct(Append(s, t))
  <1> DEFINE a == Append(s, t)
  <1>1. /\ Len(s) \in Nat /\ Len(a) = Len(s) + 1 /\ a[Len(s) + 1] = t
        /\ \A i \in 1..Len(s) : a[i] = s[i]
    OBVIOUS
  <1> HIDE DEF a
  <1>2. ElementsOf(a) = ElementsOf(s) \cup {t}
    <2>1. ASSUME NEW i \in 1..Len(a) PROVE a[i] \in ElementsOf(s) \cup {t}
      BY <1>1 DEF ElementsOf
    <2>2. ASSUME NEW i \in 1..Len(s) PROVE s[i] \in ElementsOf(a)
      <3>1. i \in 1..Len(a) /\ a[i] = s[i]
        BY <1>1
      <3> QED BY <3>1 DEF ElementsOf
    <2>3. t \in ElementsOf(a)
      <3>1. Len(s) + 1 \in 1..Len(a)
        BY <1>1
      <3> QED BY <1>1, <3>1 DEF ElementsOf
    <2> QED BY <2>1, <2>2, <2>3 DEF ElementsOf
  <1>3. ASSUME Distinct(s), t \notin ElementsOf(s) PROVE Distinct(a)
    BY <1>1, <1>3 DEF Distinct, ElementsOf
  <1> QED BY <1>2, <1>3 DEF a

\* Taking the head of a sequence without repetition removes just that element.
LEMMA TailElements ==
    ASSUME NEW S, NEW s \in Seq(S), s # <<>>, Distinct(s)
    PROVE  /\ Head(s) \in ElementsOf(s) /\ Distinct(Tail(s))
           /\ ElementsOf(Tail(s)) = ElementsOf(s) \ {Head(s)}
  <1> DEFINE r == Tail(s)
  <1>1. /\ Len(s) \in Nat /\ Len(s) >= 1 /\ Head(s) = s[1] /\ Len(r) = Len(s) - 1
        /\ \A i \in 1..Len(r) : r[i] = s[i + 1]
    OBVIOUS
  <1> HIDE DEF r
  <1>2. Head(s) \in ElementsOf(s)
    <2>1. 1 \in 1..Len(s)
      BY <1>1
    <2> QED BY <1>1, <2>1 DEF ElementsOf
  <1>3. Distinct(r)
    BY <1>1 DEF Distinct
  <1>4. ASSUME NEW i \in 1..Len(r) PROVE r[i] \in ElementsOf(s) \ {Head(s)}
    <2>1. i + 1 \in 1..Len(s) /\ i + 1 # 1 /\ 1 \in 1..Len(s) /\ r[i] = s[i + 1]
      BY <1>1
    <2> QED BY <1>1, <2>1 DEF Distinct, ElementsOf
  <1>5. ASSUME NEW i \in 1..Len(s), s[i] # Head(s) PROVE s[i] \in ElementsOf(r)
    <2>1. i - 1 \in 1..Len(r) /\ r[i - 1] = s[i]
      BY <1>1, <1>5
    <2> QED BY <2>1 DEF ElementsOf
  <1>6. ElementsOf(r) = ElementsOf(s) \ {Head(s)}
    BY <1>4, <1>5 DEF ElementsOf
  <1> QED BY <1>2, <1>3, <1>6 DEF r

\* Taking the first of several elements keeps the last one last.
LEMMA TailLast ==
    ASSUME NEW S, NEW s \in Seq(S), s # <<>>
    PROVE  IF Len(s) = 1 THEN Tail(s) = <<>> /\ Head(s) = s[Len(s)]
           ELSE Tail(s) # <<>> /\ Tail(s)[Len(Tail(s))] = s[Len(s)]
  <1>1. /\ Tail(s) \in Seq(S) /\ Len(s) \in Nat /\ Len(s) > 0
        /\ Len(Tail(s)) = Len(s) - 1 /\ Head(s) = s[1]
        /\ \A i \in 1..Len(Tail(s)) : Tail(s)[i] = s[i + 1]
    OBVIOUS
  <1>2. CASE Len(s) = 1
    <2>1. Len(Tail(s)) = 0
      BY <1>1, <1>2
    <2>2. Tail(s) = <<>>
      BY <1>1, <2>1, EmptySeq
    <2> QED BY <1>1, <1>2, <2>2
  <1>3. CASE Len(s) # 1
    <2> DEFINE n == Len(Tail(s))
    <2>1. n \in 1..n /\ n + 1 = Len(s) /\ n # 0
      BY <1>1, <1>3
    <2>2. Tail(s)[n] = s[n + 1]
      BY <1>1, <2>1
    <2>3. Tail(s) # <<>>
      BY <2>1, EmptySeq
    <2> QED BY <1>3, <2>1, <2>2, <2>3
  <1> QED BY <1>2, <1>3

\* A turn at the end of the second part, or at its start, of two joined queues.
LEMMA JoinedQueues ==
    ASSUME NEW S, NEW k \in Seq(S), NEW q \in Seq(S)
    PROVE  /\ \A t \in S : Append(k \o q, t) = k \o Append(q, t)
           /\ q # <<>> => Append(k, Head(q)) \o Tail(q) = k \o q
           /\ <<>> \o q = q
  <1>1. \A t \in S : Append(k \o q, t) = k \o Append(q, t)
    OBVIOUS
  <1>2. ASSUME q # <<>> PROVE Append(k, Head(q)) \o Tail(q) = k \o q
    BY <1>2
  <1>3. <<>> \o q = q
    OBVIOUS
  <1> QED BY <1>1, <1>2, <1>3

\* Where the elements of two joined sequences are.
LEMMA JoinedPlaces ==
    ASSUME NEW S, NEW k \in Seq(S), NEW q \in Seq(S)
    PROVE  /\ k \o q \in Seq(S) /\ Len(k) \in Nat /\ Len(q) \in Nat /\ Len(k \o q) = Len(k) + Len(q)
           /\ \A i \in 1..Len(k) : (k \o q)[i] = k[i]
           /\ \A i \in 1..Len(q) : (k \o q)[Len(k) + i] = q[i]
  <1>1. k \o q \in Seq(S) /\ Len(k) \in Nat /\ Len(q) \in Nat /\ Len(k \o q) = Len(k) + Len(q)
    BY ConcatProperties
  <1>2. \A i \in 1..Len(k) : (k \o q)[i] = k[i]
    OBVIOUS
  <1>3. ASSUME NEW i \in 1..Len(q) PROVE (k \o q)[Len(k) + i] = q[i]
    <2>1. PICK j : j = Len(k) + i
      OBVIOUS
    <2>2. j \in 1..(Len(k) + Len(q)) /\ j > Len(k) /\ j - Len(k) = i
      BY <1>1, <2>1
    <2>3. (k \o q)[j] = q[j - Len(k)]
      BY <2>2
    <2> QED BY <2>1, <2>2, <2>3
  <1> QED BY <1>1, <1>2, <1>3

\* A turn that only the second of two joined queues holds is removed there.
LEMMA WithoutJoined ==
    ASSUME NEW S, NEW k \in Seq(S), NEW q \in Seq(S), Distinct(k \o q), NEW t \in ElementsOf(q)
    PROVE  Without(k \o q, t) = k \o Without(q, t)
  <1> DEFINE p == k \o q
             a == CHOOSE i \in 1..Len(p) : p[i] = t
             b == CHOOSE i \in 1..Len(q) : q[i] = t
  <1>1. /\ p \in Seq(S) /\ Len(k) \in Nat /\ Len(q) \in Nat /\ Len(p) = Len(k) + Len(q)
        /\ \A i \in 1..Len(k) : p[i] = k[i]
        /\ \A i \in 1..Len(q) : p[Len(k) + i] = q[i]
    BY JoinedPlaces
  <1> HIDE DEF p
  <1>2. b \in 1..Len(q) /\ q[b] = t
    BY DEF ElementsOf
  <1>3. Len(k) + b \in 1..Len(p) /\ p[Len(k) + b] = t
    BY <1>1, <1>2
  <1>4. a \in 1..Len(p) /\ p[a] = t
    BY <1>3
  <1>5. Without(p, t) = WithoutAt(p, a) /\ Without(q, t) = WithoutAt(q, b)
    BY <1>3 DEF Without, ElementsOf
  <1> HIDE DEF a, b
  <1>6. a = Len(k) + b
    BY <1>3, <1>4 DEF Distinct, p
  <1>7. PICK v : v = WithoutAt(p, a)
    OBVIOUS
  <1>8. PICK w : w = WithoutAt(q, b)
    OBVIOUS
  <1>9. /\ v \in Seq(S) /\ Len(v) = Len(p) - 1
        /\ \A j \in 1..(Len(p) - 1) : v[j] = IF j < a THEN p[j] ELSE p[j + 1]
    BY <1>1, <1>4, <1>7, WithoutAtIndex
  <1>10. /\ w \in Seq(S) /\ Len(w) = Len(q) - 1
         /\ \A j \in 1..(Len(q) - 1) : w[j] = IF j < b THEN q[j] ELSE q[j + 1]
    BY <1>2, <1>8, WithoutAtIndex
  <1>11. /\ k \o w \in Seq(S) /\ Len(k \o w) = Len(k) + Len(w)
         /\ \A i \in 1..Len(k) : (k \o w)[i] = k[i]
         /\ \A i \in 1..Len(w) : (k \o w)[Len(k) + i] = w[i]
    <2>1. w \in Seq(S)
      BY <1>10
    <2> QED BY <2>1, JoinedPlaces
  <1>12. PICK u : u = k \o w
    OBVIOUS
  <1>13. Len(u) = Len(v)
    BY <1>1, <1>9, <1>10, <1>11, <1>12
  <1>14. ASSUME NEW j \in 1..Len(u) PROVE u[j] = v[j]
    <2>1. CASE j \in 1..Len(k)
      <3>1. u[j] = k[j]
        BY <1>11, <1>12, <2>1
      <3>2. j < a /\ j \in 1..(Len(p) - 1)
        BY <1>1, <1>2, <1>6, <2>1
      <3>3. v[j] = p[j] /\ p[j] = k[j]
        BY <1>1, <1>9, <2>1, <3>2
      <3> QED BY <3>1, <3>3
    <2>2. CASE j \notin 1..Len(k)
      <3>1. PICK i \in 1..Len(w) : j = Len(k) + i
        <4>1. j - Len(k) \in 1..Len(w) /\ j = Len(k) + (j - Len(k))
          BY <1>1, <1>10, <1>11, <1>12, <2>2
        <4> QED BY <4>1
      <3>2. u[j] = w[i]
        BY <1>11, <1>12, <3>1
      <3>3. /\ i \in 1..(Len(q) - 1) /\ i \in 1..Len(q) /\ i + 1 \in 1..Len(q)
            /\ j \in 1..(Len(p) - 1) /\ j + 1 = Len(k) + (i + 1)
        BY <1>1, <1>10, <3>1
      <3>4. p[j] = q[i] /\ p[j + 1] = q[i + 1]
        BY <1>1, <3>1, <3>3
      <3>5. j < a <=> i < b
        BY <1>1, <1>2, <1>6, <3>1, <3>3
      <3>6. v[j] = (IF j < a THEN p[j] ELSE p[j + 1]) /\ w[i] = IF i < b THEN q[i] ELSE q[i + 1]
        BY <1>9, <1>10, <3>3
      <3> QED BY <3>2, <3>4, <3>5, <3>6
    <2> QED BY <2>1, <2>2
  <1>15. u = v
    BY <1>9, <1>11, <1>12, <1>13, <1>14, SeqEqual
  <1> QED BY <1>5, <1>7, <1>8, <1>12, <1>15 DEF p

\* From a queue without repetition, removing its first turn leaves the others.
LEMMA WithoutFirst ==
    ASSUME NEW S, NEW s \in Seq(S), NEW t \in S, Distinct(<<t>> \o s)
    PROVE  Without(<<t>> \o s, t) = s
  <1> DEFINE p == <<t>> \o s
             a == CHOOSE i \in 1..Len(p) : p[i] = t
  <1>1. /\ p \in Seq(S) /\ Len(s) \in Nat /\ Len(p) = Len(s) + 1 /\ p[1] = t
        /\ \A i \in 1..Len(s) : p[i + 1] = s[i]
    OBVIOUS
  <1> HIDE DEF p
  <1>2. 1 \in 1..Len(p) /\ p[1] = t
    BY <1>1
  <1>3. a \in 1..Len(p) /\ p[a] = t
    BY <1>2
  <1>4. Without(p, t) = WithoutAt(p, a)
    BY <1>2 DEF Without, ElementsOf
  <1> HIDE DEF a
  <1>5. a = 1
    BY <1>2, <1>3 DEF Distinct, p
  <1>6. PICK v : v = WithoutAt(p, a)
    OBVIOUS
  <1>7. /\ v \in Seq(S) /\ Len(v) = Len(p) - 1
        /\ \A j \in 1..(Len(p) - 1) : v[j] = IF j < a THEN p[j] ELSE p[j + 1]
    BY <1>1, <1>3, <1>6, WithoutAtIndex
  <1>8. Len(v) = Len(s) /\ \A j \in 1..Len(v) : v[j] = s[j]
    BY <1>1, <1>5, <1>7
  <1>9. v = s
    BY <1>7, <1>8, SeqEqual
  <1> QED BY <1>4, <1>6, <1>9 DEF p

-----------------------------------------------------------------------------
(* Type correctness *)

\* The constant records that actions start from are well typed.
LEMMA ConstantTypes ==
    /\ NoRun \in Run /\ NoLocal \in Local
    /\ NoLate \in [task: Tasks \cup {NoTask}, trace: Seq(TraceEvent)]
    /\ \A t \in Turns : TurnEvent(t) \in TraceEvent
    /\ \A k \in ToolKind \cup {"done"} : ToolEvent(k) \in TraceEvent
  BY MaxToolsAssumption
  DEF NoRun, Run, NoLocal, Local, NothingSeen, NoLate, TurnEvent, ToolEvent, TraceEvent, NoTask

\* What a new worker starts with is well typed.
LEMMA NewRunType ==
    ASSUME NEW k \in Tasks, NEW t \in Turns, NEW q \in Seq(Turns)
    PROVE  NewRun(k, t, q) \in Run
  <1>1. ElementsOf(q) \subseteq Turns
    BY DEF ElementsOf
  <1> QED BY <1>1, ConstantTypes DEF NewRun, NoRun, Run

\* What the types of the records leave open: before the first task there is
\* nothing to see, so that whatever a handler or a dead worker's recorder acts
\* on belongs to a task, and a worker that ends has a result.
Grounded ==
    /\ active = NoTask => status = "idle" /\ lanePending = {}
    /\ \A h \in Hosts : local[h].seen.task = NoTask => local[h].seen = NothingSeen
    /\ \A h \in Hosts : late[h].trace # <<>> => late[h].task \in Tasks
    /\ \A h \in Hosts : run[h].stage = "closing" => run[h].result \in Fact

\* What a handler reads is well typed.
LEMMA ProjectionType ==
    ASSUME TypeOK, Grounded
    PROVE  /\ [NoLocal EXCEPT !.seen = Projection] \in Local
           /\ Projection.task = NoTask => Projection = NothingSeen
  <1>1. /\ (status \in ActiveStatus) \in BOOLEAN /\ (status = "uncertain") \in BOOLEAN
        /\ (lanePending # {}) \in BOOLEAN
    OBVIOUS
  <1>2. active = NoTask =>
            status \notin ActiveStatus /\ status # "uncertain" /\ lanePending = {}
    BY DEF Grounded, ActiveStatus
  <1>3. active = NoTask => Projection = NothingSeen
    <2> HAVE active = NoTask
    <2>1. /\ (status \in ActiveStatus) = FALSE /\ (status = "uncertain") = FALSE
          /\ (lanePending # {}) = FALSE
      BY <1>2
    <2> QED BY <2>1 DEF Projection, NothingSeen
  <1>4. Projection \in [task: Tasks \cup {NoTask}, active: BOOLEAN, uncertain: BOOLEAN,
                        queued: BOOLEAN]
    BY <1>1 DEF TypeOK, Projection
  <1>5. [NoLocal EXCEPT !.seen = Projection] \in Local
    BY <1>4, ConstantTypes DEF NoLocal, Local
  <1> QED BY <1>3, <1>5 DEF Projection

\* The task a handler acts on exists if there is something to do.
LEMMA SeenType ==
    ASSUME TypeOK, Grounded, NEW h \in Hosts
    PROVE  /\ Seen(h).task \in Tasks \cup {NoTask}
           /\ Seen(h).task = NoTask => Seen(h) = NothingSeen
  BY ProjectionType DEF TypeOK, Seen, Projection, Local, Grounded

\* A handler that saw something saw it of a task.
LEMMA SeenTask ==
    ASSUME TypeOK, Grounded, NEW h \in Hosts,
           Seen(h).active \/ Seen(h).uncertain \/ Seen(h).queued
    PROVE  Seen(h).task \in Tasks
  <1>1. ~NothingSeen.active /\ ~NothingSeen.uncertain /\ ~NothingSeen.queued
    BY DEF NothingSeen
  <1>2. Seen(h) # NothingSeen
    BY <1>1
  <1> QED BY <1>2, SeenType

\* Recovery records a fact of an orphan.
LEMMA AnalyzeType == \A k : AnalyzeTask(k) \in Fact \cap Status
  BY DEF AnalyzeTask, Fact, Status

\* The types hold at the start.
LEMMA TypeInit == Init => TypeOK
  BY MaxTasksAssumption, ConstantTypes
  DEF Init, TypeOK, Status, PcLabels, Tasks, NoTask, NoRun, Starting

\* A fact of an existing task, and what it makes of the projection.
LEMMA FactTypes ==
    ASSUME TypeOK, Grounded, NEW k \in Tasks, NEW f \in Fact \cap Status,
           AppendFact(k, f), Project(k, f)
    PROVE  /\ facts' \in [Tasks -> Seq(Fact)] /\ status' \in Status
           /\ active = NoTask => status' = status
  <1>1. facts \in [Tasks -> Seq(Fact)] /\ status \in Status
    BY DEF TypeOK
  <1>2. k # NoTask
    BY DEF Tasks, NoTask
  <1>3. Append(facts[k], f) \in Seq(Fact)
    BY <1>1
  <1>4. facts' = [facts EXCEPT ![k] = Append(facts[k], f)]
    BY DEF AppendFact
  <1>5. facts' \in [Tasks -> Seq(Fact)]
    BY <1>1, <1>3, <1>4
  <1>6. status' \in Status /\ (active = NoTask => status' = status)
    BY <1>1, <1>2 DEF Project
  <1> QED BY <1>5, <1>6

\* Recording an orphan keeps the types of the ledger.
LEMMA OrphanTypes ==
    ASSUME TypeOK, Grounded, NEW k \in Tasks, RecordOrphanedTaskRecovery(k)
    PROVE  /\ facts' \in [Tasks -> Seq(Fact)] /\ status' \in Status
           /\ active = NoTask => status' = status
  <1>1. CASE UNCHANGED <<facts, status>>
    BY <1>1 DEF TypeOK
  <1>2. CASE AppendFact(k, AnalyzeTask(k)) /\ Project(k, AnalyzeTask(k))
    BY <1>2, AnalyzeType, FactTypes
  <1> QED BY <1>1, <1>2 DEF RecordOrphanedTaskRecovery

\* One trace event of an existing task.
LEMMA TraceEventTypes ==
    ASSUME TypeOK, Grounded, NEW k \in Tasks, NEW e \in TraceEvent,
           AppendTraceEvent(k, e)
    PROVE  /\ starts' \in [Turns -> Nat] /\ pending' \in [Tasks -> Seq(Turns)]
           /\ active' \in Tasks \cup {NoTask} /\ status' \in Status
           /\ openTool' \in [Tasks -> {"none"} \cup ToolKind]
           /\ active' = NoTask => active = NoTask /\ status' = status
           /\ \A t \in Turns : starts'[t] >= starts[t]
           /\ e.kind = "turn" => e.turn \in Turns /\ starts'[e.turn] > 0
  <1>1. CASE e.kind = "turn"
    <2>1. e.turn \in Turns
      BY <1>1, ToolKindAssumption DEF TraceEvent
    <2>2. Without(pending[k], e.turn) \in Seq(Turns)
      BY WithoutType DEF TypeOK
    <2>3. /\ starts' = [starts EXCEPT ![e.turn] = @ + 1]
          /\ pending' = [pending EXCEPT ![k] = Without(pending[k], e.turn)]
          /\ active' = k /\ status' = "running" /\ openTool' = openTool
      BY <1>1 DEF AppendTraceEvent, TypeOK
    <2>4. /\ starts' \in [Turns -> Nat] /\ starts'[e.turn] > 0
          /\ \A t \in Turns : starts'[t] >= starts[t]
      BY <2>1, <2>3 DEF TypeOK
    <2>5. pending' \in [Tasks -> Seq(Turns)]
      BY <2>2, <2>3 DEF TypeOK
    <2>6. active' \in Tasks /\ active' # NoTask
      BY <2>3 DEF Tasks, NoTask
    <2>7. status' \in Status /\ openTool' \in [Tasks -> {"none"} \cup ToolKind]
      BY <2>3 DEF TypeOK, Status, ActiveStatus
    <2> QED BY <2>1, <2>4, <2>5, <2>6, <2>7
  <1>2. CASE e.kind # "turn"
    <2>1. e.kind \in {"done"} \cup ToolKind
      BY <1>2 DEF TraceEvent
    <2>2. /\ openTool' = [openTool EXCEPT ![k] = IF e.kind = "done" THEN "none" ELSE e.kind]
          /\ UNCHANGED <<starts, pending, active, status>>
      BY <1>2 DEF AppendTraceEvent
    <2>3. openTool' \in [Tasks -> {"none"} \cup ToolKind]
      BY <2>1, <2>2 DEF TypeOK
    <2>4. \A t \in Turns : starts'[t] >= starts[t]
      BY <2>2 DEF TypeOK
    <2> QED BY <1>2, <2>2, <2>3, <2>4 DEF TypeOK
  <1> QED BY <1>1, <1>2

\* Closing the queue of a worker.
LEMMA ClosingType ==
    ASSUME TypeOK, Grounded, NEW h \in Hosts, NEW f \in Fact, run' = Closing(h, f),
           run[h].stage # "none"
    PROVE  /\ run' \in [Hosts -> Run]
           /\ \A g \in Hosts : run'[g].stage # "none" => run'[g].task \in Tasks /\ run'[g].turn \in Turns
           /\ \A g \in Hosts : run'[g].stage = "closing" => run'[g].result \in Fact
  <1> DEFINE r == [run[h] EXCEPT !.stage = "closing", !.result = f]
  <1>0. run[h] \in Run /\ run[h].task \in Tasks /\ run[h].turn \in Turns
    BY DEF TypeOK
  <1>1. r \in Run /\ r.task \in Tasks /\ r.turn \in Turns /\ r.result = f
    <2>1. r \in Run
      BY <1>0 DEF Run
    <2>2. r.task = run[h].task /\ r.turn = run[h].turn /\ r.result = f
      BY <1>0 DEF Run
    <2> QED BY <1>0, <2>1, <2>2
  <1>2. run' = [run EXCEPT ![h] = r]
    BY DEF Closing, TypeOK
  <1> HIDE DEF r
  <1> QED BY <1>1, <1>2 DEF TypeOK, Grounded

TypeInv == TypeOK /\ Grounded

\* A handler that returns, and one that goes on with turns to start.
LEMMA ReturnType ==
    ASSUME TypeOK, Grounded, NEW h \in Hosts, Return(h)
    PROVE  /\ pc' \in [Hosts -> PcLabels] /\ local' \in [Hosts -> Local]
           /\ \A g \in Hosts : Starting(g)' => local'[g].turns # <<>>
           /\ \A g \in Hosts : pc'[g] = "restarting" => local'[g].task \in Tasks
           /\ \A g \in Hosts : local'[g].seen.task = NoTask => local'[g].seen = NothingSeen
  BY ConstantTypes DEF Return, Goto, TypeOK, Grounded, PcLabels, Starting, NoLocal

\* A handler that gets the lease keeps the types.
LEMMA PrepareType ==
    ASSUME TypeOK, Grounded, NEW h \in Hosts, NEW ts \in Seq(Turns), ts # <<>>,
           NEW label \in {"transferring", "creating"}, Prepare(h, label, ts)
    PROVE  /\ pc' \in [Hosts -> PcLabels] /\ local' \in [Hosts -> Local]
           /\ lease' \in Hosts \cup {NoHost}
           /\ \A g \in Hosts : Starting(g)' => local'[g].turns # <<>>
           /\ \A g \in Hosts : pc'[g] = "restarting" => local'[g].task \in Tasks
           /\ \A g \in Hosts : local'[g].seen.task = NoTask => local'[g].seen = NothingSeen
  <1> DEFINE l == [NoLocal EXCEPT !.turns = ts]
  <1>1. l \in Local /\ l.turns # <<>> /\ l.seen = NothingSeen
    BY ConstantTypes DEF NoLocal, Local
  <1>2. local' = [local EXCEPT ![h] = l] /\ pc' = [pc EXCEPT ![h] = label] /\ lease' = h
    BY DEF Prepare, Goto
  <1> HIDE DEF l
  <1> QED BY <1>1, <1>2 DEF TypeOK, Grounded, PcLabels, Starting

\* What TypeOK and Grounded say of the runs.
RunsTyped ==
    /\ run \in [Hosts -> Run]
    /\ \A g \in Hosts : run[g].stage # "none" => run[g].task \in Tasks /\ run[g].turn \in Turns
    /\ \A g \in Hosts : run[g].stage = "closing" => run[g].result \in Fact

\* A step that gives one host a well-typed run keeps the runs typed.
LEMMA RunKept ==
    ASSUME TypeOK, Grounded, NEW h \in Hosts, NEW r \in Run,
           r.stage # "none" => r.task \in Tasks /\ r.turn \in Turns,
           r.stage = "closing" => r.result \in Fact,
           run' = [run EXCEPT ![h] = r]
    PROVE  RunsTyped'
  <1>1. RunsTyped
    BY DEF TypeOK, Grounded, RunsTyped
  <1>2. run'[h] = r /\ \A g \in Hosts \ {h} : run'[g] = run[g]
    BY <1>1 DEF RunsTyped
  <1>3. run' \in [Hosts -> Run]
    BY <1>1 DEF RunsTyped
  <1> QED BY <1>1, <1>2, <1>3 DEF RunsTyped

\* The types, and what they need, hold at the start.
LEMMA TypeInvInit == Init => TypeInv
  BY TypeInit DEF Init, TypeInv, Grounded, NoLocal, NoLate, NoRun

\* Every step keeps the types.
LEMMA TypeStep == TypeInv /\ [Next]_vars => TypeInv'
  <1> SUFFICES ASSUME TypeOK, Grounded, [Next]_vars PROVE TypeOK' /\ Grounded'
    BY DEF TypeInv
  <1> USE DEF TypeOK, Grounded, PcLabels, Goto, Starting, handlerVars, workerVars,
              historyVars, ledgerVars
  <1>1. ASSUME NEW h \in Hosts, RecoverScan(h) PROVE TypeOK' /\ Grounded'
    BY <1>1, ProjectionType DEF RecoverScan, Read, NoLocal
  <1>2. ASSUME NEW h \in Hosts, RecoverLease(h) PROVE TypeOK' /\ Grounded'
    <2> DEFINE s == Seen(h)
    <2>1. s.task \in Tasks
      BY <1>2, SeenTask DEF RecoverLease, NeedsRecovery
    <2> HIDE DEF s
    <2>2. /\ facts' \in [Tasks -> Seq(Fact)] /\ status' \in Status
          /\ active = NoTask => status' = status
      <3>1. CASE s.active
        BY <1>2, <2>1, <3>1, OrphanTypes DEF RecoverLease, s
      <3>2. CASE ~s.active
        BY <1>2, <3>2 DEF RecoverLease, s
      <3> QED BY <3>1, <3>2
    <2>3. CASE Return(h) /\ UNCHANGED lease
      BY <1>2, <2>2, <2>3, ReturnType DEF RecoverLease
    <2>4. CASE pending[s.task] # <<>> /\ Prepare(h, "transferring", pending[s.task])
      BY <1>2, <2>1, <2>2, <2>4, PrepareType DEF RecoverLease
    <2> QED BY <1>2, <2>3, <2>4 DEF RecoverLease, s
  <1>3. ASSUME NEW h \in Hosts, RecoverSkip(h) PROVE TypeOK' /\ Grounded'
    BY <1>3, ReturnType DEF RecoverSkip
  <1>4. ASSUME NEW h \in Hosts, Transfer(h) PROVE TypeOK' /\ Grounded'
    <2> DEFINE l == [local[h] EXCEPT !.task = nextTask]
    <2>0. local[h] \in Local /\ nextTask \in Tasks
      BY <1>4 DEF Transfer
    <2>1. l \in Local /\ l.turns = local[h].turns /\ l.seen = local[h].seen /\ l.task \in Tasks
      <3>1. l \in Local
        BY <2>0 DEF Local
      <3>2. l.turns = local[h].turns /\ l.seen = local[h].seen /\ l.task = nextTask
        BY <2>0 DEF Local
      <3> QED BY <2>0, <3>1, <3>2
    <2>2. local' = [local EXCEPT ![h] = l]
      BY <1>4 DEF Transfer
    <2>3. local[h].turns \in Seq(Turns) /\ nextTask + 1 \in 1..(MaxTasks + 1)
      <3>1. local[h].turns \in Seq(Turns)
        BY <2>0 DEF Local
      <3>2. nextTask + 1 \in 1..(MaxTasks + 1)
        BY <2>0, MaxTasksAssumption DEF Tasks
      <3> QED BY <3>1, <3>2
    <2> HIDE DEF l
    <2>4. /\ pc' = [pc EXCEPT ![h] = "restarting"] /\ pc' \in [Hosts -> PcLabels]
          /\ pc[h] = "transferring" /\ local[h].turns # <<>>
      BY <1>4 DEF Transfer
    <2>5. /\ local' \in [Hosts -> Local]
          /\ \A g \in Hosts : local'[g].turns = local[g].turns /\ local'[g].seen = local[g].seen
          /\ local'[h].task \in Tasks /\ \A g \in Hosts \ {h} : local'[g] = local[g]
      BY <2>1, <2>2
    <2>6. pending' \in [Tasks -> Seq(Turns)]
      BY <1>4, <2>0, <2>3 DEF Transfer
    <2>7. \A g \in Hosts : /\ Starting(g)' => local'[g].turns # <<>>
                           /\ pc'[g] = "restarting" => local'[g].task \in Tasks
      BY <2>4, <2>5
    <2>8. \A g \in Hosts : local'[g].seen.task = NoTask => local'[g].seen = NothingSeen
      BY <2>5
    <2> QED BY <1>4, <2>3, <2>4, <2>5, <2>6, <2>7, <2>8 DEF Transfer
  <1>5. ASSUME NEW h \in Hosts, Restart(h) PROVE TypeOK' /\ Grounded'
    <2> DEFINE first == Head(local[h].turns)
               rest == Tail(local[h].turns)
               k == local[h].task
    <2>1. local[h].turns \in Seq(Turns) /\ local[h].turns # <<>> /\ k \in Tasks
      BY <1>5 DEF Restart, Local
    <2>2. first \in Turns /\ rest \in Seq(Turns) /\ ElementsOf(rest) \subseteq Turns
      BY <2>1 DEF ElementsOf
    <2> HIDE DEF first, rest, k
    <2>3. /\ active' = k /\ status' = "running" /\ lanePending' = ElementsOf(rest)
          /\ pending' = [pending EXCEPT ![k] = rest]
          /\ starts' = [starts EXCEPT ![first] = @ + 1]
          /\ run' = [run EXCEPT ![h] = NewRun(k, first, rest)]
      BY <1>5 DEF Restart, first, rest, k
    <2>4. NewRun(k, first, rest) \in Run /\ NewRun(k, first, rest).task = k
          /\ NewRun(k, first, rest).turn = first
          /\ NewRun(k, first, rest).stage = "loop"
      BY <2>1, <2>2, NewRunType DEF NewRun, NoRun
    <2>5. k # NoTask /\ "running" \in Status
      BY <2>1 DEF Tasks, NoTask, Status, ActiveStatus
    <2>6. /\ run' \in [Hosts -> Run]
          /\ \A g \in Hosts : run'[g].stage # "none" => run'[g].task \in Tasks /\ run'[g].turn \in Turns
          /\ \A g \in Hosts : run'[g].stage = "closing" => run'[g].result \in Fact
      BY <2>1, <2>2, <2>3, <2>4
    <2>7. /\ pending' \in [Tasks -> Seq(Turns)] /\ starts' \in [Turns -> Nat]
          /\ lanePending' \subseteq Turns
      BY <2>1, <2>2, <2>3
    <2> QED BY <1>5, <2>1, <2>3, <2>5, <2>6, <2>7, ReturnType DEF Restart
  <1>6. ASSUME NEW h \in Hosts, CreateTask(h) PROVE TypeOK' /\ Grounded'
    <2> DEFINE t == Head(local[h].turns)
    <2>1. t \in Turns /\ nextTask \in Tasks /\ nextTask # NoTask
      BY <1>6 DEF CreateTask, Local, Tasks, NoTask
    <2> HIDE DEF t
    <2>2. /\ active' = nextTask /\ status' = "running" /\ lanePending' = {}
          /\ starts' = [starts EXCEPT ![t] = @ + 1]
          /\ run' = [run EXCEPT ![h] = NewRun(nextTask, t, <<>>)]
      BY <1>6 DEF CreateTask, t
    <2>3. /\ run' \in [Hosts -> Run] /\ starts' \in [Turns -> Nat]
          /\ \A g \in Hosts : run'[g].stage # "none" => run'[g].task \in Tasks /\ run'[g].turn \in Turns
          /\ \A g \in Hosts : run'[g].stage = "closing" => run'[g].result \in Fact
      <3>1. <<>> \in Seq(Turns)
        OBVIOUS
      <3>2. NewRun(nextTask, t, <<>>) \in Run
        BY <2>1, <3>1, NewRunType
      <3>3. /\ NewRun(nextTask, t, <<>>).task = nextTask /\ NewRun(nextTask, t, <<>>).turn = t
            /\ NewRun(nextTask, t, <<>>).stage = "loop"
        BY DEF NewRun, NoRun
      <3> QED BY <2>1, <2>2, <3>2, <3>3
    <2>4. nextTask' \in 1..(MaxTasks + 1) /\ "running" \in Status
      BY <1>6, MaxTasksAssumption DEF CreateTask, Tasks, Status, ActiveStatus
    <2> QED BY <1>6, <2>1, <2>2, <2>3, <2>4, ReturnType DEF CreateTask
  <1>7. ASSUME NEW h \in Hosts, AbortOrphan(h) PROVE TypeOK' /\ Grounded'
    <2> DEFINE s == Seen(h)
    <2>1. /\ facts' \in [Tasks -> Seq(Fact)] /\ status' \in Status
          /\ active = NoTask => status' = status
      <3>1. CASE lease = NoHost /\ s.active
        <4>1. s.task \in Tasks
          BY <3>1, SeenTask
        <4> QED BY <1>7, <3>1, <4>1, FactTypes DEF AbortOrphan, Fact, Status
      <3>2. CASE ~(lease = NoHost /\ s.active)
        BY <1>7, <3>2 DEF AbortOrphan
      <3> QED BY <3>1, <3>2
    <2> QED BY <1>7, <2>1, ReturnType DEF AbortOrphan
  <1>8. ASSUME NEW h \in Hosts, Reconcile(h) PROVE TypeOK' /\ Grounded'
    <2> DEFINE s == Seen(h)
               free == lease = NoHost /\ s.uncertain /\ s.task \notin reconciled
    <2>1. CASE free
      <3>1. s.task \in Tasks
        BY <2>1, SeenTask
      <3>2. PICK decided \in {"interrupted", "cancelled"} : Project(s.task, decided)
        BY <1>8, <2>1 DEF Reconcile
      <3>3. status' \in Status /\ (active = NoTask => status' = status)
        BY <3>1, <3>2 DEF Project, Status, Tasks, NoTask
      <3>4. reconciled' \subseteq Tasks
        BY <1>8, <2>1, <3>1 DEF Reconcile
      <3> HIDE DEF s
      <3>5. CASE Return(h) /\ UNCHANGED lease
        BY <1>8, <3>3, <3>4, <3>5, ReturnType DEF Reconcile
      <3>6. CASE pending[s.task] # <<>> /\ Prepare(h, "transferring", pending[s.task])
        BY <1>8, <3>1, <3>3, <3>4, <3>6, PrepareType DEF Reconcile
      <3> QED BY <1>8, <2>1, <3>5, <3>6 DEF Reconcile, s
    <2>2. CASE ~free
      BY <1>8, <2>2, ReturnType DEF Reconcile
    <2> QED BY <2>1, <2>2
  <1>9. ASSUME NEW h \in Hosts, NEW t \in Turns, QueueTurn(h, t) PROVE TypeOK' /\ Grounded'
    <2> DEFINE r == [run[h] EXCEPT !.queue = Append(run[h].queue, t), !.lane = run[h].lane \cup {t}]
    <2>1. run[h].task \in Tasks /\ run[h].lane \subseteq Turns
      BY <1>9 DEF QueueTurn, Run
    <2>2. r \in Run /\ r.stage = run[h].stage /\ r.task = run[h].task /\ r.turn = run[h].turn /\ r.result = run[h].result
      <3>0. run[h] \in Run
        OBVIOUS
      <3>1. Append(run[h].queue, t) \in Seq(Turns) /\ run[h].lane \cup {t} \subseteq Turns
        BY <2>1, <3>0 DEF Run
      <3>2. r \in Run
        BY <3>0, <3>1 DEF Run
      <3>3. r.stage = run[h].stage /\ r.task = run[h].task /\ r.turn = run[h].turn /\ r.result = run[h].result
        BY <3>0 DEF Run
      <3> QED BY <3>2, <3>3
    <2>3. run' = [run EXCEPT ![h] = r]
      BY <1>9 DEF QueueTurn
    <2>4. pending' \in [Tasks -> Seq(Turns)]
      BY <1>9, <2>1 DEF QueueTurn
    <2>5. lanePending' \subseteq Turns /\ (active = NoTask => lanePending' = lanePending)
      BY <1>9, <2>1 DEF QueueTurn, Tasks, NoTask
    <2> HIDE DEF r
    <2>6. RunsTyped'
      BY <2>2, <2>3, RunKept
    <2> QED BY <1>9, <2>1, <2>4, <2>5, <2>6 DEF QueueTurn, RunsTyped
  <1>10. ASSUME NEW h \in Hosts, NEW t \in Turns, CancelTurn(h, t) PROVE TypeOK' /\ Grounded'
    <2> DEFINE r == [run[h] EXCEPT !.queue = Without(run[h].queue, t), !.lane = run[h].lane \ {t}]
    <2>1. run[h].task \in Tasks /\ run[h].lane \subseteq Turns /\ run[h].queue \in Seq(Turns)
      BY <1>10 DEF CancelTurn, Run, Running
    <2>2. Without(run[h].queue, t) \in Seq(Turns) /\ Without(pending[run[h].task], t) \in Seq(Turns)
      BY <2>1, WithoutType
    <2>3. r \in Run /\ r.stage = run[h].stage /\ r.task = run[h].task /\ r.turn = run[h].turn /\ r.result = run[h].result
      <3>0. run[h] \in Run
        OBVIOUS
      <3>1. r \in Run
        BY <3>0, <2>1, <2>2 DEF Run
      <3>2. r.stage = run[h].stage /\ r.task = run[h].task /\ r.turn = run[h].turn /\ r.result = run[h].result
        BY <3>0 DEF Run
      <3> QED BY <3>1, <3>2
    <2>4. run' = [run EXCEPT ![h] = r]
      BY <1>10 DEF CancelTurn
    <2>5. pending' \in [Tasks -> Seq(Turns)]
      BY <1>10, <2>1, <2>2 DEF CancelTurn
    <2>6. lanePending' \subseteq Turns /\ (active = NoTask => lanePending' = lanePending)
      BY <1>10, <2>1 DEF CancelTurn, Tasks, NoTask
    <2> HIDE DEF r
    <2>7. RunsTyped'
      BY <2>3, <2>4, RunKept
    <2> QED BY <1>10, <2>1, <2>5, <2>6, <2>7 DEF CancelTurn, RunsTyped
  <1>11. ASSUME NEW h \in Hosts, NEW t \in Turns, PromptLease(h, t) PROVE TypeOK' /\ Grounded'
    <2>1. /\ facts' \in [Tasks -> Seq(Fact)] /\ status' \in Status
          /\ active = NoTask => status' = status
      <3>1. CASE status \in ActiveStatus
        <4>1. active \in Tasks
          BY <3>1 DEF ActiveStatus
        <4> QED BY <1>11, <3>1, <4>1, OrphanTypes DEF PromptLease
      <3>2. CASE status \notin ActiveStatus
        BY <1>11, <3>2 DEF PromptLease
      <3> QED BY <3>1, <3>2
    <2>2. CASE UNCHANGED <<lease, handlerVars, prompted>>
      BY <1>11, <2>1, <2>2 DEF PromptLease
    <2>3. CASE Prepare(h, "creating", <<t>>) /\ prompted' = prompted \cup {t}
      <3>1. <<t>> \in Seq(Turns) /\ <<t>> # <<>>
        OBVIOUS
      <3> QED BY <1>11, <2>1, <2>3, <3>1, PrepareType DEF PromptLease
    <2> QED BY <1>11, <2>2, <2>3 DEF PromptLease
  <1>12. ASSUME NEW h \in Hosts, Abort(h) PROVE TypeOK' /\ Grounded'
    <2>1. run[h].task \in Tasks /\ run[h].stage # "none"
      BY <1>12 DEF Abort, Running
    <2>2. status' \in Status /\ (active = NoTask => status' = status)
      BY <1>12, <2>1 DEF Abort, Project, Status, ActiveStatus, Tasks, NoTask
    <2>3. CASE run' = Closing(h, "cancelled")
      BY <1>12, <2>1, <2>2, <2>3, ClosingType DEF Abort, Fact
    <2>4. CASE UNCHANGED run
      BY <1>12, <2>2, <2>4 DEF Abort
    <2> QED BY <1>12, <2>3, <2>4 DEF Abort
  <1>13. ASSUME NEW h \in Hosts, AbortRead(h) PROVE TypeOK' /\ Grounded'
    BY <1>13, ProjectionType DEF AbortRead, Read, NoLocal
  <1>14. ASSUME NEW h \in Hosts, ReconcileRead(h) PROVE TypeOK' /\ Grounded'
    BY <1>14, ProjectionType DEF ReconcileRead, Read, NoLocal
  <1>15. ASSUME NEW h \in Hosts, TakeTurn(h) PROVE TypeOK' /\ Grounded'
    <2> DEFINE t == Head(run[h].queue)
               r == [run[h] EXCEPT !.turn = t, !.queue = Tail(run[h].queue),
                                   !.trace = Append(run[h].trace, TurnEvent(t))]
    <2>1. run[h] \in Run
      OBVIOUS
    <2>2. t \in Turns /\ Tail(run[h].queue) \in Seq(Turns)
      BY <1>15, <2>1 DEF TakeTurn, Run
    <2>3. Append(run[h].trace, TurnEvent(t)) \in Seq(TraceEvent)
      BY <2>1, <2>2, ConstantTypes DEF Run
    <2>4. r \in Run
      BY <2>1, <2>2, <2>3 DEF Run
    <2>5. run' = [run EXCEPT ![h] = r]
      BY <1>15 DEF TakeTurn
    <2>6. r.stage = run[h].stage /\ r.task = run[h].task /\ r.turn \in Turns /\ r.result = run[h].result
      BY <2>1, <2>2 DEF Run
    <2> HIDE DEF r
    <2>7. RunsTyped'
      BY <2>4, <2>5, <2>6, RunKept
    <2> QED BY <1>15, <2>7 DEF TakeTurn, RunsTyped
  <1>16. ASSUME NEW h \in Hosts, Execute(h) PROVE TypeOK' /\ Grounded'
    <2> DEFINE r == [run[h] EXCEPT !.tool = "executing"]
    <2>1. r \in Run /\ r.stage = run[h].stage /\ r.task = run[h].task /\ r.turn = run[h].turn /\ r.result = run[h].result
      <3>0. run[h] \in Run
        OBVIOUS
      <3>1. r \in Run
        BY <3>0 DEF Run
      <3>2. r.stage = run[h].stage /\ r.task = run[h].task /\ r.turn = run[h].turn /\ r.result = run[h].result
        BY <3>0 DEF Run
      <3> QED BY <3>1, <3>2
    <2>2. run' = [run EXCEPT ![h] = r]
      BY <1>16 DEF Execute
    <2>3. effects' \subseteq Turns \X Tasks
      BY <1>16 DEF Execute
    <2> HIDE DEF r
    <2>4. RunsTyped'
      BY <2>1, <2>2, RunKept
    <2> QED BY <1>16, <2>3, <2>4 DEF Execute, RunsTyped
  <1>17. ASSUME NEW h \in Hosts, FinishTool(h) PROVE TypeOK' /\ Grounded'
    <2> DEFINE r == [run[h] EXCEPT !.tool = "none",
                                   !.trace = Append(run[h].trace, ToolEvent("done"))]
    <2>1. Append(run[h].trace, ToolEvent("done")) \in Seq(TraceEvent)
      <3>1. run[h].trace \in Seq(TraceEvent)
        BY DEF Run
      <3> QED BY <3>1, ConstantTypes
    <2>2. r \in Run /\ r.stage = run[h].stage /\ r.task = run[h].task /\ r.turn = run[h].turn /\ r.result = run[h].result
      <3>0. run[h] \in Run
        OBVIOUS
      <3>1. r \in Run
        BY <3>0, <2>1 DEF Run
      <3>2. r.stage = run[h].stage /\ r.task = run[h].task /\ r.turn = run[h].turn /\ r.result = run[h].result
        BY <3>0 DEF Run
      <3> QED BY <3>1, <3>2
    <2>3. run' = [run EXCEPT ![h] = r]
      BY <1>17 DEF FinishTool
    <2> HIDE DEF r
    <2>4. RunsTyped'
      BY <2>2, <2>3, RunKept
    <2> QED BY <1>17, <2>4 DEF FinishTool, RunsTyped
  <1>18. ASSUME NEW h \in Hosts, LoopEnds(h) PROVE TypeOK' /\ Grounded'
    <2>1. PICK result \in {"completed", "failed"} : run' = Closing(h, result)
      BY <1>18 DEF LoopEnds
    <2> QED BY <1>18, <2>1, ClosingType DEF LoopEnds, Fact
  <1>19. ASSUME NEW h \in Hosts, LoopFails(h) PROVE TypeOK' /\ Grounded'
    BY <1>19, ClosingType DEF LoopFails, Fact
  <1>20. ASSUME NEW h \in Hosts, NEW k \in ToolKind, StartTool(h, k) PROVE TypeOK' /\ Grounded'
    <2> DEFINE r == [run[h] EXCEPT !.tool = k, !.tools = run[h].tools + 1,
                                   !.trace = Append(run[h].trace, ToolEvent(k))]
    <2>1. Append(run[h].trace, ToolEvent(k)) \in Seq(TraceEvent)
      BY ConstantTypes DEF Run
    <2>2. run[h].tools + 1 \in 0..MaxTools
      BY <1>20, MaxToolsAssumption DEF StartTool, Run
    <2>3. r \in Run /\ r.stage = run[h].stage /\ r.task = run[h].task /\ r.turn = run[h].turn /\ r.result = run[h].result
      <3>0. run[h] \in Run
        OBVIOUS
      <3>1. r \in Run
        BY <3>0, <2>1, <2>2 DEF Run
      <3>2. r.stage = run[h].stage /\ r.task = run[h].task /\ r.turn = run[h].turn /\ r.result = run[h].result
        BY <3>0 DEF Run
      <3> QED BY <3>1, <3>2
    <2>4. run' = [run EXCEPT ![h] = r]
      BY <1>20 DEF StartTool
    <2> HIDE DEF r
    <2>5. RunsTyped'
      BY <2>3, <2>4, RunKept
    <2> QED BY <1>20, <2>5 DEF StartTool, RunsTyped
  <1>21. ASSUME NEW h \in Hosts, RecordTrace(h) PROVE TypeOK' /\ Grounded'
    <2> DEFINE e == Head(run[h].trace)
               r == [run[h] EXCEPT !.trace = Tail(run[h].trace), !.lane = run[h].lane \ {e.turn}]
    <2>1. run[h].task \in Tasks /\ run[h].trace \in Seq(TraceEvent) /\ run[h].trace # <<>>
      BY <1>21 DEF RecordTrace, Run, Running
    <2>2. e \in TraceEvent /\ Tail(run[h].trace) \in Seq(TraceEvent)
      BY <2>1
    <2>3. r \in Run /\ r.stage = run[h].stage /\ r.task = run[h].task /\ r.turn = run[h].turn /\ r.result = run[h].result
      <3>0. run[h] \in Run
        OBVIOUS
      <3>1. r \in Run
        BY <3>0, <2>2 DEF Run
      <3>2. r.stage = run[h].stage /\ r.task = run[h].task /\ r.turn = run[h].turn /\ r.result = run[h].result
        BY <3>0 DEF Run
      <3> QED BY <3>1, <3>2
    <2>4. run' = [run EXCEPT ![h] = r]
      BY <1>21 DEF RecordTrace
    <2>5. AppendTraceEvent(run[h].task, e)
      BY <1>21 DEF RecordTrace
    <2> HIDE DEF r, e
    <2>6. RunsTyped'
      BY <2>3, <2>4, RunKept
    <2>7. /\ starts' \in [Turns -> Nat] /\ pending' \in [Tasks -> Seq(Turns)]
          /\ active' \in Tasks \cup {NoTask} /\ status' \in Status
          /\ openTool' \in [Tasks -> {"none"} \cup ToolKind]
          /\ active' = NoTask => active = NoTask /\ status' = status
      BY <2>1, <2>2, <2>5, TraceEventTypes
    <2> QED BY <1>21, <2>6, <2>7 DEF RecordTrace, RunsTyped
  <1>22. ASSUME NEW h \in Hosts, DrainLate(h) PROVE TypeOK' /\ Grounded'
    <2> DEFINE e == Head(late[h].trace)
               r == [run[h] EXCEPT !.lane = run[h].lane \ {e.turn}]
               l == [late[h] EXCEPT !.trace = Tail(late[h].trace)]
    <2>0. /\ late[h] \in [task: Tasks \cup {NoTask}, trace: Seq(TraceEvent)]
          /\ late[h].trace # <<>>
      BY <1>22 DEF DrainLate
    <2>1. late[h].task \in Tasks
      BY <2>0
    <2>2. /\ e \in TraceEvent
          /\ l \in [task: Tasks \cup {NoTask}, trace: Seq(TraceEvent)]
          /\ l.task \in Tasks
      <3>1. e \in TraceEvent /\ Tail(late[h].trace) \in Seq(TraceEvent)
        BY <2>0
      <3>2. l \in [task: Tasks \cup {NoTask}, trace: Seq(TraceEvent)]
        BY <2>0, <3>1
      <3>3. l.task = late[h].task
        BY <2>0
      <3> QED BY <2>1, <3>1, <3>2, <3>3
    <2>3. CASE e.kind = "turn" => e.turn \in run[h].lane
      <3>1. r \in Run /\ r.stage = run[h].stage /\ r.task = run[h].task /\ r.turn = run[h].turn /\ r.result = run[h].result
        <4>0. run[h] \in Run
          OBVIOUS
        <4>1. r \in Run
          BY <4>0 DEF Run
        <4>2. r.stage = run[h].stage /\ r.task = run[h].task /\ r.turn = run[h].turn /\ r.result = run[h].result
          BY <4>0 DEF Run
        <4> QED BY <4>1, <4>2
      <3>2. /\ AppendTraceEvent(late[h].task, e)
            /\ run' = [run EXCEPT ![h] = r] /\ late' = [late EXCEPT ![h] = l]
            /\ UNCHANGED <<nextTask, lanePending, facts, reconciled, lease, handlerVars,
                           historyVars>>
        BY <1>22, <2>3 DEF DrainLate
      <3> HIDE DEF r, l, e
      <3>3. /\ starts' \in [Turns -> Nat] /\ pending' \in [Tasks -> Seq(Turns)]
            /\ active' \in Tasks \cup {NoTask} /\ status' \in Status
            /\ openTool' \in [Tasks -> {"none"} \cup ToolKind]
            /\ active' = NoTask => active = NoTask /\ status' = status
        BY <2>1, <2>2, <3>2, TraceEventTypes
      <3>4. /\ run' \in [Hosts -> Run]
            /\ \A g \in Hosts : run'[g].stage # "none" => run'[g].task \in Tasks /\ run'[g].turn \in Turns
            /\ \A g \in Hosts : run'[g].stage = "closing" => run'[g].result \in Fact
        BY <3>1, <3>2
      <3>5. /\ late' \in [Hosts -> [task: Tasks \cup {NoTask}, trace: Seq(TraceEvent)]]
            /\ \A g \in Hosts : late'[g].trace # <<>> => late'[g].task \in Tasks
        BY <2>2, <3>2
      <3> QED BY <3>2, <3>3, <3>4, <3>5
    <2>4. CASE ~(e.kind = "turn" => e.turn \in run[h].lane)
      <3>1. late' = [late EXCEPT ![h] = NoLate] /\ UNCHANGED <<ledgerVars, run, lease, handlerVars, historyVars>>
        BY <1>22, <2>4 DEF DrainLate
      <3> QED BY <3>1, ConstantTypes DEF NoLate
    <2> QED BY <2>3, <2>4
  <1>23. ASSUME NEW h \in Hosts, Finish(h) PROVE TypeOK' /\ Grounded'
    <2> DEFINE r == [run[h] EXCEPT !.stage = "ended"]
    <2>0. run[h] \in Run /\ run[h].task \in Tasks /\ run[h].turn \in Turns /\ run[h].result \in Fact
      BY <1>23 DEF Finish
    <2>1. r \in Run
      BY <2>0 DEF Run
    <2>2. r.stage = "ended" /\ r.task = run[h].task /\ r.turn = run[h].turn
      BY <2>0 DEF Run
    <2>3. run' = [run EXCEPT ![h] = r]
      BY <1>23 DEF Finish
    <2>4. run[h].result \in Fact \cap Status /\ AppendFact(run[h].task, run[h].result)
          /\ Project(run[h].task, run[h].result)
      BY <1>23, <2>0 DEF Finish, Fact, Status
    <2>5. lanePending' \subseteq Turns /\ (active = NoTask => lanePending' = lanePending)
      <3>1. run[h].lane \subseteq Turns /\ run[h].task # NoTask
        BY <2>0 DEF Run, Tasks, NoTask
      <3> QED BY <1>23, <3>1 DEF Finish
    <2> HIDE DEF r
    <2> QED BY <1>23, <2>0, <2>1, <2>2, <2>3, <2>4, <2>5, FactTypes DEF Finish
  <1>24. ASSUME NEW h \in Hosts, ClearControl(h) PROVE TypeOK' /\ Grounded'
    <2> DEFINE r == [NoRun EXCEPT !.lane = run[h].lane]
    <2>1. r \in Run
      <3>1. run[h].lane \subseteq Turns
        BY DEF Run
      <3>2. NoRun \in Run
        BY ConstantTypes
      <3> QED BY <3>1, <3>2 DEF Run
    <2>2. r.stage = "none" /\ run' = [run EXCEPT ![h] = r]
      BY <1>24 DEF ClearControl, NoRun
    <2> HIDE DEF r
    <2>3. RunsTyped'
      BY <2>1, <2>2, RunKept
    <2> QED BY <1>24, <2>3 DEF ClearControl, RunsTyped
  <1>25. ASSUME NEW h \in Hosts, WorkerDies(h) PROVE TypeOK' /\ Grounded'
    <2>1. PICK result \in {"failed", "cancelled"} :
              run' = [run EXCEPT ![h].stage = "closing", ![h].trace = <<>>, ![h].tool = "none",
                                 ![h].result = result]
      BY <1>25 DEF WorkerDies
    <2>a. result \in Fact
      BY DEF Fact
    <2> DEFINE r == [run[h] EXCEPT !.stage = "closing", !.trace = <<>>, !.tool = "none",
                                   !.result = result]
    <2>2. r \in Run /\ r.task \in Tasks /\ r.turn \in Turns /\ r.result \in Fact
      <3>0. run[h] \in Run /\ run[h].task \in Tasks /\ run[h].turn \in Turns
        BY <1>25 DEF WorkerDies, Running
      <3>1. r \in Run
        <4>1. <<>> \in Seq(TraceEvent)
          OBVIOUS
        <4> QED BY <2>a, <3>0, <4>1 DEF Run
      <3>2. r.task = run[h].task /\ r.turn = run[h].turn /\ r.result = result
        BY <3>0 DEF Run
      <3> QED BY <2>a, <3>0, <3>1, <3>2
    <2>3. run' = [run EXCEPT ![h] = r]
      BY <2>1
    <2>4. /\ late' \in [Hosts -> [task: Tasks \cup {NoTask}, trace: Seq(TraceEvent)]]
          /\ \A g \in Hosts : late'[g].trace # <<>> => late'[g].task \in Tasks
      BY <1>25 DEF WorkerDies, Run, Running
    <2> HIDE DEF r
    <2> QED BY <1>25, <2>2, <2>3, <2>4 DEF WorkerDies
  <1>26. ASSUME NEW h \in Hosts, Crash(h) PROVE TypeOK' /\ Grounded'
    BY <1>26, ConstantTypes DEF Crash, NoRun, NoLocal, NoLate, Running
  <1>27. CASE UNCHANGED vars
    BY <1>27 DEF vars
  <1> QED
    BY <1>1, <1>2, <1>3, <1>4, <1>5, <1>6, <1>7, <1>8, <1>9, <1>10, <1>11, <1>12, <1>13, <1>14,
       <1>15, <1>16, <1>17, <1>18, <1>19, <1>20, <1>21, <1>22, <1>23, <1>24, <1>25, <1>26, <1>27
    DEF Next, Recovery, HandlerStep, Command, LoopStep, WorkerStep

\* Every state of the session, whatever its hosts do, has the types of TypeOK.
THEOREM TypeCorrect == Spec => []TypeOK
  BY TypeInvInit, TypeStep, PTL DEF Spec, TypeInv

-----------------------------------------------------------------------------
(* What each step does to the worker it is about *)

\* A queued turn waits in the worker's queue and on its lane.
LEMMA QueueTurnRun ==
    ASSUME TypeOK, NEW h \in Hosts, NEW t, QueueTurn(h, t)
    PROVE  /\ \A g \in Hosts \ {h} : run'[g] = run[g]
           /\ run'[h].queue = Append(run[h].queue, t)
           /\ run'[h].lane = run[h].lane \cup {t}
           /\ run'[h].stage = run[h].stage /\ run'[h].task = run[h].task /\ run'[h].turn = run[h].turn
           /\ run'[h].trace = run[h].trace /\ run'[h].tool = run[h].tool
  <1>1. run \in [Hosts -> Run] /\ run[h] \in Run
    BY DEF TypeOK
  <1> QED BY <1>1 DEF QueueTurn, Run

\* A cancelled turn leaves both.
LEMMA CancelTurnRun ==
    ASSUME TypeOK, NEW h \in Hosts, NEW t, CancelTurn(h, t)
    PROVE  /\ \A g \in Hosts \ {h} : run'[g] = run[g]
           /\ run'[h].queue = Without(run[h].queue, t)
           /\ run'[h].lane = run[h].lane \ {t}
           /\ run'[h].stage = run[h].stage /\ run'[h].task = run[h].task /\ run'[h].turn = run[h].turn
           /\ run'[h].trace = run[h].trace /\ run'[h].tool = run[h].tool
  <1>1. run \in [Hosts -> Run] /\ run[h] \in Run
    BY DEF TypeOK
  <1> QED BY <1>1 DEF CancelTurn, Run

\* Closing the queue changes nothing else.
LEMMA ClosingRun ==
    ASSUME TypeOK, NEW h \in Hosts, NEW f, run' = Closing(h, f)
    PROVE  /\ \A g \in Hosts \ {h} : run'[g] = run[g]
           /\ run'[h].stage = "closing"
           /\ run'[h].task = run[h].task /\ run'[h].turn = run[h].turn /\ run'[h].queue = run[h].queue
           /\ run'[h].lane = run[h].lane /\ run'[h].trace = run[h].trace /\ run'[h].tool = run[h].tool
  <1>1. run \in [Hosts -> Run] /\ run[h] \in Run
    BY DEF TypeOK
  <1> QED BY <1>1 DEF Closing, Run

\* The taken turn becomes the current one and its event is traced.
LEMMA TakeTurnRun ==
    ASSUME TypeOK, NEW h \in Hosts, TakeTurn(h)
    PROVE  /\ \A g \in Hosts \ {h} : run'[g] = run[g]
           /\ run'[h].turn = Head(run[h].queue)
           /\ run'[h].queue = Tail(run[h].queue)
           /\ run'[h].trace = Append(run[h].trace, TurnEvent(Head(run[h].queue)))
           /\ run'[h].stage = run[h].stage /\ run'[h].task = run[h].task /\ run'[h].lane = run[h].lane
           /\ run'[h].tool = run[h].tool
  <1>1. run \in [Hosts -> Run] /\ run[h] \in Run
    BY DEF TypeOK
  <1> QED BY <1>1 DEF TakeTurn, Run

\* A started tool is traced.
LEMMA StartToolRun ==
    ASSUME TypeOK, NEW h \in Hosts, NEW k, StartTool(h, k)
    PROVE  /\ \A g \in Hosts \ {h} : run'[g] = run[g]
           /\ run'[h].trace = Append(run[h].trace, ToolEvent(k))
           /\ run'[h].tool = k
           /\ run'[h].stage = run[h].stage /\ run'[h].task = run[h].task /\ run'[h].turn = run[h].turn
           /\ run'[h].queue = run[h].queue /\ run'[h].lane = run[h].lane
  <1>1. run \in [Hosts -> Run] /\ run[h] \in Run
    BY DEF TypeOK
  <1> QED BY <1>1 DEF StartTool, Run

\* An executed tool keeps its trace.
LEMMA ExecuteRun ==
    ASSUME TypeOK, NEW h \in Hosts, Execute(h)
    PROVE  /\ \A g \in Hosts \ {h} : run'[g] = run[g]
           /\ run'[h].tool = "executing"
           /\ run'[h].stage = run[h].stage /\ run'[h].task = run[h].task /\ run'[h].turn = run[h].turn
           /\ run'[h].queue = run[h].queue /\ run'[h].lane = run[h].lane /\ run'[h].trace = run[h].trace
  <1>1. run \in [Hosts -> Run] /\ run[h] \in Run
    BY DEF TypeOK
  <1> QED BY <1>1 DEF Execute, Run

\* A finished tool is traced.
LEMMA FinishToolRun ==
    ASSUME TypeOK, NEW h \in Hosts, FinishTool(h)
    PROVE  /\ \A g \in Hosts \ {h} : run'[g] = run[g]
           /\ run'[h].trace = Append(run[h].trace, ToolEvent("done"))
           /\ run'[h].tool = "none"
           /\ run'[h].stage = run[h].stage /\ run'[h].task = run[h].task /\ run'[h].turn = run[h].turn
           /\ run'[h].queue = run[h].queue /\ run'[h].lane = run[h].lane
  <1>1. run \in [Hosts -> Run] /\ run[h] \in Run
    BY DEF TypeOK
  <1> QED BY <1>1 DEF FinishTool, Run

\* The recorder takes the oldest event of the trace.
LEMMA RecordTraceRun ==
    ASSUME TypeOK, NEW h \in Hosts, RecordTrace(h)
    PROVE  /\ \A g \in Hosts \ {h} : run'[g] = run[g]
           /\ run'[h].lane = run[h].lane \ {Head(run[h].trace).turn}
           /\ run'[h].trace = Tail(run[h].trace)
           /\ run'[h].stage = run[h].stage /\ run'[h].task = run[h].task /\ run'[h].turn = run[h].turn
           /\ run'[h].queue = run[h].queue /\ run'[h].tool = run[h].tool
  <1>1. run \in [Hosts -> Run] /\ run[h] \in Run
    BY DEF TypeOK
  <1> QED BY <1>1 DEF RecordTrace, Run

\* A dead worker leaves its trace to its recorder.
LEMMA WorkerDiesRun ==
    ASSUME TypeOK, NEW h \in Hosts, WorkerDies(h)
    PROVE  /\ \A g \in Hosts \ {h} : run'[g] = run[g]
           /\ run'[h].stage = "closing"
           /\ run'[h].trace = <<>>
           /\ run'[h].tool = "none"
           /\ run'[h].task = run[h].task /\ run'[h].turn = run[h].turn /\ run'[h].queue = run[h].queue
           /\ run'[h].lane = run[h].lane
  <1>1. run \in [Hosts -> Run] /\ run[h] \in Run
    BY DEF TypeOK
  <1> QED BY <1>1 DEF WorkerDies, Run

\* The terminal fact ends the run.
LEMMA FinishRun ==
    ASSUME TypeOK, NEW h \in Hosts, Finish(h)
    PROVE  /\ \A g \in Hosts \ {h} : run'[g] = run[g]
           /\ run'[h].stage = "ended"
           /\ run'[h].task = run[h].task /\ run'[h].turn = run[h].turn /\ run'[h].queue = run[h].queue
           /\ run'[h].lane = run[h].lane /\ run'[h].trace = run[h].trace /\ run'[h].tool = run[h].tool
  <1>1. run \in [Hosts -> Run] /\ run[h] \in Run
    BY DEF TypeOK
  <1> QED BY <1>1 DEF Finish, Run

\* A recorder that drains late only takes turns off the lane.
LEMMA DrainLateRun ==
    ASSUME TypeOK, NEW h \in Hosts, DrainLate(h)
    PROVE  /\ \A g \in Hosts \ {h} : run'[g] = run[g]
           /\ run'[h].stage = run[h].stage /\ run'[h].task = run[h].task
           /\ run'[h].turn = run[h].turn /\ run'[h].queue = run[h].queue
           /\ run'[h].trace = run[h].trace /\ run'[h].tool = run[h].tool
  <1>1. run \in [Hosts -> Run] /\ run[h] \in Run
    BY DEF TypeOK
  <1>2. CASE UNCHANGED run
    BY <1>2
  <1>3. CASE run' = [run EXCEPT ![h].lane = @ \ {Head(late[h].trace).turn}]
    BY <1>1, <1>3 DEF Run
  <1> QED BY <1>2, <1>3 DEF DrainLate

\* A new worker has started its turn and nothing else.
LEMMA NewRunFields ==
    ASSUME NEW k, NEW t, NEW q
    PROVE  /\ NewRun(k, t, q).stage = "loop" /\ NewRun(k, t, q).task = k
           /\ NewRun(k, t, q).turn = t /\ NewRun(k, t, q).queue = q
           /\ NewRun(k, t, q).trace = <<>> /\ NewRun(k, t, q).tool = "none"
  BY DEF NewRun, NoRun

\* The worker that a recovery starts.
LEMMA RestartRun ==
    ASSUME TypeOK, NEW h \in Hosts, Restart(h)
    PROVE  /\ \A g \in Hosts \ {h} : run'[g] = run[g]
           /\ run'[h].stage = "loop" /\ run'[h].task = local[h].task
           /\ run'[h].turn = Head(local[h].turns) /\ run'[h].queue = Tail(local[h].turns)
           /\ run'[h].trace = <<>> /\ run'[h].tool = "none"
  <1>1. /\ \A g \in Hosts \ {h} : run'[g] = run[g]
        /\ run'[h] = NewRun(local[h].task, Head(local[h].turns), Tail(local[h].turns))
    BY DEF Restart, TypeOK
  <1> QED BY <1>1, NewRunFields

\* The worker that a prompt starts.
LEMMA CreateTaskRun ==
    ASSUME TypeOK, NEW h \in Hosts, CreateTask(h)
    PROVE  /\ \A g \in Hosts \ {h} : run'[g] = run[g]
           /\ run'[h].stage = "loop" /\ run'[h].task = nextTask
           /\ run'[h].turn = Head(local[h].turns) /\ run'[h].queue = <<>>
           /\ run'[h].trace = <<>> /\ run'[h].tool = "none"
  <1>1. /\ \A g \in Hosts \ {h} : run'[g] = run[g]
        /\ run'[h] = NewRun(nextTask, Head(local[h].turns), <<>>)
    BY DEF CreateTask, TypeOK
  <1> QED BY <1>1, NewRunFields

\* The first turn of a handler that starts a worker is durably started.
LEMMA FirstTurnStarts ==
    ASSUME TypeOK, NEW h \in Hosts, Restart(h) \/ CreateTask(h)
    PROVE  /\ local[h].turns \in Seq(Turns) /\ local[h].turns # <<>>
           /\ Head(local[h].turns) \in Turns /\ Tail(local[h].turns) \in Seq(Turns)
           /\ starts' = [starts EXCEPT ![Head(local[h].turns)] = @ + 1]
  <1>1. local[h].turns \in Seq(Turns) /\ local[h].turns # <<>>
    BY DEF Restart, CreateTask, TypeOK, Starting, Local
  <1>2. Head(local[h].turns) \in Turns /\ Tail(local[h].turns) \in Seq(Turns)
    BY <1>1
  <1> QED BY <1>1, <1>2 DEF Restart, CreateTask

\* A host whose run is over or lost has no run.
LEMMA RunGone ==
    ASSUME TypeOK, NEW h \in Hosts, ClearControl(h) \/ Crash(h)
    PROVE  /\ \A g \in Hosts \ {h} : run'[g] = run[g]
           /\ run'[h].stage = "none"
  <1>1. run \in [Hosts -> Run] /\ run[h] \in Run
    BY DEF TypeOK
  <1> QED BY <1>1 DEF ClearControl, Crash, NoRun

\* A handler that does not start a turn.
Handler(h) ==
    \/ Recovery(h) \/ Transfer(h) \/ AbortOrphan(h) \/ Reconcile(h)
    \/ (\E t \in Turns : PromptLease(h, t)) \/ AbortRead(h) \/ ReconcileRead(h)

\* It leaves the workers, and what their recorders write, alone.
LEMMA HandlerFrame ==
    ASSUME NEW h \in Hosts, Handler(h)
    PROVE  UNCHANGED <<run, late, starts, openTool, effects, orphaned>>
  BY DEF Handler, Recovery, RecoverScan, RecoverLease, RecoverSkip, Transfer, AbortOrphan,
         Reconcile, PromptLease, AbortRead, ReconcileRead, ledgerVars, workerVars, historyVars

\* The ledger never forgets the start of a turn.
LEMMA StartsGrow ==
    ASSUME TypeOK, Grounded, Next
    PROVE  \A t \in Turns : starts'[t] >= starts[t]
  <1> USE DEF ledgerVars
  <1>0. starts \in [Turns -> Nat]
    BY DEF TypeOK
  <1>1. CASE UNCHANGED starts
    BY <1>0, <1>1
  <1>2. CASE \E t : starts' = [starts EXCEPT ![t] = @ + 1]
    BY <1>0, <1>2
  <1>3. ASSUME NEW k, NEW e, AppendTraceEvent(k, e)
        PROVE  UNCHANGED starts \/ \E t : starts' = [starts EXCEPT ![t] = @ + 1]
    BY <1>3 DEF AppendTraceEvent
  <1>4. PICK h \in Hosts : \/ Recovery(h) \/ HandlerStep(h) \/ Command(h) \/ LoopStep(h)
                            \/ WorkerStep(h) \/ WorkerDies(h) \/ Crash(h)
    BY DEF Next
  <1>5. UNCHANGED starts \/ \E t : starts' = [starts EXCEPT ![t] = @ + 1]
    <2>1. CASE Handler(h)
      BY <2>1, HandlerFrame
    <2>2. CASE Restart(h) \/ CreateTask(h)
      BY <2>2 DEF Restart, CreateTask
    <2>3. CASE RecordTrace(h)
      BY <1>3, <2>3 DEF RecordTrace
    <2>4. CASE DrainLate(h)
      BY <1>3, <2>4 DEF DrainLate
    <2>5. CASE LoopStep(h)
      BY <2>5 DEF LoopStep, TakeTurn, Execute, FinishTool, LoopEnds, LoopFails, StartTool
    <2>6. CASE (\E t \in Turns : QueueTurn(h, t) \/ CancelTurn(h, t)) \/ Abort(h)
      BY <2>6 DEF QueueTurn, CancelTurn, Abort
    <2>7. CASE Finish(h) \/ ClearControl(h) \/ WorkerDies(h) \/ Crash(h)
      BY <2>7 DEF Finish, ClearControl, WorkerDies, Crash
    <2> QED BY <1>4, <2>1, <2>2, <2>3, <2>4, <2>5, <2>6, <2>7
            DEF Handler, HandlerStep, Command, WorkerStep
  <1> QED BY <1>1, <1>2, <1>5

-----------------------------------------------------------------------------
(* One owner at a time *)

\* Whoever owns the session holds its lease, and a host with a run is not
\* about to start another one.
LeaseHeld ==
    \A h \in Hosts : /\ Owns(h) => lease = h
                     /\ ~(run[h].stage # "none" /\ Starting(h))

\* Every step keeps the lease with the host that works or starts work.
LEMMA LeaseStep == TypeInv /\ LeaseHeld /\ [Next]_vars => LeaseHeld'
  <1> SUFFICES ASSUME TypeOK, Grounded, LeaseHeld, [Next]_vars PROVE LeaseHeld'
    BY DEF TypeInv
  <1> USE DEF LeaseHeld, Owns, Starting, Goto, ledgerVars, handlerVars, workerVars, historyVars
  <1>0. pc \in [Hosts -> PcLabels] /\ run \in [Hosts -> Run]
    BY DEF TypeOK
  <1>1. ASSUME NEW h \in Hosts, Recovery(h) PROVE LeaseHeld'
    BY <1>0, <1>1, NoneAssumption
    DEF Recovery, RecoverScan, RecoverLease, RecoverSkip, Read, Return, Prepare
  <1>2. ASSUME NEW h \in Hosts, Transfer(h) \/ AbortOrphan(h) \/ Reconcile(h) PROVE LeaseHeld'
    BY <1>0, <1>2, NoneAssumption DEF Transfer, AbortOrphan, Reconcile, Return, Prepare
  <1>3. ASSUME NEW h \in Hosts, Restart(h) \/ CreateTask(h) PROVE LeaseHeld'
    <2>1. /\ lease' = lease /\ lease = h
          /\ \A g \in Hosts \ {h} : run'[g] = run[g] /\ pc'[g] = pc[g]
          /\ pc'[h] = "idle"
      BY <1>0, <1>3 DEF Restart, CreateTask, Return
    <2> QED BY <2>1
  <1>4. ASSUME NEW h \in Hosts, NEW t \in Turns, QueueTurn(h, t) \/ CancelTurn(h, t) PROVE LeaseHeld'
    <2>1. /\ lease' = lease /\ pc' = pc
      BY <1>4 DEF QueueTurn, CancelTurn
    <2>2. \A g \in Hosts : run'[g].stage = run[g].stage
      BY <1>4, QueueTurnRun, CancelTurnRun
    <2> QED BY <2>1, <2>2
  <1>5. ASSUME NEW h \in Hosts, NEW t \in Turns, PromptLease(h, t) PROVE LeaseHeld'
    BY <1>0, <1>5, NoneAssumption DEF PromptLease, Prepare
  <1>6. ASSUME NEW h \in Hosts, Abort(h) \/ LoopEnds(h) \/ LoopFails(h) PROVE LeaseHeld'
    <2>1. lease' = lease /\ pc' = pc /\ run[h].stage # "none"
      BY <1>6 DEF Abort, LoopEnds, LoopFails, Running
    <2>2. UNCHANGED run \/ \E f : run' = Closing(h, f)
      BY <1>6 DEF Abort, LoopEnds, LoopFails
    <2>3. \A g \in Hosts : run'[g].stage # "none" <=> run[g].stage # "none"
      BY <2>1, <2>2, ClosingRun
    <2> QED BY <2>1, <2>3
  <1>7. ASSUME NEW h \in Hosts, AbortRead(h) \/ ReconcileRead(h) PROVE LeaseHeld'
    BY <1>0, <1>7 DEF AbortRead, ReconcileRead, Read
  <1>8. ASSUME NEW h \in Hosts, TakeTurn(h) \/ Execute(h) \/ FinishTool(h) \/ RecordTrace(h)
                                  \/ DrainLate(h) \/ \E k \in ToolKind : StartTool(h, k)
        PROVE LeaseHeld'
    <2>1. lease' = lease /\ pc' = pc
      BY <1>8 DEF TakeTurn, Execute, FinishTool, RecordTrace, DrainLate, StartTool
    <2>2. \A g \in Hosts : run'[g].stage = run[g].stage
      BY <1>8, TakeTurnRun, ExecuteRun, FinishToolRun, RecordTraceRun, DrainLateRun, StartToolRun
    <2> QED BY <2>1, <2>2
  <1>9. ASSUME NEW h \in Hosts, Finish(h) \/ WorkerDies(h) PROVE LeaseHeld'
    <2>1. lease' = lease /\ pc' = pc /\ run[h].stage # "none"
      BY <1>9 DEF Finish, WorkerDies, Running
    <2>2. \A g \in Hosts : run'[g].stage # "none" <=> run[g].stage # "none"
      BY <1>9, <2>1, FinishRun, WorkerDiesRun
    <2> QED BY <2>1, <2>2
  <1>10. ASSUME NEW h \in Hosts, ClearControl(h) PROVE LeaseHeld'
    <2>1. run[h].stage # "none" /\ pc' = pc
      BY <1>10 DEF ClearControl
    <2> QED BY <1>10, <2>1, RunGone
  <1>11. ASSUME NEW h \in Hosts, Crash(h) PROVE LeaseHeld'
    <2>1. /\ \A g \in Hosts \ {h} : pc'[g] = pc[g]
          /\ pc'[h] = "dead" /\ lease' = IF lease = h THEN NoHost ELSE lease
      BY <1>0, <1>11 DEF Crash
    <2> QED BY <1>11, <2>1, RunGone
  <1>12. CASE UNCHANGED vars
    BY <1>12 DEF vars
  <1> QED
    BY <1>1, <1>2, <1>3, <1>4, <1>5, <1>6, <1>7, <1>8, <1>9, <1>10, <1>11, <1>12
    DEF Next, HandlerStep, Command, LoopStep, WorkerStep

\* Two hosts never own the session at once, whatever they read too early, crash
\* or abort: every way to a run goes through the lease and holds it to its end.
THEOREM OneOwner == Spec => []SingleOwner
  <1>1. Init => LeaseHeld
    <2>1. NoRun.stage = "none"
      BY DEF NoRun
    <2> QED BY <2>1 DEF Init, LeaseHeld, Owns, Starting
  <1>2. LeaseHeld => SingleOwner
    BY DEF LeaseHeld, SingleOwner
  <1> QED BY <1>1, <1>2, TypeInvInit, TypeStep, LeaseStep, PTL DEF Spec

-----------------------------------------------------------------------------
(* Effects are journaled first *)

\* The current turn of a loop is durably started, or its start is traced.
TurnIsTraced ==
    \A h \in Hosts : run[h].stage = "loop" =>
        \/ starts[run[h].turn] > 0
        \/ \E i \in 1..Len(run[h].trace) : run[h].trace[i] = TurnEvent(run[h].turn)

\* A prepared tool is the last event of the trace until the ledger shows it
\* open; a tool that executes finds the trace empty.
ToolIsTraced(h) ==
    Running(h) =>
        /\ run[h].tool \in ToolKind =>
              IF run[h].trace = <<>> THEN openTool[run[h].task] = run[h].tool
              ELSE run[h].trace[Len(run[h].trace)] = ToolEvent(run[h].tool)
        /\ run[h].tool = "executing" =>
              run[h].trace = <<>> /\ openTool[run[h].task] \in SideKind

ToolsAreTraced == \A h \in Hosts : ToolIsTraced(h)

\* What the recorder of a dead worker of g still writes is not about a task that
\* h runs a tool for, or is about to.
LateIsOver(g, h) ==
    late[g].trace # <<>> =>
        /\ late[g].task < nextTask
        /\ pc[h] = "restarting" => late[g].task # local[h].task
        /\ Running(h) /\ late[g].task = run[h].task =>
              run[h].stage = "closing" /\ run[h].tool = "none"

\* Tasks are taken in order.
TasksInUse ==
    /\ active < nextTask
    /\ \A h \in Hosts : run[h].stage # "none" => run[h].task < nextTask
    /\ \A h \in Hosts : pc[h] = "restarting" => local[h].task < nextTask
    /\ \A g, h \in Hosts : LateIsOver(g, h)

EffectsStarted == \A e \in effects : starts[e[1]] > 0

JournalInv == TasksInUse /\ TurnIsTraced /\ ToolsAreTraced /\ EffectsStarted

\* A recorder that drains late writes about the task it was left with.
LEMMA DrainLateLate ==
    ASSUME TypeOK, NEW h \in Hosts, DrainLate(h)
    PROVE  /\ late[h].trace # <<>> /\ \A g \in Hosts \ {h} : late'[g] = late[g]
           /\ late'[h].trace # <<>> => late'[h].task = late[h].task
           /\ UNCHANGED <<nextTask, pc, local>>
           /\ active' \in {active, late[h].task}
  <1>0. late \in [Hosts -> [task: Tasks \cup {NoTask}, trace: Seq(TraceEvent)]]
    BY DEF TypeOK
  <1>1. \/ late' = [late EXCEPT ![h] = NoLate]
        \/ late' = [late EXCEPT ![h] = [late[h] EXCEPT !.trace = Tail(late[h].trace)]]
    BY <1>0 DEF DrainLate
  <1>2. NoLate.trace = <<>> /\ [late[h] EXCEPT !.trace = Tail(late[h].trace)].task = late[h].task
    BY <1>0 DEF NoLate
  <1>3. /\ \A g \in Hosts \ {h} : late'[g] = late[g]
        /\ late'[h].trace # <<>> => late'[h].task = late[h].task
    BY <1>0, <1>1, <1>2
  <1>4. late[h].trace # <<>> /\ UNCHANGED <<nextTask, pc, local>>
    BY DEF DrainLate, ledgerVars, handlerVars
  <1>5. active' \in {active, late[h].task}
    BY DEF DrainLate, ledgerVars, AppendTraceEvent
  <1> QED BY <1>3, <1>4, <1>5

\* Every step keeps the tasks in order and a late recorder out of their way.
LEMMA TasksInUseStep ==
    TypeInv /\ LeaseHeld /\ TasksInUse /\ [Next]_vars => TasksInUse'
  <1> SUFFICES ASSUME TypeOK, Grounded, LeaseHeld, TasksInUse, Next PROVE TasksInUse'
    BY DEF TypeInv, TasksInUse, LateIsOver, Running, vars, ledgerVars, handlerVars, workerVars
  <1>1. PICK h \in Hosts : \/ Recovery(h) \/ HandlerStep(h) \/ Command(h) \/ LoopStep(h)
                            \/ WorkerStep(h) \/ WorkerDies(h) \/ Crash(h)
    BY DEF Next
  <1>2. /\ nextTask \in Nat /\ active \in Nat
        /\ \A g \in Hosts : run[g].task \in Nat /\ late[g].task \in Nat /\ local[g].task \in Nat
    <2>1. Tasks \cup {NoTask} \subseteq Nat
      BY MaxTasksAssumption DEF Tasks, NoTask
    <2>2. nextTask \in Nat /\ active \in Nat
      BY <2>1, MaxTasksAssumption DEF TypeOK
    <2>3. ASSUME NEW g \in Hosts
          PROVE  run[g].task \in Nat /\ late[g].task \in Nat /\ local[g].task \in Nat
      <3>1. run[g] \in Run
        BY DEF TypeOK
      <3>2. local[g] \in Local
        BY DEF TypeOK
      <3>3. late[g] \in [task: Tasks \cup {NoTask}, trace: Seq(TraceEvent)]
        BY DEF TypeOK
      <3>4. run[g].task \in Tasks \cup {NoTask}
        BY <3>1 DEF Run
      <3>5. local[g].task \in Tasks \cup {NoTask}
        BY <3>2 DEF Local
      <3>6. late[g].task \in Tasks \cup {NoTask}
        BY <3>3
      <3> QED BY <2>1, <3>4, <3>5, <3>6
    <2> QED BY <2>2, <2>3
  <1> USE DEF TasksInUse, LateIsOver, Running
  <1>3. CASE Handler(h) /\ ~Transfer(h)
    <2>1. UNCHANGED <<run, late, active, nextTask>>
      BY <1>3, HandlerFrame
      DEF Handler, Recovery, RecoverScan, RecoverLease, RecoverSkip, AbortOrphan, Reconcile,
          PromptLease, AbortRead, ReconcileRead, ledgerVars
    <2>2. (pc' = pc /\ local' = local) \/ pc'[h] # "restarting"
      BY <1>3
      DEF Handler, Recovery, RecoverScan, RecoverLease, RecoverSkip, AbortOrphan, Reconcile,
          PromptLease, AbortRead, ReconcileRead, Return, Prepare, Read, Goto, handlerVars, TypeOK
    <2>3. \A g \in Hosts \ {h} : pc'[g] = pc[g] /\ local'[g] = local[g]
      BY <1>3
      DEF Handler, Recovery, RecoverScan, RecoverLease, RecoverSkip, AbortOrphan, Reconcile,
          PromptLease, AbortRead, ReconcileRead, Return, Prepare, Read, Goto, handlerVars, TypeOK
    <2>4. \A g \in Hosts : pc'[g] = "restarting" => pc[g] = "restarting" /\ local'[g] = local[g]
      BY <2>2, <2>3
    <2> QED BY <2>1, <2>4
  <1>4. CASE Transfer(h)
    <2>1. /\ UNCHANGED <<run, late, active>> /\ nextTask' = nextTask + 1
          /\ local'[h].task = nextTask
          /\ \A g \in Hosts \ {h} : pc'[g] = pc[g] /\ local'[g] = local[g]
      BY <1>4 DEF Transfer, TypeOK, Local, Goto, workerVars
    <2>2. \A g \in Hosts : pc'[g] = "restarting" =>
              g = h \/ (pc[g] = "restarting" /\ local'[g].task = local[g].task)
      <3> TAKE g \in Hosts
      <3>1. CASE g # h
        BY <2>1, <3>1
      <3> QED BY <3>1
    <2>3. /\ active' < nextTask'
          /\ \A g \in Hosts : run'[g].stage # "none" => run'[g].task < nextTask'
          /\ \A g \in Hosts : pc'[g] = "restarting" => local'[g].task < nextTask'
      BY <1>2, <2>1, <2>2
    <2>4. ASSUME NEW g \in Hosts, NEW f \in Hosts PROVE LateIsOver(g, f)'
      BY <1>2, <2>1, <2>2
    <2> QED BY <2>3, <2>4
  <1>5. CASE Restart(h) \/ CreateTask(h)
    <2>1. /\ late' = late /\ pc'[h] = "idle"
          /\ \A g \in Hosts \ {h} : pc'[g] = pc[g] /\ local'[g] = local[g]
      BY <1>5 DEF Restart, CreateTask, Return, Goto, TypeOK
    <2>2. CASE Restart(h)
      <3>1. nextTask' = nextTask /\ active' = local[h].task /\ pc[h] = "restarting"
        BY <2>2 DEF Restart
      <3>2. /\ \A g \in Hosts \ {h} : run'[g] = run[g]
            /\ run'[h].stage = "loop" /\ run'[h].task = local[h].task
        BY <2>2, RestartRun
      <3> QED BY <1>2, <2>1, <3>1, <3>2
    <2>3. CASE CreateTask(h)
      <3>1. nextTask' = nextTask + 1 /\ active' = nextTask
        BY <2>3 DEF CreateTask
      <3> QED BY <1>2, <2>1, <2>3, <3>1, CreateTaskRun
    <2> QED BY <1>5, <2>2, <2>3
  <1>6. CASE \E t \in Turns : QueueTurn(h, t) \/ CancelTurn(h, t)
    <2>1. UNCHANGED <<nextTask, active, pc, local, late>>
      BY <1>6 DEF QueueTurn, CancelTurn, handlerVars
    <2>2. \A g \in Hosts : run'[g].stage = run[g].stage /\ run'[g].task = run[g].task
                           /\ run'[g].tool = run[g].tool
      BY <1>6, QueueTurnRun, CancelTurnRun
    <2> QED BY <2>1, <2>2
  <1>7. CASE Abort(h) \/ LoopEnds(h) \/ LoopFails(h)
    <2>1. UNCHANGED <<nextTask, active, pc, local, late>>
      BY <1>7 DEF Abort, LoopEnds, LoopFails, ledgerVars, handlerVars
    <2>2. UNCHANGED run \/ (run[h].stage = "loop" /\ \E f : run' = Closing(h, f))
      <3>1. CASE Abort(h)
        BY <3>1 DEF Abort
      <3>2. CASE LoopEnds(h) \/ LoopFails(h)
        BY <3>2 DEF LoopEnds, LoopFails
      <3> QED BY <1>7, <3>1, <3>2
    <2> QED BY <2>1, <2>2, ClosingRun
  <1>8. CASE TakeTurn(h) \/ Execute(h) \/ FinishTool(h) \/ \E k \in ToolKind : StartTool(h, k)
    <2>1. UNCHANGED <<nextTask, active, pc, local, late>>
      BY <1>8 DEF TakeTurn, Execute, FinishTool, StartTool, ledgerVars, handlerVars
    <2>2. run[h].stage = "loop" \/ (run[h].stage = "closing" /\ run[h].tool # "none")
      <3>1. CASE FinishTool(h)
        BY <3>1 DEF FinishTool
      <3>2. CASE ~FinishTool(h)
        BY <1>8, <3>2 DEF TakeTurn, Execute, StartTool
      <3> QED BY <3>1, <3>2
    <2>3. /\ \A g \in Hosts \ {h} : run'[g] = run[g]
          /\ run'[h].stage = run[h].stage /\ run'[h].task = run[h].task
      BY <1>8, TakeTurnRun, ExecuteRun, FinishToolRun, StartToolRun
    <2> QED BY <2>1, <2>2, <2>3
  <1>9. CASE RecordTrace(h)
    <2>1. UNCHANGED <<nextTask, pc, local, late>> /\ active' \in {active, run[h].task} /\ run[h].stage # "none"
      BY <1>9 DEF RecordTrace, AppendTraceEvent, handlerVars
    <2> QED BY <1>9, <2>1, RecordTraceRun
  <1>10. CASE DrainLate(h)
    BY <1>10, DrainLateLate, DrainLateRun
  <1>11. CASE WorkerDies(h)
    <2>1. UNCHANGED <<nextTask, active, pc, local>> /\ Running(h)
      BY <1>11 DEF WorkerDies, ledgerVars, handlerVars
    <2>2. late'[h].task = run[h].task /\ \A g \in Hosts \ {h} : late'[g] = late[g]
      BY <1>11 DEF WorkerDies, TypeOK
    <2>3. \A g \in Hosts : ~(pc[g] = "restarting") /\ (Running(g) => g = h)
      BY <2>1 DEF LeaseHeld, Owns, Starting
    <2>4. /\ \A g \in Hosts \ {h} : run'[g] = run[g]
          /\ run'[h].stage = "closing" /\ run'[h].task = run[h].task /\ run'[h].tool = "none"
      BY <1>11, WorkerDiesRun
    <2> QED BY <2>1, <2>2, <2>3, <2>4
  <1>12. CASE Finish(h)
    <2>1. UNCHANGED <<nextTask, active, pc, local, late>> /\ run[h].stage # "none"
      BY <1>12 DEF Finish, handlerVars
    <2> QED BY <1>12, <2>1, FinishRun
  <1>13. CASE ClearControl(h)
    <2>1. UNCHANGED <<nextTask, active, pc, local, late>>
      BY <1>13 DEF ClearControl, ledgerVars, handlerVars
    <2> QED BY <1>13, <2>1, RunGone
  <1>14. CASE Crash(h)
    <2>1. /\ UNCHANGED <<nextTask, active>> /\ pc'[h] = "dead" /\ late'[h].trace = <<>>
          /\ \A g \in Hosts \ {h} : pc'[g] = pc[g] /\ local'[g] = local[g] /\ late'[g] = late[g]
      BY <1>14 DEF Crash, ledgerVars, Goto, NoLate, TypeOK
    <2> QED BY <1>14, <2>1, RunGone
  <1> QED BY <1>1, <1>3, <1>4, <1>5, <1>6, <1>7, <1>8, <1>9, <1>10, <1>11, <1>12, <1>13, <1>14
          DEF Handler, HandlerStep, Command, LoopStep, WorkerStep

\* Every step keeps the current turn in the trace or in the ledger.
LEMMA TurnTracedStep ==
    TypeInv /\ TurnIsTraced /\ [Next]_vars => TurnIsTraced'
  <1> SUFFICES ASSUME TypeOK, Grounded, TurnIsTraced, Next PROVE TurnIsTraced'
    BY DEF TypeInv, TurnIsTraced, vars, ledgerVars, workerVars
  <1>1. PICK h \in Hosts : \/ Recovery(h) \/ HandlerStep(h) \/ Command(h) \/ LoopStep(h)
                            \/ WorkerStep(h) \/ WorkerDies(h) \/ Crash(h)
    BY DEF Next
  <1>2. /\ \A t \in Turns : starts[t] \in Nat /\ starts'[t] \in Int /\ starts'[t] >= starts[t]
        /\ \A g \in Hosts : /\ run[g].stage = "loop" => run[g].turn \in Turns
                            /\ run[g].trace \in Seq(TraceEvent) /\ run[g].queue \in Seq(Turns)
    <2>1. TypeOK'
      BY TypeStep DEF TypeInv
    <2>2. starts \in [Turns -> Nat] /\ starts' \in [Turns -> Nat]
      BY <2>1 DEF TypeOK
    <2>3. \A t \in Turns : starts[t] \in Nat /\ starts'[t] \in Int /\ starts'[t] >= starts[t]
      BY <2>2, StartsGrow
    <2>4. \A g \in Hosts : run[g] \in Run /\ (run[g].stage = "loop" => run[g].turn \in Turns)
      BY DEF TypeOK
    <2> QED BY <2>3, <2>4 DEF Run
  <1> DEFINE Traced(g) == run[g].stage = "loop" =>
                 \/ starts[run[g].turn] > 0
                 \/ \E i \in 1..Len(run[g].trace) : run[g].trace[i] = TurnEvent(run[g].turn)
  <1>3. ASSUME NEW g \in Hosts, run'[g] = run[g] PROVE Traced(g)'
    <2> SUFFICES ASSUME run[g].stage = "loop"
                 PROVE  \/ starts'[run[g].turn] > 0
                        \/ \E i \in 1..Len(run[g].trace) : run[g].trace[i] = TurnEvent(run[g].turn)
      BY <1>3
    <2> QED BY <1>2 DEF TurnIsTraced
  <1>4. ASSUME \A g \in Hosts \ {h} : run'[g] = run[g], Traced(h)' PROVE TurnIsTraced'
    BY <1>3, <1>4 DEF TurnIsTraced
  <1>5. ASSUME \A g \in Hosts \ {h} : run'[g] = run[g], run'[h].stage # "loop" PROVE TurnIsTraced'
    BY <1>4, <1>5
  <1>6. ASSUME \A g \in Hosts \ {h} : run'[g] = run[g], run'[h].stage = run[h].stage,
               run'[h].turn = run[h].turn, run'[h].trace = run[h].trace PROVE TurnIsTraced'
    BY <1>2, <1>4, <1>6 DEF TurnIsTraced
  <1>7. ASSUME \A g \in Hosts \ {h} : run'[g] = run[g], run'[h].stage = run[h].stage,
               run'[h].turn = run[h].turn, NEW e, run'[h].trace = Append(run[h].trace, e)
        PROVE TurnIsTraced'
    <2>1. \A i \in 1..Len(run[h].trace) : i \in 1..Len(run'[h].trace) /\ run'[h].trace[i] = run[h].trace[i]
      BY <1>2, <1>7
    <2> QED BY <1>2, <1>4, <1>7, <2>1 DEF TurnIsTraced
  <1>8. CASE Handler(h)
    BY <1>6, <1>8, HandlerFrame
  <1>9. CASE Restart(h) \/ CreateTask(h)
    <2>1. /\ \A g \in Hosts \ {h} : run'[g] = run[g]
          /\ run'[h].turn = Head(local[h].turns)
      BY <1>9, RestartRun, CreateTaskRun
    <2>2. starts'[Head(local[h].turns)] > 0
      BY <1>9, FirstTurnStarts DEF TypeOK
    <2> QED BY <1>4, <2>1, <2>2
  <1>10. CASE \E t \in Turns : QueueTurn(h, t) \/ CancelTurn(h, t)
    BY <1>6, <1>10, QueueTurnRun, CancelTurnRun
  <1>11. CASE Abort(h) \/ LoopEnds(h) \/ LoopFails(h)
    <2>1. UNCHANGED run \/ \E f : run' = Closing(h, f)
      BY <1>11 DEF Abort, LoopEnds, LoopFails
    <2> QED BY <1>5, <1>6, <2>1, ClosingRun
  <1>12. CASE TakeTurn(h)
    <2>1. run'[h].trace[Len(run'[h].trace)] = TurnEvent(run'[h].turn) /\ Len(run'[h].trace) \in 1..Len(run'[h].trace)
      BY <1>2, <1>12, TakeTurnRun
    <2> QED BY <1>4, <1>12, <2>1, TakeTurnRun
  <1>13. CASE FinishTool(h) \/ \E k \in ToolKind : StartTool(h, k)
    BY <1>7, <1>13, FinishToolRun, StartToolRun
  <1>14. CASE Execute(h)
    BY <1>6, <1>14, ExecuteRun
  <1>15. CASE RecordTrace(h)
    <2>1. ASSUME NEW i \in 1..Len(run[h].trace), run[h].trace[i] = TurnEvent(run[h].turn),
                 run[h].stage = "loop"
          PROVE  starts'[run[h].turn] > 0 \/ \E j \in 1..Len(run'[h].trace) : run'[h].trace[j] = TurnEvent(run[h].turn)
      <3>1. CASE i = 1
        <4>1. AppendTraceEvent(run[h].task, TurnEvent(run[h].turn)) /\ run[h].turn \in Turns
          BY <1>2, <1>15, <2>1, <3>1 DEF RecordTrace
        <4>2. starts' = [starts EXCEPT ![run[h].turn] = @ + 1]
          BY <4>1 DEF AppendTraceEvent, TurnEvent
        <4> QED BY <1>2, <4>1, <4>2 DEF TypeOK
      <3>2. CASE i > 1
        <4>1. i - 1 \in 1..Len(run'[h].trace) /\ run'[h].trace[i - 1] = run[h].trace[i]
          <5>1. run'[h].trace = Tail(run[h].trace) /\ run[h].trace \in Seq(TraceEvent)
            BY <1>2, <1>15, RecordTraceRun
          <5> HIDE <1>15
          <5> QED BY <3>2, <5>1
        <4> QED BY <2>1, <4>1
      <3> QED BY <3>1, <3>2
    <2>2. /\ \A g \in Hosts \ {h} : run'[g] = run[g]
          /\ run'[h].stage = run[h].stage /\ run'[h].turn = run[h].turn
      BY <1>15, RecordTraceRun
    <2>3. Traced(h)'
      <3> SUFFICES ASSUME run[h].stage = "loop"
                   PROVE  \/ starts'[run[h].turn] > 0
                          \/ \E i \in 1..Len(run'[h].trace) : run'[h].trace[i] = TurnEvent(run[h].turn)
        BY <2>2
      <3>1. CASE starts[run[h].turn] > 0
        BY <1>2, <3>1
      <3>2. CASE ~(starts[run[h].turn] > 0)
        BY <2>1, <3>2 DEF TurnIsTraced
      <3> QED BY <3>1, <3>2
    <2> QED BY <1>4, <2>2, <2>3
  <1>16. CASE DrainLate(h)
    BY <1>6, <1>16, DrainLateRun
  <1>17. CASE WorkerDies(h) \/ Finish(h) \/ ClearControl(h) \/ Crash(h)
    BY <1>5, <1>17, WorkerDiesRun, FinishRun, RunGone
  <1> QED BY <1>1, <1>8, <1>9, <1>10, <1>11, <1>12, <1>13, <1>14, <1>15, <1>16, <1>17
          DEF Handler, HandlerStep, Command, LoopStep, WorkerStep

\* Every step keeps the current tool in the trace or in the ledger.
LEMMA ToolsTracedStep ==
    ASSUME "external" \notin ToolKind
    PROVE  TypeInv /\ LeaseHeld /\ TasksInUse /\ ToolsAreTraced /\ [Next]_vars => ToolsAreTraced'
  <1> SUFFICES ASSUME TypeOK, Grounded, LeaseHeld, TasksInUse, ToolsAreTraced, Next
               PROVE  ToolsAreTraced'
    BY DEF TypeInv, ToolsAreTraced, ToolIsTraced, Running, vars, ledgerVars, workerVars
  <1>1. PICK h \in Hosts : \/ Recovery(h) \/ HandlerStep(h) \/ Command(h) \/ LoopStep(h)
                            \/ WorkerStep(h) \/ WorkerDies(h) \/ Crash(h)
    BY DEF Next
  <1>2. /\ run[h].trace \in Seq(TraceEvent)
        /\ openTool \in [Tasks -> {"none"} \cup ToolKind]
        /\ run[h].tool \in {"none", "executing"} \cup ToolKind
        /\ "none" \notin ToolKind /\ "executing" \notin ToolKind
        /\ "turn" \notin ToolKind /\ "done" \notin ToolKind
    BY ToolKindAssumption DEF TypeOK, Run
  <1>3. ASSUME UNCHANGED openTool, \A g \in Hosts \ {h} : run'[g] = run[g], ToolIsTraced(h)'
        PROVE  ToolsAreTraced'
    BY <1>3 DEF ToolsAreTraced, ToolIsTraced, Running
  <1>4. ASSUME UNCHANGED openTool, \A g \in Hosts \ {h} : run'[g] = run[g],
               run'[h].tool = "none" \/ ~Running(h)'
        PROVE  ToolsAreTraced'
    BY <1>2, <1>3, <1>4 DEF ToolIsTraced
  <1>5. ASSUME UNCHANGED openTool, \A g \in Hosts \ {h} : run'[g] = run[g],
               Running(h)' => Running(h), run'[h].task = run[h].task,
               run'[h].tool = run[h].tool, run'[h].trace = run[h].trace
        PROVE  ToolsAreTraced'
    BY <1>3, <1>5 DEF ToolsAreTraced, ToolIsTraced
  <1>6. CASE Handler(h)
    BY <1>5, <1>6, HandlerFrame DEF Running
  <1>7. CASE Restart(h) \/ CreateTask(h)
    <2>1. UNCHANGED openTool
      BY <1>7 DEF Restart, CreateTask
    <2> QED BY <1>4, <1>7, <2>1, RestartRun, CreateTaskRun
  <1>8. CASE \E t \in Turns : QueueTurn(h, t) \/ CancelTurn(h, t)
    <2>1. UNCHANGED openTool
      BY <1>8 DEF QueueTurn, CancelTurn
    <2> QED BY <1>5, <1>8, <2>1, QueueTurnRun, CancelTurnRun DEF Running
  <1>9. CASE Abort(h) \/ LoopEnds(h) \/ LoopFails(h)
    <2>1. UNCHANGED openTool /\ Running(h)
      BY <1>9 DEF Abort, LoopEnds, LoopFails, ledgerVars, Running
    <2>2. UNCHANGED run \/ \E f : run' = Closing(h, f)
      BY <1>9 DEF Abort, LoopEnds, LoopFails
    <2>3. CASE UNCHANGED run
      BY <1>5, <2>1, <2>3
    <2>4. ASSUME NEW f, run' = Closing(h, f) PROVE ToolsAreTraced'
      BY <1>5, <2>1, <2>4, ClosingRun
    <2> QED BY <2>2, <2>3, <2>4
  <1>10. CASE TakeTurn(h) \/ FinishTool(h) \/ WorkerDies(h) \/ Finish(h) \/ ClearControl(h) \/ Crash(h)
    <2>1. UNCHANGED openTool
      BY <1>10 DEF TakeTurn, FinishTool, WorkerDies, Finish, ClearControl, Crash, ledgerVars
    <2>2. /\ \A g \in Hosts \ {h} : run'[g] = run[g]
          /\ run'[h].tool = "none" \/ ~Running(h)'
      <3>1. CASE TakeTurn(h)
        BY <3>1, TakeTurnRun DEF TakeTurn
      <3>2. CASE FinishTool(h) \/ WorkerDies(h)
        BY <3>2, FinishToolRun, WorkerDiesRun
      <3>3. CASE Finish(h) \/ ClearControl(h) \/ Crash(h)
        BY <3>3, FinishRun, RunGone DEF Running
      <3> QED BY <1>10, <3>1, <3>2, <3>3
    <2> QED BY <1>4, <2>1, <2>2
  <1>11. ASSUME NEW k \in ToolKind, StartTool(h, k) PROVE ToolsAreTraced'
    <2>1. UNCHANGED openTool
      BY <1>11 DEF StartTool, ledgerVars
    <2>2. /\ \A g \in Hosts \ {h} : run'[g] = run[g]
          /\ run'[h].tool = k /\ run'[h].trace = Append(run[h].trace, ToolEvent(k))
      BY <1>11, StartToolRun
    <2>3. run'[h].trace # <<>> /\ run'[h].trace[Len(run'[h].trace)] = ToolEvent(k)
      BY <1>2, <2>2
    <2> QED BY <1>2, <1>3, <2>1, <2>2, <2>3 DEF ToolIsTraced
  <1>12. CASE Execute(h)
    <2>1. UNCHANGED openTool
      BY <1>12 DEF Execute, ledgerVars
    <2>2. run[h].tool = "side" /\ run[h].tool \in ToolKind /\ run[h].trace = <<>> /\ Running(h)
      BY <1>2, <1>12 DEF Execute, SideKind, Running
    <2>3. openTool[run[h].task] \in SideKind
      BY <2>2 DEF ToolsAreTraced, ToolIsTraced, SideKind
    <2>4. /\ \A g \in Hosts \ {h} : run'[g] = run[g]
          /\ run'[h].tool = "executing" /\ run'[h].trace = <<>> /\ run'[h].task = run[h].task
      BY <1>12, <2>2, ExecuteRun
    <2> QED BY <1>2, <1>3, <2>1, <2>3, <2>4 DEF ToolIsTraced
  <1>13. CASE RecordTrace(h)
    <2>1. /\ \A g \in Hosts \ {h} : run'[g] = run[g]
          /\ run'[h].stage = run[h].stage /\ run'[h].tool = run[h].tool
          /\ run'[h].task = run[h].task /\ run'[h].trace = Tail(run[h].trace)
      BY <1>13, RecordTraceRun
    <2>2. /\ Running(h) /\ run[h].trace # <<>> /\ run[h].task \in Tasks
          /\ AppendTraceEvent(run[h].task, Head(run[h].trace))
      BY <1>13 DEF RecordTrace, Running, TypeOK
    <2>3. \A g \in Hosts \ {h} : ~Running(g)
      BY <2>2 DEF LeaseHeld, Owns, Running
    <2>f. \A g \in Hosts \ {h} : ToolIsTraced(g)'
      BY <2>1, <2>3 DEF ToolIsTraced, Running
    <2>4. run[h].tool # "executing"
      BY <2>2 DEF ToolsAreTraced, ToolIsTraced
    <2>5. CASE run[h].tool = "none"
      BY <1>2, <2>1, <2>3, <2>5 DEF ToolsAreTraced, ToolIsTraced, Running
    <2>6. CASE run[h].tool \in ToolKind
      <3>1. run[h].trace[Len(run[h].trace)] = ToolEvent(run[h].tool)
        BY <2>2, <2>6 DEF ToolsAreTraced, ToolIsTraced
      <3>2. CASE Len(run[h].trace) = 1
        <4>1. Head(run[h].trace) = ToolEvent(run[h].tool) /\ Tail(run[h].trace) = <<>>
          BY <1>2, <2>2, <3>1, <3>2, TailLast
        <4>2. openTool'[run[h].task] = run[h].tool
          BY <1>2, <2>2, <2>6, <4>1 DEF AppendTraceEvent, ToolEvent
        <4>3. ToolIsTraced(h)'
          BY <1>2, <2>1, <2>6, <4>1, <4>2 DEF ToolIsTraced
        <4> QED BY <2>f, <4>3 DEF ToolsAreTraced
      <3>3. CASE Len(run[h].trace) # 1
        <4>1. /\ Tail(run[h].trace) # <<>>
              /\ Tail(run[h].trace)[Len(Tail(run[h].trace))] = ToolEvent(run[h].tool)
          BY <1>2, <2>2, <3>1, <3>3, TailLast
        <4>3. ToolIsTraced(h)'
          BY <1>2, <2>1, <2>6, <4>1 DEF ToolIsTraced
        <4> QED BY <2>f, <4>3 DEF ToolsAreTraced
      <3> QED BY <3>2, <3>3
    <2> QED BY <1>2, <2>4, <2>5, <2>6
  <1>14. CASE DrainLate(h)
    <2>1. \A g \in Hosts : /\ run'[g].stage = run[g].stage /\ run'[g].tool = run[g].tool
                           /\ run'[g].task = run[g].task /\ run'[g].trace = run[g].trace
      BY <1>14, DrainLateRun
    <2>2. late[h].trace # <<>> /\ late[h].task \in Tasks
      BY <1>14 DEF DrainLate, Grounded
    <2>3. \A k \in Tasks : k # late[h].task => openTool'[k] = openTool[k]
      BY <1>2, <1>14, <2>2 DEF DrainLate, AppendTraceEvent, ledgerVars
    <2>4. ASSUME NEW g \in Hosts, Running(g), run[g].tool # "none"
          PROVE  openTool'[run[g].task] = openTool[run[g].task]
      <3>1. LateIsOver(h, g) /\ run[g].task \in Tasks
        BY <2>4 DEF TasksInUse, Running, TypeOK
      <3>2. run[g].task # late[h].task
        BY <2>2, <2>4, <3>1 DEF LateIsOver
      <3> QED BY <2>3, <3>1, <3>2
    <2>5. ASSUME NEW g \in Hosts PROVE ToolIsTraced(g)'
      BY <1>2, <2>1, <2>4 DEF ToolsAreTraced, ToolIsTraced, Running
    <2> QED BY <2>5 DEF ToolsAreTraced
  <1> QED BY <1>1, <1>6, <1>7, <1>8, <1>9, <1>10, <1>11, <1>12, <1>13, <1>14
          DEF Handler, HandlerStep, Command, LoopStep, WorkerStep

\* Every step keeps a side effect behind its journaled start.
LEMMA EffectsStartedStep ==
    ASSUME "external" \notin ToolKind
    PROVE  TypeInv /\ TurnIsTraced /\ EffectsStarted /\ [Next]_vars => EffectsStarted'
  <1> SUFFICES ASSUME TypeOK, Grounded, TurnIsTraced, EffectsStarted, Next PROVE EffectsStarted'
    BY DEF TypeInv, EffectsStarted, vars, ledgerVars, historyVars
  <1>1. PICK h \in Hosts : \/ Recovery(h) \/ HandlerStep(h) \/ Command(h) \/ LoopStep(h)
                            \/ WorkerStep(h) \/ WorkerDies(h) \/ Crash(h)
    BY DEF Next
  <1>2. \A t \in Turns : starts[t] > 0 => starts'[t] > 0
    <2>1. TypeOK'
      BY TypeStep DEF TypeInv
    <2>2. starts \in [Turns -> Nat] /\ starts' \in [Turns -> Nat]
      BY <2>1 DEF TypeOK
    <2> QED BY <2>2, StartsGrow
  <1>3. \A e \in effects : e[1] \in Turns
    BY DEF TypeOK
  <1>4. CASE UNCHANGED effects
    BY <1>2, <1>3, <1>4 DEF EffectsStarted
  <1>5. CASE Execute(h)
    <2>1. run[h].stage = "loop" /\ run[h].trace = <<>>
      <3>1. run[h].tool \in {"none", "executing"} \cup ToolKind
        BY DEF TypeOK, Run
      <3> QED BY <1>5, <3>1 DEF Execute, SideKind
    <2>2. starts[run[h].turn] > 0 /\ run[h].turn \in Turns
      <3>1. Len(run[h].trace) = 0
        BY <2>1
      <3> QED BY <2>1, <3>1 DEF TurnIsTraced, TypeOK
    <2>3. effects' = effects \cup {<<run[h].turn, run[h].task>>}
      BY <1>5 DEF Execute
    <2> QED BY <1>2, <1>3, <2>2, <2>3 DEF EffectsStarted
  <1>6. CASE Handler(h)
    BY <1>4, <1>6, HandlerFrame
  <1>7. CASE HandlerStep(h) \/ Command(h) \/ LoopStep(h) \/ WorkerStep(h) \/ WorkerDies(h) \/ Crash(h)
    <2>1. UNCHANGED effects \/ Execute(h)
      BY <1>7
      DEF HandlerStep, Transfer, Restart, CreateTask, AbortOrphan, Reconcile, Command, QueueTurn,
          CancelTurn, PromptLease, Abort, AbortRead, ReconcileRead, LoopStep, TakeTurn, FinishTool,
          LoopEnds, LoopFails, StartTool, WorkerStep, RecordTrace, DrainLate, Finish,
          ClearControl, WorkerDies, Crash, historyVars
    <2> QED BY <1>4, <1>5, <2>1
  <1> QED BY <1>1, <1>6, <1>7 DEF Handler

\* Where no tool calls an external service, every side effect is journaled
\* before it happens, through stale reads, orphan aborts, dying workers and their
\* late recorders: the flush before the effect is enough.  (A tool that calls an
\* external service skips the flush.)
THEOREM EffectsAreJournaled ==
    ASSUME "external" \notin ToolKind PROVE Spec => []EffectIsJournaled
  <1>1. Init => LeaseHeld /\ JournalInv
    <2>1. NoRun.stage = "none" /\ NoLate.trace = <<>>
      BY DEF NoRun, NoLate
    <2> QED BY <2>1 DEF Init, LeaseHeld, Owns, Starting, JournalInv, TasksInUse, LateIsOver, TurnIsTraced,
                        ToolsAreTraced, ToolIsTraced, Running, EffectsStarted, NoTask
  <1>2. TypeInv /\ LeaseHeld /\ JournalInv /\ [Next]_vars => JournalInv'
    BY TasksInUseStep, TurnTracedStep, ToolsTracedStep, EffectsStartedStep DEF JournalInv
  <1>3. JournalInv => EffectIsJournaled
    BY DEF JournalInv, EffectIsJournaled, EffectsStarted, ToolsAreTraced, ToolIsTraced
  <1> QED BY <1>1, <1>2, <1>3, TypeInvInit, TypeStep, LeaseStep, PTL DEF Spec

-----------------------------------------------------------------------------
(* Without races: handlers act on what they read, workers do not die alone *)

NoRaces == ~StaleReads /\ ~OrphanAbort /\ ~WorkerAborts

\* No abort of an orphan is under way and no recorder drains late.
Calm == \A h \in Hosts : pc[h] # "aborting" /\ late[h].trace = <<>>

\* Only the owner of the session owns it.
LEMMA OthersDoNotOwn ==
    ASSUME LeaseHeld, NEW h \in Hosts
    PROVE  /\ Owns(h) => \A g \in Hosts \ {h} : ~Owns(g)
           /\ lease = NoHost => ~Owns(h)
  BY NoneAssumption DEF LeaseHeld

\* A handler acts on the projection.
LEMMA SeenIsProjection ==
    ASSUME NoRaces, NEW h
    PROVE  /\ Seen(h).task = active /\ (Seen(h).active <=> status \in ActiveStatus)
           /\ Seen(h).uncertain <=> status = "uncertain"
  BY DEF NoRaces, Seen, Projection

\* A handler that only reads, or returns.
Reads(h) == RecoverScan(h) \/ RecoverSkip(h) \/ AbortRead(h) \/ AbortOrphan(h) \/ ReconcileRead(h)

\* A step that reads changes nothing that others see.
LEMMA ReadsFrame ==
    ASSUME NoRaces, Calm, TypeOK, NEW h \in Hosts, Reads(h)
    PROVE  /\ UNCHANGED <<nextTask, active, status, pending, starts, facts, openTool, reconciled,
                          lease, run, late, prompted, orphaned>>
           /\ ~Starting(h)' /\ pc'[h] # "aborting"
           /\ \A g \in Hosts \ {h} : pc'[g] = pc[g] /\ local'[g] = local[g]
  <1>1. pc \in [Hosts -> PcLabels] /\ local \in [Hosts -> Local]
    BY DEF TypeOK
  <1> QED BY <1>1
          DEF Reads, NoRaces, Calm, RecoverScan, RecoverSkip, AbortRead, AbortOrphan,
              ReconcileRead, Read, Return, Goto, Starting, ledgerVars, workerVars, historyVars

\* Without races there is no late recorder and no overtaken read.
LEMMA CalmStep ==
    ASSUME NoRaces PROVE TypeInv /\ Calm /\ [Next]_vars => Calm'
  <1> SUFFICES ASSUME TypeOK, Calm, Next PROVE Calm'
    BY DEF TypeInv, Calm, vars, handlerVars, workerVars
  <1>1. PICK h \in Hosts : \/ Recovery(h) \/ HandlerStep(h) \/ Command(h) \/ LoopStep(h)
                            \/ WorkerStep(h) \/ WorkerDies(h) \/ Crash(h)
    BY DEF Next
  <1>2. pc \in [Hosts -> PcLabels] /\ late \in [Hosts -> [task: Tasks \cup {NoTask}, trace: Seq(TraceEvent)]]
    BY DEF TypeOK
  <1>3. CASE Handler(h)
    <2>1. late' = late
      BY <1>3, HandlerFrame
    <2>2. pc' = pc \/ \E label \in PcLabels : pc' = [pc EXCEPT ![h] = label] /\ label # "aborting"
      BY <1>3
      DEF Handler, Recovery, RecoverScan, RecoverLease, RecoverSkip, Transfer, AbortOrphan,
          Reconcile, PromptLease, AbortRead, ReconcileRead, Read, Prepare, Return, Goto,
          NoRaces, handlerVars, PcLabels
    <2> QED BY <1>2, <2>1, <2>2 DEF Calm
  <1>4. CASE Restart(h) \/ CreateTask(h)
    BY <1>2, <1>4 DEF Restart, CreateTask, Return, Goto, Calm
  <1>5. CASE LoopStep(h) \/ (\E t \in Turns : QueueTurn(h, t) \/ CancelTurn(h, t)) \/ Abort(h)
             \/ RecordTrace(h) \/ Finish(h) \/ ClearControl(h)
    <2>1. UNCHANGED <<pc, late>>
      BY <1>5 DEF LoopStep, TakeTurn, Execute, FinishTool, LoopEnds, LoopFails, StartTool, QueueTurn,
                  CancelTurn, Abort, RecordTrace, Finish, ClearControl, handlerVars
    <2> QED BY <2>1 DEF Calm
  <1>6. CASE DrainLate(h) \/ WorkerDies(h)
    BY <1>6 DEF DrainLate, WorkerDies, Calm, NoRaces
  <1>7. CASE Crash(h)
    BY <1>2, <1>7 DEF Crash, Goto, Calm, NoLate
  <1> QED BY <1>1, <1>3, <1>4, <1>5, <1>6, <1>7 DEF Handler, HandlerStep, Command, WorkerStep

\* A running task is the active one and open, an active status means an open
\* task, and the tasks to come are blank.
ActiveIsOpen ==
    /\ \A h \in Hosts : Running(h) => active = run[h].task /\ status \in ActiveStatus
    /\ status \in ActiveStatus => active \in Tasks /\ facts[active] = <<>>
    /\ \A k \in Tasks : k >= nextTask => facts[k] = <<>> /\ pending[k] = <<>>
    /\ \A h \in Hosts : pc[h] = "restarting" =>
                            facts[local[h].task] = <<>> /\ local[h].task # active

\* The first classification of an orphan is its only one.
LEMMA OrphanIsClassified ==
    ASSUME TypeOK, ActiveIsOpen, status \in ActiveStatus
    PROVE  /\ Disposition(active) = AnalyzeTask(active)
           /\ RecordOrphanedTaskRecovery(active) =>
                 /\ facts' = [facts EXCEPT ![active] = Append(<<>>, AnalyzeTask(active))]
                 /\ status' = AnalyzeTask(active)
  <1>1. active \in Tasks /\ facts[active] = <<>>
    BY DEF ActiveIsOpen
  <1>2. Recorded(active) = {}
    BY <1>1 DEF Recorded, ElementsOf
  <1> QED BY <1>1, <1>2 DEF Disposition, RecordOrphanedTaskRecovery, AppendFact, Project, TypeOK

\* What a handler does when it takes the lease for a recovery or a prompt: it
\* classifies an orphan, and goes on with turns to start unless side effects of
\* the orphan are uncertain.
LEMMA LeaseTaken ==
    ASSUME NoRaces, TypeOK, Grounded, LeaseHeld, ActiveIsOpen, NEW h \in Hosts,
           RecoverLease(h) \/ \E t \in Turns : PromptLease(h, t)
    PROVE  /\ \A g \in Hosts : ~Owns(g)
           /\ UNCHANGED <<nextTask, active, pending, starts, openTool, reconciled, run, late, orphaned>>
           /\ status # "uncertain"
           /\ IF status \in ActiveStatus
              THEN /\ facts' = [facts EXCEPT ![active] = Append(<<>>, AnalyzeTask(active))]
                   /\ status' = AnalyzeTask(active)
              ELSE UNCHANGED <<facts, status>>
           /\ \A g \in Hosts \ {h} : pc'[g] = pc[g] /\ local'[g] = local[g]
           /\ pc'[h] # "restarting"
           /\ prompted \subseteq prompted'
           /\ Starting(h)' =>
                 /\ status' # "uncertain"
                 /\ \/ active \in Tasks /\ local'[h].turns = pending[active] /\ prompted' = prompted
                    \/ \E t \in Turns : local'[h].turns = <<t>> /\ t \notin prompted
                                          /\ prompted' = prompted \cup {t}
  <1>0. pc \in [Hosts -> PcLabels] /\ local \in [Hosts -> Local]
    BY DEF TypeOK
  <1> DEFINE classified ==
                IF status \in ActiveStatus
                THEN /\ facts' = [facts EXCEPT ![active] = Append(<<>>, AnalyzeTask(active))]
                     /\ status' = AnalyzeTask(active)
                ELSE UNCHANGED <<facts, status>>
  <1>1. CASE RecoverLease(h)
    <2>1. lease = NoHost /\ pc[h] = "scanned" /\ status # "uncertain"
          /\ UNCHANGED <<nextTask, active, pending, starts, openTool, reconciled, run, late, orphaned, prompted>>
      BY <1>1, SeenIsProjection DEF RecoverLease, NeedsRecovery, workerVars, historyVars
    <2>2. classified
      BY <1>1, SeenIsProjection, OrphanIsClassified DEF RecoverLease
    <2>3. Seen(h).task \in Tasks
      BY <1>1, SeenTask DEF RecoverLease, NeedsRecovery
    <2>4. \/ Return(h)
          \/ /\ Prepare(h, "transferring", pending[active])
             /\ ~(status \in ActiveStatus /\ Disposition(active) = "uncertain")
      BY <1>1, SeenIsProjection DEF RecoverLease
    <2>5. CASE Return(h)
      <3>1. pc'[h] = "idle" /\ \A g \in Hosts \ {h} : pc'[g] = pc[g] /\ local'[g] = local[g]
        BY <1>0, <2>5 DEF Return, Goto
      <3> QED BY <2>1, <2>2, <3>1, OthersDoNotOwn DEF Starting
    <2>6. CASE Prepare(h, "transferring", pending[active])
               /\ ~(status \in ActiveStatus /\ Disposition(active) = "uncertain")
      <3>1. /\ pc'[h] = "transferring" /\ local'[h].turns = pending[active]
            /\ \A g \in Hosts \ {h} : pc'[g] = pc[g] /\ local'[g] = local[g]
        BY <1>0, <2>6 DEF Prepare, Goto, NoLocal
      <3>2. active \in Tasks
        BY <2>3, SeenIsProjection
      <3>3. status' # "uncertain"
        BY <2>1, <2>2, <2>6, OrphanIsClassified
      <3> QED BY <2>1, <2>2, <3>1, <3>2, <3>3, OthersDoNotOwn DEF Starting
    <2> QED BY <2>4, <2>5, <2>6
  <1>2. ASSUME NEW t \in Turns, PromptLease(h, t)
        PROVE  /\ lease = NoHost /\ status # "uncertain" /\ classified
               /\ UNCHANGED <<nextTask, active, pending, starts, openTool, reconciled, run, late, orphaned>>
               /\ \/ UNCHANGED <<pc, local, prompted>> /\ pc[h] = "idle"
                  \/ /\ pc'[h] = "creating" /\ local'[h].turns = <<t>> /\ t \notin prompted
                     /\ prompted' = prompted \cup {t} /\ status' # "uncertain"
                     /\ \A g \in Hosts \ {h} : pc'[g] = pc[g] /\ local'[g] = local[g]
    <2>1. /\ lease = NoHost /\ status # "uncertain" /\ pc[h] = "idle" /\ t \notin prompted
          /\ UNCHANGED <<nextTask, active, pending, starts, openTool, reconciled, run, late, orphaned>>
      BY <1>2 DEF PromptLease, workerVars
    <2>2. classified
      BY <1>2, OrphanIsClassified DEF PromptLease
    <2>3. \/ UNCHANGED <<pc, local, prompted>>
          \/ /\ Prepare(h, "creating", <<t>>) /\ prompted' = prompted \cup {t}
             /\ ~(status \in ActiveStatus /\ Disposition(active) = "uncertain")
      BY <1>2 DEF PromptLease, handlerVars
    <2>4. CASE /\ Prepare(h, "creating", <<t>>) /\ prompted' = prompted \cup {t}
               /\ ~(status \in ActiveStatus /\ Disposition(active) = "uncertain")
      <3>1. /\ pc'[h] = "creating" /\ local'[h].turns = <<t>>
            /\ \A g \in Hosts \ {h} : pc'[g] = pc[g] /\ local'[g] = local[g]
        BY <1>0, <2>4 DEF Prepare, Goto, NoLocal
      <3>2. status' # "uncertain"
        BY <2>1, <2>2, <2>4, OrphanIsClassified
      <3> QED BY <2>1, <2>2, <2>4, <3>1, <3>2
    <2> QED BY <2>1, <2>2, <2>3, <2>4
  <1>3. ASSUME NEW t \in Turns, PromptLease(h, t)
        PROVE  /\ \A g \in Hosts \ {h} : pc'[g] = pc[g] /\ local'[g] = local[g]
               /\ pc'[h] # "restarting" /\ prompted \subseteq prompted'
               /\ Starting(h)' => /\ status' # "uncertain" /\ local'[h].turns = <<t>>
                                  /\ t \notin prompted /\ prompted' = prompted \cup {t}
    BY <1>2, <1>3 DEF Starting
  <1> QED BY <1>1, <1>2, <1>3, OthersDoNotOwn

\* What a reconciliation does: nothing, or it settles the active task, which
\* nobody owns.
LEMMA ReconcileShape ==
    ASSUME NoRaces, TypeOK, Grounded, LeaseHeld, NEW h \in Hosts, Reconcile(h)
    PROVE  /\ UNCHANGED <<nextTask, active, pending, starts, facts, openTool, run, late, prompted, orphaned>>
           /\ \A g \in Hosts \ {h} : pc'[g] = pc[g] /\ local'[g] = local[g]
           /\ \/ UNCHANGED <<reconciled, status>> /\ pc'[h] = "idle"
              \/ /\ \A g \in Hosts : ~Owns(g)
                 /\ active \in Tasks /\ reconciled' = reconciled \cup {active}
                 /\ status' \in {"interrupted", "cancelled"}
                 /\ pc'[h] = "idle" \/ (pc'[h] = "transferring" /\ local'[h].turns = pending[active])
  <1>0. pc \in [Hosts -> PcLabels] /\ local \in [Hosts -> Local]
    BY DEF TypeOK
  <1>1. UNCHANGED <<nextTask, active, pending, starts, facts, openTool, run, late, prompted, orphaned>>
    BY DEF Reconcile, workerVars, historyVars
  <1>2. /\ Return(h) => /\ pc'[h] = "idle"
                        /\ \A g \in Hosts \ {h} : pc'[g] = pc[g] /\ local'[g] = local[g]
        /\ Prepare(h, "transferring", pending[active]) =>
              /\ pc'[h] = "transferring" /\ local'[h].turns = pending[active]
              /\ \A g \in Hosts \ {h} : pc'[g] = pc[g] /\ local'[g] = local[g]
    BY <1>0 DEF Return, Prepare, Goto, NoLocal
  <1>3. CASE lease = NoHost /\ Seen(h).uncertain /\ Seen(h).task \notin reconciled
    <2>1. /\ reconciled' = reconciled \cup {active}
          /\ \E decided \in {"interrupted", "cancelled"} : Project(active, decided)
          /\ Return(h) \/ Prepare(h, "transferring", pending[active])
      BY <1>3, SeenIsProjection DEF Reconcile
    <2>2. active \in Tasks
      BY <1>3, SeenTask, SeenIsProjection
    <2>3. status' \in {"interrupted", "cancelled"}
      BY <2>1 DEF Project
    <2> QED BY <1>1, <1>2, <1>3, <2>1, <2>2, <2>3, OthersDoNotOwn
  <1>4. CASE ~(lease = NoHost /\ Seen(h).uncertain /\ Seen(h).task \notin reconciled)
    <2>1. Return(h) /\ UNCHANGED <<reconciled, status>>
      BY <1>4 DEF Reconcile
    <2> QED BY <1>1, <1>2, <2>1
  <1> QED BY <1>3, <1>4

\* The steps of a worker that leave the ledger alone.
Works(h) ==
    \/ TakeTurn(h) \/ Execute(h) \/ FinishTool(h) \/ LoopEnds(h) \/ LoopFails(h)
    \/ \E k \in ToolKind : StartTool(h, k)

\* A step of the loop changes nothing but its own run.
LEMMA WorksFrame ==
    ASSUME TypeOK, NEW h \in Hosts, Works(h)
    PROVE  /\ UNCHANGED <<nextTask, active, status, pending, starts, facts, openTool, reconciled,
                          lease, pc, local, late, prompted, orphaned>>
           /\ \A g \in Hosts \ {h} : run'[g] = run[g]
           /\ run'[h].task = run[h].task /\ Running(h) /\ Running(h)'
  <1>1. UNCHANGED <<nextTask, active, status, pending, starts, facts, openTool, reconciled,
                    lease, pc, local, late, prompted, orphaned>>
    BY DEF Works, TakeTurn, Execute, FinishTool, LoopEnds, LoopFails, StartTool, ledgerVars,
           handlerVars, historyVars
  <1>2. CASE TakeTurn(h) \/ Execute(h) \/ FinishTool(h) \/ \E k \in ToolKind : StartTool(h, k)
    <2>1. Running(h)
      BY <1>2 DEF TakeTurn, Execute, FinishTool, StartTool, Running
    <2>2. /\ \A g \in Hosts \ {h} : run'[g] = run[g]
          /\ run'[h].stage = run[h].stage /\ run'[h].task = run[h].task
      BY <1>2, TakeTurnRun, ExecuteRun, FinishToolRun, StartToolRun
    <2> QED BY <1>1, <2>1, <2>2 DEF Running
  <1>3. CASE LoopEnds(h) \/ LoopFails(h)
    <2>1. Running(h) /\ \E f : run' = Closing(h, f)
      BY <1>3 DEF LoopEnds, LoopFails, Running
    <2>2. /\ \A g \in Hosts \ {h} : run'[g] = run[g]
          /\ run'[h].stage = "closing" /\ run'[h].task = run[h].task
      BY <2>1, ClosingRun
    <2> QED BY <1>1, <2>1, <2>2 DEF Running
  <1> QED BY <1>2, <1>3 DEF Works

\* One case of the next-state relation for each shape of step.
LEMMA NextShapes ==
    ASSUME NoRaces, Calm, Next
    PROVE  \E h \in Hosts :
              \/ Reads(h) \/ RecoverLease(h) \/ (\E t \in Turns : PromptLease(h, t))
              \/ Reconcile(h) \/ Transfer(h) \/ Restart(h) \/ CreateTask(h)
              \/ (\E t \in Turns : QueueTurn(h, t) \/ CancelTurn(h, t)) \/ Abort(h)
              \/ Works(h) \/ RecordTrace(h) \/ Finish(h) \/ ClearControl(h) \/ Crash(h)
  <1>1. PICK h \in Hosts : \/ Recovery(h) \/ HandlerStep(h) \/ Command(h) \/ LoopStep(h)
                            \/ WorkerStep(h) \/ WorkerDies(h) \/ Crash(h)
    BY DEF Next
  <1>2. ~DrainLate(h) /\ ~WorkerDies(h)
    BY DEF DrainLate, WorkerDies, NoRaces, Calm
  <1> QED BY <1>1, <1>2
          DEF Recovery, HandlerStep, Command, LoopStep, WorkerStep, Reads, Works

\* Every step keeps the active task the one without a terminal fact.
LEMMA ActiveIsOpenStep ==
    ASSUME NoRaces
    PROVE  TypeInv /\ LeaseHeld /\ TasksInUse /\ Calm /\ ActiveIsOpen /\ OneTerminalFact /\ [Next]_vars
              => ActiveIsOpen' /\ OneTerminalFact'
  <1> SUFFICES ASSUME TypeOK, Grounded, LeaseHeld, TasksInUse, Calm, ActiveIsOpen, OneTerminalFact, Next
               PROVE  ActiveIsOpen' /\ OneTerminalFact'
    BY DEF TypeInv, ActiveIsOpen, OneTerminalFact, Running, vars, ledgerVars, handlerVars, workerVars
  <1>1. PICK h \in Hosts :
            \/ Reads(h) \/ RecoverLease(h) \/ (\E t \in Turns : PromptLease(h, t))
            \/ Reconcile(h) \/ Transfer(h) \/ Restart(h) \/ CreateTask(h)
            \/ (\E t \in Turns : QueueTurn(h, t) \/ CancelTurn(h, t)) \/ Abort(h)
            \/ Works(h) \/ RecordTrace(h) \/ Finish(h) \/ ClearControl(h) \/ Crash(h)
    BY NextShapes
  <1>2. /\ nextTask \in Nat /\ active \in Nat /\ \A k \in Tasks : k \in Nat
        /\ facts \in [Tasks -> Seq(Fact)] /\ pending \in [Tasks -> Seq(Turns)]
        /\ active < nextTask
        /\ \A g \in Hosts : /\ run[g].stage # "none" => run[g].task \in Tasks /\ run[g].task < nextTask
                            /\ pc[g] = "restarting" => local[g].task \in Tasks /\ local[g].task < nextTask
    BY MaxTasksAssumption DEF TypeOK, Tasks, NoTask, TasksInUse
  <1>3. \A g \in Hosts : /\ Running(g) => Owns(g)
                         /\ pc[g] = "restarting" => Owns(g)
    BY DEF Running, Owns, Starting
  <1>4. CASE Reads(h)
    <2>1. /\ UNCHANGED <<nextTask, active, status, pending, facts, run>>
          /\ \A g \in Hosts : pc'[g] = "restarting" => pc[g] = "restarting" /\ local'[g] = local[g]
      BY <1>4, ReadsFrame DEF Starting
    <2> QED BY <2>1 DEF ActiveIsOpen, OneTerminalFact, Running
  <1>5. CASE RecoverLease(h) \/ \E t \in Turns : PromptLease(h, t)
    <2>1. /\ \A g \in Hosts : ~Owns(g) /\ ~Running(g)' /\ pc'[g] # "restarting"
          /\ UNCHANGED <<nextTask, active, pending>>
          /\ IF status \in ActiveStatus
             THEN /\ facts' = [facts EXCEPT ![active] = Append(<<>>, AnalyzeTask(active))]
                  /\ status' = AnalyzeTask(active)
             ELSE UNCHANGED <<facts, status>>
      BY <1>3, <1>5, LeaseTaken DEF Running
    <2>2. CASE status \in ActiveStatus
      <3>1. status' \notin ActiveStatus
        BY <2>1, <2>2 DEF AnalyzeTask, ActiveStatus
      <3>2. \A k \in Tasks : facts'[k] = IF k = active THEN Append(<<>>, AnalyzeTask(active)) ELSE facts[k]
        BY <1>2, <2>1, <2>2
      <3>3. Len(Append(<<>>, AnalyzeTask(active))) = 1
        OBVIOUS
      <3>4. \A k \in Tasks : k >= nextTask => k # active
        BY <1>2
      <3>5. \A k \in Tasks : /\ k >= nextTask' => facts'[k] = <<>> /\ pending'[k] = <<>>
                             /\ Len(facts'[k]) <= 1
        <4> TAKE k \in Tasks
        <4>1. CASE k = active
          <5>1. Len(facts'[k]) = 1
            BY <3>2, <3>3, <4>1
          <5> QED BY <2>1, <3>4, <4>1, <5>1
        <4>2. CASE k # active
          BY <2>1, <3>2, <4>2 DEF ActiveIsOpen, OneTerminalFact
        <4> QED BY <4>1, <4>2
      <3> QED BY <2>1, <3>1, <3>5 DEF ActiveIsOpen, OneTerminalFact
    <2>3. CASE status \notin ActiveStatus
      BY <2>1, <2>3 DEF ActiveIsOpen, OneTerminalFact
    <2> QED BY <2>2, <2>3
  <1>6. CASE Reconcile(h)
    <2>1. UNCHANGED <<nextTask, active, pending, facts, run>> /\ pc'[h] # "restarting"
          /\ \A g \in Hosts \ {h} : pc'[g] = pc[g] /\ local'[g] = local[g]
      BY <1>6, ReconcileShape
    <2>2. \/ UNCHANGED status
          \/ status' \notin ActiveStatus /\ \A g \in Hosts : ~Owns(g)
      BY <1>6, ReconcileShape DEF ActiveStatus
    <2> QED BY <1>3, <2>1, <2>2 DEF ActiveIsOpen, OneTerminalFact, Running
  <1>7. CASE Transfer(h)
    <2>1. /\ UNCHANGED <<active, status, facts, run>> /\ nextTask' = nextTask + 1 /\ nextTask \in Tasks
          /\ pending' = [pending EXCEPT ![nextTask] = local[h].turns]
          /\ local'[h].task = nextTask
          /\ \A g \in Hosts \ {h} : pc'[g] = pc[g] /\ local'[g] = local[g]
      BY <1>7 DEF Transfer, TypeOK, Local, Goto, workerVars
    <2>2. ASSUME NEW k \in Tasks, k >= nextTask' PROVE pending'[k] = pending[k] /\ k >= nextTask
      <3>1. k \in Nat /\ nextTask \in Nat /\ k >= nextTask + 1
        BY <1>2, <2>1, <2>2
      <3>2. k # nextTask /\ k >= nextTask
        BY <3>1
      <3> QED BY <1>2, <2>1, <3>2
    <2> QED BY <1>2, <2>1, <2>2 DEF ActiveIsOpen, OneTerminalFact, Running
  <1>8. CASE Restart(h) \/ CreateTask(h)
    <2>1. Owns(h) /\ \A g \in Hosts \ {h} : ~Owns(g)
      BY <1>8, OthersDoNotOwn DEF Restart, CreateTask, Owns, Starting
    <2>2. /\ status' = "running" /\ facts' = facts /\ active' \in Tasks /\ facts[active'] = <<>>
          /\ run'[h].task = active'
      <3>1. CASE Restart(h)
        BY <1>2, <3>1, RestartRun DEF Restart, ActiveIsOpen
      <3>2. CASE CreateTask(h)
        <4>1. nextTask \in Tasks /\ active' = nextTask /\ status' = "running" /\ facts' = facts
          BY <3>2 DEF CreateTask
        <4>2. nextTask >= nextTask
          BY <1>2
        <4> QED BY <3>2, <4>1, <4>2, CreateTaskRun DEF ActiveIsOpen
      <3> QED BY <1>8, <3>1, <3>2
    <2>3. \A k \in Tasks : k >= nextTask' => k >= nextTask /\ pending'[k] = pending[k]
      <3>1. CASE Restart(h)
        BY <1>2, <3>1 DEF Restart
      <3>2. CASE CreateTask(h)
        <4>1. nextTask' = nextTask + 1 /\ pending' = pending
          BY <3>2 DEF CreateTask
        <4> QED BY <1>2, <4>1
      <3> QED BY <1>8, <3>1, <3>2
    <2>4. /\ \A g \in Hosts \ {h} : run'[g] = run[g] /\ pc'[g] = pc[g]
          /\ pc'[h] = "idle"
      <3>1. \A g \in Hosts \ {h} : run'[g] = run[g]
        BY <1>8, RestartRun, CreateTaskRun
      <3>2. pc'[h] = "idle" /\ \A g \in Hosts \ {h} : pc'[g] = pc[g]
        BY <1>8 DEF Restart, CreateTask, Return, Goto, TypeOK
      <3> QED BY <3>1, <3>2
    <2>5. \A g \in Hosts : pc'[g] # "restarting" /\ (Running(g)' => g = h)
      BY <1>3, <2>1, <2>4 DEF Running
    <2> QED BY <2>2, <2>3, <2>5 DEF ActiveIsOpen, OneTerminalFact, ActiveStatus
  <1>9. ASSUME NEW t \in Turns, QueueTurn(h, t) \/ CancelTurn(h, t)
        PROVE  ActiveIsOpen' /\ OneTerminalFact'
    <2>1. /\ UNCHANGED <<nextTask, active, status, facts, pc, local>>
          /\ run[h].task \in Tasks /\ run[h].task < nextTask
      BY <1>2, <1>9 DEF QueueTurn, CancelTurn, handlerVars, Running
    <2>2. \E q : pending' = [pending EXCEPT ![run[h].task] = q]
      BY <1>9 DEF QueueTurn, CancelTurn
    <2>3. \A k \in Tasks : k >= nextTask => pending'[k] = pending[k]
      BY <1>2, <2>1, <2>2
    <2>4. \A g \in Hosts : run'[g].stage = run[g].stage /\ run'[g].task = run[g].task
      BY <1>9, QueueTurnRun, CancelTurnRun
    <2> QED BY <2>1, <2>3, <2>4 DEF ActiveIsOpen, OneTerminalFact, Running
  <1>10. CASE Abort(h)
    <2>1. UNCHANGED <<nextTask, active, facts, pending, pc, local>> /\ Running(h)
      BY <1>10 DEF Abort, handlerVars
    <2>2. status' \in ActiveStatus /\ status \in ActiveStatus
      BY <1>10, <2>1 DEF Abort, Project, ActiveIsOpen, ActiveStatus
    <2>3. \A g \in Hosts : run'[g].task = run[g].task /\ (Running(g)' => Running(g))
      BY <1>10, ClosingRun DEF Abort, Running
    <2> QED BY <2>1, <2>2, <2>3 DEF ActiveIsOpen, OneTerminalFact
  <1>11. CASE Works(h)
    BY <1>11, WorksFrame DEF ActiveIsOpen, OneTerminalFact, Running
  <1>12. CASE RecordTrace(h)
    <2>1. /\ UNCHANGED <<nextTask, facts, pc, local>> /\ Running(h) /\ run[h].task \in Tasks
          /\ run[h].task < nextTask
      BY <1>2, <1>12 DEF RecordTrace, handlerVars, Running
    <2>2. active = run[h].task /\ status \in ActiveStatus
      BY <2>1 DEF ActiveIsOpen
    <2>3. /\ active' = active /\ status' \in ActiveStatus
          /\ pending' = pending \/ \E q : pending' = [pending EXCEPT ![run[h].task] = q]
      BY <1>12, <2>2 DEF RecordTrace, AppendTraceEvent, ActiveStatus
    <2>4. \A k \in Tasks : k >= nextTask => pending'[k] = pending[k]
      BY <1>2, <2>1, <2>3
    <2>5. \A g \in Hosts : run'[g].stage = run[g].stage /\ run'[g].task = run[g].task
      BY <1>12, RecordTraceRun
    <2> QED BY <2>1, <2>2, <2>3, <2>4, <2>5 DEF ActiveIsOpen, OneTerminalFact, Running
  <1>13. CASE Finish(h)
    <2>1. Running(h) /\ run[h].result \in Fact
      BY <1>13 DEF Finish, Running, Grounded
    <2>2. active = run[h].task /\ active \in Tasks /\ facts[active] = <<>>
      BY <2>1 DEF ActiveIsOpen
    <2>3. /\ UNCHANGED <<nextTask, active, pending, pc, local>> /\ status' = run[h].result
          /\ facts' = [facts EXCEPT ![active] = Append(facts[active], run[h].result)]
      BY <1>2, <1>13, <2>2 DEF Finish, AppendFact, Project, handlerVars
    <2>4. \A g \in Hosts : ~Running(g)' /\ pc'[g] # "restarting"
      <3>1. Owns(h) /\ ~Starting(h) /\ \A g \in Hosts \ {h} : ~Owns(g)
        BY <1>3, <2>1, OthersDoNotOwn DEF LeaseHeld, Running
      <3> QED BY <1>3, <1>13, <2>3, <3>1, FinishRun DEF Running, Starting
    <2>5. status' \notin ActiveStatus
      BY <2>1, <2>3 DEF Fact, ActiveStatus
    <2>6. \A k \in Tasks : facts'[k] = IF k = active THEN Append(<<>>, run[h].result) ELSE facts[k]
      BY <1>2, <2>2, <2>3
    <2>7. Len(Append(<<>>, run[h].result)) = 1
      OBVIOUS
    <2>8. \A k \in Tasks : k >= nextTask => k # active
      BY <1>2
    <2>9. \A k \in Tasks : /\ k >= nextTask' => facts'[k] = <<>> /\ pending'[k] = <<>>
                           /\ Len(facts'[k]) <= 1
      <3> TAKE k \in Tasks
      <3>1. CASE k = active
        <4>1. Len(facts'[k]) = 1
          BY <2>6, <2>7, <3>1
        <4>2. nextTask' = nextTask
          BY <2>3
        <4> QED BY <2>8, <3>1, <4>1, <4>2
      <3>2. CASE k # active
        BY <2>3, <2>6, <3>2 DEF ActiveIsOpen, OneTerminalFact
      <3> QED BY <3>1, <3>2
    <2> QED BY <2>4, <2>5, <2>9 DEF ActiveIsOpen, OneTerminalFact
  <1>14. CASE ClearControl(h) \/ Crash(h)
    <2>1. UNCHANGED <<nextTask, active, status, facts, pending>>
      BY <1>14 DEF ClearControl, Crash, ledgerVars
    <2>2. \A g \in Hosts : /\ Running(g)' => Running(g) /\ run'[g] = run[g]
                           /\ pc'[g] = "restarting" => pc[g] = "restarting" /\ local'[g] = local[g]
      BY <1>14, RunGone DEF ClearControl, Crash, Running, Goto, handlerVars, TypeOK
    <2> QED BY <2>1, <2>2 DEF ActiveIsOpen, OneTerminalFact
  <1> QED BY <1>1, <1>4, <1>5, <1>6, <1>7, <1>8, <1>9, <1>10, <1>11, <1>12, <1>13, <1>14

-----------------------------------------------------------------------------
(* An unreconciled orphan keeps the session *)

\* k lost its owner while the ledger showed a side effect under way.
Blocked(k) == k \in orphaned /\ openTool[k] \in SideKind /\ k \notin reconciled

\* Such a task stays active, nobody owns the session, and no other task runs
\* under its name.
OrphansBlock ==
    /\ \A k \in Tasks : Blocked(k) =>
          /\ active = k /\ status \in ActiveStatus \cup {"uncertain"}
          /\ \A h \in Hosts : ~Owns(h)
    /\ \A k \in orphaned : k < nextTask
    /\ \A h \in Hosts : /\ run[h].stage # "none" => run[h].task \notin orphaned
                        /\ pc[h] = "restarting" => local[h].task \notin orphaned

\* Every step keeps the session blocked by an unreconciled side effect.
LEMMA OrphansBlockStep ==
    ASSUME NoRaces
    PROVE  TypeInv /\ LeaseHeld /\ TasksInUse /\ Calm /\ ActiveIsOpen /\ OrphansBlock /\ [Next]_vars
              => OrphansBlock'
  <1> SUFFICES ASSUME TypeOK, Grounded, LeaseHeld, TasksInUse, Calm, ActiveIsOpen, OrphansBlock, Next
               PROVE  OrphansBlock'
    BY DEF TypeInv, OrphansBlock, Blocked, Owns, Starting, vars, ledgerVars, handlerVars, workerVars,
           historyVars
  <1>1. PICK h \in Hosts :
            \/ Reads(h) \/ RecoverLease(h) \/ (\E t \in Turns : PromptLease(h, t))
            \/ Reconcile(h) \/ Transfer(h) \/ Restart(h) \/ CreateTask(h)
            \/ (\E t \in Turns : QueueTurn(h, t) \/ CancelTurn(h, t)) \/ Abort(h)
            \/ Works(h) \/ RecordTrace(h) \/ Finish(h) \/ ClearControl(h) \/ Crash(h)
    BY NextShapes
  <1>2. /\ nextTask \in Nat /\ orphaned \subseteq Tasks /\ \A k \in Tasks : k \in Nat
        /\ openTool \in [Tasks -> {"none"} \cup ToolKind]
    BY MaxTasksAssumption DEF TypeOK, Tasks, NoTask
  <1>3. ASSUME Owns(h), UNCHANGED <<openTool, orphaned, reconciled>> PROVE \A k \in Tasks : ~Blocked(k)'
    BY <1>3 DEF OrphansBlock, Blocked
  <1>4. CASE Reads(h)
    <2>1. /\ UNCHANGED <<nextTask, active, status, openTool, reconciled, run, orphaned>>
          /\ ~Starting(h)' /\ \A g \in Hosts \ {h} : pc'[g] = pc[g] /\ local'[g] = local[g]
      BY <1>4, ReadsFrame
    <2>2. \A g \in Hosts : Owns(g)' => Owns(g)
      BY <2>1 DEF Owns, Starting
    <2>3. \A g \in Hosts : pc'[g] = "restarting" => pc[g] = "restarting" /\ local'[g] = local[g]
      BY <2>1 DEF Starting
    <2> QED BY <2>1, <2>2, <2>3 DEF OrphansBlock, Blocked
  <1>5. CASE RecoverLease(h) \/ \E t \in Turns : PromptLease(h, t)
    <2>1. /\ \A g \in Hosts : ~Owns(g)
          /\ UNCHANGED <<nextTask, active, openTool, reconciled, run, orphaned>>
          /\ status # "uncertain"
          /\ status \in ActiveStatus => status' = AnalyzeTask(active)
          /\ \A g \in Hosts \ {h} : pc'[g] = pc[g] /\ local'[g] = local[g]
          /\ pc'[h] # "restarting"
          /\ Starting(h)' => status' # "uncertain"
      BY <1>5, LeaseTaken
    <2>2. ASSUME NEW k \in Tasks, Blocked(k)'
          PROVE  active' = k /\ status' = "uncertain" /\ \A g \in Hosts : ~Owns(g)'
      <3>1. Blocked(k) /\ active = k /\ status \in ActiveStatus
        BY <2>1, <2>2 DEF OrphansBlock, Blocked
      <3>2. status' = "uncertain"
        BY <2>1, <3>1 DEF Blocked, AnalyzeTask
      <3> QED BY <2>1, <3>1, <3>2 DEF Owns, Starting
    <2> QED BY <2>1, <2>2 DEF OrphansBlock, Owns
  <1>6. CASE Reconcile(h)
    <2>1. /\ UNCHANGED <<nextTask, active, openTool, run, orphaned>> /\ pc'[h] # "restarting"
          /\ \A g \in Hosts \ {h} : pc'[g] = pc[g] /\ local'[g] = local[g]
      BY <1>6, ReconcileShape
    <2>2. \/ UNCHANGED <<reconciled, status>> /\ pc'[h] = "idle"
          \/ reconciled' = reconciled \cup {active}
      BY <1>6, ReconcileShape
    <2>3. CASE UNCHANGED <<reconciled, status>> /\ pc'[h] = "idle"
      <3>1. \A g \in Hosts : Owns(g)' => Owns(g)
        BY <2>1, <2>3 DEF Owns, Starting
      <3> QED BY <2>1, <2>3, <3>1 DEF OrphansBlock, Blocked
    <2>4. CASE reconciled' = reconciled \cup {active}
      <3>1. \A k \in Tasks : ~Blocked(k)'
        BY <2>1, <2>4 DEF OrphansBlock, Blocked
      <3> QED BY <2>1, <3>1 DEF OrphansBlock
    <2> QED BY <2>2, <2>3, <2>4
  <1>7. CASE Transfer(h)
    <2>1. /\ UNCHANGED <<openTool, orphaned, reconciled, run>> /\ nextTask' = nextTask + 1
          /\ local'[h].task = nextTask /\ Owns(h)
          /\ \A g \in Hosts \ {h} : pc'[g] = pc[g] /\ local'[g] = local[g]
      BY <1>7 DEF Transfer, TypeOK, Local, Goto, workerVars, historyVars, Owns, Starting
    <2>2. nextTask \notin orphaned /\ \A k \in orphaned : k < nextTask'
      BY <1>2, <2>1 DEF OrphansBlock
    <2>3. \A g \in Hosts : pc'[g] = "restarting" => local'[g].task \notin orphaned
      BY <2>1, <2>2 DEF OrphansBlock
    <2> QED BY <1>3, <2>1, <2>2, <2>3 DEF OrphansBlock
  <1>8. CASE Restart(h) \/ CreateTask(h)
    <2>1. UNCHANGED <<openTool, orphaned, reconciled>> /\ Owns(h)
      BY <1>8 DEF Restart, CreateTask, historyVars, Owns, Starting
    <2>2. run'[h].task \notin orphaned /\ \A k \in orphaned : k < nextTask'
      <3>1. CASE Restart(h)
        BY <3>1, RestartRun DEF Restart, OrphansBlock
      <3>2. CASE CreateTask(h)
        <4>1. nextTask' = nextTask + 1 /\ run'[h].task = nextTask
          BY <3>2, CreateTaskRun DEF CreateTask
        <4>2. \A k \in orphaned : k \in Nat /\ k < nextTask
          BY <1>2 DEF OrphansBlock
        <4> QED BY <1>2, <4>1, <4>2
      <3> QED BY <1>8, <3>1, <3>2
    <2>3. /\ \A g \in Hosts \ {h} : run'[g] = run[g]
          /\ \A g \in Hosts \ {h} : pc'[g] = pc[g] /\ local'[g] = local[g]
          /\ pc'[h] = "idle"
      <3>1. \A g \in Hosts \ {h} : run'[g] = run[g]
        BY <1>8, RestartRun, CreateTaskRun
      <3>2. pc'[h] = "idle" /\ \A g \in Hosts \ {h} : pc'[g] = pc[g] /\ local'[g] = local[g]
        BY <1>8 DEF Restart, CreateTask, Return, Goto, TypeOK
      <3> QED BY <3>1, <3>2
    <2> QED BY <1>3, <2>1, <2>2, <2>3 DEF OrphansBlock
  <1>9. ASSUME Running(h), UNCHANGED <<nextTask, orphaned, reconciled, pc, local>>,
               \A k \in Tasks \ {run[h].task} : openTool'[k] = openTool[k],
               \A g \in Hosts \ {h} : run'[g] = run[g], run'[h].task = run[h].task
        PROVE  OrphansBlock'
    <2>1. Owns(h) /\ run[h].task \notin orphaned
      BY <1>9 DEF OrphansBlock, Running, Owns
    <2>2. \A k \in Tasks : ~Blocked(k)'
      BY <1>9, <2>1 DEF OrphansBlock, Blocked
    <2> QED BY <1>9, <2>1, <2>2 DEF OrphansBlock
  <1>10. CASE (\E t \in Turns : QueueTurn(h, t) \/ CancelTurn(h, t)) \/ Abort(h)
    <2>1. UNCHANGED <<nextTask, openTool, orphaned, reconciled, pc, local>> /\ Running(h)
      BY <1>10 DEF QueueTurn, CancelTurn, Abort, Running, handlerVars, historyVars
    <2>2. /\ \A g \in Hosts \ {h} : run'[g] = run[g]
          /\ run'[h].task = run[h].task
      <3>1. CASE Abort(h)
        BY <3>1, ClosingRun DEF Abort
      <3>2. CASE ~Abort(h)
        BY <1>10, <3>2, QueueTurnRun, CancelTurnRun
      <3> QED BY <3>1, <3>2
    <2> QED BY <1>9, <2>1, <2>2
  <1>11. CASE Works(h)
    BY <1>9, <1>11, WorksFrame
  <1>12. CASE RecordTrace(h)
    <2>1. UNCHANGED <<nextTask, orphaned, reconciled, pc, local>> /\ Running(h)
      BY <1>12 DEF RecordTrace, handlerVars, historyVars
    <2>2. \A k \in Tasks \ {run[h].task} : openTool'[k] = openTool[k]
      BY <1>2, <1>12 DEF RecordTrace, AppendTraceEvent
    <2> QED BY <1>9, <1>12, <2>1, <2>2, RecordTraceRun
  <1>13. CASE Finish(h)
    <2>1. UNCHANGED <<nextTask, openTool, orphaned, reconciled, pc, local>> /\ Running(h)
      BY <1>13 DEF Finish, handlerVars, historyVars, Running
    <2> QED BY <1>9, <1>13, <2>1, FinishRun
  <1>14. CASE ClearControl(h)
    <2>1. UNCHANGED <<nextTask, openTool, orphaned, reconciled, pc, local>> /\ Owns(h)
      BY <1>14 DEF ClearControl, ledgerVars, handlerVars, historyVars, Owns
    <2> QED BY <1>3, <1>14, <2>1, RunGone DEF OrphansBlock
  <1>15. CASE Crash(h)
    <2>1. /\ UNCHANGED <<nextTask, active, status, openTool, reconciled>>
          /\ orphaned' = IF Running(h) THEN orphaned \cup {run[h].task} ELSE orphaned
          /\ pc'[h] = "dead" /\ \A g \in Hosts \ {h} : pc'[g] = pc[g] /\ local'[g] = local[g]
      BY <1>15 DEF Crash, ledgerVars, Goto, TypeOK
    <2>2. /\ \A g \in Hosts \ {h} : run'[g] = run[g]
          /\ run'[h].stage = "none"
      BY <1>15, RunGone
    <2>3. \A g \in Hosts : Owns(g)' => Owns(g) /\ g # h
      BY <2>1, <2>2 DEF Owns, Starting
    <2>4. CASE Running(h)
      <3>1. Owns(h) /\ active = run[h].task /\ status \in ActiveStatus /\ run[h].task < nextTask
        BY <2>4 DEF Running, Owns, ActiveIsOpen, TasksInUse
      <3>2. \A g \in Hosts : ~Owns(g)'
        BY <2>3, <3>1, OthersDoNotOwn
      <3>3. \A g \in Hosts : run'[g].stage = "none" /\ pc'[g] # "restarting"
        BY <3>2 DEF Owns, Starting
      <3>4. \A k \in Tasks : Blocked(k)' => k = run[h].task
        BY <2>1, <3>1 DEF OrphansBlock, Blocked
      <3> QED BY <2>1, <2>4, <3>1, <3>2, <3>3, <3>4 DEF OrphansBlock
    <2>5. CASE ~Running(h)
      <3>1. orphaned' = orphaned
        BY <2>1, <2>5
      <3> QED BY <2>1, <2>2, <2>3, <3>1 DEF OrphansBlock, Blocked
    <2> QED BY <2>4, <2>5
  <1> QED BY <1>1, <1>4, <1>5, <1>6, <1>7, <1>8, <1>10, <1>11, <1>12, <1>13, <1>14, <1>15

-----------------------------------------------------------------------------
(* A turn is started once *)

\* The turns of a trace, and a trace that names each of them once.
TracedTurns(trace) == {trace[i].turn : i \in {j \in 1..Len(trace) : trace[j].kind = "turn"}}
DistinctTurns(trace) ==
    \A i, j \in 1..Len(trace) :
        trace[i].kind = "turn" /\ trace[j].kind = "turn" /\ trace[i].turn = trace[j].turn => i = j

\* The turns of a trace after one more event.
LEMMA TraceAppend ==
    ASSUME NEW s \in Seq(TraceEvent), NEW e \in TraceEvent
    PROVE  /\ e.kind # "turn" => /\ TracedTurns(Append(s, e)) = TracedTurns(s)
                                 /\ DistinctTurns(s) => DistinctTurns(Append(s, e))
           /\ e.kind = "turn" => /\ TracedTurns(Append(s, e)) = TracedTurns(s) \cup {e.turn}
                                 /\ DistinctTurns(s) /\ e.turn \notin TracedTurns(s)
                                       => DistinctTurns(Append(s, e))
  <1> DEFINE a == Append(s, e)
  <1>1. /\ Len(s) \in Nat /\ Len(a) = Len(s) + 1 /\ a[Len(s) + 1] = e
        /\ \A i \in 1..Len(s) : a[i] = s[i] /\ i \in 1..Len(a)
        /\ Len(s) + 1 \in 1..Len(a)
    OBVIOUS
  <1>2. \A i \in 1..Len(a) : i \in 1..Len(s) \/ i = Len(s) + 1
    BY <1>1
  <1> HIDE DEF a
  <1>3. TracedTurns(s) \subseteq TracedTurns(a)
    BY <1>1 DEF TracedTurns
  <1>4. CASE e.kind # "turn"
    <2>1. TracedTurns(a) \subseteq TracedTurns(s)
      BY <1>1, <1>2, <1>4 DEF TracedTurns
    <2>2. DistinctTurns(s) => DistinctTurns(a)
      BY <1>1, <1>2, <1>4 DEF DistinctTurns
    <2> QED BY <1>3, <1>4, <2>1, <2>2 DEF a
  <1>5. CASE e.kind = "turn"
    <2>1. TracedTurns(a) \subseteq TracedTurns(s) \cup {e.turn}
      BY <1>1, <1>2 DEF TracedTurns
    <2>2. e.turn \in TracedTurns(a)
      BY <1>1, <1>5 DEF TracedTurns
    <2>3. ASSUME DistinctTurns(s), e.turn \notin TracedTurns(s) PROVE DistinctTurns(a)
      <3>1. \A i \in 1..Len(s) : s[i].kind = "turn" => s[i].turn # e.turn
        BY <2>3 DEF TracedTurns
      <3> QED BY <1>1, <1>2, <2>3, <3>1 DEF DistinctTurns
    <2> QED BY <1>3, <1>5, <2>1, <2>2, <2>3 DEF a
  <1> QED BY <1>4, <1>5

\* The turns of a trace without its first event.
LEMMA TraceTail ==
    ASSUME NEW s \in Seq(TraceEvent), s # <<>>, DistinctTurns(s)
    PROVE  /\ DistinctTurns(Tail(s))
           /\ Head(s).kind # "turn" => TracedTurns(Tail(s)) = TracedTurns(s)
           /\ Head(s).kind = "turn" =>
                 /\ Head(s).turn \in TracedTurns(s)
                 /\ TracedTurns(Tail(s)) = TracedTurns(s) \ {Head(s).turn}
  <1> DEFINE r == Tail(s)
  <1>1. /\ Len(s) \in Nat /\ Len(s) >= 1 /\ Head(s) = s[1] /\ Len(r) = Len(s) - 1
        /\ \A i \in 1..Len(r) : r[i] = s[i + 1]
    OBVIOUS
  <1> HIDE DEF r
  <1>2. /\ 1 \in 1..Len(s)
        /\ \A i \in 1..Len(r) : i + 1 \in 1..Len(s) /\ i + 1 # 1
        /\ \A i \in 1..Len(s) : i = 1 \/ (i - 1 \in 1..Len(r) /\ r[i - 1] = s[i])
    BY <1>1
  <1>3. DistinctTurns(r)
    BY <1>1, <1>2 DEF DistinctTurns
  <1>4. TracedTurns(r) \subseteq TracedTurns(s)
    <2>1. ASSUME NEW i \in 1..Len(r), r[i].kind = "turn" PROVE r[i].turn \in TracedTurns(s)
      <3>1. i + 1 \in 1..Len(s) /\ r[i] = s[i + 1]
        BY <1>1, <1>2
      <3> QED BY <2>1, <3>1 DEF TracedTurns
    <2> QED BY <2>1 DEF TracedTurns
  <1>5. CASE Head(s).kind # "turn"
    <2>1. TracedTurns(s) \subseteq TracedTurns(r)
      BY <1>1, <1>2, <1>5 DEF TracedTurns
    <2> QED BY <1>3, <1>4, <1>5, <2>1 DEF r
  <1>6. CASE Head(s).kind = "turn"
    <2>1. Head(s).turn \in TracedTurns(s)
      BY <1>1, <1>2, <1>6 DEF TracedTurns
    <2>2. Head(s).turn \notin TracedTurns(r)
      BY <1>1, <1>2, <1>6 DEF TracedTurns, DistinctTurns
    <2>3. TracedTurns(s) \subseteq TracedTurns(r) \cup {Head(s).turn}
      <3>1. ASSUME NEW i \in 1..Len(s), s[i].kind = "turn"
            PROVE  s[i].turn \in TracedTurns(r) \cup {Head(s).turn}
        <4>1. CASE i = 1
          BY <1>1, <4>1
        <4>2. CASE i # 1
          <5>1. i - 1 \in 1..Len(r) /\ r[i - 1] = s[i]
            BY <1>2, <4>2
          <5> QED BY <3>1, <5>1 DEF TracedTurns
        <4> QED BY <4>1, <4>2
      <3> QED BY <3>1 DEF TracedTurns
    <2> QED BY <1>3, <1>4, <1>6, <2>1, <2>2, <2>3 DEF r
  <1> QED BY <1>5, <1>6

\* Turns that some prompt brought and nobody has durably started.
Fresh(T, brought, started) == \A t \in T : t \in brought /\ started[t] = 0

\* The ledger's queue of a running task holds the turns its loop has taken
\* without their start being recorded and the ones it has not taken.
QueueIsJournaled(h) ==
    Running(h) =>
        /\ Distinct(run[h].queue) /\ DistinctTurns(run[h].trace)
        /\ TracedTurns(run[h].trace) \cap ElementsOf(run[h].queue) = {}
        /\ ElementsOf(pending[run[h].task]) =
              TracedTurns(run[h].trace) \cup ElementsOf(run[h].queue)

\* Whatever a host may still start, now or after a recovery, is fresh.
WaitingTurns ==
    /\ \A t \in Turns : starts[t] <= 1 /\ (starts[t] > 0 => t \in prompted)
    /\ active \in Tasks => Distinct(pending[active]) /\ Fresh(ElementsOf(pending[active]), prompted, starts)
    /\ \A h \in Hosts : Starting(h) =>
          Distinct(local[h].turns) /\ Fresh(ElementsOf(local[h].turns), prompted, starts)
    /\ \A h \in Hosts : QueueIsJournaled(h)

\* Every step keeps each turn waiting in one place only.
LEMMA WaitingTurnsStep ==
    ASSUME NoRaces
    PROVE  TypeInv /\ LeaseHeld /\ TasksInUse /\ Calm /\ ActiveIsOpen /\ WaitingTurns /\ [Next]_vars
              => WaitingTurns'
  <1> SUFFICES ASSUME TypeOK, Grounded, LeaseHeld, TasksInUse, Calm, ActiveIsOpen, WaitingTurns, Next
               PROVE  WaitingTurns'
    BY DEF TypeInv, WaitingTurns, QueueIsJournaled, Running, Fresh, Starting, vars, ledgerVars,
           handlerVars, workerVars, historyVars
  <1>1. PICK h \in Hosts :
            \/ Reads(h) \/ RecoverLease(h) \/ (\E t \in Turns : PromptLease(h, t))
            \/ Reconcile(h) \/ Transfer(h) \/ Restart(h) \/ CreateTask(h)
            \/ (\E t \in Turns : QueueTurn(h, t) \/ CancelTurn(h, t)) \/ Abort(h)
            \/ Works(h) \/ RecordTrace(h) \/ Finish(h) \/ ClearControl(h) \/ Crash(h)
    BY NextShapes
  <1>2. /\ nextTask \in Nat /\ active \in Nat /\ \A k \in Tasks : k \in Nat
        /\ pending \in [Tasks -> Seq(Turns)] /\ starts \in [Turns -> Nat] /\ active < nextTask
        /\ prompted \subseteq Turns
    BY MaxTasksAssumption DEF TypeOK, Tasks, NoTask, TasksInUse
  <1>3. \A t \in Turns : t \notin prompted => starts[t] = 0
    BY <1>2 DEF WaitingTurns
  <1>4. \A g \in Hosts : (Running(g) => Owns(g)) /\ (Starting(g) => Owns(g))
    BY DEF Running, Owns
  <1>5. CASE Reads(h)
    <2>1. /\ UNCHANGED <<active, pending, starts, run, prompted>>
          /\ \A g \in Hosts : Starting(g)' => Starting(g) /\ local'[g] = local[g]
      BY <1>5, ReadsFrame DEF Starting
    <2> QED BY <2>1 DEF WaitingTurns, QueueIsJournaled, Running, Fresh
  <1>6. CASE RecoverLease(h) \/ \E t \in Turns : PromptLease(h, t)
    <2>1. /\ \A g \in Hosts : ~Owns(g)
          /\ UNCHANGED <<active, pending, starts, run>> /\ prompted \subseteq prompted'
          /\ \A g \in Hosts \ {h} : pc'[g] = pc[g] /\ local'[g] = local[g]
          /\ Starting(h)' =>
                \/ active \in Tasks /\ local'[h].turns = pending[active]
                \/ \E t \in Turns : local'[h].turns = <<t>> /\ t \notin prompted
                                      /\ prompted' = prompted \cup {t}
      BY <1>6, LeaseTaken
    <2>2. \A T : Fresh(T, prompted, starts) => Fresh(T, prompted', starts')
      BY <2>1 DEF Fresh
    <2>3. Starting(h)' => Distinct(local'[h].turns) /\ Fresh(ElementsOf(local'[h].turns), prompted', starts')
      <3>1. CASE active \in Tasks /\ local'[h].turns = pending[active]
        BY <2>2, <3>1 DEF WaitingTurns
      <3>2. ASSUME NEW t \in Turns, local'[h].turns = <<t>>, t \notin prompted,
                   prompted' = prompted \cup {t}
            PROVE  Distinct(local'[h].turns) /\ Fresh(ElementsOf(local'[h].turns), prompted', starts')
        <4>1. Distinct(<<t>>) /\ ElementsOf(<<t>>) = {t}
          BY DEF Distinct, ElementsOf
        <4>2. Fresh({t}, prompted', starts')
          BY <1>3, <2>1, <3>2 DEF Fresh
        <4> QED BY <3>2, <4>1, <4>2
      <3> QED BY <2>1, <3>1, <3>2
    <2>4. \A g \in Hosts : ~Running(g)' /\ (Starting(g)' => g = h)
      BY <1>4, <2>1 DEF Running, Starting
    <2>5. \A t \in Turns : starts'[t] <= 1 /\ (starts'[t] > 0 => t \in prompted')
      BY <2>1 DEF WaitingTurns
    <2>6. active' \in Tasks => Distinct(pending'[active']) /\ Fresh(ElementsOf(pending'[active']), prompted', starts')
      BY <2>1, <2>2 DEF WaitingTurns
    <2> QED BY <2>3, <2>4, <2>5, <2>6 DEF WaitingTurns, QueueIsJournaled
  <1>7. CASE Reconcile(h)
    <2>1. /\ UNCHANGED <<active, pending, starts, run, prompted>>
          /\ \A g \in Hosts \ {h} : pc'[g] = pc[g] /\ local'[g] = local[g]
      BY <1>7, ReconcileShape
    <2>2. Starting(h)' => active \in Tasks /\ local'[h].turns = pending[active]
      BY <1>7, ReconcileShape DEF Starting
    <2>3. \A g \in Hosts : Starting(g)' =>
              Distinct(local'[g].turns) /\ Fresh(ElementsOf(local'[g].turns), prompted', starts')
      BY <2>1, <2>2 DEF WaitingTurns, Fresh, Starting
    <2> QED BY <2>1, <2>3 DEF WaitingTurns, QueueIsJournaled, Running, Fresh
  <1>8. CASE Transfer(h)
    <2>1. /\ UNCHANGED <<active, starts, run, prompted>> /\ nextTask \in Tasks
          /\ pending' = [pending EXCEPT ![nextTask] = local[h].turns]
          /\ local'[h].turns = local[h].turns /\ Starting(h)
          /\ \A g \in Hosts \ {h} : pc'[g] = pc[g] /\ local'[g] = local[g]
      BY <1>8 DEF Transfer, TypeOK, Local, Goto, workerVars, historyVars, Starting
    <2>2. active \in Tasks => pending'[active] = pending[active]
      BY <1>2, <2>1
    <2>3. \A g \in Hosts : ~Running(g)'
      BY <1>4, <2>1, OthersDoNotOwn DEF Running, LeaseHeld
    <2>4. \A g \in Hosts : Starting(g)' => Starting(g) /\ local'[g].turns = local[g].turns
      BY <2>1 DEF Starting
    <2> QED BY <2>1, <2>2, <2>3, <2>4 DEF WaitingTurns, QueueIsJournaled, Fresh
  <1>9. CASE Restart(h) \/ CreateTask(h)
    <2> DEFINE first == Head(local[h].turns)
               rest == Tail(local[h].turns)
    <2>1. Starting(h)
      BY <1>9 DEF Restart, CreateTask, Starting
    <2>2. /\ first \in Turns /\ rest \in Seq(Turns) /\ Distinct(rest)
          /\ first \in ElementsOf(local[h].turns)
          /\ ElementsOf(rest) = ElementsOf(local[h].turns) \ {first}
          /\ starts' = [starts EXCEPT ![first] = @ + 1]
      BY <1>9, <2>1, FirstTurnStarts, TailElements DEF WaitingTurns
    <2>3. starts[first] = 0 /\ first \in prompted /\ Fresh(ElementsOf(local[h].turns), prompted, starts)
      BY <2>1, <2>2 DEF WaitingTurns, Fresh
    <2> HIDE DEF first, rest
    <2>4. /\ prompted' = prompted /\ \A g \in Hosts \ {h} : pc'[g] = pc[g]
          /\ pc'[h] = "idle"
      BY <1>9 DEF Restart, CreateTask, Return, Goto, historyVars, TypeOK
    <2>5. \A g \in Hosts : ~Starting(g)' /\ (g # h => ~Running(g)')
      <3>1. \A g \in Hosts \ {h} : run'[g] = run[g] /\ ~Running(g) /\ ~Starting(g)
        BY <1>4, <1>9, <2>1, OthersDoNotOwn, RestartRun, CreateTaskRun
      <3> QED BY <2>4, <3>1 DEF Running, Starting
    <2>6. \A t \in Turns : starts'[t] <= 1 /\ (starts'[t] > 0 => t \in prompted')
      BY <1>2, <2>2, <2>3, <2>4 DEF WaitingTurns
    <2>7. Fresh(ElementsOf(rest), prompted', starts')
      <3>1. \A t \in ElementsOf(rest) : t \in Turns /\ t # first /\ starts[t] = 0 /\ t \in prompted
        BY <1>2, <2>2, <2>3 DEF Fresh
      <3> QED BY <1>2, <2>2, <2>4, <3>1 DEF Fresh
    <2>8. TracedTurns(<<>>) = {} /\ DistinctTurns(<<>>) /\ Distinct(<<>>) /\ ElementsOf(<<>>) = {}
      BY DEF TracedTurns, DistinctTurns, Distinct, ElementsOf
    <2>9. CASE Restart(h)
      <3>1. local[h].task \in Tasks
        BY <2>9 DEF Restart, TypeOK
      <3>2. active' = local[h].task /\ pending' = [pending EXCEPT ![local[h].task] = rest]
        BY <2>9 DEF Restart, rest
      <3>3. pending'[local[h].task] = rest
        BY <1>2, <3>1, <3>2
      <3>4. run'[h].task = local[h].task /\ run'[h].queue = rest /\ run'[h].trace = <<>>
        BY <2>9, RestartRun DEF rest
      <3>5. QueueIsJournaled(h)'
        BY <2>2, <2>8, <3>3, <3>4 DEF QueueIsJournaled
      <3> QED BY <2>2, <2>5, <2>6, <2>7, <3>2, <3>3, <3>5 DEF WaitingTurns, QueueIsJournaled
    <2>10. CASE CreateTask(h)
      <3>1. nextTask \in Tasks /\ active' = nextTask /\ pending' = pending
        BY <2>10 DEF CreateTask
      <3>2. pending[nextTask] = <<>>
        <4>1. nextTask >= nextTask
          BY <1>2
        <4> QED BY <3>1, <4>1 DEF ActiveIsOpen
      <3>3. run'[h].task = nextTask /\ run'[h].queue = <<>> /\ run'[h].trace = <<>>
        BY <2>10, CreateTaskRun
      <3>4. QueueIsJournaled(h)'
        BY <2>8, <3>1, <3>2, <3>3 DEF QueueIsJournaled
      <3> QED BY <2>5, <2>6, <2>8, <3>1, <3>2, <3>4 DEF WaitingTurns, QueueIsJournaled, Fresh
    <2> QED BY <1>9, <2>9, <2>10
  <1>10. ASSUME Running(h),
                UNCHANGED <<active, pc, local>>, \A g \in Hosts \ {h} : run'[g] = run[g],
                \A t \in Turns : starts'[t] <= 1 /\ (starts'[t] > 0 => t \in prompted'),
                active \in Tasks => Distinct(pending'[active]) /\ Fresh(ElementsOf(pending'[active]), prompted', starts'),
                QueueIsJournaled(h)'
         PROVE  WaitingTurns'
    <2>1. \A g \in Hosts : ~Starting(g)' /\ (g # h => ~Running(g)')
      <3>1. Owns(h) /\ \A g \in Hosts \ {h} : ~Owns(g)
        BY <1>4, <1>10, OthersDoNotOwn
      <3>2. ~Starting(h)
        BY <1>10 DEF LeaseHeld, Running
      <3> QED BY <1>10, <3>1, <3>2 DEF Starting, Running, Owns
    <2> QED BY <1>10, <2>1 DEF WaitingTurns, QueueIsJournaled
  <1>11. /\ \A t \in Turns : starts[t] <= 1 /\ (starts[t] > 0 => t \in prompted)
         /\ Running(h) =>
               /\ run[h].task = active /\ active \in Tasks
               /\ run[h].queue \in Seq(Turns) /\ run[h].trace \in Seq(TraceEvent)
               /\ Distinct(pending[active]) /\ Fresh(ElementsOf(pending[active]), prompted, starts)
               /\ Distinct(run[h].queue) /\ DistinctTurns(run[h].trace)
               /\ TracedTurns(run[h].trace) \cap ElementsOf(run[h].queue) = {}
               /\ ElementsOf(pending[active]) = TracedTurns(run[h].trace) \cup ElementsOf(run[h].queue)
    BY DEF WaitingTurns, QueueIsJournaled, ActiveIsOpen, TypeOK, Run
  <1>12. ASSUME Running(h),
                UNCHANGED <<active, pc, local, starts, pending, prompted>>,
                \A g \in Hosts \ {h} : run'[g] = run[g], QueueIsJournaled(h)'
         PROVE  WaitingTurns'
    <2>1. \A t \in Turns : starts'[t] <= 1 /\ (starts'[t] > 0 => t \in prompted')
      BY <1>11, <1>12
    <2>2. Distinct(pending'[active]) /\ Fresh(ElementsOf(pending'[active]), prompted', starts')
      BY <1>11, <1>12 DEF Fresh
    <2> QED BY <1>10, <1>12, <2>1, <2>2
  <1>13. ASSUME NEW t \in Turns, QueueTurn(h, t) PROVE WaitingTurns'
    <2>1. /\ Running(h) /\ UNCHANGED <<active, pc, local, starts>> /\ t \notin prompted
          /\ prompted' = prompted \cup {t}
          /\ pending' = [pending EXCEPT ![active] = Append(pending[active], t)]
      <3>1. Running(h) /\ run[h].stage = "loop"
        BY <1>13 DEF QueueTurn, Running
      <3> QED BY <1>2, <1>11, <1>13, <3>1 DEF QueueTurn, handlerVars
    <2>2. pending'[active] = Append(pending[active], t) /\ pending[active] \in Seq(Turns)
      BY <1>2, <1>11, <2>1
    <2>3. t \notin ElementsOf(pending[active])
      BY <1>11, <2>1 DEF Fresh
    <2>4. Distinct(pending'[active]) /\ ElementsOf(pending'[active]) = ElementsOf(pending[active]) \cup {t}
      BY <1>11, <2>1, <2>2, <2>3, AppendElements
    <2>5. Fresh(ElementsOf(pending'[active]), prompted', starts')
      BY <1>3, <1>11, <2>1, <2>4 DEF Fresh
    <2>6. /\ \A g \in Hosts \ {h} : run'[g] = run[g]
          /\ run'[h].queue = Append(run[h].queue, t) /\ run'[h].trace = run[h].trace
          /\ run'[h].task = run[h].task
      BY <1>13, QueueTurnRun
    <2>7. /\ Distinct(run'[h].queue)
          /\ ElementsOf(run'[h].queue) = ElementsOf(run[h].queue) \cup {t}
      BY <1>11, <2>1, <2>3, <2>6, AppendElements
    <2>8. QueueIsJournaled(h)'
      BY <1>11, <2>1, <2>3, <2>4, <2>6, <2>7 DEF QueueIsJournaled
    <2>9. \A u \in Turns : starts'[u] <= 1 /\ (starts'[u] > 0 => u \in prompted')
      BY <1>11, <2>1
    <2> QED BY <1>10, <2>1, <2>4, <2>5, <2>6, <2>8, <2>9
  <1>14. ASSUME NEW t \in Turns, CancelTurn(h, t) PROVE WaitingTurns'
    <2>1. /\ Running(h) /\ UNCHANGED <<active, pc, local, starts, prompted>>
          /\ t \in ElementsOf(run[h].queue)
          /\ pending' = [pending EXCEPT ![active] = Without(pending[active], t)]
      <3>1. Running(h)
        BY <1>14 DEF CancelTurn
      <3> QED BY <1>2, <1>11, <1>14, <3>1 DEF CancelTurn, handlerVars, historyVars
    <2>2. pending'[active] = Without(pending[active], t) /\ pending[active] \in Seq(Turns)
      BY <1>2, <1>11, <2>1
    <2>3. Distinct(pending'[active]) /\ ElementsOf(pending'[active]) = ElementsOf(pending[active]) \ {t}
      BY <1>11, <2>1, <2>2, WithoutElements
    <2>4. Fresh(ElementsOf(pending'[active]), prompted', starts')
      BY <1>11, <2>1, <2>3 DEF Fresh
    <2>5. /\ \A g \in Hosts \ {h} : run'[g] = run[g]
          /\ run'[h].queue = Without(run[h].queue, t) /\ run'[h].trace = run[h].trace
          /\ run'[h].task = run[h].task
      BY <1>14, CancelTurnRun
    <2>6. /\ Distinct(run'[h].queue)
          /\ ElementsOf(run'[h].queue) = ElementsOf(run[h].queue) \ {t}
      BY <1>11, <2>1, <2>5, WithoutElements
    <2>7. QueueIsJournaled(h)'
      BY <1>11, <2>1, <2>3, <2>5, <2>6 DEF QueueIsJournaled
    <2>8. \A u \in Turns : starts'[u] <= 1 /\ (starts'[u] > 0 => u \in prompted')
      BY <1>11, <2>1
    <2> QED BY <1>10, <2>1, <2>3, <2>4, <2>5, <2>7, <2>8
  <1>15. CASE Abort(h)
    <2>1. Running(h) /\ UNCHANGED <<active, pc, local, starts, pending, prompted>>
      BY <1>15 DEF Abort, handlerVars, historyVars
    <2>2. /\ \A g \in Hosts \ {h} : run'[g] = run[g]
          /\ run'[h].task = run[h].task /\ run'[h].queue = run[h].queue /\ run'[h].trace = run[h].trace
      BY <1>15, ClosingRun DEF Abort
    <2>3. QueueIsJournaled(h)'
      BY <1>11, <2>1, <2>2 DEF QueueIsJournaled
    <2> QED BY <1>12, <2>1, <2>2, <2>3
  <1>16. CASE Works(h)
    <2>1. /\ UNCHANGED <<active, pc, local, starts, pending, prompted>> /\ Running(h)
          /\ \A g \in Hosts \ {h} : run'[g] = run[g]
          /\ run'[h].task = run[h].task
      BY <1>16, WorksFrame
    <2>2. CASE TakeTurn(h)
      <3> DEFINE t == Head(run[h].queue)
                 e == TurnEvent(t)
      <3>1. run[h].queue # <<>> /\ run'[h].queue = Tail(run[h].queue)
            /\ run'[h].trace = Append(run[h].trace, e)
        BY <2>2, TakeTurnRun DEF TakeTurn
      <3>2. /\ t \in ElementsOf(run[h].queue) /\ t \in Turns /\ Distinct(run'[h].queue)
            /\ ElementsOf(run'[h].queue) = ElementsOf(run[h].queue) \ {t}
        BY <1>11, <2>1, <3>1, TailElements
      <3>3. e \in TraceEvent /\ e.kind = "turn" /\ e.turn = t
        BY <3>2, ConstantTypes DEF TurnEvent
      <3>4. t \notin TracedTurns(run[h].trace)
        BY <1>11, <2>1, <3>2
      <3> HIDE DEF t, e
      <3>5. /\ TracedTurns(run'[h].trace) = TracedTurns(run[h].trace) \cup {t}
            /\ DistinctTurns(run'[h].trace)
        BY <1>11, <2>1, <3>1, <3>3, <3>4, TraceAppend
      <3>6. QueueIsJournaled(h)'
        BY <1>11, <2>1, <3>2, <3>4, <3>5 DEF QueueIsJournaled
      <3> QED BY <1>12, <2>1, <3>6
    <2>3. ASSUME NEW k \in ToolKind \cup {"done"}, run'[h].queue = run[h].queue,
                 run'[h].trace = Append(run[h].trace, ToolEvent(k))
          PROVE  WaitingTurns'
      <3>1. ToolEvent(k) \in TraceEvent /\ ToolEvent(k).kind # "turn"
        BY ConstantTypes, ToolKindAssumption DEF ToolEvent
      <3>2. /\ TracedTurns(run'[h].trace) = TracedTurns(run[h].trace)
            /\ DistinctTurns(run'[h].trace)
        BY <1>11, <2>1, <2>3, <3>1, TraceAppend
      <3>3. QueueIsJournaled(h)'
        BY <1>11, <2>1, <2>3, <3>2 DEF QueueIsJournaled
      <3> QED BY <1>12, <2>1, <3>3
    <2>4. CASE FinishTool(h) \/ \E k \in ToolKind : StartTool(h, k)
      BY <2>3, <2>4, FinishToolRun, StartToolRun
    <2>5. CASE Execute(h) \/ LoopEnds(h) \/ LoopFails(h)
      <3>1. run'[h].queue = run[h].queue /\ run'[h].trace = run[h].trace
        BY <2>5, ExecuteRun, ClosingRun DEF LoopEnds, LoopFails
      <3>2. QueueIsJournaled(h)'
        BY <1>11, <2>1, <3>1 DEF QueueIsJournaled
      <3> QED BY <1>12, <2>1, <3>2
    <2> QED BY <1>16, <2>2, <2>4, <2>5 DEF Works
  <1>17. CASE RecordTrace(h)
    <2> DEFINE e == Head(run[h].trace)
    <2>1. /\ Running(h) /\ run[h].trace # <<>> /\ UNCHANGED <<pc, local, prompted>>
          /\ AppendTraceEvent(run[h].task, e)
      BY <1>17 DEF RecordTrace, handlerVars, historyVars
    <2>2. /\ \A g \in Hosts \ {h} : run'[g] = run[g]
          /\ run'[h].task = run[h].task /\ run'[h].queue = run[h].queue
          /\ run'[h].trace = Tail(run[h].trace)
      BY <1>17, RecordTraceRun
    <2>3. /\ DistinctTurns(run'[h].trace)
          /\ e.kind # "turn" => TracedTurns(run'[h].trace) = TracedTurns(run[h].trace)
          /\ e.kind = "turn" =>
                /\ e.turn \in TracedTurns(run[h].trace)
                /\ TracedTurns(run'[h].trace) = TracedTurns(run[h].trace) \ {e.turn}
      BY <1>11, <2>1, <2>2, TraceTail
    <2> HIDE DEF e
    <2>4. CASE e.kind # "turn"
      <3>1. UNCHANGED <<active, starts, pending>>
        BY <2>1, <2>4 DEF AppendTraceEvent
      <3>2. QueueIsJournaled(h)'
        BY <1>11, <2>1, <2>2, <2>3, <2>4, <3>1 DEF QueueIsJournaled
      <3> QED BY <1>12, <2>1, <2>2, <3>1, <3>2
    <2>5. CASE e.kind = "turn"
      <3>1. /\ active' = active /\ starts' = [starts EXCEPT ![e.turn] = @ + 1]
            /\ pending' = [pending EXCEPT ![active] = Without(pending[active], e.turn)]
        BY <1>2, <1>11, <2>1, <2>5 DEF AppendTraceEvent
      <3>2. pending'[active] = Without(pending[active], e.turn) /\ pending[active] \in Seq(Turns)
        BY <1>2, <1>11, <2>1, <3>1
      <3>3. /\ Distinct(pending'[active])
            /\ ElementsOf(pending'[active]) = ElementsOf(pending[active]) \ {e.turn}
        BY <1>11, <2>1, <3>2, WithoutElements
      <3>4. e.turn \in ElementsOf(pending[active]) /\ e.turn \notin ElementsOf(run[h].queue)
        BY <1>11, <2>1, <2>3, <2>5
      <3>5. e.turn \in prompted /\ e.turn \in Turns /\ starts[e.turn] = 0
        BY <1>2, <1>11, <2>1, <3>4 DEF Fresh
      <3>6. \A u \in Turns : starts'[u] <= 1 /\ (starts'[u] > 0 => u \in prompted')
        BY <1>2, <1>11, <2>1, <3>1, <3>5
      <3>7. Fresh(ElementsOf(pending'[active]), prompted', starts')
        <4>1. \A u \in ElementsOf(pending'[active]) : u \in Turns /\ u # e.turn /\ u \in prompted /\ starts[u] = 0
          BY <1>2, <1>11, <2>1, <3>3 DEF Fresh
        <4> QED BY <1>2, <2>1, <3>1, <4>1 DEF Fresh
      <3>8. QueueIsJournaled(h)'
        BY <1>11, <2>1, <2>2, <2>3, <2>5, <3>3, <3>4 DEF QueueIsJournaled
      <3> QED BY <1>10, <2>1, <2>2, <3>1, <3>3, <3>6, <3>7, <3>8
    <2> QED BY <2>4, <2>5
  <1>18. CASE Finish(h) \/ ClearControl(h) \/ Crash(h)
    <2>1. UNCHANGED <<active, starts, pending, prompted>>
      BY <1>18 DEF Finish, ClearControl, Crash, ledgerVars, historyVars
    <2>2. \A g \in Hosts : Starting(g)' => Starting(g) /\ local'[g] = local[g]
      BY <1>18 DEF Finish, ClearControl, Crash, Starting, Goto, handlerVars, TypeOK
    <2>3. \A g \in Hosts : Running(g)' => run'[g] = run[g]
      BY <1>18, FinishRun, RunGone DEF Running
    <2> QED BY <2>1, <2>2, <2>3 DEF WaitingTurns, QueueIsJournaled, Running, Fresh
  <1> QED BY <1>1, <1>5, <1>6, <1>7, <1>8, <1>9, <1>13, <1>14, <1>15, <1>16, <1>17, <1>18

\* What holds without races, together.
CalmInv ==
    /\ LeaseHeld /\ TasksInUse /\ Calm /\ ActiveIsOpen /\ OneTerminalFact
    /\ OrphansBlock /\ WaitingTurns

\* The invariants of the race-free session hold at the start.
LEMMA CalmInvInit == Init => CalmInv
  <1> SUFFICES ASSUME Init PROVE CalmInv
    OBVIOUS
  <1>1. NoRun.stage = "none" /\ NoLate.trace = <<>>
    BY DEF NoRun, NoLate
  <1>2. /\ \A h \in Hosts : ~Running(h) /\ ~Starting(h) /\ ~Owns(h) /\ pc[h] = "off"
        /\ \A h \in Hosts : run[h].stage = "none" /\ late[h].trace = <<>>
    BY <1>1 DEF Init, Running, Starting, Owns
  <1>3. Len(<<>>) = 0
    OBVIOUS
  <1> QED BY <1>2, <1>3
          DEF Init, CalmInv, LeaseHeld, TasksInUse, LateIsOver, Calm, ActiveIsOpen, OneTerminalFact,
              OrphansBlock, Blocked, WaitingTurns, QueueIsJournaled, NoTask, Tasks, ActiveStatus

\* Every step keeps the invariants of the race-free session.
LEMMA CalmInvStep ==
    ASSUME NoRaces PROVE TypeInv /\ CalmInv /\ [Next]_vars => CalmInv'
  BY LeaseStep, TasksInUseStep, CalmStep, ActiveIsOpenStep, OrphansBlockStep, WaitingTurnsStep
  DEF CalmInv

\* Without races, whatever crashes, recoveries, transfers and reconciliations
\* happen, no turn is started twice and no task gets two terminal facts.
THEOREM LedgerSaysItOnce ==
    ASSUME NoRaces PROVE Spec => []SaidOnce
  <1>1. CalmInv => SaidOnce
    BY DEF CalmInv, WaitingTurns, SaidOnce, StartedOnce
  <1> QED BY <1>1, TypeInvInit, TypeStep, CalmInvInit, CalmInvStep, PTL DEF Spec

\* Without races, a task that died with a side effect under way keeps the
\* session until somebody reconciles it.
THEOREM OrphansKeepTheSession ==
    ASSUME NoRaces PROVE Spec => []UnreconciledBlocks
  <1>1. TypeInv /\ CalmInv => UnreconciledBlocks
    BY DEF TypeInv, TypeOK, CalmInv, OrphansBlock, Blocked, UnreconciledBlocks
  <1> QED BY <1>1, TypeInvInit, TypeStep, CalmInvInit, CalmInvStep, PTL DEF Spec

\* Without races, at every instant the ledger's queue of a running task holds
\* exactly the turns its loop has not durably started, so that a crash loses
\* none and recovers none twice.
THEOREM QueuesAreJournaled ==
    ASSUME NoRaces PROVE Spec => [](\A h \in Hosts : QueueIsJournaled(h))
  <1>1. CalmInv => \A h \in Hosts : QueueIsJournaled(h)
    BY DEF CalmInv, WaitingTurns
  <1> QED BY <1>1, TypeInvInit, TypeStep, CalmInvInit, CalmInvStep, PTL DEF Spec

-----------------------------------------------------------------------------
(* The order of the queued turns *)

\* A nonempty set of numbers has a least one: what induction over the positions
\* of a sequence rests on.
LEMMA Least ==
    ASSUME NEW T \in SUBSET Nat, T # {}
    PROVE  \E n \in T : \A m \in T : n <= m
  <1>1. PICK n \in T : \A m \in T : ~(<<m, n>> \in OpToRel(<, Nat))
    BY NatLessThanWellFounded, WFMin
  <1>2. \A m \in T : ~(m < n)
    BY <1>1 DEF OpToRel
  <1>3. n \in Nat /\ \A m \in T : m \in Nat
    OBVIOUS
  <1> QED BY <1>2, <1>3

\* Positions from the first on that each pass on being in T are in T.
LEMMA FromTheStart ==
    ASSUME NEW n \in Nat, NEW T, 0 \in T, \A m \in 1..n : m - 1 \in T => m \in T
    PROVE  \A m \in 0..n : m \in T
  <1> DEFINE U == {m \in 0..n : m \notin T}
  <1>1. SUFFICES ASSUME U # {} PROVE FALSE
    OBVIOUS
  <1>2. U \in SUBSET Nat
    OBVIOUS
  <1>3. PICK m \in U : \A k \in U : m <= k
    BY <1>1, <1>2, Least
  <1>4. m \in 1..n /\ m - 1 \in 0..n /\ m - 1 < m
    BY <1>3
  <1>5. m - 1 \notin U
    BY <1>3, <1>4
  <1> QED BY <1>3, <1>4, <1>5

\* f holds the turns of the first n events of a trace, for each n.
Takes(s, f, n) == f = [m \in 0..n |-> IF m = 0 THEN <<>> ELSE WithTurn(f[m - 1], s[m])]

\* The turns of every trace can be taken one after the other.
LEMMA TakesExist ==
    ASSUME NEW s, NEW n \in Nat
    PROVE  \E f : Takes(s, f, n)
  <1> DEFINE T == {k \in Nat : ~\E f : Takes(s, f, k)}
  <1>1. SUFFICES ASSUME T # {} PROVE FALSE
    OBVIOUS
  <1>2. PICK k \in T : \A j \in T : k <= j
    BY <1>1, Least
  <1>3. CASE k = 0
    <2> DEFINE g == [m \in 0..0 |-> <<>>]
    <2>1. g = [m \in 0..0 |-> IF m = 0 THEN <<>> ELSE WithTurn(g[m - 1], s[m])]
      OBVIOUS
    <2> HIDE DEF g
    <2> QED BY <1>2, <1>3, <2>1 DEF Takes
  <1>4. CASE k # 0
    <2>1. k - 1 \in Nat /\ k - 1 \notin T
      BY <1>2, <1>4
    <2>2. PICK f : Takes(s, f, k - 1)
      BY <2>1
    <2> DEFINE g == [m \in 0..k |-> IF m = 0 THEN <<>> ELSE WithTurn(f[m - 1], s[m])]
    <2>3. \A m \in 0..(k - 1) : g[m] = f[m]
      BY <2>1, <2>2 DEF Takes
    <2>4. \A m \in 0..k : m = 0 \/ m - 1 \in 0..(k - 1)
      BY <1>2
    <2>5. g = [m \in 0..k |-> IF m = 0 THEN <<>> ELSE WithTurn(g[m - 1], s[m])]
      BY <2>3, <2>4
    <2> HIDE DEF g
    <2> QED BY <1>2, <2>5 DEF Takes
  <1> QED BY <1>3, <1>4

\* TakenTurns are the turns of all events.
LEMMA TakenIsTaken ==
    ASSUME NEW s, NEW n \in Nat, n = Len(s)
    PROVE  \E f : /\ f[0] = <<>> /\ \A m \in 1..n : f[m] = WithTurn(f[m - 1], s[m])
                  /\ TakenTurns(s) = f[n]
  <1> DEFINE f == CHOOSE g : Takes(s, g, Len(s))
  <1>1. \E g : Takes(s, g, Len(s))
    BY TakesExist
  <1>2. Takes(s, f, Len(s))
    BY <1>1, Zenon
  <1>3. TakenTurns(s) = f[Len(s)]
    BY DEF TakenTurns, Takes
  <1> HIDE DEF f
  <1>4. f[0] = <<>> /\ \A m \in 1..n : f[m] = WithTurn(f[m - 1], s[m])
    BY <1>2 DEF Takes
  <1> QED BY <1>3, <1>4

\* The turns of a trace are turns.
LEMMA TakenType ==
    ASSUME NEW s \in Seq(TraceEvent)
    PROVE  TakenTurns(s) \in Seq(Turns)
  <1>1. PICK n \in Nat : n = Len(s) /\ \A m \in 1..n : s[m] \in TraceEvent
    OBVIOUS
  <1>2. PICK f : /\ f[0] = <<>> /\ \A m \in 1..n : f[m] = WithTurn(f[m - 1], s[m])
                 /\ TakenTurns(s) = f[n]
    BY <1>1, TakenIsTaken
  <1> DEFINE S == Seq(Turns)
             T == {m \in 0..n : f[m] \in S}
  <1>3. 0 \in T
    <2>1. f[0] \in S
      BY <1>2
    <2> HIDE DEF S
    <2> QED BY <2>1
  <1>4. \A e \in TraceEvent : e.kind = "turn" => e.turn \in Turns
    BY ToolKindAssumption DEF TraceEvent
  <1>5. \A u \in Seq(Turns), e \in TraceEvent : WithTurn(u, e) \in Seq(Turns)
    BY <1>4 DEF WithTurn
  <1>6. \A m \in 1..n : m - 1 \in T => m \in T
    <2>1. \A u \in S, e \in TraceEvent : WithTurn(u, e) \in S
      BY <1>5
    <2> HIDE DEF S
    <2> QED BY <1>1, <1>2, <2>1
  <1> HIDE DEF T
  <1>7. \A m \in 0..n : m \in T
    BY <1>3, <1>6, FromTheStart, ZenonT(60)
  <1> QED BY <1>2, <1>7 DEF T

\* An empty trace has no turns, and one more event adds its turn.
LEMMA TakenAppend ==
    /\ TakenTurns(<<>>) = <<>>
    /\ \A s \in Seq(TraceEvent), e \in TraceEvent :
           TakenTurns(Append(s, e)) = WithTurn(TakenTurns(s), e)
  <1>1. TakenTurns(<<>>) = <<>>
    <2>1. 0 \in Nat /\ 0 = Len(<<>>)
      OBVIOUS
    <2> QED BY <2>1, TakenIsTaken
  <1>2. ASSUME NEW s \in Seq(TraceEvent), NEW e \in TraceEvent
        PROVE  TakenTurns(Append(s, e)) = WithTurn(TakenTurns(s), e)
    <2>1. PICK n \in Nat : n = Len(s)
      OBVIOUS
    <2>2. PICK t : t = Append(s, e)
      OBVIOUS
    <2>3. n + 1 \in Nat /\ n + 1 = Len(t) /\ t[n + 1] = e /\ \A m \in 1..n : t[m] = s[m]
      BY <2>1, <2>2
    <2>4. PICK f : /\ f[0] = <<>> /\ \A m \in 1..n : f[m] = WithTurn(f[m - 1], s[m])
                   /\ TakenTurns(s) = f[n]
      BY <2>1, TakenIsTaken
    <2>5. PICK g : /\ g[0] = <<>> /\ \A m \in 1..(n + 1) : g[m] = WithTurn(g[m - 1], t[m])
                   /\ TakenTurns(t) = g[n + 1]
      BY <2>3, TakenIsTaken
    <2> DEFINE T == {m \in 0..n : f[m] = g[m]}
    <2>6. 0 \in T
      BY <2>4, <2>5
    <2>7. \A m \in 1..n : m - 1 \in T => m \in T
      BY <2>3, <2>4, <2>5
    <2> HIDE DEF T
    <2>8. \A m \in 0..n : m \in T
      BY <2>6, <2>7, FromTheStart, ZenonT(60)
    <2>9. f[n] = g[n]
      BY <2>8 DEF T
    <2>10. g[n + 1] = WithTurn(g[n], e)
      BY <2>3, <2>5
    <2> QED BY <2>2, <2>4, <2>5, <2>9, <2>10
  <1> QED BY <1>1, <1>2

\* Without its first event a trace has the turns of the others.
LEMMA TakenTail ==
    ASSUME NEW s \in Seq(TraceEvent), s # <<>>
    PROVE  TakenTurns(s) = WithTurn(<<>>, Head(s)) \o TakenTurns(Tail(s))
  <1>1. PICK n \in Nat : n = Len(Tail(s)) /\ n + 1 = Len(s)
    OBVIOUS
  <1>2. PICK r : r = Tail(s)
    OBVIOUS
  <1>3. PICK a : a = WithTurn(<<>>, Head(s))
    OBVIOUS
  <1>4. /\ n = Len(r) /\ Head(s) = s[1] /\ \A m \in 1..n : r[m] = s[m + 1] /\ r[m] \in TraceEvent
        /\ r \in Seq(TraceEvent) /\ s[1] \in TraceEvent
    BY <1>1, <1>2
  <1>5. \A e \in TraceEvent : e.kind = "turn" => e.turn \in Turns
    BY ToolKindAssumption DEF TraceEvent
  <1>6. a \in Seq(Turns)
    BY <1>3, <1>4, <1>5 DEF WithTurn
  <1>7. n + 1 \in Nat
    OBVIOUS
  <1>8. PICK f : /\ f[0] = <<>> /\ \A m \in 1..(n + 1) : f[m] = WithTurn(f[m - 1], s[m])
                 /\ TakenTurns(s) = f[n + 1]
    BY <1>1, <1>7, TakenIsTaken
  <1>9. PICK g : /\ g[0] = <<>> /\ \A m \in 1..n : g[m] = WithTurn(g[m - 1], r[m])
                 /\ TakenTurns(r) = g[n]
    BY <1>4, TakenIsTaken
  <1> DEFINE S == Seq(Turns)
             T == {m \in 0..n : g[m] \in S /\ f[m + 1] = a \o g[m]}
  <1>10. 0 \in T
    <2>1. f[1] = WithTurn(<<>>, s[1])
      BY <1>8
    <2>2. f[1] = a /\ a \o <<>> = a
      BY <1>3, <1>4, <1>6, <2>1
    <2>3. g[0] \in S /\ f[0 + 1] = a \o g[0]
      BY <1>9, <2>2
    <2> HIDE DEF S
    <2> QED BY <2>3
  <1>11. ASSUME NEW m \in 1..n, m - 1 \in T PROVE m \in T
    <2>1. g[m - 1] \in Seq(Turns) /\ f[m] = a \o g[m - 1]
      BY <1>11
    <2>2. g[m] = WithTurn(g[m - 1], r[m]) /\ f[m + 1] = WithTurn(f[m], r[m])
      <3>1. m + 1 \in 1..(n + 1) /\ (m + 1) - 1 = m
        OBVIOUS
      <3> QED BY <1>4, <1>8, <1>9, <3>1
    <2>3. r[m] \in TraceEvent
      BY <1>4
    <2>4. \A u \in Seq(Turns), e \in TraceEvent :
              WithTurn(u, e) \in Seq(Turns) /\ WithTurn(a \o u, e) = a \o WithTurn(u, e)
      <3> SUFFICES ASSUME NEW u \in Seq(Turns), NEW e \in TraceEvent
                   PROVE  WithTurn(u, e) \in Seq(Turns) /\ WithTurn(a \o u, e) = a \o WithTurn(u, e)
        OBVIOUS
      <3>1. \A t \in Turns : Append(u, t) \in Seq(Turns) /\ Append(a \o u, t) = a \o Append(u, t)
        BY <1>6
      <3> QED BY <1>5, <3>1 DEF WithTurn
    <2>5. g[m] \in Seq(Turns) /\ f[m + 1] = a \o g[m]
      BY <2>1, <2>2, <2>3, <2>4
    <2> QED BY <2>5
  <1> HIDE DEF T
  <1>12. \A m \in 1..n : m - 1 \in T => m \in T
    BY <1>11
  <1>13. \A m \in 0..n : m \in T
    BY <1>10, <1>12, FromTheStart, ZenonT(60)
  <1>14. f[n + 1] = a \o g[n]
    BY <1>13 DEF T
  <1> QED BY <1>2, <1>3, <1>8, <1>9, <1>14

\* The ledger's queue of a running task is in the order in which its loop takes
\* and has taken the turns.
QueueInOrder(h) ==
    Running(h) => pending[run[h].task] = TakenTurns(run[h].trace) \o run[h].queue
OrderInv == \A h \in Hosts : QueueInOrder(h)

\* Every step keeps the ledger's queue in the order of the loop.
LEMMA OrderStep ==
    ASSUME NoRaces
    PROVE  TypeInv /\ CalmInv /\ OrderInv /\ [Next]_vars => OrderInv'
  <1> SUFFICES ASSUME TypeOK, Grounded, LeaseHeld, TasksInUse, Calm, ActiveIsOpen, WaitingTurns,
                      OrderInv, Next
               PROVE  OrderInv'
    BY DEF TypeInv, CalmInv, OrderInv, QueueInOrder, Running, vars, ledgerVars, workerVars
  <1>1. PICK h \in Hosts :
            \/ Reads(h) \/ RecoverLease(h) \/ (\E t \in Turns : PromptLease(h, t))
            \/ Reconcile(h) \/ Transfer(h) \/ Restart(h) \/ CreateTask(h)
            \/ (\E t \in Turns : QueueTurn(h, t) \/ CancelTurn(h, t)) \/ Abort(h)
            \/ Works(h) \/ RecordTrace(h) \/ Finish(h) \/ ClearControl(h) \/ Crash(h)
    BY NextShapes
  <1>2. /\ nextTask \in Nat /\ active \in Nat /\ \A k \in Tasks : k \in Nat
        /\ pending \in [Tasks -> Seq(Turns)] /\ prompted \subseteq Turns
    BY MaxTasksAssumption DEF TypeOK, Tasks, NoTask
  <1>3. \A g \in Hosts : (Running(g) => Owns(g)) /\ (Starting(g) => Owns(g))
    BY DEF Running, Owns
  <1>4. CASE UNCHANGED <<pending, run>>
    BY <1>4 DEF OrderInv, QueueInOrder, Running
  <1>5. CASE Reads(h) \/ RecoverLease(h) \/ (\E t \in Turns : PromptLease(h, t)) \/ Reconcile(h)
    BY <1>4, <1>5, ReadsFrame, LeaseTaken, ReconcileShape
  <1>6. ASSUME \A g \in Hosts \ {h} : run'[g] = run[g] /\ ~Owns(g), QueueInOrder(h)'
        PROVE  OrderInv'
    BY <1>3, <1>6 DEF OrderInv, QueueInOrder, Running
  <1>7. CASE Transfer(h)
    <2>1. Starting(h) /\ run' = run
      BY <1>7 DEF Transfer, Starting, workerVars
    <2>2. ~Running(h)
      BY <2>1 DEF LeaseHeld, Running
    <2> QED BY <1>3, <1>6, <2>1, <2>2, OthersDoNotOwn DEF QueueInOrder, Running
  <1>8. CASE Restart(h) \/ CreateTask(h)
    <2>1. Starting(h) /\ \A g \in Hosts \ {h} : run'[g] = run[g]
      BY <1>8, RestartRun, CreateTaskRun DEF Restart, CreateTask, Starting
    <2>2. \A q \in Seq(Turns) : TakenTurns(<<>>) \o q = q
      BY TakenAppend, JoinedQueues
    <2>3. CASE Restart(h)
      <3>1. PICK q \in Seq(Turns) : q = Tail(local[h].turns)
        BY <2>3, FirstTurnStarts
      <3>2. local[h].task \in Tasks /\ pending' = [pending EXCEPT ![local[h].task] = q]
        BY <2>3, <3>1 DEF Restart, TypeOK
      <3>3. pending'[local[h].task] = q
        BY <1>2, <3>2
      <3>4. run'[h].task = local[h].task /\ run'[h].queue = q /\ run'[h].trace = <<>>
        BY <2>3, <3>1, RestartRun
      <3>5. QueueInOrder(h)'
        BY <2>2, <3>3, <3>4 DEF QueueInOrder
      <3> QED BY <1>3, <1>6, <2>1, <3>5, OthersDoNotOwn
    <2>4. CASE CreateTask(h)
      <3>1. nextTask \in Tasks /\ pending' = pending
        BY <2>4 DEF CreateTask
      <3>2. pending[nextTask] = <<>>
        <4>1. nextTask >= nextTask
          BY <1>2
        <4> QED BY <3>1, <4>1 DEF ActiveIsOpen
      <3>3. run'[h].task = nextTask /\ run'[h].queue = <<>> /\ run'[h].trace = <<>>
        BY <2>4, CreateTaskRun
      <3>4. TakenTurns(<<>>) \o <<>> = <<>>
        <4>1. <<>> \in Seq(Turns)
          OBVIOUS
        <4> QED BY <2>2, <4>1, Zenon
      <3>5. QueueInOrder(h)'
        BY <3>1, <3>2, <3>3, <3>4 DEF QueueInOrder
      <3> QED BY <1>3, <1>6, <2>1, <3>5, OthersDoNotOwn
    <2> QED BY <1>8, <2>3, <2>4
  <1>9. Running(h) =>
           /\ run[h].task = active /\ active \in Tasks
           /\ run[h].queue \in Seq(Turns) /\ run[h].trace \in Seq(TraceEvent)
           /\ pending[active] \in Seq(Turns) /\ Distinct(pending[active])
           /\ \A t \in ElementsOf(pending[active]) : t \in prompted
    BY DEF WaitingTurns, Fresh, ActiveIsOpen, TypeOK, Run
  <1>10. ASSUME Running(h), NEW taken, taken = TakenTurns(run[h].trace), NEW queue, queue = run[h].queue
         PROVE  /\ taken \in Seq(Turns) /\ queue \in Seq(Turns) /\ pending[active] = taken \o queue
                /\ Distinct(taken \o queue) /\ \A g \in Hosts \ {h} : ~Owns(g)
    <2>1. taken \in Seq(Turns) /\ queue \in Seq(Turns)
      BY <1>9, <1>10, TakenType
    <2>2. pending[active] = taken \o queue
      BY <1>9, <1>10 DEF OrderInv, QueueInOrder
    <2> QED BY <1>3, <1>9, <1>10, <2>1, <2>2, OthersDoNotOwn
  <1>11. PICK taken : taken = TakenTurns(run[h].trace)
    OBVIOUS
  <1>12. PICK queue : queue = run[h].queue
    OBVIOUS
  <1>13. Running(h) => /\ taken \in Seq(Turns) /\ queue \in Seq(Turns) /\ pending[active] = taken \o queue
                       /\ Distinct(taken \o queue) /\ \A g \in Hosts \ {h} : ~Owns(g)
    BY <1>10, <1>11, <1>12
  <1>14. ASSUME Running(h), \A g \in Hosts \ {h} : run'[g] = run[g], run'[h].task = run[h].task,
                pending'[active] = TakenTurns(run'[h].trace) \o run'[h].queue
         PROVE  OrderInv'
    <2>1. QueueInOrder(h)'
      BY <1>9, <1>14 DEF QueueInOrder
    <2> QED BY <1>6, <1>13, <1>14, <2>1
  <1>15. ASSUME NEW t \in Turns, QueueTurn(h, t) PROVE OrderInv'
    <2>1. Running(h)
      BY <1>15 DEF QueueTurn, Running
    <2>2. pending' = [pending EXCEPT ![active] = Append(pending[active], t)]
      BY <1>2, <1>9, <1>15, <2>1 DEF QueueTurn
    <2>3. pending'[active] = Append(taken \o queue, t)
      BY <1>2, <1>9, <1>13, <2>1, <2>2
    <2>4. /\ \A g \in Hosts \ {h} : run'[g] = run[g]
          /\ run'[h].queue = Append(queue, t) /\ run'[h].trace = run[h].trace
          /\ run'[h].task = run[h].task
      BY <1>12, <1>15, QueueTurnRun
    <2>5. Append(taken \o queue, t) = taken \o Append(queue, t)
      <3>1. taken \in Seq(Turns) /\ queue \in Seq(Turns)
        BY <1>13, <2>1
      <3> QED BY <3>1, JoinedQueues
    <2> QED BY <1>11, <1>14, <2>1, <2>3, <2>4, <2>5
  <1>16. ASSUME NEW t \in Turns, CancelTurn(h, t) PROVE OrderInv'
    <2>1. Running(h) /\ t \in ElementsOf(queue)
      BY <1>12, <1>16 DEF CancelTurn
    <2>2. pending' = [pending EXCEPT ![active] = Without(pending[active], t)]
      BY <1>2, <1>9, <1>16, <2>1 DEF CancelTurn
    <2>3. pending'[active] = Without(taken \o queue, t)
      BY <1>2, <1>9, <1>13, <2>1, <2>2
    <2>4. /\ \A g \in Hosts \ {h} : run'[g] = run[g]
          /\ run'[h].queue = Without(queue, t) /\ run'[h].trace = run[h].trace
          /\ run'[h].task = run[h].task
      BY <1>12, <1>16, CancelTurnRun
    <2>5. Without(taken \o queue, t) = taken \o Without(queue, t)
      BY <1>13, <2>1, WithoutJoined
    <2> QED BY <1>11, <1>14, <2>1, <2>3, <2>4, <2>5
  <1>17. CASE Abort(h)
    <2>1. Running(h) /\ pending' = pending
      BY <1>17 DEF Abort
    <2>2. /\ \A g \in Hosts \ {h} : run'[g] = run[g]
          /\ run'[h].task = run[h].task /\ run'[h].queue = run[h].queue /\ run'[h].trace = run[h].trace
      BY <1>17, ClosingRun DEF Abort
    <2> QED BY <1>11, <1>12, <1>13, <1>14, <2>1, <2>2
  <1>18. CASE Works(h)
    <2>1. /\ pending' = pending /\ Running(h)
          /\ \A g \in Hosts \ {h} : run'[g] = run[g]
          /\ run'[h].task = run[h].task
      BY <1>18, WorksFrame
    <2>2. CASE TakeTurn(h)
      <3>1. queue # <<>> /\ run'[h].queue = Tail(queue)
            /\ run'[h].trace = Append(run[h].trace, TurnEvent(Head(queue)))
        BY <1>12, <2>2, TakeTurnRun DEF TakeTurn
      <3>2. PICK t \in Turns : t = Head(queue)
        BY <1>13, <2>1, <3>1
      <3>3. PICK e \in TraceEvent : e = TurnEvent(t)
        BY <3>2, ConstantTypes
      <3>4. e.kind = "turn" /\ e.turn = t
        BY <3>3 DEF TurnEvent
      <3>5. TakenTurns(run'[h].trace) = Append(taken, t)
        <4>1. TakenTurns(Append(run[h].trace, e)) = WithTurn(taken, e)
          BY <1>9, <1>11, <2>1, TakenAppend
        <4> QED BY <3>1, <3>2, <3>3, <3>4, <4>1 DEF WithTurn
      <3>6. Append(taken, Head(queue)) \o Tail(queue) = taken \o queue
        BY <1>13, <2>1, <3>1, JoinedQueues
      <3>7. pending'[active] = TakenTurns(run'[h].trace) \o run'[h].queue
        BY <1>13, <2>1, <3>1, <3>2, <3>5, <3>6
      <3> QED BY <1>14, <2>1, <3>7
    <2>3. ASSUME NEW k \in ToolKind \cup {"done"}, run'[h].queue = run[h].queue,
                 run'[h].trace = Append(run[h].trace, ToolEvent(k))
          PROVE  OrderInv'
      <3>1. PICK e \in TraceEvent : e = ToolEvent(k) /\ e.kind # "turn"
        BY ConstantTypes, ToolKindAssumption DEF ToolEvent
      <3>2. TakenTurns(Append(run[h].trace, e)) = WithTurn(taken, e)
        BY <1>9, <1>11, <2>1, TakenAppend
      <3>3. TakenTurns(run'[h].trace) = taken
        BY <2>3, <3>1, <3>2 DEF WithTurn
      <3> QED BY <1>12, <1>13, <1>14, <2>1, <2>3, <3>3
    <2>4. CASE FinishTool(h) \/ \E k \in ToolKind : StartTool(h, k)
      BY <2>3, <2>4, FinishToolRun, StartToolRun
    <2>5. CASE Execute(h) \/ LoopEnds(h) \/ LoopFails(h)
      <3>1. run'[h].queue = run[h].queue /\ run'[h].trace = run[h].trace
        BY <2>5, ExecuteRun, ClosingRun DEF LoopEnds, LoopFails
      <3> QED BY <1>11, <1>12, <1>13, <1>14, <2>1, <3>1
    <2> QED BY <1>18, <2>2, <2>4, <2>5 DEF Works
  <1>19. CASE RecordTrace(h)
    <2>1. PICK e : e = Head(run[h].trace)
      OBVIOUS
    <2>2. Running(h) /\ run[h].trace # <<>> /\ AppendTraceEvent(active, e)
      BY <1>9, <1>19, <2>1 DEF RecordTrace
    <2>3. e \in TraceEvent /\ (e.kind = "turn" => e.turn \in Turns)
      <3>1. e \in TraceEvent
        BY <1>9, <2>1, <2>2
      <3> QED BY <3>1, ToolKindAssumption DEF TraceEvent
    <2>4. /\ \A g \in Hosts \ {h} : run'[g] = run[g]
          /\ run'[h].task = run[h].task /\ run'[h].queue = queue
          /\ run'[h].trace = Tail(run[h].trace)
      BY <1>12, <1>19, RecordTraceRun
    <2>5. PICK rest : rest = TakenTurns(run'[h].trace)
      OBVIOUS
    <2>6. rest \in Seq(Turns)
      <3>1. Tail(run[h].trace) \in Seq(TraceEvent)
        BY <1>9, <2>2
      <3> QED BY <2>4, <2>5, <3>1, TakenType
    <2>7. taken = WithTurn(<<>>, e) \o rest
      BY <1>9, <1>11, <2>1, <2>2, <2>4, <2>5, TakenTail
    <2>8. CASE e.kind # "turn"
      <3>1. pending' = pending
        BY <2>2, <2>8 DEF AppendTraceEvent
      <3>2. taken = <<>> \o rest
        BY <2>7, <2>8 DEF WithTurn
      <3>3. taken = rest
        BY <2>6, <3>2, JoinedQueues
      <3> QED BY <1>13, <1>14, <2>2, <2>4, <2>5, <3>1, <3>3
    <2>9. CASE e.kind = "turn"
      <3>1. PICK t \in Turns : t = e.turn
        BY <2>3, <2>9
      <3>2. pending' = [pending EXCEPT ![active] = Without(pending[active], t)]
        BY <1>2, <1>9, <2>2, <2>9, <3>1 DEF AppendTraceEvent
      <3>3. pending'[active] = Without(taken \o queue, t)
        BY <1>2, <1>9, <1>13, <2>2, <3>2
      <3>4. taken = <<t>> \o rest
        BY <2>7, <2>9, <3>1 DEF WithTurn
      <3>5. rest \o queue \in Seq(Turns) /\ taken \o queue = <<t>> \o (rest \o queue)
        <4>1. <<t>> \in Seq(Turns)
          OBVIOUS
        <4>2. queue \in Seq(Turns)
          BY <1>13, <2>2
        <4>3. (<<t>> \o rest) \o queue = <<t>> \o (rest \o queue)
          BY <2>6, <4>1, <4>2, ConcatAssociative
        <4> QED BY <2>6, <3>4, <4>2, <4>3
      <3>6. Without(taken \o queue, t) = rest \o queue
        BY <1>13, <2>2, <3>5, WithoutFirst
      <3> QED BY <1>14, <2>2, <2>4, <2>5, <3>3, <3>6
    <2> QED BY <2>8, <2>9
  <1>20. CASE Finish(h) \/ ClearControl(h) \/ Crash(h)
    <2>1. pending' = pending
      BY <1>20 DEF Finish, ClearControl, Crash, ledgerVars
    <2>2. \A g \in Hosts : Running(g)' => run'[g] = run[g]
      BY <1>20, FinishRun, RunGone DEF Running
    <2> QED BY <2>1, <2>2 DEF OrderInv, QueueInOrder, Running
  <1> QED BY <1>1, <1>5, <1>7, <1>8, <1>15, <1>16, <1>17, <1>18, <1>19, <1>20

\* Without races, at every instant, and so at every possible crash, the ledger's
\* queue of a running task is the sequence of the turns its loop has not durably
\* started, in the order in which it starts them.
THEOREM LedgerFollowsQueue ==
    ASSUME NoRaces PROVE Spec => []LedgerMatchesQueue
  <1>1. Init => OrderInv
    <2>1. NoRun.stage = "none"
      BY DEF NoRun
    <2> QED BY <2>1 DEF Init, OrderInv, QueueInOrder, Running
  <1>2. OrderInv => LedgerMatchesQueue
    BY DEF OrderInv, QueueInOrder, LedgerMatchesQueue
  <1> QED BY <1>1, <1>2, TypeInvInit, TypeStep, CalmInvInit, CalmInvStep, OrderStep, PTL DEF Spec
=============================================================================
