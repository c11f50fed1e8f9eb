---------------------- MODULE ObservationRecorderProofs ----------------------
(* Proofs about ObservationRecorder, for any streams and tools, any limits of   *)
(* the queue, any number of observations and flushes, with and without a store  *)
(* that fails and a run that is dropped.                                       *)
(*                                                                           *)
(* Counting what the commands stand for needs sums over sequences, which come   *)
(* first.  Then each step is reduced to what it does to the queue, the          *)
(* worker's command, the ledger and the history (Shapes), and the parts of the  *)
(* inductive invariant are shown to survive it one after the other.             *)
EXTENDS ObservationRecorder, FiniteSetTheorems, SequenceTheorems, WellFoundedInduction, TLAPS
-----------------------------------------------------------------------------
(* Sums over sequences *)

\* A nonempty set of numbers has a least one: what induction over the positions
\* of a sequence rests on.
LEMMA Least ==
    ASSUME NEW T \in SUBSET Nat, T # {}
    PROVE  \E n \in T : \A m \in T : n <= m
  <1>1. PICK n \in T : \A m \in T : ~(<<m, n>> \in OpToRel(<, Nat))
    BY NatLessThanWellFounded, WFMin
  <1>2. \A m \in T : ~(m < n)
    BY <1>1 DEF OpToRel
  <1>3. n \in Nat /\ \A m \in T : m \in Nat
    OBVIOUS
  <1> QED BY <1>2, <1>3

\* Positions from the first on that each pass on being in T are in T.
LEMMA FromTheStart ==
    ASSUME NEW n \in Nat, NEW T, 0 \in T, \A m \in 1..n : m - 1 \in T => m \in T
    PROVE  \A m \in 0..n : m \in T
  <1> DEFINE U == {m \in 0..n : m \notin T}
  <1>1. SUFFICES ASSUME U # {} PROVE FALSE
    OBVIOUS
  <1>2. U \in SUBSET Nat
    OBVIOUS
  <1>3. PICK m \in U : \A k \in U : m <= k
    BY <1>1, <1>2, Least
  <1>4. m \in 1..n /\ m - 1 \in 0..n /\ m - 1 < m
    BY <1>3
  <1>5. m - 1 \notin U
    BY <1>3, <1>4
  <1> QED BY <1>3, <1>4, <1>5

\* f holds the sums of the first n numbers, for each n.
Sums(s, f, n) == f = [m \in 0..n |-> IF m = 0 THEN 0 ELSE f[m - 1] + s[m]]

\* The sums of every sequence can be formed one after the other.
LEMMA SumsExist ==
    ASSUME NEW s, NEW n \in Nat
    PROVE  \E f : Sums(s, f, n)
  <1> DEFINE T == {k \in Nat : ~\E f : Sums(s, f, k)}
  <1>1. SUFFICES ASSUME T # {} PROVE FALSE
    OBVIOUS
  <1>2. PICK k \in T : \A j \in T : k <= j
    BY <1>1, Least
  <1>3. CASE k = 0
    <2> DEFINE g == [m \in 0..0 |-> 0]
    <2>1. g = [m \in 0..0 |-> IF m = 0 THEN 0 ELSE g[m - 1] + s[m]]
      OBVIOUS
    <2> HIDE DEF g
    <2> QED BY <1>2, <1>3, <2>1 DEF Sums
  <1>4. CASE k # 0
    <2>1. k - 1 \in Nat /\ k - 1 \notin T
      BY <1>2, <1>4
    <2>2. PICK f : Sums(s, f, k - 1)
      BY <2>1
    <2> DEFINE g == [m \in 0..k |-> IF m = 0 THEN 0 ELSE f[m - 1] + s[m]]
    <2>3. \A m \in 0..(k - 1) : g[m] = f[m]
      BY <2>1, <2>2 DEF Sums
    <2>4. \A m \in 0..k : m = 0 \/ m - 1 \in 0..(k - 1)
      BY <1>2
    <2>5. g = [m \in 0..k |-> IF m = 0 THEN 0 ELSE g[m - 1] + s[m]]
      BY <2>3, <2>4
    <2> HIDE DEF g
    <2> QED BY <1>2, <2>5 DEF Sums
  <1> QED BY <1>3, <1>4

\* Total is the last of the sums.
LEMMA TotalIsSum ==
    ASSUME NEW s \in Seq(Nat), NEW n \in Nat, n = Len(s)
    PROVE  \E f : /\ f[0] = 0 /\ \A m \in 1..n : f[m] = f[m - 1] + s[m]
                  /\ \A m \in 0..n : f[m] \in Nat
                  /\ Total(s) = f[n]
  <1> DEFINE f == CHOOSE g : Sums(s, g, Len(s))
  <1>1. \E g : Sums(s, g, Len(s))
    BY SumsExist
  <1>2. Sums(s, f, Len(s))
    BY <1>1, Zenon
  <1>3. Total(s) = f[Len(s)]
    BY DEF Total, Sums
  <1> HIDE DEF f
  <1>4. f[0] = 0 /\ \A m \in 1..n : f[m] = f[m - 1] + s[m]
    BY <1>2 DEF Sums
  <1> DEFINE T == {m \in 0..n : f[m] \in Nat}
  <1>5. 0 \in T
    BY <1>4
  <1>6. \A m \in 1..n : m - 1 \in T => m \in T
    <2>1. \A m \in 1..n : s[m] \in Nat
      OBVIOUS
    <2> QED BY <1>4, <2>1
  <1> HIDE DEF T
  <1>7. \A m \in 0..n : m \in T
    BY <1>5, <1>6, FromTheStart, ZenonT(60)
  <1>8. \A m \in 0..n : f[m] \in Nat
    BY <1>7 DEF T
  <1> QED BY <1>3, <1>4, <1>8

\* The total of two joined sequences.
LEMMA TotalConcat ==
    ASSUME NEW s \in Seq(Nat), NEW t \in Seq(Nat)
    PROVE  Total(s \o t) = Total(s) + Total(t)
  <1>1. PICK a \in Nat : a = Len(s)
    OBVIOUS
  <1>2. PICK b \in Nat : b = Len(t)
    OBVIOUS
  <1>3. PICK u \in Seq(Nat) : u = s \o t
    BY ConcatProperties
  <1>4. PICK c \in Nat : c = a + b
    OBVIOUS
  <1>5. /\ c = Len(u) /\ \A m \in 1..a : u[m] = s[m]
        /\ \A m \in 1..b : u[a + m] = t[m]
    <2>1. /\ Len(s \o t) = Len(s) + Len(t)
          /\ \A i \in 1..(Len(s) + Len(t)) : (s \o t)[i] = IF i <= Len(s) THEN s[i] ELSE t[i - Len(s)]
      BY ConcatProperties
    <2>2. \A m \in 1..a : m \in 1..(a + b) /\ m <= a
      OBVIOUS
    <2>3. \A m \in 1..b : a + m \in 1..(a + b) /\ ~(a + m <= a) /\ (a + m) - a = m
      OBVIOUS
    <2> QED BY <1>1, <1>2, <1>3, <1>4, <2>1, <2>2, <2>3
  <1>6. PICK f : /\ f[0] = 0 /\ \A m \in 1..a : f[m] = f[m - 1] + s[m]
                 /\ (\A m \in 0..a : f[m] \in Nat) /\ Total(s) = f[a]
    BY <1>1, TotalIsSum
  <1>7. PICK g : /\ g[0] = 0 /\ \A m \in 1..b : g[m] = g[m - 1] + t[m]
                 /\ (\A m \in 0..b : g[m] \in Nat) /\ Total(t) = g[b]
    BY <1>2, TotalIsSum
  <1>8. PICK h : /\ h[0] = 0 /\ \A m \in 1..c : h[m] = h[m - 1] + u[m]
                 /\ (\A m \in 0..c : h[m] \in Nat) /\ Total(u) = h[c]
    BY <1>5, TotalIsSum
  <1> DEFINE S == {m \in 0..a : h[m] = f[m]}
             T == {m \in 0..b : h[a + m] = f[a] + g[m]}
  <1>9. \A m \in 0..a : m \in S
    <2>1. 0 \in S
      BY <1>6, <1>8
    <2>2. \A m \in 1..a : m - 1 \in S => m \in S
      <3>1. \A m \in 1..a : m \in 1..c
        BY <1>4
      <3> QED BY <1>5, <1>6, <1>8, <3>1
    <2> HIDE DEF S
    <2> QED BY <2>1, <2>2, FromTheStart, ZenonT(60)
  <1>10. h[a] = f[a] /\ f[a] \in Nat
    BY <1>6, <1>9
  <1>11. \A m \in 0..b : m \in T
    <2>1. 0 \in T
      <3>1. a + 0 = a /\ f[a] + 0 = f[a]
        BY <1>10
      <3> QED BY <1>7, <1>10, <3>1
    <2>2. ASSUME NEW m \in 1..b, m - 1 \in T PROVE m \in T
      <3>1. h[a + (m - 1)] = f[a] + g[m - 1]
        BY <2>2
      <3>2. a + m \in 1..c /\ (a + m) - 1 = a + (m - 1) /\ m - 1 \in 0..b
        BY <1>4
      <3>3. h[a + m] = h[a + (m - 1)] + t[m]
        BY <1>5, <1>8, <3>2
      <3>4. g[m] = g[m - 1] + t[m] /\ g[m - 1] \in Nat /\ t[m] \in Nat
        BY <1>2, <1>7, <3>2
      <3>5. h[a + m] = f[a] + g[m]
        BY <1>10, <3>1, <3>3, <3>4
      <3> QED BY <3>5
    <2>3. \A m \in 1..b : m - 1 \in T => m \in T
      BY <2>2
    <2> HIDE DEF T
    <2> QED BY <2>1, <2>3, FromTheStart, ZenonT(60)
  <1>12. h[a + b] = f[a] + g[b]
    BY <1>11
  <1> QED BY <1>3, <1>4, <1>6, <1>7, <1>8, <1>12

\* A total is a number; the totals of no and of one number.
LEMMA TotalBasics ==
    /\ \A s \in Seq(Nat) : Total(s) \in Nat
    /\ Total(<<>>) = 0
    /\ \A x \in Nat : Total(<<x>>) = x
  <1>1. ASSUME NEW s \in Seq(Nat) PROVE Total(s) \in Nat
    <2>1. PICK n \in Nat : n = Len(s)
      OBVIOUS
    <2> QED BY <2>1, TotalIsSum
  <1>2. Total(<<>>) = 0
    <2>1. 0 \in Nat /\ 0 = Len(<<>>) /\ <<>> \in Seq(Nat)
      OBVIOUS
    <2> QED BY <2>1, TotalIsSum
  <1>3. ASSUME NEW x \in Nat PROVE Total(<<x>>) = x
    <2>1. PICK s : s = <<x>>
      OBVIOUS
    <2>2. s \in Seq(Nat) /\ 1 \in Nat /\ 1 = Len(s) /\ s[1] = x
      BY <2>1
    <2>3. PICK f : f[0] = 0 /\ (\A m \in 1..1 : f[m] = f[m - 1] + s[m]) /\ Total(s) = f[1]
      BY <2>2, TotalIsSum
    <2>4. f[1] = f[0] + s[1]
      BY <2>3
    <2> QED BY <2>1, <2>2, <2>3, <2>4
  <1> QED BY <1>1, <1>2, <1>3

\* The weight of commands; bytes and observations are two such weights.
Weigh(s, w) == Total([i \in 1..Len(s) |-> w[s[i]]])

\* The weights of two joined sequences of commands, of none and of one.
LEMMA WeighConcat ==
    ASSUME NEW S, NEW w \in [S -> Nat], NEW s \in Seq(S), NEW t \in Seq(S)
    PROVE  Weigh(s \o t, w) = Weigh(s, w) + Weigh(t, w)
  <1> DEFINE W(r) == [i \in 1..Len(r) |-> w[r[i]]]
  <1>1. ASSUME NEW r \in Seq(S) PROVE W(r) \in Seq(Nat) /\ Len(W(r)) = Len(r)
    <2>1. Len(r) \in Nat /\ \A i \in 1..Len(r) : w[r[i]] \in Nat
      OBVIOUS
    <2> QED BY <2>1
  <1>2. PICK u \in Seq(S) : u = s \o t
    BY ConcatProperties
  <1>3. /\ Len(u) = Len(s) + Len(t) /\ Len(s) \in Nat /\ Len(t) \in Nat
        /\ \A i \in 1..(Len(s) + Len(t)) : u[i] = IF i <= Len(s) THEN s[i] ELSE t[i - Len(s)]
    BY <1>2, ConcatProperties
  <1>4. PICK a \in Seq(Nat) : a = W(s) /\ Len(a) = Len(s)
    BY <1>1
  <1>5. PICK b \in Seq(Nat) : b = W(t) /\ Len(b) = Len(t)
    BY <1>1
  <1>6. PICK c \in Seq(Nat) : c = W(u) /\ Len(c) = Len(u)
    BY <1>1
  <1>7. PICK d \in Seq(Nat) : d = a \o b
    BY ConcatProperties
  <1>8. /\ Len(d) = Len(a) + Len(b)
        /\ \A i \in 1..(Len(a) + Len(b)) : d[i] = IF i <= Len(a) THEN a[i] ELSE b[i - Len(a)]
    BY <1>7, ConcatProperties
  <1>9. ASSUME NEW i \in 1..Len(c) PROVE c[i] = d[i]
    <2>1. i \in 1..(Len(s) + Len(t)) /\ c[i] = w[u[i]]
      BY <1>3, <1>6
    <2>2. CASE i <= Len(s)
      <3>1. u[i] = s[i] /\ d[i] = a[i] /\ i \in 1..Len(s)
        BY <1>3, <1>4, <1>5, <1>8, <2>1, <2>2
      <3>2. a[i] = w[s[i]]
        BY <1>4, <3>1
      <3> QED BY <2>1, <3>1, <3>2
    <2>3. CASE ~(i <= Len(s))
      <3>1. u[i] = t[i - Len(s)] /\ d[i] = b[i - Len(s)] /\ i - Len(s) \in 1..Len(t)
        <4>1. u[i] = t[i - Len(s)]
          BY <1>3, <2>1, <2>3
        <4>2. d[i] = b[i - Len(s)]
          BY <1>4, <1>5, <1>8, <2>1, <2>3
        <4>3. i - Len(s) \in 1..Len(t)
          BY <1>3, <2>1, <2>3
        <4> QED BY <4>1, <4>2, <4>3
      <3>2. b[i - Len(s)] = w[t[i - Len(s)]]
        BY <1>5, <3>1
      <3> QED BY <2>1, <3>1, <3>2
    <2> QED BY <2>2, <2>3
  <1>10. Len(c) = Len(d)
    BY <1>3, <1>4, <1>5, <1>6, <1>8
  <1>11. c = d
    BY <1>9, <1>10, SeqEqual
  <1>12. Total(d) = Total(a) + Total(b)
    BY <1>7, TotalConcat
  <1> QED BY <1>2, <1>4, <1>5, <1>6, <1>11, <1>12 DEF Weigh

\* A weight is a number.
LEMMA WeighBasics ==
    ASSUME NEW S, NEW w \in [S -> Nat]
    PROVE  /\ \A s \in Seq(S) : Weigh(s, w) \in Nat
           /\ Weigh(<<>>, w) = 0
           /\ \A c \in S : Weigh(<<c>>, w) = w[c]
  <1>1. ASSUME NEW s \in Seq(S) PROVE Weigh(s, w) \in Nat
    <2>1. PICK a : a = [i \in 1..Len(s) |-> w[s[i]]]
      OBVIOUS
    <2>2. a \in Seq(Nat)
      <3>1. Len(s) \in Nat /\ \A i \in 1..Len(s) : w[s[i]] \in Nat
        OBVIOUS
      <3> QED BY <2>1, <3>1
    <2> QED BY <2>1, <2>2, TotalBasics DEF Weigh
  <1>2. Weigh(<<>>, w) = 0
    <2>1. PICK a : a = [i \in 1..Len(<<>>) |-> w[<<>>[i]]]
      OBVIOUS
    <2>2. a \in Seq(Nat) /\ Len(a) = 0
      BY <2>1
    <2>3. a = <<>>
      BY <2>2, EmptySeq
    <2> QED BY <2>1, <2>3, TotalBasics DEF Weigh
  <1>3. ASSUME NEW c \in S PROVE Weigh(<<c>>, w) = w[c]
    <2>1. PICK s : s = <<c>>
      OBVIOUS
    <2>2. Len(s) = 1 /\ s[1] = c /\ w[c] \in Nat
      BY <2>1
    <2>3. PICK a : a = [i \in 1..Len(s) |-> w[s[i]]]
      OBVIOUS
    <2>4. a \in Seq(Nat) /\ Len(a) = 1 /\ a[1] = w[c]
      BY <2>2, <2>3
    <2>5. <<w[c]>> \in Seq(Nat) /\ Len(<<w[c]>>) = 1 /\ <<w[c]>>[1] = w[c]
      BY <2>2
    <2>6. a = <<w[c]>>
      BY <2>4, <2>5, SeqEqual
    <2> QED BY <2>1, <2>2, <2>3, <2>6, TotalBasics DEF Weigh
  <1> QED BY <1>1, <1>2, <1>3

\* Two joined sequences, named.
IsJoin(r, a, b) ==
    /\ r = a \o b /\ Len(r) = Len(a) + Len(b)
    /\ \A j \in 1..(Len(a) + Len(b)) : r[j] = IF j <= Len(a) THEN a[j] ELSE b[j - Len(a)]
LEMMA Joined ==
    ASSUME NEW S, NEW a \in Seq(S), NEW b \in Seq(S)
    PROVE  \E r \in Seq(S) : IsJoin(r, a, b)
  <1>1. /\ a \o b \in Seq(S) /\ Len(a \o b) = Len(a) + Len(b)
        /\ \A j \in 1..(Len(a) + Len(b)) : (a \o b)[j] = IF j <= Len(a) THEN a[j] ELSE b[j - Len(a)]
    BY ConcatProperties
  <1>2. IsJoin(a \o b, a, b)
    BY <1>1 DEF IsJoin
  <1> QED BY <1>1, <1>2

\* A sequence of one element, named.
LEMMA Single ==
    ASSUME NEW S, NEW x \in S
    PROVE  \E r \in Seq(S) : r = <<x>> /\ Len(r) = 1 /\ r[1] = x
  <1>1. <<x>> \in Seq(S) /\ Len(<<x>>) = 1 /\ <<x>>[1] = x
    OBVIOUS
  <1> QED BY <1>1

\* A sequence is what is before its i-th element, that element, and what is after.
Parted(S, s, i) ==
    \E a, b \in Seq(S) : RemoveAt(s, i) = a \o b /\ s = a \o (<<s[i]>> \o b)

\* What is left of a sequence without its i-th element, and that element.
LEMMA Removed ==
    ASSUME NEW S, NEW s \in Seq(S), NEW i \in 1..Len(s)
    PROVE  /\ RemoveAt(s, i) \in Seq(S) /\ Len(RemoveAt(s, i)) = Len(s) - 1
           /\ \A j \in 1..(Len(s) - 1) : RemoveAt(s, i)[j] = IF j < i THEN s[j] ELSE s[j + 1]
           /\ Parted(S, s, i)
  <1> DEFINE front == SubSeq(s, 1, i - 1)
             back == SubSeq(s, i + 1, Len(s))
  <1>1. Len(s) \in Nat /\ i \in Nat /\ 1 <= i /\ i <= Len(s) /\ s[i] \in S
    OBVIOUS
  <1>2. front \in Seq(S) /\ back \in Seq(S)
    OBVIOUS
  <1>3. Len(front) = i - 1 /\ \A j \in 1..(i - 1) : front[j] = s[j]
    BY <1>1
  <1>4. Len(back) = Len(s) - i /\ \A j \in 1..(Len(s) - i) : back[j] = s[i + j]
    BY <1>1
  <1>5. RemoveAt(s, i) = front \o back
    BY DEF RemoveAt
  <1> HIDE DEF front, back
  <1>6. PICK a \in Seq(S) : a = front /\ Len(a) = i - 1 /\ \A j \in 1..(i - 1) : a[j] = s[j]
    BY <1>2, <1>3, Zenon
  <1>11. PICK b \in Seq(S) :
             b = back /\ Len(b) = Len(s) - i /\ \A j \in 1..(Len(s) - i) : b[j] = s[i + j]
    BY <1>2, <1>4, Zenon
  <1>7. PICK r \in Seq(S) :
            /\ r = a \o b /\ Len(r) = Len(a) + Len(b)
            /\ \A j \in 1..(Len(a) + Len(b)) : r[j] = IF j <= Len(a) THEN a[j] ELSE b[j - Len(a)]
    <2>1. PICK r \in Seq(S) : IsJoin(r, a, b)
      BY Joined
    <2> QED BY <2>1 DEF IsJoin
  <1>8. Len(r) = Len(s) - 1
    BY <1>1, <1>6, <1>11, <1>7
  <1>9. ASSUME NEW j \in 1..(Len(s) - 1) PROVE r[j] = IF j < i THEN s[j] ELSE s[j + 1]
    <2>1. r[j] = IF j <= i - 1 THEN a[j] ELSE b[j - (i - 1)]
      BY <1>1, <1>6, <1>11, <1>7
    <2>2. CASE j < i
      BY <1>1, <1>6, <2>1, <2>2
    <2>3. CASE ~(j < i)
      <3>1. j - (i - 1) \in 1..(Len(s) - i) /\ i + (j - (i - 1)) = j + 1 /\ ~(j <= i - 1)
        BY <1>1, <2>3
      <3> QED BY <1>1, <1>11, <2>1, <2>3, <3>1
    <2> QED BY <2>2, <2>3
  <1>10. s = a \o (<<s[i]>> \o b)
    <2>1. PICK o \in Seq(S) : o = <<s[i]>> /\ Len(o) = 1 /\ o[1] = s[i]
      BY <1>1, Single
    <2>2. PICK t \in Seq(S) : /\ t = o \o b /\ Len(t) = Len(o) + Len(b)
                              /\ \A j \in 1..(Len(o) + Len(b)) :
                                     t[j] = IF j <= Len(o) THEN o[j] ELSE b[j - Len(o)]
      <3>1. PICK t \in Seq(S) : IsJoin(t, o, b)
        BY Joined
      <3> QED BY <3>1 DEF IsJoin
    <2>3. PICK u \in Seq(S) : /\ u = a \o t /\ Len(u) = Len(a) + Len(t)
                              /\ \A j \in 1..(Len(a) + Len(t)) :
                                     u[j] = IF j <= Len(a) THEN a[j] ELSE t[j - Len(a)]
      <3>1. PICK u \in Seq(S) : IsJoin(u, a, t)
        BY Joined
      <3> QED BY <3>1 DEF IsJoin
    <2>4. Len(u) = Len(s)
      <3>1. Len(u) = Len(a) + Len(t) /\ Len(t) = Len(o) + Len(b)
        BY <2>2, <2>3
      <3>2. Len(a) = i - 1 /\ Len(b) = Len(s) - i /\ Len(o) = 1
        BY <1>6, <1>11, <2>1
      <3> QED BY <1>1, <3>1, <3>2
    <2>5. ASSUME NEW j \in 1..Len(u) PROVE u[j] = s[j]
      <3>1. u[j] = IF j <= i - 1 THEN a[j] ELSE t[j - (i - 1)]
        BY <1>1, <1>6, <2>3
      <3>2. CASE j <= i - 1
        BY <1>1, <1>6, <3>1, <3>2
      <3>3. CASE j = i
        <4>1. j - (i - 1) = 1 /\ 1 \in 1..(1 + Len(b)) /\ ~(j <= i - 1)
          BY <1>1, <1>11, <3>3
        <4>2. t[1] = o[1]
          BY <2>1, <2>2, <4>1
        <4> QED BY <2>1, <3>1, <3>3, <4>1, <4>2
      <3>4. CASE j > i
        <4>1. /\ j - (i - 1) \in 1..(1 + Len(b)) /\ ~(j - (i - 1) <= 1)
              /\ (j - (i - 1)) - 1 \in 1..(Len(s) - i) /\ i + ((j - (i - 1)) - 1) = j
              /\ ~(j <= i - 1)
          BY <1>1, <1>11, <2>4, <3>4
        <4>2. t[j - (i - 1)] = b[(j - (i - 1)) - 1]
          BY <2>1, <2>2, <4>1
        <4> QED BY <1>11, <3>1, <4>1, <4>2
      <3> QED BY <1>1, <2>4, <3>2, <3>3, <3>4
    <2>6. u = s
      BY <2>4, <2>5, SeqEqual
    <2> QED BY <2>1, <2>2, <2>3, <2>6
  <1> QED BY <1>5, <1>6, <1>7, <1>8, <1>9, <1>10, <1>11 DEF Parted

\* A sequence is its first element and the rest.
LEMMA HeadAndTail ==
    ASSUME NEW S, NEW s \in Seq(S), s # <<>>
    PROVE  /\ Head(s) \in S /\ Tail(s) \in Seq(S) /\ Head(s) = s[1]
           /\ Len(Tail(s)) = Len(s) - 1 /\ Len(s) >= 1
           /\ \A j \in 1..(Len(s) - 1) : Tail(s)[j] = s[j + 1]
           /\ s = <<Head(s)>> \o Tail(s)
  <1>1. Len(s) \in Nat /\ Len(s) >= 1
    BY EmptySeq
  <1>2. /\ Head(s) \in S /\ Tail(s) \in Seq(S) /\ Head(s) = s[1] /\ Len(Tail(s)) = Len(s) - 1
        /\ \A j \in 1..Len(Tail(s)) : Tail(s)[j] = s[j + 1]
    BY <1>1, HeadTailProperties
  <1>3. PICK r \in Seq(S) : r = Tail(s)
    BY <1>2
  <1>4. PICK o \in Seq(S) : o = <<Head(s)>> /\ Len(o) = 1 /\ o[1] = s[1]
    BY <1>2, Single
  <1>5. PICK t \in Seq(S) : /\ t = o \o r /\ Len(t) = Len(o) + Len(r)
                            /\ \A j \in 1..(Len(o) + Len(r)) :
                                   t[j] = IF j <= Len(o) THEN o[j] ELSE r[j - Len(o)]
    <2>1. PICK t \in Seq(S) : IsJoin(t, o, r)
      BY Joined
    <2> QED BY <2>1 DEF IsJoin
  <1>6. Len(t) = Len(s) /\ Len(r) = Len(s) - 1
    BY <1>1, <1>2, <1>3, <1>4, <1>5
  <1>7. ASSUME NEW j \in 1..Len(t) PROVE t[j] = s[j]
    <2>1. CASE j = 1
      BY <1>4, <1>5, <1>6, <2>1, <1>1
    <2>2. CASE j # 1
      <3>1. j - 1 \in 1..Len(r) /\ (j - 1) + 1 = j /\ ~(j <= 1)
        BY <1>1, <1>6, <2>2
      <3> QED BY <1>2, <1>3, <1>4, <1>5, <1>6, <3>1
    <2> QED BY <2>1, <2>2
  <1>8. t = s
    BY <1>6, <1>7, SeqEqual
  <1> QED BY <1>1, <1>2, <1>3, <1>4, <1>5, <1>8

\* What one command weighs in a sequence: at the end, at the start, anywhere.
LEMMA WeighOne ==
    ASSUME NEW S, NEW w \in [S -> Nat], NEW s \in Seq(S)
    PROVE  /\ \A c \in S : Weigh(Append(s, c), w) = Weigh(s, w) + w[c]
           /\ s # <<>> => Weigh(s, w) = w[Head(s)] + Weigh(Tail(s), w)
           /\ \A i \in 1..Len(s) : Weigh(s, w) = Weigh(RemoveAt(s, i), w) + w[s[i]]
  <1>0. \A r \in Seq(S) : Weigh(r, w) \in Nat
    BY WeighBasics
  <1>1. ASSUME NEW c \in S PROVE Weigh(Append(s, c), w) = Weigh(s, w) + w[c]
    <2>1. <<c>> \in Seq(S) /\ Append(s, c) = s \o <<c>>
      OBVIOUS
    <2>2. Weigh(s \o <<c>>, w) = Weigh(s, w) + Weigh(<<c>>, w)
      BY <2>1, WeighConcat
    <2>3. Weigh(<<c>>, w) = w[c]
      BY WeighBasics
    <2> QED BY <2>1, <2>2, <2>3
  <1>2. ASSUME s # <<>> PROVE Weigh(s, w) = w[Head(s)] + Weigh(Tail(s), w)
    <2>1. Head(s) \in S /\ Tail(s) \in Seq(S) /\ s = <<Head(s)>> \o Tail(s)
      BY <1>2, HeadAndTail
    <2>2. PICK r \in Seq(S) : r = Tail(s)
      BY <2>1
    <2>3. PICK c \in S : c = Head(s)
      BY <2>1
    <2>4. <<c>> \in Seq(S)
      OBVIOUS
    <2>5. Weigh(<<c>> \o r, w) = Weigh(<<c>>, w) + Weigh(r, w)
      BY <2>4, WeighConcat
    <2>6. Weigh(<<c>>, w) = w[c]
      BY WeighBasics
    <2> QED BY <2>1, <2>2, <2>3, <2>5, <2>6
  <1>3. ASSUME NEW i \in 1..Len(s) PROVE Weigh(s, w) = Weigh(RemoveAt(s, i), w) + w[s[i]]
    <2>0. Parted(S, s, i)
      BY Removed
    <2>1. PICK a \in Seq(S), b \in Seq(S) : RemoveAt(s, i) = a \o b /\ s = a \o (<<s[i]>> \o b)
      BY <2>0, Zenon DEF Parted
    <2>3. PICK c \in S : c = s[i]
      OBVIOUS
    <2>4. <<c>> \in Seq(S) /\ <<c>> \o b \in Seq(S)
      OBVIOUS
    <2>7. Weigh(a \o (<<c>> \o b), w) = Weigh(a, w) + Weigh(<<c>> \o b, w)
      BY <2>4, WeighConcat
    <2>5. Weigh(<<c>> \o b, w) = Weigh(<<c>>, w) + Weigh(b, w)
      BY <2>4, WeighConcat
    <2>6. Weigh(a \o b, w) = Weigh(a, w) + Weigh(b, w)
      BY WeighConcat
    <2>8. Weigh(<<c>>, w) = w[c]
      BY WeighBasics
    <2>9. Weigh(a, w) \in Nat /\ Weigh(b, w) \in Nat /\ w[c] \in Nat
      BY <1>0
    <2>10. Weigh(s, w) = Weigh(a, w) + (w[c] + Weigh(b, w))
      BY <2>1, <2>3, <2>5, <2>7, <2>8
    <2>11. Weigh(RemoveAt(s, i), w) = Weigh(a, w) + Weigh(b, w)
      BY <2>1, <2>6
    <2> QED BY <2>3, <2>9, <2>10, <2>11
  <1> QED BY <1>1, <1>2, <1>3

-----------------------------------------------------------------------------
(* What a sequence contains *)

\* The elements of a sequence are those at its places.
LEMMA Elements ==
    ASSUME NEW S, NEW s \in Seq(S)
    PROVE  /\ \A x : x \in ToSet(s) <=> \E i \in 1..Len(s) : x = s[i]
           /\ \A i \in 1..Len(s) : s[i] \in ToSet(s)
           /\ ToSet(s) \subseteq S
  <1>1. DOMAIN s = 1..Len(s) /\ \A i \in 1..Len(s) : s[i] \in S
    OBVIOUS
  <1> QED BY <1>1 DEF ToSet

\* Joining adds the elements.
LEMMA ElementsJoined ==
    ASSUME NEW S, NEW a \in Seq(S), NEW b \in Seq(S)
    PROVE  ToSet(a \o b) = ToSet(a) \cup ToSet(b)
  <1>1. PICK r \in Seq(S) :
            /\ r = a \o b /\ Len(r) = Len(a) + Len(b)
            /\ \A j \in 1..(Len(a) + Len(b)) : r[j] = IF j <= Len(a) THEN a[j] ELSE b[j - Len(a)]
    <2>1. PICK r \in Seq(S) : IsJoin(r, a, b)
      BY Joined
    <2> QED BY <2>1 DEF IsJoin
  <1>2. /\ \A x : x \in ToSet(r) <=> \E i \in 1..Len(r) : x = r[i]
        /\ \A x : x \in ToSet(a) <=> \E i \in 1..Len(a) : x = a[i]
        /\ \A x : x \in ToSet(b) <=> \E i \in 1..Len(b) : x = b[i]
    BY Elements, ZenonT(30)
  <1>3. Len(a) \in Nat /\ Len(b) \in Nat
    OBVIOUS
  <1>4. ASSUME NEW x \in ToSet(a) PROVE x \in ToSet(r)
    <2>1. PICK i \in 1..Len(a) : x = a[i]
      BY <1>2, <1>4, Zenon
    <2>2. i \in 1..Len(r) /\ r[i] = a[i]
      BY <1>1, <1>3
    <2> QED BY <1>2, <2>1, <2>2, Zenon
  <1>5. ASSUME NEW x \in ToSet(b) PROVE x \in ToSet(r)
    <2>1. PICK i \in 1..Len(b) : x = b[i]
      BY <1>2, <1>5, Zenon
    <2>2. Len(a) + i \in 1..(Len(a) + Len(b)) /\ ~(Len(a) + i <= Len(a)) /\ (Len(a) + i) - Len(a) = i
      BY <1>3
    <2>3. Len(a) + i \in 1..Len(r) /\ r[Len(a) + i] = b[i]
      BY <1>1, <2>2
    <2> QED BY <1>2, <2>1, <2>3
  <1>6. ASSUME NEW x \in ToSet(r) PROVE x \in ToSet(a) \cup ToSet(b)
    <2>1. PICK i \in 1..Len(r) : x = r[i]
      BY <1>2, <1>6, Zenon
    <2>2. CASE i <= Len(a)
      <3>1. i \in 1..Len(a) /\ r[i] = a[i]
        BY <1>1, <1>3, <2>2
      <3> QED BY <1>2, <2>1, <3>1
    <2>3. CASE ~(i <= Len(a))
      <3>1. i - Len(a) \in 1..Len(b) /\ r[i] = b[i - Len(a)]
        BY <1>1, <1>3, <2>3
      <3> QED BY <1>2, <2>1, <3>1
    <2> QED BY <2>2, <2>3
  <1> QED BY <1>1, <1>4, <1>5, <1>6

\* No element and one element.
LEMMA ElementsFew ==
    ToSet(<<>>) = {} /\ \A x : ToSet(<<x>>) = {x}
  BY DEF ToSet

\* One more element at the end.
LEMMA ElementsAppended ==
    ASSUME NEW S, NEW s \in Seq(S), NEW x \in S
    PROVE  ToSet(Append(s, x)) = ToSet(s) \cup {x}
  <1>1. <<x>> \in Seq(S) /\ Append(s, x) = s \o <<x>>
    OBVIOUS
  <1>2. ToSet(s \o <<x>>) = ToSet(s) \cup ToSet(<<x>>)
    BY <1>1, ElementsJoined
  <1> QED BY <1>1, <1>2, ElementsFew

\* Taking the first element or any other one away.
LEMMA ElementsTaken ==
    ASSUME NEW S, NEW s \in Seq(S)
    PROVE  /\ s # <<>> => ToSet(s) = {Head(s)} \cup ToSet(Tail(s))
           /\ \A i \in 1..Len(s) : ToSet(s) = {s[i]} \cup ToSet(RemoveAt(s, i))
  <1>1. ASSUME s # <<>> PROVE ToSet(s) = {Head(s)} \cup ToSet(Tail(s))
    <2>1. Head(s) \in S /\ Tail(s) \in Seq(S) /\ s = <<Head(s)>> \o Tail(s)
      BY <1>1, HeadAndTail
    <2>2. PICK r \in Seq(S) : r = Tail(s)
      BY <2>1
    <2>3. PICK c \in S : c = Head(s)
      BY <2>1
    <2>4. <<c>> \in Seq(S)
      OBVIOUS
    <2>5. ToSet(<<c>> \o r) = ToSet(<<c>>) \cup ToSet(r)
      BY <2>4, ElementsJoined
    <2>6. ToSet(<<c>>) = {c}
      BY ElementsFew
    <2> QED BY <2>1, <2>2, <2>3, <2>5, <2>6
  <1>2. ASSUME NEW i \in 1..Len(s) PROVE ToSet(s) = {s[i]} \cup ToSet(RemoveAt(s, i))
    <2>0. Parted(S, s, i)
      BY Removed
    <2>1. PICK a \in Seq(S), b \in Seq(S) : RemoveAt(s, i) = a \o b /\ s = a \o (<<s[i]>> \o b)
      BY <2>0, Zenon DEF Parted
    <2>2. PICK c \in S : c = s[i]
      OBVIOUS
    <2>3. <<c>> \in Seq(S) /\ <<c>> \o b \in Seq(S)
      OBVIOUS
    <2>8. PICK t \in Seq(S) : t = <<c>> \o b
      BY <2>3
    <2>4. ToSet(a \o t) = ToSet(a) \cup ToSet(t)
      BY ElementsJoined
    <2>5. ToSet(<<c>> \o b) = ToSet(<<c>>) \cup ToSet(b)
      BY <2>3, ElementsJoined
    <2>6. ToSet(a \o b) = ToSet(a) \cup ToSet(b)
      BY ElementsJoined
    <2>7. ToSet(<<c>>) = {c}
      BY ElementsFew
    <2> QED BY <2>1, <2>2, <2>4, <2>5, <2>6, <2>7, <2>8
  <1> QED BY <1>1, <1>2

-----------------------------------------------------------------------------
(* Order and keys *)

Before(S, T) == \A a \in S, b \in T : InOrder(a, b)
Sorted(s) == \A i, j \in 1..Len(s) : i < j => InOrder(s[i], s[j])
DistinctKeys(s) == \A i, j \in 1..Len(s) : s[i].key = s[j].key => i = j

\* Two ordered sequences of which the first comes before the second.
LEMMA SortedJoined ==
    ASSUME NEW S, NEW a \in Seq(S), NEW b \in Seq(S),
           Sorted(a), Sorted(b), Before(ToSet(a), ToSet(b))
    PROVE  Sorted(a \o b)
  <1>1. PICK r \in Seq(S) :
            /\ r = a \o b /\ Len(r) = Len(a) + Len(b)
            /\ \A j \in 1..(Len(a) + Len(b)) : r[j] = IF j <= Len(a) THEN a[j] ELSE b[j - Len(a)]
    <2>1. PICK r \in Seq(S) : IsJoin(r, a, b)
      BY Joined
    <2> QED BY <2>1 DEF IsJoin
  <1>2. /\ \A i \in 1..Len(a) : a[i] \in ToSet(a)
        /\ \A i \in 1..Len(b) : b[i] \in ToSet(b)
    BY Elements, ZenonT(30)
  <1>3. Len(a) \in Nat /\ Len(b) \in Nat
    OBVIOUS
  <1>4. ASSUME NEW i \in 1..Len(r), NEW j \in 1..Len(r), i < j PROVE InOrder(r[i], r[j])
    <2>1. CASE j <= Len(a)
      <3>1. i \in 1..Len(a) /\ j \in 1..Len(a) /\ r[i] = a[i] /\ r[j] = a[j]
        BY <1>1, <1>3, <1>4, <2>1
      <3> QED BY <1>4, <3>1 DEF Sorted
    <2>2. CASE i <= Len(a) /\ ~(j <= Len(a))
      <3>1. /\ i \in 1..Len(a) /\ j - Len(a) \in 1..Len(b)
            /\ r[i] = a[i] /\ r[j] = b[j - Len(a)]
        BY <1>1, <1>3, <2>2
      <3>2. a[i] \in ToSet(a) /\ b[j - Len(a)] \in ToSet(b)
        BY <1>2, <3>1
      <3> QED BY <3>1, <3>2 DEF Before
    <2>3. CASE ~(i <= Len(a))
      <3>1. /\ i - Len(a) \in 1..Len(b) /\ j - Len(a) \in 1..Len(b) /\ i - Len(a) < j - Len(a)
            /\ r[i] = b[i - Len(a)] /\ r[j] = b[j - Len(a)]
        BY <1>1, <1>3, <1>4, <2>3
      <3> QED BY <3>1 DEF Sorted
    <2> QED BY <1>1, <1>3, <1>4, <2>1, <2>2, <2>3
  <1> QED BY <1>1, <1>4 DEF Sorted

\* One more command that comes after all others.
LEMMA SortedAppended ==
    ASSUME NEW S, NEW s \in Seq(S), NEW x \in S, Sorted(s), Before(ToSet(s), {x})
    PROVE  Sorted(Append(s, x))
  <1>1. <<x>> \in Seq(S) /\ Append(s, x) = s \o <<x>>
    OBVIOUS
  <1>2. Sorted(<<x>>)
    BY DEF Sorted
  <1>3. Before(ToSet(s), ToSet(<<x>>))
    BY ElementsFew
  <1> QED BY <1>1, <1>2, <1>3, SortedJoined

\* The first command of an ordered sequence comes before the rest.
LEMMA SortedTaken ==
    ASSUME NEW S, NEW s \in Seq(S), s # <<>>, Sorted(s)
    PROVE  Sorted(Tail(s)) /\ Before({Head(s)}, ToSet(Tail(s)))
  <1>1. /\ Head(s) \in S /\ Tail(s) \in Seq(S) /\ Head(s) = s[1]
        /\ Len(Tail(s)) = Len(s) - 1 /\ Len(s) >= 1
        /\ \A j \in 1..(Len(s) - 1) : Tail(s)[j] = s[j + 1]
    BY HeadAndTail, ZenonT(30)
  <1>2. PICK r \in Seq(S) : r = Tail(s)
    BY <1>1, Zenon
  <1>3. Len(s) \in Nat /\ Len(r) = Len(s) - 1 /\ \A j \in 1..Len(r) : r[j] = s[j + 1]
    BY <1>1, <1>2
  <1>4. ASSUME NEW i \in 1..Len(r), NEW j \in 1..Len(r), i < j PROVE InOrder(r[i], r[j])
    <2>1. i + 1 \in 1..Len(s) /\ j + 1 \in 1..Len(s) /\ i + 1 < j + 1
      BY <1>3, <1>4
    <2> QED BY <1>3, <2>1 DEF Sorted
  <1>5. ASSUME NEW x \in ToSet(r) PROVE InOrder(Head(s), x)
    <2>1. PICK j \in 1..Len(r) : x = r[j]
      BY Elements
    <2>2. 1 \in 1..Len(s) /\ j + 1 \in 1..Len(s) /\ 1 < j + 1 /\ x = s[j + 1]
      BY <1>1, <1>3, <2>1
    <2> QED BY <1>1, <2>2 DEF Sorted
  <1> QED BY <1>2, <1>4, <1>5 DEF Sorted, Before

\* Distinct keys stay distinct without one of the commands, whose key is gone.
LEMMA DistinctTaken ==
    ASSUME NEW S, NEW s \in Seq(S), DistinctKeys(s), NEW i \in 1..Len(s)
    PROVE  /\ DistinctKeys(RemoveAt(s, i))
           /\ \A x \in ToSet(RemoveAt(s, i)) : x.key # s[i].key
  <1>1. /\ RemoveAt(s, i) \in Seq(S) /\ Len(RemoveAt(s, i)) = Len(s) - 1
        /\ \A j \in 1..(Len(s) - 1) : RemoveAt(s, i)[j] = IF j < i THEN s[j] ELSE s[j + 1]
    BY Removed, ZenonT(30)
  <1>2. PICK r \in Seq(S) : r = RemoveAt(s, i)
    BY <1>1, Zenon
  <1>3. /\ Len(s) \in Nat /\ Len(r) = Len(s) - 1
        /\ \A j \in 1..Len(r) : r[j] = IF j < i THEN s[j] ELSE s[j + 1]
    BY <1>1, <1>2
  <1> DEFINE At(j) == IF j < i THEN j ELSE j + 1
  <1>4. \A j \in 1..Len(r) : At(j) \in 1..Len(s) /\ At(j) # i /\ r[j] = s[At(j)]
    BY <1>3
  <1>5. \A j, k \in 1..Len(r) : At(j) = At(k) => j = k
    BY <1>3
  <1> HIDE DEF At
  <1>6. DistinctKeys(r)
    BY <1>4, <1>5 DEF DistinctKeys
  <1>7. ASSUME NEW x \in ToSet(r) PROVE x.key # s[i].key
    <2>1. PICK j \in 1..Len(r) : x = r[j]
      BY Elements
    <2> QED BY <1>4, <2>1 DEF DistinctKeys
  <1> QED BY <1>2, <1>6, <1>7

\* A command with a new key.
LEMMA DistinctAppended ==
    ASSUME NEW S, NEW s \in Seq(S), DistinctKeys(s), NEW x \in S,
           \A y \in ToSet(s) : y.key # x.key
    PROVE  DistinctKeys(Append(s, x))
  <1>0. Append(s, x) \in Seq(S)
    OBVIOUS
  <1>1. PICK r \in Seq(S) : r = Append(s, x)
    BY <1>0
  <1>2. /\ Len(s) \in Nat /\ Len(r) = Len(s) + 1 /\ r[Len(s) + 1] = x
        /\ \A j \in 1..Len(s) : r[j] = s[j]
    BY <1>1
  <1>3. \A j \in 1..Len(s) : s[j].key # x.key
    BY Elements
  <1>4. \A j \in 1..Len(r) : j \in 1..Len(s) \/ j = Len(s) + 1
    BY <1>2
  <1>5. ASSUME NEW j \in 1..Len(r), NEW k \in 1..Len(r), r[j].key = r[k].key PROVE j = k
    <2>1. CASE j \in 1..Len(s) /\ k \in 1..Len(s)
      BY <1>2, <1>5, <2>1 DEF DistinctKeys
    <2>2. CASE j \in 1..Len(s) /\ k = Len(s) + 1
      BY <1>2, <1>3, <1>5, <2>2
    <2>3. CASE k \in 1..Len(s) /\ j = Len(s) + 1
      BY <1>2, <1>3, <1>5, <2>3
    <2> QED BY <1>4, <2>1, <2>2, <2>3
  <1> QED BY <1>1, <1>5 DEF DistinctKeys

-----------------------------------------------------------------------------
(* Bytes and observations *)

ByteOf == [c \in Commands |-> c.bytes]
CountOf == [c \in Commands |-> Observations(c)]

\* The fields of a command.
LEMMA Fields ==
    ASSUME NEW c \in Commands
    PROVE  /\ c.key \in Keys \cup {NoKey} /\ c.kind \in Kinds \cup {"flush", "none"}
           /\ c.parts \in Seq(Nat) /\ c.omitted \in Nat /\ c.bytes \in Nat
           /\ Observations(c) \in Nat
  BY DEF Commands, Observations

\* What the bytes of a sequence of commands are.
LEMMA BytesLaws ==
    ASSUME NEW s \in Seq(Commands)
    PROVE  /\ Bytes(s) \in Nat /\ Bytes(<<>>) = 0
           /\ \A t \in Seq(Commands) : Bytes(s \o t) = Bytes(s) + Bytes(t)
           /\ \A c \in Commands : Bytes(Append(s, c)) = Bytes(s) + c.bytes
           /\ s # <<>> => Bytes(s) = Head(s).bytes + Bytes(Tail(s))
           /\ \A i \in 1..Len(s) : Bytes(s) = Bytes(RemoveAt(s, i)) + s[i].bytes
  <1>1. PICK w \in [Commands -> Nat] : \A c \in Commands : w[c] = c.bytes
    <2>1. ByteOf \in [Commands -> Nat] /\ \A c \in Commands : ByteOf[c] = c.bytes
      BY Fields DEF ByteOf
    <2> QED BY <2>1
  <1>2. ASSUME NEW r \in Seq(Commands) PROVE Bytes(r) = Weigh(r, w)
    <2>1. \A i \in 1..Len(r) : w[r[i]] = r[i].bytes
      BY <1>1
    <2>2. [i \in 1..Len(r) |-> w[r[i]]] = [i \in 1..Len(r) |-> r[i].bytes]
      BY <2>1
    <2> QED BY <2>2 DEF Bytes, Weigh
  <1>3. <<>> \in Seq(Commands)
    OBVIOUS
  <1>4. Bytes(s) \in Nat /\ Bytes(<<>>) = 0
    <2>1. Weigh(s, w) \in Nat /\ Weigh(<<>>, w) = 0
      BY WeighBasics
    <2> QED BY <1>2, <1>3, <2>1
  <1>5. ASSUME NEW t \in Seq(Commands) PROVE Bytes(s \o t) = Bytes(s) + Bytes(t)
    <2>1. Weigh(s \o t, w) = Weigh(s, w) + Weigh(t, w)
      BY WeighConcat
    <2>2. s \o t \in Seq(Commands)
      OBVIOUS
    <2> QED BY <1>2, <2>1, <2>2
  <1>6. ASSUME NEW c \in Commands PROVE Bytes(Append(s, c)) = Bytes(s) + c.bytes
    <2>1. Weigh(Append(s, c), w) = Weigh(s, w) + w[c]
      BY WeighOne
    <2>2. Append(s, c) \in Seq(Commands)
      OBVIOUS
    <2> QED BY <1>1, <1>2, <2>1, <2>2
  <1>7. ASSUME s # <<>> PROVE Bytes(s) = Head(s).bytes + Bytes(Tail(s))
    <2>1. Weigh(s, w) = w[Head(s)] + Weigh(Tail(s), w)
      BY <1>7, WeighOne
    <2>2. Head(s) \in Commands /\ Tail(s) \in Seq(Commands)
      BY <1>7, HeadAndTail
    <2> QED BY <1>1, <1>2, <2>1, <2>2
  <1>8. ASSUME NEW i \in 1..Len(s) PROVE Bytes(s) = Bytes(RemoveAt(s, i)) + s[i].bytes
    <2>1. Weigh(s, w) = Weigh(RemoveAt(s, i), w) + w[s[i]]
      BY WeighOne
    <2>2. RemoveAt(s, i) \in Seq(Commands)
      BY Removed
    <2>3. s[i] \in Commands
      OBVIOUS
    <2> QED BY <1>1, <1>2, <2>1, <2>2, <2>3
  <1> QED BY <1>4, <1>5, <1>6, <1>7, <1>8

\* What a sequence of commands stands for.
LEMMA CoveredLaws ==
    ASSUME NEW s \in Seq(Commands)
    PROVE  /\ Covered(s) \in Nat /\ Covered(<<>>) = 0
           /\ \A t \in Seq(Commands) : Covered(s \o t) = Covered(s) + Covered(t)
           /\ \A c \in Commands : Covered(Append(s, c)) = Covered(s) + Observations(c)
           /\ s # <<>> => Covered(s) = Observations(Head(s)) + Covered(Tail(s))
           /\ \A i \in 1..Len(s) : Covered(s) = Covered(RemoveAt(s, i)) + Observations(s[i])
  <1>1. PICK w \in [Commands -> Nat] : \A c \in Commands : w[c] = Observations(c)
    <2>1. CountOf \in [Commands -> Nat] /\ \A c \in Commands : CountOf[c] = Observations(c)
      BY Fields DEF CountOf
    <2> QED BY <2>1
  <1>2. ASSUME NEW r \in Seq(Commands) PROVE Covered(r) = Weigh(r, w)
    <2>1. \A i \in 1..Len(r) : w[r[i]] = Observations(r[i])
      BY <1>1
    <2>2. [i \in 1..Len(r) |-> w[r[i]]] = [i \in 1..Len(r) |-> Observations(r[i])]
      BY <2>1
    <2> QED BY <2>2 DEF Covered, Weigh
  <1>3. <<>> \in Seq(Commands)
    OBVIOUS
  <1>4. Covered(s) \in Nat /\ Covered(<<>>) = 0
    <2>1. Weigh(s, w) \in Nat /\ Weigh(<<>>, w) = 0
      BY WeighBasics
    <2> QED BY <1>2, <1>3, <2>1
  <1>5. ASSUME NEW t \in Seq(Commands) PROVE Covered(s \o t) = Covered(s) + Covered(t)
    <2>1. Weigh(s \o t, w) = Weigh(s, w) + Weigh(t, w)
      BY WeighConcat
    <2>2. s \o t \in Seq(Commands)
      OBVIOUS
    <2> QED BY <1>2, <2>1, <2>2
  <1>6. ASSUME NEW c \in Commands PROVE Covered(Append(s, c)) = Covered(s) + Observations(c)
    <2>1. Weigh(Append(s, c), w) = Weigh(s, w) + w[c]
      BY WeighOne
    <2>2. Append(s, c) \in Seq(Commands)
      OBVIOUS
    <2> QED BY <1>1, <1>2, <2>1, <2>2
  <1>7. ASSUME s # <<>> PROVE Covered(s) = Observations(Head(s)) + Covered(Tail(s))
    <2>1. Weigh(s, w) = w[Head(s)] + Weigh(Tail(s), w)
      BY <1>7, WeighOne
    <2>2. Head(s) \in Commands /\ Tail(s) \in Seq(Commands)
      BY <1>7, HeadAndTail
    <2> QED BY <1>1, <1>2, <2>1, <2>2
  <1>8. ASSUME NEW i \in 1..Len(s)
        PROVE  Covered(s) = Covered(RemoveAt(s, i)) + Observations(s[i])
    <2>1. Weigh(s, w) = Weigh(RemoveAt(s, i), w) + w[s[i]]
      BY WeighOne
    <2>2. RemoveAt(s, i) \in Seq(Commands)
      BY Removed
    <2>3. s[i] \in Commands
      OBVIOUS
    <2> QED BY <1>1, <1>2, <2>1, <2>2, <2>3
  <1> QED BY <1>4, <1>5, <1>6, <1>7, <1>8

-----------------------------------------------------------------------------
(* What the operations make of a queue *)

Queues == [commands: Seq(Commands), live: Seq(Commands), commandBytes: Nat, liveBytes: Nat,
           closed: BOOLEAN]

\* A queue within its limits whose byte counters are exact.
Sound(q) ==
    /\ q \in Queues
    /\ Len(q.commands) + Len(q.live) <= MaxCommands /\ Len(q.live) <= MaxLive
    /\ q.commandBytes + q.liveBytes <= MaxBytes
    /\ q.commandBytes = Bytes(q.commands) /\ q.liveBytes = Bytes(q.live)

\* The ways in which a queue takes a command, and how it is closed.
Flushed(q, r, c) == r.commands = Append(q.commands \o q.live, c) /\ r.live = <<>>
Added(q, r, e) ==
    /\ \A x \in ToSet(q.live) : x.key # e.key
    /\ r.commands = q.commands /\ r.live = Append(q.live, e)
Moved(q, r, e, i) ==
    /\ q.live[i].key = e.key \/ \A x \in ToSet(q.live) : x.key # e.key
    /\ r.commands = Append(q.commands, q.live[i])
    /\ r.live = Append(RemoveAt(q.live, i), e)
Merged(q, r, e, i) ==
    /\ q.live[i].key = e.key /\ q.live[i].kind = e.kind
    /\ r.commands = q.commands
    /\ r.live = Append(RemoveAt(q.live, i), Coalesce(q.live[i], e))

\* The constants of the limits.
LEMMA Limits ==
    /\ FactBytes \in Nat /\ MaxCommands \in Nat /\ MaxBytes \in Nat /\ MaxLive \in Nat
    /\ MaxLive > 0 /\ MaxEmits \in Nat /\ MaxFlushes \in Nat
  BY LimitsAssumption, BoundsAssumption

\* The fields of a queue.
LEMMA QueueFields ==
    ASSUME NEW q \in Queues
    PROVE  /\ q.commands \in Seq(Commands) /\ q.live \in Seq(Commands)
           /\ q.commandBytes \in Nat /\ q.liveBytes \in Nat /\ q.closed \in BOOLEAN
           /\ Len(q.commands) \in Nat /\ Len(q.live) \in Nat
           /\ q = [commands |-> q.commands, live |-> q.live, commandBytes |-> q.commandBytes,
                   liveBytes |-> q.liveBytes, closed |-> q.closed]
  <1>1. /\ q.commands \in Seq(Commands) /\ q.live \in Seq(Commands)
        /\ q.commandBytes \in Nat /\ q.liveBytes \in Nat /\ q.closed \in BOOLEAN
        /\ q = [commands |-> q.commands, live |-> q.live, commandBytes |-> q.commandBytes,
                liveBytes |-> q.liveBytes, closed |-> q.closed]
    BY DEF Queues
  <1> QED BY <1>1

\* push_lossless: the live lane goes first, and the limits hold.
LEMMA LosslessShape ==
    ASSUME NEW q, Sound(q), NEW c \in Commands, NEW r \in PushLossless(q, c)
    PROVE  Sound(r) /\ r.closed = q.closed /\ Flushed(q, r, c)
  <1>0. q = [commands |-> q.commands, live |-> q.live, commandBytes |-> q.commandBytes,
             liveBytes |-> q.liveBytes, closed |-> q.closed]
    BY QueueFields DEF Sound
  <1>1. /\ q.commands \in Seq(Commands) /\ q.live \in Seq(Commands)
        /\ q.commandBytes \in Nat /\ q.liveBytes \in Nat /\ q.closed \in BOOLEAN
        /\ Len(q.commands) \in Nat /\ Len(q.live) \in Nat
    BY QueueFields DEF Sound
  <1>2. FitsLimits(q, 1, c.bytes) /\ c.bytes \in Nat
    BY Fields DEF PushLossless
  <1>3. r = [commands |-> Append(q.commands \o q.live, c), live |-> <<>>,
             commandBytes |-> (q.commandBytes + Bytes(q.live)) + c.bytes,
             liveBytes |-> q.liveBytes - Bytes(q.live), closed |-> q.closed]
    BY <1>0, <1>2 DEF PushLossless, FlushPendingLive
  <1>4. PICK j \in Seq(Commands) : j = q.commands \o q.live /\ Len(j) = Len(q.commands) + Len(q.live)
    <2>1. PICK j \in Seq(Commands) : IsJoin(j, q.commands, q.live)
      BY <1>1, Joined
    <2> QED BY <2>1 DEF IsJoin
  <1>5. PICK C \in Seq(Commands) : C = Append(j, c) /\ Len(C) = Len(j) + 1
    <2>1. Append(j, c) \in Seq(Commands) /\ Len(Append(j, c)) = Len(j) + 1
      OBVIOUS
    <2> QED BY <2>1
  <1>6. Bytes(j) = Bytes(q.commands) + Bytes(q.live)
    BY <1>1, <1>4, BytesLaws
  <1>7. Bytes(C) = Bytes(j) + c.bytes /\ Bytes(<<>>) = 0
    BY <1>5, BytesLaws
  <1>8. /\ q.commandBytes = Bytes(q.commands) /\ q.liveBytes = Bytes(q.live)
        /\ Len(q.commands) + Len(q.live) + 1 <= MaxCommands
        /\ q.commandBytes + q.liveBytes + c.bytes <= MaxBytes
    BY <1>2 DEF Sound, FitsLimits
  <1>9. PICK m \in Nat : m = (q.commandBytes + Bytes(q.live)) + c.bytes
    BY <1>1, <1>2, <1>8
  <1>10. r = [commands |-> C, live |-> <<>>, commandBytes |-> m, liveBytes |-> 0,
              closed |-> q.closed]
    <2>1. q.liveBytes - Bytes(q.live) = 0
      BY <1>1, <1>8
    <2> QED BY <1>3, <1>4, <1>5, <1>9, <2>1
  <1>11. /\ r \in Queues /\ r.commands = C /\ r.live = <<>> /\ r.commandBytes = m
         /\ r.liveBytes = 0 /\ r.closed = q.closed
    <2>1. <<>> \in Seq(Commands) /\ 0 \in Nat
      OBVIOUS
    <2> QED BY <1>1, <1>10, <2>1 DEF Queues
  <1>12. Len(r.commands) + Len(r.live) <= MaxCommands /\ Len(r.live) <= MaxLive
    <2>1. Len(r.commands) = Len(q.commands) + Len(q.live) + 1 /\ Len(r.live) = 0
      BY <1>4, <1>5, <1>11
    <2>2. PICK k \in Nat, l \in Nat : k = Len(q.commands) /\ l = Len(q.live)
      BY <1>1
    <2>3. k + l + 1 <= MaxCommands
      BY <1>8, <2>2
    <2>4. k + l + 1 + 0 <= MaxCommands /\ 0 <= MaxLive
      BY <2>3, Limits
    <2> QED BY <2>1, <2>2, <2>4
  <1>13. m = Bytes(C) /\ m <= MaxBytes
    BY <1>1, <1>2, <1>6, <1>7, <1>8, <1>9
  <1>14. r.commandBytes + r.liveBytes <= MaxBytes
    BY <1>11, <1>13, Limits
  <1>15. Sound(r)
    BY <1>7, <1>11, <1>12, <1>13, <1>14 DEF Sound
  <1> QED BY <1>4, <1>5, <1>11, <1>15 DEF Flushed

\* Closing moves the live lane behind the commands.
LEMMA CloseShape ==
    ASSUME NEW q, Sound(q), NEW r, r = CloseState(q)
    PROVE  Sound(r) /\ r.closed /\ r.commands = q.commands \o q.live /\ r.live = <<>>
  <1>0. q = [commands |-> q.commands, live |-> q.live, commandBytes |-> q.commandBytes,
             liveBytes |-> q.liveBytes, closed |-> q.closed]
    BY QueueFields DEF Sound
  <1>1. /\ q.commands \in Seq(Commands) /\ q.live \in Seq(Commands)
        /\ q.commandBytes \in Nat /\ q.liveBytes \in Nat /\ q.closed \in BOOLEAN
        /\ Len(q.commands) \in Nat /\ Len(q.live) \in Nat
    BY QueueFields DEF Sound
  <1>2. r = [commands |-> q.commands \o q.live, live |-> <<>>,
             commandBytes |-> q.commandBytes + Bytes(q.live),
             liveBytes |-> q.liveBytes - Bytes(q.live), closed |-> TRUE]
    BY <1>0 DEF CloseState, FlushPendingLive
  <1>3. PICK C \in Seq(Commands) : C = q.commands \o q.live /\ Len(C) = Len(q.commands) + Len(q.live)
    <2>1. PICK C \in Seq(Commands) : IsJoin(C, q.commands, q.live)
      BY <1>1, Joined
    <2> QED BY <2>1 DEF IsJoin
  <1>4. Bytes(C) = Bytes(q.commands) + Bytes(q.live) /\ Bytes(<<>>) = 0
    BY <1>1, <1>3, BytesLaws
  <1>5. /\ q.commandBytes = Bytes(q.commands) /\ q.liveBytes = Bytes(q.live)
        /\ Len(q.commands) + Len(q.live) <= MaxCommands
        /\ q.commandBytes + q.liveBytes <= MaxBytes
    BY DEF Sound
  <1>6. PICK m \in Nat : m = q.commandBytes + Bytes(q.live)
    BY <1>1, <1>5
  <1>7. r = [commands |-> C, live |-> <<>>, commandBytes |-> m, liveBytes |-> 0, closed |-> TRUE]
    <2>1. q.liveBytes - Bytes(q.live) = 0
      BY <1>1, <1>5
    <2> QED BY <1>2, <1>3, <1>6, <2>1
  <1>8. /\ r \in Queues /\ r.commands = C /\ r.live = <<>> /\ r.commandBytes = m
        /\ r.liveBytes = 0 /\ r.closed = TRUE
    <2>1. <<>> \in Seq(Commands) /\ 0 \in Nat /\ TRUE \in BOOLEAN
      OBVIOUS
    <2> QED BY <1>7, <2>1 DEF Queues
  <1>9. Len(r.commands) + Len(r.live) <= MaxCommands /\ Len(r.live) <= MaxLive
    <2>1. Len(r.commands) = Len(q.commands) + Len(q.live) /\ Len(r.live) = 0
      BY <1>3, <1>8
    <2>2. PICK k \in Nat, l \in Nat : k = Len(q.commands) /\ l = Len(q.live)
      BY <1>1
    <2>3. k + l <= MaxCommands
      BY <1>5, <2>2
    <2>4. k + l + 0 <= MaxCommands /\ 0 <= MaxLive
      BY <2>3, Limits
    <2> QED BY <2>1, <2>2, <2>4
  <1>10. m = Bytes(C) /\ m <= MaxBytes
    BY <1>1, <1>4, <1>5, <1>6
  <1>11. r.commandBytes + r.liveBytes <= MaxBytes
    BY <1>8, <1>10, Limits
  <1>12. Sound(r)
    BY <1>4, <1>8, <1>9, <1>10, <1>11 DEF Sound
  <1> QED BY <1>3, <1>8, <1>12

\* What a coalesced event is: of the same key and kind, and one more observation.
LEMMA CoalesceShape ==
    ASSUME NEW old \in Commands, NEW key \in Keys, NEW kind \in StreamKinds \cup {"progress"},
           NEW n \in Nat, old.key = key, old.kind = kind
    PROVE  LET e == NewEvent(key, kind, n)
               next == Coalesce(old, e) IN
           /\ next \in Commands /\ next.key = key /\ next.kind = kind
           /\ next.omitted = old.omitted + 1
           /\ next.bytes \in Nat
           /\ next.parts = IF kind \in MergingKinds THEN old.parts \o <<n>> ELSE <<n>>
  <1> DEFINE e == NewEvent(key, kind, n)
             next == Coalesce(old, e)
  <1>1. /\ old.key \in Keys \cup {NoKey} /\ old.kind \in Kinds \cup {"flush", "none"}
        /\ old.parts \in Seq(Nat) /\ old.omitted \in Nat /\ old.bytes \in Nat
    BY Fields
  <1>2. old = [key |-> old.key, kind |-> old.kind, parts |-> old.parts, omitted |-> old.omitted,
               bytes |-> old.bytes]
    BY DEF Commands
  <1>3. key # NoKey /\ kind \in Kinds
    BY KeysAssumption DEF Keys, Kinds
  <1>4. e = [key |-> key, kind |-> kind, parts |-> <<n>>, omitted |-> 0, bytes |-> 2]
    BY <1>3 DEF NewEvent, Event, PayloadBytes
  <1>5. <<n>> \in Seq(Nat) /\ old.parts \o <<n>> \in Seq(Nat)
    BY <1>1
  <1>6. CASE kind \in MergingKinds
    <2>1. next = [key |-> key, kind |-> kind, parts |-> old.parts \o <<n>>,
                  omitted |-> old.omitted + 1, bytes |-> old.bytes + 1]
      <3>1. next = [old EXCEPT !.parts = @ \o e.parts, !.omitted = @ + 1, !.bytes = @ + 1]
        BY <1>4, <1>6 DEF Coalesce, PayloadBytes
      <3>2. e.parts = <<n>>
        BY <1>4
      <3> HIDE DEF next, e
      <3> QED BY <1>2, <3>1, <3>2
    <2>2. old.omitted + 1 \in Nat /\ old.bytes + 1 \in Nat
      BY <1>1
    <2> HIDE DEF next
    <2>3. next \in Commands
      BY <1>3, <1>5, <2>1, <2>2 DEF Commands
    <2> QED BY <1>6, <2>1, <2>2, <2>3 DEF next
  <1>7. CASE kind \notin MergingKinds
    <2>1. next = [key |-> key, kind |-> kind, parts |-> <<n>>, omitted |-> old.omitted + 1,
                  bytes |-> 2]
      BY <1>4, <1>7 DEF Coalesce
    <2>2. old.omitted + 1 \in Nat
      BY <1>1
    <2> HIDE DEF next
    <2>3. next \in Commands
      BY <1>3, <1>5, <2>1, <2>2 DEF Commands
    <2> QED BY <1>7, <2>1, <2>2, <2>3 DEF next
  <1> QED BY <1>6, <1>7

\* A queue without the i-th of its live events and with e behind them; the i-th
\* event is gone or, if the flag says so, has become a command.
Renewal(q, e, i, with) ==
    [commands |-> IF with THEN Append(q.commands, q.live[i]) ELSE q.commands,
     live |-> Append(RemoveAt(q.live, i), e),
     commandBytes |-> IF with THEN q.commandBytes + q.live[i].bytes ELSE q.commandBytes,
     liveBytes |-> (q.liveBytes - q.live[i].bytes) + e.bytes,
     closed |-> q.closed]
Renewed(q, r, e, i, with) ==
    /\ r.commands = IF with THEN Append(q.commands, q.live[i]) ELSE q.commands
    /\ r.live = Append(RemoveAt(q.live, i), e)

\* Replacing a live event keeps a queue sound if the limits leave room for it.
LEMMA RenewedSound ==
    ASSUME NEW q, Sound(q), NEW e \in Commands, NEW i \in 1..Len(q.live), NEW with \in BOOLEAN,
           NEW r, r = Renewal(q, e, i, with),
           with => FitsLimits(q, 1, e.bytes),
           ~with => FitsLimits(q, 0, e.bytes - q.live[i].bytes)
    PROVE  Sound(r) /\ r.closed = q.closed /\ Renewed(q, r, e, i, with)
  <1>1. /\ q.commands \in Seq(Commands) /\ q.live \in Seq(Commands)
        /\ q.commandBytes \in Nat /\ q.liveBytes \in Nat /\ q.closed \in BOOLEAN
        /\ Len(q.commands) \in Nat /\ Len(q.live) \in Nat
    BY QueueFields DEF Sound
  <1>2. PICK x \in Commands : x = q.live[i] /\ x.bytes \in Nat /\ e.bytes \in Nat
    BY <1>1, Fields
  <1>3. PICK t \in Seq(Commands) : t = RemoveAt(q.live, i) /\ Len(t) = Len(q.live) - 1
    <2>1. RemoveAt(q.live, i) \in Seq(Commands) /\ Len(RemoveAt(q.live, i)) = Len(q.live) - 1
      BY <1>1, Removed
    <2> QED BY <2>1
  <1>4. PICK L \in Seq(Commands) : L = Append(t, e) /\ Len(L) = Len(q.live)
    <2>1. Append(t, e) \in Seq(Commands) /\ Len(Append(t, e)) = Len(t) + 1
      OBVIOUS
    <2>2. Len(t) \in Nat /\ Len(q.live) \in Nat /\ Len(t) = Len(q.live) - 1
      BY <1>1, <1>3
    <2>3. Len(t) + 1 = Len(q.live)
      BY <2>2
    <2> QED BY <2>1, <2>3
  <1>5. /\ Bytes(L) = Bytes(t) + e.bytes /\ Bytes(t) \in Nat
        /\ Bytes(q.live) = Bytes(t) + x.bytes
    <2>1. Bytes(L) = Bytes(t) + e.bytes /\ Bytes(t) \in Nat
      BY <1>4, BytesLaws
    <2>2. Bytes(q.live) = Bytes(RemoveAt(q.live, i)) + q.live[i].bytes
      BY <1>1, BytesLaws
    <2> QED BY <1>2, <1>3, <2>1, <2>2
  <1>6. /\ q.commandBytes = Bytes(q.commands) /\ q.liveBytes = Bytes(q.live)
        /\ Len(q.commands) + Len(q.live) <= MaxCommands /\ Len(q.live) <= MaxLive
    BY DEF Sound
  <1>7. PICK n \in Nat : n = (q.liveBytes - x.bytes) + e.bytes /\ n = Bytes(L)
    <2>1. PICK k \in Nat, y \in Nat, z \in Nat : k = Bytes(t) /\ y = x.bytes /\ z = e.bytes
      BY <1>2, <1>5
    <2>2. q.liveBytes = k + y /\ Bytes(L) = k + z
      BY <1>5, <1>6, <2>1
    <2>3. ((k + y) - y) + z = k + z /\ k + z \in Nat
      OBVIOUS
    <2> QED BY <2>1, <2>2, <2>3
  <1>8. CASE with
    <2>1. PICK C \in Seq(Commands) :
              C = Append(q.commands, x) /\ Len(C) = Len(q.commands) + 1
      <3>1. Append(q.commands, x) \in Seq(Commands) /\ Len(Append(q.commands, x)) = Len(q.commands) + 1
        BY <1>1
      <3> QED BY <3>1
    <2>2. Bytes(C) = Bytes(q.commands) + x.bytes
      BY <1>1, <2>1, BytesLaws
    <2>3. PICK m \in Nat : m = q.commandBytes + x.bytes /\ m = Bytes(C)
      BY <1>1, <1>2, <1>6, <2>2
    <2>4. r = [commands |-> C, live |-> L, commandBytes |-> m, liveBytes |-> n, closed |-> q.closed]
      BY <1>2, <1>3, <1>4, <1>7, <1>8, <2>1, <2>3 DEF Renewal
    <2>5. /\ r \in Queues /\ r.commands = C /\ r.live = L /\ r.commandBytes = m
          /\ r.liveBytes = n /\ r.closed = q.closed
      BY <1>1, <2>4 DEF Queues
    <2>6. /\ Len(q.commands) + Len(q.live) + 1 <= MaxCommands
          /\ q.commandBytes + q.liveBytes + e.bytes <= MaxBytes
      BY <1>8 DEF FitsLimits
    <2>7. Len(C) + Len(L) <= MaxCommands /\ Len(L) <= MaxLive
      <3>1. PICK k \in Nat, l \in Nat : k = Len(q.commands) /\ l = Len(q.live)
        BY <1>1
      <3>2. Len(C) = k + 1 /\ Len(L) = l /\ k + l + 1 <= MaxCommands /\ l <= MaxLive
        BY <1>4, <1>6, <2>1, <2>6, <3>1
      <3> QED BY <3>2, Limits
    <2>8. m + n <= MaxBytes
      <3>1. PICK k \in Nat, l \in Nat : k = q.commandBytes /\ l = q.liveBytes
        BY <1>1
      <3>2. PICK v \in Nat, u \in Nat : v = x.bytes /\ u = e.bytes
        BY <1>2
      <3>3. m = k + v /\ n = (l - v) + u /\ k + l + u <= MaxBytes
        BY <1>7, <2>3, <2>6, <3>1, <3>2
      <3> QED BY <3>3, Limits
    <2>9. Sound(r)
      BY <1>7, <2>3, <2>5, <2>7, <2>8 DEF Sound
    <2> QED BY <1>2, <1>3, <1>4, <1>8, <2>1, <2>5, <2>9 DEF Renewed
  <1>9. CASE ~with
    <2>4. r = [commands |-> q.commands, live |-> L, commandBytes |-> q.commandBytes,
               liveBytes |-> n, closed |-> q.closed]
      BY <1>2, <1>3, <1>4, <1>7, <1>9 DEF Renewal
    <2>5. /\ r \in Queues /\ r.commands = q.commands /\ r.live = L
          /\ r.commandBytes = q.commandBytes /\ r.liveBytes = n /\ r.closed = q.closed
      BY <1>1, <2>4 DEF Queues
    <2>6. q.commandBytes + q.liveBytes + (e.bytes - x.bytes) <= MaxBytes
      BY <1>2, <1>9 DEF FitsLimits
    <2>7. Len(q.commands) + Len(L) <= MaxCommands /\ Len(L) <= MaxLive
      BY <1>1, <1>4, <1>6, Limits
    <2>8. q.commandBytes + n <= MaxBytes
      <3>1. PICK k \in Nat, l \in Nat : k = q.commandBytes /\ l = q.liveBytes
        BY <1>1
      <3>2. PICK v \in Nat, u \in Nat : v = x.bytes /\ u = e.bytes
        BY <1>2
      <3>3. n = (l - v) + u /\ k + l + (u - v) <= MaxBytes
        BY <1>7, <2>6, <3>1, <3>2
      <3>4. k + n <= MaxBytes
        BY <3>3, Limits
      <3> QED BY <3>1, <3>4
    <2>9. Sound(r)
      BY <1>6, <1>7, <2>5, <2>7, <2>8 DEF Sound
    <2> QED BY <1>3, <1>4, <1>9, <2>5, <2>9 DEF Renewed
  <1> QED BY <1>8, <1>9

\* A new event of the emitted observations.
LEMMA NewEventShape ==
    ASSUME NEW key \in Keys \cup {NoKey}, NEW kind \in Kinds, NEW n \in Nat
    PROVE  LET e == NewEvent(key, kind, n) IN
           /\ e \in Commands /\ e.key = key /\ e.kind = kind /\ e.parts = <<n>> /\ e.omitted = 0
           /\ e.bytes \in Nat
  <1>1. <<n>> \in Seq(Nat) /\ 0 \in Nat /\ 2 \in Nat /\ FactBytes \in Nat
    BY Limits
  <1>2. PICK b \in Nat : b = IF key = NoKey THEN FactBytes ELSE 1 + PayloadBytes
    BY <1>1 DEF PayloadBytes
  <1>3. PICK e : e = NewEvent(key, kind, n)
    OBVIOUS
  <1>4. e = [key |-> key, kind |-> kind, parts |-> <<n>>, omitted |-> 0, bytes |-> b]
    BY <1>2, <1>3 DEF NewEvent, Event
  <1>5. e \in Commands
    BY <1>1, <1>4 DEF Commands
  <1> QED BY <1>3, <1>4, <1>5

\* Flushes and the absence of a command.
LEMMA FlushShape ==
    /\ \A n \in Nat : /\ FlushCommand(n) \in Commands /\ FlushCommand(n).key = NoKey
                      /\ FlushCommand(n).kind = "flush" /\ FlushCommand(n).parts = <<n>>
                      /\ FlushCommand(n).bytes = 0 /\ Observations(FlushCommand(n)) = 0
                      /\ ~IsEvent(FlushCommand(n))
    /\ /\ NoCommand \in Commands /\ NoCommand.kind = "none" /\ Observations(NoCommand) = 0
       /\ ~IsEvent(NoCommand)
  <1>1. "flush" \notin Kinds /\ "none" \notin Kinds
    BY DEF Kinds, StreamKinds, MergingKinds
  <1>2. ASSUME NEW n \in Nat
        PROVE  /\ FlushCommand(n) \in Commands /\ FlushCommand(n).key = NoKey
               /\ FlushCommand(n).kind = "flush" /\ FlushCommand(n).parts = <<n>>
               /\ FlushCommand(n).bytes = 0
    <2>1. <<n>> \in Seq(Nat)
      OBVIOUS
    <2> QED BY <2>1 DEF FlushCommand, Event, Commands
  <1>3. NoCommand \in Commands /\ NoCommand.kind = "none"
    <2>1. <<0>> \in Seq(Nat)
      OBVIOUS
    <2> QED BY <2>1 DEF NoCommand, Event, Commands
  <1> QED BY <1>1, <1>2, <1>3 DEF Observations, IsEvent

\* A live event of a new key while the lane has room.
LEMMA AddedSound ==
    ASSUME NEW q, Sound(q), NEW e \in Commands, FitsLimits(q, 1, e.bytes), Len(q.live) < MaxLive,
           NEW r, r = PushBackLive(q, e)
    PROVE  Sound(r) /\ r.closed = q.closed /\ r.commands = q.commands /\ r.live = Append(q.live, e)
  <1>0. q = [commands |-> q.commands, live |-> q.live, commandBytes |-> q.commandBytes,
             liveBytes |-> q.liveBytes, closed |-> q.closed]
    BY QueueFields DEF Sound
  <1>1. /\ q.commands \in Seq(Commands) /\ q.live \in Seq(Commands)
        /\ q.commandBytes \in Nat /\ q.liveBytes \in Nat /\ q.closed \in BOOLEAN
        /\ Len(q.commands) \in Nat /\ Len(q.live) \in Nat
    BY QueueFields DEF Sound
  <1>2. e.bytes \in Nat
    BY Fields
  <1>3. PICK L \in Seq(Commands) : L = Append(q.live, e) /\ Len(L) = Len(q.live) + 1
    <2>1. Append(q.live, e) \in Seq(Commands) /\ Len(Append(q.live, e)) = Len(q.live) + 1
      BY <1>1
    <2> QED BY <2>1
  <1>4. Bytes(L) = Bytes(q.live) + e.bytes
    BY <1>1, <1>3, BytesLaws
  <1>5. q.commandBytes = Bytes(q.commands) /\ q.liveBytes = Bytes(q.live)
    BY DEF Sound
  <1>6. PICK n \in Nat : n = q.liveBytes + e.bytes /\ n = Bytes(L)
    BY <1>1, <1>2, <1>4, <1>5
  <1>7. r = [commands |-> q.commands, live |-> L, commandBytes |-> q.commandBytes,
             liveBytes |-> n, closed |-> q.closed]
    BY <1>0, <1>3, <1>6 DEF PushBackLive
  <1>8. /\ r \in Queues /\ r.commands = q.commands /\ r.live = L
        /\ r.commandBytes = q.commandBytes /\ r.liveBytes = n /\ r.closed = q.closed
    BY <1>1, <1>7 DEF Queues
  <1>9. Len(q.commands) + Len(L) <= MaxCommands /\ Len(L) <= MaxLive
    <2>1. PICK k \in Nat, l \in Nat : k = Len(q.commands) /\ l = Len(q.live)
      BY <1>1
    <2>2. Len(L) = l + 1 /\ k + l + 1 <= MaxCommands /\ l < MaxLive
      BY <1>3, <2>1 DEF FitsLimits
    <2>3. k + (l + 1) <= MaxCommands /\ l + 1 <= MaxLive
      BY <2>2, Limits
    <2> QED BY <2>1, <2>2, <2>3
  <1>10. q.commandBytes + n <= MaxBytes
    <2>1. PICK k \in Nat, l \in Nat, u \in Nat :
              k = q.commandBytes /\ l = q.liveBytes /\ u = e.bytes
      BY <1>1, <1>2
    <2>2. n = l + u /\ k + l + u <= MaxBytes
      BY <1>6, <2>1 DEF FitsLimits
    <2>3. k + n <= MaxBytes
      BY <2>2, Limits
    <2> QED BY <2>1, <2>3
  <1>11. Sound(r)
    BY <1>5, <1>6, <1>8, <1>9, <1>10 DEF Sound
  <1> QED BY <1>3, <1>8, <1>11

\* push_live: a new event is added, pushes one out or is merged into its predecessor.
LEMMA LiveShape ==
    ASSUME NEW q, Sound(q), NEW key \in Keys, NEW kind \in StreamKinds \cup {"progress"},
           NEW n \in Nat, NEW e, e = NewEvent(key, kind, n), NEW r \in PushLive(q, e)
    PROVE  /\ Sound(r) /\ r.closed = q.closed
           /\ \/ Added(q, r, e)
              \/ \E i \in 1..Len(q.live) : Moved(q, r, e, i) \/ Merged(q, r, e, i)
  <1>0. q = [commands |-> q.commands, live |-> q.live, commandBytes |-> q.commandBytes,
             liveBytes |-> q.liveBytes, closed |-> q.closed]
    BY QueueFields DEF Sound
  <1>1. /\ q.commands \in Seq(Commands) /\ q.live \in Seq(Commands)
        /\ q.commandBytes \in Nat /\ q.liveBytes \in Nat /\ q.closed \in BOOLEAN
        /\ Len(q.commands) \in Nat /\ Len(q.live) \in Nat
    BY QueueFields DEF Sound
  <1>2. key \in Keys \cup {NoKey} /\ kind \in Kinds
    BY DEF Kinds
  <1>3. e \in Commands /\ e.key = key /\ e.kind = kind
    BY <1>2, NewEventShape
  <1>4. CASE LiveIndexes(q, e.key) = {}
    <2>1. \A x \in ToSet(q.live) : x.key # e.key
      <3>1. \A i \in 1..Len(q.live) : q.live[i].key # e.key
        BY <1>4 DEF LiveIndexes
      <3> QED BY <1>1, <3>1, Elements
    <2>2. FitsLimits(q, 1, e.bytes) /\ r = PushBackLive(MakeRoom(q), e)
      BY <1>4 DEF PushLive
    <2>3. CASE Len(q.live) >= MaxLive
      <3>1. 1 \in 1..Len(q.live) /\ q.live # <<>> /\ Head(q.live) = q.live[1]
        BY <1>1, <2>3, Limits
      <3>2. r = PushBackLive(EnqueueLive(RemoveLive(q, 1), q.live[1]), e)
        BY <2>2, <2>3, <3>1 DEF MakeRoom
      <3>3. r = Renewal(q, e, 1, TRUE)
        BY <1>0, <3>2 DEF PushBackLive, EnqueueLive, RemoveLive, Renewal
      <3>4. Sound(r) /\ r.closed = q.closed /\ Renewed(q, r, e, 1, TRUE)
        BY <1>3, <2>2, <3>1, <3>3, RenewedSound
      <3>5. Moved(q, r, e, 1)
        BY <2>1, <3>4 DEF Moved, Renewed
      <3> QED BY <3>1, <3>4, <3>5
    <2>4. CASE ~(Len(q.live) >= MaxLive)
      <3>1. Len(q.live) < MaxLive /\ r = PushBackLive(q, e)
        BY <1>1, <2>2, <2>4, Limits DEF MakeRoom
      <3>2. /\ Sound(r) /\ r.closed = q.closed /\ r.commands = q.commands
            /\ r.live = Append(q.live, e)
        BY <1>3, <2>2, <3>1, AddedSound
      <3> QED BY <2>1, <3>2 DEF Added
    <2> QED BY <2>3, <2>4
  <1>5. CASE LiveIndexes(q, e.key) # {}
    <2>1. PICK i \in 1..Len(q.live) :
              i = (CHOOSE j \in LiveIndexes(q, e.key) : TRUE) /\ q.live[i].key = e.key
      BY <1>5 DEF LiveIndexes
    <2>2. PICK old \in Commands : old = q.live[i]
      BY <1>1
    <2>3. CASE old.kind # e.kind
      <3>1. /\ FitsLimits(q, 1, e.bytes)
            /\ r = PushBackLive(EnqueueLive(RemoveLive(q, i), q.live[i]), e)
        BY <1>5, <2>1, <2>2, <2>3 DEF PushLive
      <3>2. r = Renewal(q, e, i, TRUE)
        BY <1>0, <3>1 DEF PushBackLive, EnqueueLive, RemoveLive, Renewal
      <3>3. Sound(r) /\ r.closed = q.closed /\ Renewed(q, r, e, i, TRUE)
        <4>1. (TRUE => FitsLimits(q, 1, e.bytes)) /\ TRUE \in BOOLEAN
          BY <3>1
        <4>2. ~TRUE => FitsLimits(q, 0, e.bytes - q.live[i].bytes)
          OBVIOUS
        <4> QED BY <1>3, <3>2, <4>1, <4>2, RenewedSound, ZenonT(30)
      <3>4. Moved(q, r, e, i)
        BY <2>1, <3>3 DEF Moved, Renewed
      <3> QED BY <3>3, <3>4
    <2>4. CASE old.kind = e.kind
      <3>1. PICK next \in Commands : next = Coalesce(old, e)
        <4>1. old.key = key /\ old.kind = kind
          BY <1>3, <2>1, <2>2, <2>4
        <4>2. Coalesce(old, NewEvent(key, kind, n)) \in Commands
          BY <4>1, CoalesceShape
        <4> QED BY <4>2
      <3>2. /\ FitsLimits(q, 0, next.bytes - q.live[i].bytes)
            /\ r = PushBackLive(RemoveLive(q, i), next)
        BY <1>5, <2>1, <2>2, <2>4, <3>1 DEF PushLive
      <3>3. r = Renewal(q, next, i, FALSE)
        BY <1>0, <3>2 DEF PushBackLive, RemoveLive, Renewal
      <3>4. Sound(r) /\ r.closed = q.closed /\ Renewed(q, r, next, i, FALSE)
        BY <3>2, <3>3, RenewedSound
      <3>5. Merged(q, r, e, i)
        BY <2>1, <2>2, <2>4, <3>1, <3>4 DEF Merged, Renewed
      <3> QED BY <3>4, <3>5
    <2> QED BY <2>3, <2>4
  <1> QED BY <1>4, <1>5

\* The queue after its first command is taken.
Shifted(q) == [q EXCEPT !.commands = Tail(@), !.commandBytes = @ - Head(q.commands).bytes]

\* try_next takes the first command.
LEMMA TakenSound ==
    ASSUME NEW q, Sound(q), q.commands # <<>>,
           NEW r, r = Shifted(q)
    PROVE  /\ Sound(r) /\ r.closed = q.closed /\ r.commands = Tail(q.commands) /\ r.live = q.live
           /\ Head(q.commands) \in Commands
  <1>0. q = [commands |-> q.commands, live |-> q.live, commandBytes |-> q.commandBytes,
             liveBytes |-> q.liveBytes, closed |-> q.closed]
    BY QueueFields DEF Sound
  <1>1. /\ q.commands \in Seq(Commands) /\ q.live \in Seq(Commands)
        /\ q.commandBytes \in Nat /\ q.liveBytes \in Nat /\ q.closed \in BOOLEAN
        /\ Len(q.commands) \in Nat /\ Len(q.live) \in Nat
    BY QueueFields DEF Sound
  <1>2. PICK x \in Commands : x = Head(q.commands) /\ x.bytes \in Nat
    <2>1. Head(q.commands) \in Commands
      BY <1>1, HeadAndTail
    <2> QED BY <2>1, Fields
  <1>3. PICK C \in Seq(Commands) :
            C = Tail(q.commands) /\ Len(C) = Len(q.commands) - 1 /\ Len(q.commands) >= 1
    <2>1. /\ Tail(q.commands) \in Seq(Commands) /\ Len(Tail(q.commands)) = Len(q.commands) - 1
          /\ Len(q.commands) >= 1
      BY <1>1, HeadAndTail
    <2> QED BY <2>1
  <1>4. Bytes(q.commands) = x.bytes + Bytes(C) /\ Bytes(C) \in Nat
    <2>1. Bytes(q.commands) = Head(q.commands).bytes + Bytes(Tail(q.commands))
      BY <1>1, BytesLaws
    <2> QED BY <1>2, <1>3, <2>1, BytesLaws
  <1>5. /\ q.commandBytes = Bytes(q.commands) /\ q.liveBytes = Bytes(q.live)
        /\ Len(q.commands) + Len(q.live) <= MaxCommands /\ Len(q.live) <= MaxLive
        /\ q.commandBytes + q.liveBytes <= MaxBytes
    BY DEF Sound
  <1>6. PICK m \in Nat : m = q.commandBytes - x.bytes /\ m = Bytes(C)
    BY <1>2, <1>4, <1>5
  <1>7. r = [commands |-> C, live |-> q.live, commandBytes |-> m, liveBytes |-> q.liveBytes,
             closed |-> q.closed]
    BY <1>0, <1>2, <1>3, <1>6 DEF Shifted
  <1>8. /\ r \in Queues /\ r.commands = C /\ r.live = q.live
        /\ r.commandBytes = m /\ r.liveBytes = q.liveBytes /\ r.closed = q.closed
    BY <1>1, <1>7 DEF Queues
  <1>9. Len(C) + Len(q.live) <= MaxCommands
    <2>1. PICK k \in Nat, l \in Nat : k = Len(q.commands) /\ l = Len(q.live)
      BY <1>1
    <2>2. Len(C) = k - 1 /\ k + l <= MaxCommands
      BY <1>3, <1>5, <2>1
    <2>3. (k - 1) + l <= MaxCommands
      BY <2>2, Limits
    <2> QED BY <2>1, <2>2, <2>3
  <1>10. m + q.liveBytes <= MaxBytes
    <2>1. PICK k \in Nat, l \in Nat, u \in Nat :
              k = q.commandBytes /\ l = q.liveBytes /\ u = x.bytes
      BY <1>1, <1>2
    <2>2. m = k - u /\ k + l <= MaxBytes
      BY <1>5, <1>6, <2>1
    <2>3. m + l <= MaxBytes
      BY <2>2, Limits
    <2> QED BY <2>1, <2>3
  <1>11. Sound(r)
    BY <1>5, <1>6, <1>8, <1>9, <1>10 DEF Sound
  <1> QED BY <1>2, <1>3, <1>8, <1>11

\* try_next takes the oldest live event.
LEMMA LiveTakenSound ==
    ASSUME NEW q, Sound(q), q.live # <<>>, NEW r, r = RemoveLive(q, 1)
    PROVE  /\ Sound(r) /\ r.closed = q.closed /\ r.commands = q.commands
           /\ r.live = RemoveAt(q.live, 1) /\ 1 \in 1..Len(q.live)
           /\ Head(q.live) = q.live[1] /\ Head(q.live) \in Commands
  <1>0. q = [commands |-> q.commands, live |-> q.live, commandBytes |-> q.commandBytes,
             liveBytes |-> q.liveBytes, closed |-> q.closed]
    BY QueueFields DEF Sound
  <1>1. /\ q.commands \in Seq(Commands) /\ q.live \in Seq(Commands)
        /\ q.commandBytes \in Nat /\ q.liveBytes \in Nat /\ q.closed \in BOOLEAN
        /\ Len(q.commands) \in Nat /\ Len(q.live) \in Nat
    BY QueueFields DEF Sound
  <1>12. 1 \in 1..Len(q.live) /\ Head(q.live) = q.live[1] /\ Head(q.live) \in Commands
    <2>1. Head(q.live) \in Commands /\ Head(q.live) = q.live[1] /\ Len(q.live) >= 1
      BY <1>1, HeadAndTail
    <2> QED BY <1>1, <2>1
  <1>2. PICK x \in Commands : x = q.live[1] /\ x.bytes \in Nat
    BY <1>12, Fields
  <1>3. PICK L \in Seq(Commands) : L = RemoveAt(q.live, 1) /\ Len(L) = Len(q.live) - 1
    <2>1. RemoveAt(q.live, 1) \in Seq(Commands) /\ Len(RemoveAt(q.live, 1)) = Len(q.live) - 1
      BY <1>1, <1>12, Removed
    <2> QED BY <2>1
  <1>4. Bytes(q.live) = Bytes(L) + x.bytes /\ Bytes(L) \in Nat
    <2>1. Bytes(q.live) = Bytes(RemoveAt(q.live, 1)) + q.live[1].bytes
      BY <1>1, <1>12, BytesLaws
    <2> QED BY <1>2, <1>3, <2>1, BytesLaws
  <1>5. /\ q.commandBytes = Bytes(q.commands) /\ q.liveBytes = Bytes(q.live)
        /\ Len(q.commands) + Len(q.live) <= MaxCommands /\ Len(q.live) <= MaxLive
        /\ q.commandBytes + q.liveBytes <= MaxBytes
    BY DEF Sound
  <1>6. PICK m \in Nat : m = q.liveBytes - x.bytes /\ m = Bytes(L)
    BY <1>2, <1>4, <1>5
  <1>7. r = [commands |-> q.commands, live |-> L, commandBytes |-> q.commandBytes,
             liveBytes |-> m, closed |-> q.closed]
    BY <1>0, <1>2, <1>3, <1>6 DEF RemoveLive
  <1>8. /\ r \in Queues /\ r.commands = q.commands /\ r.live = L
        /\ r.commandBytes = q.commandBytes /\ r.liveBytes = m /\ r.closed = q.closed
    BY <1>1, <1>7 DEF Queues
  <1>9. Len(q.commands) + Len(L) <= MaxCommands /\ Len(L) <= MaxLive
    <2>1. PICK k \in Nat, l \in Nat : k = Len(q.commands) /\ l = Len(q.live)
      BY <1>1
    <2>2. Len(L) = l - 1 /\ k + l <= MaxCommands /\ l <= MaxLive
      BY <1>3, <1>5, <2>1
    <2>3. k + (l - 1) <= MaxCommands /\ l - 1 <= MaxLive
      BY <2>2, Limits
    <2> QED BY <2>1, <2>2, <2>3
  <1>10. q.commandBytes + m <= MaxBytes
    <2>1. PICK k \in Nat, l \in Nat, u \in Nat :
              k = q.commandBytes /\ l = q.liveBytes /\ u = x.bytes
      BY <1>1, <1>2
    <2>2. m = l - u /\ k + l <= MaxBytes
      BY <1>5, <1>6, <2>1
    <2>3. k + m <= MaxBytes
      BY <2>2, Limits
    <2> QED BY <2>1, <2>3
  <1>11. Sound(r)
    BY <1>5, <1>6, <1>8, <1>9, <1>10 DEF Sound
  <1> QED BY <1>3, <1>8, <1>11, <1>12

-----------------------------------------------------------------------------
(* The steps *)

\* What the control states say of each other.
ControlInv ==
    /\ result = "none" <=> worker # "ended"
    /\ result = "ok" => queue.closed /\ queue.commands = <<>>
    /\ result = "failed" => queue.closed /\ queue.commands = <<>>
    /\ queue.closed => queue.live = <<>>
    /\ sendError => cancelled
    /\ outcome = "ok" => loop = "done" /\ result = "ok" /\ ~sendError

TypeInv == TypeOK /\ ControlInv

Emittable(key, kind) ==
    \/ key = NoKey /\ kind = "fact"
    \/ key \in StreamKeys /\ kind \in StreamKinds
    \/ key \in ProgressKeys /\ kind = "progress"

\* What a step does to the queue, the worker's command, the ledger and the history.
\* The first two are an emitted observation that is refused or taken.
RefusesAs(key, kind) ==
    /\ Emittable(key, kind) /\ emitted' = Append(emitted, <<key, kind>>)
    /\ loop = "run" /\ loop' \in {"run", "notify"} /\ sendError' /\ cancelled'
    /\ UNCHANGED <<queue, accepted, workerVars, recorded, flushNo, ack, outcome, barrier>>
Refuses == \E key \in Keys \cup {NoKey}, kind \in Kinds : RefusesAs(key, kind)

Pushed(q, r, e) ==
    \/ e.key = NoKey /\ Flushed(q, r, e)
    \/ e.key # NoKey /\ Added(q, r, e)
    \/ e.key # NoKey /\ \E i \in 1..Len(q.live) : Moved(q, r, e, i) \/ Merged(q, r, e, i)
TakesAs(key, kind) ==
    /\ Emittable(key, kind) /\ emitted' = Append(emitted, <<key, kind>>)
    /\ loop = "run" /\ loop' = "notify" /\ ~queue.closed /\ ~sendError
    /\ Sound(queue) /\ Sound(queue') /\ ~queue'.closed
    /\ Pushed(queue, queue', NewEvent(key, kind, Position))
    /\ accepted' = accepted \cup {Position}
    /\ UNCHANGED <<sendError, cancelled, workerVars, recorded, flushNo, ack, outcome, barrier>>
Accepts == \E key \in Keys \cup {NoKey}, kind \in Kinds : TakesAs(key, kind)

\* A flush is queued or refused, the queue is closed.
Asks ==
    /\ loop = "run" /\ flushNo' = flushNo + 1 /\ flushNo < MaxFlushes /\ ack' = "none"
    /\ \/ /\ ~queue.closed /\ Sound(queue) /\ Sound(queue') /\ ~queue'.closed
          /\ loop' = "notifyFlush" /\ Flushed(queue, queue', FlushCommand(flushNo + 1))
       \/ UNCHANGED <<queue, loop>>
    /\ UNCHANGED <<workerVars, sinkVars, cancelled, outcome, recorded, barrier>>
Closes ==
    /\ ~queue.closed /\ Sound(queue) /\ Sound(queue') /\ queue'.closed
    /\ queue'.commands = queue.commands \o queue.live /\ queue'.live = <<>>
    /\ loop \notin {"done", "dropped"} /\ loop' \in {"notifyClose", "dropped"}
    /\ UNCHANGED <<workerVars, sinkVars, flushNo, ack, cancelled, outcome, recorded, barrier>>

\* The worker takes a command, records it, answers it, or ends.
Fetches ==
    /\ worker = "check" /\ worker' = "recording" /\ result = "none"
    /\ Sound(queue) /\ Sound(queue') /\ queue'.closed = queue.closed
    /\ \/ /\ queue.commands # <<>> /\ current' = Head(queue.commands)
          /\ queue'.commands = Tail(queue.commands) /\ queue'.live = queue.live
       \/ /\ queue.commands = <<>> /\ 1 \in 1..Len(queue.live) /\ current' = queue.live[1]
          /\ queue'.commands = <<>> /\ queue'.live = RemoveAt(queue.live, 1)
    /\ current' \in Commands
    /\ UNCHANGED <<result, sinkVars, runVars, recorded>>
Fails ==
    /\ worker \in {"waiting", "recording"} /\ worker' = "ended" /\ current' = NoCommand
    /\ result = "none" /\ result' = "failed"
    /\ queue' \in Queues /\ queue'.closed /\ queue'.commands = <<>> /\ queue'.live = <<>>
    /\ queue'.commandBytes = queue.commandBytes /\ queue'.liveBytes = queue.liveBytes
    /\ ack' \in {ack, "closed"}
    /\ recorded' \in {recorded} \cup (IF current.kind \notin {"flush", "none"}
                                      THEN {Append(recorded, current)} ELSE {})
    /\ UNCHANGED <<sinkVars, loop, flushNo, cancelled, outcome, barrier>>

\* Everything else leaves them alone.
Content == <<queue, current, recorded, emitted, accepted, sendError, flushNo>>
Rests ==
    /\ UNCHANGED <<Content, ack>>
    /\ loop' \in {"notifyFlush", "flushing"} => loop \in {"notifyFlush", "flushing"}
    /\ (worker = "recording") <=> (worker' = "recording")
    /\ \/ result' = result
       \/ /\ result = "none" /\ result' = "ok" /\ worker' = "ended"
          /\ queue.closed /\ queue.commands = <<>>
    /\ \/ outcome' \in {outcome, "failed"}
       \/ loop' = "done" /\ result = "ok" /\ ~sendError /\ result' = result
    /\ \/ barrier' = barrier
       \/ loop = "flushing" /\ ~cancelled /\ ack = "ok" /\ barrier' = Len(emitted)
    /\ cancelled => cancelled'
    /\ result # "none" => worker' = worker
    /\ outcome = "ok" => loop' = loop

\* The queue is sound as long as the worker has not failed.
LEMMA QueueSound ==
    ASSUME TypeInv
    PROVE  /\ queue \in Queues /\ (result # "failed" => Sound(queue))
           /\ (~queue.closed => Sound(queue) /\ result = "none")
           /\ (worker # "ended" => Sound(queue) /\ result = "none")
  <1>1. queue \in Queues
    BY DEF TypeInv, TypeOK, Queues
  <1>2. result # "failed" => Sound(queue)
    BY <1>1 DEF TypeInv, TypeOK, WithinLimits, Sound
  <1>3. result \in {"none", "ok", "failed"}
    BY DEF TypeInv, TypeOK
  <1> QED BY <1>1, <1>2, <1>3 DEF TypeInv, ControlInv

\* The types of the variables, apart.
LEMMA TypeFacts ==
    ASSUME TypeInv
    PROVE  /\ queue.commands \in Seq(Commands) /\ queue.live \in Seq(Commands)
           /\ queue.closed \in BOOLEAN /\ current \in Commands /\ recorded \in Seq(Commands)
           /\ emitted \in Seq((Keys \cup {NoKey}) \X Kinds) /\ accepted \subseteq 1..Len(emitted)
           /\ Len(emitted) \in Nat /\ Position \in Nat /\ Position = Len(emitted) + 1
           /\ flushNo \in Nat /\ sendError \in BOOLEAN /\ cancelled \in BOOLEAN
           /\ barrier \in 0..Len(emitted) /\ result \in {"none", "ok", "failed"}
           /\ ack \in {"none", "ok", "closed"} /\ outcome \in {"none", "ok", "failed"}
  <1>1. queue \in Queues /\ flushNo \in 0..MaxFlushes /\ MaxFlushes \in Nat
    BY QueueSound, Limits DEF TypeInv, TypeOK
  <1>2. queue.commands \in Seq(Commands) /\ queue.live \in Seq(Commands) /\ queue.closed \in BOOLEAN
    BY <1>1, QueueFields
  <1>3. emitted \in Seq((Keys \cup {NoKey}) \X Kinds)
    BY DEF TypeInv, TypeOK
  <1>4. Len(emitted) \in Nat /\ Position \in Nat /\ Position = Len(emitted) + 1
    BY <1>3 DEF Position
  <1> QED BY <1>1, <1>2, <1>3, <1>4 DEF TypeInv, TypeOK

\* An emitted observation is refused or taken.
LEMMA EmitShape ==
    ASSUME TypeInv, NEW key, NEW kind, Emittable(key, kind), Emit(key, kind)
    PROVE  RefusesAs(key, kind) \/ TakesAs(key, kind)
  <1> DEFINE e == NewEvent(key, kind, Position)
             pushed == IF key = NoKey THEN PushLossless(queue, e) ELSE PushLive(queue, e)
  <1>1. key \in Keys \cup {NoKey} /\ kind \in Kinds /\ Position \in Nat
    BY TypeFacts DEF Emittable, Keys, Kinds
  <1>2. e \in Commands /\ e.key = key
    BY <1>1, NewEventShape
  <1>3. /\ loop = "run" /\ emitted' = Append(emitted, <<key, kind>>)
        /\ loop' \in {"run", "notify"}
        /\ UNCHANGED <<workerVars, recorded, flushNo, ack, outcome, barrier>>
    BY DEF Emit, notifyVars
  <1>4. CASE Refused \/ pushed = {}
    <2>1. sendError' /\ cancelled' /\ UNCHANGED <<queue, accepted>>
      BY <1>4 DEF Emit
    <2> QED BY <1>3, <2>1 DEF RefusesAs
  <1>5. CASE ~(Refused \/ pushed = {})
    <2>1. /\ queue' \in pushed /\ accepted' = accepted \cup {Position}
          /\ UNCHANGED <<sendError, cancelled>> /\ loop' = "notify"
      BY <1>5 DEF Emit
    <2>2. ~sendError /\ ~queue.closed
      BY <1>5 DEF Refused
    <2>3. Sound(queue)
      BY <2>2, QueueSound
    <2> HIDE DEF e
    <2>4. CASE key = NoKey
      <3>1. queue' \in PushLossless(queue, e)
        BY <2>1, <2>4
      <3>2. Sound(queue') /\ queue'.closed = queue.closed /\ Flushed(queue, queue', e)
        <4>1. PICK r : r = queue'
          OBVIOUS
        <4>2. Sound(r) /\ r.closed = queue.closed /\ Flushed(queue, r, e)
          BY <1>2, <2>3, <3>1, <4>1, LosslessShape
        <4> QED BY <4>1, <4>2
      <3> QED BY <1>2, <1>3, <2>1, <2>2, <2>3, <2>4, <3>2 DEF TakesAs, Pushed, e
    <2>5. CASE key # NoKey
      <3>1. queue' \in PushLive(queue, e)
        BY <2>1, <2>5
      <3>2. key \in Keys /\ kind \in StreamKinds \cup {"progress"}
        BY <2>5 DEF Emittable, Keys
      <3>3. /\ Sound(queue') /\ queue'.closed = queue.closed
            /\ \/ Added(queue, queue', e)
               \/ \E i \in 1..Len(queue.live) :
                      Moved(queue, queue', e, i) \/ Merged(queue, queue', e, i)
        <4>1. PICK r : r = queue'
          OBVIOUS
        <4>2. e = NewEvent(key, kind, Position)
          BY DEF e
        <4>3. /\ Sound(r) /\ r.closed = queue.closed
              /\ \/ Added(queue, r, e)
                 \/ \E i \in 1..Len(queue.live) : Moved(queue, r, e, i) \/ Merged(queue, r, e, i)
          BY <1>1, <2>3, <3>1, <3>2, <4>1, <4>2, LiveShape
        <4> QED BY <4>1, <4>3
      <3> QED BY <1>2, <1>3, <2>1, <2>2, <2>3, <2>5, <3>3 DEF TakesAs, Pushed, e
    <2> QED BY <2>4, <2>5
  <1> QED BY <1>4, <1>5

\* A flush.
LEMMA AskShape ==
    ASSUME TypeInv, BeginFlush PROVE Asks
  <1>1. /\ loop = "run" /\ flushNo' = flushNo + 1 /\ flushNo < MaxFlushes /\ ack' = "none"
        /\ UNCHANGED <<workerVars, sinkVars, cancelled, outcome, recorded, barrier>>
    BY DEF BeginFlush
  <1>2. PICK c \in Commands : c = FlushCommand(flushNo + 1)
    BY TypeFacts, FlushShape
  <1>3. CASE queue.closed \/ PushLossless(queue, FlushCommand(flushNo + 1)) = {}
    BY <1>1, <1>3 DEF BeginFlush, Asks
  <1>4. CASE ~(queue.closed \/ PushLossless(queue, FlushCommand(flushNo + 1)) = {})
    <2>1. queue' \in PushLossless(queue, c) /\ loop' = "notifyFlush" /\ ~queue.closed
      BY <1>2, <1>4 DEF BeginFlush
    <2>2. Sound(queue)
      BY <2>1, QueueSound
    <2>3. PICK r : r = queue'
      OBVIOUS
    <2>4. Sound(r) /\ r.closed = queue.closed /\ Flushed(queue, r, c)
      BY <2>1, <2>2, <2>3, LosslessShape
    <2> QED BY <1>1, <1>2, <2>1, <2>2, <2>3, <2>4 DEF Asks
  <1> QED BY <1>3, <1>4

\* Closing the queue, by the loop or for it; a closed queue stays as it is.
LEMMA CloseShapes ==
    ASSUME TypeInv, Close \/ DropLoop PROVE Closes \/ Rests
  <1>1. CASE ~queue.closed
    <2>1. queue' = CloseState(queue) /\ loop \notin {"done", "dropped"} /\ loop' \in {"notifyClose", "dropped"}
      BY <1>1 DEF Close, DropLoop
    <2>2. UNCHANGED <<workerVars, sinkVars, flushNo, ack, cancelled, outcome, recorded, barrier>>
      BY DEF Close, DropLoop
    <2>3. Sound(queue)
      BY <1>1, QueueSound
    <2>4. PICK r : r = queue'
      OBVIOUS
    <2>5. Sound(r) /\ r.closed /\ r.commands = queue.commands \o queue.live /\ r.live = <<>>
      BY <2>1, <2>3, <2>4, CloseShape
    <2> QED BY <1>1, <2>1, <2>2, <2>3, <2>4, <2>5 DEF Closes
  <1>2. CASE queue.closed
    <2>1. UNCHANGED <<queue, workerVars, sinkVars, flushNo, ack, cancelled, outcome, recorded, barrier>>
      BY <1>2 DEF Close, DropLoop
    <2>2. loop # "done" /\ loop' \in {"joining", "dropped"}
      BY <1>2 DEF Close, DropLoop
    <2>3. UNCHANGED <<Content, ack>> /\ worker' = worker /\ result' = result
      BY <2>1 DEF Content, workerVars, sinkVars
    <2>4. outcome' = outcome /\ barrier' = barrier /\ (cancelled => cancelled')
      BY <2>1, Zenon
    <2>5. outcome = "ok" => loop' = loop
      BY <2>2 DEF TypeInv, ControlInv
    <2>6. loop' \notin {"notifyFlush", "flushing"}
      BY <2>2
    <2> QED BY <2>3, <2>4, <2>5, <2>6 DEF Rests
  <1> QED BY <1>1, <1>2

\* The worker takes a command.
LEMMA FetchShape ==
    ASSUME TypeInv, Take PROVE Fetches
  <1>1. worker = "check" /\ worker' = "recording" /\ UNCHANGED <<result, sinkVars, runVars, recorded>>
    BY DEF Take
  <1>2. Sound(queue) /\ result = "none"
    BY <1>1, QueueSound
  <1>3. PICK r : r = queue'
    OBVIOUS
  <1>4. CASE queue.commands # <<>>
    <2>1. current' = Head(queue.commands) /\ r = Shifted(queue)
      BY <1>3, <1>4 DEF Take, Shifted
    <2>2. /\ Sound(r) /\ r.closed = queue.closed /\ r.commands = Tail(queue.commands)
          /\ r.live = queue.live /\ Head(queue.commands) \in Commands
      BY <1>2, <1>4, <2>1, TakenSound
    <2> QED BY <1>1, <1>2, <1>3, <1>4, <2>1, <2>2 DEF Fetches
  <1>5. CASE queue.commands = <<>>
    <2>1. queue.live # <<>> /\ current' = Head(queue.live) /\ r = RemoveLive(queue, 1)
      BY <1>3, <1>5 DEF Take
    <2>2. /\ Sound(r) /\ r.closed = queue.closed /\ r.commands = queue.commands
          /\ r.live = RemoveAt(queue.live, 1) /\ 1 \in 1..Len(queue.live)
          /\ Head(queue.live) = queue.live[1] /\ Head(queue.live) \in Commands
      BY <1>2, <2>1, LiveTakenSound
    <2> QED BY <1>1, <1>2, <1>3, <1>5, <2>1, <2>2 DEF Fetches
  <1> QED BY <1>4, <1>5

\* The worker fails or is aborted.
LEMMA FailShape ==
    ASSUME TypeInv, RecordFails \/ DrainTimesOut,
           worker = "recording" => current # NoCommand /\ current.kind # "none"
    PROVE  Fails
  <1>1. DropReceiver /\ worker \in {"waiting", "recording"}
    BY DEF RecordFails, DrainTimesOut
  <1>2. queue = [commands |-> queue.commands, live |-> queue.live,
                 commandBytes |-> queue.commandBytes, liveBytes |-> queue.liveBytes,
                 closed |-> queue.closed]
    BY QueueSound, QueueFields
  <1>3. /\ queue.commandBytes \in Nat /\ queue.liveBytes \in Nat
    BY QueueSound, QueueFields
  <1>4. queue' = [commands |-> <<>>, live |-> <<>>, commandBytes |-> queue.commandBytes,
                  liveBytes |-> queue.liveBytes, closed |-> TRUE]
    BY <1>1, <1>2 DEF DropReceiver
  <1>5. /\ queue' \in Queues /\ queue'.closed /\ queue'.commands = <<>> /\ queue'.live = <<>>
        /\ queue'.commandBytes = queue.commandBytes /\ queue'.liveBytes = queue.liveBytes
    <2>1. PICK r : r = queue'
      OBVIOUS
    <2>2. <<>> \in Seq(Commands) /\ TRUE \in BOOLEAN
      OBVIOUS
    <2>3. r = [commands |-> <<>>, live |-> <<>>, commandBytes |-> queue.commandBytes,
               liveBytes |-> queue.liveBytes, closed |-> TRUE]
      BY <1>4, <2>1
    <2>4. /\ r \in Queues /\ r.closed /\ r.commands = <<>> /\ r.live = <<>>
          /\ r.commandBytes = queue.commandBytes /\ r.liveBytes = queue.liveBytes
      BY <1>3, <2>2, <2>3 DEF Queues
    <2> QED BY <2>1, <2>4
  <1>6. /\ worker' = "ended" /\ current' = NoCommand /\ result' = "failed" /\ ack' \in {ack, "closed"}
        /\ UNCHANGED <<sinkVars, loop, flushNo, cancelled, outcome, barrier>>
    BY <1>1 DEF DropReceiver
  <1>7. result = "none"
    BY <1>1, QueueSound
  <1>8. recorded' \in {recorded} \cup (IF current.kind \notin {"flush", "none"}
                                       THEN {Append(recorded, current)} ELSE {})
    BY DEF RecordFails, DrainTimesOut, IsEvent, Kinds, StreamKinds, MergingKinds
  <1> QED BY <1>1, <1>5, <1>6, <1>7, <1>8 DEF Fails

\* The steps that leave the queue, the worker's command and the ledger alone.
LEMMA RestShape ==
    ASSUME TypeInv,
           \/ Notify \/ EndFlush \/ FlushTimesOut \/ Cancel \/ CloseNotify \/ Join
           \/ Arm \/ Drained \/ Wait \/ Wake
    PROVE  Rests
  <1>1. cancelled \in BOOLEAN /\ (outcome = "ok" => loop = "done") /\ (result = "none" <=> worker # "ended")
    BY DEF TypeInv, TypeOK, ControlInv
  <1>2. CASE Notify \/ EndFlush \/ FlushTimesOut \/ CloseNotify
    <2>1. UNCHANGED <<Content, ack>> /\ worker' = worker /\ result' = result /\ outcome' = outcome
      BY <1>2 DEF Notify, EndFlush, FlushTimesOut, CloseNotify, Content, sinkVars, workerVars
    <2>2. cancelled' = cancelled /\ loop # "done"
      BY <1>2 DEF Notify, EndFlush, FlushTimesOut, CloseNotify
    <2>3. \/ barrier' = barrier
          \/ loop = "flushing" /\ ~cancelled /\ ack = "ok" /\ barrier' = Len(emitted)
      BY <1>2 DEF Notify, EndFlush, FlushTimesOut, CloseNotify
    <2>4. loop' \in {"notifyFlush", "flushing"} => loop \in {"notifyFlush", "flushing"}
      BY <1>2 DEF Notify, EndFlush, FlushTimesOut, CloseNotify
    <2> QED BY <1>1, <2>1, <2>2, <2>3, <2>4 DEF Rests
  <1>3. CASE Cancel
    <2>1. UNCHANGED <<Content, ack>> /\ worker' = worker /\ result' = result /\ outcome' = outcome
      BY <1>3 DEF Cancel, Content, sinkVars, workerVars
    <2>2. cancelled' /\ loop' = loop /\ barrier' = barrier
      BY <1>3 DEF Cancel
    <2> QED BY <2>1, <2>2 DEF Rests
  <1>4. CASE Join
    <2>1. UNCHANGED <<Content, ack>> /\ worker' = worker /\ result' = result
      BY <1>4 DEF Join, Content, sinkVars, workerVars
    <2>2. cancelled' = cancelled /\ loop' = "done" /\ barrier' = barrier /\ loop # "done"
      BY <1>4 DEF Join
    <2>3. outcome' = "failed" \/ (result = "ok" /\ ~sendError)
      BY <1>4 DEF Join
    <2> QED BY <1>1, <2>1, <2>2, <2>3 DEF Rests
  <1>5. CASE Arm \/ Drained \/ Wait \/ Wake
    <2>1. UNCHANGED <<Content, ack>> /\ outcome' = outcome /\ loop' = loop
      BY <1>5 DEF Arm, Drained, Wait, Wake, Content, sinkVars, runVars
    <2>2. cancelled' = cancelled /\ barrier' = barrier
      BY <1>5 DEF Arm, Drained, Wait, Wake, runVars
    <2>3. worker \notin {"recording", "ended"} /\ worker' # "recording"
      BY <1>5 DEF Arm, Drained, Wait, Wake
    <2>4. \/ result' = result
          \/ /\ result = "none" /\ result' = "ok" /\ worker' = "ended"
             /\ queue.closed /\ queue.commands = <<>>
      BY <1>1, <1>5 DEF Arm, Drained, Wait, Wake
    <2> QED BY <1>1, <2>1, <2>2, <2>3, <2>4 DEF Rests
  <1> QED BY <1>2, <1>3, <1>4, <1>5

\* The worker has no command except when it is about to record it.
HandsInv == worker = "recording" => current # NoCommand /\ current.kind # "none"

\* Every step has one of these shapes.
LEMMA Shapes ==
    ASSUME TypeInv, HandsInv, Next
    PROVE  Refuses \/ Accepts \/ Asks \/ Closes \/ Fetches \/ Record \/ Acknowledge \/ Fails \/ Rests
  <1>1. ASSUME NEW key, NEW kind, Emittable(key, kind), Emit(key, kind) PROVE Refuses \/ Accepts
    <2>1. key \in Keys \cup {NoKey} /\ kind \in Kinds
      BY <1>1 DEF Emittable, Keys, Kinds
    <2> QED BY <1>1, <2>1, EmitShape DEF Refuses, Accepts
  <1>2. CASE Emit(NoKey, "fact")
    BY <1>1, <1>2 DEF Emittable
  <1>3. CASE \E key \in StreamKeys, kind \in StreamKinds : Emit(key, kind)
    BY <1>1, <1>3 DEF Emittable
  <1>4. CASE \E key \in ProgressKeys : Emit(key, "progress")
    BY <1>1, <1>4 DEF Emittable
  <1> QED BY <1>2, <1>3, <1>4, AskShape, CloseShapes, FetchShape, FailShape, RestShape
          DEF Next, LoopStep, WorkerStep, HandsInv

-----------------------------------------------------------------------------
(* Types and limits *)

\* The types of the control variables.
SmallTypes ==
    /\ permit \in BOOLEAN /\ waiter \in {"none", "armed", "one", "all", "permit"}
    /\ worker \in {"next", "check", "waiting", "recording", "ended"}
    /\ result \in {"none", "ok", "failed"}
    /\ loop \in {"run", "notify", "notifyFlush", "flushing", "notifyClose", "joining", "done",
                 "dropped"}
    /\ ack \in {"none", "ok", "closed"}
    /\ sendError \in BOOLEAN /\ cancelled \in BOOLEAN
    /\ outcome \in {"none", "ok", "failed"}

\* The wakeups keep the types of the permit and the waiter.
LEMMA NotifyTypes ==
    ASSUME SmallTypes, NotifyOne \/ NotifyWaiters \/ DropNotified
    PROVE  permit' \in BOOLEAN /\ waiter' \in {"none", "armed", "one", "all", "permit"}
  BY DEF SmallTypes, NotifyOne, NotifyWaiters, DropNotified

\* A step keeps the types of the control variables.
LEMMA SmallStep ==
    ASSUME SmallTypes, Next PROVE SmallTypes'
  <1>1. ASSUME NEW key, NEW kind, Emit(key, kind) PROVE SmallTypes'
    <2>1. /\ UNCHANGED <<permit, waiter, worker, result, ack, outcome>>
          /\ loop' \in {"run", "notify"}
      BY <1>1 DEF Emit, notifyVars, workerVars
    <2>2. sendError \in BOOLEAN /\ cancelled \in BOOLEAN
      BY DEF SmallTypes
    <2>3. sendError' \in BOOLEAN /\ cancelled' \in BOOLEAN
      BY <1>1, <2>2 DEF Emit
    <2> QED BY <2>1, <2>3 DEF SmallTypes
  <1>2. CASE Notify \/ CloseNotify
    BY <1>2, NotifyTypes DEF Notify, CloseNotify, SmallTypes, workerVars, sinkVars
  <1>3. CASE BeginFlush \/ FlushTimesOut \/ Cancel \/ Close
    BY <1>3 DEF BeginFlush, FlushTimesOut, Cancel, Close, SmallTypes, notifyVars, workerVars,
                sinkVars
  <1>4. CASE EndFlush \/ Join
    BY <1>4 DEF EndFlush, Join, SmallTypes, notifyVars, workerVars, sinkVars
  <1>5. CASE DropLoop
    <2>1. permit' \in BOOLEAN /\ waiter' \in {"none", "armed", "one", "all", "permit"}
      BY <1>5, NotifyTypes DEF DropLoop, notifyVars, SmallTypes
    <2> QED BY <1>5, <2>1 DEF DropLoop, SmallTypes, workerVars, sinkVars
  <1>6. CASE Arm \/ Wait \/ Wake
    BY <1>6 DEF Arm, Wait, Wake, SmallTypes, notifyVars, sinkVars, runVars
  <1>7. CASE Take \/ Drained
    BY <1>7, NotifyTypes DEF Take, Drained, SmallTypes, sinkVars, runVars
  <1>8. CASE Record \/ Acknowledge
    BY <1>8 DEF Record, Acknowledge, SmallTypes, notifyVars, sinkVars, runVars
  <1>9. CASE RecordFails
    BY <1>9 DEF RecordFails, DropReceiver, SmallTypes, notifyVars, sinkVars
  <1>10. CASE DrainTimesOut
    BY <1>10, NotifyTypes DEF DrainTimesOut, DropReceiver, SmallTypes, sinkVars
  <1>11. CASE \/ Emit(NoKey, "fact") \/ \E key \in StreamKeys, kind \in StreamKinds : Emit(key, kind)
              \/ \E key \in ProgressKeys : Emit(key, "progress")
    BY <1>1, <1>11
  <1> QED BY <1>2, <1>3, <1>4, <1>5, <1>6, <1>7, <1>8, <1>9, <1>10, <1>11
          DEF Next, LoopStep, WorkerStep

\* The types of the rest.
LargeTypes ==
    /\ queue \in Queues /\ WithinLimits
    /\ current \in Commands /\ recorded \in Seq(Commands) /\ flushNo \in 0..MaxFlushes
    /\ emitted \in Seq((Keys \cup {NoKey}) \X Kinds)
    /\ accepted \subseteq 1..Len(emitted) /\ barrier \in 0..Len(emitted)

\* The two together are the type invariant.
LEMMA TypeSplit == TypeOK <=> SmallTypes /\ LargeTypes
  BY DEF TypeOK, SmallTypes, LargeTypes, Queues

\* One more observation.
LEMMA OneMore ==
    ASSUME TypeInv, NEW key \in Keys \cup {NoKey}, NEW kind \in Kinds,
           emitted' = Append(emitted, <<key, kind>>)
    PROVE  /\ emitted' \in Seq((Keys \cup {NoKey}) \X Kinds)
           /\ Len(emitted') = Len(emitted) + 1 /\ Len(emitted') = Position
           /\ emitted'[Position] = <<key, kind>>
           /\ \A p \in 1..Len(emitted) : emitted'[p] = emitted[p]
           /\ 1..Len(emitted) \subseteq 1..Len(emitted') /\ Position \in 1..Len(emitted')
  <1>1. emitted \in Seq((Keys \cup {NoKey}) \X Kinds) /\ Len(emitted) \in Nat
        /\ Position = Len(emitted) + 1
    BY TypeFacts
  <1>2. <<key, kind>> \in (Keys \cup {NoKey}) \X Kinds
    OBVIOUS
  <1>3. PICK S : S = (Keys \cup {NoKey}) \X Kinds
    OBVIOUS
  <1>4. PICK s \in Seq(S), x \in S : s = emitted /\ x = <<key, kind>>
    BY <1>1, <1>2, <1>3
  <1>5. PICK t : t = emitted'
    OBVIOUS
  <1>6. t = Append(s, x)
    BY <1>4, <1>5
  <1>7. /\ t \in Seq(S) /\ Len(t) = Len(s) + 1 /\ t[Len(s) + 1] = x
        /\ \A p \in 1..Len(s) : t[p] = s[p]
    BY <1>6
  <1>8. 1..Len(s) \subseteq 1..(Len(s) + 1) /\ Len(s) + 1 \in 1..(Len(s) + 1)
    BY <1>1, <1>4
  <1> QED BY <1>1, <1>3, <1>4, <1>5, <1>7, <1>8

\* A step keeps the limits of the queue and the types of what it holds.
LEMMA LargeStep ==
    ASSUME TypeInv, HandsInv, Next PROVE LargeTypes'
  <1>1. LargeTypes
    BY TypeSplit DEF TypeInv
  <1>2. Sound(queue') => queue' \in Queues /\ WithinLimits'
    BY DEF Sound, WithinLimits
  <1>3. UNCHANGED <<queue, result>> => queue' \in Queues /\ WithinLimits'
    BY <1>1 DEF LargeTypes, WithinLimits
  <1>4. NoCommand \in Commands
    BY FlushShape
  <1>5. current \in Commands /\ recorded \in Seq(Commands)
    BY <1>1 DEF LargeTypes
  <1>6. Append(recorded, current) \in Seq(Commands)
    BY <1>5
  <1>7. accepted \subseteq 1..Len(emitted) /\ barrier \in 0..Len(emitted) /\ Len(emitted) \in Nat
    BY TypeFacts
  <1>8. CASE Refuses \/ Accepts
    <2>1. PICK key \in Keys \cup {NoKey}, kind \in Kinds : RefusesAs(key, kind) \/ TakesAs(key, kind)
      BY <1>8 DEF Refuses, Accepts
    <2>2. emitted' = Append(emitted, <<key, kind>>)
      BY <2>1 DEF RefusesAs, TakesAs
    <2>3. /\ emitted' \in Seq((Keys \cup {NoKey}) \X Kinds)
          /\ Len(emitted') = Len(emitted) + 1
          /\ 1..Len(emitted) \subseteq 1..Len(emitted') /\ Position \in 1..Len(emitted')
      BY <2>2, OneMore
    <2>4. accepted' \subseteq accepted \cup {Position} /\ barrier' = barrier
      BY <2>1 DEF RefusesAs, TakesAs
    <2>5. accepted' \subseteq 1..Len(emitted') /\ barrier' \in 0..Len(emitted')
      <3>1. accepted' \subseteq 1..Len(emitted')
        BY <1>7, <2>3, <2>4
      <3>2. barrier' \in 0..(Len(emitted) + 1)
        BY <1>7, <2>4
      <3> QED BY <2>3, <3>1, <3>2
    <2>6. queue' \in Queues /\ WithinLimits'
      BY <1>2, <1>3, <2>1 DEF RefusesAs, TakesAs, workerVars
    <2>7. UNCHANGED <<current, recorded, flushNo>>
      BY <2>1 DEF RefusesAs, TakesAs, workerVars
    <2> QED BY <1>1, <2>3, <2>5, <2>6, <2>7 DEF LargeTypes
  <1>9. CASE Asks
    <2>1. flushNo' \in 0..MaxFlushes
      BY <1>1, <1>9, Limits DEF Asks, LargeTypes
    <2>2. queue' \in Queues /\ WithinLimits'
      BY <1>2, <1>3, <1>9 DEF Asks, workerVars
    <2>3. UNCHANGED <<current, recorded, emitted, accepted, barrier>>
      BY <1>9 DEF Asks, workerVars, sinkVars
    <2> QED BY <1>1, <2>1, <2>2, <2>3 DEF LargeTypes
  <1>10. CASE Closes
    <2>1. UNCHANGED <<current, recorded, emitted, accepted, barrier, flushNo>>
      BY <1>10 DEF Closes, workerVars, sinkVars
    <2>2. queue' \in Queues /\ WithinLimits'
      BY <1>2, <1>10 DEF Closes
    <2> QED BY <1>1, <2>1, <2>2 DEF LargeTypes
  <1>11. CASE Fetches
    <2>1. UNCHANGED <<recorded, emitted, accepted, barrier, flushNo>> /\ current' \in Commands
      BY <1>11 DEF Fetches, runVars, sinkVars
    <2>2. queue' \in Queues /\ WithinLimits'
      BY <1>2, <1>11 DEF Fetches
    <2> QED BY <1>1, <2>1, <2>2 DEF LargeTypes
  <1>12. CASE Record \/ Acknowledge
    <2>1. UNCHANGED <<queue, result, emitted, accepted, barrier, flushNo>> /\ current' = NoCommand
      BY <1>12 DEF Record, Acknowledge, runVars, sinkVars
    <2>2. recorded' \in Seq(Commands)
      BY <1>5, <1>6, <1>12 DEF Record, Acknowledge
    <2>3. queue' \in Queues /\ WithinLimits'
      BY <1>3, <2>1
    <2> QED BY <1>1, <1>4, <2>1, <2>2, <2>3 DEF LargeTypes
  <1>13. CASE Fails
    <2>1. UNCHANGED <<emitted, accepted, barrier, flushNo>> /\ current' = NoCommand
      BY <1>13 DEF Fails, sinkVars
    <2>2. recorded' \in Seq(Commands)
      BY <1>5, <1>6, <1>13 DEF Fails
    <2>3. queue' \in Queues /\ Len(queue'.commands) = 0 /\ Len(queue'.live) = 0 /\ result' = "failed"
      BY <1>13 DEF Fails
    <2>4. queue'.commandBytes + queue'.liveBytes <= MaxBytes
      BY <1>1, <1>13 DEF Fails, LargeTypes, WithinLimits
    <2>5. WithinLimits'
      BY <2>3, <2>4, Limits DEF WithinLimits
    <2> QED BY <1>1, <1>4, <2>1, <2>2, <2>3, <2>5 DEF LargeTypes
  <1>14. CASE Rests
    <2>1. UNCHANGED <<queue, current, recorded, emitted, accepted, flushNo>>
      BY <1>14 DEF Rests, Content
    <2>2. barrier' \in 0..Len(emitted)
      BY <1>7, <1>14 DEF Rests
    <2>3. queue' \in Queues /\ WithinLimits'
      <3>1. CASE result' = result
        BY <1>3, <2>1, <3>1
      <3>2. CASE result = "none"
        BY <1>2, <2>1, <3>2, QueueSound
      <3> QED BY <1>14, <3>1, <3>2 DEF Rests
    <2> QED BY <1>1, <2>1, <2>2, <2>3 DEF LargeTypes
  <1> QED BY <1>8, <1>9, <1>10, <1>11, <1>12, <1>13, <1>14, Shapes

\* A step keeps what the control states say of each other.
LEMMA ControlStep ==
    ASSUME TypeInv, HandsInv, Next PROVE ControlInv'
  <1>1. ControlInv /\ cancelled \in BOOLEAN /\ sendError \in BOOLEAN
    BY TypeFacts DEF TypeInv
  <1>2. CASE Refuses \/ Accepts
    <2>1. PICK key \in Keys \cup {NoKey}, kind \in Kinds : RefusesAs(key, kind) \/ TakesAs(key, kind)
      BY <1>2 DEF Refuses, Accepts
    <2>2. UNCHANGED <<result, worker, outcome>> /\ loop = "run"
      BY <2>1 DEF RefusesAs, TakesAs, workerVars
    <2>3. CASE RefusesAs(key, kind)
      BY <1>1, <2>2, <2>3 DEF RefusesAs, ControlInv
    <2>4. CASE TakesAs(key, kind)
      <3>1. ~queue.closed /\ ~queue'.closed /\ ~sendError /\ ~sendError'
        BY <2>4 DEF TakesAs
      <3> QED BY <1>1, <2>2, <3>1 DEF ControlInv
    <2> QED BY <2>1, <2>3, <2>4
  <1>3. CASE Asks
    <2>1. UNCHANGED <<result, worker, outcome, sendError, cancelled>> /\ loop = "run"
      BY <1>3 DEF Asks, workerVars, sinkVars
    <2>2. UNCHANGED queue \/ (~queue.closed /\ ~queue'.closed)
      BY <1>3 DEF Asks
    <2> QED BY <1>1, <2>1, <2>2 DEF ControlInv
  <1>4. CASE Closes
    <2>1. UNCHANGED <<result, worker, outcome, sendError, cancelled>> /\ loop # "done"
      BY <1>4 DEF Closes, workerVars, sinkVars
    <2>2. ~queue.closed /\ queue'.live = <<>>
      BY <1>4 DEF Closes
    <2> QED BY <1>1, <2>1, <2>2 DEF ControlInv
  <1>5. CASE Fetches
    <2>1. UNCHANGED <<result, outcome, sendError, cancelled, loop>> /\ result = "none"
          /\ worker' = "recording"
      BY <1>5 DEF Fetches, runVars, sinkVars
    <2>2. queue'.closed = queue.closed /\ (queue.live = <<>> => queue'.live = <<>>)
      BY <1>5 DEF Fetches
    <2> QED BY <1>1, <2>1, <2>2 DEF ControlInv
  <1>6. CASE Record \/ Acknowledge
    <2>1. /\ UNCHANGED <<queue, result, outcome, sendError, cancelled, loop>>
          /\ worker = "recording" /\ worker' = "next"
      BY <1>6 DEF Record, Acknowledge, runVars, sinkVars
    <2> QED BY <1>1, <2>1 DEF ControlInv
  <1>7. CASE Fails
    <2>1. /\ UNCHANGED <<outcome, sendError, cancelled, loop>> /\ result = "none"
          /\ result' = "failed" /\ worker' = "ended"
          /\ queue'.closed /\ queue'.commands = <<>> /\ queue'.live = <<>>
      BY <1>7 DEF Fails, sinkVars
    <2> QED BY <1>1, <2>1 DEF ControlInv
  <1>8. CASE Rests
    <2>1. UNCHANGED <<queue, sendError>> /\ (cancelled => cancelled')
      BY <1>8 DEF Rests, Content
    <2>2. sendError' => cancelled'
      BY <1>1, <2>1 DEF ControlInv
    <2>3. (result' = "none") <=> (worker' # "ended")
      <3>1. SmallTypes'
        BY SmallStep, TypeSplit DEF TypeInv
      <3>2. result = "none" /\ result' = "none" => worker' # "ended"
        BY <1>8 DEF Rests, Next, LoopStep, WorkerStep, Emit, BeginFlush, FlushTimesOut, Cancel,
                    Close, DropLoop, DrainTimesOut, DropReceiver, Notify, EndFlush, CloseNotify,
                    Join, Arm, Take, Drained, Wait, Wake, Record, Acknowledge, RecordFails,
                    workerVars, ControlInv, TypeInv
      <3> QED BY <1>1, <1>8, <3>2 DEF Rests, ControlInv
    <2>4. /\ result' = "ok" => queue.closed /\ queue.commands = <<>>
          /\ result' = "failed" => queue.closed /\ queue.commands = <<>>
      BY <1>1, <1>8 DEF Rests, ControlInv
    <2>5. outcome' = "ok" => loop' = "done" /\ result' = "ok" /\ ~sendError
      BY <1>1, <1>8 DEF Rests, ControlInv
    <2> QED BY <1>1, <2>1, <2>2, <2>3, <2>4, <2>5 DEF ControlInv
  <1> QED BY <1>2, <1>3, <1>4, <1>5, <1>6, <1>7, <1>8, Shapes

\* So types and control are kept together.
LEMMA TypeStep ==
    ASSUME TypeInv, HandsInv, Next PROVE TypeInv'
  <1>1. SmallTypes' /\ LargeTypes'
    BY SmallStep, LargeStep, TypeSplit DEF TypeInv
  <1>2. TypeOK'
    BY <1>1 DEF TypeOK, SmallTypes, LargeTypes, Queues
  <1> QED BY <1>2, ControlStep DEF TypeInv

-----------------------------------------------------------------------------
(* What the queue holds *)

\* A lossless push or a close moves the live lane, and a command, behind the rest.
LEMMA FlushedFacts ==
    ASSUME NEW C \in Seq(Commands), NEW L \in Seq(Commands), NEW c \in Commands
    PROVE  /\ C \o L \in Seq(Commands)
           /\ ToSet(C \o L) = ToSet(C) \cup ToSet(L)
           /\ Covered(C \o L) = Covered(C) + Covered(L)
           /\ ToSet(Append(C \o L, c)) = ToSet(C) \cup ToSet(L) \cup {c}
           /\ Covered(Append(C \o L, c)) = Covered(C) + Covered(L) + Observations(c)
  <1>1. PICK j \in Seq(Commands) : j = C \o L
    BY Joined DEF IsJoin
  <1>2. ToSet(C \o L) = ToSet(C) \cup ToSet(L)
    BY ElementsJoined
  <1>3. Covered(C \o L) = Covered(C) + Covered(L)
    BY CoveredLaws
  <1>4. ToSet(Append(j, c)) = ToSet(j) \cup {c}
    BY ElementsAppended
  <1>5. Covered(Append(j, c)) = Covered(j) + Observations(c)
    BY CoveredLaws
  <1> QED BY <1>1, <1>2, <1>3, <1>4, <1>5

\* A live event is replaced: the elements of the lane.
LEMMA RenewedElements ==
    ASSUME NEW L \in Seq(Commands), NEW i \in 1..Len(L), NEW x \in Commands
    PROVE  /\ RemoveAt(L, i) \in Seq(Commands)
           /\ ToSet(L) = {L[i]} \cup ToSet(RemoveAt(L, i))
           /\ ToSet(Append(RemoveAt(L, i), x)) = ToSet(RemoveAt(L, i)) \cup {x}
  <1>1. RemoveAt(L, i) \in Seq(Commands)
    BY Removed
  <1>2. PICK t \in Seq(Commands) : t = RemoveAt(L, i)
    BY <1>1
  <1>3. ToSet(L) = {L[i]} \cup ToSet(RemoveAt(L, i))
    BY ElementsTaken
  <1>4. ToSet(Append(t, x)) = ToSet(t) \cup {x}
    BY ElementsAppended
  <1> QED BY <1>1, <1>2, <1>3, <1>4

\* And what they stand for.
LEMMA RenewedCovered ==
    ASSUME NEW L \in Seq(Commands), NEW i \in 1..Len(L), NEW x \in Commands
    PROVE  /\ Covered(L) = Covered(RemoveAt(L, i)) + Observations(L[i])
           /\ Covered(Append(RemoveAt(L, i), x)) = Covered(RemoveAt(L, i)) + Observations(x)
           /\ Covered(RemoveAt(L, i)) \in Nat
  <1>1. RemoveAt(L, i) \in Seq(Commands)
    BY Removed
  <1>2. PICK t \in Seq(Commands) : t = RemoveAt(L, i)
    BY <1>1
  <1>5. Covered(L) = Covered(RemoveAt(L, i)) + Observations(L[i])
    BY CoveredLaws
  <1>6. Covered(Append(t, x)) = Covered(t) + Observations(x) /\ Covered(t) \in Nat
    BY CoveredLaws
  <1> QED BY <1>2, <1>5, <1>6

\* An event carries accepted observations of its key and kind, oldest first.
EventOK(c) ==
    /\ IsEvent(c) /\ (c.key = NoKey <=> c.kind = "fact")
    /\ Increasing(c.parts)
    /\ \A p \in ToSet(c.parts) : p \in accepted /\ emitted[p] = <<c.key, c.kind>>
FlushOK(c) == c.kind = "flush" /\ \E n \in 1..flushNo : c.parts = <<n>>
LiveOK(c) == EventOK(c) /\ c.key # NoKey

\* What is in the ledger, in the worker's hands and in the two lanes.
ContentInv ==
    /\ (worker = "recording") <=> (current # NoCommand)
    /\ \A c \in ToSet(recorded) : EventOK(c)
    /\ current = NoCommand \/ EventOK(current) \/ FlushOK(current)
    /\ \A c \in ToSet(queue.commands) : EventOK(c) \/ FlushOK(c)
    /\ \A c \in ToSet(queue.live) : LiveOK(c)
    /\ DistinctKeys(queue.live)

\* Kinds tell events, flushes and nothing apart.
LEMMA KindsApart ==
    /\ \A c : EventOK(c) => c.kind \notin {"flush", "none"} /\ c # NoCommand
    /\ \A c : FlushOK(c) => c.kind = "flush" /\ c # NoCommand /\ ~IsEvent(c)
  <1>1. "flush" \notin Kinds /\ "none" \notin Kinds
    BY DEF Kinds, StreamKinds, MergingKinds
  <1> QED BY <1>1, FlushShape DEF EventOK, FlushOK, IsEvent

\* The worker's hands.
LEMMA Hands == ContentInv => HandsInv
  BY KindsApart DEF ContentInv, HandsInv

\* What is emitted and accepted stays, and flushes are numbered upwards.
Grows ==
    /\ accepted \subseteq accepted' /\ accepted \subseteq 1..Len(emitted)
    /\ \A p \in 1..Len(emitted) : emitted'[p] = emitted[p]
    /\ flushNo \in Nat /\ flushNo' \in Nat /\ flushNo <= flushNo'
    /\ Len(emitted) \in Nat

\* No step changes what was emitted or withdraws what was accepted.
LEMMA HistoryGrows ==
    ASSUME TypeInv, HandsInv, Next PROVE Grows
  <1>1. accepted \subseteq 1..Len(emitted) /\ flushNo \in Nat /\ Len(emitted) \in Nat
    BY TypeFacts
  <1>2. CASE Refuses \/ Accepts
    <2>1. PICK key \in Keys \cup {NoKey}, kind \in Kinds : RefusesAs(key, kind) \/ TakesAs(key, kind)
      BY <1>2 DEF Refuses, Accepts
    <2>2. emitted' = Append(emitted, <<key, kind>>) /\ flushNo' = flushNo /\ accepted \subseteq accepted'
      BY <2>1 DEF RefusesAs, TakesAs
    <2>3. \A p \in 1..Len(emitted) : emitted'[p] = emitted[p]
      BY <2>2, OneMore
    <2> QED BY <1>1, <2>2, <2>3 DEF Grows
  <1>3. CASE Asks
    BY <1>1, <1>3 DEF Asks, sinkVars, Grows
  <1>4. CASE ~(Refuses \/ Accepts) /\ ~Asks
    <2>1. UNCHANGED <<emitted, accepted, flushNo>>
      BY <1>4, Shapes DEF Closes, Fetches, Record, Acknowledge, Fails, Rests, Content, sinkVars,
                          runVars
    <2> QED BY <1>1, <2>1 DEF Grows
  <1> QED BY <1>2, <1>3, <1>4

\* So an event or a flush stays what it is.
LEMMA StaysOK ==
    ASSUME Grows, NEW c
    PROVE  (EventOK(c) => EventOK(c)') /\ (FlushOK(c) => FlushOK(c)') /\ (LiveOK(c) => LiveOK(c)')
  <1>1. EventOK(c) => EventOK(c)'
    BY DEF Grows, EventOK
  <1>2. FlushOK(c) => FlushOK(c)'
    <2>1. 1..flushNo \subseteq 1..flushNo'
      BY DEF Grows
    <2> QED BY <2>1 DEF FlushOK
  <1> QED BY <1>1, <1>2 DEF LiveOK

\* An observation behind those before it.
LEMMA IncreasingAppended ==
    ASSUME NEW s \in Seq(Nat), NEW n \in Nat, Increasing(s), \A p \in ToSet(s) : p < n
    PROVE  Increasing(s \o <<n>>) /\ ToSet(s \o <<n>>) = ToSet(s) \cup {n}
  <1>1. <<n>> \in Seq(Nat) /\ s \o <<n>> = Append(s, n)
    OBVIOUS
  <1>2. ToSet(Append(s, n)) = ToSet(s) \cup {n}
    BY ElementsAppended
  <1>3. PICK t : t = Append(s, n)
    OBVIOUS
  <1>4. /\ Len(s) \in Nat /\ Len(t) = Len(s) + 1 /\ t[Len(s) + 1] = n
        /\ \A k \in 1..Len(s) : t[k] = s[k]
    BY <1>3
  <1>5. \A k \in 1..Len(s) : s[k] < n
    BY Elements
  <1>6. ASSUME NEW k \in 1..Len(t), NEW l \in 1..Len(t), k < l PROVE t[k] < t[l]
    <2>1. CASE l = Len(s) + 1
      <3>1. k \in 1..Len(s)
        BY <1>4, <1>6, <2>1
      <3> QED BY <1>4, <1>5, <2>1, <3>1
    <2>2. CASE l # Len(s) + 1
      <3>1. k \in 1..Len(s) /\ l \in 1..Len(s)
        BY <1>4, <1>6, <2>2
      <3> QED BY <1>4, <1>6, <3>1 DEF Increasing
    <2> QED BY <2>1, <2>2
  <1>7. Increasing(t)
    BY <1>6 DEF Increasing
  <1> QED BY <1>1, <1>2, <1>3, <1>7

\* What an event carries was emitted before.
LEMMA PartsAreOld ==
    ASSUME TypeInv, NEW c, EventOK(c)
    PROVE  \A p \in ToSet(c.parts) : p \in Nat /\ p < Position
  <1>1. accepted \subseteq 1..Len(emitted) /\ Len(emitted) \in Nat /\ Position = Len(emitted) + 1
    BY TypeFacts
  <1>2. \A p \in 1..Len(emitted) : p \in Nat /\ p < Position
    BY <1>1
  <1> QED BY <1>1, <1>2 DEF EventOK

\* The new event of an accepted observation.
LEMMA NewIsOK ==
    ASSUME TypeInv, NEW key \in Keys \cup {NoKey}, NEW kind \in Kinds, TakesAs(key, kind),
           NEW e, e = NewEvent(key, kind, Position)
    PROVE  /\ e \in Commands /\ e.key = key /\ e.kind = kind /\ ToSet(e.parts) = {Position}
           /\ Observations(e) = 1 /\ IsEvent(e) /\ EventOK(e)' /\ (key # NoKey => LiveOK(e)')
           /\ (key = NoKey <=> kind = "fact")
  <1>1. Position \in Nat
    BY TypeFacts
  <1>2. /\ e \in Commands /\ e.key = key /\ e.kind = kind /\ e.parts = <<Position>> /\ e.omitted = 0
    BY <1>1, NewEventShape
  <1>3. ToSet(e.parts) = {Position} /\ Increasing(e.parts)
    BY <1>2, ElementsFew DEF Increasing
  <1>4. IsEvent(e) /\ Observations(e) = 1
    BY <1>2 DEF IsEvent, Observations
  <1>5. key = NoKey <=> kind = "fact"
    <2>1. Emittable(key, kind)
      BY DEF TakesAs
    <2>2. "fact" \notin StreamKinds /\ "fact" # "progress"
      BY DEF StreamKinds, MergingKinds
    <2> QED BY <2>1, <2>2, KeysAssumption DEF Emittable
  <1>6. Position \in accepted' /\ emitted'[Position] = <<key, kind>>
    BY OneMore DEF TakesAs
  <1>7. EventOK(e)'
    <2>1. IsEvent(e) /\ (e.key = NoKey <=> e.kind = "fact") /\ Increasing(e.parts)
      BY <1>2, <1>3, <1>4, <1>5
    <2>2. \A p \in ToSet(e.parts) : p \in accepted' /\ emitted'[p] = <<e.key, e.kind>>
      BY <1>2, <1>3, <1>6
    <2> QED BY <2>1, <2>2 DEF EventOK
  <1> QED BY <1>2, <1>3, <1>4, <1>5, <1>7 DEF LiveOK

\* The coalesced event of an accepted observation.
LEMMA MergedIsOK ==
    ASSUME TypeInv, Grows, NEW key \in Keys \cup {NoKey}, NEW kind \in Kinds, TakesAs(key, kind),
           NEW e, e = NewEvent(key, kind, Position),
           NEW old \in Commands, LiveOK(old), old.key = key, old.kind = kind,
           NEW next, next = Coalesce(old, e)
    PROVE  /\ next \in Commands /\ next.key = key /\ next.kind = kind /\ LiveOK(next)'
           /\ ToSet(next.parts) \subseteq ToSet(old.parts) \cup {Position}
           /\ Position \in ToSet(next.parts)
           /\ kind \in MergingKinds => ToSet(old.parts) \subseteq ToSet(next.parts)
           /\ Observations(next) = Observations(old) + 1 /\ IsEvent(next)
  <1>1. Position \in Nat /\ old.parts \in Seq(Nat) /\ old.omitted \in Nat
    BY TypeFacts, Fields
  <1>2. key # NoKey
    BY DEF LiveOK
  <1>3. key \in Keys /\ kind \in StreamKinds \cup {"progress"}
    BY <1>2, KeysAssumption DEF TakesAs, Emittable, Keys
  <1>4. /\ next \in Commands /\ next.key = key /\ next.kind = kind
        /\ next.omitted = old.omitted + 1
        /\ next.parts = IF kind \in MergingKinds THEN old.parts \o <<Position>> ELSE <<Position>>
    BY <1>1, <1>3, CoalesceShape
  <1>5. Position \in accepted' /\ emitted'[Position] = <<key, kind>>
    BY OneMore DEF TakesAs
  <1>6. EventOK(old) /\ EventOK(old)'
    BY StaysOK DEF LiveOK
  <1>7. /\ Increasing(next.parts) /\ Position \in ToSet(next.parts)
        /\ ToSet(next.parts) \subseteq ToSet(old.parts) \cup {Position}
        /\ kind \in MergingKinds => ToSet(old.parts) \subseteq ToSet(next.parts)
    <2>1. CASE kind \in MergingKinds
      <3>1. /\ Increasing(old.parts \o <<Position>>)
            /\ ToSet(old.parts \o <<Position>>) = ToSet(old.parts) \cup {Position}
        <4>1. Increasing(old.parts) /\ \A p \in ToSet(old.parts) : p < Position
          BY <1>6, PartsAreOld DEF EventOK
        <4> QED BY <1>1, <4>1, IncreasingAppended
      <3> QED BY <1>4, <2>1, <3>1
    <2>2. CASE kind \notin MergingKinds
      <3>1. next.parts = <<Position>>
        BY <1>4, <2>2
      <3> QED BY <2>2, <3>1, ElementsFew DEF Increasing
    <2> QED BY <2>1, <2>2
  <1>8. IsEvent(next) /\ Observations(next) = Observations(old) + 1
    BY <1>1, <1>4, <1>6 DEF IsEvent, Observations, EventOK
  <1>9. EventOK(next)'
    <2>1. IsEvent(next) /\ (next.key = NoKey <=> next.kind = "fact") /\ Increasing(next.parts)
      BY <1>4, <1>6, <1>7, <1>8 DEF EventOK
    <2>2. \A p \in ToSet(old.parts) : p \in accepted' /\ emitted'[p] = <<key, kind>>
      BY <1>6 DEF EventOK
    <2>3. \A p \in ToSet(next.parts) : p \in accepted' /\ emitted'[p] = <<next.key, next.kind>>
      BY <1>4, <1>5, <1>7, <2>2
    <2> QED BY <2>1, <2>3 DEF EventOK
  <1> QED BY <1>2, <1>4, <1>7, <1>8, <1>9 DEF LiveOK

\* A step keeps what the queue holds.
LEMMA ContentStep ==
    ASSUME TypeInv, ContentInv, Next PROVE ContentInv'
  <1>1. HandsInv /\ Grows
    BY Hands, HistoryGrows
  <1>4. /\ queue.commands \in Seq(Commands) /\ queue.live \in Seq(Commands)
        /\ current \in Commands /\ recorded \in Seq(Commands)
    BY TypeFacts
  <1>2. PICK E, F, V : /\ E = {c \in Commands : EventOK(c)'}
                       /\ F = {c \in Commands : FlushOK(c)'}
                       /\ V = {c \in Commands : LiveOK(c)'}
    OBVIOUS
  <1>18. \A c \in Commands : /\ EventOK(c) => c \in E
                             /\ FlushOK(c) => c \in F
                             /\ LiveOK(c) => c \in V
    BY <1>1, <1>2, StaysOK
  <1>19. V \subseteq E
    BY <1>2 DEF LiveOK
  <1>3. /\ ToSet(recorded) \subseteq E
        /\ current = NoCommand \/ current \in E \cup F
        /\ ToSet(queue.commands) \subseteq E \cup F
        /\ ToSet(queue.live) \subseteq V /\ ToSet(queue.live) \subseteq E
    <2>1. /\ ToSet(recorded) \subseteq Commands /\ ToSet(queue.commands) \subseteq Commands
          /\ ToSet(queue.live) \subseteq Commands
      BY <1>4, Elements
    <2> QED BY <1>4, <1>18, <1>19, <2>1 DEF ContentInv
  <1>5. DistinctKeys(queue.live) /\ ((worker = "recording") <=> (current # NoCommand))
    BY DEF ContentInv
  <1>6. ToSet(<<>>) = {} /\ DistinctKeys(<<>>)
    BY ElementsFew DEF DistinctKeys
  <1> DEFINE Lanes == /\ ToSet(queue'.commands) \subseteq E \cup F
                      /\ ToSet(queue'.live) \subseteq V
                      /\ DistinctKeys(queue'.live)
             Past == /\ ToSet(recorded') \subseteq E
                     /\ current' = NoCommand \/ current' \in E \cup F
                     /\ (worker' = "recording") <=> (current' # NoCommand)
  <1>7. SUFFICES Lanes /\ Past
    <2>1. /\ \A c \in E : EventOK(c)'
          /\ \A c \in F : FlushOK(c)'
          /\ \A c \in V : LiveOK(c)'
      BY <1>2
    <2>2. current' \in E \cup F => (EventOK(current) \/ FlushOK(current))'
      <3>1. PICK c : c = current'
        OBVIOUS
      <3>2. c \in E \cup F => EventOK(c)' \/ FlushOK(c)'
        BY <2>1
      <3> QED BY <3>1, <3>2 DEF EventOK, FlushOK
    <2>3. /\ \A c \in ToSet(recorded') : EventOK(c)'
          /\ \A c \in ToSet(queue'.commands) : EventOK(c)' \/ FlushOK(c)'
          /\ \A c \in ToSet(queue'.live) : LiveOK(c)'
      BY <1>7, <2>1
    <2> QED BY <1>7, <2>2, <2>3 DEF ContentInv
  <1>8. UNCHANGED <<recorded, current, worker>> => Past
    BY <1>3, <1>5
  <1>9. UNCHANGED queue => Lanes
    BY <1>3, <1>5
  <1> HIDE DEF Lanes, Past
  <1>10. CASE Refuses
    <2>1. UNCHANGED <<queue, recorded, current, worker>>
      BY <1>10 DEF Refuses, RefusesAs, workerVars
    <2> QED BY <1>8, <1>9, <2>1
  <1>11. CASE Accepts
    <2>1. PICK key \in Keys \cup {NoKey}, kind \in Kinds : TakesAs(key, kind)
      BY <1>11 DEF Accepts
    <2>2. UNCHANGED <<recorded, current, worker>>
      BY <2>1 DEF TakesAs, workerVars
    <2>3. PICK e : e = NewEvent(key, kind, Position)
      OBVIOUS
    <2>4. /\ e \in Commands /\ e.key = key /\ e.kind = kind /\ EventOK(e)'
          /\ (key # NoKey => LiveOK(e)')
      BY <2>1, <2>3, NewIsOK
    <2>11. e \in E /\ (key # NoKey => e \in V)
      BY <1>2, <2>4
    <2>5. Pushed(queue, queue', e)
      BY <2>1, <2>3 DEF TakesAs
    <2>6. CASE Flushed(queue, queue', e)
      <3>1. ToSet(queue'.commands) = ToSet(queue.commands) \cup ToSet(queue.live) \cup {e}
        BY <1>4, <2>4, <2>6, FlushedFacts DEF Flushed
      <3>2. queue'.live = <<>>
        BY <2>6 DEF Flushed
      <3>3. Lanes
        BY <1>3, <1>6, <2>11, <3>1, <3>2 DEF Lanes
      <3> QED BY <1>8, <2>2, <3>3
    <2>7. CASE key # NoKey /\ Added(queue, queue', e)
      <3>1. ToSet(Append(queue.live, e)) = ToSet(queue.live) \cup {e}
        BY <1>4, <2>4, ElementsAppended
      <3>2. DistinctKeys(Append(queue.live, e))
        BY <1>4, <1>5, <2>4, <2>7, DistinctAppended DEF Added
      <3>3. Lanes
        BY <1>3, <2>7, <2>11, <3>1, <3>2 DEF Lanes, Added
      <3> QED BY <1>8, <2>2, <3>3
    <2>8. ASSUME key # NoKey, NEW i \in 1..Len(queue.live), NEW x \in Commands, x \in V, x.key = key,
                 \/ queue.live[i].key = key
                 \/ \A y \in ToSet(queue.live) : y.key # key,
                 queue'.live = Append(RemoveAt(queue.live, i), x),
                 queue'.commands \in {queue.commands, Append(queue.commands, queue.live[i])}
          PROVE  Lanes
      <3>1. /\ RemoveAt(queue.live, i) \in Seq(Commands)
            /\ ToSet(queue.live) = {queue.live[i]} \cup ToSet(RemoveAt(queue.live, i))
            /\ ToSet(Append(RemoveAt(queue.live, i), x)) = ToSet(RemoveAt(queue.live, i)) \cup {x}
        <4>1. PICK L \in Seq(Commands) : L = queue.live
          BY <1>4
        <4>2. PICK j \in 1..Len(L) : j = i
          BY <4>1
        <4>3. /\ RemoveAt(L, j) \in Seq(Commands)
              /\ ToSet(L) = {L[j]} \cup ToSet(RemoveAt(L, j))
              /\ ToSet(Append(RemoveAt(L, j), x)) = ToSet(RemoveAt(L, j)) \cup {x}
          BY RenewedElements
        <4> QED BY <4>1, <4>2, <4>3
      <3>2. /\ DistinctKeys(RemoveAt(queue.live, i))
            /\ \A y \in ToSet(RemoveAt(queue.live, i)) : y.key # queue.live[i].key
        BY <1>4, <1>5, DistinctTaken
      <3>3. \A y \in ToSet(RemoveAt(queue.live, i)) : y.key # x.key
        BY <2>8, <3>1, <3>2
      <3>4. DistinctKeys(Append(RemoveAt(queue.live, i), x))
        BY <3>1, <3>2, <3>3, DistinctAppended
      <3>5. ToSet(queue'.live) \subseteq V
        BY <1>3, <2>8, <3>1
      <3>6. queue.live[i] \in Commands /\ queue.live[i] \in E
        BY <1>3, <1>4, <3>1
      <3>7. ToSet(queue'.commands) \subseteq E \cup F
        <4>1. ToSet(Append(queue.commands, queue.live[i])) = ToSet(queue.commands) \cup {queue.live[i]}
          BY <1>4, <3>6, ElementsAppended
        <4>2. \/ queue'.commands = queue.commands
              \/ queue'.commands = Append(queue.commands, queue.live[i])
          BY <2>8
        <4>3. \/ ToSet(queue'.commands) = ToSet(queue.commands)
              \/ ToSet(queue'.commands) = ToSet(queue.commands) \cup {queue.live[i]}
          BY <4>1, <4>2
        <4> QED BY <1>3, <3>6, <4>3
      <3> QED BY <2>8, <3>4, <3>5, <3>7 DEF Lanes
    <2>9. CASE key # NoKey /\ \E i \in 1..Len(queue.live) : Moved(queue, queue', e, i)
      <3>1. PICK i \in 1..Len(queue.live) : Moved(queue, queue', e, i)
        BY <2>9
      <3>2. Lanes
        BY <2>4, <2>8, <2>9, <2>11, <3>1 DEF Moved
      <3> QED BY <1>8, <2>2, <3>2
    <2>10. CASE key # NoKey /\ \E i \in 1..Len(queue.live) : Merged(queue, queue', e, i)
      <3>1. PICK i \in 1..Len(queue.live) : Merged(queue, queue', e, i)
        BY <2>10
      <3>2. PICK old : old = queue.live[i]
        OBVIOUS
      <3>3. old \in Commands /\ LiveOK(old) /\ old.key = key /\ old.kind = kind
        <4>1. old \in Commands /\ old \in ToSet(queue.live)
          BY <1>4, <3>2, Elements
        <4> QED BY <2>4, <3>1, <3>2, <4>1 DEF Merged, ContentInv
      <3>4. PICK next : next = Coalesce(old, e)
        OBVIOUS
      <3>5. next \in Commands /\ next.key = key /\ LiveOK(next)'
        BY <1>1, <2>1, <2>3, <3>3, <3>4, MergedIsOK
      <3>7. next \in V
        BY <1>2, <3>5
      <3>6. Lanes
        BY <2>8, <2>10, <3>1, <3>2, <3>3, <3>4, <3>5, <3>7 DEF Merged
      <3> QED BY <1>8, <2>2, <3>6
    <2> QED BY <2>4, <2>5, <2>6, <2>7, <2>9, <2>10 DEF Pushed
  <1>12. CASE Asks
    <2>1. UNCHANGED <<recorded, current, worker>>
      BY <1>12 DEF Asks, workerVars
    <2>2. CASE Flushed(queue, queue', FlushCommand(flushNo + 1))
      <3>1. PICK c \in Commands : c = FlushCommand(flushNo + 1) /\ c.kind = "flush" /\ c.parts = <<flushNo + 1>>
        BY TypeFacts, FlushShape
      <3>2. FlushOK(c)'
        <4>1. flushNo' = flushNo + 1 /\ flushNo \in Nat
          BY <1>12, TypeFacts DEF Asks
        <4>2. flushNo + 1 \in 1..flushNo'
          BY <4>1
        <4> QED BY <3>1, <4>2 DEF FlushOK
      <3>3. ToSet(queue'.commands) = ToSet(queue.commands) \cup ToSet(queue.live) \cup {c}
        BY <1>4, <2>2, <3>1, FlushedFacts DEF Flushed
      <3>4. Lanes
        BY <1>2, <1>3, <1>6, <2>2, <3>2, <3>3 DEF Lanes, Flushed
      <3> QED BY <1>8, <2>1, <3>4
    <2>3. CASE UNCHANGED queue
      BY <1>8, <1>9, <2>1, <2>3
    <2> QED BY <1>12, <2>2, <2>3 DEF Asks
  <1>13. CASE Closes
    <2>1. UNCHANGED <<recorded, current, worker>>
      BY <1>13 DEF Closes, workerVars
    <2>2. queue'.commands = queue.commands \o queue.live /\ queue'.live = <<>>
      BY <1>13 DEF Closes
    <2>3. ToSet(queue'.commands) = ToSet(queue.commands) \cup ToSet(queue.live)
      BY <1>4, <2>2, FlushedFacts
    <2>4. Lanes
      BY <1>3, <1>6, <2>2, <2>3 DEF Lanes
    <2> QED BY <1>8, <2>1, <2>4
  <1>14. CASE Fetches
    <2>1. worker' = "recording" /\ recorded' = recorded
      BY <1>14 DEF Fetches
    <2>2. CASE queue.commands # <<>>
      <3>1. /\ current' = Head(queue.commands) /\ queue'.commands = Tail(queue.commands)
            /\ queue'.live = queue.live
        BY <1>14, <2>2 DEF Fetches
      <3>2. ToSet(queue.commands) = {Head(queue.commands)} \cup ToSet(Tail(queue.commands))
        BY <1>4, <2>2, ElementsTaken
      <3>3. Lanes
        BY <1>3, <1>5, <3>1, <3>2 DEF Lanes
      <3>4. current' \in E \cup F /\ current' # NoCommand
        BY <1>3, <3>1, <3>2, KindsApart DEF ContentInv
      <3>5. Past
        BY <1>3, <2>1, <3>4 DEF Past
      <3> QED BY <3>3, <3>5
    <2>3. CASE queue.commands = <<>>
      <3>1. /\ current' = queue.live[1] /\ queue'.commands = <<>> /\ 1 \in 1..Len(queue.live)
            /\ queue'.live = RemoveAt(queue.live, 1)
        BY <1>14, <2>3 DEF Fetches
      <3>2. ToSet(queue.live) = {queue.live[1]} \cup ToSet(RemoveAt(queue.live, 1))
        BY <1>4, <3>1, ElementsTaken
      <3>3. DistinctKeys(RemoveAt(queue.live, 1))
        BY <1>4, <1>5, <3>1, DistinctTaken
      <3>4. Lanes
        BY <1>3, <1>6, <3>1, <3>2, <3>3 DEF Lanes
      <3>5. current' \in E /\ current' # NoCommand
        BY <1>3, <3>1, <3>2, KindsApart DEF ContentInv, LiveOK
      <3>6. Past
        BY <1>3, <2>1, <3>5 DEF Past
      <3> QED BY <3>4, <3>6
    <2> QED BY <2>2, <2>3
  <1>15. CASE Record \/ Acknowledge
    <2>1. UNCHANGED queue /\ worker' = "next" /\ current' = NoCommand /\ worker = "recording"
      BY <1>15 DEF Record, Acknowledge
    <2>2. CASE Record
      <3>1. recorded' = Append(recorded, current) /\ current.kind # "flush"
        BY <2>2 DEF Record
      <3>2. ToSet(recorded') = ToSet(recorded) \cup {current}
        BY <1>4, <3>1, ElementsAppended
      <3>3. current \in E
        BY <1>4, <1>5, <1>18, <2>1, <3>1 DEF ContentInv, FlushOK
      <3>4. Past
        BY <1>3, <2>1, <3>2, <3>3 DEF Past
      <3> QED BY <1>9, <2>1, <3>4
    <2>3. CASE Acknowledge
      <3>1. Past
        BY <1>3, <2>1, <2>3 DEF Past, Acknowledge
      <3> QED BY <1>9, <2>1, <3>1
    <2> QED BY <1>15, <2>2, <2>3
  <1>16. CASE Fails
    <2>1. /\ worker' = "ended" /\ current' = NoCommand /\ queue'.commands = <<>> /\ queue'.live = <<>>
      BY <1>16 DEF Fails
    <2>2. Lanes
      BY <1>6, <2>1 DEF Lanes
    <2>3. ToSet(recorded') \subseteq E
      <3>1. CASE recorded' = recorded
        BY <1>3, <3>1
      <3>2. CASE recorded' # recorded
        <4>1. recorded' = Append(recorded, current) /\ current.kind \notin {"flush", "none"}
          BY <1>16, <3>2 DEF Fails
        <4>2. ToSet(recorded') = ToSet(recorded) \cup {current}
          BY <1>4, <4>1, ElementsAppended
        <4>3. current \in E
          BY <1>4, <1>18, <4>1, FlushShape DEF ContentInv, FlushOK
        <4> QED BY <1>3, <4>2, <4>3
      <3> QED BY <3>1, <3>2
    <2>4. Past
      BY <2>1, <2>3 DEF Past
    <2> QED BY <2>2, <2>4
  <1>17. CASE Rests
    <2>1. UNCHANGED <<queue, recorded, current>> /\ ((worker = "recording") <=> (worker' = "recording"))
      BY <1>17 DEF Rests, Content
    <2>2. Past
      BY <1>3, <1>5, <2>1 DEF Past
    <2> QED BY <1>9, <2>1, <2>2
  <1> QED BY <1>1, <1>10, <1>11, <1>12, <1>13, <1>14, <1>15, <1>16, <1>17, Shapes

-----------------------------------------------------------------------------
(* The order of what is recorded *)

\* Each part of the pipeline is in order and comes before the next.
Ordered(R, c, C, L) ==
    /\ Sorted(R) /\ Sorted(C)
    /\ Before(ToSet(R), {c}) /\ Before(ToSet(R), ToSet(C)) /\ Before(ToSet(R), ToSet(L))
    /\ Before({c}, ToSet(C)) /\ Before({c}, ToSet(L)) /\ Before(ToSet(C), ToSet(L))
OrderInv == Ordered(recorded, current, queue.commands, queue.live)

\* What is no event is in any order.
LEMMA NoEventInOrder ==
    ASSUME NEW a, NEW b, ~IsEvent(a) \/ ~IsEvent(b) PROVE InOrder(a, b)
  BY DEF InOrder

\* Live events have different keys, so that any order of them will do.
LEMMA LiveInOrder ==
    ASSUME TypeInv, ContentInv
    PROVE  /\ Sorted(queue.live)
           /\ \A i \in 1..Len(queue.live) :
                  Before({queue.live[i]}, ToSet(RemoveAt(queue.live, i)))
  <1>1. queue.live \in Seq(Commands)
    BY TypeFacts
  <1>2. \A i \in 1..Len(queue.live) : queue.live[i] \in ToSet(queue.live) /\ queue.live[i].key # NoKey
    BY <1>1, Elements DEF ContentInv, LiveOK
  <1>3. \A a, b : a.key # b.key /\ a.key # NoKey /\ b.key # NoKey => InOrder(a, b)
    BY DEF InOrder, KeepOrder
  <1>4. Sorted(queue.live)
    <2>1. ASSUME NEW i \in 1..Len(queue.live), NEW j \in 1..Len(queue.live), i < j
          PROVE  InOrder(queue.live[i], queue.live[j])
      <3>1. i # j
        BY <2>1
      <3> QED BY <1>2, <1>3, <3>1 DEF ContentInv, DistinctKeys
    <2> QED BY <2>1 DEF Sorted
  <1>5. ASSUME NEW i \in 1..Len(queue.live), NEW y \in ToSet(RemoveAt(queue.live, i))
        PROVE  InOrder(queue.live[i], y)
    <2>1. y.key # queue.live[i].key
      BY <1>1, DistinctTaken DEF ContentInv
    <2>2. ToSet(queue.live) = {queue.live[i]} \cup ToSet(RemoveAt(queue.live, i))
      BY <1>1, ElementsTaken
    <2>3. y.key # NoKey
      BY <2>2 DEF ContentInv, LiveOK
    <2> QED BY <1>2, <1>3, <2>1, <2>3
  <1> QED BY <1>4, <1>5 DEF Before

\* A command that all others may precede is queued behind the live lane.
LEMMA OrderFlushed ==
    ASSUME NEW R \in Seq(Commands), NEW c, NEW C \in Seq(Commands), NEW L \in Seq(Commands),
           Ordered(R, c, C, L), Sorted(L), NEW x \in Commands,
           \A a \in ToSet(R) \cup {c} \cup ToSet(C) \cup ToSet(L) : InOrder(a, x)
    PROVE  Ordered(R, c, C \o L, <<>>) /\ Ordered(R, c, Append(C \o L, x), <<>>)
  <1>1. PICK j \in Seq(Commands) : j = C \o L
    BY Joined DEF IsJoin
  <1>2. ToSet(j) = ToSet(C) \cup ToSet(L)
    BY <1>1, ElementsJoined
  <1>3. Sorted(j)
    BY <1>1, SortedJoined DEF Ordered
  <1>4. ToSet(Append(j, x)) = ToSet(C) \cup ToSet(L) \cup {x}
    BY <1>2, ElementsAppended
  <1>5. Sorted(Append(j, x))
    <2>1. Before(ToSet(j), {x})
      BY <1>2 DEF Before
    <2> QED BY <1>3, <2>1, SortedAppended
  <1>6. Ordered(R, c, j, <<>>)
    BY <1>2, <1>3, ElementsFew DEF Ordered, Before
  <1>7. Ordered(R, c, Append(j, x), <<>>)
    BY <1>4, <1>5, ElementsFew DEF Ordered, Before
  <1> QED BY <1>1, <1>6, <1>7

\* An event is appended to the live lane.
LEMMA OrderAdded ==
    ASSUME NEW R \in Seq(Commands), NEW c, NEW C \in Seq(Commands), NEW L \in Seq(Commands),
           Ordered(R, c, C, L), NEW x \in Commands,
           \A a \in ToSet(R) \cup {c} \cup ToSet(C) : InOrder(a, x)
    PROVE  Ordered(R, c, C, Append(L, x))
  <1>1. ToSet(Append(L, x)) = ToSet(L) \cup {x}
    BY ElementsAppended
  <1> QED BY <1>1 DEF Ordered, Before

\* An event leaves the live lane, or becomes a command.
LEMMA OrderMoved ==
    ASSUME NEW R \in Seq(Commands), NEW c, NEW C \in Seq(Commands), NEW L \in Seq(Commands),
           Ordered(R, c, C, L), NEW i \in 1..Len(L), Before({L[i]}, ToSet(RemoveAt(L, i)))
    PROVE  /\ Ordered(R, c, C, RemoveAt(L, i))
           /\ Ordered(R, c, Append(C, L[i]), RemoveAt(L, i))
           /\ L[i] \in ToSet(L) /\ L[i] \in Commands
           /\ ToSet(Append(C, L[i])) = ToSet(C) \cup {L[i]}
  <1>1. ToSet(L) = {L[i]} \cup ToSet(RemoveAt(L, i))
    BY ElementsTaken
  <1>2. PICK x \in Commands : x = L[i]
    OBVIOUS
  <1>3. ToSet(Append(C, x)) = ToSet(C) \cup {x}
    BY ElementsAppended
  <1>4. Sorted(Append(C, x))
    <2>1. Before(ToSet(C), {x})
      BY <1>1, <1>2 DEF Ordered, Before
    <2> QED BY <2>1, SortedAppended DEF Ordered
  <1>5. Ordered(R, c, C, RemoveAt(L, i))
    BY <1>1 DEF Ordered, Before
  <1>6. Ordered(R, c, Append(C, x), RemoveAt(L, i))
    BY <1>1, <1>2, <1>3, <1>4 DEF Ordered, Before
  <1> QED BY <1>1, <1>2, <1>3, <1>5, <1>6

\* A new event comes after everything.
LEMMA NewInOrder ==
    ASSUME TypeInv, NEW key \in Keys \cup {NoKey}, NEW kind \in Kinds, TakesAs(key, kind),
           NEW e, e = NewEvent(key, kind, Position), NEW a, EventOK(a) \/ ~IsEvent(a)
    PROVE  InOrder(a, e)
  <1>1. ToSet(e.parts) = {Position}
    BY NewIsOK
  <1>2. CASE EventOK(a)
    BY <1>1, <1>2, PartsAreOld DEF InOrder
  <1>3. CASE ~IsEvent(a)
    BY <1>3 DEF InOrder
  <1> QED BY <1>2, <1>3

\* A coalesced event comes after what its predecessor came after.
LEMMA MergedInOrder ==
    ASSUME TypeInv, Grows, NEW key \in Keys \cup {NoKey}, NEW kind \in Kinds, TakesAs(key, kind),
           NEW e, e = NewEvent(key, kind, Position),
           NEW old \in Commands, LiveOK(old), old.key = key, old.kind = kind,
           NEW next, next = Coalesce(old, e),
           NEW a, EventOK(a) \/ ~IsEvent(a), InOrder(a, old)
    PROVE  InOrder(a, next)
  <1>1. next.key = key /\ ToSet(next.parts) \subseteq ToSet(old.parts) \cup {Position}
    BY MergedIsOK
  <1>2. CASE EventOK(a)
    <2>1. \A p \in ToSet(a.parts) : p < Position
      BY <1>2, PartsAreOld
    <2>2. KeepOrder(a, next) => KeepOrder(a, old)
      BY <1>1 DEF KeepOrder
    <2>3. IsEvent(old)
      BY DEF LiveOK, EventOK
    <2> QED BY <1>1, <2>1, <2>2, <2>3 DEF InOrder
  <1>3. CASE ~IsEvent(a)
    BY <1>3 DEF InOrder
  <1> QED BY <1>2, <1>3

\* A step keeps the order.
LEMMA OrderStep ==
    ASSUME TypeInv, ContentInv, OrderInv, Next PROVE OrderInv'
  <1>1. HandsInv /\ Grows
    BY Hands, HistoryGrows
  <1>2. PICK R \in Seq(Commands), c \in Commands, C \in Seq(Commands), L \in Seq(Commands) :
            R = recorded /\ c = current /\ C = queue.commands /\ L = queue.live
    BY TypeFacts
  <1>3. Ordered(R, c, C, L)
    BY <1>2 DEF OrderInv
  <1>4. Sorted(L) /\ \A i \in 1..Len(L) : Before({L[i]}, ToSet(RemoveAt(L, i)))
    BY <1>2, LiveInOrder
  <1>5. \A a \in ToSet(R) \cup {c} \cup ToSet(C) \cup ToSet(L) : EventOK(a) \/ ~IsEvent(a)
    BY <1>2, FlushShape, KindsApart DEF ContentInv, LiveOK
  <1>6. SUFFICES Ordered(recorded', current', queue'.commands, queue'.live)
    BY DEF OrderInv
  <1>7. CASE Refuses
    BY <1>2, <1>3, <1>7 DEF Refuses, RefusesAs, workerVars
  <1>8. CASE Accepts
    <2>1. PICK key \in Keys \cup {NoKey}, kind \in Kinds : TakesAs(key, kind)
      BY <1>8 DEF Accepts
    <2>2. recorded' = R /\ current' = c
      BY <1>2, <2>1 DEF TakesAs, workerVars
    <2>3. PICK e : e = NewEvent(key, kind, Position)
      OBVIOUS
    <2>4. e \in Commands /\ e.key = key /\ e.kind = kind
      BY <2>1, <2>3, NewIsOK
    <2>5. Pushed(queue, queue', e)
      BY <2>1, <2>3 DEF TakesAs
    <2>6. \A a \in ToSet(R) \cup {c} \cup ToSet(C) \cup ToSet(L) : InOrder(a, e)
      BY <1>5, <2>1, <2>3, NewInOrder
    <2>7. CASE Flushed(queue, queue', e)
      <3>1. queue'.commands = Append(C \o L, e) /\ queue'.live = <<>>
        BY <1>2, <2>7 DEF Flushed
      <3>2. Ordered(R, c, Append(C \o L, e), <<>>)
        BY <1>3, <1>4, <2>4, <2>6, OrderFlushed
      <3> QED BY <2>2, <3>1, <3>2
    <2>8. CASE Added(queue, queue', e)
      <3>1. queue'.commands = C /\ queue'.live = Append(L, e)
        BY <1>2, <2>8 DEF Added
      <3>2. Ordered(R, c, C, Append(L, e))
        BY <1>3, <2>4, <2>6, OrderAdded
      <3> QED BY <2>2, <3>1, <3>2
    <2>9. CASE \E i \in 1..Len(queue.live) : Moved(queue, queue', e, i)
      <3>1. PICK i \in 1..Len(L) : Moved(queue, queue', e, i)
        BY <1>2, <2>9
      <3>2. queue'.commands = Append(C, L[i]) /\ queue'.live = Append(RemoveAt(L, i), e)
        BY <1>2, <3>1 DEF Moved
      <3>3. /\ Ordered(R, c, Append(C, L[i]), RemoveAt(L, i))
            /\ L[i] \in ToSet(L) /\ L[i] \in Commands
            /\ ToSet(Append(C, L[i])) = ToSet(C) \cup {L[i]}
        <4>1. Before({L[i]}, ToSet(RemoveAt(L, i)))
          BY <1>4
        <4>2. Ordered(R, c, Append(C, L[i]), RemoveAt(L, i))
          BY <1>3, <4>1, OrderMoved, ZenonT(30)
        <4>3. L[i] \in ToSet(L) /\ L[i] \in Commands
          BY Elements
        <4>4. ToSet(Append(C, L[i])) = ToSet(C) \cup {L[i]}
          BY <4>3, ElementsAppended
        <4> QED BY <4>2, <4>3, <4>4
      <3>4. PICK D \in Seq(Commands), M \in Seq(Commands) : D = Append(C, L[i]) /\ M = RemoveAt(L, i)
        <4>1. Append(C, L[i]) \in Seq(Commands)
          BY <3>3
        <4>2. RemoveAt(L, i) \in Seq(Commands)
          BY Removed
        <4> QED BY <4>1, <4>2
      <3>5. \A a \in ToSet(R) \cup {c} \cup ToSet(D) : InOrder(a, e)
        BY <2>6, <3>3, <3>4
      <3>6. Ordered(R, c, D, Append(M, e))
        BY <2>4, <3>3, <3>4, <3>5, OrderAdded
      <3> QED BY <2>2, <3>2, <3>4, <3>6
    <2>10. CASE \E i \in 1..Len(queue.live) : Merged(queue, queue', e, i)
      <3>1. PICK i \in 1..Len(L) : Merged(queue, queue', e, i)
        BY <1>2, <2>10
      <3>2. PICK old : old = L[i]
        OBVIOUS
      <3>3. /\ old \in Commands /\ LiveOK(old) /\ old.key = key /\ old.kind = kind
            /\ old \in ToSet(L)
        <4>1. old \in Commands /\ old \in ToSet(L)
          BY <3>2, Elements
        <4> QED BY <1>2, <2>4, <3>1, <3>2, <4>1 DEF Merged, ContentInv
      <3>4. PICK next : next = Coalesce(old, e)
        OBVIOUS
      <3>5. next \in Commands
        BY <1>1, <2>1, <2>3, <3>3, <3>4, MergedIsOK
      <3>6. queue'.commands = C /\ queue'.live = Append(RemoveAt(L, i), next)
        BY <1>2, <3>1, <3>2, <3>4 DEF Merged
      <3>7. \A a \in ToSet(R) \cup {c} \cup ToSet(C) : InOrder(a, next)
        <4>1. ASSUME NEW a \in ToSet(R) \cup {c} \cup ToSet(C) PROVE InOrder(a, next)
          <5>1. InOrder(a, old)
            BY <1>3, <3>3, <4>1 DEF Ordered, Before
          <5>2. EventOK(a) \/ ~IsEvent(a)
            BY <1>5, <4>1
          <5> QED BY <1>1, <2>1, <2>3, <3>3, <3>4, <5>1, <5>2, MergedInOrder
        <4> QED BY <4>1
      <3>8. Ordered(R, c, C, RemoveAt(L, i))
        BY <1>3, <1>4, OrderMoved
      <3>9. PICK M \in Seq(Commands) : M = RemoveAt(L, i)
        <4>2. RemoveAt(L, i) \in Seq(Commands)
          BY Removed
        <4> QED BY <4>2
      <3>10. Ordered(R, c, C, Append(M, next))
        BY <3>5, <3>7, <3>8, <3>9, OrderAdded
      <3> QED BY <2>2, <3>6, <3>9, <3>10
    <2> QED BY <2>5, <2>7, <2>8, <2>9, <2>10 DEF Pushed
  <1>9. CASE Asks
    <2>1. recorded' = R /\ current' = c
      BY <1>2, <1>9 DEF Asks, workerVars
    <2>2. CASE UNCHANGED queue
      BY <1>2, <1>3, <2>1, <2>2
    <2>3. CASE Flushed(queue, queue', FlushCommand(flushNo + 1))
      <3>1. PICK x \in Commands : x = FlushCommand(flushNo + 1) /\ ~IsEvent(x)
        BY TypeFacts, FlushShape
      <3>2. queue'.commands = Append(C \o L, x) /\ queue'.live = <<>>
        BY <1>2, <2>3, <3>1 DEF Flushed
      <3>3. \A a \in ToSet(R) \cup {c} \cup ToSet(C) \cup ToSet(L) : InOrder(a, x)
        BY <3>1, NoEventInOrder
      <3>4. Ordered(R, c, Append(C \o L, x), <<>>)
        BY <1>3, <1>4, <3>3, OrderFlushed
      <3> QED BY <2>1, <3>2, <3>4
    <2> QED BY <1>9, <2>2, <2>3 DEF Asks
  <1>10. CASE Closes
    <2>1. recorded' = R /\ current' = c /\ queue'.commands = C \o L /\ queue'.live = <<>>
      BY <1>2, <1>10 DEF Closes, workerVars
    <2>2. PICK x \in Commands : ~IsEvent(x)
      BY FlushShape
    <2>3. \A a \in ToSet(R) \cup {c} \cup ToSet(C) \cup ToSet(L) : InOrder(a, x)
      BY <2>2, NoEventInOrder
    <2>4. Ordered(R, c, C \o L, <<>>)
      BY <1>3, <1>4, <2>3, OrderFlushed
    <2> QED BY <2>1, <2>4
  <1>11. CASE Fetches
    <2>1. recorded' = R
      BY <1>2, <1>11 DEF Fetches
    <2>2. CASE C # <<>>
      <3>1. current' = Head(C) /\ queue'.commands = Tail(C) /\ queue'.live = L
        BY <1>2, <1>11, <2>2 DEF Fetches
      <3>2. ToSet(C) = {Head(C)} \cup ToSet(Tail(C))
        BY <2>2, ElementsTaken
      <3>3. Sorted(Tail(C)) /\ Before({Head(C)}, ToSet(Tail(C)))
        BY <1>3, <2>2, SortedTaken DEF Ordered
      <3>4. Ordered(R, Head(C), Tail(C), L)
        BY <1>3, <3>2, <3>3 DEF Ordered, Before
      <3> QED BY <2>1, <3>1, <3>4
    <2>3. CASE C = <<>>
      <3>1. /\ current' = L[1] /\ queue'.commands = <<>> /\ 1 \in 1..Len(L)
            /\ queue'.live = RemoveAt(L, 1)
        BY <1>2, <1>11, <2>3 DEF Fetches
      <3>2. ToSet(L) = {L[1]} \cup ToSet(RemoveAt(L, 1))
        BY <3>1, ElementsTaken
      <3>3. Before({L[1]}, ToSet(RemoveAt(L, 1)))
        BY <1>4, <3>1
      <3>4. Ordered(R, L[1], <<>>, RemoveAt(L, 1))
        BY <1>3, <2>3, <3>2, <3>3, ElementsFew DEF Ordered, Before
      <3> QED BY <2>1, <3>1, <3>4
    <2> QED BY <2>2, <2>3
  <1>12. \A x : Before(x, {NoCommand}) /\ Before({NoCommand}, x)
    BY FlushShape, NoEventInOrder DEF Before
  <1>13. Ordered(Append(R, c), NoCommand, C, L) /\ Ordered(R, NoCommand, C, L)
    <2>1. ToSet(Append(R, c)) = ToSet(R) \cup {c}
      BY ElementsAppended
    <2>2. Sorted(Append(R, c))
      BY <1>3, SortedAppended DEF Ordered
    <2> QED BY <1>3, <1>12, <2>1, <2>2 DEF Ordered, Before
  <1>14. CASE Record \/ Acknowledge
    BY <1>2, <1>13, <1>14 DEF Record, Acknowledge
  <1>15. CASE Fails
    <2>1. /\ current' = NoCommand /\ queue'.commands = <<>> /\ queue'.live = <<>>
          /\ recorded' = R \/ recorded' = Append(R, c)
      BY <1>2, <1>15 DEF Fails
    <2>2. Ordered(Append(R, c), NoCommand, <<>>, <<>>) /\ Ordered(R, NoCommand, <<>>, <<>>)
      BY <1>12, <1>13, ElementsFew DEF Ordered, Before, Sorted
    <2> QED BY <2>1, <2>2
  <1>16. CASE Rests
    BY <1>2, <1>3, <1>16 DEF Rests, Content
  <1> QED BY <1>1, <1>7, <1>8, <1>9, <1>10, <1>11, <1>14, <1>15, <1>16, Shapes


-----------------------------------------------------------------------------
(* Nothing accepted disappears *)

\* What carries observations, and how many it stands for.
AllOf(R, c, C, L) == ToSet(R) \cup {c} \cup ToSet(C) \cup ToSet(L)
Load(R, c, C, L) == Covered(R) + Observations(c) + Covered(C) + Covered(L)
Carriers == AllOf(recorded, current, queue.commands, queue.live)
Carried == Load(recorded, current, queue.commands, queue.live)

\* Text and facts are not replaced.
Keeping == MergingKinds \cup {"fact"}
Kept(p) == emitted[p][2] \in Keeping
Keeps(a, b) == IsEvent(b) /\ (a.kind \in Keeping => ToSet(a.parts) \subseteq ToSet(b.parts))

\* Accepted text and facts are still carried, and replaced deltas are counted.
CompleteInv ==
    result # "failed" =>
        \A p \in accepted : Kept(p) => \E c \in Carriers : IsEvent(c) /\ p \in ToSet(c.parts)
CountInv == result # "failed" => Carried = Cardinality(accepted)

\* K carries what A carries, and the observation at n.
Takes(A, K, n) ==
    /\ \A a \in A : IsEvent(a) => \E b \in K : Keeps(a, b)
    /\ \E b \in K : IsEvent(b) /\ n \in ToSet(b.parts)

\* A set that loses no event carries what it carried.
LEMMA MoreTakes ==
    ASSUME NEW A, NEW K, \A a \in A : IsEvent(a) => a \in K, NEW e \in K, NEW n,
           IsEvent(e), n \in ToSet(e.parts)
    PROVE  Takes(A, K, n)
  BY DEF Takes, Keeps

\* The counts of the parts of the pipeline are numbers.
LEMMA CountsAreNumbers ==
    ASSUME NEW R \in Seq(Commands), NEW c \in Commands, NEW C \in Seq(Commands), NEW L \in Seq(Commands)
    PROVE  /\ Covered(R) \in Nat /\ Observations(c) \in Nat /\ Covered(C) \in Nat /\ Covered(L) \in Nat
           /\ Load(R, c, C, L) \in Nat
  <1>1. Covered(R) \in Nat /\ Covered(C) \in Nat /\ Covered(L) \in Nat
    BY CoveredLaws
  <1>2. Observations(c) \in Nat
    BY Fields
  <1> QED BY <1>1, <1>2 DEF Load

\* A command behind the live lane.
LEMMA LoadFlushed ==
    ASSUME NEW R \in Seq(Commands), NEW c \in Commands, NEW C \in Seq(Commands), NEW L \in Seq(Commands),
           NEW x \in Commands
    PROVE  /\ Load(R, c, Append(C \o L, x), <<>>) = Load(R, c, C, L) + Observations(x)
           /\ AllOf(R, c, Append(C \o L, x), <<>>) = AllOf(R, c, C, L) \cup {x}
           /\ Load(R, c, C \o L, <<>>) = Load(R, c, C, L)
           /\ AllOf(R, c, C \o L, <<>>) = AllOf(R, c, C, L)
  <1>1. /\ Covered(C \o L) = Covered(C) + Covered(L)
        /\ Covered(Append(C \o L, x)) = Covered(C) + Covered(L) + Observations(x)
    BY FlushedFacts
  <1>2. /\ ToSet(C \o L) = ToSet(C) \cup ToSet(L)
        /\ ToSet(Append(C \o L, x)) = ToSet(C) \cup ToSet(L) \cup {x}
    BY FlushedFacts
  <1>3. Covered(<<>>) = 0 /\ ToSet(<<>>) = {}
    BY CoveredLaws, ElementsFew
  <1>4. /\ Covered(R) \in Nat /\ Observations(c) \in Nat /\ Covered(C) \in Nat /\ Covered(L) \in Nat
        /\ Observations(x) \in Nat
    BY CountsAreNumbers, Fields
  <1>5. /\ Load(R, c, Append(C \o L, x), <<>>) = Load(R, c, C, L) + Observations(x)
        /\ Load(R, c, C \o L, <<>>) = Load(R, c, C, L)
    BY <1>1, <1>3, <1>4 DEF Load
  <1> QED BY <1>2, <1>3, <1>5 DEF AllOf

\* A live event is added, moved or replaced.
LEMMA LoadLive ==
    ASSUME NEW R \in Seq(Commands), NEW c \in Commands, NEW C \in Seq(Commands), NEW L \in Seq(Commands),
           NEW x \in Commands
    PROVE  /\ Load(R, c, C, Append(L, x)) = Load(R, c, C, L) + Observations(x)
           /\ AllOf(R, c, C, Append(L, x)) = AllOf(R, c, C, L) \cup {x}
  <1>1. Covered(Append(L, x)) = Covered(L) + Observations(x)
    BY CoveredLaws
  <1>2. ToSet(Append(L, x)) = ToSet(L) \cup {x}
    BY ElementsAppended
  <1>3. /\ Covered(R) \in Nat /\ Observations(c) \in Nat /\ Covered(C) \in Nat /\ Covered(L) \in Nat
        /\ Observations(x) \in Nat
    BY CountsAreNumbers, Fields
  <1>4. Load(R, c, C, Append(L, x)) = Load(R, c, C, L) + Observations(x)
    BY <1>1, <1>3 DEF Load
  <1> QED BY <1>2, <1>4 DEF AllOf

\* A live event is taken out.
LEMMA LoadRemoved ==
    ASSUME NEW R \in Seq(Commands), NEW c \in Commands, NEW C \in Seq(Commands), NEW L \in Seq(Commands),
           NEW i \in 1..Len(L)
    PROVE  /\ RemoveAt(L, i) \in Seq(Commands) /\ L[i] \in Commands /\ L[i] \in ToSet(L)
           /\ Load(R, c, C, L) = Load(R, c, C, RemoveAt(L, i)) + Observations(L[i])
           /\ AllOf(R, c, C, L) = AllOf(R, c, C, RemoveAt(L, i)) \cup {L[i]}
  <1>1. PICK x \in Commands : x = L[i] /\ x \in ToSet(L)
    BY Elements
  <1>2. PICK M \in Seq(Commands) : M = RemoveAt(L, i)
    BY Removed
  <1>3. Covered(L) = Covered(RemoveAt(L, i)) + Observations(L[i])
    BY CoveredLaws
  <1>4. ToSet(L) = {L[i]} \cup ToSet(RemoveAt(L, i))
    BY ElementsTaken
  <1>5. /\ Covered(R) \in Nat /\ Observations(c) \in Nat /\ Covered(C) \in Nat /\ Covered(M) \in Nat
        /\ Observations(x) \in Nat
    BY CountsAreNumbers, Fields
  <1>6. Load(R, c, C, L) = Load(R, c, C, M) + Observations(x)
    BY <1>1, <1>2, <1>3, <1>5 DEF Load
  <1> QED BY <1>1, <1>2, <1>4, <1>6 DEF AllOf

\* An event is appended to the commands.
LEMMA LoadQueued ==
    ASSUME NEW R \in Seq(Commands), NEW c \in Commands, NEW C \in Seq(Commands), NEW L \in Seq(Commands),
           NEW x \in Commands
    PROVE  /\ Load(R, c, Append(C, x), L) = Load(R, c, C, L) + Observations(x)
           /\ AllOf(R, c, Append(C, x), L) = AllOf(R, c, C, L) \cup {x}
  <1>1. Covered(Append(C, x)) = Covered(C) + Observations(x)
    BY CoveredLaws
  <1>2. ToSet(Append(C, x)) = ToSet(C) \cup {x}
    BY ElementsAppended
  <1>3. /\ Covered(R) \in Nat /\ Observations(c) \in Nat /\ Covered(C) \in Nat /\ Covered(L) \in Nat
        /\ Observations(x) \in Nat
    BY CountsAreNumbers, Fields
  <1>4. Load(R, c, Append(C, x), L) = Load(R, c, C, L) + Observations(x)
    BY <1>1, <1>3 DEF Load
  <1> QED BY <1>2, <1>4 DEF AllOf

\* A coalesced event stands for one observation more than its predecessor.
LEMMA CoalescedCount ==
    ASSUME NEW old \in Commands, NEW key \in Keys, NEW kind \in StreamKinds \cup {"progress"},
           NEW n \in Nat, old.key = key, old.kind = kind
    PROVE  Observations(Coalesce(old, NewEvent(key, kind, n))) = Observations(old) + 1
  <1>1. PICK next : next = Coalesce(old, NewEvent(key, kind, n))
    OBVIOUS
  <1>2. next.kind = kind /\ next.omitted = old.omitted + 1
    <2>1. /\ next \in Commands /\ next.key = key /\ next.kind = kind
          /\ next.omitted = old.omitted + 1 /\ next.bytes \in Nat
          /\ next.parts = IF kind \in MergingKinds THEN old.parts \o <<n>> ELSE <<n>>
      BY <1>1, CoalesceShape
    <2> QED BY <2>1
  <1>3. old.omitted \in Nat /\ kind \in Kinds
    BY Fields DEF Kinds
  <1>4. Observations(next) = 1 + next.omitted /\ Observations(old) = 1 + old.omitted
    BY <1>2, <1>3 DEF Observations, IsEvent
  <1> QED BY <1>1, <1>2, <1>3, <1>4

\* An accepted observation is carried and counted, and nothing else is lost.
LEMMA AcceptedIsCarried ==
    ASSUME TypeInv, ContentInv, Next, Accepts
    PROVE  Takes(Carriers, Carriers', Position) /\ Carried' = Carried + 1 /\ Carried \in Nat
  <1>1. HandsInv /\ Grows
    BY Hands, HistoryGrows
  <1>2. PICK R \in Seq(Commands), c \in Commands, C \in Seq(Commands), L \in Seq(Commands) :
            R = recorded /\ c = current /\ C = queue.commands /\ L = queue.live
    BY TypeFacts
  <1>3. Carriers = AllOf(R, c, C, L) /\ Carried = Load(R, c, C, L) /\ Carried \in Nat
    BY <1>2, CountsAreNumbers DEF Carriers, Carried
  <1>4. PICK key \in Keys \cup {NoKey}, kind \in Kinds : TakesAs(key, kind)
    BY DEF Accepts
  <1>5. recorded' = R /\ current' = c
    BY <1>2, <1>4 DEF TakesAs, workerVars
  <1>6. PICK e : e = NewEvent(key, kind, Position)
    OBVIOUS
  <1>7. /\ e \in Commands /\ e.key = key /\ e.kind = kind /\ IsEvent(e) /\ Observations(e) = 1
        /\ Position \in ToSet(e.parts)
    <2>1. e \in Commands /\ e.key = key /\ e.kind = kind /\ IsEvent(e)
      BY <1>4, <1>6, NewIsOK
    <2>2. ToSet(e.parts) = {Position}
      <3>1. Position \in Nat
        BY TypeFacts
      <3>2. e.parts = <<Position>>
        BY <1>6, <3>1, NewEventShape
      <3> QED BY <3>2, ElementsFew
    <2>3. Observations(e) = 1
      BY <1>4, <1>6, NewIsOK
    <2> QED BY <2>1, <2>2, <2>3
  <1>8. Pushed(queue, queue', e)
    BY <1>4, <1>6 DEF TakesAs
  <1>9. /\ Carriers' = AllOf(R, c, queue'.commands, queue'.live)
        /\ Carried' = Load(R, c, queue'.commands, queue'.live)
    BY <1>5 DEF Carriers, Carried
  <1>10. CASE Flushed(queue, queue', e)
    <2>1. queue'.commands = Append(C \o L, e) /\ queue'.live = <<>>
      BY <1>2, <1>10 DEF Flushed
    <2>2. /\ Load(R, c, Append(C \o L, e), <<>>) = Load(R, c, C, L) + Observations(e)
          /\ AllOf(R, c, Append(C \o L, e), <<>>) = AllOf(R, c, C, L) \cup {e}
      BY <1>7, LoadFlushed
    <2>3. Takes(Carriers, Carriers', Position)
      BY <1>3, <1>7, <1>9, <2>1, <2>2, MoreTakes
    <2> QED BY <1>3, <1>7, <1>9, <2>1, <2>2, <2>3
  <1>11. CASE Added(queue, queue', e)
    <2>1. queue'.commands = C /\ queue'.live = Append(L, e)
      BY <1>2, <1>11 DEF Added
    <2>2. /\ Load(R, c, C, Append(L, e)) = Load(R, c, C, L) + Observations(e)
          /\ AllOf(R, c, C, Append(L, e)) = AllOf(R, c, C, L) \cup {e}
      BY <1>7, LoadLive
    <2>3. Takes(Carriers, Carriers', Position)
      BY <1>3, <1>7, <1>9, <2>1, <2>2, MoreTakes
    <2> QED BY <1>3, <1>7, <1>9, <2>1, <2>2, <2>3
  <1>12. CASE \E i \in 1..Len(queue.live) : Moved(queue, queue', e, i)
    <2>1. PICK i \in 1..Len(L) : Moved(queue, queue', e, i)
      BY <1>2, <1>12
    <2>2. queue'.commands = Append(C, L[i]) /\ queue'.live = Append(RemoveAt(L, i), e)
      BY <1>2, <2>1 DEF Moved
    <2>3. /\ RemoveAt(L, i) \in Seq(Commands) /\ L[i] \in Commands
          /\ Load(R, c, C, L) = Load(R, c, C, RemoveAt(L, i)) + Observations(L[i])
          /\ AllOf(R, c, C, L) = AllOf(R, c, C, RemoveAt(L, i)) \cup {L[i]}
      BY LoadRemoved
    <2>4. PICK M \in Seq(Commands), x \in Commands : M = RemoveAt(L, i) /\ x = L[i]
      BY <2>3
    <2>5. PICK D \in Seq(Commands) : D = Append(C, x)
      <3>1. Append(C, x) \in Seq(Commands)
        OBVIOUS
      <3> QED BY <3>1
    <2>6. /\ Load(R, c, D, M) = Load(R, c, C, M) + Observations(x)
          /\ AllOf(R, c, D, M) = AllOf(R, c, C, M) \cup {x}
      BY <2>5, LoadQueued
    <2>7. /\ Load(R, c, D, Append(M, e)) = Load(R, c, D, M) + Observations(e)
          /\ AllOf(R, c, D, Append(M, e)) = AllOf(R, c, D, M) \cup {e}
      BY <1>7, LoadLive
    <2>8. Carriers' = Carriers \cup {e} /\ Carried' = Carried + 1
      BY <1>3, <1>7, <1>9, <2>2, <2>3, <2>4, <2>5, <2>6, <2>7
    <2>9. Takes(Carriers, Carriers', Position)
      BY <1>7, <2>8, MoreTakes
    <2> QED BY <1>3, <2>8, <2>9
  <1>13. CASE \E i \in 1..Len(queue.live) : Merged(queue, queue', e, i)
    <2>1. PICK i \in 1..Len(L) : Merged(queue, queue', e, i)
      BY <1>2, <1>13
    <2>2. PICK old : old = L[i]
      OBVIOUS
    <2>3. old \in Commands /\ LiveOK(old) /\ old.key = key /\ old.kind = kind
      <3>1. old \in Commands /\ old \in ToSet(L)
        BY <2>2, Elements
      <3> QED BY <1>2, <1>7, <2>1, <2>2, <3>1 DEF Merged, ContentInv
    <2>4. PICK next : next = Coalesce(old, e)
      OBVIOUS
    <2>5. /\ next \in Commands /\ IsEvent(next) /\ Observations(next) = Observations(old) + 1
          /\ Position \in ToSet(next.parts)
          /\ kind \in MergingKinds => ToSet(old.parts) \subseteq ToSet(next.parts)
      <3>1. next \in Commands /\ IsEvent(next)
        BY <1>1, <1>4, <1>6, <2>3, <2>4, MergedIsOK
      <3>2. Observations(next) = Observations(old) + 1
        <4>1. Position \in Nat /\ key # NoKey
          BY <2>3, TypeFacts DEF LiveOK
        <4>2. key \in Keys /\ kind \in StreamKinds \cup {"progress"}
          BY <1>4, <4>1, KeysAssumption DEF TakesAs, Emittable, Keys
        <4> QED BY <1>6, <2>3, <2>4, <4>1, <4>2, CoalescedCount
      <3>3. Position \in ToSet(next.parts)
        BY <1>1, <1>4, <1>6, <2>3, <2>4, MergedIsOK
      <3>4. kind \in MergingKinds => ToSet(old.parts) \subseteq ToSet(next.parts)
        BY <1>1, <1>4, <1>6, <2>3, <2>4, MergedIsOK
      <3> QED BY <3>1, <3>2, <3>3, <3>4
    <2>6. queue'.commands = C /\ queue'.live = Append(RemoveAt(L, i), next)
      BY <1>2, <2>1, <2>2, <2>4 DEF Merged
    <2>7. /\ RemoveAt(L, i) \in Seq(Commands)
          /\ Load(R, c, C, L) = Load(R, c, C, RemoveAt(L, i)) + Observations(L[i])
          /\ AllOf(R, c, C, L) = AllOf(R, c, C, RemoveAt(L, i)) \cup {L[i]}
      BY LoadRemoved
    <2>8. PICK M \in Seq(Commands) : M = RemoveAt(L, i)
      BY <2>7
    <2>9. /\ Load(R, c, C, Append(M, next)) = Load(R, c, C, M) + Observations(next)
          /\ AllOf(R, c, C, Append(M, next)) = AllOf(R, c, C, M) \cup {next}
      BY <2>5, LoadLive
    <2>10. Carried' = Carried + 1
      <3>1. Load(R, c, C, M) \in Nat /\ Observations(old) \in Nat
        BY <2>3, CountsAreNumbers
      <3> QED BY <1>3, <1>9, <2>2, <2>5, <2>6, <2>7, <2>8, <2>9, <3>1
    <2>11. PICK K : K = AllOf(R, c, C, M)
      OBVIOUS
    <2>12. Carriers = K \cup {old} /\ Carriers' = K \cup {next}
      BY <1>3, <1>9, <2>2, <2>6, <2>7, <2>8, <2>9, <2>11
    <2>13. Keeps(old, next)
      <3>1. kind # "fact"
        BY <2>3 DEF LiveOK, EventOK
      <3> QED BY <2>3, <2>5, <3>1 DEF Keeps, Keeping
    <2>14. Takes(Carriers, Carriers', Position)
      BY <2>5, <2>12, <2>13 DEF Takes, Keeps
    <2> QED BY <1>3, <2>10, <2>14
  <1> QED BY <1>8, <1>10, <1>11, <1>12, <1>13 DEF Pushed

\* The worker takes the oldest command.
LEMMA LoadFetched ==
    ASSUME NEW R \in Seq(Commands), NEW C \in Seq(Commands), NEW L \in Seq(Commands), C # <<>>
    PROVE  /\ Load(R, Head(C), Tail(C), L) = Load(R, NoCommand, C, L)
           /\ AllOf(R, NoCommand, C, L) = AllOf(R, Head(C), Tail(C), L) \cup {NoCommand}
  <1>1. PICK x \in Commands, D \in Seq(Commands) : x = Head(C) /\ D = Tail(C)
    BY HeadAndTail
  <1>2. Covered(C) = Observations(x) + Covered(D)
    BY <1>1, CoveredLaws
  <1>3. ToSet(C) = {x} \cup ToSet(D)
    BY <1>1, ElementsTaken
  <1>4. /\ Covered(R) \in Nat /\ Covered(D) \in Nat /\ Covered(L) \in Nat
        /\ Observations(x) \in Nat /\ Observations(NoCommand) = 0
    BY CountsAreNumbers, FlushShape DEF Observations
  <1>5. Load(R, x, D, L) = Load(R, NoCommand, C, L)
    BY <1>2, <1>4 DEF Load
  <1> QED BY <1>1, <1>3, <1>5 DEF AllOf

\* Or the oldest live event.
LEMMA LoadFetchedLive ==
    ASSUME NEW R \in Seq(Commands), NEW L \in Seq(Commands), 1 \in 1..Len(L)
    PROVE  /\ Load(R, L[1], <<>>, RemoveAt(L, 1)) = Load(R, NoCommand, <<>>, L)
           /\ AllOf(R, NoCommand, <<>>, L) = AllOf(R, L[1], <<>>, RemoveAt(L, 1)) \cup {NoCommand}
  <1>0. <<>> \in Seq(Commands) /\ NoCommand \in Commands
    BY FlushShape
  <1>5. PICK C \in Seq(Commands), n \in Commands, i \in 1..Len(L) : C = <<>> /\ n = NoCommand /\ i = 1
    BY <1>0
  <1>6. /\ RemoveAt(L, i) \in Seq(Commands) /\ L[i] \in Commands
        /\ Load(R, n, C, L) = Load(R, n, C, RemoveAt(L, i)) + Observations(L[i])
        /\ AllOf(R, n, C, L) = AllOf(R, n, C, RemoveAt(L, i)) \cup {L[i]}
    BY LoadRemoved
  <1>1. /\ RemoveAt(L, 1) \in Seq(Commands) /\ L[1] \in Commands
        /\ Load(R, NoCommand, <<>>, L) = Load(R, NoCommand, <<>>, RemoveAt(L, 1)) + Observations(L[1])
        /\ AllOf(R, NoCommand, <<>>, L) = AllOf(R, NoCommand, <<>>, RemoveAt(L, 1)) \cup {L[1]}
    BY <1>5, <1>6
  <1>2. PICK x \in Commands, M \in Seq(Commands) : x = L[1] /\ M = RemoveAt(L, 1)
    BY <1>1
  <1>3. /\ Covered(R) \in Nat /\ Covered(M) \in Nat /\ Covered(<<>>) \in Nat
        /\ Observations(x) \in Nat /\ Observations(NoCommand) = 0
    BY <1>0, CountsAreNumbers, FlushShape DEF Observations
  <1>4. Load(R, x, <<>>, M) = Load(R, NoCommand, <<>>, M) + Observations(x)
    BY <1>3 DEF Load
  <1> QED BY <1>1, <1>2, <1>4 DEF AllOf

\* The worker is done with its command.
LEMMA LoadRecorded ==
    ASSUME NEW R \in Seq(Commands), NEW c \in Commands, NEW C \in Seq(Commands), NEW L \in Seq(Commands)
    PROVE  /\ Load(Append(R, c), NoCommand, C, L) = Load(R, c, C, L)
           /\ AllOf(Append(R, c), NoCommand, C, L) = AllOf(R, c, C, L) \cup {NoCommand}
           /\ ~IsEvent(c) => /\ Load(R, NoCommand, C, L) = Load(R, c, C, L)
                             /\ \A a \in AllOf(R, c, C, L) : IsEvent(a) => a \in AllOf(R, NoCommand, C, L)
  <1>1. Covered(Append(R, c)) = Covered(R) + Observations(c)
    BY CoveredLaws
  <1>2. ToSet(Append(R, c)) = ToSet(R) \cup {c}
    BY ElementsAppended
  <1>3. /\ Covered(R) \in Nat /\ Covered(C) \in Nat /\ Covered(L) \in Nat
        /\ Observations(c) \in Nat /\ Observations(NoCommand) = 0
    BY CountsAreNumbers, FlushShape DEF Observations
  <1>4. Load(Append(R, c), NoCommand, C, L) = Load(R, c, C, L)
    BY <1>1, <1>3 DEF Load
  <1>5. ASSUME ~IsEvent(c) PROVE Load(R, NoCommand, C, L) = Load(R, c, C, L)
    BY <1>3, <1>5 DEF Load, Observations
  <1> QED BY <1>2, <1>4, <1>5 DEF AllOf

\* Other steps lose nothing, unless the worker fails.
LEMMA NothingIsLost ==
    ASSUME TypeInv, ContentInv, Next, ~Accepts, result' # "failed"
    PROVE  accepted' = accepted /\ Carried' = Carried /\ \A a \in Carriers : IsEvent(a) => a \in Carriers'
  <1>1. HandsInv
    BY Hands
  <1>2. PICK R \in Seq(Commands), c \in Commands, C \in Seq(Commands), L \in Seq(Commands) :
            R = recorded /\ c = current /\ C = queue.commands /\ L = queue.live
    BY TypeFacts
  <1>3. Carriers = AllOf(R, c, C, L) /\ Carried = Load(R, c, C, L)
    BY <1>2 DEF Carriers, Carried
  <1>4. /\ Carriers' = AllOf(recorded', current', queue'.commands, queue'.live)
        /\ Carried' = Load(recorded', current', queue'.commands, queue'.live)
    BY DEF Carriers, Carried
  <1>5. CASE UNCHANGED <<recorded, current, queue, accepted>>
    BY <1>5 DEF Carriers, Carried
  <1>6. CASE Refuses \/ Rests
    BY <1>5, <1>6 DEF Refuses, RefusesAs, Rests, Content, workerVars
  <1>7. CASE Asks
    <2>1. recorded' = R /\ current' = c /\ accepted' = accepted
      BY <1>2, <1>7 DEF Asks, workerVars, sinkVars
    <2>2. CASE UNCHANGED queue
      BY <1>2, <1>5, <2>1, <2>2
    <2>3. CASE Flushed(queue, queue', FlushCommand(flushNo + 1))
      <3>1. PICK x \in Commands : x = FlushCommand(flushNo + 1) /\ ~IsEvent(x)
        BY TypeFacts, FlushShape
      <3>2. queue'.commands = Append(C \o L, x) /\ queue'.live = <<>>
        BY <1>2, <2>3, <3>1 DEF Flushed
      <3>3. /\ Load(R, c, Append(C \o L, x), <<>>) = Load(R, c, C, L) + Observations(x)
            /\ AllOf(R, c, Append(C \o L, x), <<>>) = AllOf(R, c, C, L) \cup {x}
        BY LoadFlushed
      <3>4. Observations(x) = 0 /\ Load(R, c, C, L) \in Nat
        BY <3>1, CountsAreNumbers DEF Observations
      <3> QED BY <1>3, <1>4, <2>1, <3>2, <3>3, <3>4
    <2> QED BY <1>7, <2>2, <2>3 DEF Asks
  <1>8. CASE Closes
    <2>1. recorded' = R /\ current' = c /\ queue'.commands = C \o L /\ queue'.live = <<>>
      BY <1>2, <1>8 DEF Closes, workerVars
    <2>2. Load(R, c, C \o L, <<>>) = Load(R, c, C, L) /\ AllOf(R, c, C \o L, <<>>) = AllOf(R, c, C, L)
      BY LoadFlushed
    <2> QED BY <1>3, <1>4, <1>8, <2>1, <2>2 DEF Closes, sinkVars
  <1>9. CASE Fetches
    <2>1. recorded' = R /\ accepted' = accepted /\ c = NoCommand
      BY <1>2, <1>9 DEF Fetches, sinkVars, ContentInv
    <2>2. ~IsEvent(NoCommand)
      BY FlushShape
    <2>3. CASE C # <<>>
      <3>1. current' = Head(C) /\ queue'.commands = Tail(C) /\ queue'.live = L
        BY <1>2, <1>9, <2>3 DEF Fetches
      <3>2. /\ Load(R, Head(C), Tail(C), L) = Load(R, NoCommand, C, L)
            /\ AllOf(R, NoCommand, C, L) = AllOf(R, Head(C), Tail(C), L) \cup {NoCommand}
        BY <2>3, LoadFetched
      <3> QED BY <1>3, <1>4, <2>1, <2>2, <3>1, <3>2
    <2>4. CASE C = <<>>
      <3>1. /\ current' = L[1] /\ queue'.commands = <<>> /\ 1 \in 1..Len(L)
            /\ queue'.live = RemoveAt(L, 1)
        BY <1>2, <1>9, <2>4 DEF Fetches
      <3>2. /\ Load(R, L[1], <<>>, RemoveAt(L, 1)) = Load(R, NoCommand, <<>>, L)
            /\ AllOf(R, NoCommand, <<>>, L) = AllOf(R, L[1], <<>>, RemoveAt(L, 1)) \cup {NoCommand}
        BY <3>1, LoadFetchedLive
      <3> QED BY <1>3, <1>4, <2>1, <2>2, <2>4, <3>1, <3>2
    <2> QED BY <2>3, <2>4
  <1>10. CASE Record
    <2>1. /\ recorded' = Append(R, c) /\ current' = NoCommand /\ queue'.commands = C
          /\ queue'.live = L /\ accepted' = accepted
      BY <1>2, <1>10 DEF Record, sinkVars
    <2>2. /\ Load(Append(R, c), NoCommand, C, L) = Load(R, c, C, L)
          /\ AllOf(Append(R, c), NoCommand, C, L) = AllOf(R, c, C, L) \cup {NoCommand}
      BY LoadRecorded
    <2> QED BY <1>3, <1>4, <2>1, <2>2
  <1>11. CASE Acknowledge
    <2>1. /\ recorded' = R /\ current' = NoCommand /\ queue'.commands = C
          /\ queue'.live = L /\ accepted' = accepted /\ c.kind = "flush"
      BY <1>2, <1>11 DEF Acknowledge, sinkVars
    <2>2. ~IsEvent(c)
      BY <2>1 DEF IsEvent, Kinds, StreamKinds, MergingKinds
    <2>3. /\ Load(R, NoCommand, C, L) = Load(R, c, C, L)
          /\ \A a \in AllOf(R, c, C, L) : IsEvent(a) => a \in AllOf(R, NoCommand, C, L)
      BY <2>2, LoadRecorded
    <2> QED BY <1>3, <1>4, <2>1, <2>3
  <1>12. CASE Fails
    BY <1>12 DEF Fails
  <1> QED BY <1>1, <1>6, <1>7, <1>8, <1>9, <1>10, <1>11, <1>12, Shapes

\* The queue takes everything up to the first refusal and nothing after it.
AcceptedInv ==
    /\ ~sendError => accepted = 1..Len(emitted)
    /\ \A p \in accepted : 1..p \subseteq accepted

\* What the run emitted so far, and one more.
LEMMA OneMorePosition ==
    ASSUME TypeInv
    PROVE  /\ 1..Position = 1..Len(emitted) \cup {Position} /\ Position \notin accepted
           /\ Cardinality(1..Len(emitted)) = Len(emitted)
           /\ IsFiniteSet(accepted) /\ Cardinality(accepted) \in Nat
           /\ Cardinality(accepted \cup {Position}) = Cardinality(accepted) + 1
  <1>1. PICK n \in Nat : n = Len(emitted)
    BY TypeFacts
  <1>2. Position = n + 1 /\ accepted \subseteq 1..n
    BY <1>1, TypeFacts
  <1>3. 1..(n + 1) = 1..n \cup {n + 1} /\ n + 1 \notin 1..n
    OBVIOUS
  <1>4. IsFiniteSet(1..n) /\ Cardinality(1..n) = n
    <2>1. IsFiniteSet(1..n) /\ Cardinality(1..n) = IF 1 > n THEN 0 ELSE n - 1 + 1
      BY FS_Interval
    <2> QED BY <2>1
  <1>5. IsFiniteSet(accepted)
    BY <1>2, <1>4, FS_Subset
  <1>6. Cardinality(accepted) \in Nat
    BY <1>5, FS_CardinalityType
  <1>7. Position \notin accepted
    BY <1>2, <1>3
  <1>8. Cardinality(accepted \cup {Position}) = Cardinality(accepted) + 1
    BY <1>5, <1>7, FS_AddElement
  <1> QED BY <1>1, <1>2, <1>3, <1>4, <1>5, <1>6, <1>7, <1>8

\* Once the sink has refused an observation it takes none.
LEMMA AcceptedStep ==
    ASSUME TypeInv, HandsInv, AcceptedInv, Next PROVE AcceptedInv'
  <1>1. accepted \subseteq 1..Len(emitted)
    BY TypeFacts
  <1>2. CASE Refuses
    BY <1>2 DEF Refuses, RefusesAs, AcceptedInv
  <1>3. CASE Accepts
    <2>1. PICK key \in Keys \cup {NoKey}, kind \in Kinds : TakesAs(key, kind)
      BY <1>3 DEF Accepts
    <2>2. ~sendError /\ ~sendError' /\ accepted' = accepted \cup {Position} /\ Len(emitted') = Position
      BY <2>1, OneMore DEF TakesAs
    <2>3. accepted = 1..Len(emitted) /\ accepted' = 1..Position
      BY <2>2, OneMorePosition DEF AcceptedInv
    <2>4. \A p \in 1..Position : 1..p \subseteq 1..Position
      BY TypeFacts
    <2> QED BY <2>2, <2>3, <2>4 DEF AcceptedInv
  <1>4. CASE ~Refuses /\ ~Accepts
    <2>1. UNCHANGED <<sendError, accepted, emitted>>
      BY <1>4, Shapes DEF Asks, Closes, Fetches, Record, Acknowledge, Fails, Rests, Content,
                          sinkVars, runVars
    <2> QED BY <2>1 DEF AcceptedInv
  <1> QED BY <1>2, <1>3, <1>4

\* A worker that has failed stays so.
LEMMA FailureStays ==
    ASSUME TypeInv, HandsInv, Next, result = "failed" PROVE result' = "failed" /\ recorded' = recorded
  <1>1. worker = "ended"
    BY DEF TypeInv, ControlInv
  <1> QED BY <1>1, Shapes DEF Refuses, RefusesAs, Accepts, TakesAs, Asks, Closes, Fetches, Record,
                              Acknowledge, Fails, Rests, Content, workerVars

\* Every step keeps the count of accepted observations exact.
LEMMA CountStep ==
    ASSUME TypeInv, ContentInv, CountInv, Next PROVE CountInv'
  <1>1. HandsInv
    BY Hands
  <1>2. SUFFICES ASSUME result' # "failed" PROVE Carried' = Cardinality(accepted')
    BY DEF CountInv
  <1>3. Carried = Cardinality(accepted)
    BY <1>1, <1>2, FailureStays DEF CountInv
  <1>4. CASE Accepts
    <2>1. Carried' = Carried + 1
      BY <1>4, AcceptedIsCarried
    <2>2. accepted' = accepted \cup {Position}
      BY <1>4 DEF Accepts, TakesAs
    <2> QED BY <1>3, <2>1, <2>2, OneMorePosition
  <1>5. CASE ~Accepts
    BY <1>2, <1>3, <1>5, NothingIsLost
  <1> QED BY <1>4, <1>5

\* Every step keeps accepted text and facts.
LEMMA CompleteStep ==
    ASSUME TypeInv, ContentInv, CompleteInv, Next PROVE CompleteInv'
  <1>1. HandsInv /\ Grows
    BY Hands, HistoryGrows
  <1>2. PICK A, K : A = Carriers /\ K = Carriers'
    OBVIOUS
  <1>3. SUFFICES ASSUME result' # "failed", NEW p \in accepted', Kept(p)'
                 PROVE  \E b \in K : IsEvent(b) /\ p \in ToSet(b.parts)
    BY <1>2 DEF CompleteInv
  <1>4. result # "failed"
    BY <1>1, <1>3, FailureStays
  <1>5. ASSUME p \in accepted
        PROVE  \E a \in A : EventOK(a) /\ a.kind \in Keeping /\ p \in ToSet(a.parts)
    <2>1. emitted'[p] = emitted[p]
      BY <1>1, <1>5 DEF Grows
    <2>2. Kept(p)
      BY <1>3, <2>1 DEF Kept
    <2>3. PICK a \in A : IsEvent(a) /\ p \in ToSet(a.parts)
      BY <1>2, <1>4, <1>5, <2>2 DEF CompleteInv
    <2>4. EventOK(a)
      BY <1>2, <2>3, FlushShape, KindsApart DEF ContentInv, LiveOK, Carriers, AllOf
    <2>5. emitted[p] = <<a.key, a.kind>>
      BY <2>3, <2>4 DEF EventOK
    <2>6. a.kind \in Keeping
      BY <2>2, <2>5 DEF Kept
    <2> QED BY <2>3, <2>4, <2>6
  <1>6. CASE Accepts
    <2>1. Takes(A, K, Position)
      BY <1>2, <1>6, AcceptedIsCarried
    <2>2. accepted' = accepted \cup {Position}
      BY <1>6 DEF Accepts, TakesAs
    <2>3. CASE p = Position
      BY <2>1, <2>3 DEF Takes
    <2>4. CASE p \in accepted
      <3>1. PICK a \in A : EventOK(a) /\ a.kind \in Keeping /\ p \in ToSet(a.parts)
        BY <1>5, <2>4
      <3>2. PICK b \in K : Keeps(a, b)
        BY <2>1, <3>1 DEF Takes, EventOK
      <3> QED BY <3>1, <3>2 DEF Keeps
    <2> QED BY <2>2, <2>3, <2>4
  <1>7. CASE ~Accepts
    <2>1. accepted' = accepted /\ \A a \in A : IsEvent(a) => a \in K
      BY <1>2, <1>3, <1>7, NothingIsLost
    <2>2. PICK a \in A : EventOK(a) /\ a.kind \in Keeping /\ p \in ToSet(a.parts)
      BY <1>5, <2>1
    <2> QED BY <2>1, <2>2 DEF EventOK
  <1> QED BY <1>6, <1>7

-----------------------------------------------------------------------------
(* The barrier and what a failed run leaves *)

\* While the loop waits for its flush, no fact is queued behind it.
Waiting == loop \in {"notifyFlush", "flushing"}
Asked(c) == c.kind = "flush" /\ c.parts = <<flushNo>>
NoFactBehind(C, n) ==
    \A i, j \in 1..Len(C) :
        i < j /\ C[i].kind = "flush" /\ C[i].parts = <<n>> => C[j].kind # "fact"
FlushInv ==
    /\ Waiting /\ ack = "ok" /\ ~sendError => FactsBelow(Len(emitted)) \subseteq RecordedParts
    /\ Waiting /\ Asked(current) => \A c \in ToSet(queue.commands) : c.kind # "fact"
    /\ Waiting => NoFactBehind(queue.commands, flushNo)

\* The ledger grows by what the worker holds.
LEMMA LedgerGrows ==
    ASSUME TypeInv, ContentInv, Next
    PROVE  \/ recorded' = recorded
           \/ /\ ToSet(recorded') = ToSet(recorded) \cup {current} /\ EventOK(current)
              /\ result = "none"
  <1>1. HandsInv
    BY Hands
  <1>2. recorded \in Seq(Commands) /\ current \in Commands
    BY TypeFacts
  <1>3. ToSet(Append(recorded, current)) = ToSet(recorded) \cup {current}
    BY <1>2, ElementsAppended
  <1>4. CASE Record
    <2>1. recorded' = Append(recorded, current) /\ current.kind # "flush" /\ worker = "recording"
      BY <1>4 DEF Record
    <2>2. EventOK(current) /\ result = "none"
      BY <2>1 DEF ContentInv, FlushOK, TypeInv, ControlInv
    <2> QED BY <1>3, <2>1, <2>2
  <1>5. CASE Fails
    <2>1. SUFFICES ASSUME recorded' # recorded
                   PROVE  ToSet(recorded') = ToSet(recorded) \cup {current} /\ EventOK(current)
      BY <1>5 DEF Fails
    <2>2. recorded' = Append(recorded, current) /\ current.kind \notin {"flush", "none"}
      BY <1>5, <2>1 DEF Fails
    <2>3. EventOK(current)
      BY <2>2, FlushShape DEF ContentInv, FlushOK
    <2> QED BY <1>3, <2>2, <2>3
  <1>6. CASE ~Record /\ ~Fails
    BY <1>1, <1>6, Shapes DEF Refuses, RefusesAs, Accepts, TakesAs, Asks, Closes, Fetches,
                              Acknowledge, Rests, Content
  <1> QED BY <1>4, <1>5, <1>6

\* An accepted fact is carried by a fact.
LEMMA FactIsCarried ==
    ASSUME TypeInv, ContentInv, CompleteInv, result # "failed",
           NEW q \in accepted, emitted[q] = <<NoKey, "fact">>
    PROVE  \E a \in Carriers : /\ EventOK(a) /\ q \in ToSet(a.parts)
                               /\ a.key = NoKey /\ a.kind = "fact"
  <1>1. Kept(q)
    BY DEF Kept, Keeping
  <1>2. PICK a \in Carriers : IsEvent(a) /\ q \in ToSet(a.parts)
    BY <1>1 DEF CompleteInv
  <1>3. EventOK(a)
    BY <1>2, FlushShape, KindsApart DEF ContentInv, LiveOK, Carriers, AllOf
  <1>4. emitted[q] = <<a.key, a.kind>>
    BY <1>2, <1>3 DEF EventOK
  <1> QED BY <1>2, <1>3, <1>4

\* The facts before the one that the worker holds are recorded or held with it.
LEMMA EarlierFacts ==
    ASSUME TypeInv, ContentInv, OrderInv, AcceptedInv, CompleteInv, result # "failed",
           EventOK(current), NEW p \in ToSet(current.parts), emitted[p] = <<NoKey, "fact">>
    PROVE  FactsBelow(p) \subseteq RecordedParts \cup ToSet(current.parts)
  <1>1. SUFFICES ASSUME NEW q \in 1..p, emitted[q] = <<NoKey, "fact">>
                 PROVE  q \in RecordedParts \cup ToSet(current.parts)
    BY DEF FactsBelow
  <1>2. p \in accepted /\ current.key = NoKey
    BY DEF EventOK
  <1>3. q \in accepted
    BY <1>2 DEF AcceptedInv
  <1>4. PICK a \in Carriers : /\ EventOK(a) /\ q \in ToSet(a.parts)
                              /\ a.key = NoKey /\ a.kind = "fact"
    BY <1>1, <1>3, FactIsCarried
  <1>5. CASE a \in ToSet(recorded)
    BY <1>4, <1>5 DEF RecordedParts
  <1>6. CASE a = current
    BY <1>4, <1>6
  <1>7. CASE a \in ToSet(queue.commands) \cup ToSet(queue.live)
    <2>1. InOrder(current, a)
      BY <1>7 DEF OrderInv, Ordered, Before
    <2>2. p < q
      BY <1>2, <1>4, <2>1 DEF InOrder, KeepOrder, EventOK
    <2>3. p \in Nat /\ q \in Nat /\ q <= p
      BY <1>2, TypeFacts
    <2> QED BY <2>2, <2>3
  <1> QED BY <1>4, <1>5, <1>6, <1>7 DEF Carriers, AllOf

\* What is recorded was accepted.
LEMMA RecordedIsAccepted ==
    ASSUME TypeInv, ContentInv
    PROVE  RecordedParts \subseteq accepted /\ accepted \subseteq 1..Len(emitted) /\ Len(emitted) \in Nat
  BY TypeFacts DEF RecordedParts, ContentInv, EventOK

\* Facts below a position stay what they are.
LEMMA FactsStay ==
    ASSUME Grows, NEW n \in 0..Len(emitted)
    PROVE  FactsBelow(n)' = FactsBelow(n)
  <1>1. 1..n \subseteq 1..Len(emitted)
    BY DEF Grows
  <1> QED BY <1>1 DEF Grows, FactsBelow

\* The ledger grows without a hole: facts reach it in the order of the run.
LEMMA NoHoleStep ==
    ASSUME TypeInv, ContentInv, OrderInv, AcceptedInv, CompleteInv, NoHole, Next PROVE NoHole'
  <1>1. HandsInv /\ Grows
    BY Hands, HistoryGrows
  <1>2. PICK P, Q, c : P = RecordedParts /\ Q = RecordedParts' /\ c = current
    OBVIOUS
  <1>3. P \subseteq accepted /\ accepted \subseteq 1..Len(emitted) /\ Len(emitted) \in Nat
    BY <1>2, RecordedIsAccepted
  <1>4. \/ Q = P
        \/ Q = P \cup ToSet(c.parts) /\ EventOK(c) /\ result = "none"
    BY <1>2, LedgerGrows DEF RecordedParts
  <1>5. SUFFICES ASSUME NEW p \in Q, emitted'[p] = <<NoKey, "fact">>
                 PROVE  FactsBelow(p)' \subseteq Q
    BY <1>2 DEF NoHole
  <1>6. p \in accepted
    BY <1>3, <1>4, <1>5 DEF EventOK
  <1>7. p \in 0..Len(emitted) /\ p \in 1..Len(emitted)
    BY <1>3, <1>6
  <1>8. FactsBelow(p)' = FactsBelow(p) /\ emitted[p] = <<NoKey, "fact">>
    BY <1>1, <1>5, <1>7, FactsStay DEF Grows
  <1>9. CASE p \in P
    BY <1>2, <1>4, <1>8, <1>9 DEF NoHole
  <1>10. CASE p \notin P
    <2>1. Q = P \cup ToSet(c.parts) /\ EventOK(c) /\ result = "none" /\ p \in ToSet(c.parts)
      BY <1>4, <1>5, <1>10
    <2>2. FactsBelow(p) \subseteq P \cup ToSet(c.parts)
      BY <1>2, <1>8, <2>1, EarlierFacts
    <2> QED BY <1>8, <2>1, <2>2
  <1> QED BY <1>9, <1>10

\* A side effect goes ahead only on an answer that covers all facts before it.
LEMMA BarrierStep ==
    ASSUME TypeInv, ContentInv, FlushInv, FlushIsBarrier, Next PROVE FlushIsBarrier'
  <1>1. HandsInv /\ Grows
    BY Hands, HistoryGrows
  <1>2. RecordedParts \subseteq RecordedParts'
    BY LedgerGrows DEF RecordedParts
  <1>3. barrier \in 0..Len(emitted) /\ Len(emitted) \in 0..Len(emitted)
    BY TypeFacts
  <1>4. CASE barrier' = barrier
    <2>1. PICK n \in 0..Len(emitted) : n = barrier
      BY <1>3
    <2>2. FactsBelow(n)' = FactsBelow(n)
      BY <1>1, FactsStay
    <2>3. FactsBelow(barrier)' = FactsBelow(n)'
      BY <1>4, <2>1 DEF FactsBelow
    <2> QED BY <1>2, <2>1, <2>2, <2>3 DEF FlushIsBarrier
  <1>5. CASE barrier' # barrier
    <2>1. Rests /\ loop = "flushing" /\ ~cancelled /\ ack = "ok" /\ barrier' = Len(emitted)
      BY <1>1, <1>5, Shapes DEF Refuses, RefusesAs, Accepts, TakesAs, Asks, Closes, Fetches, Record,
                                Acknowledge, Fails, Rests, runVars
    <2>2. ~sendError
      BY <2>1 DEF TypeInv, ControlInv
    <2>3. FactsBelow(Len(emitted)) \subseteq RecordedParts
      BY <2>1, <2>2 DEF FlushInv, Waiting
    <2>4. PICK n \in 0..Len(emitted) : n = Len(emitted)
      BY <1>3
    <2>5. FactsBelow(n)' = FactsBelow(n)
      BY <1>1, FactsStay
    <2>6. FactsBelow(barrier)' = FactsBelow(n)'
      BY <2>1, <2>4 DEF FactsBelow
    <2> QED BY <1>2, <2>3, <2>4, <2>5, <2>6 DEF FlushIsBarrier
  <1> QED BY <1>4, <1>5

\* A run that ends well has counted everything.
LEMMA OkStep ==
    ASSUME TypeInv, ContentInv, AcceptedInv, CountInv, OkMeansComplete, Next
    PROVE  OkMeansComplete'
  <1>1. HandsInv
    BY Hands
  <1>2. SUFFICES ASSUME outcome' = "ok" PROVE Covered(recorded') = Len(emitted')
    BY DEF OkMeansComplete
  <1>3. CASE outcome = "ok"
    <2>1. loop = "done" /\ worker = "ended"
      BY <1>3 DEF TypeInv, ControlInv
    <2>2. recorded' = recorded /\ emitted' = emitted
      BY <1>1, <2>1, Shapes DEF Refuses, RefusesAs, Accepts, TakesAs, Asks, Closes, Fetches, Record,
                                Acknowledge, Fails, Rests, Content, workerVars, sinkVars
    <2> QED BY <1>3, <2>2 DEF OkMeansComplete
  <1>4. CASE outcome # "ok"
    <2>1. Rests /\ result = "ok" /\ ~sendError
      BY <1>1, <1>2, <1>4, Shapes DEF Refuses, RefusesAs, Accepts, TakesAs, Asks, Closes, Fetches,
                                      Record, Acknowledge, Fails, Rests, runVars
    <2>2. recorded' = recorded /\ emitted' = emitted
      BY <2>1 DEF Rests, Content
    <2>3. queue.commands = <<>> /\ queue.live = <<>> /\ current = NoCommand
      BY <2>1 DEF TypeInv, ControlInv, ContentInv
    <2>4. PICK R \in Seq(Commands) : R = recorded
      BY TypeFacts
    <2>5. Covered(R) \in Nat /\ Covered(<<>>) = 0 /\ Observations(NoCommand) = 0
      BY CoveredLaws, FlushShape
    <2>6. Carried = Covered(R)
      BY <2>3, <2>4, <2>5 DEF Carried, Load
    <2>7. Carried = Len(emitted)
      BY <2>1, OneMorePosition DEF CountInv, AcceptedInv
    <2> QED BY <2>2, <2>4, <2>6, <2>7
  <1> QED BY <1>3, <1>4

\* An answer to the newest flush means that the facts are recorded.
LEMMA AnswerStep ==
    ASSUME TypeInv, ContentInv, AcceptedInv, CompleteInv, FlushInv, Next,
           Waiting', ack' = "ok", ~sendError'
    PROVE  FactsBelow(Len(emitted))' \subseteq RecordedParts'
  <1>1. HandsInv /\ Grows
    BY Hands, HistoryGrows
  <1>2. RecordedParts \subseteq RecordedParts'
    BY LedgerGrows DEF RecordedParts
  <1>3. Waiting /\ UNCHANGED <<emitted, sendError>>
    BY <1>1, Shapes DEF Waiting, Refuses, RefusesAs, Accepts, TakesAs, Asks, Closes, Fetches,
                        Record, Acknowledge, Fails, Rests, Content, runVars, sinkVars
  <1>4. FactsBelow(Len(emitted))' = FactsBelow(Len(emitted))
    BY <1>3 DEF FactsBelow
  <1>5. CASE ack = "ok"
    BY <1>2, <1>3, <1>4, <1>5 DEF FlushInv
  <1>6. CASE ack # "ok"
    <2>1. Acknowledge
      BY <1>1, <1>3, <1>6, Shapes DEF Waiting, Refuses, RefusesAs, Accepts, TakesAs, Asks, Closes,
                        Fetches, Record, Fails, Rests, Content, runVars
    <2>2. Asked(current) /\ worker = "recording"
      BY <1>6, <2>1 DEF Acknowledge, Asked
    <2>3. \A c \in ToSet(queue.commands) : c.kind # "fact"
      BY <1>3, <2>2 DEF FlushInv
    <2>4. result = "none"
      BY <2>2 DEF TypeInv, ControlInv
    <2>5. ASSUME NEW q \in FactsBelow(Len(emitted)) PROVE q \in RecordedParts
      <3>1. q \in accepted /\ emitted[q] = <<NoKey, "fact">>
        BY <1>3 DEF AcceptedInv, FactsBelow
      <3>2. PICK a \in Carriers : /\ EventOK(a) /\ q \in ToSet(a.parts)
                                  /\ a.key = NoKey /\ a.kind = "fact"
        BY <2>4, <3>1, FactIsCarried
      <3>3. a \notin ToSet(queue.commands) /\ a # current /\ a \notin ToSet(queue.live)
        BY <2>2, <2>3, <3>2 DEF Asked, ContentInv, LiveOK
      <3> QED BY <3>2, <3>3 DEF Carriers, AllOf, RecordedParts
    <2> QED BY <1>2, <1>4, <2>5
  <1> QED BY <1>5, <1>6

\* A flush is the newest command when it is queued.
LEMMA NewestFlush ==
    ASSUME TypeInv, ContentInv, Asks, Waiting'
    PROVE  /\ ~Asked(current)'
           /\ NoFactBehind(queue'.commands, flushNo')
  <1>1. PICK n \in Nat : n = flushNo
    BY TypeFacts
  <1>2. flushNo' = n + 1 /\ current' = current
    BY <1>1 DEF Asks, workerVars
  <1>3. \A c : EventOK(c) \/ FlushOK(c) \/ c = NoCommand => ~(c.kind = "flush" /\ c.parts = <<n + 1>>)
    <2>1. \A m \in 1..n : <<m>> # <<n + 1>>
      OBVIOUS
    <2> QED BY <1>1, <2>1, KindsApart, FlushShape DEF FlushOK
  <1>4. ~Asked(current)'
    BY <1>2, <1>3 DEF Asked, ContentInv
  <1>5. PICK x \in Commands : x = FlushCommand(n + 1) /\ x.kind = "flush"
    BY FlushShape
  <1>6. Flushed(queue, queue', x)
    BY <1>1, <1>5 DEF Asks, Waiting
  <1>7. PICK C \in Seq(Commands), L \in Seq(Commands) : C = queue.commands /\ L = queue.live
    BY TypeFacts
  <1>8. PICK j \in Seq(Commands) : j = C \o L
    BY Joined DEF IsJoin
  <1>9. ToSet(j) = ToSet(C) \cup ToSet(L)
    BY <1>8, ElementsJoined
  <1>10. \A i \in 1..Len(j) : j[i] \in ToSet(C) \cup ToSet(L)
    BY <1>9, Elements
  <1>11. \A i \in 1..Len(j) : ~(j[i].kind = "flush" /\ j[i].parts = <<n + 1>>)
    BY <1>3, <1>7, <1>10 DEF ContentInv, LiveOK
  <1>12. NoFactBehind(Append(j, x), n + 1)
    <2>1. PICK r : r = Append(j, x)
      OBVIOUS
    <2>2. Len(j) \in Nat /\ Len(r) = Len(j) + 1 /\ \A i \in 1..Len(j) : r[i] = j[i]
      BY <2>1
    <2>3. ASSUME NEW i \in 1..Len(r), NEW k \in 1..Len(r), i < k
          PROVE  ~(r[i].kind = "flush" /\ r[i].parts = <<n + 1>>)
      <3>1. i \in 1..Len(j)
        BY <2>2, <2>3
      <3> QED BY <1>11, <2>2, <3>1
    <2> QED BY <2>1, <2>3 DEF NoFactBehind
  <1> QED BY <1>2, <1>4, <1>6, <1>7, <1>8, <1>12 DEF Flushed

\* Every step keeps what the answer to a flush will mean.
LEMMA FlushStep ==
    ASSUME TypeInv, ContentInv, AcceptedInv, CompleteInv, FlushInv, Next PROVE FlushInv'
  <1>1. HandsInv
    BY Hands
  <1>2. SUFFICES ASSUME Waiting'
                 PROVE  /\ Asked(current)' => \A c \in ToSet(queue'.commands) : c.kind # "fact"
                        /\ NoFactBehind(queue'.commands, flushNo')
    BY AnswerStep DEF FlushInv
  <1>3. CASE Asks
    BY <1>2, <1>3, NewestFlush
  <1>4. CASE ~Asks
    <2>1. Waiting /\ flushNo' = flushNo
      BY <1>1, <1>2, <1>4, Shapes DEF Waiting, Refuses, RefusesAs, Accepts, TakesAs, Closes, Fetches,
                        Record, Acknowledge, Fails, Rests, Content, runVars
    <2>2. \A c : Asked(c)' <=> Asked(c)
      BY <2>1 DEF Asked
    <2>3. CASE Fetches
      <3>1. PICK C \in Seq(Commands) : C = queue.commands
        BY TypeFacts
      <3>2. CASE C # <<>>
        <4>1. current' = Head(C) /\ queue'.commands = Tail(C)
          BY <2>3, <3>1, <3>2 DEF Fetches
        <4>2. /\ Head(C) = C[1] /\ Len(Tail(C)) = Len(C) - 1 /\ Len(C) >= 1
              /\ \A j \in 1..(Len(C) - 1) : Tail(C)[j] = C[j + 1]
              /\ Tail(C) \in Seq(Commands)
          BY <3>2, HeadAndTail
        <4>3. NoFactBehind(C, flushNo)
          BY <2>1, <3>1 DEF FlushInv
        <4>4. PICK D \in Seq(Commands) : D = Tail(C)
          BY <4>2
        <4>5. PICK k \in Nat : k = Len(C)
          OBVIOUS
        <4>6. NoFactBehind(D, flushNo)
          <5>1. ASSUME NEW i \in 1..Len(D), NEW j \in 1..Len(D), i < j,
                       D[i].kind = "flush", D[i].parts = <<flushNo>>
                PROVE  D[j].kind # "fact"
            <6>1. /\ i + 1 \in 1..Len(C) /\ j + 1 \in 1..Len(C) /\ i + 1 < j + 1
                  /\ D[i] = C[i + 1] /\ D[j] = C[j + 1]
              BY <4>2, <4>4, <4>5, <5>1
            <6> QED BY <4>3, <5>1, <6>1 DEF NoFactBehind
          <5> QED BY <5>1 DEF NoFactBehind
        <4>7. ASSUME Asked(Head(C)), NEW c \in ToSet(D) PROVE c.kind # "fact"
          <5>1. PICK j \in 1..Len(D) : c = D[j]
            BY Elements
          <5>2. /\ 1 \in 1..Len(C) /\ j + 1 \in 1..Len(C) /\ 1 < j + 1
                /\ D[j] = C[j + 1] /\ Head(C) = C[1]
            BY <4>2, <4>4, <4>5
          <5> QED BY <4>3, <4>7, <5>1, <5>2 DEF NoFactBehind, Asked
        <4> QED BY <2>1, <2>2, <4>1, <4>4, <4>6, <4>7 DEF Asked
      <3>3. CASE C = <<>>
        <4>1. queue'.commands = <<>>
          BY <2>3, <3>1, <3>3 DEF Fetches
        <4> QED BY <4>1, ElementsFew DEF NoFactBehind
      <3> QED BY <3>2, <3>3
    <2>4. CASE Record \/ Acknowledge
      <3>1. current' = NoCommand /\ queue' = queue
        BY <2>4 DEF Record, Acknowledge
      <3>2. ~Asked(NoCommand)
        BY FlushShape DEF Asked
      <3> QED BY <2>1, <2>2, <3>1, <3>2 DEF FlushInv, Asked
    <2>5. CASE Fails
      <3>1. queue'.commands = <<>>
        BY <2>5 DEF Fails
      <3> QED BY <3>1, ElementsFew DEF NoFactBehind
    <2>6. CASE Rests
      BY <2>1, <2>6 DEF Rests, Content, FlushInv, Asked
    <2> QED BY <1>1, <1>2, <1>4, <2>3, <2>4, <2>5, <2>6, Shapes
            DEF Waiting, Refuses, RefusesAs, Accepts, TakesAs, Closes
  <1> QED BY <1>3, <1>4

-----------------------------------------------------------------------------
(* The theorems *)

\* The inductive invariant
IInv ==
    /\ TypeInv /\ ContentInv /\ OrderInv /\ AcceptedInv /\ CompleteInv /\ CountInv
    /\ FlushInv /\ FlushIsBarrier /\ NoSilentLoss

\* The pipeline is the ledger, the worker's command and the two lanes.
LEMMA PipelineFacts ==
    ASSUME TypeInv, ContentInv, OrderInv
    PROVE  /\ Pipeline \in Seq(Commands) /\ Sorted(Pipeline)
           /\ ToSet(Pipeline) = Carriers /\ Covered(Pipeline) = Carried
  <1>1. PICK R \in Seq(Commands), c \in Commands, C \in Seq(Commands), L \in Seq(Commands) :
            R = recorded /\ c = current /\ C = queue.commands /\ L = queue.live
    BY TypeFacts
  <1>2. Ordered(R, c, C, L) /\ Sorted(L)
    BY <1>1, LiveInOrder DEF OrderInv
  <1>3. PICK o \in Seq(Commands) : o = <<c>> /\ ToSet(o) = {c} /\ Sorted(o) /\ Covered(o) = Observations(c)
    <2>1. PICK o \in Seq(Commands) : o = <<c>> /\ Len(o) = 1
      BY Single
    <2>2. ToSet(o) = {c}
      BY <2>1, ElementsFew
    <2>3. Sorted(o)
      BY <2>1 DEF Sorted
    <2>4. <<>> \in Seq(Commands) /\ Append(<<>>, c) = o
      BY <2>1
    <2>5. Covered(o) = Observations(c)
      <3>1. PICK z \in Seq(Commands) : z = <<>>
        BY <2>4
      <3>2. Covered(Append(z, c)) = Covered(z) + Observations(c) /\ Covered(z) = 0
        BY <3>1, CoveredLaws
      <3>3. Observations(c) \in Nat
        BY Fields
      <3> QED BY <2>4, <3>1, <3>2, <3>3
    <2> QED BY <2>1, <2>2, <2>3, <2>5
  <1>4. PICK s \in Seq(Commands) : /\ s = R \o o /\ ToSet(s) = ToSet(R) \cup {c} /\ Sorted(s)
                                   /\ Covered(s) = Covered(R) + Observations(c)
    <2>1. PICK s \in Seq(Commands) : s = R \o o
      BY Joined DEF IsJoin
    <2>2. ToSet(s) = ToSet(R) \cup ToSet(o)
      BY <2>1, ElementsJoined
    <2>3. Covered(s) = Covered(R) + Covered(o)
      BY <2>1, CoveredLaws
    <2>4. Sorted(s)
      BY <1>2, <1>3, <2>1, SortedJoined DEF Ordered
    <2> QED BY <1>3, <2>1, <2>2, <2>3, <2>4
  <1>5. PICK t \in Seq(Commands) : /\ t = s \o C /\ ToSet(t) = ToSet(s) \cup ToSet(C) /\ Sorted(t)
                                   /\ Covered(t) = Covered(s) + Covered(C)
    <2>1. PICK t \in Seq(Commands) : t = s \o C
      BY Joined DEF IsJoin
    <2>2. ToSet(t) = ToSet(s) \cup ToSet(C)
      BY <2>1, ElementsJoined
    <2>3. Covered(t) = Covered(s) + Covered(C)
      BY <2>1, CoveredLaws
    <2>4. Before(ToSet(s), ToSet(C))
      BY <1>2, <1>4 DEF Ordered, Before
    <2>5. Sorted(t)
      BY <1>2, <1>4, <2>1, <2>4, SortedJoined DEF Ordered
    <2> QED BY <2>1, <2>2, <2>3, <2>5
  <1>6. PICK u \in Seq(Commands) : /\ u = t \o L /\ ToSet(u) = ToSet(t) \cup ToSet(L) /\ Sorted(u)
                                   /\ Covered(u) = Covered(t) + Covered(L)
    <2>1. PICK u \in Seq(Commands) : u = t \o L
      BY Joined DEF IsJoin
    <2>2. ToSet(u) = ToSet(t) \cup ToSet(L)
      BY <2>1, ElementsJoined
    <2>3. Covered(u) = Covered(t) + Covered(L)
      BY <2>1, CoveredLaws
    <2>4. Before(ToSet(t), ToSet(L))
      BY <1>2, <1>4, <1>5 DEF Ordered, Before
    <2>5. Sorted(u)
      BY <1>2, <1>5, <2>1, <2>4, SortedJoined
    <2> QED BY <2>1, <2>2, <2>3, <2>5
  <1>7. Pipeline = u
    BY <1>1, <1>3, <1>4, <1>5, <1>6 DEF Pipeline
  <1>8. ToSet(u) = Carriers
    BY <1>1, <1>4, <1>5, <1>6 DEF Carriers, AllOf
  <1>9. Covered(u) = Carried
    BY <1>1, <1>4, <1>5, <1>6 DEF Carried, Load
  <1> QED BY <1>6, <1>7, <1>8, <1>9

\* The first property of the ledger from the inductive invariant.
LEMMA InvGivesOrder ==
    ASSUME IInv PROVE RecordedInOrder
  <1>1. TypeInv /\ ContentInv /\ OrderInv
    BY DEF IInv
  <1>2. PICK P \in Seq(Commands) : P = Pipeline /\ Sorted(P) /\ ToSet(P) = Carriers
    BY <1>1, PipelineFacts
  <1>3. \A c \in Carriers : IsEvent(c) => Increasing(c.parts)
    BY <1>1, FlushShape, KindsApart DEF ContentInv, LiveOK, EventOK, Carriers, AllOf
  <1>4. \A i \in 1..Len(P) : P[i] \in Carriers
    BY <1>2, Elements
  <1>5. \A i \in 1..Len(P) : /\ IsEvent(P[i]) => Increasing(P[i].parts)
                             /\ \A j \in 1..Len(P) : i < j => InOrder(P[i], P[j])
    BY <1>2, <1>3, <1>4 DEF Sorted
  <1> QED BY <1>2, <1>5 DEF RecordedInOrder

\* And the second.
LEMMA InvGivesCompleteness ==
    ASSUME IInv PROVE NothingDisappears
  <1>1. TypeInv /\ ContentInv /\ OrderInv /\ CompleteInv /\ CountInv
    BY DEF IInv
  <1>2. ToSet(Pipeline) = Carriers /\ Covered(Pipeline) = Carried
    BY <1>1, PipelineFacts
  <1>3. SUFFICES ASSUME result # "failed" PROVE
            /\ Covered(Pipeline) = Cardinality(accepted)
            /\ \A key \in Keys \cup {NoKey}, kind \in MergingKinds \cup {"fact"} :
                   CarriedOf(key, kind) = AcceptedOf(key, kind)
    BY DEF NothingDisappears
  <1>4. Covered(Pipeline) = Cardinality(accepted)
    BY <1>1, <1>2, <1>3 DEF CountInv
  <1>5. \A c \in Carriers : IsEvent(c) => EventOK(c)
    BY <1>1, FlushShape, KindsApart DEF ContentInv, LiveOK, Carriers, AllOf
  <1>6. ASSUME NEW key \in Keys \cup {NoKey}, NEW kind \in MergingKinds \cup {"fact"}
        PROVE  CarriedOf(key, kind) = AcceptedOf(key, kind)
    <2>1. kind \in Kinds /\ kind \in Keeping
      BY DEF Kinds, StreamKinds, Keeping
    <2>2. ASSUME NEW p \in CarriedOf(key, kind) PROVE p \in AcceptedOf(key, kind)
      <3>1. PICK c \in Carriers : c.key = key /\ c.kind = kind /\ p \in ToSet(c.parts)
        BY <1>2 DEF CarriedOf
      <3>2. EventOK(c)
        BY <1>5, <2>1, <3>1 DEF IsEvent
      <3> QED BY <3>1, <3>2 DEF EventOK, AcceptedOf
    <2>3. ASSUME NEW p \in AcceptedOf(key, kind) PROVE p \in CarriedOf(key, kind)
      <3>1. p \in accepted /\ emitted[p] = <<key, kind>>
        BY DEF AcceptedOf
      <3>2. Kept(p)
        BY <2>1, <3>1 DEF Kept
      <3>3. PICK c \in Carriers : IsEvent(c) /\ p \in ToSet(c.parts)
        BY <1>1, <1>3, <3>1, <3>2 DEF CompleteInv
      <3>4. emitted[p] = <<c.key, c.kind>>
        BY <1>5, <3>3 DEF EventOK
      <3>5. c.key = key /\ c.kind = kind
        BY <3>1, <3>4
      <3> QED BY <1>2, <3>3, <3>5 DEF CarriedOf
    <2> QED BY <2>2, <2>3
  <1> QED BY <1>4, <1>6

\* The recorder starts with nothing.
LEMMA InitIInv == Init => IInv
  <1> SUFFICES ASSUME Init PROVE IInv
    OBVIOUS
  <1>1. /\ queue.commands = <<>> /\ queue.live = <<>> /\ queue.commandBytes = 0 /\ queue.liveBytes = 0
        /\ queue.closed = FALSE
        /\ queue \in [commands: Seq(Commands), live: Seq(Commands), commandBytes: Nat,
                      liveBytes: Nat, closed: BOOLEAN]
    BY DEF Init, NewQueue
  <1>2. /\ Bytes(<<>>) = 0 /\ Covered(<<>>) = 0 /\ ToSet(<<>>) = {}
    <2>2. <<>> \in Seq(Commands)
      OBVIOUS
    <2>1. PICK z \in Seq(Commands) : z = <<>>
      BY <2>2
    <2> QED BY <2>1, BytesLaws, CoveredLaws, ElementsFew
  <1>3. NoCommand \in Commands /\ NoCommand.kind = "none" /\ Observations(NoCommand) = 0
    BY FlushShape
  <1>4. TypeOK
    <2>1. WithinLimits
      BY <1>1, <1>2, Limits DEF WithinLimits, Init
    <2>2. /\ flushNo \in 0..MaxFlushes /\ barrier \in 0..Len(emitted)
          /\ emitted \in Seq((Keys \cup {NoKey}) \X Kinds) /\ accepted \subseteq 1..Len(emitted)
          /\ recorded \in Seq(Commands)
      BY Limits DEF Init
    <2> QED BY <1>1, <1>3, <2>1, <2>2 DEF TypeOK, Init
  <1>5. TypeInv
    BY <1>1, <1>4 DEF TypeInv, ControlInv, Init
  <1>6. ContentInv
    BY <1>1, <1>2 DEF ContentInv, DistinctKeys, Init
  <1>7. OrderInv
    <2>1. Sorted(<<>>)
      BY DEF Sorted
    <2> QED BY <1>1, <1>2, <2>1 DEF OrderInv, Ordered, Before, Init
  <1>8. AcceptedInv
    BY DEF AcceptedInv, Init
  <1>9. CompleteInv
    BY DEF CompleteInv, Init
  <1>10. CountInv
    <2>1. Carried = 0
      BY <1>1, <1>2, <1>3 DEF Carried, Load, Init
    <2>2. Cardinality(accepted) = 0
      BY FS_EmptySet DEF Init
    <2> QED BY <2>1, <2>2 DEF CountInv
  <1>11. FlushInv /\ FlushIsBarrier /\ NoHole /\ OkMeansComplete
    BY <1>2 DEF FlushInv, Waiting, FlushIsBarrier, FactsBelow, NoHole, RecordedParts,
                OkMeansComplete, Init
  <1> QED BY <1>5, <1>6, <1>7, <1>8, <1>9, <1>10, <1>11 DEF IInv, NoSilentLoss

\* Every step keeps the inductive invariant.
LEMMA StepIInv == IInv /\ [Next]_vars => IInv'
  <1>1. ASSUME IInv, Next PROVE IInv'
    <2>1. /\ TypeInv /\ ContentInv /\ OrderInv /\ AcceptedInv /\ CompleteInv /\ CountInv
          /\ FlushInv /\ FlushIsBarrier /\ NoHole /\ OkMeansComplete /\ Next
      BY <1>1 DEF IInv, NoSilentLoss
    <2>2. HandsInv
      BY <2>1, Hands
    <2>3. TypeInv' /\ ContentInv' /\ OrderInv'
      BY <2>1, <2>2, TypeStep, ContentStep, OrderStep
    <2>4. AcceptedInv' /\ CompleteInv' /\ CountInv'
      BY <2>1, <2>2, AcceptedStep, CompleteStep, CountStep
    <2>5. FlushInv' /\ FlushIsBarrier' /\ NoHole' /\ OkMeansComplete'
      BY <2>1, FlushStep, BarrierStep, NoHoleStep, OkStep
    <2> QED BY <2>3, <2>4, <2>5 DEF IInv, NoSilentLoss
  <1>2. ASSUME IInv, UNCHANGED vars PROVE IInv'
    <2>1. UNCHANGED <<queue, permit, waiter, worker, current, result, sendError, emitted, accepted,
                      loop, flushNo, ack, cancelled, outcome, barrier, recorded>>
      BY <1>2 DEF vars, notifyVars, workerVars, sinkVars, runVars
    <2>2. TypeInv'
      BY <1>2, <2>1 DEF IInv, TypeInv, TypeOK, WithinLimits, ControlInv
    <2>3. ContentInv'
      BY <1>2, <2>1 DEF IInv, ContentInv, EventOK, FlushOK, LiveOK
    <2>4. OrderInv' /\ AcceptedInv'
      BY <1>2, <2>1 DEF IInv, OrderInv, AcceptedInv
    <2>5. CompleteInv' /\ CountInv'
      BY <1>2, <2>1 DEF IInv, CompleteInv, CountInv, Carriers, Carried, Kept
    <2>6. FlushInv' /\ FlushIsBarrier' /\ NoSilentLoss'
      BY <1>2, <2>1 DEF IInv, FlushInv, Waiting, Asked, FlushIsBarrier, FactsBelow, RecordedParts,
                        NoSilentLoss, NoHole, OkMeansComplete
    <2> QED BY <2>2, <2>3, <2>4, <2>5, <2>6 DEF IInv
  <1> QED BY <1>1, <1>2

\* IInv holds in every reachable state.
THEOREM Invariance == Spec => []IInv
  BY InitIInv, StepIInv, PTL DEF Spec

\* The queue keeps its types and never exceeds its limits in commands, live entries
\* and bytes, whatever is coalesced, evicted or flushed; its byte counters are exact.
THEOREM TypeCorrect == Spec => []TypeOK
  <1>1. IInv => TypeOK
    BY DEF IInv, TypeInv
  <1> QED BY <1>1, Invariance, PTL

\* Whatever is merged, replaced, held back or pushed out, the ledger tells what the
\* run emitted, in an order its readers cannot tell from the run's, and counts what
\* it leaves out.
THEOREM LedgerIsFaithful == Spec => []LedgerTellsTheRun
  <1>1. IInv => LedgerTellsTheRun
    BY InvGivesOrder, InvGivesCompleteness DEF LedgerTellsTheRun
  <1> QED BY <1>1, Invariance, PTL

\* A side effect goes ahead only when every fact emitted before it is in the ledger.
THEOREM FlushIsDurable == Spec => []FlushIsBarrier
  <1>1. IInv => FlushIsBarrier
    BY DEF IInv
  <1> QED BY <1>1, Invariance, PTL

\* Overloaded, failed or dropped, the recorder loses nothing silently: the recorded
\* facts are the first ones emitted, and a run that lost anything does not end well.
THEOREM LossIsNeverSilent == Spec => []NoSilentLoss
  <1>1. IInv => NoSilentLoss
    BY DEF IInv
  <1> QED BY <1>1, Invariance, PTL
=============================================================================
