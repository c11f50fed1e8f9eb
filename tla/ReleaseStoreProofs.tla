------------------------- MODULE ReleaseStoreProofs -------------------------
(***************************************************************************)
(* Proofs about the release store: its journal implements deployments that    *)
(* happen at once, what the deployments guarantee therefore holds of the       *)
(* files, and only a lost newline can make an operation return an integrity    *)
(* error.                                                                     *)
(***************************************************************************)
EXTENDS ReleaseStore, WellFoundedInduction, TLAPS

-----------------------------------------------------------------------------
(* What the deployments guarantee *)

\* The preview and the canary pointer name a release that is a candidate.
PointedWasPreviewed ==
    \A n \in {"preview", "canary"} :
        Pointers[n] # NoRelease => Abstract!Candidate(Pointers[n], Len(History) + 1)

\* There is a previous stable release only beside a stable one.
PreviousNeedsStable ==
    Pointers["stable"] = NoRelease => Pointers["previous-stable"] = NoRelease

\* The inductive invariant: a promotion is allowed for a release that a pointer
\* names, so it takes the pointers' history, not only the log's, to show that
\* the release was previewed.
AbstractInv ==
    /\ Abstract!TypeOK
    /\ Abstract!OneCandidate
    /\ Abstract!PromotedWasPreviewed
    /\ PointedWasPreviewed
    /\ Abstract!StableWasPromoted
    /\ PreviousNeedsStable

\* Every pointer name and every operation, as SMT facts.
LEMMA NamesDistinct ==
    /\ "previous-stable" \in Abstract!PointerNames /\ "stable" \in Abstract!PointerNames
    /\ "preview" \in Abstract!PointerNames /\ "canary" \in Abstract!PointerNames
  BY DEF Abstract!PointerNames

\* A step appends one record of the right type; the records before it stay.
LEMMA DeployTypes ==
    ASSUME Abstract!TypeOK, NEW op \in Abstract!Operations, NEW r \in Releases,
           Abstract!Deploy(op, r)
    PROVE  /\ Abstract!Deployment(op, r, Pointers) \in Abstract!Record
           /\ Abstract!TypeOK'
           /\ Len(History') = Len(History) + 1
           /\ \A i \in 1..Len(History) : History'[i] = History[i]
           /\ History'[Len(History) + 1] = Abstract!Deployment(op, r, Pointers)
  <1>1. Pointers["stable"] \in Releases \cup {NoRelease}
    BY NamesDistinct DEF Abstract!TypeOK
  <1>2. Abstract!Deployment(op, r, Pointers) \in Abstract!Record
    BY <1>1, NoReleaseAssumption DEF Abstract!Deploy, Abstract!Allowed, Abstract!Deployment,
                                     Abstract!Record, Abstract!Operations
  <1>3. Pointers' \in [Abstract!PointerNames -> Releases \cup {NoRelease}]
    BY NamesDistinct DEF Abstract!Deploy, Abstract!NextPointers, Abstract!NoCandidate,
                         Abstract!TypeOK, Abstract!Operations
  <1>4. History' \in Seq(Abstract!Record)
    BY <1>2 DEF Abstract!Deploy, Abstract!TypeOK
  <1>5. QED
    BY <1>2, <1>3, <1>4 DEF Abstract!Deploy, Abstract!TypeOK

\* A candidate at some place of the log stays one when a record is appended.
LEMMA CandidateStays ==
    ASSUME Abstract!TypeOK, NEW op \in Abstract!Operations, NEW r \in Releases,
           Abstract!Deploy(op, r),
           NEW q, NEW i \in 1..(Len(History) + 1), Abstract!Candidate(q, i)
    PROVE  Abstract!Candidate(q, i)'
  <1>1. PICK j \in 1..(i - 1) :
           /\ History[j].phase = "preview" /\ History[j].release = q
           /\ \A k \in j..(i - 1) : ~Abstract!Decides(k)
    BY DEF Abstract!Candidate
  <1>2. Len(History) \in Nat
    BY DEF Abstract!TypeOK
  <1>3. \A k \in 1..(i - 1) : History'[k] = History[k]
    BY <1>2, DeployTypes
  <1>4. QED
    BY <1>1, <1>2, <1>3, SMTT(40) DEF Abstract!Candidate, Abstract!Decides

\* A candidate that is not decided upon is one after the next record too.
LEMMA CandidateGrows ==
    ASSUME Abstract!TypeOK, NEW op \in Abstract!Operations, NEW r \in Releases,
           Abstract!Deploy(op, r),
           NEW q, Abstract!Candidate(q, Len(History) + 1),
           Abstract!Deployment(op, r, Pointers).phase \notin {"promoted", "rolled_back"}
    PROVE  Abstract!Candidate(q, Len(History) + 1)'
  <1>1. Len(History) \in Nat
    BY DEF Abstract!TypeOK
  <1>2. PICK j \in 1..Len(History) :
           /\ History[j].phase = "preview" /\ History[j].release = q
           /\ \A k \in j..Len(History) : ~Abstract!Decides(k)
    BY <1>1 DEF Abstract!Candidate
  <1>3. /\ \A k \in 1..Len(History) : History'[k] = History[k]
        /\ History'[Len(History) + 1] = Abstract!Deployment(op, r, Pointers)
        /\ Len(History') = Len(History) + 1
    BY DeployTypes
  <1>4. \A k \in j..(Len(History) + 1) : ~Abstract!Decides(k)'
    BY <1>1, <1>2, <1>3 DEF Abstract!Decides
  <1>5. QED
    BY <1>1, <1>2, <1>3, <1>4 DEF Abstract!Candidate

\* The initial pointers are empty, and so is the log.
LEMMA AbstractInitInv == Abstract!Init => AbstractInv
  BY NamesDistinct DEF Abstract!Init, AbstractInv, Abstract!TypeOK, Abstract!OneCandidate,
                       Abstract!PromotedWasPreviewed,
     PointedWasPreviewed, Abstract!StableWasPromoted, PreviousNeedsStable, Abstract!NoPointers

\* What is decided is decided on a candidate.
LEMMA DeployKeepsInv ==
    ASSUME AbstractInv, NEW op \in Abstract!Operations, NEW r \in Releases, Abstract!Deploy(op, r)
    PROVE  AbstractInv'
  <1> DEFINE d == Abstract!Deployment(op, r, Pointers)
  <1> USE NamesDistinct DEF AbstractInv
  <1>1. /\ Abstract!TypeOK' /\ Len(History) \in Nat
        /\ Len(History') = Len(History) + 1
        /\ \A i \in 1..Len(History) : History'[i] = History[i]
        /\ History'[Len(History) + 1] = d
    BY DeployTypes DEF Abstract!TypeOK
  <1> HIDE DEF d
  <1>2. /\ Pointers \in [Abstract!PointerNames -> Releases \cup {NoRelease}]
        /\ Pointers' = Abstract!NextPointers(op, r, Pointers)
        /\ Abstract!Allowed(op, r, Pointers)
    BY DEF Abstract!TypeOK, Abstract!Deploy
  <1>3. Abstract!OneCandidate'
    BY <1>2, NoReleaseAssumption
       DEF Abstract!OneCandidate, Abstract!NextPointers, Abstract!NoCandidate,
           Abstract!Allowed, Abstract!Operations
  <1>4. Abstract!PromotedWasPreviewed'
    <2>1. SUFFICES ASSUME NEW i \in 1..(Len(History) + 1), History'[i].phase = "promoted"
                   PROVE  Abstract!Candidate(History[i].release, i)'
      BY <1>1 DEF Abstract!PromotedWasPreviewed
    <2>2. CASE i \in 1..Len(History)
      <3>1. Abstract!Candidate(History[i].release, i)
        BY <1>1, <2>1, <2>2 DEF Abstract!PromotedWasPreviewed
      <3>2. QED
        BY <1>1, <2>2, <3>1, CandidateStays
    <2>3. CASE i = Len(History) + 1
      <3>1. op = "promote" /\ d.release = r
        BY <1>1, <2>1, <2>3 DEF d, Abstract!Deployment, Abstract!Operations
      <3>2. Abstract!Candidate(r, Len(History) + 1)
        BY <1>2, <3>1, NoReleaseAssumption DEF Abstract!Allowed, PointedWasPreviewed
      <3>3. QED
        BY <1>1, <2>3, <3>1, <3>2, CandidateStays
    <2>4. QED
      BY <1>1, <2>2, <2>3
  <1>5. PointedWasPreviewed'
    <2>1. SUFFICES ASSUME NEW n \in {"preview", "canary"}, Pointers'[n] # NoRelease
                   PROVE  Abstract!Candidate(Pointers[n], Len(History) + 1)'
      BY DEF PointedWasPreviewed
    <2>2. CASE op = "set_preview" /\ n = "preview"
      <3>1. Pointers'[n] = r /\ d.phase = "preview" /\ d.release = r
        BY <1>2, <2>2 DEF Abstract!NextPointers, d, Abstract!Deployment
      <3>2. QED
        BY <1>1, <3>1 DEF Abstract!Candidate, Abstract!Decides
    <2>3. CASE op = "start_canary" /\ n = "canary"
      <3>1. Pointers'[n] = r /\ Pointers["preview"] = r /\ d.phase = "canary"
        BY <1>2, <2>3 DEF Abstract!NextPointers, Abstract!Allowed, d, Abstract!Deployment
      <3>2. Abstract!Candidate(r, Len(History) + 1)
        BY <3>1, NoReleaseAssumption DEF PointedWasPreviewed
      <3>3. QED
        BY <3>1, <3>2, CandidateGrows DEF d
    <2>4. CASE \/ op = "set_preview" /\ n = "canary"
               \/ op = "start_canary" /\ n = "preview"
      <3>1. Pointers'[n] = Pointers[n] /\ d.phase \in {"preview", "canary"}
        BY <1>2, <2>4 DEF Abstract!NextPointers, d, Abstract!Deployment
      <3>2. Abstract!Candidate(Pointers[n], Len(History) + 1)
        BY <2>1, <3>1 DEF PointedWasPreviewed
      <3>3. QED
        BY <3>1, <3>2, CandidateGrows DEF d
    <2>5. CASE op \in {"promote", "cancel_canary", "rollback"}
      <3>1. Pointers'[n] = NoRelease
        BY <1>2, <2>5 DEF Abstract!NextPointers, Abstract!NoCandidate
      <3>2. QED
        BY <2>1, <3>1
    <2>6. QED
      BY <2>2, <2>3, <2>4, <2>5 DEF Abstract!Operations
  <1>6. Abstract!StableWasPromoted'
    <2>1. SUFFICES ASSUME NEW n \in {"stable", "previous-stable"}, Pointers'[n] # NoRelease
                   PROVE  \E i \in 1..(Len(History) + 1) :
                              History'[i].phase = "promoted" /\ History'[i].release = Pointers'[n]
      BY <1>1 DEF Abstract!StableWasPromoted
    <2>2. CASE op = "promote" /\ n = "stable"
      <3>1. Pointers'[n] = r /\ d.phase = "promoted" /\ d.release = r
        BY <1>2, <2>2 DEF Abstract!NextPointers, Abstract!NoCandidate, d, Abstract!Deployment
      <3>2. QED
        BY <1>1, <3>1
    <2>3. CASE ~(op = "promote" /\ n = "stable")
      <3>1. Pointers'[n] \in {Pointers["stable"], Pointers["previous-stable"]}
        BY <1>2, <2>1, <2>3
           DEF Abstract!NextPointers, Abstract!NoCandidate, Abstract!Allowed,
               Abstract!Restored, Abstract!Operations
      <3>2. \E i \in 1..Len(History) :
               History[i].phase = "promoted" /\ History[i].release = Pointers'[n]
        BY <2>1, <3>1 DEF Abstract!StableWasPromoted
      <3>3. QED
        BY <1>1, <3>2
    <2>4. QED
      BY <2>2, <2>3
  <1>7. PreviousNeedsStable'
    BY <1>2, NoReleaseAssumption
       DEF PreviousNeedsStable, Abstract!NextPointers, Abstract!NoCandidate, Abstract!Allowed,
           Abstract!Operations
  <1>8. QED
    BY <1>1, <1>3, <1>4, <1>5, <1>6, <1>7

\* The inductive invariant holds in every behaviour.
LEMMA AbstractInvariance == Abstract!Spec => []AbstractInv
  <1>1. AbstractInv /\ [Abstract!Next]_Abstract!vars => AbstractInv'
    <2>1. ASSUME AbstractInv, UNCHANGED Abstract!vars PROVE AbstractInv'
      BY <2>1 DEF AbstractInv, Abstract!vars, Abstract!TypeOK, Abstract!OneCandidate,
                  Abstract!PromotedWasPreviewed, PointedWasPreviewed,
                  Abstract!StableWasPromoted, PreviousNeedsStable, Abstract!Candidate,
                  Abstract!Decides
    <2>2. ASSUME AbstractInv, Abstract!Next PROVE AbstractInv'
      BY <2>2, DeployKeepsInv DEF Abstract!Next
    <2>3. QED
      BY <2>1, <2>2
  <1>2. QED
    BY AbstractInitInv, <1>1, PTL DEF Abstract!Spec

-----------------------------------------------------------------------------
(* Functions defined by recursion over the positions of a sequence *)

\* A nonempty set of numbers has a least one: what induction over the positions
\* of a sequence rests on.
LEMMA Least ==
    ASSUME NEW T \in SUBSET Nat, T # {}
    PROVE  \E n \in T : \A m \in T : n <= m
  <1>1. PICK n \in T : \A m \in T : ~(<<m, n>> \in OpToRel(<, Nat))
    BY NatLessThanWellFounded, WFMin
  <1>2. \A m \in T : ~(m < n)
    BY <1>1 DEF OpToRel
  <1>3. n \in Nat /\ \A m \in T : m \in Nat
    OBVIOUS
  <1>. QED
    BY <1>2, <1>3

\* Two functions that begin alike and go on alike are equal.
LEMMA AgreeFromTheStart ==
    ASSUME NEW n \in Nat, NEW f, NEW g, f[0] = g[0],
           \A m \in 1..n : f[m - 1] = g[m - 1] => f[m] = g[m]
    PROVE  \A m \in 0..n : f[m] = g[m]
  <1>. DEFINE T == {m \in 0..n : f[m] # g[m]}
  <1>1. SUFFICES ASSUME T # {} PROVE FALSE
    OBVIOUS
  <1>2. T \in SUBSET Nat
    OBVIOUS
  <1>3. PICK m \in T : \A k \in T : m <= k
    BY <1>1, <1>2, Least
  <1>4. m \in 1..n /\ m - 1 \in 0..n /\ m - 1 < m
    BY <1>3
  <1>5. m - 1 \notin T
    BY <1>3, <1>4
  <1>. QED
    BY <1>3, <1>4, <1>5

\* Values that begin in a set and stay in it are in it.
LEMMA InFromTheStart ==
    ASSUME NEW n \in Nat, NEW f, NEW S, f[0] \in S,
           \A m \in 1..n : f[m - 1] \in S => f[m] \in S
    PROVE  \A m \in 0..n : f[m] \in S
  <1>. DEFINE T == {m \in 0..n : f[m] \notin S}
  <1>1. SUFFICES ASSUME T # {} PROVE FALSE
    OBVIOUS
  <1>2. T \in SUBSET Nat
    OBVIOUS
  <1>3. PICK m \in T : \A k \in T : m <= k
    BY <1>1, <1>2, Least
  <1>4. m \in 1..n /\ m - 1 \in 0..n /\ m - 1 < m
    BY <1>3
  <1>5. m - 1 \notin T
    BY <1>3, <1>4
  <1>. QED
    BY <1>3, <1>4, <1>5

\* f holds the pointers after each of the first n records.
Replays(s, f, n) ==
    f = [m \in 0..n |-> IF m = 0 THEN NoPointers ELSE Replay(s[m], f[m - 1])]

\* Every log can be replayed.
LEMMA ReplaysExist ==
    ASSUME NEW s, NEW n \in Nat
    PROVE  \E f : Replays(s, f, n)
  <1>. DEFINE T == {k \in Nat : ~\E f : Replays(s, f, k)}
  <1>1. SUFFICES ASSUME T # {} PROVE FALSE
    OBVIOUS
  <1>2. PICK k \in T : \A j \in T : k <= j
    BY <1>1, Least
  <1>3. CASE k = 0
    <2>. DEFINE g == [m \in 0..0 |-> NoPointers]
    <2>1. g = [m \in 0..0 |-> IF m = 0 THEN NoPointers ELSE Replay(s[m], g[m - 1])]
      OBVIOUS
    <2>. HIDE DEF g
    <2>. QED
      BY <1>2, <1>3, <2>1 DEF Replays
  <1>4. CASE k # 0
    <2>1. k - 1 \in Nat /\ k - 1 \notin T
      BY <1>2, <1>4
    <2>2. PICK f : Replays(s, f, k - 1)
      BY <2>1
    <2>. DEFINE g == [m \in 0..k |-> IF m = 0 THEN NoPointers ELSE Replay(s[m], f[m - 1])]
    <2>3. \A m \in 0..(k - 1) : g[m] = f[m]
      BY <2>1, <2>2 DEF Replays
    <2>4. \A m \in 0..k : m = 0 \/ m - 1 \in 0..(k - 1)
      BY <1>2
    <2>5. g = [m \in 0..k |-> IF m = 0 THEN NoPointers ELSE Replay(s[m], g[m - 1])]
      BY <2>3, <2>4
    <2>. HIDE DEF g
    <2>. QED
      BY <1>2, <2>5 DEF Replays
  <1>. QED
    BY <1>3, <1>4

\* ExpectedPointers is the end of the replay.
LEMMA ExpectedIsReplayed ==
    ASSUME NEW s, Len(s) \in Nat
    PROVE  \E f : Replays(s, f, Len(s)) /\ ExpectedPointers(s) = f[Len(s)]
  <1>. DEFINE f == CHOOSE g : Replays(s, g, Len(s))
  <1>1. \E g : Replays(s, g, Len(s))
    BY ReplaysExist
  <1>2. Replays(s, f, Len(s))
    BY <1>1, Zenon
  <1>3. ExpectedPointers(s) = f[Len(s)]
    BY DEF ExpectedPointers, Replays
  <1>. QED
    BY <1>2, <1>3

\* One more record is replayed on top of the others.
LEMMA ExpectedAppend ==
    ASSUME NEW S, NEW s \in Seq(S), NEW d \in S
    PROVE  ExpectedPointers(Append(s, d)) = Replay(d, ExpectedPointers(s))
  <1>. DEFINE t == Append(s, d)
              n == Len(s)
  <1>1. n \in Nat /\ Len(t) = n + 1 /\ t[n + 1] = d /\ \A m \in 1..n : t[m] = s[m]
    OBVIOUS
  <1>. HIDE DEF t, n
  <1>2. PICK f : Replays(s, f, n) /\ ExpectedPointers(s) = f[n]
    BY <1>1, ExpectedIsReplayed DEF n
  <1>3. PICK g : Replays(t, g, n + 1) /\ ExpectedPointers(t) = g[n + 1]
    BY <1>1, ExpectedIsReplayed
  <1>4. f[0] = NoPointers /\ \A m \in 1..n : f[m] = Replay(s[m], f[m - 1])
    BY <1>1, <1>2 DEF Replays
  <1>5. g[0] = NoPointers /\ \A m \in 1..(n + 1) : g[m] = Replay(t[m], g[m - 1])
    BY <1>1, <1>3 DEF Replays
  <1>6. \A m \in 1..n : f[m - 1] = g[m - 1] => f[m] = g[m]
    BY <1>1, <1>4, <1>5
  <1>7. n \in Nat /\ f[0] = g[0]
    BY <1>1, <1>4, <1>5
  <1>8. \A m \in 0..n : f[m] = g[m]
    BY <1>6, <1>7, AgreeFromTheStart, ZenonT(60)
  <1>9. g[n + 1] = Replay(d, g[n])
    BY <1>1, <1>5
  <1>. QED
    BY <1>1, <1>2, <1>3, <1>8, <1>9 DEF t

\* The empty log leaves no pointers.
LEMMA ExpectedEmpty == ExpectedPointers(<<>>) = NoPointers
  <1>1. Len(<<>>) = 0
    OBVIOUS
  <1>2. PICK f : Replays(<<>>, f, 0) /\ ExpectedPointers(<<>>) = f[0]
    BY <1>1, ExpectedIsReplayed
  <1>. QED
    BY <1>2 DEF Replays

\* f holds the complete records of the first n fragments, for each n.
Collects(s, f, n) ==
    f = [m \in 0..n |-> IF m = 0 THEN <<>> ELSE WithFragment(f[m - 1], s[m])]

\* The records of every line can be collected.
LEMMA CollectsExist ==
    ASSUME NEW s, NEW n \in Nat
    PROVE  \E f : Collects(s, f, n)
  <1>. DEFINE T == {k \in Nat : ~\E f : Collects(s, f, k)}
  <1>1. SUFFICES ASSUME T # {} PROVE FALSE
    OBVIOUS
  <1>2. PICK k \in T : \A j \in T : k <= j
    BY <1>1, Least
  <1>3. CASE k = 0
    <2>. DEFINE g == [m \in 0..0 |-> <<>>]
    <2>1. g = [m \in 0..0 |-> IF m = 0 THEN <<>> ELSE WithFragment(g[m - 1], s[m])]
      OBVIOUS
    <2>. HIDE DEF g
    <2>. QED
      BY <1>2, <1>3, <2>1 DEF Collects
  <1>4. CASE k # 0
    <2>1. k - 1 \in Nat /\ k - 1 \notin T
      BY <1>2, <1>4
    <2>2. PICK f : Collects(s, f, k - 1)
      BY <2>1
    <2>. DEFINE g == [m \in 0..k |-> IF m = 0 THEN <<>> ELSE WithFragment(f[m - 1], s[m])]
    <2>3. \A m \in 0..(k - 1) : g[m] = f[m]
      BY <2>1, <2>2 DEF Collects
    <2>4. \A m \in 0..k : m = 0 \/ m - 1 \in 0..(k - 1)
      BY <1>2
    <2>5. g = [m \in 0..k |-> IF m = 0 THEN <<>> ELSE WithFragment(g[m - 1], s[m])]
      BY <2>3, <2>4
    <2>. HIDE DEF g
    <2>. QED
      BY <1>2, <2>5 DEF Collects
  <1>. QED
    BY <1>3, <1>4

\* RecordsIn is what is collected at the end.
LEMMA RecordsInIsCollected ==
    ASSUME NEW s, Len(s) \in Nat
    PROVE  \E f : Collects(s, f, Len(s)) /\ RecordsIn(s) = f[Len(s)]
  <1>. DEFINE f == CHOOSE g : Collects(s, g, Len(s))
  <1>1. \E g : Collects(s, g, Len(s))
    BY CollectsExist
  <1>2. Collects(s, f, Len(s))
    BY <1>1, Zenon
  <1>3. RecordsIn(s) = f[Len(s)]
    BY DEF RecordsIn, Collects
  <1>. QED
    BY <1>2, <1>3

\* One more fragment adds its record, if it is complete.
LEMMA RecordsInAppend ==
    ASSUME NEW S, NEW s \in Seq(S), NEW d \in S
    PROVE  RecordsIn(Append(s, d)) = WithFragment(RecordsIn(s), d)
  <1>. DEFINE t == Append(s, d)
              n == Len(s)
  <1>1. n \in Nat /\ Len(t) = n + 1 /\ t[n + 1] = d /\ \A m \in 1..n : t[m] = s[m]
    OBVIOUS
  <1>. HIDE DEF t, n
  <1>2. PICK f : Collects(s, f, n) /\ RecordsIn(s) = f[n]
    BY <1>1, RecordsInIsCollected DEF n
  <1>3. PICK g : Collects(t, g, n + 1) /\ RecordsIn(t) = g[n + 1]
    BY <1>1, RecordsInIsCollected
  <1>4. f[0] = <<>> /\ \A m \in 1..n : f[m] = WithFragment(f[m - 1], s[m])
    BY <1>1, <1>2 DEF Collects
  <1>5. g[0] = <<>> /\ \A m \in 1..(n + 1) : g[m] = WithFragment(g[m - 1], t[m])
    BY <1>1, <1>3 DEF Collects
  <1>6. \A m \in 1..n : f[m - 1] = g[m - 1] => f[m] = g[m]
    BY <1>1, <1>4, <1>5
  <1>7. n \in Nat /\ f[0] = g[0]
    BY <1>1, <1>4, <1>5
  <1>8. \A m \in 0..n : f[m] = g[m]
    BY <1>6, <1>7, AgreeFromTheStart, ZenonT(60)
  <1>9. g[n + 1] = WithFragment(g[n], d)
    BY <1>1, <1>5
  <1>. QED
    BY <1>1, <1>2, <1>3, <1>8, <1>9 DEF t

\* An empty line has no records.
LEMMA RecordsInEmpty == RecordsIn(<<>>) = <<>>
  <1>1. Len(<<>>) = 0
    OBVIOUS
  <1>2. PICK f : Collects(<<>>, f, 0) /\ RecordsIn(<<>>) = f[0]
    BY <1>1, RecordsInIsCollected
  <1>. QED
    BY <1>2 DEF Collects

\* f holds the records of the first n lines, for each n.
Joins(s, f, n) ==
    f = [m \in 0..n |-> IF m = 0 THEN <<>> ELSE WithLine(f[m - 1], s[m])]

\* The records of all lines can be joined.
LEMMA JoinsExist ==
    ASSUME NEW s, NEW n \in Nat
    PROVE  \E f : Joins(s, f, n)
  <1>. DEFINE T == {k \in Nat : ~\E f : Joins(s, f, k)}
  <1>1. SUFFICES ASSUME T # {} PROVE FALSE
    OBVIOUS
  <1>2. PICK k \in T : \A j \in T : k <= j
    BY <1>1, Least
  <1>3. CASE k = 0
    <2>. DEFINE g == [m \in 0..0 |-> <<>>]
    <2>1. g = [m \in 0..0 |-> IF m = 0 THEN <<>> ELSE WithLine(g[m - 1], s[m])]
      OBVIOUS
    <2>. HIDE DEF g
    <2>. QED
      BY <1>2, <1>3, <2>1 DEF Joins
  <1>4. CASE k # 0
    <2>1. k - 1 \in Nat /\ k - 1 \notin T
      BY <1>2, <1>4
    <2>2. PICK f : Joins(s, f, k - 1)
      BY <2>1
    <2>. DEFINE g == [m \in 0..k |-> IF m = 0 THEN <<>> ELSE WithLine(f[m - 1], s[m])]
    <2>3. \A m \in 0..(k - 1) : g[m] = f[m]
      BY <2>1, <2>2 DEF Joins
    <2>4. \A m \in 0..k : m = 0 \/ m - 1 \in 0..(k - 1)
      BY <1>2
    <2>5. g = [m \in 0..k |-> IF m = 0 THEN <<>> ELSE WithLine(g[m - 1], s[m])]
      BY <2>3, <2>4
    <2>. HIDE DEF g
    <2>. QED
      BY <1>2, <2>5 DEF Joins
  <1>. QED
    BY <1>3, <1>4

\* AllRecords is what is joined at the end.
LEMMA AllRecordsIsJoined ==
    ASSUME NEW s, Len(s) \in Nat
    PROVE  \E f : Joins(s, f, Len(s)) /\ AllRecords(s) = f[Len(s)]
  <1>. DEFINE f == CHOOSE g : Joins(s, g, Len(s))
  <1>1. \E g : Joins(s, g, Len(s))
    BY JoinsExist
  <1>2. Joins(s, f, Len(s))
    BY <1>1, Zenon
  <1>3. AllRecords(s) = f[Len(s)]
    BY DEF AllRecords, Joins
  <1>. QED
    BY <1>2, <1>3

\* One more line adds its records.
LEMMA AllRecordsAppend ==
    ASSUME NEW S, NEW s \in Seq(S), NEW d \in S
    PROVE  AllRecords(Append(s, d)) = WithLine(AllRecords(s), d)
  <1>. DEFINE t == Append(s, d)
              n == Len(s)
  <1>1. n \in Nat /\ Len(t) = n + 1 /\ t[n + 1] = d /\ \A m \in 1..n : t[m] = s[m]
    OBVIOUS
  <1>. HIDE DEF t, n
  <1>2. PICK f : Joins(s, f, n) /\ AllRecords(s) = f[n]
    BY <1>1, AllRecordsIsJoined DEF n
  <1>3. PICK g : Joins(t, g, n + 1) /\ AllRecords(t) = g[n + 1]
    BY <1>1, AllRecordsIsJoined
  <1>4. f[0] = <<>> /\ \A m \in 1..n : f[m] = WithLine(f[m - 1], s[m])
    BY <1>1, <1>2 DEF Joins
  <1>5. g[0] = <<>> /\ \A m \in 1..(n + 1) : g[m] = WithLine(g[m - 1], t[m])
    BY <1>1, <1>3 DEF Joins
  <1>6. \A m \in 1..n : f[m - 1] = g[m - 1] => f[m] = g[m]
    BY <1>1, <1>4, <1>5
  <1>7. n \in Nat /\ f[0] = g[0]
    BY <1>1, <1>4, <1>5
  <1>8. \A m \in 0..n : f[m] = g[m]
    BY <1>6, <1>7, AgreeFromTheStart, ZenonT(60)
  <1>9. g[n + 1] = WithLine(g[n], d)
    BY <1>1, <1>5
  <1>. QED
    BY <1>1, <1>2, <1>3, <1>8, <1>9 DEF t

\* A log without lines has no records.
LEMMA AllRecordsEmpty == AllRecords(<<>>) = <<>>
  <1>1. Len(<<>>) = 0
    OBVIOUS
  <1>2. PICK f : Joins(<<>>, f, 0) /\ AllRecords(<<>>) = f[0]
    BY <1>1, AllRecordsIsJoined
  <1>. QED
    BY <1>2 DEF Joins

-----------------------------------------------------------------------------
(* The operators keep their types *)

AllPointers == [PointerNames -> Releases \cup {NoRelease}]
Fragment == [record: DeploymentRecord, whole: BOOLEAN]
RecordSeqs == Seq(DeploymentRecord)

\* Replaying a record gives pointers.
LEMMA ReplayType ==
    ASSUME NEW d \in DeploymentRecord, NEW ptrs \in AllPointers
    PROVE  Replay(d, ptrs) \in AllPointers
  <1>1. /\ d.release \in Releases /\ d.previous \in Releases \cup {NoRelease}
        /\ d.phase \in {"preview", "canary", "promoted", "rolled_back"}
    BY DEF DeploymentRecord
  <1>. QED
    BY <1>1 DEF Replay, NoCandidate, AllPointers, PointerNames

\* What the log says the pointers are, are pointers.
LEMMA ExpectedType ==
    ASSUME NEW s \in RecordSeqs
    PROVE  ExpectedPointers(s) \in AllPointers
  <1>1. PICK n \in Nat : n = Len(s) /\ \A m \in 1..n : s[m] \in DeploymentRecord
    BY DEF RecordSeqs
  <1>2. PICK f : Replays(s, f, n) /\ ExpectedPointers(s) = f[n]
    BY <1>1, ExpectedIsReplayed
  <1>3. f[0] = NoPointers /\ \A m \in 1..n : f[m] = Replay(s[m], f[m - 1])
    BY <1>1, <1>2 DEF Replays
  <1>4. f[0] \in AllPointers
    BY <1>3 DEF AllPointers, NoPointers
  <1>5. \A m \in 1..n : f[m - 1] \in AllPointers => f[m] \in AllPointers
    BY <1>1, <1>3, ReplayType
  <1>6. \A m \in 0..n : f[m] \in AllPointers
    BY <1>4, <1>5, InFromTheStart, Zenon
  <1>. QED
    BY <1>1, <1>2, <1>6

\* A fragment adds a record or nothing.
LEMMA WithFragmentType ==
    ASSUME NEW s \in RecordSeqs, NEW e \in Fragment
    PROVE  WithFragment(s, e) \in RecordSeqs
  BY DEF WithFragment, RecordSeqs, Fragment

\* The complete records of a line are records.
LEMMA RecordsInType ==
    ASSUME NEW s \in Seq(Fragment)
    PROVE  RecordsIn(s) \in RecordSeqs
  <1>1. PICK n \in Nat : n = Len(s) /\ \A m \in 1..n : s[m] \in Fragment
    OBVIOUS
  <1>2. PICK f : Collects(s, f, n) /\ RecordsIn(s) = f[n]
    BY <1>1, RecordsInIsCollected
  <1>3. f[0] = <<>> /\ \A m \in 1..n : f[m] = WithFragment(f[m - 1], s[m])
    BY <1>1, <1>2 DEF Collects
  <1>4. f[0] \in RecordSeqs
    BY <1>3 DEF RecordSeqs
  <1>5. \A m \in 1..n : f[m - 1] \in RecordSeqs => f[m] \in RecordSeqs
    BY <1>1, <1>3, WithFragmentType
  <1>6. \A m \in 0..n : f[m] \in RecordSeqs
    BY <1>4, <1>5, InFromTheStart, Zenon
  <1>. QED
    BY <1>1, <1>2, <1>6

\* A line adds its records.
LEMMA WithLineType ==
    ASSUME NEW s \in RecordSeqs, NEW e \in Seq(Fragment)
    PROVE  WithLine(s, e) \in RecordSeqs
  <1>1. RecordsIn(e) \in RecordSeqs
    BY RecordsInType
  <1>. QED
    BY <1>1 DEF WithLine, RecordSeqs

\* The records of a log are records.
LEMMA AllRecordsType ==
    ASSUME NEW s \in Seq(Seq(Fragment))
    PROVE  AllRecords(s) \in RecordSeqs
  <1>1. PICK n \in Nat : n = Len(s) /\ \A m \in 1..n : s[m] \in Seq(Fragment)
    OBVIOUS
  <1>2. PICK f : Joins(s, f, n) /\ AllRecords(s) = f[n]
    BY <1>1, AllRecordsIsJoined
  <1>3. f[0] = <<>> /\ \A m \in 1..n : f[m] = WithLine(f[m - 1], s[m])
    BY <1>2 DEF Joins
  <1>4. f[0] \in RecordSeqs
    BY <1>3 DEF RecordSeqs
  <1>5. \A m \in 1..n : f[m - 1] \in RecordSeqs => f[m] \in RecordSeqs
    BY <1>1, <1>3, WithLineType
  <1>6. \A m \in 0..n : f[m] \in RecordSeqs
    BY <1>4, <1>5, InFromTheStart, Zenon
  <1>. QED
    BY <1>1, <1>2, <1>6

\* The records of a log that parses.
LEMMA RecordsOfType ==
    ASSUME NEW c \in Seq(Seq(Fragment)), Parses(c)
    PROVE  /\ RecordsOf(c) \in RecordSeqs
           /\ Len(RecordsOf(c)) = Len(c)
           /\ \A i \in 1..Len(c) : RecordsOf(c)[i] = c[i][1].record
  <1>1. PICK n \in Nat : n = Len(c)
    OBVIOUS
  <1>2. \A i \in 1..n : c[i][1].record \in DeploymentRecord
    <2>. SUFFICES ASSUME NEW i \in 1..n PROVE c[i][1].record \in DeploymentRecord
      OBVIOUS
    <2>1. c[i] \in Seq(Fragment) /\ Len(c[i]) = 1
      BY <1>1 DEF Parses
    <2>2. c[i][1] \in Fragment
      BY <2>1
    <2>. QED
      BY <2>2 DEF Fragment
  <1>3. RecordsOf(c) = [i \in 1..n |-> c[i][1].record]
    BY <1>1 DEF RecordsOf
  <1>. QED
    BY <1>1, <1>2, <1>3 DEF RecordSeqs

\* The digest that the next record refers to.
LEMMA LastDigestType ==
    ASSUME NEW s \in RecordSeqs
    PROVE  LastDigest(s) \in Nat /\ (s # <<>> => LastDigest(s) = s[Len(s)].digest)
  <1>1. CASE s = <<>>
    BY <1>1 DEF LastDigest
  <1>2. CASE s # <<>>
    <2>1. s[Len(s)] \in DeploymentRecord
      BY <1>2 DEF RecordSeqs
    <2>. QED
      BY <1>2, <2>1 DEF LastDigest, Last, DeploymentRecord
  <1>. QED
    BY <1>1, <1>2

\* The checks and the effects of an operation on pointers.
LEMMA OperationTypes ==
    ASSUME NEW op \in Operations, NEW r \in Releases, NEW ptrs \in AllPointers,
           Allowed(op, r, ptrs)
    PROVE  /\ NextPointers(op, r, ptrs) \in AllPointers
           /\ Deployment(op, r, ptrs) \in
                 [phase: {"preview", "canary", "promoted", "rolled_back"}, release: Releases,
                  previous: Releases \cup {NoRelease}]
  <1>1. \A n \in PointerNames : ptrs[n] \in Releases \cup {NoRelease}
    BY DEF AllPointers
  <1>2. ptrs["stable"] \in Releases \cup {NoRelease}
    BY <1>1 DEF PointerNames
  <1>3. NextPointers(op, r, ptrs) \in AllPointers
    BY <1>1 DEF NextPointers, NoCandidate, AllPointers, Operations, PointerNames
  <1>4. Deployment(op, r, ptrs) \in
                 [phase: {"preview", "canary", "promoted", "rolled_back"}, release: Releases,
                  previous: Releases \cup {NoRelease}]
    BY <1>2, NoReleaseAssumption DEF Deployment, Allowed, Operations
  <1>. QED
    BY <1>3, <1>4

-----------------------------------------------------------------------------
(* The log, and what a step does to it *)

Log == AllRecords(Lines)

\* The records of the lines and of what follows the last newline.
LEMMA LogSplit ==
    ASSUME NEW ls \in Seq(Seq(Fragment)), NEW t \in Seq(Fragment)
    PROVE  /\ AllRecords(IF t = <<>> THEN ls ELSE Append(ls, t)) = AllRecords(ls) \o RecordsIn(t)
           /\ AllRecords(ls) \in RecordSeqs /\ RecordsIn(t) \in RecordSeqs
  <1>1. AllRecords(ls) \in RecordSeqs /\ RecordsIn(t) \in RecordSeqs
    BY AllRecordsType, RecordsInType
  <1>2. CASE t = <<>>
    <2>1. RecordsIn(t) = <<>>
      BY <1>2, RecordsInEmpty
    <2>2. AllRecords(ls) \o <<>> = AllRecords(ls)
      BY <1>1 DEF RecordSeqs
    <2>. QED
      BY <1>1, <1>2, <2>1, <2>2
  <1>3. CASE t # <<>>
    <2>1. AllRecords(Append(ls, t)) = WithLine(AllRecords(ls), t)
      BY AllRecordsAppend
    <2>. QED
      BY <1>1, <1>3, <2>1 DEF WithLine
  <1>. QED
    BY <1>2, <1>3

\* A complete record at the end is one more record; a torn one is none.
LEMMA LogAppend ==
    ASSUME NEW ls \in Seq(Seq(Fragment)), NEW t \in Seq(Fragment), NEW d \in DeploymentRecord
    PROVE  /\ AllRecords(ls) \o RecordsIn(Append(t, Whole(d)))
                  = Append(AllRecords(ls) \o RecordsIn(t), d)
           /\ AllRecords(ls) \o RecordsIn(Append(t, Torn(d))) = AllRecords(ls) \o RecordsIn(t)
  <1>1. Whole(d) \in Fragment /\ Torn(d) \in Fragment
    BY DEF Whole, Torn, Fragment
  <1>2. /\ RecordsIn(Append(t, Whole(d))) = WithFragment(RecordsIn(t), Whole(d))
        /\ RecordsIn(Append(t, Torn(d))) = WithFragment(RecordsIn(t), Torn(d))
    BY <1>1, RecordsInAppend
  <1>3. /\ WithFragment(RecordsIn(t), Whole(d)) = Append(RecordsIn(t), d)
        /\ WithFragment(RecordsIn(t), Torn(d)) = RecordsIn(t)
    BY DEF WithFragment, Whole, Torn
  <1>4. AllRecords(ls) \in Seq(DeploymentRecord) /\ RecordsIn(t) \in Seq(DeploymentRecord)
    BY LogSplit DEF RecordSeqs
  <1>5. \A a, b \in Seq(DeploymentRecord) : a \o Append(b, d) = Append(a \o b, d)
    OBVIOUS
  <1>. QED
    BY <1>2, <1>3, <1>4, <1>5

\* The newline changes no record.
LEMMA LogNewline ==
    ASSUME NEW ls \in Seq(Seq(Fragment)), NEW t \in Seq(Fragment)
    PROVE  AllRecords(Append(ls, t)) \o RecordsIn(<<>>) = AllRecords(ls) \o RecordsIn(t)
  <1>1. AllRecords(Append(ls, t)) = WithLine(AllRecords(ls), t)
    BY AllRecordsAppend
  <1>2. AllRecords(ls) \in Seq(DeploymentRecord) /\ RecordsIn(t) \in Seq(DeploymentRecord)
    BY LogSplit DEF RecordSeqs
  <1>3. \A a \in Seq(DeploymentRecord) : a \o <<>> = a
    OBVIOUS
  <1>4. AllRecords(ls) \o RecordsIn(t) \in Seq(DeploymentRecord)
    BY <1>2
  <1>. QED
    BY <1>1, <1>3, <1>4, RecordsInEmpty DEF WithLine

\* The last record of a log that parses is the record of its last line.
LEMMA LastRecord ==
    ASSUME NEW c \in Seq(Seq(Fragment)), Parses(c), c # <<>>
    PROVE  /\ AllRecords(c) # <<>> /\ RecordsOf(c) # <<>>
           /\ AllRecords(c)[Len(AllRecords(c))] = RecordsOf(c)[Len(c)]
           /\ RecordsOf(c)[Len(c)] \in DeploymentRecord
           /\ Len(RecordsOf(c)) = Len(c)
  <1>1. PICK n \in Nat : n = Len(c) /\ n # 0
    OBVIOUS
  <1>2. PICK b : b = SubSeq(c, 1, n - 1)
    OBVIOUS
  <1>3. b \in Seq(Seq(Fragment)) /\ c[n] \in Seq(Fragment) /\ c = Append(b, c[n])
    BY <1>1, <1>2
  <1>4. Len(c[n]) = 1 /\ c[n][1].whole /\ c[n][1] \in Fragment
    BY <1>1, <1>3 DEF Parses
  <1>5. c[n] = Append(<<>>, c[n][1])
    BY <1>3, <1>4
  <1>6. RecordsIn(c[n]) = Append(<<>>, c[n][1].record)
    <2>1. RecordsIn(Append(<<>>, c[n][1])) = WithFragment(RecordsIn(<<>>), c[n][1])
      <3>1. <<>> \in Seq(Fragment)
        OBVIOUS
      <3>. QED
        BY <1>4, <3>1, RecordsInAppend
    <2>. QED
      BY <1>4, <1>5, <2>1, RecordsInEmpty DEF WithFragment
  <1>7. AllRecords(c) = AllRecords(b) \o RecordsIn(c[n])
    BY <1>3, AllRecordsAppend DEF WithLine
  <1>8. AllRecords(b) \in Seq(DeploymentRecord) /\ c[n][1].record \in DeploymentRecord
    BY <1>3, <1>4, AllRecordsType DEF RecordSeqs, Fragment
  <1>9. \A a \in Seq(DeploymentRecord), d \in DeploymentRecord :
            /\ a \o Append(<<>>, d) # <<>>
            /\ (a \o Append(<<>>, d))[Len(a \o Append(<<>>, d))] = d
    OBVIOUS
  <1>10. AllRecords(c) # <<>> /\ AllRecords(c)[Len(AllRecords(c))] = c[n][1].record
    BY <1>6, <1>7, <1>8, <1>9
  <1>11. Len(RecordsOf(c)) = n /\ RecordsOf(c)[n] = c[n][1].record
    BY <1>1, RecordsOfType
  <1>. QED
    BY <1>1, <1>8, <1>10, <1>11

-----------------------------------------------------------------------------
(* The inductive invariant *)

Labels == {"idle", "recover", "verify", "operate", "append", "newline", "remove"} \cup PointerNames

Types ==
    /\ lines \in Seq(Seq(Fragment)) /\ tail \in Seq(Fragment)
    /\ files \in AllPointers
    /\ pending \in PendingDeployment \cup {NoPending}
    /\ lock \in Procs \cup {NoProc}
    /\ pc \in [Procs -> Labels]
    /\ target \in [Procs -> PendingDeployment \cup {NoPending}]
    /\ resume \in [Procs -> {"idle", "verify"}]
    /\ begun \in Nat /\ stops \in Nat
    /\ cut \in BOOLEAN /\ refused \in BOOLEAN

\* The labels at which a process carries out a deployment, and those at which
\* the record of the deployment is in the log.
Carrying == {"append", "newline", "remove"} \cup PointerNames
Logging == {"newline", "remove"} \cup PointerNames

\* The pointers written before a label is reached.
Written(label) ==
    CASE label = "stable"  -> {"previous-stable"}
      [] label = "preview" -> {"previous-stable", "stable"}
      [] label = "canary"  -> {"previous-stable", "stable", "preview"}
      [] label = "remove"  -> PointerNames
      [] OTHER             -> {}

LogEndsInPending == Log # <<>> /\ Last(Log) = pending.record

\* A process inside an operation holds the lock, and what it has done so far
\* shows in the files.
Placed(p) ==
    /\ lock = p
    /\ pc[p] \in Carrying => pending # NoPending /\ target[p] = pending
    /\ pc[p] \in {"verify", "operate"} => pending = NoPending
    /\ pc[p] = "operate" => Parses(Lines)
    /\ \A n \in Written(pc[p]) : files[n] = pending.pointers[n]
    /\ pc[p] = "append" => ~LogEndsInPending
    /\ pc[p] \in Logging => LogEndsInPending

PlacesInv == \A p \in Procs : pc[p] # "idle" => Placed(p)

\* A digest is used once: no record has that of a deployment not yet begun.
DigestsInv ==
    /\ \A i \in 1..Len(Log) : Log[i].digest <= begun
    /\ pending # NoPending => pending.record.digest <= begun

IInv == Types /\ PlacesInv /\ DigestsInv

\* An action of a process inside an operation.
Acts(p) == Step(p) \/ Stop(p) \/ StopInAppend(p)
             \/ \E op \in Operations, r \in Releases : Operate(p, op, r)

\* The label of a process, as one of the labels.
LEMMA LabelNames ==
    /\ "idle" \in Labels /\ "recover" \in Labels /\ "verify" \in Labels /\ "operate" \in Labels
    /\ "append" \in Labels /\ "newline" \in Labels /\ "remove" \in Labels
    /\ "previous-stable" \in Labels /\ "stable" \in Labels
    /\ "preview" \in Labels /\ "canary" \in Labels
    /\ \A n \in PointerNames : After[n] \in Labels
  BY DEF Labels, PointerNames, After

\* Going to a label and leaving the operation keep the types of the control state.
LEMMA ControlTypes ==
    ASSUME Types, NEW p \in Procs
    PROVE  /\ \A l \in Labels : Goto(p, l) => pc' \in [Procs -> Labels]
           /\ Leave(p) => /\ pc' \in [Procs -> Labels]
                          /\ target' \in [Procs -> PendingDeployment \cup {NoPending}]
                          /\ resume' \in [Procs -> {"idle", "verify"}]
                          /\ lock' \in Procs \cup {NoProc}
  BY LabelNames DEF Types, Goto, Leave

\* The deployment that Operate makes pending.
NextPending(op, r) ==
    [record |-> [phase |-> Deployment(op, r, files).phase,
                 release |-> Deployment(op, r, files).release,
                 previous |-> Deployment(op, r, files).previous, sequence |-> Len(Lines) + 1,
                 digest |-> begun + 1, previousDigest |-> LastDigest(Records)],
     pointers |-> NextPointers(op, r, files)]

\* It has its type, and its record is the one that the operation logs.
LEMMA NextPendingType ==
    ASSUME Types, NEW p \in Procs, Placed(p), pc[p] = "operate",
           NEW op \in Operations, NEW r \in Releases, Allowed(op, r, files)
    PROVE  NextPending(op, r) \in PendingDeployment
  <1>1. /\ NextPointers(op, r, files) \in AllPointers
        /\ Deployment(op, r, files) \in
              [phase: {"preview", "canary", "promoted", "rolled_back"}, release: Releases,
               previous: Releases \cup {NoRelease}]
    BY OperationTypes DEF Types
  <1>2. Lines \in Seq(Seq(Fragment)) /\ Parses(Lines)
    BY DEF Types, Lines, Placed
  <1>3. LastDigest(Records) \in Nat
    BY <1>2, RecordsOfType, LastDigestType DEF Records
  <1>4. Len(Lines) + 1 \in Nat /\ begun + 1 \in Nat
    BY <1>2 DEF Types
  <1>. QED
    BY <1>1, <1>3, <1>4 DEF NextPending, PendingDeployment, DeploymentRecord, AllPointers

\* Every step keeps the types.
LEMMA StepKeepsTypes ==
    ASSUME Types, PlacesInv, Next
    PROVE  Types'
  <1>1. PICK p \in Procs : Lock(p) \/ Acts(p)
    BY Zenon DEF Next, Acts
  <1>. USE ControlTypes, LabelNames
  <1>2. CASE Lock(p)
    BY <1>2 DEF Lock, Types, diskVars
  <1>3. CASE LoadPending(p)
    <2>1. /\ pc' \in [Procs -> Labels]
          /\ target' = [target EXCEPT ![p] = pending] /\ resume' = [resume EXCEPT ![p] = "verify"]
          /\ UNCHANGED <<lines, tail, files, pending, lock, begun, stops, cut, refused>>
      BY <1>3 DEF LoadPending, diskVars
    <2>. QED
      BY <2>1 DEF Types
  <1>4. CASE RepairLog(p)
    <2>1. /\ pc' \in [Procs -> Labels] /\ tail' = <<>>
          /\ target' = [target EXCEPT ![p] = pending] /\ resume' = [resume EXCEPT ![p] = "verify"]
          /\ UNCHANGED <<lines, files, pending, lock, begun, stops, cut, refused>>
      BY <1>4 DEF RepairLog
    <2>. QED
      BY <2>1 DEF Types
  <1>5. CASE RefuseRecovery(p)
    BY <1>5 DEF RefuseRecovery, Refuse, Types, diskVars
  <1>6. CASE NothingPending(p)
    BY <1>6 DEF NothingPending, Types, diskVars
  <1>7. CASE Verify(p)
    BY <1>7 DEF Verify, Refuse, Types, diskVars
  <1>8. CASE AppendRecord(p)
    <2>1. target[p] \in PendingDeployment
      BY <1>8 DEF AppendRecord, PlacesInv, Placed, Carrying, Types
    <2>2. Whole(target[p].record) \in Fragment
      BY <2>1 DEF PendingDeployment, Fragment, Whole
    <2>. QED
      BY <1>8, <2>2 DEF AppendRecord, Types
  <1>9. CASE AppendNewline(p)
    BY <1>9 DEF AppendNewline, Types, PointerNames
  <1>10. CASE WritePointer(p)
    <2>1. target[p] \in PendingDeployment
      BY <1>10 DEF WritePointer, PlacesInv, Placed, Carrying, Types, PointerNames
    <2>2. pc[p] \in PointerNames /\ target[p].pointers[pc[p]] \in Releases \cup {NoRelease}
      BY <1>10, <2>1 DEF WritePointer, PendingDeployment
    <2>3. files' \in AllPointers
      BY <1>10, <2>2 DEF WritePointer, Types, AllPointers
    <2>. QED
      BY <1>10, <2>2, <2>3 DEF WritePointer, Types
  <1>11. CASE RemovePending(p)
    BY <1>11 DEF RemovePending, Types
  <1>12. CASE OnlyRead(p)
    BY <1>12 DEF OnlyRead, Types, diskVars
  <1>13. CASE Stop(p)
    BY <1>13 DEF Stop, Types, diskVars
  <1>14. CASE StopInAppend(p)
    <2>1. target[p] \in PendingDeployment
      BY <1>14 DEF StopInAppend, PlacesInv, Placed, Carrying, Types
    <2>2. Torn(target[p].record) \in Fragment
      BY <2>1 DEF PendingDeployment, Fragment, Torn
    <2>. QED
      BY <1>14, <2>2 DEF StopInAppend, Types
  <1>15. ASSUME NEW op \in Operations, NEW r \in Releases, Operate(p, op, r) PROVE Types'
    <2>1. /\ pc[p] = "operate" /\ Allowed(op, r, files) /\ begun' = begun + 1
          /\ pending' = NextPending(op, r) /\ target' = [target EXCEPT ![p] = NextPending(op, r)]
          /\ resume' = [resume EXCEPT ![p] = "idle"] /\ Goto(p, "append")
          /\ UNCHANGED <<lines, tail, files, lock, stops, cut, refused>>
      BY <1>15 DEF Operate, NextPending
    <2>2. NextPending(op, r) \in PendingDeployment
      BY <2>1, NextPendingType DEF PlacesInv
    <2>. QED
      BY <2>1, <2>2 DEF Types
  <1>. QED
    BY <1>1, <1>2, <1>3, <1>4, <1>5, <1>6, <1>7, <1>8, <1>9, <1>10, <1>11, <1>12, <1>13, <1>14,
       <1>15 DEF Acts, Step

\* The records of the log, before a step and after it.
LEMMA LogIs ==
    ASSUME Types
    PROVE  Log = AllRecords(lines) \o RecordsIn(tail) /\ Log \in RecordSeqs
  <1>1. PICK ls \in Seq(Seq(Fragment)), t \in Seq(Fragment) : ls = lines /\ t = tail
    BY DEF Types
  <1>2. Log = AllRecords(IF t = <<>> THEN ls ELSE Append(ls, t))
    BY <1>1 DEF Log, Lines
  <1>3. AllRecords(ls) \o RecordsIn(t) \in RecordSeqs
    BY LogSplit DEF RecordSeqs
  <1>. QED
    BY <1>1, <1>2, <1>3, LogSplit

\* The same after a step.
LEMMA LogIsNext ==
    ASSUME Types'
    PROVE  Log' = AllRecords(lines') \o RecordsIn(tail') /\ Log' \in RecordSeqs
  <1>1. PICK ls \in Seq(Seq(Fragment)), t \in Seq(Fragment) : ls = lines' /\ t = tail'
    BY DEF Types
  <1>2. Log' = AllRecords(IF t = <<>> THEN ls ELSE Append(ls, t))
    BY <1>1 DEF Log, Lines
  <1>3. AllRecords(ls) \o RecordsIn(t) \in RecordSeqs
    BY LogSplit DEF RecordSeqs
  <1>. QED
    BY <1>1, <1>2, <1>3, LogSplit

\* A torn record is no record.
LEMMA TornIsNone ==
    ASSUME NEW d \in DeploymentRecord
    PROVE  RecordsIn(<<Torn(d)>>) = <<>>
  <1>1. <<>> \in Seq(Fragment) /\ Torn(d) \in Fragment /\ <<Torn(d)>> = Append(<<>>, Torn(d))
    BY DEF Torn, Fragment
  <1>2. RecordsIn(Append(<<>>, Torn(d))) = WithFragment(RecordsIn(<<>>), Torn(d))
    BY <1>1, RecordsInAppend
  <1>. QED
    BY <1>1, <1>2, RecordsInEmpty DEF WithFragment, Torn

\* The log grows by the pending record when it is appended, and at no other step.
LEMMA LogMoves ==
    ASSUME Types, Types', PlacesInv, NEW p \in Procs, Lock(p) \/ Acts(p)
    PROVE  /\ AppendRecord(p) => Log' = Append(Log, pending.record)
           /\ ~AppendRecord(p) => Log' = Log
  <1>1. Log = AllRecords(lines) \o RecordsIn(tail) /\ Log' = AllRecords(lines') \o RecordsIn(tail')
    BY LogIs, LogIsNext
  <1>2. lines \in Seq(Seq(Fragment)) /\ tail \in Seq(Fragment)
    BY DEF Types
  <1>3. CASE AppendRecord(p)
    <2>1. /\ pending \in PendingDeployment /\ lines' = lines
          /\ tail' = Append(tail, Whole(pending.record))
      BY <1>3 DEF AppendRecord, PlacesInv, Placed, Carrying, Types
    <2>2. pending.record \in DeploymentRecord
      BY <2>1 DEF PendingDeployment
    <2>. QED
      BY <1>1, <1>2, <1>3, <2>1, <2>2, LogAppend
  <1>4. CASE AppendNewline(p)
    <2>1. lines' = Append(lines, tail) /\ tail' = <<>> /\ ~AppendRecord(p)
      BY <1>4 DEF AppendNewline, AppendRecord
    <2>. QED
      BY <1>1, <1>2, <2>1, LogNewline
  <1>5. CASE RepairLog(p)
    <2>1. /\ pending \in PendingDeployment /\ lines' = lines /\ tail' = <<>>
          /\ tail = <<Torn(pending.record)>> /\ ~AppendRecord(p)
      BY <1>5 DEF RepairLog, AppendRecord, IsInterruptedAppend, Types
    <2>2. RecordsIn(tail) = <<>>
      BY <2>1, TornIsNone DEF PendingDeployment
    <2>. QED
      BY <1>1, <2>1, <2>2, RecordsInEmpty
  <1>6. CASE StopInAppend(p)
    <2>1. /\ pending \in PendingDeployment /\ lines' = lines
          /\ tail' = Append(tail, Torn(pending.record))
      BY <1>6 DEF StopInAppend, PlacesInv, Placed, Carrying, Types
    <2>2. pending.record \in DeploymentRecord
      BY <2>1 DEF PendingDeployment
    <2>3. ~AppendRecord(p)
      <3>1. pc \in [Procs -> Labels] /\ pc'[p] = "idle"
        BY <1>6 DEF StopInAppend, Leave, Types
      <3>. QED
        BY <3>1 DEF AppendRecord, Goto
    <2>. QED
      BY <1>1, <1>2, <2>1, <2>2, <2>3, LogAppend
  <1>7. CASE lines' = lines /\ tail' = tail /\ ~AppendRecord(p)
    BY <1>1, <1>7
  <1>. QED
    <2>1. CASE Lock(p)
      BY <1>7, <2>1 DEF Lock, AppendRecord, diskVars
    <2>2. CASE LoadPending(p) \/ RefuseRecovery(p) \/ NothingPending(p)
      BY <1>7, <2>2
         DEF LoadPending, RefuseRecovery, Refuse, NothingPending, AppendRecord, diskVars
    <2>3. CASE Verify(p) \/ WritePointer(p) \/ RemovePending(p) \/ OnlyRead(p)
      BY <1>7, <2>3 DEF Verify, Refuse, WritePointer, RemovePending, OnlyRead, AppendRecord,
                        diskVars, PointerNames
    <2>4. CASE Stop(p)
      <3>1. pc \in [Procs -> Labels] /\ pc'[p] = "idle" /\ lines' = lines /\ tail' = tail
        BY <2>4 DEF Stop, Leave, Types, diskVars
      <3>2. ~AppendRecord(p)
        BY <3>1 DEF AppendRecord, Goto
      <3>. QED
        BY <1>7, <3>1, <3>2
    <2>5. CASE \E op \in Operations, r \in Releases : Operate(p, op, r)
      BY <1>7, <2>5 DEF Operate, AppendRecord
    <2>. QED
      BY <1>3, <1>4, <1>5, <1>6, <2>1, <2>2, <2>3, <2>4, <2>5 DEF Acts, Step

\* Only the process that acts is inside an operation.
LEMMA PlaceKept ==
    ASSUME Types, PlacesInv, NEW p \in Procs, pc[p] # "idle" \/ lock = NoProc,
           NEW l, Goto(p, l), l # "idle" => Placed(p)'
    PROVE  PlacesInv'
  <1>. SUFFICES ASSUME NEW q \in Procs, pc'[q] # "idle" PROVE Placed(q)'
    BY DEF PlacesInv
  <1>1. pc \in [Procs -> Labels] /\ pc' = [pc EXCEPT ![p] = l]
    BY DEF Types, Goto
  <1>2. CASE q = p
    BY <1>1, <1>2
  <1>3. CASE q # p
    <2>1. pc[q] # "idle" /\ lock = q
      BY <1>1, <1>3 DEF PlacesInv, Placed
    <2>2. pc[p] = "idle" /\ lock # NoProc
      BY <1>3, <2>1, NoProcAssumption DEF PlacesInv, Placed
    <2>. QED
      BY <2>2
  <1>. QED
    BY <1>2, <1>3

\* What a sound log ends in: the record with the number of its lines.
LEMMA SoundLogEnds ==
    ASSUME NEW c \in Seq(Seq(Fragment)), Verifies(c)
    PROVE  /\ c = <<>> => AllRecords(c) = <<>> /\ RecordsOf(c) = <<>>
           /\ c # <<>> => /\ AllRecords(c) # <<>> /\ RecordsOf(c) # <<>>
                          /\ Last(AllRecords(c)) = Last(RecordsOf(c))
                          /\ Last(RecordsOf(c)) \in DeploymentRecord
                          /\ Last(RecordsOf(c)).sequence = Len(c)
           /\ Len(RecordsOf(c)) = Len(c)
  <1>1. Parses(c) /\ Len(RecordsOf(c)) = Len(c) /\ RecordsOf(c) \in Seq(DeploymentRecord)
    BY RecordsOfType DEF Verifies, RecordSeqs
  <1>2. CASE c = <<>>
    BY <1>1, <1>2, AllRecordsEmpty
  <1>3. CASE c # <<>>
    <2>1. /\ AllRecords(c) # <<>> /\ RecordsOf(c) # <<>>
          /\ AllRecords(c)[Len(AllRecords(c))] = RecordsOf(c)[Len(c)]
          /\ RecordsOf(c)[Len(c)] \in DeploymentRecord
      BY <1>1, <1>3, LastRecord
    <2>2. Len(c) \in 1..Len(c)
      BY <1>3
    <2>3. RecordsOf(c)[Len(c)].sequence = Len(c)
      BY <2>2 DEF Verifies
    <2>. QED
      BY <1>1, <1>3, <2>1, <2>3 DEF Last
  <1>. QED
    BY <1>2, <1>3

\* Every step leaves the processes where the files show.
LEMMA StepKeepsPlaces ==
    ASSUME Types, Types', PlacesInv, DigestsInv, NEW p \in Procs, Lock(p) \/ Acts(p)
    PROVE  PlacesInv'
  <1>1. /\ pc \in [Procs -> Labels] /\ target \in [Procs -> PendingDeployment \cup {NoPending}]
        /\ files \in AllPointers /\ pending \in PendingDeployment \cup {NoPending}
    BY DEF Types
  <1>2. pc[p] # "idle" => Placed(p)
    BY DEF PlacesInv
  <1>3. Leave(p) => Goto(p, "idle")
    BY DEF Leave, Goto
  <1>4. ASSUME pc[p] # "idle", Leave(p) PROVE PlacesInv'
    BY <1>3, <1>4, PlaceKept
  <1>5. \A l : Goto(p, l) => pc'[p] = l
    BY <1>1 DEF Goto
  <1>6. CASE Lock(p)
    <2>1. Goto(p, "recover") /\ lock = NoProc /\ lock' = p /\ pc'[p] = "recover"
      BY <1>5, <1>6 DEF Lock
    <2>2. Placed(p)'
      BY <2>1 DEF Placed, Carrying, Logging, Written, PointerNames
    <2>. QED
      BY <2>1, <2>2, PlaceKept
  <1>7. CASE LoadPending(p)
    <2>1. /\ pc[p] = "recover" /\ lock' = lock /\ lock = p /\ Verifies(Lines)
          /\ pending' = pending /\ files' = files /\ lines' = lines /\ tail' = tail
          /\ pending # NoPending /\ target'[p] = pending'
      BY <1>1, <1>2, <1>7 DEF LoadPending, Placed, diskVars
    <2>2. Log' = Log /\ Lines \in Seq(Seq(Fragment))
      BY <2>1 DEF Log, Lines, Types
    <2>3. Lines = <<>> => Log = <<>> /\ Records = <<>>
      BY <2>1, <2>2, SoundLogEnds DEF Log, Records
    <2>4. Lines # <<>> => Log # <<>> /\ Records # <<>> /\ Last(Log) = Last(Records)
      BY <2>1, <2>2, SoundLogEnds DEF Log, Records
    <2>5. CASE Appended
      <3>1. Last(Records) = pending.record /\ Goto(p, "previous-stable") /\ Records # <<>>
        BY <1>7, <2>5 DEF LoadPending, Appended
      <3>2. LogEndsInPending'
        BY <2>1, <2>2, <2>3, <2>4, <3>1 DEF LogEndsInPending
      <3>3. pc'[p] = "previous-stable"
        BY <1>5, <3>1
      <3>4. Placed(p)'
        BY <2>1, <3>2, <3>3 DEF Placed, Carrying, Logging, Written, PointerNames
      <3>. QED
        BY <2>1, <3>1, <3>4, PlaceKept
    <2>6. CASE ~Appended
      <3>1. Goto(p, "append") /\ (Records = <<>> \/ Last(Records) # pending.record)
        BY <1>7, <2>6 DEF LoadPending, Appended
      <3>2. ~LogEndsInPending'
        BY <2>1, <2>2, <2>3, <2>4, <3>1 DEF LogEndsInPending
      <3>3. pc'[p] = "append"
        BY <1>5, <3>1
      <3>4. Placed(p)'
        BY <2>1, <3>2, <3>3 DEF Placed, Carrying, Logging, Written, PointerNames
      <3>. QED
        BY <2>1, <3>1, <3>4, PlaceKept
    <2>. QED
      BY <2>5, <2>6
  <1>8. CASE RepairLog(p)
    <2>1. /\ pc[p] = "recover" /\ lock' = lock /\ lock = p
          /\ pending' = pending /\ files' = files /\ lines' = lines /\ tail' = <<>>
          /\ pending # NoPending /\ target'[p] = pending'
          /\ Goto(p, "append") /\ Verifies(lines) /\ Extends(RecordsOf(lines))
      BY <1>1, <1>2, <1>8 DEF RepairLog, Placed, IsInterruptedAppend
    <2>2. Log' = AllRecords(lines) /\ lines \in Seq(Seq(Fragment))
      BY <2>1 DEF Log, Lines, Types
    <2>3. pending.record.sequence = Len(lines) + 1 /\ Len(lines) \in Nat
      BY <2>1, <2>2, SoundLogEnds DEF Extends
    <2>4. ~LogEndsInPending'
      <3>1. CASE lines = <<>>
        BY <2>1, <2>2, <3>1, SoundLogEnds DEF LogEndsInPending
      <3>2. CASE lines # <<>>
        <4>1. Last(AllRecords(lines)).sequence = Len(lines)
          BY <2>1, <2>2, <3>2, SoundLogEnds
        <4>. QED
          BY <2>1, <2>2, <2>3, <4>1 DEF LogEndsInPending
      <3>. QED
        BY <3>1, <3>2
    <2>5. pc'[p] = "append"
      BY <1>5, <2>1
    <2>6. Placed(p)'
      BY <2>1, <2>4, <2>5 DEF Placed, Carrying, Logging, Written, PointerNames
    <2>. QED
      BY <2>1, <2>6, PlaceKept
  <1>9. CASE RefuseRecovery(p) \/ OnlyRead(p)
    BY <1>4, <1>9 DEF RefuseRecovery, Refuse, OnlyRead
  <1>10. CASE Stop(p) \/ StopInAppend(p)
    BY <1>4, <1>10 DEF Stop, StopInAppend
  <1>11. CASE NothingPending(p)
    <2>1. /\ pc[p] = "recover" /\ lock' = lock /\ lock = p /\ Goto(p, "verify")
          /\ pending' = NoPending
      BY <1>2, <1>11 DEF NothingPending, Placed, diskVars
    <2>2. pc'[p] = "verify"
      BY <1>5, <2>1
    <2>3. Placed(p)'
      BY <2>1, <2>2 DEF Placed, Carrying, Logging, Written, PointerNames
    <2>. QED
      BY <2>1, <2>3, PlaceKept
  <1>12. CASE Verify(p)
    <2>1. CASE Verifies(Lines) /\ PointersMatchRecords(Records)
      <3>1. /\ pc[p] = "verify" /\ lock' = lock /\ lock = p /\ Goto(p, "operate")
            /\ pending' = pending /\ pending = NoPending /\ lines' = lines /\ tail' = tail
        BY <1>2, <1>12, <2>1 DEF Verify, Placed, diskVars
      <3>2. pc'[p] = "operate" /\ Lines' = Lines /\ Parses(Lines)
        BY <1>5, <2>1, <3>1 DEF Lines, Verifies
      <3>3. Parses(Lines)'
        BY <3>2 DEF Parses
      <3>4. Placed(p)'
        BY <3>1, <3>2, <3>3 DEF Placed, Carrying, Logging, Written, PointerNames
      <3>. QED
        BY <3>1, <3>4, PlaceKept
    <2>2. CASE ~(Verifies(Lines) /\ PointersMatchRecords(Records))
      BY <1>4, <1>12, <2>2 DEF Verify, Refuse
    <2>. QED
      BY <2>1, <2>2
  <1>13. CASE AppendRecord(p)
    <2>1. /\ pc[p] = "append" /\ lock' = lock /\ lock = p /\ Goto(p, "newline")
          /\ pending' = pending /\ pending # NoPending /\ target'[p] = pending'
      BY <1>2, <1>13 DEF AppendRecord, Placed, Carrying
    <2>2. Log' = Append(Log, pending.record) /\ Log \in Seq(DeploymentRecord)
          /\ pending.record \in DeploymentRecord
      BY <1>1, <1>13, <2>1, LogMoves, LogIs DEF RecordSeqs, PendingDeployment
    <2>3. LogEndsInPending'
      BY <2>1, <2>2 DEF LogEndsInPending, Last
    <2>4. pc'[p] = "newline"
      BY <1>5, <2>1
    <2>5. Placed(p)'
      BY <2>1, <2>3, <2>4 DEF Placed, Carrying, Logging, Written, PointerNames
    <2>. QED
      BY <2>1, <2>5, PlaceKept
  <1>14. CASE AppendNewline(p)
    <2>1. /\ pc[p] = "newline" /\ lock' = lock /\ lock = p /\ Goto(p, "previous-stable")
          /\ pending' = pending /\ pending # NoPending /\ target'[p] = pending'
          /\ LogEndsInPending
      BY <1>2, <1>14 DEF AppendNewline, Placed, Carrying, Logging
    <2>2. Log' = Log
      BY <1>14, <2>1, LogMoves DEF AppendRecord
    <2>3. LogEndsInPending'
      BY <2>1, <2>2 DEF LogEndsInPending, Last
    <2>4. pc'[p] = "previous-stable"
      BY <1>5, <2>1
    <2>5. Placed(p)'
      BY <2>1, <2>3, <2>4 DEF Placed, Carrying, Logging, Written, PointerNames
    <2>. QED
      BY <2>1, <2>5, PlaceKept
  <1>15. CASE WritePointer(p)
    <2>1. /\ pc[p] \in PointerNames /\ lock' = lock /\ lock = p /\ Goto(p, After[pc[p]])
          /\ pending' = pending /\ pending # NoPending /\ target[p] = pending
          /\ target'[p] = pending'
          /\ LogEndsInPending
      BY <1>2, <1>15 DEF WritePointer, Placed, Carrying, Logging, PointerNames
    <2>2. Log' = Log
      BY <1>15, <2>1, LogMoves DEF AppendRecord, PointerNames
    <2>3. LogEndsInPending'
      BY <2>1, <2>2 DEF LogEndsInPending, Last
    <2>4. pc'[p] = After[pc[p]] /\ After[pc[p]] \in {"stable", "preview", "canary", "remove"}
      BY <1>5, <2>1 DEF After, PointerNames
    <2>5. /\ files' = [files EXCEPT ![pc[p]] = pending.pointers[pc[p]]]
          /\ \A n \in Written(pc[p]) : files[n] = pending.pointers[n]
      BY <1>2, <1>15, <2>1 DEF WritePointer, Placed, PointerNames
    <2>6. /\ Written(After[pc[p]]) = Written(pc[p]) \cup {pc[p]}
          /\ Written(pc[p]) \subseteq PointerNames
      BY <2>1 DEF Written, After, PointerNames
    <2>7. \A n \in Written(pc[p]) \cup {pc[p]} : files'[n] = pending.pointers[n]
      BY <1>1, <2>1, <2>5, <2>6 DEF AllPointers
    <2>8. \A n \in Written(pc'[p]) : files'[n] = pending'.pointers[n]
      BY <2>1, <2>4, <2>6, <2>7
    <2>9. Placed(p)'
      BY <2>1, <2>3, <2>4, <2>8 DEF Placed, Carrying, Logging, PointerNames
    <2>. QED
      BY <2>1, <2>9, PlaceKept DEF PointerNames
  <1>16. CASE RemovePending(p)
    <2>1. pc[p] = "remove" /\ pending' = NoPending /\ lock = p
      BY <1>2, <1>16 DEF RemovePending, Placed
    <2>2. CASE resume[p] = "verify"
      <3>1. lock' = lock /\ Goto(p, "verify")
        BY <1>16, <2>2 DEF RemovePending
      <3>2. pc'[p] = "verify"
        BY <1>5, <3>1
      <3>3. Placed(p)'
        BY <2>1, <3>1, <3>2 DEF Placed, Carrying, Logging, Written, PointerNames
      <3>. QED
        BY <2>1, <3>1, <3>3, PlaceKept
    <2>3. CASE resume[p] # "verify"
      BY <1>4, <1>16, <2>1, <2>3 DEF RemovePending
    <2>. QED
      BY <2>2, <2>3
  <1>17. ASSUME NEW op \in Operations, NEW r \in Releases, Operate(p, op, r) PROVE PlacesInv'
    <2>1. /\ pc[p] = "operate" /\ lock' = lock /\ lock = p /\ Goto(p, "append")
          /\ pending' = NextPending(op, r) /\ target'[p] = pending' /\ Allowed(op, r, files)
          /\ lines' = lines /\ tail' = tail
      BY <1>1, <1>2, <1>17 DEF Operate, NextPending, Placed
    <2>2. NextPending(op, r) \in PendingDeployment /\ NextPending(op, r).record.digest = begun + 1
      BY <1>2, <2>1, NextPendingType DEF NextPending
    <2>3. Log' = Log /\ Log \in Seq(DeploymentRecord)
      BY <2>1, LogIs DEF Log, Lines, RecordSeqs
    <2>4. Log # <<>> => Last(Log).digest <= begun /\ Last(Log).digest \in Nat
      <3>1. Log # <<>> => Len(Log) \in 1..Len(Log) /\ Log[Len(Log)] \in DeploymentRecord
        BY <2>3
      <3>2. \A d \in DeploymentRecord : d.digest \in Nat
        BY DEF DeploymentRecord
      <3>. QED
        BY <3>1, <3>2 DEF DigestsInv, Last
    <2>5. begun \in Nat
      BY DEF Types
    <2>6. ~LogEndsInPending'
      BY <2>1, <2>2, <2>3, <2>4, <2>5 DEF LogEndsInPending
    <2>7. pc'[p] = "append"
      BY <1>5, <2>1
    <2>8. pending' # NoPending
      BY <2>1, <2>2, NoPendingAssumption
    <2>9. Placed(p)'
      BY <2>1, <2>6, <2>7, <2>8 DEF Placed, Carrying, Logging, Written, PointerNames
    <2>. QED
      BY <2>1, <2>9, PlaceKept
  <1>. QED
    BY <1>6, <1>7, <1>8, <1>9, <1>10, <1>11, <1>12, <1>13, <1>14, <1>15, <1>16, <1>17
       DEF Acts, Step

\* Every step keeps the digests distinct.
LEMMA StepKeepsDigests ==
    ASSUME Types, Types', PlacesInv, DigestsInv, NEW p \in Procs, Lock(p) \/ Acts(p)
    PROVE  DigestsInv'
  <1>1. Log \in Seq(DeploymentRecord) /\ begun \in Nat
    BY LogIs DEF Types, RecordSeqs
  <1>2. \A i \in 1..Len(Log) : Log[i].digest \in Nat /\ Log[i].digest <= begun
    <2>1. \A i \in 1..Len(Log) : Log[i] \in DeploymentRecord
      BY <1>1
    <2>2. \A d \in DeploymentRecord : d.digest \in Nat
      BY DEF DeploymentRecord
    <2>. QED
      BY <2>1, <2>2 DEF DigestsInv
  <1>3. CASE AppendRecord(p)
    <2>1. pending # NoPending /\ pending' = pending /\ begun' = begun
      BY <1>3 DEF AppendRecord, PlacesInv, Placed, Carrying
    <2>2. pending.record \in DeploymentRecord /\ Log' = Append(Log, pending.record)
      BY <1>3, <2>1, LogMoves DEF Types, PendingDeployment
    <2>3. \A i \in 1..Len(Log') : Log'[i].digest <= begun
      <3>1. pending.record.digest <= begun
        BY <2>1 DEF DigestsInv
      <3>. QED
        BY <1>1, <1>2, <2>2, <3>1
    <2>. QED
      BY <2>1, <2>3 DEF DigestsInv
  <1>4. CASE ~AppendRecord(p)
    <2>1. Log' = Log
      BY <1>4, LogMoves
    <2>2. CASE begun' = begun /\ pending' \in {pending, NoPending}
      BY <2>1, <2>2 DEF DigestsInv
    <2>3. ASSUME NEW op \in Operations, NEW r \in Releases, Operate(p, op, r) PROVE DigestsInv'
      <3>1. begun' = begun + 1 /\ pending'.record.digest = begun + 1
        BY <2>3 DEF Operate
      <3>2. \A i \in 1..Len(Log) : Log[i].digest <= begun'
        BY <1>1, <1>2, <3>1
      <3>3. pending'.record.digest <= begun'
        BY <1>1, <3>1
      <3>. QED
        BY <2>1, <3>2, <3>3 DEF DigestsInv
    <2>4. CASE Lock(p) \/ Step(p) \/ Stop(p) \/ StopInAppend(p)
      BY <1>4, <2>2, <2>4
         DEF Lock, Step, Stop, StopInAppend, LoadPending, RepairLog, RefuseRecovery, Refuse,
             NothingPending, Verify, AppendNewline, WritePointer, RemovePending, OnlyRead,
             diskVars
    <2>. QED
      BY <2>3, <2>4 DEF Acts
  <1>. QED
    BY <1>3, <1>4

\* Before the first deployment there are no files.
LEMMA InitIInv == Init => IInv
  <1>. SUFFICES ASSUME Init PROVE IInv
    OBVIOUS
  <1>1. Log = <<>>
    BY AllRecordsEmpty DEF Init, Log, Lines
  <1>2. Types
    <2>1. lines \in Seq(Seq(Fragment)) /\ tail \in Seq(Fragment) /\ files \in AllPointers
      BY DEF Init, NoPointers, AllPointers
    <2>. QED
      BY <2>1, LabelNames DEF Init, Types
  <1>3. PlacesInv
    BY DEF Init, PlacesInv
  <1>4. DigestsInv
    BY <1>1 DEF Init, DigestsInv
  <1>. QED
    BY <1>2, <1>3, <1>4 DEF IInv

\* The inductive invariant is one.
LEMMA StepIInv == IInv /\ [Next]_vars => IInv'
  <1>. SUFFICES ASSUME IInv, [Next]_vars PROVE IInv'
    OBVIOUS
  <1>. USE DEF IInv
  <1>1. CASE Next
    <2>1. PICK p \in Procs : Lock(p) \/ Acts(p)
      BY <1>1, Zenon DEF Next, Acts
    <2>2. Types'
      BY <1>1, StepKeepsTypes
    <2>. QED
      BY <2>1, <2>2, StepKeepsPlaces, StepKeepsDigests
  <1>2. CASE UNCHANGED vars
    <2>1. /\ lines' = lines /\ tail' = tail /\ files' = files /\ pending' = pending /\ lock' = lock
          /\ pc' = pc /\ target' = target /\ resume' = resume /\ begun' = begun
          /\ stops' = stops /\ cut' = cut /\ refused' = refused
      BY <1>2 DEF vars, diskVars, procVars
    <2>2. Lines' = Lines /\ Log' = Log
      BY <2>1 DEF Lines, Log
    <2>3. Types'
      BY <2>1 DEF Types
    <2>4. PlacesInv'
      BY <2>1, <2>2 DEF PlacesInv, Placed, LogEndsInPending, Parses
    <2>5. DigestsInv'
      BY <2>1, <2>2 DEF DigestsInv
    <2>. QED
      BY <2>3, <2>4, <2>5
  <1>. QED
    BY <1>1, <1>2

\* The inductive invariant holds in every behaviour.
LEMMA Invariance == Spec => []IInv
  BY InitIInv, StepIInv, PTL DEF Spec

\* The files, the log and the control state of the processes have their types.
THEOREM TypeCorrect == Spec => []Types
  BY Invariance, PTL DEF IInv

-----------------------------------------------------------------------------
(* The journal implements deployments that happen at once *)

\* The deployments are the same operations in both specifications.
LEMMA SameOperations ==
    /\ Abstract!Operations = Operations /\ Abstract!NoPointers = NoPointers
    /\ \A op, r, ptrs :
           /\ Abstract!Allowed(op, r, ptrs) = Allowed(op, r, ptrs)
           /\ Abstract!NextPointers(op, r, ptrs) = NextPointers(op, r, ptrs)
           /\ Abstract!Deployment(op, r, ptrs) = Deployment(op, r, ptrs)
  <1>1. Abstract!Operations = Operations /\ Abstract!NoPointers = NoPointers
    BY DEF Abstract!Operations, Operations, Abstract!NoPointers, NoPointers,
           Abstract!PointerNames, PointerNames
  <1>2. ASSUME NEW op, NEW r, NEW ptrs
        PROVE  /\ Abstract!Allowed(op, r, ptrs) = Allowed(op, r, ptrs)
               /\ Abstract!NextPointers(op, r, ptrs) = NextPointers(op, r, ptrs)
               /\ Abstract!Deployment(op, r, ptrs) = Deployment(op, r, ptrs)
    BY DEF Abstract!Allowed, Allowed, Abstract!Restored, Restored, Abstract!NextPointers,
           NextPointers, Abstract!NoCandidate, NoCandidate, Abstract!Deployment, Deployment
  <1>. QED
    BY <1>1, <1>2

\* The deployments that have happened, as a sequence of records.
LEMMA EffectiveIs ==
    ASSUME Types
    PROVE  /\ EffectiveRecords = IF pending # NoPending /\ ~LogEndsInPending
                                 THEN Append(Log, pending.record) ELSE Log
           /\ EffectiveRecords \in Seq(DeploymentRecord)
  <1>1. EffectiveRecords = IF pending # NoPending /\ ~LogEndsInPending
                           THEN Append(Log, pending.record) ELSE Log
    BY DEF EffectiveRecords, LogEndsInPending, Log
  <1>2. Log \in Seq(DeploymentRecord)
    BY LogIs DEF RecordSeqs
  <1>3. pending # NoPending => pending.record \in DeploymentRecord
    BY DEF Types, PendingDeployment
  <1>. QED
    BY <1>1, <1>2, <1>3

\* The same after a step.
LEMMA EffectiveIsNext ==
    EffectiveRecords' = IF pending' # NoPending /\ ~LogEndsInPending'
                        THEN Append(Log', pending'.record) ELSE Log'
  BY DEF EffectiveRecords, LogEndsInPending, Log

\* One more record is one more entry of the history.
LEMMA HistoryGrows ==
    ASSUME NEW s \in Seq(DeploymentRecord), NEW d \in DeploymentRecord
    PROVE  [i \in 1..Len(Append(s, d)) |-> Logged(Append(s, d)[i])]
              = Append([i \in 1..Len(s) |-> Logged(s[i])], Logged(d))
  <1>. DEFINE L == [i \in 1..Len(s) |-> Logged(s[i])]
              R == [i \in 1..Len(Append(s, d)) |-> Logged(Append(s, d)[i])]
              W == {Logged(e) : e \in DeploymentRecord}
  <1>1. Len(s) \in Nat /\ Len(Append(s, d)) = Len(s) + 1 /\ Append(s, d)[Len(s) + 1] = d
        /\ \A i \in 1..Len(s) : Append(s, d)[i] = s[i] /\ s[i] \in DeploymentRecord
    OBVIOUS
  <1>2. L \in Seq(W) /\ Logged(d) \in W /\ Len(L) = Len(s)
    BY <1>1
  <1>3. R \in Seq(W) /\ Len(R) = Len(s) + 1
    BY <1>1
  <1>4. \A i \in 1..Len(s) : R[i] = L[i]
    BY <1>1
  <1>5. R[Len(s) + 1] = Logged(d)
    BY <1>1
  <1>. HIDE DEF L, R, W
  <1>6. Append(L, Logged(d)) \in Seq(W) /\ Len(Append(L, Logged(d))) = Len(s) + 1
        /\ \A i \in 1..(Len(s) + 1) : Append(L, Logged(d))[i] = R[i]
    BY <1>1, <1>2, <1>4, <1>5
  <1>7. R = Append(L, Logged(d))
    BY <1>1, <1>3, <1>6
  <1>. QED
    BY <1>7 DEF L, R

\* A deployment happens when its pending file is written; every other step
\* changes neither the deployments that have happened nor the pointers.
LEMMA StepDeploys ==
    ASSUME IInv, IInv', NEW p \in Procs, Lock(p) \/ Acts(p)
    PROVE  Abstract!Next \/ UNCHANGED Abstract!vars
  <1>. USE DEF IInv
  <1>1. /\ EffectiveRecords = IF pending # NoPending /\ ~LogEndsInPending
                              THEN Append(Log, pending.record) ELSE Log
        /\ EffectiveRecords' = IF pending' # NoPending /\ ~LogEndsInPending'
                               THEN Append(Log', pending'.record) ELSE Log'
        /\ EffectiveRecords \in Seq(DeploymentRecord)
    BY EffectiveIs, EffectiveIsNext
  <1>2. ASSUME EffectiveRecords' = EffectiveRecords, Pointers' = Pointers
        PROVE  UNCHANGED Abstract!vars
    BY <1>2 DEF Abstract!vars, History
  <1>3. pc[p] # "idle" => Placed(p)
    BY DEF PlacesInv
  <1>4. pc'[p] # "idle" => Placed(p)'
    BY DEF PlacesInv
  <1>5. CASE AppendRecord(p)
    <2>1. /\ pending' = pending /\ pending # NoPending /\ files' = files /\ ~LogEndsInPending
          /\ pc'[p] = "newline"
      BY <1>3, <1>5 DEF AppendRecord, Placed, Carrying, Goto, Types
    <2>2. LogEndsInPending'
      BY <1>4, <2>1 DEF Placed, Logging
    <2>3. Log' = Append(Log, pending.record)
      BY <1>5, LogMoves
    <2>. QED
      BY <1>1, <1>2, <2>1, <2>2, <2>3 DEF Pointers
  <1>6. CASE RemovePending(p)
    <2>1. /\ pending # NoPending /\ pending' = NoPending /\ files' = files /\ LogEndsInPending
          /\ \A n \in PointerNames : files[n] = pending.pointers[n]
      BY <1>3, <1>6 DEF RemovePending, Placed, Carrying, Logging, Written, PointerNames
    <2>2. files \in AllPointers /\ pending.pointers \in AllPointers
      BY <2>1 DEF Types, PendingDeployment, AllPointers
    <2>3. files = pending.pointers
      BY <2>1, <2>2 DEF AllPointers
    <2>4. Log' = Log
      BY <1>6, LogMoves DEF RemovePending, AppendRecord
    <2>. QED
      BY <1>1, <1>2, <2>1, <2>3, <2>4 DEF Pointers
  <1>7. ASSUME Log' = Log, pending' = pending, pending = NoPending => files' = files
        PROVE  UNCHANGED Abstract!vars
    <2>1. LogEndsInPending' = LogEndsInPending
      BY <1>7 DEF LogEndsInPending, Last
    <2>. QED
      BY <1>1, <1>2, <1>7, <2>1 DEF Pointers
  <1>8. ASSUME NEW op \in Operations, NEW r \in Releases, Operate(p, op, r) PROVE Abstract!Next
    <2>1. /\ pc[p] = "operate" /\ pending = NoPending /\ Allowed(op, r, files)
          /\ pending' = NextPending(op, r) /\ pc'[p] = "append"
      BY <1>3, <1>8 DEF Operate, NextPending, Placed, Goto, Types
    <2>2. NextPending(op, r) \in PendingDeployment
      BY <1>3, <2>1, NextPendingType
    <2>3. PICK d \in DeploymentRecord : d = NextPending(op, r).record
      BY <2>2 DEF PendingDeployment
    <2>4. pending' # NoPending /\ ~LogEndsInPending'
      BY <1>4, <2>1, <2>2, NoPendingAssumption DEF Placed
    <2>5. Log' = Log
      BY <1>8, LogMoves DEF Operate, AppendRecord
    <2>6. EffectiveRecords' = Append(EffectiveRecords, d)
      BY <1>1, <2>1, <2>3, <2>4, <2>5
    <2>7. Logged(d) = Deployment(op, r, files)
      <3>1. Deployment(op, r, files) \in
                 [phase: {"preview", "canary", "promoted", "rolled_back"}, release: Releases,
                  previous: Releases \cup {NoRelease}]
        BY <2>1, OperationTypes DEF Types
      <3>. QED
        BY <2>3, <3>1 DEF Logged, NextPending
    <2>8. History' = Append(History, Deployment(op, r, files))
      <3>1. PICK s \in Seq(DeploymentRecord) : s = EffectiveRecords
        BY <1>1
      <3>2. History = [i \in 1..Len(s) |-> Logged(s[i])]
        BY <3>1 DEF History
      <3>3. History' = [i \in 1..Len(Append(s, d)) |-> Logged(Append(s, d)[i])]
        BY <2>6, <3>1 DEF History
      <3>. QED
        BY <2>7, <3>2, <3>3, HistoryGrows
    <2>9. Pointers = files /\ Pointers' = NextPointers(op, r, files)
      BY <2>1, <2>4 DEF Pointers, NextPending
    <2>10. Abstract!Deploy(op, r)
      BY <2>1, <2>8, <2>9, SameOperations DEF Abstract!Deploy
    <2>. QED
      BY <2>10, SameOperations DEF Abstract!Next
  <1>9. CASE LoadPending(p) \/ RepairLog(p) \/ RefuseRecovery(p) \/ NothingPending(p)
    BY <1>7, <1>9, LogMoves
       DEF LoadPending, RepairLog, RefuseRecovery, Refuse, NothingPending, AppendRecord, diskVars
  <1>10. CASE Verify(p) \/ AppendNewline(p) \/ OnlyRead(p)
    BY <1>7, <1>10, LogMoves DEF Verify, Refuse, AppendNewline, OnlyRead, AppendRecord, diskVars
  <1>11. CASE WritePointer(p)
    <2>1. pending' = pending /\ pending # NoPending
      BY <1>3, <1>11 DEF WritePointer, Placed, Carrying, PointerNames
    <2>2. Log' = Log
      BY <1>11, LogMoves DEF WritePointer, AppendRecord, PointerNames
    <2>. QED
      BY <1>7, <2>1, <2>2
  <1>12. CASE Lock(p)
    BY <1>7, <1>12, LogMoves DEF Lock, AppendRecord, diskVars
  <1>13. CASE Stop(p) \/ StopInAppend(p)
    <2>1. pc'[p] = "idle" /\ pending' = pending /\ files' = files
      BY <1>13 DEF Stop, StopInAppend, Leave, Types, diskVars
    <2>2. ~AppendRecord(p)
      BY <2>1 DEF AppendRecord, Goto, Types
    <2>. QED
      BY <1>7, <2>1, <2>2, LogMoves
  <1>. QED
    BY <1>5, <1>6, <1>8, <1>9, <1>10, <1>11, <1>12, <1>13 DEF Acts, Step

\* However many processes, releases and deployments there are and wherever a
\* process stops: every behaviour of the journal is one of deployments that
\* happen at once.
THEOREM Refinement == Spec => DeploymentsAreAtomic
  <1>1. Init => Abstract!Init
    <2>. SUFFICES ASSUME Init PROVE Abstract!Init
      OBVIOUS
    <2>1. EffectiveRecords = <<>>
      BY AllRecordsEmpty DEF Init, EffectiveRecords, Lines
    <2>2. History = <<>> /\ Pointers = NoPointers
      BY <2>1 DEF Init, History, Pointers
    <2>. QED
      BY <2>2, SameOperations DEF Abstract!Init
  <1>2. IInv /\ IInv' /\ [Next]_vars => [Abstract!Next]_Abstract!vars
    <2>. SUFFICES ASSUME IInv, IInv', [Next]_vars PROVE Abstract!Next \/ UNCHANGED Abstract!vars
      OBVIOUS
    <2>1. CASE Next
      <3>1. PICK p \in Procs : Lock(p) \/ Acts(p)
        BY <2>1, Zenon DEF Next, Acts
      <3>. QED
        BY <3>1, StepDeploys
    <2>2. CASE UNCHANGED vars
      BY <2>2 DEF vars, diskVars, procVars, Abstract!vars, History, EffectiveRecords, Pointers,
                  Lines
    <2>. QED
      BY <2>1, <2>2
  <1>. QED
    BY <1>1, <1>2, Invariance, PTL DEF Spec, Abstract!Spec, DeploymentsAreAtomic

\* So whatever is deployed, cancelled and rolled back, whatever stops and whoever
\* completes a deployment: what is or was stable was promoted, and promoted only
\* after its own preview.
THEOREM StableIsVetted == Spec => []StableWasVetted
  <1>1. AbstractInv => StableWasVetted
    BY DEF AbstractInv, StableWasVetted, Abstract!StableWasVetted
  <1>. QED
    BY <1>1, Refinement, AbstractInvariance, PTL DEF DeploymentsAreAtomic

\* There is never a second candidate: a canary is also the preview.
THEOREM CandidateIsUnique == Spec => []Abstract!OneCandidate
  BY Refinement, AbstractInvariance, PTL DEF DeploymentsAreAtomic, AbstractInv

-----------------------------------------------------------------------------
(* Only a lost newline makes an operation return an integrity error *)

\* The record of the pending deployment is in the log, with its newline, and
\* nobody is about to append it.
Done ==
    /\ tail = <<>> /\ lines # <<>>
    /\ Last(RecordsOf(lines)) = pending.record
    /\ pending.pointers = ExpectedPointers(RecordsOf(lines))
    /\ \A p \in Procs : pc[p] \notin {"append", "newline"}

\* The record of the pending deployment is the next one of the log: nothing of it
\* is there, or its beginning, or, before its newline is written, all of it.
Fresh ==
    /\ Extends(RecordsOf(lines))
    /\ pending.pointers = Replay(pending.record, ExpectedPointers(RecordsOf(lines)))
    /\ \/ tail = <<>> /\ \A p \in Procs : pc[p] # "newline"
       \/ tail = <<Torn(pending.record)>> /\ \A p \in Procs : pc[p] \notin {"append", "newline"}
       \/ tail = <<Whole(pending.record)>> /\ \E p \in Procs : pc[p] = "newline"
    /\ \A p \in Procs : pc[p] \notin PointerNames \cup {"remove"}

\* As long as no process has stopped between a record and its newline, the log is
\* sound up to what its last line is being written, and it explains the pointers.
JournalInv ==
    ~cut =>
      /\ ~refused
      /\ Verifies(lines)
      /\ pending = NoPending => tail = <<>> /\ files = ExpectedPointers(RecordsOf(lines))
      /\ pending # NoPending => Done \/ Fresh

\* The digest before a place of the log.
LEMMA LastDigestBefore ==
    ASSUME NEW s \in RecordSeqs, NEW i \in 1..(Len(s) + 1)
    PROVE  LastDigest(SubSeq(s, 1, i - 1)) = IF i = 1 THEN 0 ELSE s[i - 1].digest
  <1>1. s \in Seq(DeploymentRecord) /\ Len(s) \in Nat /\ i - 1 \in 0..Len(s)
    BY DEF RecordSeqs
  <1>2. CASE i = 1
    <2>1. SubSeq(s, 1, i - 1) = <<>>
      BY <1>1, <1>2
    <2>. QED
      BY <1>2, <2>1 DEF LastDigest
  <1>3. CASE i # 1
    <2>1. PICK b : b = SubSeq(s, 1, i - 1)
      OBVIOUS
    <2>2. b # <<>> /\ Len(b) = i - 1 /\ b[i - 1] = s[i - 1]
      BY <1>1, <1>3, <2>1
    <2>. QED
      BY <1>3, <2>1, <2>2 DEF LastDigest, Last
  <1>. QED
    BY <1>2, <1>3

\* A sound log is sound after the next record too, and one record longer.
LEMMA NextRecordFits ==
    ASSUME NEW c \in Seq(Seq(Fragment)), Verifies(c), NEW d \in DeploymentRecord,
           d.sequence = Len(RecordsOf(c)) + 1, d.previousDigest = LastDigest(RecordsOf(c))
    PROVE  /\ Verifies(Append(c, <<Whole(d)>>))
           /\ RecordsOf(Append(c, <<Whole(d)>>)) = Append(RecordsOf(c), d)
  <1>1. PICK line : line = <<Whole(d)>>
    OBVIOUS
  <1>2. line \in Seq(Fragment) /\ Len(line) = 1 /\ line[1].whole /\ line[1].record = d
    BY <1>1 DEF Whole, Fragment
  <1>3. PICK n \in Nat : n = Len(c)
    OBVIOUS
  <1>4. PICK e : e = Append(c, line)
    OBVIOUS
  <1>5. /\ e \in Seq(Seq(Fragment)) /\ Len(e) = n + 1 /\ e[n + 1] = line
        /\ \A i \in 1..n : e[i] = c[i]
    BY <1>2, <1>3, <1>4
  <1>6. Parses(c) /\ Parses(e)
    <2>1. Parses(c)
      BY DEF Verifies
    <2>2. \A i \in 1..n : Len(e[i]) = 1 /\ e[i][1].whole
      BY <1>3, <1>5, <2>1 DEF Parses
    <2>3. Len(e[n + 1]) = 1 /\ e[n + 1][1].whole
      BY <1>2, <1>5
    <2>4. \A i \in 1..Len(e) : i \in 1..n \/ i = n + 1
      BY <1>5
    <2>. QED
      BY <2>1, <2>2, <2>3, <2>4 DEF Parses
  <1>7. PICK s : s = RecordsOf(c)
    OBVIOUS
  <1>8. PICK t : t = RecordsOf(e)
    OBVIOUS
  <1>9. s \in RecordSeqs /\ Len(s) = n /\ \A i \in 1..n : s[i] = c[i][1].record
    BY <1>3, <1>6, <1>7, RecordsOfType
  <1>10. t \in RecordSeqs /\ Len(t) = n + 1 /\ \A i \in 1..(n + 1) : t[i] = e[i][1].record
    BY <1>5, <1>6, <1>8, RecordsOfType
  <1>11. t[n + 1] = d /\ \A i \in 1..n : t[i] = s[i]
    <2>1. n + 1 \in 1..(n + 1) /\ \A i \in 1..n : i \in 1..(n + 1)
      OBVIOUS
    <2>2. t[n + 1] = d
      BY <1>2, <1>5, <1>10, <2>1, Zenon
    <2>3. \A i \in 1..n : t[i] = s[i]
      BY <1>5, <1>9, <1>10, <2>1, Zenon
    <2>. QED
      BY <2>2, <2>3
  <1>12. t = Append(s, d)
    <2>1. s \in Seq(DeploymentRecord) /\ t \in Seq(DeploymentRecord)
      BY <1>9, <1>10 DEF RecordSeqs
    <2>2. /\ Append(s, d) \in Seq(DeploymentRecord) /\ Len(Append(s, d)) = n + 1
          /\ \A i \in 1..(n + 1) : Append(s, d)[i] = t[i]
      BY <1>9, <1>11, <2>1
    <2>. QED
      BY <1>10, <2>1, <2>2
  <1>13. \A i \in 1..n : s[i].sequence = i /\ s[i].previousDigest = LastDigest(SubSeq(s, 1, i - 1))
    BY <1>3, <1>7 DEF Verifies
  <1>14. ASSUME NEW i \in 1..(n + 1)
         PROVE  t[i].sequence = i /\ t[i].previousDigest = LastDigest(SubSeq(t, 1, i - 1))
    <2>1. LastDigest(SubSeq(t, 1, i - 1)) = IF i = 1 THEN 0 ELSE t[i - 1].digest
      <3>1. i \in 1..(Len(t) + 1) /\ t \in RecordSeqs
        BY <1>10
      <3>. QED
        BY <3>1, LastDigestBefore
    <2>2. LastDigest(SubSeq(s, 1, i - 1)) = IF i = 1 THEN 0 ELSE s[i - 1].digest
      BY <1>9, LastDigestBefore
    <2>3. i = 1 \/ (i - 1 \in 1..n /\ t[i - 1] = s[i - 1])
      BY <1>11
    <2>4. LastDigest(SubSeq(t, 1, i - 1)) = LastDigest(SubSeq(s, 1, i - 1))
      BY <2>1, <2>2, <2>3
    <2>5. CASE i \in 1..n
      BY <1>11, <1>13, <2>4, <2>5
    <2>6. CASE i = n + 1
      <3>1. SubSeq(s, 1, i - 1) = s
        BY <1>9, <2>6 DEF RecordSeqs
      <3>. QED
        BY <1>7, <1>9, <1>11, <2>4, <2>6, <3>1
    <2>. QED
      BY <2>5, <2>6
  <1>15. Verifies(e)
    BY <1>5, <1>6, <1>8, <1>14 DEF Verifies
  <1>. QED
    BY <1>1, <1>4, <1>7, <1>8, <1>12, <1>15

\* A log that ends in a torn record does not parse.
LEMMA TornDoesNotParse ==
    ASSUME NEW c \in Seq(Seq(Fragment)), NEW d \in DeploymentRecord
    PROVE  <<Torn(d)>> # <<>> /\ ~Verifies(Append(c, <<Torn(d)>>))
  <1>1. PICK line : line = <<Torn(d)>>
    OBVIOUS
  <1>2. line \in Seq(Fragment) /\ line # <<>> /\ ~line[1].whole
    BY <1>1 DEF Torn, Fragment
  <1>3. /\ Append(c, line)[Len(c) + 1] = line /\ Len(c) + 1 \in 1..Len(Append(c, line))
    BY <1>2
  <1>. QED
    BY <1>1, <1>2, <1>3 DEF Verifies, Parses

\* Replaying the record of an allowed operation has the operation's effect.
LEMMA ReplayIsNext ==
    ASSUME NEW op \in Operations, NEW r \in Releases, NEW ptrs \in AllPointers,
           Allowed(op, r, ptrs),
           ptrs["stable"] = NoRelease => ptrs["previous-stable"] = NoRelease
    PROVE  Replay(Deployment(op, r, ptrs), ptrs) = NextPointers(op, r, ptrs)
  <1>3. "stable" \in PointerNames /\ "previous-stable" \in PointerNames
        /\ "preview" \in PointerNames /\ "canary" \in PointerNames
    BY DEF PointerNames
  <1>4. CASE op = "set_preview" \/ op = "start_canary"
    BY <1>4 DEF Replay, Deployment, NextPointers
  <1>5. CASE op = "promote"
    BY <1>3, <1>5 DEF Replay, Deployment, NextPointers, NoCandidate, AllPointers
  <1>6. CASE op = "cancel_canary"
    BY <1>3, <1>6 DEF Replay, Deployment, NextPointers, NoCandidate, AllPointers
  <1>7. CASE op = "rollback"
    BY <1>7 DEF Replay, Deployment, NextPointers
  <1>. QED
    BY <1>4, <1>5, <1>6, <1>7 DEF Operations

\* Every step keeps the journal in order, unless it loses a newline.
LEMMA StepKeepsJournal ==
    ASSUME IInv, IInv', PreviousNeedsStable, JournalInv, NEW p \in Procs, Lock(p) \/ Acts(p)
    PROVE  JournalInv'
  <1>. SUFFICES ASSUME ~cut'
                PROVE  /\ ~refused' /\ Verifies(lines')
                       /\ pending' = NoPending =>
                              tail' = <<>> /\ files' = ExpectedPointers(RecordsOf(lines'))
                       /\ pending' # NoPending => Done' \/ Fresh'
    BY DEF JournalInv
  <1>1. /\ Types /\ Types' /\ PlacesInv /\ PlacesInv' /\ lines \in Seq(Seq(Fragment))
        /\ pending \in PendingDeployment \cup {NoPending} /\ pc \in [Procs -> Labels]
    BY DEF IInv, Types
  <1>2. ~cut
    BY DEF Acts, Step, Lock, LoadPending, RepairLog, RefuseRecovery, Refuse, NothingPending, Verify,
           AppendRecord, AppendNewline, WritePointer, RemovePending, OnlyRead, Stop, StopInAppend,
           Operate
  <1>3. /\ ~refused /\ Verifies(lines)
        /\ pending = NoPending => tail = <<>> /\ files = ExpectedPointers(RecordsOf(lines))
        /\ pending # NoPending => Done \/ Fresh
    BY <1>2 DEF JournalInv
  <1>4. pc[p] # "idle" => Placed(p)
    BY <1>1 DEF PlacesInv
  <1>5. \A q \in Procs : q # p => pc[q] = "idle" /\ pc'[q] = "idle"
    <2>1. pc[p] # "idle" \/ lock = NoProc
      BY DEF Acts, Step, Lock, LoadPending, RepairLog, RefuseRecovery, NothingPending, Verify,
             AppendRecord, AppendNewline, WritePointer, RemovePending, OnlyRead, Stop,
             StopInAppend, Operate, PointerNames
    <2>2. \A q \in Procs : q # p => pc[q] = "idle"
      BY <1>1, <2>1, NoProcAssumption DEF PlacesInv, Placed
    <2>3. PICK l : Goto(p, l)
      BY DEF Acts, Step, Lock, LoadPending, RepairLog, RefuseRecovery, Refuse, NothingPending,
             Verify, AppendRecord, AppendNewline, WritePointer, RemovePending, OnlyRead, Stop,
             StopInAppend, Operate, Leave, Goto
    <2>. QED
      BY <1>1, <2>2, <2>3 DEF Goto
  <1>6. /\ Len(RecordsOf(lines)) = Len(lines) /\ Len(lines) \in Nat
        /\ RecordsOf(lines) \in RecordSeqs
        /\ lines = <<>> => RecordsOf(lines) = <<>>
        /\ lines # <<>> => RecordsOf(lines) # <<>> /\ Last(RecordsOf(lines)).sequence = Len(lines)
    <2>1. Parses(lines)
      BY <1>3 DEF Verifies
    <2>2. RecordsOf(lines) \in RecordSeqs
      BY <1>1, <2>1, RecordsOfType
    <2>3. Len(lines) \in Nat
      BY <1>1
    <2>. QED
      BY <1>1, <1>3, <2>2, <2>3, SoundLogEnds
  <1>7. pending # NoPending => pending.record \in DeploymentRecord
    BY <1>1 DEF PendingDeployment
  <1>8. tail = <<>> => Lines = lines /\ Records = RecordsOf(lines)
    BY DEF Lines, Records
  \* In front of a recovery, the record is in the log, or nothing of it, or its beginning.
  <1>9. ASSUME pc[p] = "recover", pending # NoPending
        PROVE  \/ /\ Done /\ Verifies(Lines) /\ Appended /\ Last(Records) = pending.record
               \/ /\ Fresh /\ tail = <<>> /\ Verifies(Lines) /\ ~Appended /\ Extends(Records)
               \/ /\ Fresh /\ tail = <<Torn(pending.record)>> /\ ~Verifies(Lines)
                  /\ IsInterruptedAppend
    <2>1. CASE Done
      BY <1>3, <1>6, <1>8, <2>1 DEF Done, Appended
    <2>2. CASE Fresh /\ tail = <<>>
      BY <1>3, <1>6, <1>8, <2>2 DEF Fresh, Appended, Extends
    <2>3. CASE Fresh /\ tail = <<Torn(pending.record)>>
      <3>1. Lines = Append(lines, <<Torn(pending.record)>>) /\ ~Verifies(Lines)
        BY <1>1, <1>7, <1>9, <2>3, TornDoesNotParse DEF Lines
      <3>. QED
        BY <1>3, <2>3, <3>1 DEF Fresh, IsInterruptedAppend
    <2>4. CASE Fresh /\ tail = <<Whole(pending.record)>> /\ \E q \in Procs : pc[q] = "newline"
      BY <1>5, <1>9, <2>4
    <2>. QED
      BY <1>3, <1>9, <2>1, <2>2, <2>3, <2>4 DEF Fresh
  <1>10. CASE Lock(p)
    <2>1. /\ pc[p] = "idle" /\ pc'[p] = "recover" /\ lines' = lines /\ tail' = tail
          /\ files' = files /\ pending' = pending /\ refused' = refused
      BY <1>1, <1>10 DEF Lock, Goto, diskVars
    <2>2. Done => Done'
      BY <1>5, <2>1 DEF Done
    <2>3. Fresh => Fresh'
      BY <1>5, <2>1 DEF Fresh, Extends, PointerNames
    <2>. QED
      BY <1>3, <2>1, <2>2, <2>3
  <1>11. CASE LoadPending(p)
    <2>1. /\ pc[p] = "recover" /\ pending # NoPending /\ Verifies(Lines)
          /\ lines' = lines /\ tail' = tail
          /\ files' = files /\ pending' = pending /\ refused' = refused
      BY <1>11 DEF LoadPending, diskVars
    <2>2. CASE Done /\ Appended
      <3>1. pc'[p] = "previous-stable"
        BY <1>1, <1>11, <2>2 DEF LoadPending, Goto
      <3>. QED
        BY <1>3, <1>5, <2>1, <2>2, <3>1 DEF Done
    <2>3. CASE Fresh /\ tail = <<>> /\ ~Appended
      <3>1. pc'[p] = "append"
        BY <1>1, <1>11, <2>3 DEF LoadPending, Goto
      <3>2. Fresh'
        BY <1>5, <2>1, <2>3, <3>1 DEF Fresh, Extends, PointerNames
      <3>. QED
        BY <1>3, <2>1, <3>2
    <2>. QED
      BY <1>9, <2>1, <2>2, <2>3
  <1>12. CASE RepairLog(p)
    <2>1. /\ pc[p] = "recover" /\ pending # NoPending /\ ~Verifies(Lines)
          /\ lines' = lines /\ tail' = <<>> /\ pc'[p] = "append"
          /\ files' = files /\ pending' = pending /\ refused' = refused
      BY <1>1, <1>12 DEF RepairLog, Goto
    <2>2. Fresh
      BY <1>9, <2>1
    <2>3. Fresh'
      BY <1>5, <2>1, <2>2 DEF Fresh, Extends, PointerNames
    <2>. QED
      BY <1>3, <2>1, <2>3
  <1>13. CASE RefuseRecovery(p)
    BY <1>9, <1>13 DEF RefuseRecovery
  <1>14. CASE NothingPending(p)
    BY <1>3, <1>14 DEF NothingPending, diskVars
  <1>15. CASE Verify(p)
    <2>1. pending = NoPending
      BY <1>4, <1>15 DEF Verify, Placed
    <2>2. Verifies(Lines) /\ PointersMatchRecords(Records)
      BY <1>3, <1>8, <2>1 DEF PointersMatchRecords
    <2>3. /\ lines' = lines /\ tail' = tail /\ files' = files /\ pending' = pending
          /\ refused' = refused
      BY <1>15, <2>2 DEF Verify, diskVars
    <2>. QED
      BY <1>3, <2>1, <2>3
  <1>16. CASE OnlyRead(p)
    <2>1. pending = NoPending
      BY <1>4, <1>16 DEF OnlyRead, Placed
    <2>. QED
      BY <1>3, <1>16, <2>1 DEF OnlyRead, diskVars
  <1>17. CASE AppendRecord(p)
    <2>1. /\ pc[p] = "append" /\ pending # NoPending /\ pending' = pending /\ pc'[p] = "newline"
          /\ tail' = Append(tail, Whole(pending.record)) /\ lines' = lines /\ refused' = refused
      BY <1>1, <1>4, <1>17 DEF AppendRecord, Placed, Carrying, Goto
    <2>2. Fresh /\ tail = <<>>
      BY <1>3, <1>5, <2>1 DEF Done, Fresh
    <2>3. tail' = <<Whole(pending.record)>>
      BY <2>1, <2>2
    <2>4. Fresh'
      BY <1>5, <2>1, <2>2, <2>3 DEF Fresh, Extends, PointerNames
    <2>. QED
      BY <1>3, <2>1, <2>4
  <1>18. CASE AppendNewline(p)
    <2>1. /\ pc[p] = "newline" /\ pending # NoPending /\ pending' = pending
          /\ pc'[p] = "previous-stable" /\ lines' = Append(lines, tail) /\ tail' = <<>>
          /\ refused' = refused
      BY <1>1, <1>4, <1>18 DEF AppendNewline, Placed, Carrying, Goto
    <2>2. Fresh /\ tail = <<Whole(pending.record)>>
      BY <1>3, <2>1 DEF Done, Fresh
    <2>3. Verifies(lines') /\ RecordsOf(lines') = Append(RecordsOf(lines), pending.record)
      BY <1>1, <1>3, <1>7, <2>1, <2>2, NextRecordFits DEF Fresh, Extends
    <2>4. PICK s \in Seq(DeploymentRecord), d \in DeploymentRecord :
              s = RecordsOf(lines) /\ d = pending.record
      BY <1>6, <1>7, <2>1 DEF RecordSeqs
    <2>5. ExpectedPointers(Append(s, d)) = Replay(d, ExpectedPointers(s))
      BY ExpectedAppend
    <2>6. pending'.pointers = ExpectedPointers(RecordsOf(lines'))
      BY <2>1, <2>2, <2>3, <2>4, <2>5 DEF Fresh
    <2>7. Last(RecordsOf(lines')) = pending.record /\ lines' # <<>>
      <3>1. Last(Append(s, d)) = d
        BY DEF Last
      <3>2. tail \in Seq(Fragment)
        BY <1>1 DEF Types
      <3>. QED
        BY <1>1, <2>1, <2>3, <2>4, <3>1, <3>2
    <2>8. Done'
      BY <1>5, <2>1, <2>6, <2>7 DEF Done
    <2>. QED
      BY <1>3, <2>1, <2>3, <2>8
  <1>19. CASE WritePointer(p)
    <2>1. /\ pc[p] \in PointerNames /\ pending # NoPending /\ pending' = pending
          /\ pc'[p] \in {"stable", "preview", "canary", "remove"}
          /\ lines' = lines /\ tail' = tail /\ refused' = refused
      BY <1>1, <1>4, <1>19 DEF WritePointer, Placed, Carrying, Goto, After, PointerNames
    <2>2. Done
      BY <1>3, <2>1 DEF Fresh
    <2>3. Done'
      BY <1>5, <2>1, <2>2 DEF Done
    <2>. QED
      BY <1>3, <2>1, <2>3
  <1>20. CASE RemovePending(p)
    <2>1. /\ pc[p] = "remove" /\ pending # NoPending /\ pending' = NoPending
          /\ lines' = lines /\ tail' = tail /\ files' = files /\ refused' = refused
          /\ \A n \in PointerNames : files[n] = pending.pointers[n]
      BY <1>4, <1>20 DEF RemovePending, Placed, Carrying, Written
    <2>2. files \in AllPointers /\ pending.pointers \in AllPointers
      BY <1>1, <2>1 DEF Types, PendingDeployment, AllPointers
    <2>3. files = pending.pointers
      BY <2>1, <2>2 DEF AllPointers
    <2>4. Done
      BY <1>3, <2>1 DEF Fresh
    <2>. QED
      BY <1>3, <2>1, <2>3, <2>4 DEF Done
  <1>21. CASE Stop(p)
    <2>1. /\ pc[p] # "newline" /\ pc'[p] = "idle" /\ lines' = lines /\ tail' = tail
          /\ files' = files /\ pending' = pending /\ refused' = refused
      BY <1>1, <1>21 DEF Stop, Leave, diskVars
    <2>2. Done => Done'
      BY <1>5, <2>1 DEF Done
    <2>3. ASSUME Fresh PROVE Fresh'
      <3>1. \A q \in Procs : pc[q] # "newline" /\ pc'[q] = "idle"
        BY <1>5, <2>1
      <3>. QED
        BY <2>1, <2>3, <3>1 DEF Fresh, Extends, PointerNames
    <2>. QED
      BY <1>3, <2>1, <2>2, <2>3
  <1>22. CASE StopInAppend(p)
    <2>1. /\ pc[p] = "append" /\ pending # NoPending /\ pending' = pending /\ pc'[p] = "idle"
          /\ tail' = Append(tail, Torn(pending.record)) /\ lines' = lines /\ refused' = refused
      BY <1>1, <1>4, <1>22 DEF StopInAppend, Placed, Carrying, Leave
    <2>2. Fresh /\ tail = <<>>
      BY <1>3, <1>5, <2>1 DEF Done, Fresh
    <2>3. tail' = <<Torn(pending.record)>>
      BY <2>1, <2>2
    <2>4. Fresh'
      BY <1>5, <2>1, <2>2, <2>3 DEF Fresh, Extends, PointerNames
    <2>. QED
      BY <1>3, <2>1, <2>4
  <1>23. ASSUME NEW op \in Operations, NEW r \in Releases, Operate(p, op, r)
         PROVE  /\ ~refused' /\ Verifies(lines') /\ pending' # NoPending /\ Fresh'
    <2>1. /\ pc[p] = "operate" /\ pending = NoPending /\ Allowed(op, r, files)
          /\ pending' = NextPending(op, r) /\ pc'[p] = "append"
          /\ lines' = lines /\ tail' = tail /\ refused' = refused
      BY <1>1, <1>4, <1>23 DEF Operate, NextPending, Placed, Goto
    <2>2. pending' # NoPending
      BY <1>1, <1>4, <2>1, NextPendingType, NoPendingAssumption
    <2>3. tail = <<>> /\ files = ExpectedPointers(RecordsOf(lines))
      BY <1>3, <2>1
    <2>4. Extends(RecordsOf(lines))'
      BY <1>6, <1>8, <2>1, <2>3 DEF Extends, NextPending
    <2>5. files \in AllPointers /\ Pointers = files
      BY <1>1, <2>1 DEF Types, Pointers
    <2>6. Replay(Deployment(op, r, files), files) = NextPointers(op, r, files)
      BY <2>1, <2>5, ReplayIsNext DEF PreviousNeedsStable
    <2>7. Replay(pending'.record, files) = Replay(Deployment(op, r, files), files)
      BY <2>1 DEF Replay, NextPending
    <2>8. pending'.pointers = Replay(pending'.record, ExpectedPointers(RecordsOf(lines')))
      BY <2>1, <2>3, <2>6, <2>7 DEF NextPending
    <2>9. Fresh'
      BY <1>5, <2>1, <2>3, <2>4, <2>8 DEF Fresh, PointerNames
    <2>. QED
      BY <1>3, <2>1, <2>2, <2>9
  <1>. QED
    BY <1>10, <1>11, <1>12, <1>13, <1>14, <1>15, <1>16, <1>17, <1>18, <1>19, <1>20, <1>21, <1>22,
       <1>23 DEF Acts, Step

\* For any number of processes, deployments and stops: until a process stops between
\* a record and its newline, the log is sound up to the record being written, and
\* it explains the pointers.
THEOREM JournalInOrder == Spec => []JournalInv
  <1>1. Init => JournalInv
    <2>. SUFFICES ASSUME Init PROVE JournalInv
      OBVIOUS
    <2>1. lines = <<>> /\ RecordsOf(lines) = <<>> /\ Verifies(lines)
      BY DEF Init, RecordsOf, Verifies, Parses
    <2>. QED
      BY <2>1, ExpectedEmpty DEF Init, JournalInv
  <1>2. IInv /\ IInv' /\ AbstractInv /\ JournalInv /\ [Next]_vars => JournalInv'
    <2>. SUFFICES ASSUME IInv, IInv', AbstractInv, JournalInv, [Next]_vars PROVE JournalInv'
      OBVIOUS
    <2>1. CASE Next
      <3>1. PICK p \in Procs : Lock(p) \/ Acts(p)
        BY <2>1, Zenon DEF Next, Acts
      <3>. QED
        BY <3>1, StepKeepsJournal DEF AbstractInv
    <2>2. CASE UNCHANGED vars
      BY <2>2 DEF vars, diskVars, procVars, JournalInv, Done, Fresh, Extends
    <2>. QED
      BY <2>1, <2>2
  <1>. QED
    BY <1>1, <1>2, Invariance, Refinement, AbstractInvariance, PTL
       DEF Spec, DeploymentsAreAtomic

\* So an operation returns an integrity error only after a process has stopped
\* between a record and its newline.
THEOREM OnlyNewlineIsLost == Spec => []OnlyLostNewlineRefused
  <1>1. IInv /\ JournalInv => OnlyLostNewlineRefused
    BY DEF IInv, Types, JournalInv, OnlyLostNewlineRefused
  <1>. QED
    BY <1>1, Invariance, JournalInOrder, PTL

=============================================================================
