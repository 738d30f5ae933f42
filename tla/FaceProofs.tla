----------------------------- MODULE FaceProofs -----------------------------
(***************************************************************************)
(* What is proved of faces: marks and votes, the liveness tracker,         *)
(* enrolment, the removal of a person, and the models in memory.  Each     *)
(* part has an inductive invariant, kept by each of its actions.           *)
(***************************************************************************)
EXTENDS MCFaces, FiniteSetTheorems, SequenceTheorems, WellFoundedInduction, TLAPS


-----------------------------------------------------------------------------
LEMMA Smaller ==
    ASSUME NEW a \in Int, NEW b \in Int
    PROVE  Min({a, b}) = IF a <= b THEN a ELSE b
<1>1. \E x \in {a, b} : \A y \in {a, b} : x <= y
  BY a <= b \/ b <= a
<1>2. Min({a, b}) \in {a, b} /\ \A y \in {a, b} : Min({a, b}) <= y
  BY <1>1 DEF Min
<1>. QED BY <1>2

LEMMA VotesAndTimes == VotesNeeded \in Nat /\ MaxVotes \in Nat /\ Times \in SUBSET Nat
<1>1. VotesNeeded \in 1..MaxVotes /\ MaxVotes \in Nat /\ MaxTime \in Nat
  BY PipelineAssumption
<1>. QED BY <1>1 DEF Times

LEMMA Least ==
    ASSUME NEW T \in SUBSET Nat, T # {}
    PROVE  \E x \in T : \A y \in T : x <= y
<1>. DEFINE Less == {ss \in Nat \X Nat : ss[1] < ss[2]}
<1>1. IsWellFoundedOn(Less, Nat)
  BY NatLessThanWellFounded DEF OpToRel
<1>2. \E x \in T : \A y \in T : ~ (<<y, x>> \in Less)
  <2>. HIDE DEF Less
  <2>. QED BY <1>1, WFMin, Zenon
<1>3. PICK x \in T : \A y \in T : ~ (<<y, x>> \in Less)
  BY <1>2
<1>4. ASSUME NEW y \in T PROVE x <= y
  <2>1. <<y, x>> \notin Less
    BY <1>3
  <2>. QED BY <2>1
<1>. QED BY <1>4

LEMMA LeastIsMin ==
    ASSUME NEW T \in SUBSET Nat, T # {}
    PROVE  Min(T) \in T /\ \A y \in T : Min(T) <= y
BY Least DEF Min

-----------------------------------------------------------------------------
(* Votes. *)
Sorted(v) == \A j, k \in 1..Len(v) : j <= k => v[j] <= v[k]
VotesUpTo(v, now) == \A k \in 1..Len(v) : v[k] <= now
Blocks(v, g) ==
    \A j, k \in 1..Len(v) : j <= k /\ v[j] = v[k] =>
        k - j + 1 <= g[v[k]] \/ g[v[k]] = VotesNeeded

Suffix(u, v, off) ==
    /\ off \in 0..Len(v) /\ Len(u) = Len(v) - off
    /\ \A k \in 1..Len(u) : u[k] = v[k + off]

LEMMA SuffixKeeps ==
    ASSUME NEW v \in Seq(Times), NEW u \in Seq(Times), NEW off \in Nat, NEW g,
           Suffix(u, v, off), Sorted(v), Blocks(v, g)
    PROVE  Sorted(u) /\ Blocks(u, g)
<1>1. \A k \in 1..Len(u) : k + off \in 1..Len(v) /\ u[k] = v[k + off]
  BY DEF Suffix
<1>2. Sorted(u)
  <2>. SUFFICES ASSUME NEW j \in 1..Len(u), NEW k \in 1..Len(u), j <= k
                PROVE  u[j] <= u[k]
    BY DEF Sorted
  <2>. QED BY <1>1, j + off <= k + off DEF Sorted
<1>3. Blocks(u, g)
  <2>. SUFFICES ASSUME NEW j \in 1..Len(u), NEW k \in 1..Len(u), j <= k, u[j] = u[k]
                PROVE  k - j + 1 <= g[u[k]] \/ g[u[k]] = VotesNeeded
    BY DEF Blocks
  <2>1. j + off \in 1..Len(v) /\ k + off \in 1..Len(v) /\ u[j] = v[j + off] /\ u[k] = v[k + off]
    BY <1>1
  <2>2. (k + off) - (j + off) + 1 <= g[v[k + off]] \/ g[v[k + off]] = VotesNeeded
    BY <2>1, j + off <= k + off DEF Blocks
  <2>3. (k + off) - (j + off) + 1 = k - j + 1
    OBVIOUS
  <2>. QED BY <2>1, <2>2, <2>3
<1>. QED BY <1>2, <1>3

LEMMA SuffixIs ==
    ASSUME NEW v \in Seq(Times), NEW m \in 1..Len(v) + 1
    PROVE  /\ SubSeq(v, m, Len(v)) \in Seq(Times)
           /\ Suffix(SubSeq(v, m, Len(v)), v, m - 1)
BY SubSeqProperties DEF Suffix

LEMMA VoteKeeps ==
    ASSUME NEW v \in Seq(Times), NEW now \in Times, NEW n \in Nat, NEW g \in [Times -> 0..VotesNeeded],
           Sorted(v), VotesUpTo(v, now), Blocks(v, g)
    PROVE  LET u == Vote(v, now, n)
               h == [g EXCEPT ![now] = Min({VotesNeeded, g[now] + n})]
           IN  /\ u \in Seq(Times) /\ h \in [Times -> 0..VotesNeeded]
               /\ Sorted(u) /\ VotesUpTo(u, now) /\ Blocks(u, h)
<1>. DEFINE a == v \o [i \in 1..n |-> now]
            m == Len(a) - Min({MaxVotes, Len(a)}) + 1
            u == SubSeq(a, m, Len(a))
            h == [g EXCEPT ![now] = Min({VotesNeeded, g[now] + n})]
<1>. VotesNeeded \in Nat /\ MaxVotes \in Nat /\ Times \in SUBSET Nat
  BY VotesAndTimes
<1>1. /\ a \in Seq(Times) /\ Len(a) = Len(v) + n
      /\ \A k \in 1..Len(a) : a[k] = IF k <= Len(v) THEN v[k] ELSE now
  <2>1. [i \in 1..n |-> now] \in Seq(Times) /\ Len([i \in 1..n |-> now]) = n
    OBVIOUS
  <2>. QED BY <2>1, ConcatProperties
<1>2. h \in [Times -> 0..VotesNeeded] /\ h[now] = Min({VotesNeeded, g[now] + n})
      /\ \A i \in Times : i # now => h[i] = g[i]
  BY Smaller, g[now] \in 0..VotesNeeded
<1>3. h[now] = VotesNeeded \/ h[now] = g[now] + n
  BY <1>2, Smaller, g[now] \in 0..VotesNeeded
<1>. HIDE DEF a, h
<1>4. Sorted(a) /\ VotesUpTo(a, now)
  <2>1. \A k \in 1..Len(a) : a[k] <= now /\ (k \in 1..Len(v) => a[k] = v[k]) /\ (k > Len(v) => a[k] = now)
    BY <1>1 DEF VotesUpTo
  <2>. QED BY <2>1, <1>1 DEF Sorted, VotesUpTo
<1>5. Blocks(a, h)
  <2>. SUFFICES ASSUME NEW j \in 1..Len(a), NEW k \in 1..Len(a), j <= k, a[j] = a[k]
                PROVE  k - j + 1 <= h[a[k]] \/ h[a[k]] = VotesNeeded
    BY DEF Blocks
  <2>1. CASE a[k] # now
    <3>1. j \in 1..Len(v) /\ k \in 1..Len(v) /\ a[j] = v[j] /\ a[k] = v[k]
      BY <1>1, <2>1
    <3>2. k - j + 1 <= g[v[k]] \/ g[v[k]] = VotesNeeded
      BY <3>1 DEF Blocks
    <3>0. v[k] \in Times
      BY <3>1
    <3>3. h[a[k]] = g[v[k]]
      BY <1>2, <3>0, <3>1, <2>1
    <3>. QED BY <3>2, <3>3
  <2>2. CASE a[k] = now /\ j > Len(v)
    <3>1. k - j + 1 <= n
      BY <1>1, <2>2
    <3>. QED BY <3>1, <1>3, <2>2, g[now] \in 0..VotesNeeded
  <2>3. CASE a[k] = now /\ j <= Len(v)
    <3>1. j \in 1..Len(v) /\ Len(v) \in 1..Len(v) /\ v[j] = now
      BY <2>3, <1>1
    <3>2. v[Len(v)] = now
      <4>1. v[j] <= v[Len(v)] /\ v[Len(v)] <= now
        BY <3>1 DEF Sorted, VotesUpTo
      <4>. QED BY <4>1, <3>1
    <3>3. Len(v) - j + 1 <= g[now] \/ g[now] = VotesNeeded
      BY <3>1, <3>2 DEF Blocks
    <3>4. k - j + 1 <= Len(v) - j + 1 + n
      BY <1>1
    <3>5. g[now] = VotesNeeded => h[now] = VotesNeeded
      BY <1>2, Smaller
    <3>. QED BY <3>3, <3>4, <3>5, <1>3, <2>3, g[now] \in 0..VotesNeeded
  <2>. QED BY <2>1, <2>2, <2>3
<1>6. m \in 1..Len(a) + 1
  <2>1. MaxVotes \in Int /\ Len(a) \in Int /\ Len(a) >= 0
    BY <1>1
  <2>2. Min({MaxVotes, Len(a)}) \in {MaxVotes, Len(a)} /\ Min({MaxVotes, Len(a)}) <= Len(a)
    BY <2>1, Smaller
  <2>. QED BY <2>1, <2>2
<1>. HIDE DEF m
<1>7. u \in Seq(Times) /\ Suffix(u, a, m - 1)
  BY <1>1, <1>6, SuffixIs
<1>8. Sorted(u) /\ Blocks(u, h)
  <2>1. u \in Seq(Times) /\ a \in Seq(Times) /\ m - 1 \in Nat
    BY <1>7, <1>6, <1>1
  <2>. HIDE DEF u
  <2>. QED BY <2>1, <1>7, <1>4, <1>5, SuffixKeeps
<1>9. VotesUpTo(u, now)
  BY <1>7, <1>4, <1>6, <1>1 DEF VotesUpTo, Suffix
<1>. QED BY <1>2, <1>7, <1>8, <1>9 DEF a, m, h, Vote

LEMMA PoppedKeeps ==
    ASSUME NEW v \in Seq(Times), NEW cutoff \in Int, NEW g, NEW now, Sorted(v), VotesUpTo(v, now), Blocks(v, g)
    PROVE  LET u == Popped(v, cutoff)
           IN  /\ u \in Seq(Times) /\ Sorted(u) /\ VotesUpTo(u, now) /\ Blocks(u, g)
               /\ \A k \in 1..Len(u) : u[k] >= cutoff
<1>. DEFINE T == {k \in DOMAIN v : v[k] >= cutoff} \cup {Len(v) + 1}
            m == Min(T)
            u == SubSeq(v, m, Len(v))
<1>0. Times \in SUBSET Nat
  BY DEF Times
<1>1. m \in T /\ \A y \in T : m <= y
  <2>1. T \in SUBSET Nat /\ T # {}
    OBVIOUS
  <2>. HIDE DEF T
  <2>. QED BY <2>1, LeastIsMin
<1>2. m \in 1..Len(v) + 1
  BY <1>1
<1>. HIDE DEF m
<1>3. u \in Seq(Times) /\ Suffix(u, v, m - 1)
  BY <1>2, SuffixIs
<1>4. Sorted(u) /\ Blocks(u, g)
  <2>1. u \in Seq(Times) /\ m - 1 \in Nat
    BY <1>3, <1>2
  <2>. HIDE DEF u
  <2>. QED BY <2>1, <1>3, SuffixKeeps
<1>5. VotesUpTo(u, now)
  BY <1>3, <1>2 DEF VotesUpTo, Suffix
<1>6. ASSUME NEW k \in 1..Len(u) PROVE u[k] >= cutoff
  <2>. HIDE DEF u
  <2>1. u[k] = v[k + (m - 1)] /\ k + (m - 1) \in m..Len(v)
    BY <1>3, <1>2 DEF Suffix
  <2>2. m \in 1..Len(v) /\ v[m] >= cutoff
    BY <2>1, <1>1, <1>2
  <2>3. k + (m - 1) \in 1..Len(v) /\ m <= k + (m - 1)
    BY <2>1, <2>2
  <2>4. v[m] <= v[k + (m - 1)]
    BY <2>2, <2>3 DEF Sorted
  <2>5. v[m] \in Times /\ v[k + (m - 1)] \in Times
    BY <2>2, <2>3
  <2>6. v[m] \in Int /\ v[k + (m - 1)] \in Int
    BY <2>5, PipelineAssumption DEF Times
  <2>. QED BY <2>1, <2>2, <2>4, <2>6
<1>. QED BY <1>3, <1>4, <1>5, <1>6 DEF m, Popped

-----------------------------------------------------------------------------
(* Counting in a window. *)
Within(from, length) == {j \in Times : from <= j /\ j <= from + length}
PairsIn(h, from, length) == UNION {{i} \X (1..h[i]) : i \in Within(from, length)}

LEMMA PairsAre ==
    ASSUME NEW h \in [Times -> Nat], NEW from, NEW length
    PROVE  \A x : x \in PairsIn(h, from, length) <=>
               \E i \in Within(from, length), k \in Nat : 1 <= k /\ k <= h[i] /\ x = <<i, k>>
<1>1. ASSUME NEW x \in PairsIn(h, from, length)
      PROVE  \E i \in Within(from, length), k \in Nat : 1 <= k /\ k <= h[i] /\ x = <<i, k>>
  <2>1. PICK i \in Within(from, length) : x \in {i} \X (1..h[i])
    BY DEF PairsIn
  <2>2. PICK k \in 1..h[i] : x = <<i, k>>
    BY <2>1
  <2>3. h[i] \in Nat
    BY DEF Within
  <2>. QED BY <2>2, <2>3
<1>2. ASSUME NEW i \in Within(from, length), NEW k \in Nat, 1 <= k, k <= h[i]
      PROVE  <<i, k>> \in PairsIn(h, from, length)
  <2>1. h[i] \in Nat
    BY DEF Within
  <2>2. k \in 1..h[i]
    BY <2>1, <1>2
  <2>3. <<i, k>> \in {i} \X (1..h[i])
    BY <2>2
  <2>. QED BY <2>3 DEF PairsIn
<1>. QED BY <1>1, <1>2

LEMMA PairsAreFinite ==
    ASSUME NEW h \in [Times -> 0..VotesNeeded], NEW from, NEW length
    PROVE  IsFiniteSet(PairsIn(h, from, length))
<1>. VotesNeeded \in Nat /\ MaxTime \in Nat
  BY PipelineAssumption
<1>1. IsFiniteSet(Times \X (1..VotesNeeded))
  <2>1. IsFiniteSet(Times) /\ IsFiniteSet(1..VotesNeeded)
    BY FS_Interval DEF Times
  <2>. QED BY <2>1, FS_Product
<1>2. h \in [Times -> Nat]
  BY 0..VotesNeeded \in SUBSET Nat
<1>3. PairsIn(h, from, length) \in SUBSET (Times \X (1..VotesNeeded))
  <2>1. ASSUME NEW x \in PairsIn(h, from, length) PROVE x \in Times \X (1..VotesNeeded)
    <3>1. PICK i \in Within(from, length), k \in Nat : 1 <= k /\ k <= h[i] /\ x = <<i, k>>
      BY <1>2, PairsAre
    <3>2. i \in Times /\ h[i] \in 0..VotesNeeded
      BY DEF Within
    <3>. QED BY <3>1, <3>2
  <2>. QED BY <2>1
<1>. QED BY <1>1, <1>3, FS_Subset

LEMMA EnoughVotes ==
    ASSUME NEW v \in Seq(Times), NEW g \in [Times -> 0..VotesNeeded], NEW from, NEW length,
           Blocks(v, g), Len(v) >= VotesNeeded,
           \A k \in 1..Len(v) : v[k] \in Within(from, length)
    PROVE  VotesNeeded <= InWindow(g, from, length)
<1>. DEFINE S == PairsIn(g, from, length)
<1>0. VotesNeeded \in Nat /\ MaxTime \in Nat /\ g \in [Times -> Nat] /\ Times \in SUBSET Nat
  BY PipelineAssumption, 0..VotesNeeded \in SUBSET Nat DEF Times
<1>1. InWindow(g, from, length) = Cardinality(S)
  BY DEF InWindow, PairsIn, Within
<1>2. IsFiniteSet(S) /\ Cardinality(S) \in Nat
  BY PairsAreFinite, FS_CardinalityType
<1>3. \A i \in Within(from, length), k \in Nat : 1 <= k /\ k <= g[i] => <<i, k>> \in S
  BY <1>0, PairsAre
<1>. HIDE DEF S
<1>4. CASE \E k \in 1..Len(v) : g[v[k]] = VotesNeeded
  <2>1. PICK i \in Within(from, length) : g[i] = VotesNeeded
    BY <1>4
  <2>2. DEFINE f == [k \in 1..VotesNeeded |-> <<i, k>>]
  <2>3. f \in [1..VotesNeeded -> S]
    BY <2>1, <1>3, <1>0
  <2>4. f \in Injection(1..VotesNeeded, S)
    <3>1. IsInjective(f)
      BY DEF IsInjective
    <3>. QED BY <2>3, <3>1 DEF Injection
  <2>5. Cardinality(1..VotesNeeded) = VotesNeeded
    BY FS_Interval, <1>0
  <2>. HIDE DEF f
  <2>. QED BY <2>4, <2>5, <1>1, <1>2, FS_Injection
<1>5. CASE \A k \in 1..Len(v) : g[v[k]] # VotesNeeded
  <2>. DEFINE Of(i) == {j \in 1..Len(v) : v[j] = i}
              First(i) == Min(Of(i))
              f == [k \in 1..Len(v) |-> <<v[k], k - First(v[k]) + 1>>]
  <2>1. \A k \in 1..Len(v) : First(v[k]) \in 1..k /\ v[First(v[k])] = v[k]
    <3>. SUFFICES ASSUME NEW k \in 1..Len(v)
                  PROVE  First(v[k]) \in 1..k /\ v[First(v[k])] = v[k]
      OBVIOUS
    <3>1. Of(v[k]) \in SUBSET Nat /\ k \in Of(v[k])
      OBVIOUS
    <3>2. Min(Of(v[k])) \in Of(v[k]) /\ Min(Of(v[k])) <= k
      <4>. HIDE DEF Of
      <4>. QED BY <3>1, LeastIsMin
    <3>. QED BY <3>2
  <2>. HIDE DEF First
  <2>2. ASSUME NEW k \in 1..Len(v) PROVE f[k] \in S
    <3>1. First(v[k]) \in 1..Len(v) /\ First(v[k]) <= k /\ k - First(v[k]) + 1 \in Nat /\ 1 <= k - First(v[k]) + 1
      BY <2>1
    <3>2. k - First(v[k]) + 1 <= g[v[k]]
      BY <3>1, <2>1, <1>5 DEF Blocks
    <3>. QED BY <3>1, <3>2, <1>3
  <2>3. IsInjective(f)
    <3>. SUFFICES ASSUME NEW j \in 1..Len(v), NEW k \in 1..Len(v), f[j] = f[k]
                  PROVE  j = k
      BY DEF IsInjective
    <3>1. v[j] = v[k] /\ j - First(v[j]) + 1 = k - First(v[k]) + 1
      OBVIOUS
    <3>2. First(v[j]) \in Int /\ First(v[j]) = First(v[k])
      BY <3>1, <2>1
    <3>. QED BY <3>1, <3>2
  <2>4. f \in Injection(1..Len(v), S)
    BY <2>2, <2>3 DEF Injection
  <2>5. Cardinality(1..Len(v)) = Len(v)
    BY FS_Interval, Len(v) \in Nat
  <2>. HIDE DEF f
  <2>. QED BY <2>4, <2>5, <1>0, <1>1, <1>2, FS_Injection
<1>. QED BY <1>4, <1>5

LEMMA OneMore ==
    ASSUME NEW h \in [Times -> Nat], NEW from \in Times, NEW now \in Times, NEW length \in Nat,
           IsFiniteSet(PairsIn(h, from, length))
    PROVE  LET g == [h EXCEPT ![now] = h[now] + 1]
           IN  /\ IsFiniteSet(PairsIn(g, from, length))
               /\ InWindow(g, from, length) =
                     InWindow(h, from, length) + (IF now \in Within(from, length) THEN 1 ELSE 0)
<1>. DEFINE g == [h EXCEPT ![now] = h[now] + 1]
            S == PairsIn(h, from, length)
            T == PairsIn(g, from, length)
            new == <<now, h[now] + 1>>
<1>1. /\ InWindow(g, from, length) = Cardinality(T)
      /\ InWindow(h, from, length) = Cardinality(S)
  BY DEF InWindow, PairsIn, Within
<1>2. g \in [Times -> Nat] /\ g[now] = h[now] + 1 /\ h[now] \in Nat /\ \A i \in Times : i # now => g[i] = h[i]
  OBVIOUS
<1>3. /\ \A x : x \in S <=> \E i \in Within(from, length), k \in Nat : 1 <= k /\ k <= h[i] /\ x = <<i, k>>
      /\ \A x : x \in T <=> \E i \in Within(from, length), k \in Nat : 1 <= k /\ k <= g[i] /\ x = <<i, k>>
  <2>. HIDE DEF g
  <2>. QED BY <1>2, PairsAre
<1>. HIDE DEF S, T, g
<1>4. CASE now \in Within(from, length)
  <2>1. T = S \cup {new}
    <3>1. ASSUME NEW x \in T PROVE x \in S \cup {new}
      <4>1. PICK i \in Within(from, length), k \in Nat : 1 <= k /\ k <= g[i] /\ x = <<i, k>>
        BY <1>3
      <4>2. CASE i = now /\ k = h[now] + 1
        BY <4>1, <4>2
      <4>3. CASE ~ (i = now /\ k = h[now] + 1)
        <5>1. i \in Times /\ h[i] \in Nat
          BY DEF Within
        <5>2. k <= h[i]
          BY <4>1, <4>3, <1>2, <5>1
        <5>. QED BY <4>1, <5>2, <1>3
      <4>. QED BY <4>2, <4>3
    <3>2. ASSUME NEW x \in S PROVE x \in T
      <4>1. PICK i \in Within(from, length), k \in Nat : 1 <= k /\ k <= h[i] /\ x = <<i, k>>
        BY <1>3
      <4>2. i \in Times /\ h[i] \in Nat /\ k <= g[i]
        BY <1>2, <4>1 DEF Within
      <4>. QED BY <4>1, <4>2, <1>3
    <3>3. new \in T
      BY <1>2, <1>3, <1>4
    <3>. QED BY <3>1, <3>2, <3>3
  <2>2. new \notin S
    <3>1. SUFFICES ASSUME new \in S PROVE FALSE
      OBVIOUS
    <3>2. PICK i \in Within(from, length), k \in Nat : 1 <= k /\ k <= h[i] /\ new = <<i, k>>
      BY <1>3, <3>1
    <3>. QED BY <3>2, <1>2
  <2>. HIDE DEF new
  <2>3. IsFiniteSet(S)
    BY DEF S
  <2>4. IsFiniteSet(T) /\ Cardinality(T) = Cardinality(S) + 1
    BY <2>1, <2>2, <2>3, FS_AddElement
  <2>. QED BY <2>4, <1>1, <1>4 DEF T, g
<1>5. CASE now \notin Within(from, length)
  <2>1. T = S
    <3>1. \A i \in Within(from, length) : i \in Times /\ i # now
      BY <1>5 DEF Within
    <3>2. \A i \in Within(from, length) : g[i] = h[i]
      BY <3>1, <1>2
    <3>3. \A x : x \in T <=> x \in S
      BY <1>3, <3>2
    <3>. QED BY <3>3
  <2>2. IsFiniteSet(S) /\ Cardinality(S) \in Nat
    BY FS_CardinalityType DEF S
  <2>. QED BY <2>1, <2>2, <1>1, <1>5 DEF T, g
<1>. QED BY <1>4, <1>5

-----------------------------------------------------------------------------
(* The pipeline. *)
Steps == {"idle", "prune", "face", "mark", "record"}
Frames == [step : Steps, now : Times, faces : SUBSET Face, face : Face \cup {<<>>}]
Buffers == [mode : {"none", "recognise"}, votes : [Persons -> Seq(Times)],
            recent : [Persons -> Times \cup {Never}]]

FTypeOK ==
    /\ time \in Times
    /\ worker \in [Workers -> Buffers]
    /\ frame \in [Threads -> Frames]
    /\ marks \in [Persons -> [Times -> Nat]]
    /\ glimpses \in [Workers -> [Persons -> [Times -> 0..VotesNeeded]]]
    /\ restarts \in Nat

\* What a process w remembers of p.
BufferInv(w, p) ==
    LET v == worker[w].votes[p]
    IN  /\ Sorted(v) /\ VotesUpTo(v, time) /\ Blocks(v, glimpses[w][p])
        /\ worker[w].recent[p] <= time

\* A frame in hand.
FrameInv(t) ==
    frame[t].step # "idle" =>
        /\ frame[t].now <= time
        /\ \A p \in Persons :
              /\ Buf(t).recent[p] <= frame[t].now
              /\ VotesUpTo(Buf(t).votes[p], frame[t].now)
              /\ frame[t].step # "prune" =>
                    \A k \in 1..Len(Buf(t).votes[p]) : Buf(t).votes[p][k] >= frame[t].now - Window
        /\ frame[t].step \in {"mark", "record"} => frame[t].face \in Face
        /\ frame[t].step = "mark" => CooledDown(t, Whom(t))

\* The processes that have marked p at from or later.
Fresh(p, from) ==
    {w \in Workers : \/ worker[w].recent[p] >= from
                     \/ \E t \in Threads : /\ WorkerOf[t] = w /\ At(t, "record")
                                           /\ Whom(t) = p /\ frame[t].now >= from}
Spaced(p, from) ==
    /\ IsFiniteSet(PairsIn(marks[p], from, Cooldown))
    /\ InWindow(marks[p], from, Cooldown) <= Cardinality(Fresh(p, from)) + restarts

FInv ==
    /\ FTypeOK
    /\ \A w \in Workers, p \in Persons : BufferInv(w, p)
    /\ \A t \in Threads : FrameInv(t)
    /\ \A p \in Persons, from \in Times : Spaced(p, from)

LEMMA TimesAre == Times \in SUBSET Nat /\ 0 \in Times
BY PipelineAssumption DEF Times

LEMMA TimeIs == \A i \in Times : i \in Nat /\ i \in Int
BY PipelineAssumption DEF Times

LEMMA FaceIs == \A f \in Face : f[1] \in Persons
BY DEF Face

LEMMA FInit == Init => FInv
<1>. SUFFICES ASSUME Init PROVE FInv
  OBVIOUS
<1>. 0 \in Times /\ VotesNeeded \in Nat /\ Cooldown \in Nat
  BY TimesAre, PipelineAssumption
<1>1. FTypeOK
  <2>1. EmptyBuffers \in Buffers
    BY DEF EmptyBuffers, Buffers
  <2>2. NoFrame \in Frames
    BY DEF NoFrame, Frames, Steps
  <2>3. NoGlimpses \in [Persons -> [Times -> 0..VotesNeeded]]
    BY DEF NoGlimpses
  <2>. QED BY <2>1, <2>2, <2>3 DEF Init, FTypeOK
<1>2. ASSUME NEW w \in Workers, NEW p \in Persons PROVE BufferInv(w, p)
  <2>1. worker[w].votes[p] = <<>> /\ worker[w].recent[p] = -1 /\ time = 0
    BY DEF Init, EmptyBuffers, Never
  <2>. QED BY <2>1 DEF BufferInv, Sorted, VotesUpTo, Blocks
<1>3. ASSUME NEW t \in Threads PROVE FrameInv(t)
  BY DEF Init, NoFrame, FrameInv
<1>4. ASSUME NEW p \in Persons, NEW from \in Times PROVE Spaced(p, from)
  <2>1. PairsIn(marks[p], from, Cooldown) = {}
    <3>1. marks[p] \in [Times -> Nat] /\ \A i \in Times : marks[p][i] = 0
      BY DEF Init
    <3>2. \A i \in Within(from, Cooldown) : marks[p][i] = 0
      BY <3>1 DEF Within
    <3>. QED BY <3>1, <3>2, PairsAre
  <2>2. InWindow(marks[p], from, Cooldown) = Cardinality(PairsIn(marks[p], from, Cooldown))
    BY DEF InWindow, PairsIn, Within
  <2>3. IsFiniteSet(Fresh(p, from)) /\ Cardinality(Fresh(p, from)) \in Nat
    <3>1. Fresh(p, from) \in SUBSET Workers
      BY DEF Fresh
    <3>. QED BY <3>1, PipelineAssumption, FS_Subset, FS_CardinalityType
  <2>4. restarts = 0
    BY DEF Init
  <2>. QED BY <2>1, <2>2, <2>3, <2>4, FS_EmptySet DEF Spaced
<1>. QED BY <1>1, <1>2, <1>3, <1>4 DEF FInv

LEMMA FreshIsFinite ==
    \A p, from : /\ IsFiniteSet(Fresh(p, from)) /\ Cardinality(Fresh(p, from)) \in Nat
                 /\ Cardinality(Fresh(p, from)) <= Cardinality(Workers)
<1>1. \A p, from : Fresh(p, from) \in SUBSET Workers
  BY DEF Fresh
<1>. QED BY <1>1, PipelineAssumption, FS_Subset, FS_CardinalityType

\* A step that forgets no process, and marks nobody.
LEMMA SpacedStays ==
    ASSUME NEW p, NEW from, Spaced(p, from), marks'[p] = marks[p], restarts' = restarts,
           Fresh(p, from) \in SUBSET Fresh(p, from)', restarts \in Nat
    PROVE  Spaced(p, from)'
<1>1. Cardinality(Fresh(p, from)) <= Cardinality(Fresh(p, from)')
  <2>1. PICK F : F = Fresh(p, from)'
    OBVIOUS
  <2>2. F \in SUBSET Workers
    BY <2>1 DEF Fresh
  <2>3. IsFiniteSet(F)
    BY <2>2, PipelineAssumption, FS_Subset
  <2>4. Cardinality(Fresh(p, from)) <= Cardinality(F)
    BY <2>1, <2>3, FS_Subset
  <2>. QED BY <2>1, <2>4
<1>2. Cardinality(Fresh(p, from)') \in Nat /\ Cardinality(Fresh(p, from)) \in Nat
  <2>1. PICK F : F = Fresh(p, from)'
    OBVIOUS
  <2>2. F \in SUBSET Workers
    BY <2>1 DEF Fresh
  <2>. QED BY <2>1, <2>2, PipelineAssumption, FS_Subset, FS_CardinalityType, FreshIsFinite
<1>3. InWindow(marks[p], from, Cooldown)' = InWindow(marks[p], from, Cooldown)
  BY DEF InWindow
<1>4. PairsIn(marks[p], from, Cooldown)' = PairsIn(marks[p], from, Cooldown)
  BY DEF PairsIn, Within
<1>5. InWindow(marks[p], from, Cooldown) \in Nat
  <2>1. InWindow(marks[p], from, Cooldown) = Cardinality(PairsIn(marks[p], from, Cooldown))
    BY DEF InWindow, PairsIn, Within
  <2>. QED BY <2>1, FS_CardinalityType DEF Spaced
<1>. QED BY <1>1, <1>2, <1>3, <1>4, <1>5 DEF Spaced

LEMMA FTick == FInv /\ Tick => FInv'
<1>. SUFFICES ASSUME FInv, Tick PROVE FInv'
  OBVIOUS
<1>. USE DEF Tick
<1>1. time' \in Times /\ time \in Nat /\ time' = time + 1
  BY TimesAre, PipelineAssumption DEF FInv, FTypeOK, Times
<1>2. FTypeOK'
  BY <1>1 DEF FInv, FTypeOK
<1>3. ASSUME NEW w \in Workers, NEW p \in Persons PROVE BufferInv(w, p)'
  <2>1. BufferInv(w, p) /\ worker[w].votes[p] \in Seq(Times) /\ worker[w].recent[p] \in Times \cup {Never}
    BY DEF FInv, FTypeOK, Buffers
  <2>2. worker[w].recent[p] <= time'
    BY <1>1, <2>1, PipelineAssumption DEF BufferInv, Never, Times
  <2>3. VotesUpTo(worker[w].votes[p], time')
    <3>1. \A k \in 1..Len(worker[w].votes[p]) : worker[w].votes[p][k] \in Nat
      <4>1. \A k \in 1..Len(worker[w].votes[p]) : worker[w].votes[p][k] \in Times
        BY <2>1
      <4>. QED BY <4>1, TimesAre
    <3>. QED BY <3>1, <2>1, <1>1 DEF BufferInv, VotesUpTo
  <2>. QED BY <2>1, <2>2, <2>3 DEF BufferInv, VotesUpTo, Sorted, Blocks
<1>4. ASSUME NEW t \in Threads PROVE FrameInv(t)'
  <2>1. FrameInv(t) /\ frame[t].now \in Nat
    BY TimesAre DEF FInv, FTypeOK, Frames
  <2>2. frame[t].now <= time => frame[t].now <= time'
    BY <2>1, <1>1
  <2>. QED BY <2>1, <2>2 DEF FrameInv, Buf, VotesUpTo, CooledDown, Whom
<1>5. ASSUME NEW p \in Persons, NEW from \in Times PROVE Spaced(p, from)'
  <2>1. Fresh(p, from)' = Fresh(p, from)
    BY DEF Fresh, At, Whom
  <2>. QED BY <2>1, SpacedStays DEF FInv, FTypeOK
<1>. QED BY <1>2, <1>3, <1>4, <1>5 DEF FInv

LEMMA FStutter == FInv /\ UNCHANGED vars => FInv'
<1>. SUFFICES ASSUME FInv, UNCHANGED vars PROVE FInv'
  OBVIOUS
<1>0. FTypeOK'
  BY DEF FInv, vars, FTypeOK
<1>1. \A w \in Workers, p \in Persons : BufferInv(w, p)'
  BY DEF FInv, vars, BufferInv
<1>3. \A t \in Threads : FrameInv(t)'
  BY DEF FInv, vars, FrameInv, Buf, CooledDown, Whom
<1>2. \A p \in Persons, from \in Times : Spaced(p, from)'
  BY DEF FInv, vars, Spaced, PairsIn, Within, InWindow, Fresh, At, Whom
<1>. QED BY <1>0, <1>1, <1>2, <1>3 DEF FInv

\* A step of thread t that changes at most its own frame and its own process.
Own(t) ==
    /\ time' = time
    /\ \A u \in Threads : u # t => frame'[u] = frame[u]
    /\ \A w \in Workers : w # WorkerOf[t] => worker'[w] = worker[w] /\ glimpses'[w] = glimpses[w]

LEMMA OwnStep ==
    ASSUME NEW t \in Threads, FInv, Own(t), FTypeOK',
           \A p \in Persons : BufferInv(WorkerOf[t], p)',
           FrameInv(t)',
           \A p \in Persons, from \in Times : Spaced(p, from)'
    PROVE  FInv'
<1>1. ASSUME NEW w \in Workers, NEW p \in Persons PROVE BufferInv(w, p)'
  <2>1. CASE w = WorkerOf[t]
    BY <2>1
  <2>2. CASE w # WorkerOf[t]
    <3>1. BufferInv(w, p) /\ worker'[w] = worker[w] /\ glimpses'[w] = glimpses[w] /\ time' = time
      BY <2>2 DEF FInv, Own
    <3>. QED BY <3>1 DEF BufferInv, Sorted, VotesUpTo, Blocks
  <2>. QED BY <2>1, <2>2
<1>2. ASSUME NEW u \in Threads PROVE FrameInv(u)'
  <2>1. CASE u = t
    BY <2>1
  <2>2. CASE u # t
    <3>1. WorkerOf[u] \in Workers /\ WorkerOf[u] # WorkerOf[t]
      BY <2>2, OneFrameAtATime, PipelineAssumption
    <3>2. FrameInv(u) /\ worker'[WorkerOf[u]] = worker[WorkerOf[u]] /\ frame'[u] = frame[u] /\ time' = time
      BY <3>1, <2>2 DEF FInv, Own
    <3>. QED BY <3>2 DEF FrameInv, Buf, CooledDown, Whom, VotesUpTo
  <2>. QED BY <2>1, <2>2
<1>. QED BY <1>1, <1>2 DEF FInv

\* Fresh keeps what a step of t leaves alone.
LEMMA OwnFresh ==
    ASSUME NEW t \in Threads, NEW p \in Persons, NEW from \in Times, FInv, Own(t),
           WorkerOf[t] \in Fresh(p, from) => WorkerOf[t] \in Fresh(p, from)'
    PROVE  Fresh(p, from) \in SUBSET Fresh(p, from)'
<1>. SUFFICES ASSUME NEW w \in Fresh(p, from), w # WorkerOf[t] PROVE w \in Fresh(p, from)'
  OBVIOUS
<1>1. w \in Workers /\ worker'[w] = worker[w]
  BY DEF Fresh, Own
<1>2. CASE worker[w].recent[p] >= from
  BY <1>1, <1>2 DEF Fresh
<1>3. ASSUME NEW u \in Threads, WorkerOf[u] = w, At(u, "record"), Whom(u) = p, frame[u].now >= from
      PROVE  w \in Fresh(p, from)'
  <2>1. frame'[u] = frame[u]
    BY <1>3 DEF Own
  <2>. QED BY <1>1, <1>3, <2>1 DEF Fresh, At, Whom
<1>. QED BY <1>2, <1>3 DEF Fresh

LEMMA FPredict ==
    ASSUME FInv, NEW t \in Threads, NEW camera, NEW crowd \in SUBSET Face, Predict(t, camera, crowd)
    PROVE  FInv'
<1>. DEFINE w == WorkerOf[t]
            count == [p \in Persons |-> Cardinality({f \in crowd : f[1] = p})]
<1>0. w \in Workers /\ FTypeOK /\ VotesNeeded \in Nat /\ Window \in Nat /\ time \in Times /\ time \in Nat
  BY PipelineAssumption, TimesAre DEF FInv, FTypeOK
<1>1. \A p \in Persons : count[p] \in Nat
  <2>1. IsFiniteSet(Face)
    <3>1. IsFiniteSet(Persons) /\ IsFiniteSet(1..MaxFaces)
      BY PipelineAssumption, FS_Interval
    <3>. QED BY <3>1, FS_Product DEF Face
  <2>. SUFFICES ASSUME NEW p \in Persons PROVE Cardinality({f \in crowd : f[1] = p}) \in Nat
    OBVIOUS
  <2>2. {f \in crowd : f[1] = p} \in SUBSET Face
    OBVIOUS
  <2>. QED BY <2>1, <2>2, FS_Subset, FS_CardinalityType
<1>. HIDE DEF count
<1>2. /\ time' = time /\ marks' = marks /\ restarts' = restarts
      /\ frame' = [frame EXCEPT ![t] = [step |-> "prune", now |-> time, faces |-> crowd, face |-> <<>>]]
      /\ worker'[w].mode = worker[w].mode /\ worker'[w].recent = worker[w].recent
      /\ \A p \in Persons : worker'[w].votes[p] = Vote(worker[w].votes[p], time, count[p])
      /\ \A x \in Workers : x # w => worker'[x] = worker[x] /\ glimpses'[x] = glimpses[x]
      /\ \A p \in Persons :
            glimpses'[w][p] = [glimpses[w][p] EXCEPT ![time] =
                                  Min({VotesNeeded, glimpses[w][p][time] + count[p]})]
  <2>1. worker[w].mode = worker[w].mode /\ worker \in [Workers -> Buffers] /\ glimpses \in [Workers -> [Persons -> [Times -> 0..VotesNeeded]]]
    BY <1>0 DEF FTypeOK
  <2>. QED BY <2>1, <1>0 DEF Predict, count, Buffers
<1>3. \A p \in Persons : /\ worker'[w].votes[p] \in Seq(Times)
                         /\ glimpses'[w][p] \in [Times -> 0..VotesNeeded]
                         /\ Sorted(worker'[w].votes[p]) /\ VotesUpTo(worker'[w].votes[p], time)
                         /\ Blocks(worker'[w].votes[p], glimpses'[w][p])
  <2>. SUFFICES ASSUME NEW p \in Persons
                PROVE  /\ worker'[w].votes[p] \in Seq(Times)
                       /\ glimpses'[w][p] \in [Times -> 0..VotesNeeded]
                       /\ Sorted(worker'[w].votes[p]) /\ VotesUpTo(worker'[w].votes[p], time)
                       /\ Blocks(worker'[w].votes[p], glimpses'[w][p])
    OBVIOUS
  <2>1. /\ worker[w].votes[p] \in Seq(Times) /\ glimpses[w][p] \in [Times -> 0..VotesNeeded]
        /\ Sorted(worker[w].votes[p]) /\ VotesUpTo(worker[w].votes[p], time)
        /\ Blocks(worker[w].votes[p], glimpses[w][p])
    BY <1>0 DEF FInv, FTypeOK, Buffers, BufferInv
  <2>2. count[p] \in Nat
    BY <1>1
  <2>3. PICK v, g, n : v = worker[w].votes[p] /\ g = glimpses[w][p] /\ n = time
    OBVIOUS
  <2>4. /\ Vote(v, n, count[p]) \in Seq(Times)
        /\ [g EXCEPT ![n] = Min({VotesNeeded, g[n] + count[p]})] \in [Times -> 0..VotesNeeded]
        /\ Sorted(Vote(v, n, count[p])) /\ VotesUpTo(Vote(v, n, count[p]), n)
        /\ Blocks(Vote(v, n, count[p]), [g EXCEPT ![n] = Min({VotesNeeded, g[n] + count[p]})])
    BY <2>1, <2>2, <2>3, <1>0, VoteKeeps
  <2>. QED BY <2>3, <2>4, <1>2
<1>4. FTypeOK'
  <2>1. worker' \in [Workers -> Buffers]
    <3>1. worker' = [worker EXCEPT ![w] = worker'[w]]
      BY <1>0 DEF Predict, FTypeOK
    <3>2. worker'[w] \in Buffers
      <4>1. worker'[w] = [mode |-> worker[w].mode, votes |-> worker'[w].votes, recent |-> worker[w].recent]
        BY <1>0 DEF Predict, FTypeOK, Buffers
      <4>2. worker'[w].votes = [p \in Persons |-> worker'[w].votes[p]]
        BY <1>0 DEF Predict, FTypeOK, Buffers
      <4>3. worker'[w].votes \in [Persons -> Seq(Times)]
        BY <4>2, <1>3
      <4>. QED BY <4>1, <4>3, <1>0 DEF FTypeOK, Buffers
    <3>. QED BY <3>1, <3>2, <1>0 DEF FTypeOK
  <2>2. glimpses' \in [Workers -> [Persons -> [Times -> 0..VotesNeeded]]]
    <3>1. glimpses' = [glimpses EXCEPT ![w] = glimpses'[w]]
      BY <1>0 DEF Predict, FTypeOK
    <3>2. glimpses'[w] = [p \in Persons |-> glimpses'[w][p]]
      BY <1>0 DEF Predict, FTypeOK
    <3>3. glimpses'[w] \in [Persons -> [Times -> 0..VotesNeeded]]
      BY <3>2, <1>3
    <3>. QED BY <3>1, <3>3, <1>0 DEF FTypeOK
  <2>3. frame' \in [Threads -> Frames]
    BY <1>0, <1>2 DEF FTypeOK, Frames, Steps
  <2>. QED BY <2>1, <2>2, <2>3, <1>0, <1>2 DEF FTypeOK
<1>5. ASSUME NEW p \in Persons PROVE BufferInv(w, p)'
  <2>1. worker'[w].recent[p] <= time'
    BY <1>2, <1>0 DEF FInv, BufferInv
  <2>2. VotesUpTo(worker'[w].votes[p], time')
    BY <1>2, <1>3
  <2>. QED BY <2>1, <2>2, <1>3 DEF BufferInv, Sorted, VotesUpTo, Blocks
<1>6. frame'[t].step = "prune" /\ frame'[t].now = time
  BY <1>2, <1>0 DEF FTypeOK
<1>7. FrameInv(t)'
  <2>1. \A p \in Persons : worker'[w].recent[p] <= time /\ VotesUpTo(worker'[w].votes[p], time)
    BY <1>2, <1>3, <1>0 DEF FInv, BufferInv
  <2>. QED BY <2>1, <1>6, <1>0, <1>2 DEF FrameInv, Buf, VotesUpTo
<1>8. Own(t)
  BY <1>2, <1>0 DEF Own, FTypeOK
<1>9. ASSUME NEW p \in Persons, NEW from \in Times PROVE Spaced(p, from)'
  <2>1. w \in Fresh(p, from) => w \in Fresh(p, from)'
    <3>1. frame[t].step = "idle"
      BY DEF Predict, At
    <3>2. w \in Fresh(p, from) => worker[w].recent[p] >= from
      BY <3>1, OneFrameAtATime DEF Fresh, At
    <3>. QED BY <3>2, <1>2, <1>0 DEF Fresh
  <2>2. Fresh(p, from) \in SUBSET Fresh(p, from)'
    BY <2>1, <1>8, OwnFresh
  <2>. QED BY <2>2, <1>2, <1>0, SpacedStays DEF FInv, FTypeOK
<1>. QED BY <1>4, <1>5, <1>7, <1>8, <1>9, OwnStep

LEMMA FPrune ==
    ASSUME FInv, NEW t \in Threads, Prune(t)
    PROVE  FInv'
<1>. DEFINE w == WorkerOf[t]
            cutoff == frame[t].now - Window
<1>0. /\ w \in Workers /\ FTypeOK /\ Window \in Nat /\ time \in Times /\ frame[t].now \in Times
      /\ frame[t].now \in Int /\ cutoff \in Int /\ frame[t].step = "prune" /\ FrameInv(t)
  <2>1. frame[t].now \in Times
    BY DEF FInv, FTypeOK, Frames
  <2>2. frame[t].now \in Int /\ Window \in Nat /\ cutoff \in Int
    BY <2>1, PipelineAssumption, TimeIs
  <2>. QED BY <2>1, <2>2, PipelineAssumption DEF FInv, FTypeOK, Prune, At
<1>. HIDE DEF cutoff
<1>2. /\ UNCHANGED <<time, marks, glimpses, restarts>>
      /\ frame' = [frame EXCEPT ![t].step = "face"]
      /\ worker'[w].mode = worker[w].mode /\ worker'[w].recent = worker[w].recent
      /\ \A p \in Persons : worker'[w].votes[p] = Popped(worker[w].votes[p], cutoff)
      /\ \A x \in Workers : x # w => worker'[x] = worker[x]
  BY <1>0 DEF Prune, FTypeOK, Buffers, cutoff
<1>3. \A p \in Persons : /\ worker'[w].votes[p] \in Seq(Times)
                         /\ Sorted(worker'[w].votes[p])
                         /\ VotesUpTo(worker'[w].votes[p], time) /\ VotesUpTo(worker'[w].votes[p], frame[t].now)
                         /\ Blocks(worker'[w].votes[p], glimpses[w][p])
                         /\ \A k \in 1..Len(worker'[w].votes[p]) : worker'[w].votes[p][k] >= cutoff
  <2>. SUFFICES ASSUME NEW p \in Persons
                PROVE  /\ worker'[w].votes[p] \in Seq(Times)
                       /\ Sorted(worker'[w].votes[p])
                       /\ VotesUpTo(worker'[w].votes[p], time) /\ VotesUpTo(worker'[w].votes[p], frame[t].now)
                       /\ Blocks(worker'[w].votes[p], glimpses[w][p])
                       /\ \A k \in 1..Len(worker'[w].votes[p]) : worker'[w].votes[p][k] >= cutoff
    OBVIOUS
  <2>1. /\ worker[w].votes[p] \in Seq(Times)
        /\ Sorted(worker[w].votes[p]) /\ VotesUpTo(worker[w].votes[p], time) /\ VotesUpTo(worker[w].votes[p], frame[t].now)
        /\ Blocks(worker[w].votes[p], glimpses[w][p])
    BY <1>0 DEF FInv, FTypeOK, Buffers, BufferInv, FrameInv, Buf
  <2>3. PICK v, g, n, l, c : /\ v = worker[w].votes[p] /\ g = glimpses[w][p] /\ n = time
                             /\ l = frame[t].now /\ c = cutoff
    OBVIOUS
  <2>4. /\ Popped(v, c) \in Seq(Times) /\ Sorted(Popped(v, c)) /\ Blocks(Popped(v, c), g)
        /\ \A k \in 1..Len(Popped(v, c)) : Popped(v, c)[k] >= c
        /\ VotesUpTo(Popped(v, c), n)
    BY <2>1, <2>3, <1>0, PoppedKeeps
  <2>5. VotesUpTo(Popped(v, c), l)
    BY <2>1, <2>3, <1>0, PoppedKeeps
  <2>. QED BY <2>3, <2>4, <2>5, <1>2
<1>4. FTypeOK'
  <2>1. worker' \in [Workers -> Buffers]
    <3>1. worker' = [worker EXCEPT ![w] = worker'[w]]
      BY <1>0 DEF Prune, FTypeOK
    <3>2. worker'[w] \in Buffers
      <4>1. worker'[w] = [mode |-> worker[w].mode, votes |-> worker'[w].votes, recent |-> worker[w].recent]
        BY <1>0 DEF Prune, FTypeOK, Buffers
      <4>2. worker'[w].votes = [p \in Persons |-> worker'[w].votes[p]]
        BY <1>0 DEF Prune, FTypeOK, Buffers
      <4>3. worker'[w].votes \in [Persons -> Seq(Times)]
        BY <4>2, <1>3
      <4>. QED BY <4>1, <4>3, <1>0 DEF FTypeOK, Buffers
    <3>. QED BY <3>1, <3>2, <1>0 DEF FTypeOK
  <2>3. frame' \in [Threads -> Frames]
    BY <1>0, <1>2 DEF FTypeOK, Frames, Steps
  <2>. QED BY <2>1, <2>3, <1>0, <1>2 DEF FTypeOK
<1>5. ASSUME NEW p \in Persons PROVE BufferInv(w, p)'
  <2>1. worker'[w].recent[p] <= time'
    BY <1>2, <1>0 DEF FInv, BufferInv
  <2>2. VotesUpTo(worker'[w].votes[p], time')
    BY <1>2, <1>3
  <2>3. glimpses' = glimpses
    BY <1>2
  <2>. QED BY <2>1, <2>2, <2>3, <1>3 DEF BufferInv, Sorted, VotesUpTo, Blocks
<1>6. frame'[t].step = "face" /\ frame'[t].now = frame[t].now
  BY <1>2, <1>0 DEF FTypeOK, Frames
<1>7. FrameInv(t)'
  <2>1. \A p \in Persons : worker'[w].recent[p] <= frame[t].now
    BY <1>2, <1>0 DEF FrameInv, Buf
  <2>2. frame[t].now <= time'
    BY <1>2, <1>0 DEF FrameInv
  <2>. QED BY <2>1, <2>2, <1>6, <1>3 DEF FrameInv, Buf, VotesUpTo, cutoff
<1>8. Own(t)
  BY <1>2, <1>0 DEF Own, FTypeOK
<1>9. ASSUME NEW p \in Persons, NEW from \in Times PROVE Spaced(p, from)'
  <2>1. w \in Fresh(p, from) => w \in Fresh(p, from)'
    <3>2. w \in Fresh(p, from) => worker[w].recent[p] >= from
      BY <1>0, OneFrameAtATime DEF Fresh, At
    <3>. QED BY <3>2, <1>2, <1>0 DEF Fresh
  <2>2. Fresh(p, from) \in SUBSET Fresh(p, from)'
    BY <2>1, <1>8, OwnFresh
  <2>. QED BY <2>2, <1>2, <1>0, SpacedStays DEF FInv, FTypeOK
<1>. QED BY <1>4, <1>5, <1>7, <1>8, <1>9, OwnStep

LEMMA FEndFrame ==
    ASSUME FInv, NEW t \in Threads, EndFrame(t)
    PROVE  FInv'
<1>. DEFINE w == WorkerOf[t]
<1>0. w \in Workers /\ FTypeOK /\ frame[t].step = "face"
  BY PipelineAssumption DEF FInv, EndFrame, At
<1>1. UNCHANGED <<time, worker, marks, glimpses, restarts>> /\ frame' = [frame EXCEPT ![t] = NoFrame]
  BY DEF EndFrame
<1>2. FTypeOK'
  <2>1. NoFrame \in Frames
    BY TimesAre DEF NoFrame, Frames, Steps
  <2>. QED BY <2>1, <1>0, <1>1 DEF FTypeOK
<1>3. \A p \in Persons : BufferInv(w, p)'
  BY <1>0, <1>1 DEF FInv, BufferInv
<1>4. FrameInv(t)'
  BY <1>0, <1>1 DEF FrameInv, FTypeOK, NoFrame
<1>5. Own(t)
  BY <1>0, <1>1 DEF Own, FTypeOK
<1>6. ASSUME NEW p \in Persons, NEW from \in Times PROVE Spaced(p, from)'
  <2>1. w \in Fresh(p, from) => w \in Fresh(p, from)'
    <3>2. w \in Fresh(p, from) => worker[w].recent[p] >= from
      BY <1>0, OneFrameAtATime DEF Fresh, At
    <3>. QED BY <3>2, <1>1, <1>0 DEF Fresh
  <2>2. Fresh(p, from) \in SUBSET Fresh(p, from)'
    BY <2>1, <1>5, OwnFresh
  <2>. QED BY <2>2, <1>1, <1>0, SpacedStays DEF FInv, FTypeOK
<1>. QED BY <1>2, <1>3, <1>4, <1>5, <1>6, OwnStep

LEMMA FDecide ==
    ASSUME FInv, NEW t \in Threads, NEW f \in Face, NEW live \in BOOLEAN, NEW gear \in BOOLEAN,
           Decide(t, f, live, gear)
    PROVE  FInv'
<1>. DEFINE w == WorkerOf[t]
            marked == Len(Buf(t).votes[f[1]]) >= VotesNeeded /\ gear /\ live /\ CooledDown(t, f[1])
<1>0. w \in Workers /\ FTypeOK /\ frame[t].step = "face" /\ FrameInv(t) /\ frame[t] \in Frames
  BY PipelineAssumption DEF FInv, Decide, At, FTypeOK
<1>1. UNCHANGED <<time, worker, marks, glimpses, restarts>> /\ frame' = [frame EXCEPT ![t] = LookedAt(t, f, marked)]
  BY DEF Decide
<1>2. /\ frame'[t].step \in {"mark", "face"} /\ frame'[t].now = frame[t].now /\ frame'[t].face = f
      /\ frame'[t].step = "mark" => CooledDown(t, f[1])
      /\ LookedAt(t, f, marked) \in Frames
  BY <1>0, <1>1 DEF LookedAt, FTypeOK, Frames, Steps
<1>3. FTypeOK'
  BY <1>2, <1>0, <1>1 DEF FTypeOK
<1>4. \A p \in Persons : BufferInv(w, p)'
  BY <1>0, <1>1 DEF FInv, BufferInv
<1>5. FrameInv(t)'
  <2>1. \A p \in Persons : CooledDown(t, p) => CooledDown(t, p)'
    BY <1>1, <1>2 DEF CooledDown, Buf
  <2>2. frame'[t].step = "mark" => CooledDown(t, Whom(t))'
    BY <2>1, <1>1, <1>2, FaceIs DEF Whom, CooledDown, Buf
  <2>. QED BY <2>2, <1>0, <1>1, <1>2 DEF FrameInv, Buf, VotesUpTo
<1>6. Own(t)
  BY <1>0, <1>1 DEF Own, FTypeOK
<1>7. ASSUME NEW p \in Persons, NEW from \in Times PROVE Spaced(p, from)'
  <2>1. w \in Fresh(p, from) => w \in Fresh(p, from)'
    <3>2. w \in Fresh(p, from) => worker[w].recent[p] >= from
      BY <1>0, OneFrameAtATime DEF Fresh, At
    <3>. QED BY <3>2, <1>1, <1>0 DEF Fresh
  <2>2. Fresh(p, from) \in SUBSET Fresh(p, from)'
    BY <2>1, <1>6, OwnFresh
  <2>. QED BY <2>2, <1>1, <1>0, SpacedStays DEF FInv, FTypeOK
<1>. QED BY <1>3, <1>4, <1>5, <1>6, <1>7, OwnStep

LEMMA FMark ==
    ASSUME FInv, NEW t \in Threads, Mark(t)
    PROVE  FInv'
<1>. DEFINE w == WorkerOf[t]
<1>0. /\ w \in Workers /\ FTypeOK /\ frame[t].step = "mark" /\ FrameInv(t) /\ frame[t] \in Frames
      /\ frame[t].face \in Face /\ CooledDown(t, Whom(t)) /\ Whom(t) \in Persons
      /\ frame[t].now \in Times /\ Cooldown \in Nat
  <2>1. w \in Workers /\ FTypeOK /\ frame[t].step = "mark" /\ FrameInv(t) /\ frame[t] \in Frames
    BY PipelineAssumption DEF FInv, Mark, At, FTypeOK
  <2>2. frame[t].face \in Face /\ CooledDown(t, Whom(t)) /\ frame[t].now \in Times
    BY <2>1 DEF FrameInv, Frames
  <2>. QED BY <2>1, <2>2, FaceIs, PipelineAssumption DEF Whom
<1>1. /\ UNCHANGED <<time, worker, glimpses, restarts>> /\ frame' = [frame EXCEPT ![t].step = "record"]
      /\ marks' = [marks EXCEPT ![Whom(t)] = [marks[Whom(t)] EXCEPT ![frame[t].now] = marks[Whom(t)][frame[t].now] + 1]]
  BY <1>0 DEF Mark, FTypeOK
<1>2. /\ frame'[t].step = "record" /\ frame'[t].now = frame[t].now /\ frame'[t].face = frame[t].face
      /\ frame'[t] \in Frames
  BY <1>0, <1>1 DEF FTypeOK, Frames, Steps
<1>3. FTypeOK'
  <2>1. marks' \in [Persons -> [Times -> Nat]]
    <3>1. marks[Whom(t)] \in [Times -> Nat] /\ marks[Whom(t)][frame[t].now] + 1 \in Nat
      BY <1>0 DEF FTypeOK
    <3>. QED BY <3>1, <1>0, <1>1 DEF FTypeOK
  <2>2. frame' \in [Threads -> Frames]
    BY <1>0, <1>1, <1>2 DEF FTypeOK
  <2>. QED BY <2>1, <2>2, <1>0, <1>1 DEF FTypeOK
<1>4. \A p \in Persons : BufferInv(w, p)'
  BY <1>0, <1>1 DEF FInv, BufferInv
<1>5. FrameInv(t)'
  BY <1>0, <1>1, <1>2 DEF FrameInv, Buf, VotesUpTo
<1>6. Own(t)
  BY <1>0, <1>1 DEF Own, FTypeOK
<1>7. ASSUME NEW p \in Persons, NEW from \in Times PROVE Spaced(p, from)'
  <2>0. w \in Fresh(p, from) => worker[w].recent[p] >= from
    BY <1>0, OneFrameAtATime DEF Fresh, At
  <2>1. w \in Fresh(p, from) => w \in Fresh(p, from)'
    BY <2>0, <1>1, <1>0 DEF Fresh
  <2>2. Fresh(p, from) \in SUBSET Fresh(p, from)'
    BY <2>1, <1>6, OwnFresh
  <2>3. CASE p # Whom(t)
    <3>1. marks'[p] = marks[p]
      BY <2>3, <1>1, <1>0 DEF FTypeOK
    <3>. QED BY <2>2, <3>1, <1>1, <1>0, SpacedStays DEF FInv, FTypeOK
  <2>4. CASE p = Whom(t)
    <3>1. PICK h, now : h = marks[p] /\ now = frame[t].now
      OBVIOUS
    <3>2. marks'[p] = [h EXCEPT ![now] = h[now] + 1]
      BY <2>4, <3>1, <1>1, <1>0 DEF FTypeOK
    <3>3. /\ h \in [Times -> Nat] /\ now \in Times /\ IsFiniteSet(PairsIn(h, from, Cooldown))
          /\ InWindow(h, from, Cooldown) <= Cardinality(Fresh(p, from)) + restarts
      BY <3>1, <1>0 DEF FInv, FTypeOK, Spaced
    <3>4. PICK g : g = marks'[p]
      OBVIOUS
    <3>5. /\ IsFiniteSet(PairsIn(g, from, Cooldown))
          /\ InWindow(g, from, Cooldown) =
                InWindow(h, from, Cooldown) + (IF now \in Within(from, Cooldown) THEN 1 ELSE 0)
      <4>1. Cooldown \in Nat
        BY <1>0
      <4>2. /\ IsFiniteSet(PairsIn([h EXCEPT ![now] = h[now] + 1], from, Cooldown))
            /\ InWindow([h EXCEPT ![now] = h[now] + 1], from, Cooldown) =
                  InWindow(h, from, Cooldown) + (IF now \in Within(from, Cooldown) THEN 1 ELSE 0)
        BY <3>3, <4>1, OneMore
      <4>. QED BY <3>2, <3>4, <4>2
    <3>6. PICK F, G : F = Fresh(p, from) /\ G = Fresh(p, from)'
      OBVIOUS
    <3>7. /\ IsFiniteSet(F) /\ IsFiniteSet(G) /\ Cardinality(F) \in Nat /\ Cardinality(G) \in Nat
          /\ Cardinality(F) <= Cardinality(G)
      <4>1. G \in SUBSET Workers /\ F \in SUBSET G
        BY <3>6, <2>2 DEF Fresh
      <4>2. IsFiniteSet(G)
        BY <4>1, PipelineAssumption, FS_Subset
      <4>. QED BY <4>1, <4>2, FS_Subset, FS_CardinalityType
    <3>8. InWindow(h, from, Cooldown) \in Nat
      <4>1. InWindow(h, from, Cooldown) = Cardinality(PairsIn(h, from, Cooldown))
        BY DEF InWindow, PairsIn, Within
      <4>. QED BY <4>1, <3>3, FS_CardinalityType
    <3>9. now \in Within(from, Cooldown) => Cardinality(F) + 1 <= Cardinality(G)
      <4>1. SUFFICES ASSUME now \in Within(from, Cooldown) PROVE Cardinality(F) + 1 <= Cardinality(G)
        OBVIOUS
      <4>2. w \notin F
        <5>1. worker[w].recent[p] = Never \/ now - worker[w].recent[p] > Cooldown
          BY <1>0, <2>4, <3>1 DEF CooledDown, Buf
        <5>2. worker[w].recent[p] \in Times \cup {Never} /\ from \in Nat /\ now \in Nat
          BY <1>0, <3>1, TimeIs DEF FTypeOK, Buffers
        <5>3. now <= from + Cooldown
          BY <4>1 DEF Within
        <5>4. worker[w].recent[p] \in Int
          BY <5>2, PipelineAssumption DEF Times, Never
        <5>5. ~ (worker[w].recent[p] >= from)
          BY <5>1, <5>2, <5>3, <5>4, <1>0 DEF Never
        <5>. QED BY <5>5, <2>0, <3>6
      <4>3. w \in G
        <5>1. At(t, "record")' /\ Whom(t)' = p /\ frame'[t].now >= from
          BY <1>2, <4>1, <3>1, <2>4 DEF At, Whom, Within
        <5>2. w \in Fresh(p, from)'
          BY <5>1, <1>0 DEF Fresh
        <5>. QED BY <5>2, <3>6
      <4>4. F \cup {w} \in SUBSET G
        BY <4>3, <3>6, <2>2
      <4>5. Cardinality(F \cup {w}) = Cardinality(F) + 1
        BY <4>2, <3>7, FS_AddElement
      <4>. QED BY <4>4, <4>5, <3>7, FS_Subset
    <3>10. restarts' = restarts /\ restarts \in Nat
      BY <1>1, <1>0 DEF FTypeOK
    <3>11. InWindow(g, from, Cooldown) <= Cardinality(G) + restarts
      BY <3>3, <3>5, <3>6, <3>7, <3>8, <3>9, <3>10
    <3>. QED BY <3>4, <3>5, <3>6, <3>10, <3>11 DEF Spaced, PairsIn, Within, InWindow
  <2>. QED BY <2>3, <2>4
<1>. QED BY <1>3, <1>4, <1>5, <1>6, <1>7, OwnStep

LEMMA FRecord ==
    ASSUME FInv, NEW t \in Threads, Record(t)
    PROVE  FInv'
<1>. DEFINE w == WorkerOf[t]
<1>0. /\ w \in Workers /\ FTypeOK /\ frame[t].step = "record" /\ FrameInv(t) /\ frame[t] \in Frames
      /\ frame[t].face \in Face /\ Whom(t) \in Persons
      /\ frame[t].now \in Times /\ frame[t].now <= time
  <2>1. w \in Workers /\ FTypeOK /\ frame[t].step = "record" /\ FrameInv(t) /\ frame[t] \in Frames
    BY PipelineAssumption DEF FInv, Record, At, FTypeOK
  <2>2. frame[t].face \in Face /\ frame[t].now \in Times /\ frame[t].now <= time
    BY <2>1 DEF FrameInv, Frames
  <2>. QED BY <2>1, <2>2, FaceIs DEF Whom
<1>1. /\ UNCHANGED <<time, marks, glimpses, restarts>> /\ frame' = [frame EXCEPT ![t].step = "face"]
      /\ worker'[w].mode = worker[w].mode /\ worker'[w].votes = worker[w].votes
      /\ worker'[w].recent = [worker[w].recent EXCEPT ![Whom(t)] = frame[t].now]
      /\ \A x \in Workers : x # w => worker'[x] = worker[x]
  BY <1>0 DEF Record, FTypeOK, Buffers
<1>2. /\ frame'[t].step = "face" /\ frame'[t].now = frame[t].now /\ frame'[t].face = frame[t].face
      /\ frame'[t] \in Frames
  BY <1>0, <1>1 DEF FTypeOK, Frames, Steps
<1>3. \A p \in Persons : /\ worker'[w].recent[p] = worker[w].recent[p] \/ worker'[w].recent[p] = frame[t].now
                         /\ p = Whom(t) => worker'[w].recent[p] = frame[t].now
                         /\ worker[w].recent[p] \in Times \cup {Never}
  BY <1>0, <1>1 DEF FTypeOK, Buffers
<1>4. FTypeOK'
  <2>1. worker' \in [Workers -> Buffers]
    <3>1. worker' = [worker EXCEPT ![w] = worker'[w]]
      BY <1>0 DEF Record, FTypeOK
    <3>2. worker'[w] \in Buffers
      <4>1. worker'[w] = [mode |-> worker[w].mode, votes |-> worker[w].votes, recent |-> worker'[w].recent]
        BY <1>0 DEF Record, FTypeOK, Buffers
      <4>2. worker[w].mode \in {"none", "recognise"} /\ worker[w].votes \in [Persons -> Seq(Times)]
        BY <1>0 DEF FTypeOK, Buffers
      <4>3. worker'[w].recent \in [Persons -> Times \cup {Never}]
        BY <1>0, <1>1 DEF FTypeOK, Buffers
      <4>4. PICK r : r = worker'[w].recent
        OBVIOUS
      <4>. QED BY <4>1, <4>2, <4>3, <4>4 DEF Buffers
    <3>. QED BY <3>1, <3>2, <1>0 DEF FTypeOK
  <2>2. frame' \in [Threads -> Frames]
    BY <1>0, <1>1, <1>2 DEF FTypeOK
  <2>. QED BY <2>1, <2>2, <1>0, <1>1 DEF FTypeOK
<1>5. ASSUME NEW p \in Persons PROVE BufferInv(w, p)'
  <2>1. BufferInv(w, p)
    BY <1>0 DEF FInv
  <2>2. worker'[w].recent[p] <= time
    BY <2>1, <1>3, <1>0 DEF BufferInv
  <2>. QED BY <2>1, <2>2, <1>1 DEF BufferInv
<1>6. FrameInv(t)'
  <2>1. \A p \in Persons : worker'[w].recent[p] <= frame[t].now
    <3>1. frame[t].now \in Int
      BY <1>0, TimeIs
    <3>. QED BY <3>1, <1>3, <1>0 DEF FrameInv, Buf
  <2>. QED BY <2>1, <1>0, <1>1, <1>2 DEF FrameInv, Buf, VotesUpTo
<1>7. Own(t)
  BY <1>0, <1>1 DEF Own, FTypeOK
<1>8. ASSUME NEW p \in Persons, NEW from \in Times PROVE Spaced(p, from)'
  <2>1. w \in Fresh(p, from) => w \in Fresh(p, from)'
    <3>1. SUFFICES ASSUME w \in Fresh(p, from) PROVE w \in Fresh(p, from)'
      OBVIOUS
    <3>2. worker[w].recent[p] >= from \/ (Whom(t) = p /\ frame[t].now >= from)
      BY <3>1, OneFrameAtATime DEF Fresh, At
    <3>3. worker'[w].recent[p] >= from
      <4>1. worker[w].recent[p] <= frame[t].now
        BY <1>0 DEF FrameInv, Buf
      <4>2. frame[t].now \in Int /\ from \in Int /\ worker[w].recent[p] \in Int
        BY <1>0, <1>3, PipelineAssumption DEF Times, Never
      <4>. QED BY <3>2, <4>1, <4>2, <1>3
    <3>. QED BY <3>3, <1>0 DEF Fresh
  <2>2. Fresh(p, from) \in SUBSET Fresh(p, from)'
    BY <2>1, <1>7, OwnFresh
  <2>. QED BY <2>2, <1>1, <1>0, SpacedStays DEF FInv, FTypeOK
<1>. QED BY <1>4, <1>5, <1>6, <1>7, <1>8, OwnStep

\* Empty buffers satisfy everything that is asked of votes.
LEMMA EmptyVotes ==
    /\ Sorted(<<>>) /\ \A now, g : VotesUpTo(<<>>, now) /\ Blocks(<<>>, g)
BY DEF Sorted, VotesUpTo, Blocks

LEMMA FSetMode ==
    ASSUME FInv, NEW w \in Workers, NEW mode \in {"none", "recognise"}, SetMode(w, mode)
    PROVE  FInv'
<1>0. FTypeOK /\ VotesNeeded \in Nat /\ 0 \in Times
  BY TimesAre, PipelineAssumption DEF FInv
<1>1. /\ UNCHANGED <<time, frame, marks, restarts>>
      /\ worker' = [worker EXCEPT ![w] = [mode |-> mode, votes |-> [p \in Persons |-> <<>>],
                                          recent |-> worker[w].recent]]
      /\ glimpses' = [glimpses EXCEPT ![w] = NoGlimpses]
  BY DEF SetMode, EmptyBuffers
<1>2. FTypeOK'
  <2>1. worker[w].recent \in [Persons -> Times \cup {Never}]
    BY <1>0 DEF FTypeOK, Buffers
  <2>2. [mode |-> mode, votes |-> [p \in Persons |-> <<>>], recent |-> worker[w].recent] \in Buffers
    BY <2>1 DEF Buffers
  <2>3. NoGlimpses \in [Persons -> [Times -> 0..VotesNeeded]]
    BY <1>0 DEF NoGlimpses
  <2>. QED BY <2>2, <2>3, <1>0, <1>1 DEF FTypeOK
<1>3. ASSUME NEW x \in Workers, NEW p \in Persons
      PROVE  /\ worker'[x].recent = worker[x].recent
             /\ \/ x # w /\ worker'[x] = worker[x] /\ glimpses'[x] = glimpses[x]
                \/ x = w /\ worker'[x].votes[p] = <<>>
  BY <1>0, <1>1 DEF FTypeOK
<1>4. ASSUME NEW x \in Workers, NEW p \in Persons PROVE BufferInv(x, p)'
  <2>1. BufferInv(x, p)
    BY DEF FInv
  <2>2. CASE x # w
    BY <2>1, <2>2, <1>1, <1>3 DEF BufferInv
  <2>3. CASE x = w
    <3>1. worker'[x].votes[p] = <<>> /\ worker'[x].recent[p] <= time'
      BY <2>1, <2>3, <1>1, <1>3 DEF BufferInv
    <3>. QED BY <3>1, EmptyVotes DEF BufferInv
  <2>. QED BY <2>2, <2>3
<1>5. ASSUME NEW t \in Threads PROVE FrameInv(t)'
  <2>1. WorkerOf[t] \in Workers /\ FrameInv(t)
    BY PipelineAssumption DEF FInv
  <2>2. CooledDown(t, Whom(t)) => CooledDown(t, Whom(t))'
    BY <2>1, <1>1, <1>3, <1>0 DEF CooledDown, Buf, Whom, FTypeOK
  <2>3. ASSUME NEW p \in Persons
        PROVE  \/ worker'[WorkerOf[t]].votes[p] = <<>>
               \/ worker'[WorkerOf[t]] = worker[WorkerOf[t]]
    BY <2>1, <1>3
  <2>4. ASSUME NEW p \in Persons, frame[t].step # "idle"
        PROVE  /\ worker'[WorkerOf[t]].recent[p] <= frame[t].now
               /\ VotesUpTo(worker'[WorkerOf[t]].votes[p], frame[t].now)
               /\ frame[t].step # "prune" =>
                    \A k \in 1..Len(worker'[WorkerOf[t]].votes[p]) :
                        worker'[WorkerOf[t]].votes[p][k] >= frame[t].now - Window
    <3>1. worker'[WorkerOf[t]].recent[p] <= frame[t].now
      BY <2>1, <2>4, <1>3 DEF FrameInv, Buf
    <3>2. CASE worker'[WorkerOf[t]].votes[p] = <<>>
      BY <3>1, <3>2, EmptyVotes
    <3>3. CASE worker'[WorkerOf[t]] = worker[WorkerOf[t]]
      BY <3>1, <3>3, <2>1, <2>4 DEF FrameInv, Buf
    <3>. QED BY <2>3, <3>2, <3>3
  <2>5. frame' = frame /\ time' = time
    BY <1>1
  <2>6. frame[t].step # "idle" =>
           /\ frame[t].now <= time
           /\ frame[t].step \in {"mark", "record"} => frame[t].face \in Face
           /\ frame[t].step = "mark" => CooledDown(t, Whom(t))'
    BY <2>1, <2>2 DEF FrameInv
  <2>. SUFFICES ASSUME frame[t].step # "idle"
                PROVE  /\ frame'[t].now <= time'
                       /\ \A p \in Persons :
                             /\ worker'[WorkerOf[t]].recent[p] <= frame'[t].now
                             /\ VotesUpTo(worker'[WorkerOf[t]].votes[p], frame'[t].now)
                             /\ frame'[t].step # "prune" =>
                                   \A k \in 1..Len(worker'[WorkerOf[t]].votes[p]) :
                                      worker'[WorkerOf[t]].votes[p][k] >= frame'[t].now - Window
                       /\ frame'[t].step \in {"mark", "record"} => frame'[t].face \in Face
                       /\ frame'[t].step = "mark" => CooledDown(t, Whom(t))'
    BY <2>5 DEF FrameInv, Buf, VotesUpTo
  <2>7. /\ frame'[t].now = frame[t].now /\ frame'[t].step = frame[t].step
        /\ frame'[t].face = frame[t].face /\ time' = time
    BY <2>5
  <2>8. ASSUME NEW p \in Persons
        PROVE  /\ worker'[WorkerOf[t]].recent[p] <= frame'[t].now
               /\ VotesUpTo(worker'[WorkerOf[t]].votes[p], frame'[t].now)
               /\ frame'[t].step # "prune" =>
                     \A k \in 1..Len(worker'[WorkerOf[t]].votes[p]) :
                        worker'[WorkerOf[t]].votes[p][k] >= frame'[t].now - Window
    BY <2>4, <2>7
  <2>9. /\ frame'[t].now <= time'
        /\ frame'[t].step \in {"mark", "record"} => frame'[t].face \in Face
        /\ frame'[t].step = "mark" => CooledDown(t, Whom(t))'
    <3>1. /\ frame[t].now <= time
          /\ frame[t].step \in {"mark", "record"} => frame[t].face \in Face
      BY <2>6
    <3>2. frame[t].step = "mark" => CooledDown(t, Whom(t))'
      BY <2>6
    <3>. QED BY <3>1, <3>2, <2>7
  <2>. QED BY <2>8, <2>9
<1>6. ASSUME NEW p \in Persons, NEW from \in Times PROVE Spaced(p, from)'
  <2>1. Fresh(p, from)' = Fresh(p, from)
    BY <1>1, <1>3 DEF Fresh, At, Whom
  <2>. QED BY <2>1, <1>0, <1>1, SpacedStays DEF FInv, FTypeOK
<1>. QED BY <1>2, <1>4, <1>5, <1>6 DEF FInv

LEMMA FRestart ==
    ASSUME FInv, NEW w \in Workers, Restart(w)
    PROVE  FInv'
<1>0. FTypeOK /\ VotesNeeded \in Nat /\ 0 \in Times /\ restarts \in Nat /\ Cooldown \in Nat
  BY TimesAre, PipelineAssumption DEF FInv, FTypeOK
<1>1. /\ time' = time /\ marks' = marks /\ restarts' = restarts + 1
      /\ worker' = [worker EXCEPT ![w] = EmptyBuffers]
      /\ glimpses' = [glimpses EXCEPT ![w] = NoGlimpses]
      /\ frame' = [t \in Threads |-> IF WorkerOf[t] = w THEN NoFrame ELSE frame[t]]
  BY DEF Restart
<1>2. FTypeOK'
  <2>1. EmptyBuffers \in Buffers
    BY DEF EmptyBuffers, Buffers
  <2>2. NoGlimpses \in [Persons -> [Times -> 0..VotesNeeded]]
    BY <1>0 DEF NoGlimpses
  <2>3. NoFrame \in Frames
    BY <1>0 DEF NoFrame, Frames, Steps
  <2>. QED BY <2>1, <2>2, <2>3, <1>0, <1>1 DEF FTypeOK
<1>3. ASSUME NEW x \in Workers, NEW p \in Persons PROVE BufferInv(x, p)'
  <2>1. BufferInv(x, p)
    BY DEF FInv
  <2>2. CASE x # w
    BY <2>1, <2>2, <1>0, <1>1 DEF BufferInv, FTypeOK
  <2>3. CASE x = w
    <3>1. worker'[x].votes[p] = <<>> /\ worker'[x].recent[p] = -1
      BY <2>3, <1>0, <1>1 DEF FTypeOK, EmptyBuffers, Never
    <3>2. time' \in Nat
      BY <1>0, <1>1, TimeIs DEF FTypeOK
    <3>. QED BY <3>1, <3>2, EmptyVotes DEF BufferInv
  <2>. QED BY <2>2, <2>3
<1>4. ASSUME NEW t \in Threads PROVE FrameInv(t)'
  <2>1. WorkerOf[t] \in Workers /\ FrameInv(t)
    BY PipelineAssumption DEF FInv
  <2>2. CASE WorkerOf[t] = w
    BY <2>2, <1>1 DEF FrameInv, NoFrame
  <2>3. CASE WorkerOf[t] # w
    <3>1. frame'[t] = frame[t] /\ worker'[WorkerOf[t]] = worker[WorkerOf[t]] /\ time' = time
      BY <2>1, <2>3, <1>0, <1>1 DEF FTypeOK
    <3>. QED BY <3>1, <2>1 DEF FrameInv, Buf, CooledDown, Whom, VotesUpTo
  <2>. QED BY <2>2, <2>3
<1>5. ASSUME NEW p \in Persons, NEW from \in Times PROVE Spaced(p, from)'
  <2>1. PICK F, G : F = Fresh(p, from) /\ G = Fresh(p, from)'
    OBVIOUS
  <2>2. F \in SUBSET (G \cup {w})
    <3>1. SUFFICES ASSUME NEW x \in Fresh(p, from), x # w PROVE x \in Fresh(p, from)'
      BY <2>1
    <3>2. x \in Workers /\ worker'[x] = worker[x]
      BY <3>1, <1>0, <1>1 DEF Fresh, FTypeOK
    <3>3. CASE worker[x].recent[p] >= from
      BY <3>2, <3>3 DEF Fresh
    <3>4. ASSUME NEW u \in Threads, WorkerOf[u] = x, At(u, "record"), Whom(u) = p, frame[u].now >= from
          PROVE  x \in Fresh(p, from)'
      <4>1. frame'[u] = frame[u]
        BY <3>1, <3>4, <1>1
      <4>. QED BY <3>2, <3>4, <4>1 DEF Fresh, At, Whom
    <3>. QED BY <3>3, <3>4 DEF Fresh
  <2>3. IsFiniteSet(G) /\ IsFiniteSet(F) /\ Cardinality(F) \in Nat /\ Cardinality(G) \in Nat
    <3>1. G \in SUBSET Workers /\ F \in SUBSET Workers
      BY <2>1 DEF Fresh
    <3>. QED BY <3>1, PipelineAssumption, FS_Subset, FS_CardinalityType
  <2>4. Cardinality(F) <= Cardinality(G) + 1
    <3>1. IsFiniteSet(G \cup {w}) /\ Cardinality(G \cup {w}) <= Cardinality(G) + 1
      <4>1. /\ IsFiniteSet(G \cup {w})
            /\ Cardinality(G \cup {w}) = IF w \in G THEN Cardinality(G) ELSE Cardinality(G) + 1
        BY <2>3, FS_AddElement
      <4>. QED BY <4>1, <2>3
    <3>2. Cardinality(F) <= Cardinality(G \cup {w}) /\ Cardinality(G \cup {w}) \in Nat
      BY <3>1, <2>2, FS_Subset, FS_CardinalityType
    <3>. QED BY <3>1, <3>2, <2>3
  <2>5. PICK h : h = marks[p] /\ h = marks'[p]
    BY <1>1
  <2>6. IsFiniteSet(PairsIn(h, from, Cooldown)) /\ InWindow(h, from, Cooldown) <= Cardinality(F) + restarts
    BY <2>1, <2>5 DEF FInv, Spaced
  <2>7. InWindow(h, from, Cooldown) \in Nat
    <3>1. InWindow(h, from, Cooldown) = Cardinality(PairsIn(h, from, Cooldown))
      BY DEF InWindow, PairsIn, Within
    <3>. QED BY <3>1, <2>6, FS_CardinalityType
  <2>8. InWindow(h, from, Cooldown) <= Cardinality(G) + restarts'
    BY <2>3, <2>4, <2>6, <2>7, <1>0, <1>1
  <2>. QED BY <2>1, <2>5, <2>6, <2>8 DEF Spaced, PairsIn, Within, InWindow
<1>. QED BY <1>2, <1>3, <1>4, <1>5 DEF FInv

LEMMA FNext == FInv /\ [Next]_vars => FInv'
<1>. SUFFICES ASSUME FInv, [Next]_vars PROVE FInv'
  OBVIOUS
<1>1. ASSUME NEW t \in Threads, NEW camera, NEW crowd \in SUBSET Face, Predict(t, camera, crowd) PROVE FInv'
  BY <1>1, FPredict
<1>2. ASSUME NEW t \in Threads, Prune(t) PROVE FInv'
  BY <1>2, FPrune
<1>3. ASSUME NEW t \in Threads, Mark(t) PROVE FInv'
  BY <1>3, FMark
<1>4. ASSUME NEW t \in Threads, Record(t) PROVE FInv'
  BY <1>4, FRecord
<1>5. ASSUME NEW t \in Threads, EndFrame(t) PROVE FInv'
  BY <1>5, FEndFrame
<1>6. ASSUME NEW t \in Threads, NEW f \in Face, NEW live \in BOOLEAN, NEW gear \in BOOLEAN,
             Decide(t, f, live, gear)
      PROVE  FInv'
  BY <1>6, FDecide
<1>7. ASSUME NEW w \in Workers, NEW mode \in {"none", "recognise"}, SetMode(w, mode) PROVE FInv'
  BY <1>7, FSetMode
<1>8. ASSUME NEW w \in Workers, Restart(w) PROVE FInv'
  BY <1>8, FRestart
<1>. QED BY <1>1, <1>2, <1>3, <1>4, <1>5, <1>6, <1>7, <1>8, FTick, FStutter DEF Next

LEMMA SpacedIs == FInv => MarksAreSpaced
<1>. SUFFICES ASSUME FInv, NEW p \in Persons, NEW from \in Times
              PROVE  InWindow(marks[p], from, Cooldown) <= Cardinality(Workers) + restarts
  BY DEF MarksAreSpaced
<1>1. InWindow(marks[p], from, Cooldown) <= Cardinality(Fresh(p, from)) + restarts
  BY DEF FInv, Spaced
<1>2. Cardinality(Fresh(p, from)) <= Cardinality(Workers) /\ Cardinality(Fresh(p, from)) \in Nat
  BY FreshIsFinite
<1>3. InWindow(marks[p], from, Cooldown) \in Nat
  <2>1. InWindow(marks[p], from, Cooldown) = Cardinality(PairsIn(marks[p], from, Cooldown))
    BY DEF InWindow, PairsIn, Within
  <2>. QED BY <2>1, FS_CardinalityType DEF FInv, Spaced
<1>4. Cardinality(Workers) \in Nat /\ restarts \in Nat
  BY PipelineAssumption, FS_CardinalityType DEF FInv, FTypeOK
<1>. QED BY <1>1, <1>2, <1>3, <1>4

\* A step of the run is a step of the pipeline.
LEMMA FramesStep == [FramesNext]_all => [Next]_vars
BY DEF FramesNext, all, vars

\* Marks of one person in one process are a cooldown apart, whatever frames, mode
\* switches and restarts fall in between (app.process_frame, _recent_marks).
THEOREM SpacedAlways == FramesSpec => []MarksAreSpaced
<1>1. FramesInit => FInv
  BY FInit DEF FramesInit, Begin
<1>2. FInv /\ [FramesNext]_all => FInv'
  BY FramesStep, FNext
<1>. QED BY <1>1, <1>2, SpacedIs, PTL DEF FramesSpec

\* A frame that decides to mark: its votes are in a window.
LEMMA DecidedOnVotes ==
    ASSUME FInv, NEW t \in Threads, [Next]_vars, At(t, "face"), frame'[t].step = "mark"
    PROVE  \E from \in Times :
               /\ from >= frame[t].now - Window
               /\ VotesNeeded <= InWindow(glimpses[WorkerOf[t]][frame'[t].face[1]], from, Window)
<1>. DEFINE w == WorkerOf[t]
<1>0. FTypeOK /\ FrameInv(t) /\ w \in Workers /\ frame[t] \in Frames /\ Window \in Nat /\ MaxTime \in Nat
  BY PipelineAssumption DEF FInv, FTypeOK
<1>1. \E f \in Face, live \in BOOLEAN, gear \in BOOLEAN : Decide(t, f, live, gear)
  <2>1. ASSUME NEW u \in Threads,
               Prune(u) \/ Mark(u) \/ Record(u) \/ EndFrame(u)
                  \/ \E camera \in {"server", "browser"}, crowd \in SUBSET Face : Predict(u, camera, crowd)
        PROVE  FALSE
    <3>1. frame \in [Threads -> Frames] /\ frame[t].step = "face"
      BY <1>0 DEF FTypeOK, At
    <3>2. CASE Prune(u)
      BY <3>1, <3>2 DEF Prune, At, Frames
    <3>3. CASE Mark(u)
      BY <3>1, <3>3 DEF Mark, At, Frames
    <3>4. CASE Record(u)
      BY <3>1, <3>4 DEF Record, At, Frames
    <3>5. CASE EndFrame(u)
      BY <3>1, <3>5 DEF EndFrame, At, NoFrame
    <3>6. ASSUME NEW camera, NEW crowd \in SUBSET Face, Predict(u, camera, crowd) PROVE FALSE
      BY <3>1, <3>6 DEF Predict, At
    <3>. QED BY <2>1, <3>2, <3>3, <3>4, <3>5, <3>6
  <2>2. ASSUME NEW u \in Threads, NEW f \in Face, NEW live \in BOOLEAN, NEW gear \in BOOLEAN,
               Decide(u, f, live, gear)
        PROVE  Decide(t, f, live, gear)
    BY <2>2, <1>0 DEF Decide, At, FTypeOK
  <2>3. ~ Tick /\ ~ UNCHANGED vars
    BY DEF Tick, At, vars
  <2>4. ASSUME NEW x \in Workers, Restart(x) PROVE FALSE
    BY <2>4 DEF Restart, At, NoFrame
  <2>5. ASSUME NEW x \in Workers, NEW mode, SetMode(x, mode) PROVE FALSE
    BY <2>5 DEF SetMode, At
  <2>6. Next
    BY <2>3
  <2>7. \/ \E u \in Threads :
              \/ Prune(u) \/ Mark(u) \/ Record(u) \/ EndFrame(u)
                    \/ \E camera \in {"server", "browser"}, crowd \in SUBSET Face : Predict(u, camera, crowd)
              \/ \E f \in Face, live \in BOOLEAN, gear \in BOOLEAN : Decide(u, f, live, gear)
        \/ \E x \in Workers : Restart(x) \/ \E mode : SetMode(x, mode)
    BY <2>3, <2>6, Zenon DEF Next
  <2>. QED BY <2>1, <2>2, <2>4, <2>5, <2>7
<1>2. PICK f \in Face, live \in BOOLEAN, gear \in BOOLEAN : Decide(t, f, live, gear)
  BY <1>1
<1>3. frame'[t].face = f /\ f[1] \in Persons /\ Len(worker[w].votes[f[1]]) >= VotesNeeded
  BY <1>2, <1>0, FaceIs DEF Decide, LookedAt, FTypeOK, Buf
<1>4. PICK v, g, now : v = worker[w].votes[f[1]] /\ g = glimpses[w][f[1]] /\ now = frame[t].now
  OBVIOUS
<1>5. now \in Times /\ now \in Nat
  BY <1>0, <1>4, TimeIs DEF Frames
<1>6. /\ v \in Seq(Times) /\ g \in [Times -> 0..VotesNeeded] /\ Blocks(v, g) /\ Len(v) >= VotesNeeded
      /\ \A k \in 1..Len(v) : v[k] <= now /\ v[k] >= now - Window
  BY <1>0, <1>3, <1>4 DEF FInv, FTypeOK, Buffers, BufferInv, FrameInv, Buf, At, VotesUpTo
<1>7. PICK from \in Times : from >= now - Window /\ \A k \in 1..Len(v) : v[k] \in Within(from, Window)
  <2>1. \A k \in 1..Len(v) : v[k] \in Times /\ v[k] \in Nat
    BY <1>6, TimeIs
  <2>2. CASE now <= Window
    <3>1. 0 \in Times /\ \A k \in 1..Len(v) : 0 <= v[k] /\ v[k] <= Window
      BY <1>0, <1>5, <1>6, <2>1, <2>2, TimesAre
    <3>. QED BY <3>1, <2>1, <2>2, <1>0, <1>5 DEF Within
  <2>3. CASE now > Window
    <3>1. now - Window \in Times
      BY <1>0, <1>5, <2>3 DEF Times
    <3>2. \A k \in 1..Len(v) : now - Window <= v[k] /\ v[k] <= (now - Window) + Window
      BY <1>0, <1>5, <1>6, <2>1
    <3>. QED BY <3>1, <3>2, <2>1, <1>0, <1>5 DEF Within
  <2>. QED BY <2>2, <2>3, <1>0, <1>5
<1>8. VotesNeeded <= InWindow(g, from, Window)
  BY <1>6, <1>7, EnoughVotes
<1>. QED BY <1>3, <1>4, <1>7, <1>8

\* A frame that decides to mark has the votes of one window of its own process
\* (app.process_frame, _vote_buffer).
THEOREM VotesAlways == FramesSpec => MarksHaveVotes
<1>1. FramesInit => FInv
  BY FInit DEF FramesInit, Begin
<1>2. FInv /\ [FramesNext]_all => FInv'
  BY FramesStep, FNext
<1>3. FInv /\ [FramesNext]_all =>
         [\A t \in Threads :
             At(t, "face") /\ frame'[t].step = "mark" =>
                \E from \in Times :
                   /\ from >= frame[t].now - Window
                   /\ VotesNeeded <= InWindow(glimpses[WorkerOf[t]][frame'[t].face[1]],
                                              from, Window)]_frame
  BY FramesStep, DecidedOnVotes
<1>. QED BY <1>1, <1>2, <1>3, PTL DEF FramesSpec, MarksHaveVotes

-----------------------------------------------------------------------------
(* The liveness tracker. *)
LEMMA SightingsCount == \A S : L!Cardinality(S) = Cardinality(S)
BY DEF L!Cardinality, Cardinality

\* A sighting of f that satisfies what is asked.
Sightings(f) == {i \in DOMAIN seen : seen[i].face = f}

Sighting == [face : Faces, at : Nat, eye : L!Eyes, pos : L!Positions]
Updates == [step : {"off", "walk", "prune", "judge", "judged"}, face : Faces \cup {""},
            now : Nat, eye : L!Eyes, size : {Cardinality(S) : S \in SUBSET Faces}, stale : SUBSET Faces, live : BOOLEAN]
Memory == [eye : L!Eyes, blinks : SUBSET Nat, boxes : SUBSET (Nat \X L!Positions)]

LTypeOK ==
    /\ clock \in Nat
    /\ seen \in Seq(Sighting)
    /\ DOMAIN last \subseteq Faces
    /\ memory \in [Faces -> Memory]
    /\ update \in [Viewers -> Updates]

ClosedSeen(f) == \E i \in Sightings(f) : seen[i].eye = "closed"
OpenSeen(f, at) == \E i \in Sightings(f) : seen[i].eye = "open" /\ seen[i].at = at
BoxSeen(f, box) == \E i \in Sightings(f) : seen[i].at = box[1] /\ seen[i].pos = box[2]

\* What is remembered of a face was seen of that face.
MemoryIsOwn ==
    \A f \in Faces :
        /\ memory[f].eye = "closed" => ClosedSeen(f)
        /\ \A b \in memory[f].blinks : ClosedSeen(f) /\ OpenSeen(f, b)
        /\ \A box \in memory[f].boxes : BoxSeen(f, box)

\* An update is about a sighting.
UpdateIsOwn ==
    \A t \in Viewers : update[t].step # "off" =>
        /\ L!Face(t) \in Faces
        /\ update[t].eye = "closed" => ClosedSeen(L!Face(t))
        /\ update[t].eye = "open" => OpenSeen(L!Face(t), L!Now(t))

\* What LiveIsEarned asks for a face that is found live now.
Earned(f, now) ==
    /\ \E i, j \in Sightings(f) :
          seen[i].eye = "closed" /\ seen[j].eye = "open" /\ seen[j].at >= now - BlinkWindow
    /\ \E i, j \in Sightings(f) :
          /\ seen[i].pos # seen[j].pos
          /\ seen[i].at >= now - MotionWindow /\ seen[j].at >= now - MotionWindow
VerdictsAreEarned ==
    \A t \in Viewers : update[t].step = "judged" /\ update[t].live => Earned(L!Face(t), L!Now(t))

LInv == LTypeOK /\ MemoryIsOwn /\ UpdateIsOwn /\ VerdictsAreEarned

LEMMA LInit == L!Init => LInv
<1>. SUFFICES ASSUME L!Init PROVE LInv
  OBVIOUS
<1>1. LTypeOK
  <2>1. 0 \in {Cardinality(S) : S \in SUBSET Faces}
    BY FS_EmptySet
  <2>2. L!Off \in Updates
    BY <2>1 DEF L!Off, Updates, L!Eyes
  <2>3. L!Nothing \in Memory
    BY DEF L!Nothing, Memory, L!Eyes
  <2>. QED BY <2>2, <2>3 DEF L!Init, LTypeOK
<1>2. MemoryIsOwn
  BY DEF L!Init, MemoryIsOwn, L!Nothing
<1>3. UpdateIsOwn /\ VerdictsAreEarned
  BY DEF L!Init, UpdateIsOwn, VerdictsAreEarned, L!Off
<1>. QED BY <1>1, <1>2, <1>3 DEF LInv

\* What was seen stays seen.
LEMMA SeenStays ==
    ASSUME LTypeOK, seen' = seen \/ \E x \in Sighting : seen' = Append(seen, x)
    PROVE  /\ seen' \in Seq(Sighting)
           /\ \A i \in DOMAIN seen : i \in DOMAIN seen' /\ seen'[i] = seen[i]
BY DEF LTypeOK

LEMMA SightingsStay ==
    ASSUME \A i \in DOMAIN seen : i \in DOMAIN seen' /\ seen'[i] = seen[i], NEW f
    PROVE  /\ \A i \in Sightings(f) : i \in Sightings(f)' /\ seen'[i] = seen[i]
           /\ ClosedSeen(f) => ClosedSeen(f)'
           /\ \A at : OpenSeen(f, at) => OpenSeen(f, at)'
           /\ \A box : BoxSeen(f, box) => BoxSeen(f, box)'
<1>1. \A i \in Sightings(f) : i \in Sightings(f)' /\ seen'[i] = seen[i]
  BY DEF Sightings
<1>2. ClosedSeen(f) => ClosedSeen(f)'
  BY <1>1 DEF ClosedSeen
<1>3. ASSUME NEW at, OpenSeen(f, at) PROVE OpenSeen(f, at)'
  BY <1>1, <1>3 DEF OpenSeen
<1>4. ASSUME NEW box, BoxSeen(f, box) PROVE BoxSeen(f, box)'
  BY <1>1, <1>4 DEF BoxSeen
<1>. QED BY <1>1, <1>2, <1>3, <1>4

LEMMA EarnedStays ==
    ASSUME \A i \in DOMAIN seen : i \in DOMAIN seen' /\ seen'[i] = seen[i],
           NEW f, NEW now, Earned(f, now)
    PROVE  Earned(f, now)'
<1>1. \A i \in Sightings(f) : i \in Sightings(f)' /\ seen'[i] = seen[i]
  BY SightingsStay
<1>. QED BY <1>1 DEF Earned

\* Steps that see nothing and touch one face and one update only.
LEMMA OneStep ==
    ASSUME LInv, NEW t \in Viewers, NEW u \in Updates,
           update' = [update EXCEPT ![t] = u],
           NEW f \in Faces, NEW m \in Memory, memory' = [memory EXCEPT ![f] = m],
           UNCHANGED <<clock, seen>>, DOMAIN last' \subseteq Faces,
           m.eye = "closed" => ClosedSeen(f),
           \A b \in m.blinks : ClosedSeen(f) /\ OpenSeen(f, b),
           \A box \in m.boxes : BoxSeen(f, box),
           u.step # "off" => /\ u.face \in Faces
                             /\ u.eye = "closed" => ClosedSeen(u.face)
                             /\ u.eye = "open" => OpenSeen(u.face, u.now),
           u.step = "judged" /\ u.live => Earned(u.face, u.now)
    PROVE  LInv'
<1>1. LTypeOK'
  BY DEF LInv, LTypeOK
<1>2. \A g : /\ ClosedSeen(g)' = ClosedSeen(g)
             /\ \A x : OpenSeen(g, x)' = OpenSeen(g, x) /\ BoxSeen(g, x)' = BoxSeen(g, x)
  BY DEF ClosedSeen, OpenSeen, BoxSeen, Sightings
<1>3. MemoryIsOwn'
  <2>1. SUFFICES ASSUME NEW g \in Faces
                 PROVE  /\ memory'[g].eye = "closed" => ClosedSeen(g)
                        /\ \A b \in memory'[g].blinks : ClosedSeen(g) /\ OpenSeen(g, b)
                        /\ \A box \in memory'[g].boxes : BoxSeen(g, box)
    BY <1>2 DEF MemoryIsOwn
  <2>2. CASE g = f
    BY <2>2 DEF LInv, LTypeOK
  <2>3. CASE g # f
    BY <2>3 DEF LInv, LTypeOK, MemoryIsOwn
  <2>. QED BY <2>2, <2>3
<1>4. UpdateIsOwn' /\ VerdictsAreEarned'
  <2>1. ASSUME NEW v \in Viewers
        PROVE  /\ update'[v].step # "off" =>
                     /\ update'[v].face \in Faces
                     /\ update'[v].eye = "closed" => ClosedSeen(update'[v].face)
                     /\ update'[v].eye = "open" => OpenSeen(update'[v].face, update'[v].now)
               /\ update'[v].step = "judged" /\ update'[v].live =>
                     Earned(update'[v].face, update'[v].now)
    <3>1. CASE v = t
      BY <3>1 DEF LInv, LTypeOK
    <3>2. CASE v # t
      <4>1. update'[v] = update[v]
        BY <3>2 DEF LInv, LTypeOK
      <4>. QED BY <4>1 DEF LInv, UpdateIsOwn, VerdictsAreEarned, L!Face, L!Now
    <3>. QED BY <3>1, <3>2
  <2>2. \A g, x : Earned(g, x)' = Earned(g, x)
    BY DEF Earned, Sightings
  <2>3. UpdateIsOwn'
    BY <2>1, <1>2 DEF UpdateIsOwn, L!Face, L!Now
  <2>4. VerdictsAreEarned'
    BY <2>1, <2>2 DEF VerdictsAreEarned, L!Face, L!Now
  <2>. QED BY <2>3, <2>4
<1>. QED BY <1>1, <1>3, <1>4 DEF LInv

LEMMA SecondKeeps == ASSUME LInv, L!Second PROVE LInv'
<1>1. LTypeOK'
  BY DEF LInv, LTypeOK, L!Second
<1>2. UNCHANGED <<last, memory, update, seen>>
  BY DEF L!Second
<1>3. MemoryIsOwn' /\ UpdateIsOwn' /\ VerdictsAreEarned'
  BY <1>2 DEF LInv, MemoryIsOwn, UpdateIsOwn, VerdictsAreEarned, Earned, ClosedSeen, OpenSeen,
              BoxSeen, Sightings, L!Face, L!Now
<1>. QED BY <1>1, <1>3 DEF LInv

LEMMA SightKeeps ==
    ASSUME LInv, NEW t \in Viewers, NEW f \in Faces, NEW eye \in L!Eyes, NEW pos \in L!Positions,
           L!Sight(t, f, eye, pos)
    PROVE  LInv'
<1>0. PICK c : c = clock
  OBVIOUS
<1>. DEFINE x == [face |-> f, at |-> c, eye |-> eye, pos |-> pos]
            u == [L!Off EXCEPT !.step = "walk", !.face = f, !.now = c, !.eye = eye,
                             !.size = L!Cardinality(DOMAIN last \cup {f})]
            m == [memory[f] EXCEPT !.boxes = @ \cup {<<c, pos>>}]
<1>1. /\ memory[f] \in Memory /\ c \in Nat /\ x \in Sighting
      /\ Len(seen) \in Nat /\ DOMAIN seen = 1..Len(seen)
  BY <1>0 DEF LInv, LTypeOK, Sighting
<1>2. /\ update' = [update EXCEPT ![t] = u] /\ memory' = [memory EXCEPT ![f] = m]
      /\ seen' = Append(seen, x) /\ clock' = clock
      /\ last' = [g \in DOMAIN last \cup {f} |-> IF g = f THEN clock ELSE last[g]]
  BY <1>0 DEF L!Sight, L!Go
<1>3. u \in Updates /\ u.step = "walk" /\ u.face = f /\ u.now = c /\ u.eye = eye
  BY <1>1, SightingsCount DEF L!Off, Updates, LInv, LTypeOK
<1>4. /\ m \in Memory /\ m.eye = memory[f].eye /\ m.blinks = memory[f].blinks
      /\ m.boxes = memory[f].boxes \cup {<<c, pos>>}
  BY <1>1 DEF Memory
<1>5. /\ \A i \in DOMAIN seen : i \in DOMAIN seen' /\ seen'[i] = seen[i]
      /\ Len(seen) + 1 \in DOMAIN seen' /\ seen'[Len(seen) + 1] = x
      /\ seen' \in Seq(Sighting)
  BY <1>1, <1>2 DEF LInv, LTypeOK
<1>6. \A g : /\ ClosedSeen(g) => ClosedSeen(g)'
             /\ \A y : (OpenSeen(g, y) => OpenSeen(g, y)') /\ (BoxSeen(g, y) => BoxSeen(g, y)')
  BY <1>5, SightingsStay
<1>7. /\ eye = "closed" => ClosedSeen(f)'
      /\ eye = "open" => OpenSeen(f, c)'
      /\ BoxSeen(f, <<c, pos>>)'
  <2>1. Len(seen) + 1 \in Sightings(f)'
    BY <1>5 DEF Sightings
  <2>2. x.eye = eye /\ x.at = c /\ x.pos = pos
    OBVIOUS
  <2>3. <<c, pos>>[1] = c /\ <<c, pos>>[2] = pos
    OBVIOUS
  <2>. HIDE DEF x
  <2>. QED BY <2>1, <2>2, <2>3, <1>5 DEF ClosedSeen, OpenSeen, BoxSeen
<1>. HIDE DEF m, u
<1>8. LTypeOK'
  <2>1. DOMAIN last' \subseteq Faces
    BY <1>2 DEF LInv, LTypeOK
  <2>2. memory' \in [Faces -> Memory] /\ update' \in [Viewers -> Updates]
    BY <1>2, <1>3, <1>4 DEF LInv, LTypeOK
  <2>. QED BY <2>1, <2>2, <1>2, <1>5 DEF LTypeOK, LInv
<1>9. MemoryIsOwn'
  <2>1. ASSUME NEW g \in Faces
        PROVE  /\ memory'[g].eye = "closed" => ClosedSeen(g)'
               /\ \A b \in memory'[g].blinks : ClosedSeen(g)' /\ OpenSeen(g, b)'
               /\ \A box \in memory'[g].boxes : BoxSeen(g, box)'
    <3>1. memory'[g] = IF g = f THEN m ELSE memory[g]
      BY <1>2 DEF LInv, LTypeOK
    <3>2. /\ memory'[g].eye = memory[g].eye /\ memory'[g].blinks = memory[g].blinks
          /\ memory'[g].boxes \subseteq memory[g].boxes \cup (IF g = f THEN {<<c, pos>>} ELSE {})
      BY <3>1, <1>4
    <3>3. /\ memory[g].eye = "closed" => ClosedSeen(g)
          /\ \A b \in memory[g].blinks : ClosedSeen(g) /\ OpenSeen(g, b)
          /\ \A box \in memory[g].boxes : BoxSeen(g, box)
      BY DEF LInv, MemoryIsOwn
    <3>4. memory'[g].eye = "closed" => ClosedSeen(g)'
      BY <3>2, <3>3, <1>6
    <3>5. \A b \in memory'[g].blinks : ClosedSeen(g)' /\ OpenSeen(g, b)'
      BY <3>2, <3>3, <1>6
    <3>6. ASSUME NEW box \in memory'[g].boxes PROVE BoxSeen(g, box)'
      <4>1. CASE box \in memory[g].boxes
        BY <4>1, <3>3, <1>6
      <4>2. CASE g = f /\ box = <<c, pos>>
        BY <4>2, <1>7
      <4>. QED BY <4>1, <4>2, <3>2
    <3>. QED BY <3>4, <3>5, <3>6
  <2>. QED BY <2>1 DEF MemoryIsOwn
<1>10. UpdateIsOwn' /\ VerdictsAreEarned'
  <2>1. ASSUME NEW v \in Viewers, NEW o, o = update'[v]
        PROVE  /\ o.step # "off" =>
                     /\ o.face \in Faces
                     /\ o.eye = "closed" => ClosedSeen(o.face)'
                     /\ o.eye = "open" => OpenSeen(o.face, o.now)'
               /\ o.step = "judged" /\ o.live => Earned(o.face, o.now)'
    <3>1. CASE v = t
      <4>1. o = u
        BY <3>1, <2>1, <1>2 DEF LInv, LTypeOK
      <4>. QED BY <4>1, <1>3, <1>7
    <3>2. CASE v # t
      <4>1. o = update[v]
        BY <3>2, <2>1, <1>2 DEF LInv, LTypeOK
      <4>2. /\ o.step # "off" =>
                     /\ o.face \in Faces
                     /\ o.eye = "closed" => ClosedSeen(o.face)
                     /\ o.eye = "open" => OpenSeen(o.face, o.now)
            /\ o.step = "judged" /\ o.live => Earned(o.face, o.now)
        BY <4>1 DEF LInv, UpdateIsOwn, VerdictsAreEarned, L!Face, L!Now
      <4>3. Earned(o.face, o.now) => Earned(o.face, o.now)'
        BY <1>5, EarnedStays
      <4>. QED BY <4>2, <4>3, <1>6
    <3>. QED BY <3>1, <3>2
  <2>2. UpdateIsOwn'
    BY <2>1 DEF UpdateIsOwn, L!Face, L!Now
  <2>3. VerdictsAreEarned'
    BY <2>1 DEF VerdictsAreEarned, L!Face, L!Now
  <2>. QED BY <2>2, <2>3
<1>. QED BY <1>8, <1>9, <1>10 DEF LInv

\* A step that touches no face.
LEMMA UpdateOnly ==
    ASSUME LInv, NEW t \in Viewers, update[t].step # "off", NEW u \in Updates,
           update' = [update EXCEPT ![t] = u], UNCHANGED <<clock, last, memory, seen>>,
           u.step # "off" => u.face = L!Face(t) /\ u.eye = update[t].eye /\ u.now = L!Now(t),
           u.step = "judged" /\ u.live => Earned(u.face, u.now)
    PROVE  LInv'
<1>1. PICK f : f = L!Face(t)
  OBVIOUS
<1>2. f \in Faces
  BY <1>1 DEF LInv, UpdateIsOwn
<1>3. memory[f] \in Memory /\ memory' = [memory EXCEPT ![f] = memory[f]]
  BY <1>2 DEF LInv, LTypeOK
<1>4. /\ memory[f].eye = "closed" => ClosedSeen(f)
      /\ \A b \in memory[f].blinks : ClosedSeen(f) /\ OpenSeen(f, b)
      /\ \A box \in memory[f].boxes : BoxSeen(f, box)
  BY <1>2 DEF LInv, MemoryIsOwn
<1>5. u.step # "off" => /\ u.face \in Faces
                        /\ u.eye = "closed" => ClosedSeen(u.face)
                        /\ u.eye = "open" => OpenSeen(u.face, u.now)
  BY DEF LInv, UpdateIsOwn
<1>6. DOMAIN last' \subseteq Faces
  BY DEF LInv, LTypeOK
<1>. QED BY <1>2, <1>3, <1>4, <1>5, <1>6, OneStep

LEMMA WalkKeeps == ASSUME LInv, NEW t \in Viewers, L!Walk(t) PROVE LInv'
<1>1. update[t] \in Updates /\ update[t].step # "off"
  BY DEF LInv, LTypeOK, L!Walk, L!At
<1>2. UNCHANGED <<clock, last, memory, seen>>
  BY DEF L!Walk
<1>3. CASE L!Cardinality(DOMAIN last) = update[t].size
  <2>. DEFINE u == [update[t] EXCEPT !.step = "prune",
                       !.stale = {f \in DOMAIN last : L!Now(t) - last[f] > Ttl}]
  <2>1. CASE update' = [update EXCEPT ![t] = u]
    <3>1. u \in Updates /\ u.step = "prune" /\ u.face = L!Face(t) /\ u.eye = update[t].eye /\ u.now = L!Now(t)
      BY <1>1 DEF Updates, LInv, LTypeOK, L!Face, L!Now
    <3>. HIDE DEF u
    <3>. QED BY <2>1, <3>1, <1>1, <1>2, UpdateOnly
  <2>2. CASE update' = [update EXCEPT ![t] = L!Off]
    <3>1. L!Off \in Updates /\ L!Off.step = "off"
      BY FS_EmptySet DEF L!Off, Updates, L!Eyes
    <3>. QED BY <2>2, <3>1, <1>1, <1>2, UpdateOnly
  <2>. QED BY <2>1, <2>2 DEF L!Walk, L!Go
<1>4. CASE update' = [update EXCEPT ![t] = L!Off]
  <2>1. L!Off \in Updates /\ L!Off.step = "off"
    BY FS_EmptySet DEF L!Off, Updates, L!Eyes
  <2>. QED BY <1>4, <2>1, <1>1, <1>2, UpdateOnly
<1>. QED BY <1>3, <1>4 DEF L!Walk, L!Go

LEMMA ResetKeeps == ASSUME LInv, NEW t \in Viewers, NEW f \in Faces, L!Reset(t, f) PROVE LInv'
<1>. DEFINE u == [update[t] EXCEPT !.stale = @ \ {f}]
<1>1. /\ update[t] \in Updates /\ update[t].step = "prune"
      /\ update' = [update EXCEPT ![t] = u] /\ memory' = [memory EXCEPT ![f] = L!Nothing]
      /\ UNCHANGED <<clock, seen>> /\ DOMAIN last' \subseteq Faces
  BY DEF LInv, LTypeOK, L!Reset, L!At, L!Go
<1>2. u \in Updates /\ u.step = "prune" /\ u.face = L!Face(t) /\ u.eye = update[t].eye /\ u.now = L!Now(t)
  BY <1>1 DEF Updates, L!Face, L!Now
<1>3. L!Nothing \in Memory /\ L!Nothing.eye = "open" /\ L!Nothing.blinks = {} /\ L!Nothing.boxes = {}
  BY DEF L!Nothing, Memory, L!Eyes
<1>4. u.step # "off" => /\ u.face \in Faces
                        /\ u.eye = "closed" => ClosedSeen(u.face)
                        /\ u.eye = "open" => OpenSeen(u.face, u.now)
  BY <1>1, <1>2 DEF LInv, UpdateIsOwn
<1>. HIDE DEF u
<1>. QED BY <1>1, <1>2, <1>3, <1>4, OneStep

LEMMA BlinkKeeps == ASSUME LInv, NEW t \in Viewers, L!Blink(t) PROVE LInv'
<1>1. PICK f : f = L!Face(t)
  OBVIOUS
<1>. DEFINE u == [update[t] EXCEPT !.step = "judge"]
            m == [eye |-> IF update[t].eye = "unclear" THEN memory[f].eye ELSE update[t].eye,
                  blinks |-> memory[f].blinks \cup
                                (IF L!Blinks(update[t].eye, memory[f].eye) THEN {L!Now(t)} ELSE {}),
                  boxes |-> memory[f].boxes]
<1>2. /\ update[t] \in Updates /\ update[t].step = "prune"
      /\ update' = [update EXCEPT ![t] = u]
      /\ UNCHANGED <<clock, seen>> /\ DOMAIN last' \subseteq Faces
  BY DEF LInv, LTypeOK, L!Blink, L!At, L!Go
<1>3. f \in Faces /\ memory[f] \in Memory
  BY <1>1, <1>2 DEF LInv, UpdateIsOwn, LTypeOK
<1>4. memory' = [memory EXCEPT ![f] = m]
  BY <1>1 DEF L!Blink
<1>5. u \in Updates /\ u.step = "judge" /\ u.face = f /\ u.eye = update[t].eye /\ u.now = L!Now(t)
  BY <1>1, <1>2 DEF Updates, L!Face, L!Now
<1>6. /\ m.boxes = memory[f].boxes /\ m.eye \in {memory[f].eye, update[t].eye}
      /\ m.blinks = memory[f].blinks \cup
            (IF update[t].eye = "open" /\ memory[f].eye = "closed" THEN {L!Now(t)} ELSE {})
  BY DEF L!Blinks
<1>11. m \in Memory
  <2>1. /\ memory[f].eye \in L!Eyes /\ memory[f].blinks \in SUBSET Nat
        /\ memory[f].boxes \in SUBSET (Nat \X L!Positions)
        /\ update[t].eye \in L!Eyes /\ L!Now(t) \in Nat
    BY <1>2, <1>3 DEF Memory, Updates, L!Now
  <2>. QED BY <2>1 DEF Memory
<1>7. /\ update[t].eye = "closed" => ClosedSeen(f)
      /\ update[t].eye = "open" => OpenSeen(f, L!Now(t))
  BY <1>1, <1>2 DEF LInv, UpdateIsOwn
<1>8. /\ memory[f].eye = "closed" => ClosedSeen(f)
      /\ \A b \in memory[f].blinks : ClosedSeen(f) /\ OpenSeen(f, b)
      /\ \A box \in memory[f].boxes : BoxSeen(f, box)
  BY <1>3 DEF LInv, MemoryIsOwn
<1>. HIDE DEF u, m
<1>9. m.eye = "closed" => ClosedSeen(f)
  BY <1>6, <1>7, <1>8
<1>10. ASSUME NEW b \in m.blinks PROVE ClosedSeen(f) /\ OpenSeen(f, b)
  <2>1. CASE update[t].eye = "open" /\ memory[f].eye = "closed"
    BY <2>1, <1>6, <1>7, <1>8
  <2>2. CASE ~(update[t].eye = "open" /\ memory[f].eye = "closed")
    BY <2>2, <1>6, <1>8
  <2>. QED BY <2>1, <2>2
<1>12. \A box \in m.boxes : BoxSeen(f, box)
  BY <1>6, <1>8
<1>13. /\ u.step # "off" => /\ u.face \in Faces
                            /\ u.eye = "closed" => ClosedSeen(u.face)
                            /\ u.eye = "open" => OpenSeen(u.face, u.now)
       /\ u.step # "judged"
  BY <1>3, <1>5, <1>7
<1>14. u \in Updates
  BY <1>5
<1>. QED BY <1>2, <1>3, <1>4, <1>9, <1>10, <1>11, <1>12, <1>13, <1>14, OneStep

\* The verdict: every instant it looks at was a sighting.
LEMMA JudgeKeeps == ASSUME LInv, NEW t \in Viewers, L!Judge(t) PROVE LInv'
<1>1. PICK f : f = L!Face(t)
  OBVIOUS
<1>2. PICK n : n = L!Now(t)
  OBVIOUS
<1>. DEFINE u == [update[t] EXCEPT !.step = "judged", !.live = L!blink_ok(t) /\ L!motion_ok(t)]
<1>3. /\ update[t] \in Updates /\ update[t].step = "judge"
      /\ update' = [update EXCEPT ![t] = u] /\ UNCHANGED <<clock, last, memory, seen>>
  BY DEF LInv, LTypeOK, L!Judge, L!At, L!Go
<1>4. f \in Faces /\ n \in Nat /\ memory[f] \in Memory
  BY <1>1, <1>2, <1>3 DEF LInv, UpdateIsOwn, LTypeOK, Updates, L!Now
<1>5. /\ u \in Updates /\ u.step = "judged" /\ u.face = f /\ u.eye = update[t].eye
      /\ u.now = n /\ (u.live <=> L!blink_ok(t) /\ L!motion_ok(t))
  BY <1>1, <1>2, <1>3 DEF Updates, L!Face, L!Now, L!blink_ok, L!motion_ok
<1>6. /\ \A b \in memory[f].blinks : ClosedSeen(f) /\ OpenSeen(f, b)
      /\ \A box \in memory[f].boxes : BoxSeen(f, box)
  BY <1>4 DEF LInv, MemoryIsOwn
<1>7. ASSUME L!blink_ok(t), L!motion_ok(t) PROVE Earned(f, n)
  <2>1. PICK b \in memory[f].blinks : b >= n - BlinkWindow
    BY <1>1, <1>2, <1>7 DEF L!blink_ok
  <2>2. \E i, j \in Sightings(f) :
          seen[i].eye = "closed" /\ seen[j].eye = "open" /\ seen[j].at >= n - BlinkWindow
    BY <2>1, <1>6 DEF ClosedSeen, OpenSeen
  <2>3. PICK c \in memory[f].boxes, d \in memory[f].boxes :
           c[1] >= n - MotionWindow /\ d[1] >= n - MotionWindow /\ c[2] # d[2]
    BY <1>1, <1>2, <1>7 DEF L!motion_ok
  <2>4. BoxSeen(f, c) /\ BoxSeen(f, d)
    BY <2>3, <1>6
  <2>. QED BY <2>2, <2>3, <2>4 DEF BoxSeen, Earned
<1>. HIDE DEF u
<1>. QED BY <1>1, <1>2, <1>3, <1>5, <1>7, UpdateOnly

LEMMA ReturnKeeps == ASSUME LInv, NEW t \in Viewers, L!Return(t) PROVE LInv'
<1>1. L!Off \in Updates /\ L!Off.step = "off"
  BY FS_EmptySet DEF L!Off, Updates, L!Eyes
<1>. QED BY <1>1, UpdateOnly DEF L!Return, L!At, L!Go

LEMMA LNext == ASSUME LInv, [L!Next]_(L!lvars) PROVE LInv'
<1>1. CASE UNCHANGED L!lvars
  BY <1>1 DEF L!lvars, LInv, LTypeOK, MemoryIsOwn, UpdateIsOwn, VerdictsAreEarned, Earned, ClosedSeen,
              OpenSeen, BoxSeen, Sightings, L!Face, L!Now
<1>2. CASE L!Next
  BY <1>2, SecondKeeps, SightKeeps, WalkKeeps, BlinkKeeps, JudgeKeeps, ReturnKeeps, ResetKeeps
  DEF L!Next
<1>. QED BY <1>1, <1>2

\* A live verdict rests on what was seen of the same face, whatever the other
\* threads of the worker add, prune and reset meanwhile (liveness.update, _prune).
THEOREM LiveEarned == FramesSpec => []LiveIsEarned
<1>1. FramesInit => LInv
  BY LInit DEF FramesInit, Begin
<1>2. LInv /\ [FramesNext]_all => LInv'
  <2>1. [FramesNext]_all => [L!Next]_(L!lvars)
    BY DEF FramesNext, all, tracker, L!lvars
  <2>. QED BY <2>1, LNext
<1>3. LInv => LiveIsEarned
  BY DEF LInv, VerdictsAreEarned, Earned, LiveIsEarned, L!LiveIsEarned, Sightings, L!At
<1>. QED BY <1>1, <1>2, <1>3, PTL DEF FramesSpec

-----------------------------------------------------------------------------
(* Enrolment. *)
LEMMA SamplesCount == \A S : E!Cardinality(S) = Cardinality(S)
BY DEF E!Cardinality, Cardinality

CropRecords == [index : Nat, face : Folders, enc : BOOLEAN]
ESteps == {"idle", "gate", "save", "bump", "check", "retrain", "encrypt"}

ETypeOK ==
    /\ samples \in [Folders -> SUBSET CropRecords]
    /\ \A f \in Folders : IsFiniteSet(samples[f])
    /\ capture \in [Workers -> [folder : Folders, count : Nat, idx : Nat]]
    /\ request \in [Folders -> [step : ESteps, worker : Workers \cup {"none"}]]
    /\ page \in [Folders -> {"closed", "open", "done"}]
    /\ deletes \in Nat
    /\ \A f \in Folders : request[f].worker = "none" <=> request[f].step = "idle"

\* CropRecords numbered from 0 without a gap, each number once.
Numbered(S) ==
    /\ \A r, s \in S : r.index = s.index => r = s
    /\ {s.index : s \in S} = 0..(Cardinality(S) - 1)

Active(f) == request[f].step # "idle"

\* A request in hand has the dictionary of its worker for itself.
HasWorker(f) ==
    Active(f) => /\ page[f] = "open" /\ E!Cap(f).folder = f
                 /\ \A g \in Folders : request[g].worker = request[f].worker => g = f

\* The folder of f, the number its request has for the next crop, and its page.
Counted(f) ==
    /\ Numbered(samples[f]) /\ E!SavedSampleCount(f) <= NIMGS
    /\ Active(f) => E!SavedSampleCount(f) = IF E!At(f, "bump") THEN E!Cap(f).count + 1 ELSE E!Cap(f).count
    /\ E!At(f, "retrain") \/ E!At(f, "encrypt") \/ page[f] = "done" => E!SavedSampleCount(f) = NIMGS

OwnFolder(f) ==
    /\ HasWorker(f)
    /\ \A s \in samples[f] : s.face = f
    /\ deletes = 0 => Counted(f)

EInv == ETypeOK /\ (~ crossed => \A f \in Folders : OwnFolder(f))

-----------------------------------------------------------------------------
LEMMA NothingIsNumbered == Numbered({})
<1>1. Cardinality({}) = 0
  BY FS_EmptySet
<1>2. 0..(0 - 1) = {}
  OBVIOUS
<1>. QED BY <1>1, <1>2 DEF Numbered

LEMMA NextNumber ==
    ASSUME NEW S \in SUBSET CropRecords, IsFiniteSet(S), Numbered(S), NEW c \in CropRecords, c.index = Cardinality(S)
    PROVE  /\ {s \in S : s.index # c.index \/ s.enc} = S
           /\ Numbered(S \cup {c}) /\ Cardinality(S \cup {c}) = Cardinality(S) + 1
<1>. DEFINE n == Cardinality(S)
<1>1. n \in Nat
  BY FS_CardinalityType
<1>2. \A s \in S : s.index # n
  <2>1. \A s \in S : s.index \in 0..(n - 1)
    BY DEF Numbered
  <2>. QED BY <2>1, <1>1
<1>3. c \notin S
  BY <1>2
<1>4. Cardinality(S \cup {c}) = n + 1
  BY <1>3, FS_AddElement
<1>5. {s.index : s \in S \cup {c}} = 0..n
  <2>1. {s.index : s \in S \cup {c}} = {s.index : s \in S} \cup {n}
    OBVIOUS
  <2>2. {s.index : s \in S} = 0..(n - 1)
    BY DEF Numbered
  <2>3. 0..n = 0..(n - 1) \cup {n}
    BY <1>1
  <2>. QED BY <2>1, <2>2, <2>3
<1>6. \A r, s \in S \cup {c} : r.index = s.index => r = s
  BY <1>2 DEF Numbered
<1>7. (n + 1) - 1 = n
  BY <1>1
<1>. HIDE DEF n
<1>8. Numbered(S \cup {c})
  BY <1>4, <1>5, <1>6, <1>7 DEF Numbered
<1>. QED BY <1>2, <1>4, <1>8 DEF n

LEMMA EncryptedIs ==
    ASSUME NEW S \in SUBSET CropRecords, IsFiniteSet(S)
    PROVE  /\ E!Encrypted(S) \in SUBSET CropRecords /\ IsFiniteSet(E!Encrypted(S))
           /\ \A f : (\A s \in S : s.face = f) => \A s \in E!Encrypted(S) : s.face = f
           /\ Numbered(S) => Numbered(E!Encrypted(S)) /\ Cardinality(E!Encrypted(S)) = Cardinality(S)
<1>1. \A s \in S : /\ [s EXCEPT !.enc = TRUE] \in CropRecords /\ [s EXCEPT !.enc = TRUE].face = s.face
                   /\ [s EXCEPT !.enc = TRUE].index = s.index
  BY DEF CropRecords
<1>2. E!Encrypted(S) \in SUBSET CropRecords /\ \A f : (\A s \in S : s.face = f) => \A s \in E!Encrypted(S) : s.face = f
  BY <1>1 DEF E!Encrypted
<1>. DEFINE h == [s \in S |-> [s EXCEPT !.enc = TRUE]]
<1>3. h \in Surjection(S, E!Encrypted(S))
  BY DEF Surjection, E!Encrypted
<1>4. IsFiniteSet(E!Encrypted(S))
  <2>. HIDE DEF h
  <2>. QED BY <1>3, FS_Surjection
<1>5. ASSUME Numbered(S) PROVE Numbered(E!Encrypted(S)) /\ Cardinality(E!Encrypted(S)) = Cardinality(S)
  <2>1. IsInjective(h)
    <3>. SUFFICES ASSUME NEW r \in S, NEW s \in S, h[r] = h[s] PROVE r = s
      BY DEF IsInjective
    <3>1. r.index = s.index
      BY <1>1
    <3>. QED BY <3>1, <1>5 DEF Numbered
  <2>2. h \in Injection(S, E!Encrypted(S))
    BY <2>1, <1>3 DEF Injection, Surjection
  <2>3. Cardinality(E!Encrypted(S)) = Cardinality(S)
    <3>. HIDE DEF h
    <3>. QED BY <2>2, <1>3, <1>4, FS_Injection
  <2>4. {s.index : s \in E!Encrypted(S)} = {s.index : s \in S}
    BY <1>1 DEF E!Encrypted
  <2>5. \A r, s \in E!Encrypted(S) : r.index = s.index => r = s
    <3>. SUFFICES ASSUME NEW r \in S, NEW s \in S, [r EXCEPT !.enc = TRUE].index = [s EXCEPT !.enc = TRUE].index
                  PROVE  r = s
      BY DEF E!Encrypted
    <3>1. r.index = s.index
      BY <1>1
    <3>. QED BY <3>1, <1>5 DEF Numbered
  <2>. QED BY <2>3, <2>4, <2>5, <1>5 DEF Numbered
<1>. QED BY <1>2, <1>4, <1>5

LEMMA EInit == E!Init => EInv
<1>. SUFFICES ASSUME E!Init PROVE EInv
  OBVIOUS
<1>1. PICK f \in Folders : capture = [w \in Workers |-> [folder |-> f, count |-> 0, idx |-> 0]]
  BY DEF E!Init
<1>2. ETypeOK
  BY <1>1, FS_EmptySet DEF E!Init, ETypeOK, E!NoRequest, ESteps
<1>3. ASSUME NEW g \in Folders PROVE HasWorker(g) /\ samples[g] = {} /\ Counted(g)
  <2>1. samples[g] = {} /\ request[g] = [step |-> "idle", worker |-> "none"] /\ page[g] = "closed"
    BY DEF E!Init, E!NoRequest
  <2>2. Cardinality({}) = 0 /\ 0 <= NIMGS
    BY FS_EmptySet, CapturesAssumption
  <2>. QED BY <2>1, <2>2, NothingIsNumbered, SamplesCount DEF HasWorker, Active, Counted, E!At, E!SavedSampleCount
<1>. QED BY <1>2, <1>3 DEF EInv, OwnFolder

LEMMA EStutter == EInv /\ UNCHANGED E!vars => EInv'
BY SamplesCount DEF EInv, E!vars, ETypeOK, OwnFolder, HasWorker, Active, E!Cap, Counted, E!At, E!SavedSampleCount

\* What a step about f leaves of another folder.
LEMMA Others ==
    ASSUME EInv, ~ crossed, NEW f \in Folders, NEW g \in Folders, g # f,
           \A h \in Folders : h # f => /\ request'[h] = request[h] /\ samples'[h] = samples[h]
                                      /\ page'[h] = page[h],
           Active(g) => /\ capture'[request[g].worker] = capture[request[g].worker]
                        /\ request'[f].worker # request[g].worker,
           deletes' = deletes
    PROVE  OwnFolder(g)'
<1>1. OwnFolder(g) /\ request'[g] = request[g] /\ samples'[g] = samples[g] /\ page'[g] = page[g]
  BY DEF EInv
<1>2. Active(g)' <=> Active(g)
  BY <1>1 DEF Active
<1>3. Active(g) => E!Cap(g)' = E!Cap(g)
  BY <1>1 DEF E!Cap
<1>4. HasWorker(g)'
  BY <1>1, <1>2, <1>3 DEF OwnFolder, HasWorker
<1>5. deletes = 0 => Counted(g)'
  BY <1>1, <1>2, <1>3, SamplesCount DEF OwnFolder, Counted, E!At, E!SavedSampleCount
<1>. QED BY <1>1, <1>4, <1>5 DEF OwnFolder

LEMMA EAdd ==
    ASSUME EInv, NEW f \in Folders, NEW w \in Workers, E!Add(f, w)
    PROVE  EInv'
<1>1. /\ ETypeOK /\ page[f] # "open" /\ ~ Active(f) /\ ~ crossed /\ crossed' = (E!InHand(w) # {})
      /\ capture' = [capture EXCEPT ![w] = [folder |-> f, count |-> 0, idx |-> 0]]
      /\ page' = [page EXCEPT ![f] = "open"]
      /\ UNCHANGED <<samples, request, known, encrypt, deletes, encrypts>> /\ samples[f] = {}
  BY DEF EInv, E!Add, E!At, E!Take, Active
<1>2. ETypeOK'
  BY <1>1 DEF ETypeOK
<1>3. ASSUME ~ crossed', NEW g \in Folders, g # f PROVE OwnFolder(g)'
  <2>1. request[g].worker # w
    BY <1>1, <1>3 DEF E!InHand
  <2>2. OwnFolder(f) /\ OwnFolder(g)
    BY <1>1 DEF EInv
  <2>3. Active(g) => /\ capture'[request[g].worker] = capture[request[g].worker]
                     /\ request'[f].worker # request[g].worker
    BY <1>1, <2>1, <2>2, <1>3 DEF ETypeOK, OwnFolder, HasWorker
  <2>4. \A h \in Folders : h # f => /\ request'[h] = request[h] /\ samples'[h] = samples[h]
                                   /\ page'[h] = page[h]
    BY <1>1 DEF ETypeOK
  <2>. QED BY <1>1, <1>3, <2>3, <2>4, Others
<1>4. ASSUME ~ crossed' PROVE OwnFolder(f)'
  <2>1. OwnFolder(f) /\ page'[f] = "open" /\ request' = request /\ samples'[f] = {} /\ ~ Active(f)'
    BY <1>1 DEF EInv, ETypeOK, Active
  <2>2. HasWorker(f)'
    BY <2>1 DEF OwnFolder, HasWorker, Active
  <2>3. Cardinality({}) = 0 /\ 0 <= NIMGS
    BY FS_EmptySet, CapturesAssumption
  <2>4. Counted(f)'
    BY <2>1, <2>3, NothingIsNumbered, SamplesCount DEF Counted, E!At, Active, E!SavedSampleCount
  <2>. QED BY <2>1, <2>2, <2>4 DEF OwnFolder
<1>. QED BY <1>1, <1>2, <1>3, <1>4 DEF EInv

LEMMA EPost ==
    ASSUME EInv, NEW f \in Folders, NEW w \in Workers, E!Post(f, w)
    PROVE  EInv'
<1>1. /\ ETypeOK /\ page[f] = "open" /\ ~ Active(f) /\ ~ crossed /\ crossed' = (E!InHand(w) # {})
      /\ capture' = [capture EXCEPT ![w] = [folder |-> f, idx |-> 3, count |-> E!SavedSampleCount(f)]]
      /\ request' = [request EXCEPT ![f] = [step |-> "gate", worker |-> w]]
      /\ UNCHANGED <<samples, page, known, encrypt, deletes, encrypts>>
  BY DEF EInv, E!Post, E!At, E!Take, Active
<1>2. ETypeOK'
  <2>1. E!SavedSampleCount(f) \in Nat
    BY <1>1, FS_CardinalityType, SamplesCount DEF E!SavedSampleCount, ETypeOK
  <2>. QED BY <2>1, <1>1, CapturesAssumption DEF ETypeOK, ESteps, Active
<1>3. ASSUME ~ crossed', NEW g \in Folders, g # f PROVE OwnFolder(g)' /\ request[g].worker # w
  <2>1. request[g].worker # w
    BY <1>1, <1>3 DEF E!InHand
  <2>2. OwnFolder(g)
    BY <1>1 DEF EInv
  <2>3. Active(g) => /\ capture'[request[g].worker] = capture[request[g].worker]
                     /\ request'[f].worker # request[g].worker
    BY <1>1, <2>1, <2>2, <1>3 DEF ETypeOK, OwnFolder, HasWorker
  <2>4. \A h \in Folders : h # f => /\ request'[h] = request[h] /\ samples'[h] = samples[h]
                                   /\ page'[h] = page[h]
    BY <1>1 DEF ETypeOK
  <2>. QED BY <2>1, <1>1, <1>3, <2>3, <2>4, Others
<1>4. ASSUME ~ crossed' PROVE OwnFolder(f)'
  <2>1. /\ OwnFolder(f) /\ page'[f] = "open" /\ samples' = samples /\ deletes' = deletes
        /\ request'[f] = [step |-> "gate", worker |-> w]
        /\ capture'[w] = [folder |-> f, idx |-> 3, count |-> E!SavedSampleCount(f)]
    BY <1>1 DEF EInv, ETypeOK
  <2>2. \A g \in Folders : g # f => request'[g].worker # w
    BY <1>1, <1>3, <1>4 DEF ETypeOK
  <2>3. w # "none"
    BY CapturesAssumption
  <2>4. HasWorker(f)'
    BY <2>1, <2>2, <2>3 DEF OwnFolder, HasWorker, Active, E!Cap
  <2>5. deletes = 0 => Counted(f)'
    <3>1. SUFFICES ASSUME deletes = 0 PROVE Counted(f)'
      OBVIOUS
    <3>2. Counted(f) /\ page[f] = "open"
      BY <2>1, <3>1, <1>1 DEF OwnFolder
    <3>3. E!SavedSampleCount(f)' = E!SavedSampleCount(f) /\ E!Cap(f)'.count = E!SavedSampleCount(f)
      BY <2>1, SamplesCount DEF E!SavedSampleCount, E!Cap
    <3>. QED BY <2>1, <3>2, <3>3 DEF Counted, E!At, Active
  <2>. QED BY <2>1, <2>4, <2>5 DEF OwnFolder
<1>. QED BY <1>1, <1>2, <1>3, <1>4 DEF EInv

\* The dictionary of a request in hand.
LEMMA InTheHand ==
    ASSUME ETypeOK, NEW f \in Folders, Active(f)
    PROVE  /\ request[f].worker \in Workers /\ request[f].worker # "none"
           /\ E!Cap(f) \in [folder : Folders, count : Nat, idx : Nat]
BY DEF ETypeOK, Active, E!Cap

\* A step of f's request: it goes on or ends, and the crops of f, its page and
\* the dictionary of its worker are all that it changes.
LEMMA Proceeding ==
    ASSUME EInv, ETypeOK', NEW f \in Folders, Active(f), crossed' = crossed, deletes' = deletes,
           request'[f].worker \in {request[f].worker, "none"},
           ~ crossed => \A h \in Folders : h # f => /\ request'[h] = request[h] /\ samples'[h] = samples[h]
                                                   /\ page'[h] = page[h],
           \A w \in Workers : w # request[f].worker => capture'[w] = capture[w],
           ~ crossed /\ OwnFolder(f) => OwnFolder(f)'
    PROVE  EInv'
<1>1. ASSUME ~ crossed, NEW g \in Folders PROVE OwnFolder(g)'
  <2>1. OwnFolder(f) /\ OwnFolder(g) /\ ETypeOK
    BY <1>1 DEF EInv
  <2>2. CASE g = f
    BY <2>1, <2>2, <1>1
  <2>3. CASE g # f
    <3>1. Active(g) => /\ request[g].worker # request[f].worker /\ request[g].worker \in Workers
                       /\ request[g].worker # "none"
      BY <2>1, <2>3, InTheHand DEF OwnFolder, HasWorker
    <3>2. Active(g) => /\ capture'[request[g].worker] = capture[request[g].worker]
                       /\ request'[f].worker # request[g].worker
      BY <3>1
    <3>. QED BY <3>2, <2>3, <1>1, Others
  <2>. QED BY <2>2, <2>3
<1>. QED BY <1>1 DEF EInv

LEMMA EGate ==
    ASSUME EInv, NEW f \in Folders, E!Gate(f)
    PROVE  EInv'
<1>. DEFINE w == request[f].worker
<1>0. /\ ETypeOK /\ Active(f) /\ E!At(f, "gate") /\ w \in Workers /\ w # "none"
      /\ E!Cap(f) \in [folder : Folders, count : Nat, idx : Nat]
  <2>1. ETypeOK /\ Active(f) /\ E!At(f, "gate")
    BY DEF EInv, E!Gate, E!At, Active
  <2>. QED BY <2>1, InTheHand
<1>1. /\ capture' = [capture EXCEPT ![w].idx = capture[w].idx + 1]
      /\ request' = [request EXCEPT ![f].step = "save"]
      /\ UNCHANGED <<samples, page, known, encrypt, deletes, encrypts, crossed>>
  BY DEF E!Gate, E!Go
<1>2. ETypeOK'
  BY <1>0, <1>1 DEF ETypeOK, ESteps, E!Cap, Active
<1>3. /\ request'[f].worker = w /\ request'[f].step = "save"
      /\ capture'[w].folder = capture[w].folder /\ capture'[w].count = capture[w].count
      /\ \A h \in Folders : h # f => request'[h] = request[h]
      /\ \A x \in Workers : x # w => capture'[x] = capture[x]
  BY <1>0, <1>1 DEF ETypeOK, E!Cap
<1>4. ASSUME OwnFolder(f) PROVE OwnFolder(f)'
  <2>1. HasWorker(f)'
    BY <1>4, <1>0, <1>1, <1>3 DEF OwnFolder, HasWorker, Active, E!Cap
  <2>2. deletes = 0 => Counted(f)'
    BY <1>4, <1>0, <1>1, <1>3, SamplesCount DEF OwnFolder, Counted, Active, E!Cap, E!At, E!SavedSampleCount
  <2>. QED BY <1>4, <1>1, <2>1, <2>2 DEF OwnFolder
<1>. QED BY <1>0, <1>1, <1>2, <1>3, <1>4, Proceeding

LEMMA ESkip ==
    ASSUME EInv, NEW f \in Folders, E!Skip(f)
    PROVE  EInv'
<1>0. ETypeOK /\ Active(f) /\ E!At(f, "save")
  BY DEF EInv, E!Skip, E!At, Active
<1>1. /\ request' = [request EXCEPT ![f].step = "check"]
      /\ UNCHANGED <<samples, capture, page, known, encrypt, deletes, encrypts, crossed>>
  BY DEF E!Skip, E!Go
<1>2. ETypeOK'
  BY <1>0, <1>1 DEF ETypeOK, ESteps, Active
<1>3. /\ request'[f].worker = request[f].worker /\ request'[f].step = "check"
      /\ \A h \in Folders : h # f => request'[h] = request[h]
  BY <1>0, <1>1 DEF ETypeOK
<1>4. ASSUME OwnFolder(f) PROVE OwnFolder(f)'
  <2>1. HasWorker(f)'
    BY <1>4, <1>0, <1>1, <1>3 DEF OwnFolder, HasWorker, Active, E!Cap
  <2>2. deletes = 0 => Counted(f)'
    BY <1>4, <1>0, <1>1, <1>3, SamplesCount DEF OwnFolder, Counted, Active, E!Cap, E!At, E!SavedSampleCount
  <2>. QED BY <1>4, <1>1, <2>1, <2>2 DEF OwnFolder
<1>. QED BY <1>0, <1>1, <1>2, <1>3, <1>4, Proceeding

LEMMA EBump ==
    ASSUME EInv, NEW f \in Folders, E!Bump(f)
    PROVE  EInv'
<1>. DEFINE w == request[f].worker
<1>0. /\ ETypeOK /\ Active(f) /\ E!At(f, "bump") /\ w \in Workers /\ w # "none"
      /\ E!Cap(f) \in [folder : Folders, count : Nat, idx : Nat]
  <2>1. ETypeOK /\ Active(f) /\ E!At(f, "bump")
    BY DEF EInv, E!Bump, E!At, Active
  <2>. QED BY <2>1, InTheHand
<1>1. /\ capture' = [capture EXCEPT ![w].count = capture[w].count + 1]
      /\ request' = [request EXCEPT ![f].step = "check"]
      /\ UNCHANGED <<samples, page, known, encrypt, deletes, encrypts, crossed>>
  BY DEF E!Bump, E!Go
<1>2. ETypeOK'
  BY <1>0, <1>1 DEF ETypeOK, ESteps, E!Cap, Active
<1>3. /\ request'[f].worker = w /\ request'[f].step = "check"
      /\ capture'[w].folder = capture[w].folder /\ capture'[w].count = capture[w].count + 1
      /\ \A h \in Folders : h # f => request'[h] = request[h]
      /\ \A x \in Workers : x # w => capture'[x] = capture[x]
  BY <1>0, <1>1 DEF ETypeOK, E!Cap
<1>4. ASSUME OwnFolder(f) PROVE OwnFolder(f)'
  <2>1. HasWorker(f)'
    BY <1>4, <1>0, <1>1, <1>3 DEF OwnFolder, HasWorker, Active, E!Cap
  <2>2. deletes = 0 => Counted(f)'
    BY <1>4, <1>0, <1>1, <1>3, SamplesCount DEF OwnFolder, Counted, Active, E!Cap, E!At, E!SavedSampleCount
  <2>. QED BY <1>4, <1>1, <2>1, <2>2 DEF OwnFolder
<1>. QED BY <1>0, <1>1, <1>2, <1>3, <1>4, Proceeding

LEMMA ECheck ==
    ASSUME EInv, NEW f \in Folders, E!Check(f)
    PROVE  EInv'
<1>0. ETypeOK /\ Active(f) /\ E!At(f, "check") /\ NIMGS \in Nat
  BY CapturesAssumption DEF EInv, E!Check, E!At, Active
<1>1. UNCHANGED <<samples, capture, page, known, encrypt, deletes, encrypts, crossed>>
  BY DEF E!Check
<1>2. \/ E!Cap(f).count >= NIMGS /\ request' = [request EXCEPT ![f].step = "retrain"]
      \/ request' = [request EXCEPT ![f] = E!NoRequest]
  BY DEF E!Check, E!Go
<1>3. ETypeOK'
  <2>1. CASE request' = [request EXCEPT ![f].step = "retrain"]
    BY <2>1, <1>0, <1>1 DEF ETypeOK, ESteps, Active
  <2>2. CASE request' = [request EXCEPT ![f] = E!NoRequest]
    BY <2>2, <1>0, <1>1 DEF ETypeOK, ESteps, E!NoRequest
  <2>. QED BY <1>2, <2>1, <2>2
<1>4. /\ \/ /\ request'[f].worker = request[f].worker /\ request'[f].step = "retrain"
            /\ E!Cap(f).count >= NIMGS
         \/ request'[f].worker = "none" /\ request'[f].step = "idle"
      /\ \A h \in Folders : h # f => request'[h] = request[h]
  BY <1>0, <1>2 DEF ETypeOK, E!NoRequest
<1>5. ASSUME OwnFolder(f) PROVE OwnFolder(f)'
  <2>1. HasWorker(f)'
    BY <1>5, <1>0, <1>1, <1>4 DEF OwnFolder, HasWorker, Active, E!Cap
  <2>2. deletes = 0 => Counted(f)'
    <3>1. E!Cap(f).count \in Nat /\ E!SavedSampleCount(f) \in Nat
      BY <1>0, InTheHand, FS_CardinalityType, SamplesCount DEF ETypeOK, E!SavedSampleCount
    <3>. QED BY <3>1, <1>5, <1>0, <1>1, <1>4, SamplesCount DEF OwnFolder, Counted, Active, E!Cap, E!At, E!SavedSampleCount
  <2>. QED BY <1>5, <1>1, <2>1, <2>2 DEF OwnFolder
<1>. QED BY <1>0, <1>1, <1>3, <1>4, <1>5, Proceeding

LEMMA ERetrain ==
    ASSUME EInv, NEW f \in Folders, E!Retrain(f)
    PROVE  EInv'
<1>0. ETypeOK /\ Active(f) /\ E!At(f, "retrain")
  BY DEF EInv, E!Retrain, E!At, Active
<1>1. /\ request' = [request EXCEPT ![f].step = "encrypt"]
      /\ UNCHANGED <<samples, capture, page, encrypt, deletes, encrypts, crossed>>
  BY DEF E!Retrain, E!Go
<1>2. ETypeOK'
  BY <1>0, <1>1 DEF ETypeOK, ESteps, Active
<1>3. /\ request'[f].worker = request[f].worker /\ request'[f].step = "encrypt"
      /\ \A h \in Folders : h # f => request'[h] = request[h]
  BY <1>0, <1>1 DEF ETypeOK
<1>4. ASSUME OwnFolder(f) PROVE OwnFolder(f)'
  <2>1. HasWorker(f)'
    BY <1>4, <1>0, <1>1, <1>3 DEF OwnFolder, HasWorker, Active, E!Cap
  <2>2. deletes = 0 => Counted(f)'
    BY <1>4, <1>0, <1>1, <1>3, SamplesCount DEF OwnFolder, Counted, Active, E!Cap, E!At, E!SavedSampleCount
  <2>. QED BY <1>4, <1>1, <2>1, <2>2 DEF OwnFolder
<1>. QED BY <1>0, <1>1, <1>2, <1>3, <1>4, Proceeding

LEMMA ESave ==
    ASSUME EInv, NEW f \in Folders, E!Save(f)
    PROVE  EInv'
<1>. DEFINE c == E!Cap(f)
            d == E!Cap(f).folder
            crop == [index |-> E!Cap(f).count, face |-> f, enc |-> FALSE]
            kept == {s \in samples[E!Cap(f).folder] : s.index # E!Cap(f).count \/ s.enc}
<1>0. /\ ETypeOK /\ Active(f) /\ E!At(f, "save") /\ c.count < NIMGS /\ NIMGS \in Nat
      /\ E!Cap(f) \in [folder : Folders, count : Nat, idx : Nat] /\ d \in Folders /\ crop \in CropRecords
  <2>1. ETypeOK /\ Active(f) /\ E!At(f, "save") /\ c.count < NIMGS /\ NIMGS \in Nat
    BY CapturesAssumption DEF EInv, E!Save, E!At, Active
  <2>2. E!Cap(f) \in [folder : Folders, count : Nat, idx : Nat]
    BY <2>1, InTheHand
  <2>. QED BY <2>1, <2>2 DEF CropRecords
<1>1. /\ samples' = [samples EXCEPT ![d] = kept \cup {crop}]
      /\ request' = [request EXCEPT ![f].step = "bump"]
      /\ UNCHANGED <<capture, page, known, encrypt, deletes, encrypts, crossed>>
  BY DEF E!Save, E!Go
<1>. HIDE DEF crop
<1>2. ETypeOK'
  <2>1. samples[d] \in SUBSET CropRecords /\ IsFiniteSet(samples[d]) /\ kept \in SUBSET samples[d]
    BY <1>0 DEF ETypeOK
  <2>2. kept \cup {crop} \in SUBSET CropRecords /\ IsFiniteSet(kept \cup {crop})
    <3>1. IsFiniteSet(kept)
      BY <2>1, FS_Subset
    <3>. HIDE DEF kept
    <3>. QED BY <2>1, <3>1, <1>0, FS_AddElement
  <2>. HIDE DEF kept
  <2>3. samples' \in [Folders -> SUBSET CropRecords] /\ \A g \in Folders : IsFiniteSet(samples'[g])
    BY <2>2, <1>0, <1>1 DEF ETypeOK
  <2>4. request' \in [Folders -> [step : ESteps, worker : Workers \cup {"none"}]]
    BY <1>0, <1>1 DEF ETypeOK, ESteps
  <2>5. \A g \in Folders : request'[g].worker = "none" <=> request'[g].step = "idle"
    BY <1>0, <1>1 DEF ETypeOK, Active
  <2>. QED BY <2>3, <2>4, <2>5, <1>0, <1>1 DEF ETypeOK
<1>3. /\ request'[f].worker = request[f].worker /\ request'[f].step = "bump"
      /\ \A h \in Folders : h # f => request'[h] = request[h]
  BY <1>0, <1>1 DEF ETypeOK
<1>4. ASSUME OwnFolder(f) PROVE OwnFolder(f)' /\ d = f
  <2>0. d = f
    BY <1>4, <1>0 DEF OwnFolder, HasWorker
  <2>1. HasWorker(f)'
    BY <1>4, <1>0, <1>1, <1>3 DEF OwnFolder, HasWorker, Active, E!Cap
  <2>2. samples'[f] = kept \cup {crop} /\ kept \in SUBSET samples[f] /\ crop.face = f
    BY <2>0, <1>0, <1>1 DEF ETypeOK, crop
  <2>3. ASSUME deletes = 0 PROVE Counted(f)'
    <3>1. Counted(f) /\ Numbered(samples[f]) /\ Cardinality(samples[f]) = c.count
      BY <1>4, <1>0, <2>3, SamplesCount DEF OwnFolder, Counted, E!At, E!SavedSampleCount
    <3>2. samples[f] \in SUBSET CropRecords /\ IsFiniteSet(samples[f]) /\ crop.index = Cardinality(samples[f])
      BY <1>0, <3>1 DEF ETypeOK, crop
    <3>3. PICK S : S = samples[f]
      OBVIOUS
    <3>4. /\ {s \in S : s.index # crop.index \/ s.enc} = S
          /\ Numbered(S \cup {crop}) /\ Cardinality(S \cup {crop}) = Cardinality(S) + 1
      BY <3>1, <3>2, <3>3, <1>0, NextNumber
    <3>5. samples'[f] = S \cup {crop}
      BY <3>3, <3>4, <2>0, <2>2 DEF crop
    <3>6. Numbered(samples'[f]) /\ Cardinality(samples'[f]) = c.count + 1
      BY <3>1, <3>3, <3>4, <3>5
    <3>7. E!Cap(f)' = E!Cap(f) /\ E!At(f, "bump")' /\ ~ E!At(f, "retrain")' /\ ~ E!At(f, "encrypt")' /\ page'[f] # "done"
      BY <1>0, <1>1, <1>3, <1>4 DEF E!Cap, E!At, OwnFolder, HasWorker
    <3>8. c.count + 1 <= NIMGS
      BY <1>0
    <3>. QED BY <3>6, <3>7, <3>8, SamplesCount DEF Counted, E!SavedSampleCount
  <2>4. \A s \in samples'[f] : s.face = f
    BY <2>2, <1>4 DEF OwnFolder
  <2>. QED BY <2>0, <2>1, <2>3, <2>4, <1>1 DEF OwnFolder
<1>5. ~ crossed => \A h \in Folders : h # f => samples'[h] = samples[h]
  <2>1. ~ crossed => d = f
    BY <1>4 DEF EInv
  <2>. QED BY <2>1, <1>0, <1>1 DEF ETypeOK
<1>. QED BY <1>0, <1>1, <1>2, <1>3, <1>4, <1>5, Proceeding

LEMMA EEncrypt ==
    ASSUME EInv, NEW f \in Folders, E!Encrypt(f)
    PROVE  EInv'
<1>. DEFINE d == E!Cap(f).folder
<1>0. /\ ETypeOK /\ Active(f) /\ E!At(f, "encrypt") /\ d \in Folders
  <2>1. ETypeOK /\ Active(f) /\ E!At(f, "encrypt")
    BY DEF EInv, E!Encrypt, E!At, Active
  <2>. QED BY <2>1, InTheHand
<1>1. /\ samples' = samples \/ samples' = [samples EXCEPT ![d] = E!Encrypted(samples[d])]
      /\ request' = [request EXCEPT ![f] = E!NoRequest]
      /\ page' = [page EXCEPT ![f] = "done"]
      /\ UNCHANGED <<capture, known, encrypt, deletes, encrypts, crossed>>
  BY DEF E!Encrypt
<1>2. ETypeOK'
  <2>1. samples' \in [Folders -> SUBSET CropRecords] /\ \A g \in Folders : IsFiniteSet(samples'[g])
    <3>1. samples[d] \in SUBSET CropRecords /\ IsFiniteSet(samples[d])
      BY <1>0 DEF ETypeOK
    <3>2. E!Encrypted(samples[d]) \in SUBSET CropRecords /\ IsFiniteSet(E!Encrypted(samples[d]))
      BY <3>1, EncryptedIs
    <3>. QED BY <3>2, <1>0, <1>1 DEF ETypeOK
  <2>. QED BY <2>1, <1>0, <1>1 DEF ETypeOK, ESteps, E!NoRequest
<1>3. /\ request'[f].worker = "none" /\ request'[f].step = "idle" /\ page'[f] = "done"
      /\ \A h \in Folders : h # f => request'[h] = request[h] /\ page'[h] = page[h]
  BY <1>0, <1>1 DEF ETypeOK, E!NoRequest
<1>4. ASSUME OwnFolder(f) PROVE OwnFolder(f)' /\ d = f
  <2>0. d = f
    BY <1>4, <1>0 DEF OwnFolder, HasWorker, Active
  <2>1. HasWorker(f)'
    BY <1>3 DEF HasWorker, Active
  <2>2. /\ \A s \in samples'[f] : s.face = f
        /\ Numbered(samples[f]) => Numbered(samples'[f]) /\ Cardinality(samples'[f]) = Cardinality(samples[f])
    <3>1. samples[f] \in SUBSET CropRecords /\ IsFiniteSet(samples[f]) /\ \A s \in samples[f] : s.face = f
      BY <1>0, <1>4 DEF ETypeOK, OwnFolder
    <3>2. samples'[f] = samples[f] \/ samples'[f] = E!Encrypted(samples[f])
      BY <1>0, <1>1, <2>0 DEF ETypeOK
    <3>3. /\ \A s \in E!Encrypted(samples[f]) : s.face = f
          /\ Numbered(samples[f]) => /\ Numbered(E!Encrypted(samples[f]))
                                     /\ Cardinality(E!Encrypted(samples[f])) = Cardinality(samples[f])
      BY <3>1, EncryptedIs
    <3>4. CASE samples'[f] = samples[f]
      BY <3>4, <3>1
    <3>5. CASE samples'[f] = E!Encrypted(samples[f])
      BY <3>5, <3>3
    <3>. QED BY <3>2, <3>4, <3>5
  <2>3. ASSUME deletes = 0 PROVE Counted(f)'
    <3>1. Counted(f) /\ Cardinality(samples[f]) = NIMGS
      BY <1>4, <1>0, <2>3, SamplesCount DEF OwnFolder, Counted, E!SavedSampleCount
    <3>2. Numbered(samples'[f]) /\ Cardinality(samples'[f]) = NIMGS
      BY <3>1, <2>2 DEF Counted
    <3>3. NIMGS <= NIMGS
      BY CapturesAssumption
    <3>. QED BY <3>2, <3>3, <1>3, SamplesCount DEF Counted, E!SavedSampleCount, Active
  <2>. QED BY <2>0, <2>1, <2>2, <2>3, <1>1 DEF OwnFolder
<1>5. ~ crossed => \A h \in Folders : h # f => samples'[h] = samples[h]
  <2>1. ~ crossed => d = f
    BY <1>4 DEF EInv
  <2>. QED BY <2>1, <1>0, <1>1 DEF ETypeOK
<1>. QED BY <1>0, <1>1, <1>2, <1>3, <1>4, <1>5, Proceeding

LEMMA EDelete ==
    ASSUME EInv, NEW f \in Folders, E!Delete(f)
    PROVE  EInv'
<1>1. /\ ETypeOK /\ samples' = [samples EXCEPT ![f] = {}] /\ deletes' = deletes + 1
      /\ UNCHANGED <<capture, request, page, encrypt, encrypts, crossed>>
  BY DEF EInv, E!Delete
<1>2. ETypeOK'
  BY <1>1, FS_EmptySet DEF ETypeOK
<1>3. deletes' # 0
  BY <1>1 DEF ETypeOK
<1>4. ASSUME ~ crossed, NEW g \in Folders PROVE OwnFolder(g)'
  <2>1. OwnFolder(g)
    BY <1>4 DEF EInv
  <2>2. HasWorker(g)'
    BY <2>1, <1>1 DEF OwnFolder, HasWorker, Active, E!Cap
  <2>3. \A s \in samples'[g] : s.face = g
    BY <2>1, <1>1 DEF OwnFolder, ETypeOK
  <2>. QED BY <2>2, <2>3, <1>3 DEF OwnFolder
<1>. QED BY <1>1, <1>2, <1>4 DEF EInv

LEMMA EEncryptNow ==
    ASSUME EInv, E!EncryptNow
    PROVE  EInv'
<1>1. /\ ETypeOK /\ samples' = [f \in Folders |-> E!Encrypted(samples[f])]
      /\ UNCHANGED <<capture, request, page, known, deletes, crossed>>
  BY DEF EInv, E!EncryptNow
<1>2. \A f \in Folders :
         /\ samples'[f] \in SUBSET CropRecords /\ IsFiniteSet(samples'[f])
         /\ (\A s \in samples[f] : s.face = f) => \A s \in samples'[f] : s.face = f
         /\ Numbered(samples[f]) => Numbered(samples'[f]) /\ Cardinality(samples'[f]) = Cardinality(samples[f])
  <2>. SUFFICES ASSUME NEW f \in Folders
                PROVE  /\ samples'[f] \in SUBSET CropRecords /\ IsFiniteSet(samples'[f])
                       /\ (\A s \in samples[f] : s.face = f) => \A s \in samples'[f] : s.face = f
                       /\ Numbered(samples[f]) => /\ Numbered(samples'[f])
                                                  /\ Cardinality(samples'[f]) = Cardinality(samples[f])
    OBVIOUS
  <2>1. samples[f] \in SUBSET CropRecords /\ IsFiniteSet(samples[f]) /\ samples'[f] = E!Encrypted(samples[f])
    BY <1>1 DEF ETypeOK
  <2>2. PICK S, T : S = samples[f] /\ T = samples'[f]
    OBVIOUS
  <2>3. /\ E!Encrypted(S) \in SUBSET CropRecords /\ IsFiniteSet(E!Encrypted(S))
        /\ \A g : (\A s \in S : s.face = g) => \A s \in E!Encrypted(S) : s.face = g
        /\ Numbered(S) => Numbered(E!Encrypted(S)) /\ Cardinality(E!Encrypted(S)) = Cardinality(S)
    BY <2>1, <2>2, EncryptedIs
  <2>. QED BY <2>1, <2>2, <2>3
<1>3. ETypeOK'
  <2>1. samples' \in [Folders -> SUBSET CropRecords]
    BY <1>1, <1>2
  <2>. QED BY <2>1, <1>1, <1>2 DEF ETypeOK
<1>4. ASSUME ~ crossed, NEW g \in Folders PROVE OwnFolder(g)'
  <2>1. OwnFolder(g)
    BY <1>4 DEF EInv
  <2>2. HasWorker(g)'
    BY <2>1, <1>1 DEF OwnFolder, HasWorker, Active, E!Cap
  <2>3. \A s \in samples'[g] : s.face = g
    BY <2>1, <1>2 DEF OwnFolder
  <2>4. ASSUME deletes = 0 PROVE Counted(g)'
    <3>1. Counted(g) /\ Numbered(samples'[g]) /\ Cardinality(samples'[g]) = Cardinality(samples[g])
      BY <2>1, <2>4, <1>2 DEF OwnFolder, Counted
    <3>. QED BY <3>1, <1>1, SamplesCount DEF Counted, E!SavedSampleCount, Active, E!At, E!Cap
  <2>. QED BY <2>2, <2>3, <2>4, <1>1 DEF OwnFolder
<1>. QED BY <1>1, <1>3, <1>4 DEF EInv

LEMMA ENext == EInv /\ [E!Next]_(E!vars) => EInv'
BY EAdd, EPost, EGate, ESave, ESkip, EBump, ECheck, ERetrain, EEncrypt, EDelete, EEncryptNow, EStutter
   DEF E!Next, E!Proceed

LEMMA EInvIs == EInv => E!CropsAreOwn
BY SamplesCount DEF EInv, E!CropsAreOwn, OwnFolder, Counted, Numbered, E!SavedSampleCount

\* A folder holds crops of its own person only, numbered without a gap, until two
\* requests cross in a worker (app.camera_frame, process_frame in mode register).
THEOREM CropsAlways == EnrolmentSpec => []CropsAreOwn
<1>1. EnrolmentInit => EInv
  BY EInit DEF EnrolmentInit, Begin
<1>2. EInv /\ [EnrolmentNext]_all => EInv'
  <2>1. [EnrolmentNext]_all => [E!Next]_(E!vars)
    BY DEF EnrolmentNext, all, enrolment, E!vars
  <2>. QED BY <2>1, ENext
<1>3. EInv => CropsAreOwn
  BY EInvIs DEF CropsAreOwn
<1>. QED BY <1>1, <1>2, <1>3, PTL DEF EnrolmentSpec


-----------------------------------------------------------------------------
(* Removal of a person. *)
Kinds == {"none", "erase", "delete"}
RSteps == {"idle", "list", "open", "remove", "profile", "unlink", "rows", "retrain"}
Places == [kind : Kinds, step : RSteps, todo : SUBSET R!FaceFolders, left : SUBSET Crops]

RTypeOK ==
    /\ dirs \in SUBSET R!FaceFolders
    /\ files \in [R!FaceFolders -> SUBSET Crops]
    /\ profile \in BOOLEAN
    /\ requests \in Seq({"open", "fulfilled"})
    /\ removal \in [Threads -> Places]
    /\ removed \in Nat /\ failures \in Nat /\ killed \in Nat

\* An erasure leaves nothing behind of what it has passed.
Passed(t) ==
    /\ removal[t].kind = "none" <=> removal[t].step = "idle"
    /\ removal[t].step \in {"open", "remove"} <=> removal[t].todo # {}
    /\ removal[t].kind = "erase" /\ ~ R!At(t, "list") =>
          \A d \in R!FaceFolders \ removal[t].todo : d \notin dirs /\ files[d] = {}
    /\ R!At(t, "remove") => \A d \in R!FaceFolders : R!IsNext(t, d) => files[d] \subseteq removal[t].left
    /\ R!At(t, "rows") => ~ profile
Gone == \A d \in R!FaceFolders \ dirs : files[d] = {}

PInv == RTypeOK /\ Gone /\ \A t \in Threads : Passed(t)

\* Nothing has gone wrong, and nobody deletes.
Clean == removed = 0 /\ failures = 0 /\ killed = 0

\* The folders still to go through are the last ones.
UpTo(S) == \A d \in S, e \in R!FaceFolders : d <= e => e \in S

\* A call that will close every open request.
Closing(t) ==
    \/ R!At(t, "list") \/ R!At(t, "profile") \/ R!At(t, "rows")
    \/ R!At(t, "unlink") /\ profile
    \/ R!At(t, "open") /\ removal[t].todo \subseteq dirs
    \/ R!At(t, "remove") /\ \A d, e \in removal[t].todo : e < d => d \in dirs

QInv ==
    Clean =>
        /\ UpTo(dirs)
        /\ \A t \in Threads : removal[t].kind # "delete" /\ UpTo(removal[t].todo)
        /\ (\E i \in DOMAIN requests : requests[i] = "open") => \E t \in Threads : Closing(t)

LEMMA PInit == R!Init => PInv /\ QInv
<1>. SUFFICES ASSUME R!Init PROVE PInv /\ QInv
  OBVIOUS
<1>1. RTypeOK /\ Gone
  BY DEF R!Init, RTypeOK, Gone, R!Idle, Places, Kinds, RSteps
<1>2. \A t \in Threads : Passed(t)
  BY DEF R!Init, Passed, R!Idle, R!At
<1>3. QInv
  <2>1. UpTo(R!FaceFolders) /\ UpTo({}) /\ DOMAIN <<>> = {}
    BY DEF UpTo
  <2>. QED BY <2>1 DEF R!Init, QInv, R!Idle
<1>. QED BY <1>1, <1>2, <1>3 DEF PInv

LEMMA PStutter == PInv /\ QInv /\ UNCHANGED R!vars => PInv' /\ QInv'
<1>. SUFFICES ASSUME PInv, QInv, UNCHANGED R!vars PROVE PInv' /\ QInv'
  OBVIOUS
<1>. USE DEF R!vars, R!disk, R!bounds
<1>1. PInv'
  BY DEF PInv, RTypeOK, Gone, Passed, R!At, R!IsNext
<1>2. QInv'
  BY DEF QInv, Clean, UpTo, Closing, R!At
<1>. QED BY <1>1, <1>2

\* Folders empty and go, the picture goes.
Shrinks ==
    /\ dirs' \subseteq dirs /\ (profile' => profile)
    /\ \A d \in R!FaceFolders : files'[d] \subseteq files[d]

LEMMA PassedStays ==
    ASSUME NEW t \in Threads, Passed(t), removal'[t] = removal[t], Shrinks
    PROVE  Passed(t)'
BY DEF Passed, Shrinks, R!At, R!IsNext

\* A step of t, while the others stay where they are.
LEMMA PassedStep ==
    ASSUME NEW t \in Threads, PInv, RTypeOK', Gone', Shrinks, Passed(t)',
           \A u \in Threads : u # t => removal'[u] = removal[u]
    PROVE  PInv'
<1>1. ASSUME NEW u \in Threads PROVE Passed(u)'
  <2>1. CASE u # t
    BY <2>1, PassedStays DEF PInv
  <2>. QED BY <2>1
<1>. QED BY <1>1 DEF PInv

\* As long as nothing goes wrong a closing call stays one until another takes over.
LEMMA ClosingStays ==
    ASSUME NEW t \in Threads, Closing(t), removal'[t] = removal[t], dirs' = dirs, profile' = profile
    PROVE  Closing(t)'
BY DEF Closing, R!At

\* A step of t that touches neither the folders nor the picture, and stays closing.
LEMMA ClosingStep ==
    ASSUME NEW t \in Threads, QInv, dirs' = dirs, profile' = profile,
           Clean' => Clean,
           Clean' => removal'[t].kind # "delete" /\ UpTo(removal'[t].todo),
           Closing(t) => Closing(t)',
           \/ requests' = requests
           \/ Closing(t)',
           \A u \in Threads : u # t => removal'[u] = removal[u]
    PROVE  QInv'
<1>1. ASSUME Clean', \E i \in DOMAIN requests' : requests'[i] = "open" PROVE \E u \in Threads : Closing(u)'
  <2>1. CASE Closing(t)'
    BY <2>1
  <2>2. CASE requests' = requests
    <3>1. PICK u \in Threads : Closing(u)
      BY <1>1, <2>2 DEF QInv
    <3>2. CASE u = t
      BY <3>1, <3>2
    <3>3. CASE u # t
      BY <3>1, <3>3, ClosingStays
    <3>. QED BY <3>2, <3>3
  <2>. QED BY <2>1, <2>2
<1>2. ASSUME Clean' PROVE UpTo(dirs') /\ \A u \in Threads : removal'[u].kind # "delete" /\ UpTo(removal'[u].todo)
  BY <1>2 DEF QInv
<1>. QED BY <1>1, <1>2 DEF QInv

LEMMA Unclean == ASSUME PInv', \/ removed' > 0 \/ failures' > 0 \/ killed' > 0 PROVE QInv'
BY DEF PInv, RTypeOK, QInv, Clean

LEMMA RErase ==
    ASSUME PInv, QInv, NEW t \in Threads, R!Erase(t)
    PROVE  PInv' /\ QInv'
<1>. USE DEF R!disk, R!bounds
<1>1. /\ requests' = Append(requests, "open")
      /\ removal' = [removal EXCEPT ![t] = [kind |-> "erase", step |-> "list", todo |-> {}, left |-> {}]]
      /\ UNCHANGED <<others, dirs, files, profile, rows, R!model, sighting, removed, failures, killed, cut>>
  BY DEF R!Erase
<1>2. RTypeOK'
  <2>1. requests' \in Seq({"open", "fulfilled"})
    BY <1>1, AppendProperties DEF PInv, RTypeOK
  <2>. QED BY <2>1, <1>1 DEF PInv, RTypeOK, Places, Kinds, RSteps
<1>3. removal'[t] = [kind |-> "erase", step |-> "list", todo |-> {}, left |-> {}]
      /\ \A u \in Threads : u # t => removal'[u] = removal[u]
  BY <1>1 DEF PInv, RTypeOK
<1>4. Passed(t)' /\ Shrinks /\ Gone' /\ Closing(t)'
  BY <1>1, <1>3 DEF Passed, Shrinks, Gone, Closing, R!At, PInv
<1>5. Clean' => Clean /\ removal'[t].kind # "delete" /\ UpTo(removal'[t].todo)
  BY <1>1, <1>3 DEF Clean, UpTo
<1>. QED BY <1>1, <1>2, <1>3, <1>4, <1>5, PassedStep, ClosingStep

LEMMA RListFaces ==
    ASSUME PInv, QInv, NEW t \in Threads, R!ListFaces(t)
    PROVE  PInv' /\ QInv'
<1>. USE DEF R!disk, R!bounds
<1>1. /\ removal' = [removal EXCEPT ![t] = [kind |-> removal[t].kind, todo |-> dirs, left |-> {},
                                          step |-> IF dirs = {} THEN "profile" ELSE "open"]]
      /\ removal[t].step = "list"
      /\ UNCHANGED <<others, dirs, files, profile, rows, requests, R!model, sighting, removed, failures, killed, cut>>
  BY DEF R!ListFaces, R!Walk, R!At
<1>2. RTypeOK'
  BY <1>1 DEF PInv, RTypeOK, Places, Kinds, RSteps
<1>3. /\ removal'[t] = [kind |-> removal[t].kind, todo |-> dirs, left |-> {},
                       step |-> IF dirs = {} THEN "profile" ELSE "open"]
      /\ \A u \in Threads : u # t => removal'[u] = removal[u]
  BY <1>1 DEF PInv, RTypeOK
<1>4. Passed(t)' /\ Shrinks /\ Gone' /\ Closing(t)'
  BY <1>1, <1>3 DEF Passed, Shrinks, Gone, Closing, R!At, PInv
<1>5. Clean' => Clean /\ removal'[t].kind # "delete" /\ UpTo(removal'[t].todo)
  BY <1>1, <1>3 DEF Clean, QInv
<1>. QED BY <1>1, <1>2, <1>3, <1>4, <1>5, PassedStep, ClosingStep

LEMMA RDelete ==
    ASSUME PInv, QInv, NEW t \in Threads, NEW d \in R!FaceFolders, R!Delete(t, d)
    PROVE  PInv' /\ QInv'
<1>. USE DEF R!disk, R!bounds
<1>1. /\ removal' = [removal EXCEPT ![t] = [kind |-> "delete", todo |-> {d} \cap dirs, left |-> {},
                                          step |-> IF d \in dirs THEN "open" ELSE "profile"]]
      /\ removed' = removed + 1
      /\ UNCHANGED <<others, dirs, files, profile, rows, requests, R!model, sighting, failures, killed, cut>>
  BY DEF R!Delete
<1>2. RTypeOK'
  BY <1>1 DEF PInv, RTypeOK, Places, Kinds, RSteps
<1>3. /\ removal'[t] = [kind |-> "delete", todo |-> {d} \cap dirs, left |-> {},
                       step |-> IF d \in dirs THEN "open" ELSE "profile"]
      /\ \A u \in Threads : u # t => removal'[u] = removal[u]
  BY <1>1 DEF PInv, RTypeOK
<1>4. Passed(t)' /\ Shrinks /\ Gone'
  BY <1>1, <1>3 DEF Passed, Shrinks, Gone, R!At, PInv
<1>5. PInv'
  BY <1>1, <1>2, <1>3, <1>4, PassedStep
<1>6. removed' > 0
  BY <1>1 DEF PInv, RTypeOK
<1>. QED BY <1>5, <1>6, Unclean

LEMMA ROpen ==
    ASSUME PInv, QInv, NEW t \in Threads, NEW d \in R!FaceFolders, R!Open(t, d)
    PROVE  PInv' /\ QInv'
<1>. USE DEF R!disk, R!bounds
<1>1. /\ removal[t].step = "open" /\ R!IsNext(t, d)
      /\ UNCHANGED <<others, dirs, files, profile, rows, requests, R!model, sighting, removed, failures, killed, cut>>
      /\ \/ /\ d \in dirs
            /\ removal' = [removal EXCEPT ![t] = [kind |-> removal[t].kind, step |-> "remove",
                                                todo |-> removal[t].todo, left |-> files[d]]]
         \/ d \notin dirs /\ removal' = [removal EXCEPT ![t] = R!Idle]
  BY DEF R!Open, R!At, R!Raise
<1>2. RTypeOK'
  BY <1>1 DEF PInv, RTypeOK, Places, Kinds, RSteps, R!Idle
<1>3. /\ \/ /\ d \in dirs
            /\ removal'[t] = [kind |-> removal[t].kind, step |-> "remove",
                             todo |-> removal[t].todo, left |-> files[d]]
         \/ d \notin dirs /\ removal'[t] = [kind |-> "none", step |-> "idle", todo |-> {}, left |-> {}]
      /\ \A u \in Threads : u # t => removal'[u] = removal[u]
  BY <1>1 DEF PInv, RTypeOK, R!Idle
<1>4. Passed(t)'
  <2>1. Passed(t) /\ removal[t].todo \in SUBSET R!FaceFolders
    BY DEF PInv, RTypeOK, Places
  <2>2. CASE d \in dirs
    <3>1. \A e \in R!FaceFolders : R!IsNext(t, e) => e = d
      BY <1>1, <2>1 DEF R!IsNext, R!FaceFolders
    <3>. QED BY <2>1, <2>2, <3>1, <1>1, <1>3 DEF Passed, R!At, R!IsNext
  <2>3. CASE d \notin dirs
    BY <2>1, <2>3, <1>1, <1>3 DEF Passed, R!At
  <2>. QED BY <2>2, <2>3
<1>5. Shrinks /\ Gone'
  BY <1>1, <1>3 DEF Shrinks, Gone, PInv
<1>6. Closing(t) => Closing(t)'
  BY <1>1, <1>3 DEF Closing, R!At, R!IsNext
<1>7. Clean' => Clean /\ removal'[t].kind # "delete" /\ UpTo(removal'[t].todo)
  BY <1>1, <1>3 DEF Clean, QInv, UpTo
<1>. QED BY <1>1, <1>2, <1>3, <1>4, <1>5, <1>6, <1>7, PassedStep, ClosingStep

LEMMA RRemove ==
    ASSUME PInv, QInv, NEW t \in Threads, NEW d \in R!FaceFolders, R!Remove(t, d)
    PROVE  PInv' /\ QInv'
<1>. USE DEF R!disk, R!bounds
<1>1. PICK f \in removal[t].left :
         /\ removal[t].step = "remove" /\ R!IsNext(t, d)
         /\ UNCHANGED <<others, dirs, profile, rows, requests, R!model, sighting, removed, failures, killed, cut>>
         /\ files' = [files EXCEPT ![d] = files[d] \ {f}]
         /\ removal' = [removal EXCEPT ![t].left = removal[t].left \ {f}]
  BY DEF R!Remove, R!At
<1>2. RTypeOK'
  BY <1>1 DEF PInv, RTypeOK, Places, Kinds, RSteps
<1>3. /\ removal'[t].kind = removal[t].kind /\ removal'[t].step = "remove" /\ removal'[t].todo = removal[t].todo
      /\ removal'[t].left = removal[t].left \ {f}
      /\ \A u \in Threads : u # t => removal'[u] = removal[u]
      /\ files'[d] = files[d] \ {f} /\ \A e \in R!FaceFolders : e # d => files'[e] = files[e]
  BY <1>1 DEF PInv, RTypeOK, Places
<1>4. Passed(t)'
  <2>1. Passed(t) /\ removal[t].todo \in SUBSET R!FaceFolders
    BY DEF PInv, RTypeOK, Places
  <2>2. \A e \in R!FaceFolders : R!IsNext(t, e) => e = d
    BY <1>1, <2>1 DEF R!IsNext, R!FaceFolders
  <2>3. \A e \in R!FaceFolders : R!IsNext(t, e)' => files'[e] \subseteq removal'[t].left
    BY <2>1, <2>2, <1>1, <1>3 DEF Passed, R!At, R!IsNext
  <2>. QED BY <2>1, <2>3, <1>1, <1>3 DEF Passed, R!At
<1>5. Shrinks /\ Gone'
  BY <1>1, <1>3 DEF Shrinks, Gone, PInv
<1>6. Closing(t) => Closing(t)'
  BY <1>1, <1>3 DEF Closing, R!At, R!IsNext
<1>7. Clean' => Clean /\ removal'[t].kind # "delete" /\ UpTo(removal'[t].todo)
  BY <1>1, <1>3 DEF Clean, QInv, UpTo
<1>. QED BY <1>1, <1>2, <1>3, <1>4, <1>5, <1>6, <1>7, PassedStep, ClosingStep

LEMMA RRemoveFolder ==
    ASSUME PInv, QInv, NEW t \in Threads, NEW d \in R!FaceFolders, R!RemoveFolder(t, d)
    PROVE  PInv' /\ QInv'
<1>. USE DEF R!disk, R!bounds
<1>. DEFINE todo == removal[t].todo \ {d}
<1>0. /\ Passed(t) /\ removal[t].todo \in SUBSET R!FaceFolders /\ dirs \in SUBSET R!FaceFolders /\ removal[t] \in Places
  BY DEF PInv, RTypeOK, Places
<1>1. /\ removal[t].step = "remove" /\ R!IsNext(t, d) /\ d \in removal[t].todo /\ files[d] = {}
      /\ \A e \in removal[t].todo : d <= e
      /\ UNCHANGED <<others, files, profile, rows, requests, R!model, sighting, removed, failures, killed, cut>>
      /\ dirs' = dirs \ {d}
      /\ removal' = [removal EXCEPT ![t] = [kind |-> removal[t].kind, todo |-> todo, left |-> {},
                                          step |-> IF todo = {} THEN "profile" ELSE "open"]]
  BY <1>0 DEF R!RemoveFolder, R!At, R!Walk, R!IsNext, Passed
<1>2. RTypeOK'
  <2>1. [kind |-> removal[t].kind, todo |-> todo, left |-> {},
         step |-> IF todo = {} THEN "profile" ELSE "open"] \in Places
    BY <1>0 DEF Places, RSteps
  <2>2. removal' \in [Threads -> Places]
    BY <1>1, <2>1 DEF PInv, RTypeOK
  <2>3. dirs' \in SUBSET R!FaceFolders
    BY <1>0, <1>1
  <2>. QED BY <2>2, <2>3, <1>1 DEF PInv, RTypeOK
<1>3. /\ removal'[t].kind = removal[t].kind /\ removal'[t].todo = todo
      /\ removal'[t].step = IF todo = {} THEN "profile" ELSE "open"
      /\ \A u \in Threads : u # t => removal'[u] = removal[u]
  BY <1>1 DEF PInv, RTypeOK
<1>4. Passed(t)'
  BY <1>0, <1>1, <1>3 DEF Passed, R!At
<1>5. Shrinks /\ Gone'
  BY <1>1, <1>3 DEF Shrinks, Gone, PInv
<1>6. PInv'
  BY <1>2, <1>3, <1>4, <1>5, PassedStep
<1>7. ASSUME Clean' PROVE /\ UpTo(dirs') /\ UpTo(todo) /\ removal'[t].kind = "erase"
                          /\ UpTo(dirs) /\ UpTo(removal[t].todo) /\ dirs \subseteq removal[t].todo
  <2>1. UpTo(dirs) /\ UpTo(removal[t].todo) /\ removal[t].kind = "erase"
    <3>1. Clean
      BY <1>7, <1>1 DEF Clean
    <3>2. removal[t].kind # "none"
      BY <1>0, <1>1 DEF Passed
    <3>. QED BY <3>1, <3>2, <1>0 DEF QInv, Places, Kinds
  <2>2. dirs \subseteq removal[t].todo
    BY <2>1, <1>0, <1>1 DEF Passed, R!At
  <2>3. UpTo(dirs') /\ UpTo(todo)
    BY <2>1, <2>2, <1>0, <1>1 DEF UpTo, R!FaceFolders
  <2>. QED BY <2>1, <2>2, <2>3, <1>3
<1>8. ASSUME Clean', \E i \in DOMAIN requests' : requests'[i] = "open" PROVE \E u \in Threads : Closing(u)'
  <2>1. Clean /\ requests' = requests
    BY <1>1, <1>8 DEF Clean
  <2>2. PICK u \in Threads : Closing(u)
    BY <1>1, <1>8, <2>1 DEF QInv
  <2>3. CASE u = t
    <3>1. \A x, y \in removal[t].todo : y < x => x \in dirs
      BY <2>2, <2>3, <1>1 DEF Closing, R!At
    <3>2. todo \subseteq dirs'
      BY <3>1, <1>0, <1>1 DEF R!FaceFolders
    <3>3. Closing(t)'
      BY <3>2, <1>3 DEF Closing, R!At
    <3>. QED BY <3>3
  <2>4. CASE u # t /\ removal[u].step = "open" /\ d \in removal[u].todo
    <3>1. d \in dirs
      BY <2>2, <2>4 DEF Closing, R!At
    <3>2. todo \subseteq dirs'
      BY <3>1, <1>0, <1>1, <1>7, <1>8 DEF UpTo, R!FaceFolders
    <3>3. Closing(t)'
      BY <3>2, <1>3 DEF Closing, R!At
    <3>. QED BY <3>3
  <2>5. CASE u # t /\ removal[u].step = "remove" /\ \E e \in removal[u].todo : d \in removal[u].todo /\ e < d
    <3>1. d \in dirs
      BY <2>2, <2>5 DEF Closing, R!At
    <3>2. todo \subseteq dirs'
      BY <3>1, <1>0, <1>1, <1>7, <1>8 DEF UpTo, R!FaceFolders
    <3>3. Closing(t)'
      BY <3>2, <1>3 DEF Closing, R!At
    <3>. QED BY <3>3
  <2>6. CASE /\ u # t /\ ~ (removal[u].step = "open" /\ d \in removal[u].todo)
             /\ ~ (removal[u].step = "remove" /\ \E e \in removal[u].todo : d \in removal[u].todo /\ e < d)
    <3>1. removal'[u] = removal[u] /\ profile' = profile
      BY <2>6, <1>1, <1>3
    <3>2. Closing(u)'
      BY <2>2, <2>6, <3>1, <1>1 DEF Closing, R!At
    <3>. QED BY <3>2
  <2>. QED BY <2>3, <2>4, <2>5, <2>6
<1>9. QInv'
  <2>1. ASSUME Clean' PROVE \A u \in Threads : removal'[u].kind # "delete" /\ UpTo(removal'[u].todo)
    <3>1. Clean
      BY <2>1, <1>1 DEF Clean
    <3>. QED BY <2>1, <3>1, <1>3, <1>7 DEF QInv
  <2>. QED BY <2>1, <1>7, <1>8 DEF QInv
<1>. QED BY <1>6, <1>9

LEMMA RCheckProfile ==
    ASSUME PInv, QInv, NEW t \in Threads, R!CheckProfile(t)
    PROVE  PInv' /\ QInv'
<1>. USE DEF R!disk, R!bounds
<1>1. /\ removal' = [removal EXCEPT ![t].step = IF profile THEN "unlink" ELSE "rows"]
      /\ removal[t].step = "profile"
      /\ UNCHANGED <<others, dirs, files, profile, rows, requests, R!model, sighting, removed, failures, killed, cut>>
  BY DEF R!CheckProfile, R!Go, R!At
<1>2. RTypeOK'
  BY <1>1 DEF PInv, RTypeOK, Places, Kinds, RSteps
<1>3. /\ removal'[t].kind = removal[t].kind /\ removal'[t].todo = removal[t].todo
      /\ removal'[t].step = IF profile THEN "unlink" ELSE "rows"
      /\ \A u \in Threads : u # t => removal'[u] = removal[u]
  BY <1>1 DEF PInv, RTypeOK, Places
<1>4. Passed(t)' /\ Shrinks /\ Gone' /\ Closing(t)'
  BY <1>1, <1>3 DEF Passed, Shrinks, Gone, Closing, R!At, PInv
<1>5. Clean' => Clean /\ removal'[t].kind # "delete" /\ UpTo(removal'[t].todo)
  BY <1>1, <1>3 DEF Clean, QInv
<1>. QED BY <1>1, <1>2, <1>3, <1>4, <1>5, PassedStep, ClosingStep

LEMMA RRemoveProfile ==
    ASSUME PInv, QInv, NEW t \in Threads, R!RemoveProfile(t)
    PROVE  PInv' /\ QInv'
<1>. USE DEF R!disk, R!bounds
<1>1. /\ removal[t].step = "unlink"
      /\ UNCHANGED <<others, dirs, files, rows, requests, R!model, sighting, removed, failures, killed, cut>>
      /\ \/ profile /\ ~ profile' /\ profile' \in BOOLEAN /\ removal' = [removal EXCEPT ![t].step = "rows"]
         \/ ~ profile /\ profile' = profile /\ removal' = [removal EXCEPT ![t] = R!Idle]
  BY DEF R!RemoveProfile, R!Go, R!At, R!Raise
<1>2. RTypeOK'
  BY <1>1 DEF PInv, RTypeOK, Places, Kinds, RSteps, R!Idle
<1>3. /\ \/ /\ profile /\ ~ profile'
            /\ removal'[t].kind = removal[t].kind /\ removal'[t].todo = removal[t].todo
            /\ removal'[t].step = "rows"
         \/ /\ ~ profile /\ profile' = profile
            /\ removal'[t] = [kind |-> "none", step |-> "idle", todo |-> {}, left |-> {}]
      /\ \A u \in Threads : u # t => removal'[u] = removal[u]
  BY <1>1 DEF PInv, RTypeOK, Places, R!Idle
<1>4. Passed(t)' /\ Shrinks /\ Gone'
  BY <1>1, <1>3 DEF Passed, Shrinks, Gone, R!At, PInv
<1>5. PInv'
  BY <1>1, <1>2, <1>3, <1>4, PassedStep
<1>6. QInv'
  <2>1. CASE profile
    <3>1. Closing(t)'
      BY <1>3, <2>1 DEF Closing, R!At
    <3>2. ASSUME Clean' PROVE \A u \in Threads : removal'[u].kind # "delete" /\ UpTo(removal'[u].todo)
      <4>1. Clean
        BY <3>2, <1>1 DEF Clean
      <4>. QED BY <4>1, <1>3, <2>1 DEF QInv
    <3>. QED BY <3>1, <3>2, <1>1 DEF QInv, Clean
  <2>2. CASE ~ profile
    <3>1. ~ Closing(t) /\ profile' = profile
      BY <1>1, <2>2 DEF Closing, R!At
    <3>2. Clean' => Clean /\ removal'[t].kind # "delete" /\ UpTo(removal'[t].todo)
      BY <1>1, <1>3, <2>2 DEF Clean, UpTo
    <3>. QED BY <3>1, <3>2, <1>1, <1>3, ClosingStep
  <2>. QED BY <2>1, <2>2
<1>. QED BY <1>5, <1>6

LEMMA RDeleteRows ==
    ASSUME PInv, QInv, NEW t \in Threads, R!DeleteRows(t)
    PROVE  PInv' /\ QInv'
<1>. USE DEF R!disk, R!bounds
<1>1. /\ removal' = [removal EXCEPT ![t].step = "retrain"]
      /\ removal[t].step = "rows"
      /\ requests' = IF removal[t].kind = "erase" THEN R!Fulfilled ELSE requests
      /\ UNCHANGED <<others, dirs, files, profile, R!model, sighting, removed, failures, killed, cut>>
  BY DEF R!DeleteRows, R!Go, R!At
<1>2. RTypeOK'
  <2>1. requests' \in Seq({"open", "fulfilled"})
    BY <1>1 DEF PInv, RTypeOK, R!Fulfilled
  <2>. QED BY <2>1, <1>1 DEF PInv, RTypeOK, Places, Kinds, RSteps
<1>3. /\ removal'[t].kind = removal[t].kind /\ removal'[t].todo = removal[t].todo
      /\ removal'[t].step = "retrain"
      /\ \A u \in Threads : u # t => removal'[u] = removal[u]
  BY <1>1 DEF PInv, RTypeOK, Places
<1>4. Passed(t)' /\ Shrinks /\ Gone'
  BY <1>1, <1>3 DEF Passed, Shrinks, Gone, R!At, PInv
<1>5. PInv'
  BY <1>1, <1>2, <1>3, <1>4, PassedStep
<1>6. ASSUME Clean' PROVE /\ ~ \E i \in DOMAIN requests' : requests'[i] = "open"
                          /\ \A u \in Threads : removal'[u].kind # "delete" /\ UpTo(removal'[u].todo)
                          /\ UpTo(dirs')
  <2>1. Clean /\ Passed(t) /\ removal[t] \in Places
    BY <1>1, <1>6 DEF Clean, PInv, RTypeOK
  <2>2. removal[t].kind = "erase"
    BY <2>1, <1>1 DEF QInv, Passed, Places, Kinds
  <2>3. \A i \in DOMAIN requests' : requests'[i] = "fulfilled"
    BY <2>2, <1>1 DEF R!Fulfilled
  <2>. QED BY <2>1, <2>3, <1>1, <1>3 DEF QInv
<1>. QED BY <1>5, <1>6 DEF QInv

LEMMA RDatabaseFails ==
    ASSUME PInv, QInv, NEW t \in Threads, R!DatabaseFails(t)
    PROVE  PInv' /\ QInv'
<1>. USE DEF R!disk
<1>1. /\ removal' = [removal EXCEPT ![t] = R!Idle]
      /\ failures' = failures + 1
      /\ UNCHANGED <<others, dirs, files, profile, rows, requests, R!model, sighting, removed, killed, cut>>
  BY DEF R!DatabaseFails, R!Raise
<1>2. RTypeOK'
  BY <1>1 DEF PInv, RTypeOK, Places, Kinds, RSteps, R!Idle
<1>3. /\ removal'[t] = [kind |-> "none", step |-> "idle", todo |-> {}, left |-> {}]
      /\ \A u \in Threads : u # t => removal'[u] = removal[u]
  BY <1>1 DEF PInv, RTypeOK, R!Idle
<1>4. Passed(t)' /\ Shrinks /\ Gone'
  BY <1>1, <1>3 DEF Passed, Shrinks, Gone, R!At, PInv
<1>5. PInv'
  BY <1>1, <1>2, <1>3, <1>4, PassedStep
<1>6. failures' > 0
  BY <1>1 DEF PInv, RTypeOK
<1>. QED BY <1>5, <1>6, Unclean

LEMMA RRetrain ==
    ASSUME PInv, QInv, NEW t \in Threads, R!Retrain(t)
    PROVE  PInv' /\ QInv'
<1>. USE DEF R!disk, R!bounds
<1>1. /\ removal' = [removal EXCEPT ![t] = R!Idle] /\ removal[t].step = "retrain"
      /\ UNCHANGED <<others, dirs, files, profile, rows, requests, sighting, removed, failures, killed, cut>>
  BY DEF R!Retrain, R!At
<1>2. RTypeOK'
  BY <1>1 DEF PInv, RTypeOK, Places, Kinds, RSteps, R!Idle
<1>3. /\ removal'[t] = [kind |-> "none", step |-> "idle", todo |-> {}, left |-> {}]
      /\ \A u \in Threads : u # t => removal'[u] = removal[u]
  BY <1>1 DEF PInv, RTypeOK, R!Idle
<1>4. Passed(t)' /\ Shrinks /\ Gone'
  BY <1>1, <1>3 DEF Passed, Shrinks, Gone, R!At, PInv
<1>5. ~ Closing(t)
  BY <1>1 DEF Closing, R!At
<1>6. Clean' => Clean /\ removal'[t].kind # "delete" /\ UpTo(removal'[t].todo)
  BY <1>1, <1>3 DEF Clean, UpTo
<1>. QED BY <1>1, <1>2, <1>3, <1>4, <1>5, <1>6, PassedStep, ClosingStep

LEMMA RCamera ==
    ASSUME PInv, QInv, NEW w \in Workers, R!Reload(w) \/ R!Recognise(w) \/ R!Mark(w)
    PROVE  PInv' /\ QInv'
<1>1. UNCHANGED <<dirs, files, profile, requests, removal, removed, failures, killed>>
  BY DEF R!Reload, R!Recognise, R!Mark, R!disk, R!bounds
<1>2. PInv'
  BY <1>1 DEF PInv, RTypeOK, Gone, Passed, R!At, R!IsNext
<1>3. QInv'
  BY <1>1 DEF QInv, Clean, UpTo, Closing, R!At
<1>. QED BY <1>2, <1>3

LEMMA RCrash ==
    ASSUME PInv, QInv, NEW w \in Workers, R!Crash(w)
    PROVE  PInv' /\ QInv'
<1>. USE DEF R!disk
<1>1. /\ removal' = [t \in Threads |-> IF WorkerOf[t] = w THEN R!Idle ELSE removal[t]]
      /\ killed' = killed + 1
      /\ UNCHANGED <<others, dirs, files, profile, rows, requests, removed, failures>>
  BY DEF R!Crash
<1>2. RTypeOK'
  BY <1>1 DEF PInv, RTypeOK, Places, Kinds, RSteps, R!Idle
<1>3. Gone' /\ Shrinks
  BY <1>1 DEF Gone, Shrinks, PInv
<1>4. ASSUME NEW t \in Threads PROVE Passed(t)'
  <2>1. CASE removal'[t] = removal[t]
    BY <2>1, <1>3, PassedStays DEF PInv
  <2>2. CASE removal'[t] = [kind |-> "none", step |-> "idle", todo |-> {}, left |-> {}]
    BY <2>2 DEF Passed, R!At
  <2>. QED BY <2>1, <2>2, <1>1 DEF R!Idle
<1>5. PInv'
  BY <1>2, <1>3, <1>4 DEF PInv
<1>6. killed' > 0
  BY <1>1 DEF PInv, RTypeOK
<1>. QED BY <1>5, <1>6, Unclean

LEMMA RNext == PInv /\ QInv /\ [R!Next]_(R!vars) => PInv' /\ QInv'
BY RErase, RListFaces, RDelete, ROpen, RRemove, RRemoveFolder, RCheckProfile, RRemoveProfile, RDeleteRows,
   RDatabaseFails, RRetrain, RCamera, RCrash, PStutter
   DEF R!Next, R!Removal

LEMMA Settled == PInv /\ QInv => R!RequestsSettle
<1>. SUFFICES ASSUME PInv, QInv, R!Quiet, removed + failures + killed = 0, NEW i \in DOMAIN requests
              PROVE  requests[i] = "fulfilled"
  BY DEF R!RequestsSettle
<1>1. Clean /\ requests[i] \in {"open", "fulfilled"}
  BY DEF PInv, RTypeOK, Clean
<1>2. \A t \in Threads : ~ Closing(t)
  BY DEF R!Quiet, R!At, Closing
<1>. QED BY <1>1, <1>2 DEF QInv

\* A step of the run is a step of the removals.
LEMMA ErasureStep == [ErasureNext]_all => [R!Next]_(R!vars)
BY DEF ErasureNext, all, erasure, R!vars

\* When all calls have ended, no erasure request is left open, unless one failed,
\* was cut short or met a deletion (app.privacy_erase).
THEOREM RequestsAlwaysSettle == ErasureSpec => []RequestsSettle
<1>1. ErasureInit => PInv /\ QInv
  BY PInit DEF ErasureInit, Begin
<1>2. PInv /\ QInv /\ [ErasureNext]_all => PInv' /\ QInv'
  BY ErasureStep, RNext
<1>3. PInv /\ QInv => RequestsSettle
  BY Settled DEF RequestsSettle
<1>. QED BY <1>1, <1>2, <1>3, PTL DEF ErasureSpec

LEMMA ClosedInFull ==
    ASSUME PInv, [R!Next]_(R!vars), NEW i \in DOMAIN requests, requests[i] = "open", requests'[i] = "fulfilled"
    PROVE  (\A d \in R!FaceFolders : files[d] = {}) /\ ~ profile /\ rows' \cap R!Erased = {}
<1>1. PICK t \in Threads : R!DeleteRows(t) /\ removal[t].kind = "erase"
  <2>1. ASSUME NEW t \in Threads, R!Erase(t) PROVE FALSE
    <3>1. requests'[i] = requests[i]
      BY <2>1, AppendProperties DEF R!Erase, PInv, RTypeOK
    <3>. QED BY <3>1
  <2>2. ASSUME NEW t \in Threads, R!DatabaseFails(t) PROVE FALSE
    BY <2>2 DEF R!DatabaseFails
  <2>3. ASSUME NEW t \in Threads, NEW d \in R!FaceFolders, R!Delete(t, d) \/ R!Open(t, d) \/ R!Remove(t, d) \/ R!RemoveFolder(t, d)
        PROVE  FALSE
    BY <2>3 DEF R!Delete, R!Open, R!Remove, R!RemoveFolder
  <2>4. ASSUME NEW t \in Threads, R!ListFaces(t) \/ R!CheckProfile(t) \/ R!RemoveProfile(t) \/ R!Retrain(t) PROVE FALSE
    BY <2>4 DEF R!ListFaces, R!CheckProfile, R!RemoveProfile, R!Retrain
  <2>5. ASSUME NEW w \in Workers, R!Reload(w) \/ R!Recognise(w) \/ R!Mark(w) \/ R!Crash(w) PROVE FALSE
    BY <2>5 DEF R!Reload, R!Recognise, R!Mark, R!Crash
  <2>6. ~ UNCHANGED R!vars
    BY DEF R!vars
  <2>7. \E t \in Threads : R!DeleteRows(t)
    BY <2>1, <2>2, <2>3, <2>4, <2>5, <2>6 DEF R!Next, R!Removal
  <2>. QED BY <2>7 DEF R!DeleteRows
<1>2. Passed(t) /\ removal[t].step = "rows" /\ rows' = rows \ R!Erased
  BY <1>1 DEF PInv, R!DeleteRows, R!At
<1>3. removal[t].todo = {}
  BY <1>2 DEF Passed
<1>. QED BY <1>1, <1>2, <1>3 DEF Passed, R!At

\* A request closes only when files and picture are gone and the rows go with it,
\* after crashes and failures half way too (db.fulfil_erasure as called by
\* app.privacy_erase).
THEOREM ClosedAlwaysErased == ErasureSpec => ClosedMeansErased
<1>1. ErasureInit => PInv /\ QInv
  BY PInit DEF ErasureInit, Begin
<1>2. PInv /\ QInv /\ [ErasureNext]_all => PInv' /\ QInv'
  BY ErasureStep, RNext
<1>3. PInv /\ [ErasureNext]_all =>
         [\A i \in DOMAIN requests :
             requests[i] = "open" /\ requests'[i] = "fulfilled" =>
                /\ \A d \in R!FaceFolders : files[d] = {}
                /\ ~profile /\ rows' \cap R!Erased = {}]_(R!vars)
  BY ErasureStep, ClosedInFull
<1>. QED BY <1>1, <1>2, <1>3, PTL DEF ErasureSpec, ClosedMeansErased, R!ClosedMeansErased

-----------------------------------------------------------------------------
(* The model in memory. *)
LEMMA ThreadsHaveWorkers == WorkerOf \in [Threads -> Workers]
  BY PipelineAssumption

Models == [listing : SUBSET K!People, known : SUBSET K!People]
Late == {"list", "look", "write_model", "end_model", "write_labels", "end_labels",
         "remove_model", "remove_labels", "record_stamp"}
Loads == {"read_model", "read_labels", "set_instance"}
FileStates == {"absent", "torn", "whole"}
Stamped ==
    /\ modelFile.state = "absent" <=> modelFile.stamp = 0
    /\ modelFile.stamp <= stamps
    /\ \A w \in Workers : recogniser[w].stamp <= stamps
    /\ \A t \in Threads : training[t].stamp <= stamps
Placed(t) ==
    /\ training[t].job = "none" <=> training[t].step = "idle"
    /\ training[t].job = "get" => training[t].step \in Loads \cup {"set_stamp"}
    /\ training[t].job = "retrain" => training[t].step \in Loads \cup Late \cup {"start"}
    /\ training[t].job # "none" => recogniser[WorkerOf[t]].up

Running(t) == training[t].job # "none" /\ ~ K!At(t, "start")
Alone ==
    \A t, u \in Threads :
        Running(t) /\ Running(u) /\ (WorkerOf[t] = WorkerOf[u]
                                       \/ (training[t].job = "retrain" /\ training[u].job = "retrain"))
        => t = u

Right(model, labels, early) ==
    /\ model \in {K!NoModel, modelFile.model}
    /\ deaths = 0 /\ modelFile.state = "whole" /\ ~ early =>
          model = modelFile.model /\ labels = modelFile.model.known

Same(t) == training[t].stamp = modelFile.stamp /\ modelFile.state # "absent"
Mem(t) == recogniser[WorkerOf[t]]
Reads(t) ==
    training[t].job = "get" =>
        /\ Mem(t).stamp # modelFile.stamp \/ modelFile.state = "absent"
        /\ K!At(t, "read_labels") /\ Same(t) => training[t].model = modelFile.model
        /\ K!At(t, "set_instance") /\ Same(t) => Right(training[t].model, training[t].labels, training[t].early)
        /\ K!At(t, "set_stamp") /\ Same(t) => Right(Mem(t).model, Mem(t).labels, Mem(t).early)
Retrains(t) ==
    training[t].step \in Late =>
        /\ K!Mine(t)
        /\ K!At(t, "end_model") => modelFile.state = "torn" /\ Mem(t).model = training[t].model
        /\ K!At(t, "write_labels") \/ K!At(t, "end_labels") =>
              modelFile.state = "whole" /\ modelFile.model = training[t].model /\ Mem(t).model = training[t].model
        /\ K!At(t, "remove_labels") => modelFile.state = "absent"
        /\ K!At(t, "record_stamp") /\ modelFile.state # "absent" =>
              /\ modelFile.model = training[t].model
              /\ Mem(t).model = training[t].model /\ Mem(t).labels = training[t].model.known
InStep(w) ==
    /\ \A t \in Threads : WorkerOf[t] = w => training[t].step \notin Late
    /\ recogniser[w].up /\ recogniser[w].stamp = modelFile.stamp /\ modelFile.state # "absent"
    => Right(recogniser[w].model, recogniser[w].labels, recogniser[w].early)
Writing == {"end_model", "write_labels", "end_labels", "remove_labels"}
Consistent ==
    \/ modelFile.state = "absent" /\ labelsFile.state = "absent"
    \/ /\ modelFile.state = "whole" /\ labelsFile.state = "whole"
       /\ labelsFile.names = modelFile.model.known
Disk ==
    deaths = 0 =>
       /\ \A w \in Workers : recogniser[w].up
       /\ (\A t \in Threads : training[t].step \notin Writing) => Consistent

MSteps == {"idle", "set_stamp", "start"} \cup Loads \cup Late
Files == [state : FileStates, stamp : Nat, model : Models]
LabelFiles == [state : FileStates, names : SUBSET K!People]
Memories == [up : BOOLEAN, stamp : Nat, model : Models, labels : SUBSET K!People,
             owner : SUBSET Threads, early : BOOLEAN]
Calls == [job : {"none", "get", "retrain"}, step : MSteps, stamp : Nat, model : Models,
          labels : SUBSET K!People, early : BOOLEAN]
MTypeOK ==
    /\ faces \in SUBSET K!People
    /\ modelFile \in Files /\ labelsFile \in LabelFiles
    /\ stamps \in Nat /\ deaths \in Nat /\ overlapped \in BOOLEAN
    /\ recogniser \in [Workers -> Memories]
    /\ training \in [Threads -> Calls]

Shape == Stamped /\ \A t \in Threads : Placed(t)
Loading ==
    /\ Alone /\ Disk
    /\ \A t \in Threads : Reads(t) /\ Retrains(t)
    /\ \A w \in Workers : InStep(w)
MInv == MTypeOK /\ Shape /\ (~overlapped => Loading)

LEMMA NoModelIsAModel == K!NoModel \in Models
  BY DEF K!NoModel, Models

LEMMA IdleIsACall == K!Idle \in Calls
  BY NoModelIsAModel DEF K!Idle, Calls, MSteps

\* What a step of thread t leaves alone.
Elsewhere(t) ==
    /\ \A u \in Threads \ {t} : training'[u] = training[u]
    /\ \A w \in Workers \ {WorkerOf[t]} : recogniser'[w] = recogniser[w]
    /\ recogniser'[WorkerOf[t]].up = recogniser[WorkerOf[t]].up
    /\ deaths' = deaths
    /\ ~overlapped' => ~overlapped

\* What a step does to the model file and the stamps.
FileStep ==
    \/ modelFile' = modelFile /\ stamps' = stamps
    \/ modelFile'.stamp = stamps + 1 /\ stamps' = stamps + 1 /\ modelFile'.state # "absent"
    \/ modelFile'.stamp = 0 /\ stamps' = stamps /\ modelFile'.state = "absent"

LEMMA ShapeKept ==
  ASSUME MTypeOK, MTypeOK', Shape, NEW t \in Threads, Elsewhere(t), FileStep, Placed(t)',
         training'[t].stamp <= stamps', recogniser'[WorkerOf[t]].stamp <= stamps'
  PROVE  Shape'
  <1>1. WorkerOf[t] \in Workers
    BY ThreadsHaveWorkers
  <1>2. \A u \in Threads : training'[u].stamp <= stamps'
    BY DEF MTypeOK, Shape, Stamped, Elsewhere, FileStep, Calls
  <1>3. \A w \in Workers : recogniser'[w].stamp <= stamps'
    BY DEF MTypeOK, Shape, Stamped, Elsewhere, FileStep, Memories
  <1>4. modelFile'.stamp <= stamps' /\ (modelFile'.state = "absent" <=> modelFile'.stamp = 0)
    BY DEF MTypeOK, Shape, Stamped, FileStep, Files
  <1>5. \A u \in Threads : Placed(u)'
    <2>1. TAKE u \in Threads
    <2>2. CASE u = t
      BY <2>2
    <2>3. CASE u # t
      <3>1. training'[u] = training[u] /\ recogniser'[WorkerOf[u]].up = recogniser[WorkerOf[u]].up
        BY <2>3, ThreadsHaveWorkers DEF Elsewhere
      <3>2. Placed(u)
        BY DEF Shape
      <3> QED BY <3>1, <3>2 DEF Placed
    <2> QED BY <2>2, <2>3
  <1> QED BY <1>2, <1>3, <1>4, <1>5 DEF Shape, Stamped

\* The others do not notice a step of t, when it leaves their memory alone and
\* gives the model file a stamp nobody has, or removes it.
LEMMA OthersKept ==
  ASSUME MTypeOK, MTypeOK', Shape, NEW t \in Threads, Elsewhere(t), FileStep, Loading,
         \A u \in Threads \ {t} : Running(u) => recogniser'[WorkerOf[u]] = recogniser[WorkerOf[u]],
         modelFile' = modelFile \/ \A u \in Threads \ {t} : training[u].step \notin Late
  PROVE  /\ \A u \in Threads \ {t} : Reads(u)' /\ Retrains(u)'
         /\ \A w \in Workers \ {WorkerOf[t]} : InStep(w)'
  <1>1. ASSUME NEW u \in Threads \ {t} PROVE Reads(u)'
    <2>1. CASE training[u].job # "get"
      BY <2>1, <1>1 DEF Reads, Elsewhere
    <2>2. CASE training[u].job = "get"
      <3>1. training'[u] = training[u] /\ deaths' = deaths
        BY <1>1 DEF Elsewhere
      <3>2. ~K!At(u, "start")
        BY <2>2, <1>1 DEF Shape, Placed, K!At, Loads
      <3>3. Mem(u)' = Mem(u)
        BY <2>2, <3>2, <1>1 DEF Running, Mem
      <3>4. Reads(u)
        BY <1>1 DEF Loading
      <3>5. Mem(u).stamp \in Nat /\ training[u].stamp \in Nat /\ stamps \in Nat
        BY <1>1, ThreadsHaveWorkers DEF MTypeOK, Memories, Calls, Mem
      <3>6. Mem(u).stamp <= stamps /\ training[u].stamp <= stamps
        BY <1>1, ThreadsHaveWorkers DEF Shape, Stamped, Mem
      <3>7. CASE modelFile' = modelFile
        BY <3>1, <3>3, <3>4, <3>7, <2>2 DEF Reads, Same, Right, K!At
      <3>8. CASE modelFile'.stamp = stamps + 1
        <4>1. modelFile'.stamp # Mem(u).stamp /\ modelFile'.stamp # training[u].stamp
          BY <3>5, <3>6, <3>8
        <4>2. ~Same(u)' /\ Mem(u)'.stamp # modelFile'.stamp
          BY <3>1, <3>3, <4>1 DEF Same
        <4> QED BY <4>2 DEF Reads
      <3>9. CASE modelFile'.state = "absent"
        <4>1. ~Same(u)'
          BY <3>9 DEF Same
        <4> QED BY <4>1, <3>9 DEF Reads
      <3> QED BY <3>7, <3>8, <3>9 DEF FileStep
    <2> QED BY <2>1, <2>2
  <1>2. ASSUME NEW u \in Threads \ {t} PROVE Retrains(u)'
    <2>1. training'[u] = training[u]
      BY <1>2 DEF Elsewhere
    <2>2. CASE training[u].step \notin Late
      BY <2>1, <2>2 DEF Retrains
    <2>3. CASE training[u].step \in Late
      <3>1. training[u].job # "none" /\ ~K!At(u, "start")
        BY <2>3, <1>2 DEF Shape, Placed, K!At, Late
      <3>2. Mem(u)' = Mem(u) /\ modelFile' = modelFile
        BY <3>1, <1>2, <2>3 DEF Running, Mem
      <3>3. Retrains(u)
        BY <1>2 DEF Loading
      <3>4. K!Mine(u)' <=> K!Mine(u)
        BY <3>2 DEF K!Mine, Mem
      <3> QED BY <2>1, <2>3, <3>2, <3>3, <3>4 DEF Retrains, K!At
    <2> QED BY <2>2, <2>3
  <1>3. ASSUME NEW w \in Workers \ {WorkerOf[t]} PROVE InStep(w)'
    <2>1. recogniser'[w] = recogniser[w] /\ deaths' = deaths
      BY <1>3 DEF Elsewhere
    <2>2. \A u \in Threads : WorkerOf[u] = w => training'[u] = training[u]
      BY <1>3 DEF Elsewhere
    <2>3. InStep(w)
      BY <1>3 DEF Loading
    <2>4. recogniser[w].stamp \in Nat /\ recogniser[w].stamp <= stamps /\ stamps \in Nat
      BY <1>3 DEF MTypeOK, Memories, Shape, Stamped
    <2>5. CASE modelFile' = modelFile
      BY <2>1, <2>2, <2>3, <2>5 DEF InStep, Right
    <2>6. CASE modelFile'.stamp = stamps + 1
      <3>1. recogniser'[w].stamp # modelFile'.stamp
        BY <2>1, <2>4, <2>6
      <3> QED BY <3>1 DEF InStep
    <2>7. CASE modelFile'.state = "absent"
      BY <2>7 DEF InStep
    <2> QED BY <2>5, <2>6, <2>7 DEF FileStep
  <1> QED BY <1>1, <1>2, <1>3

\* A call that runs is the only one of its process, and the only retrain.
LEMMA NobodyElse ==
  ASSUME Alone, NEW t \in Threads, Running(t)
  PROVE  \A u \in Threads \ {t} :
            /\ Running(u) => WorkerOf[u] # WorkerOf[t]
            /\ Running(u) /\ training[t].job = "retrain" => training[u].job # "retrain"
  BY DEF Alone

LEMMA AloneKept ==
  ASSUME Alone, NEW t \in Threads, Running(t), Elsewhere(t),
         training'[t].job \in {training[t].job, "none"}
  PROVE  Alone'
  <1> SUFFICES ASSUME NEW x \in Threads, NEW y \in Threads, Running(x)', Running(y)',
                      WorkerOf[x] = WorkerOf[y]
                         \/ (training'[x].job = "retrain" /\ training'[y].job = "retrain")
               PROVE  x = y
    BY DEF Alone
  <1>1. \A u \in Threads : Running(u)' => Running(u) /\ training'[u].job = training[u].job
    BY DEF Running, Elsewhere, K!At
  <1> QED BY <1>1 DEF Alone

\* A step of a running call: what remains to be shown of it.
LEMMA Proceeds ==
  ASSUME MInv, MTypeOK', NEW t \in Threads, Running(t), Elsewhere(t), FileStep, Placed(t)',
         training'[t].stamp <= stamps', recogniser'[WorkerOf[t]].stamp <= stamps',
         training'[t].job \in {training[t].job, "none"}, overlapped' = overlapped,
         modelFile' = modelFile \/ training[t].job = "retrain",
         Loading => Disk' /\ Reads(t)' /\ Retrains(t)' /\ InStep(WorkerOf[t])'
  PROVE  MInv'
  <1>1. Shape'
    BY ShapeKept DEF MInv
  <1>2. ASSUME ~overlapped' PROVE Loading'
    <2>1. Loading /\ Alone
      BY <1>2 DEF MInv, Loading
    <2>2. Alone'
      BY <2>1, AloneKept
    <2>3. \A u \in Threads \ {t} :
            /\ Running(u) => recogniser'[WorkerOf[u]] = recogniser[WorkerOf[u]]
            /\ Running(u) /\ training[t].job = "retrain" => training[u].job # "retrain"
      BY <2>1, NobodyElse, ThreadsHaveWorkers DEF Elsewhere
    <2>4. training[t].job = "retrain" => \A u \in Threads \ {t} : training[u].step \notin Late
      <3>1. \A u \in Threads : training[u].step \in Late => training[u].job = "retrain" /\ Running(u)
        BY DEF MInv, MTypeOK, Calls, Shape, Placed, Running, K!At, Late, Loads
      <3> QED BY <3>1, <2>3
    <2>5. /\ \A u \in Threads \ {t} : Reads(u)' /\ Retrains(u)'
          /\ \A w \in Workers \ {WorkerOf[t]} : InStep(w)'
      BY <2>1, <2>3, <2>4, OthersKept DEF MInv
    <2> QED BY <2>1, <2>2, <2>5 DEF Loading
  <1> QED BY <1>1, <1>2 DEF MInv

\* The disk stays as it was, and t was not writing.
LEMMA DiskKept ==
  ASSUME Disk, NEW t \in Threads, Elsewhere(t), UNCHANGED <<modelFile, labelsFile>>,
         training[t].step \notin Writing
  PROVE  Disk'
  <1> SUFFICES ASSUME deaths = 0
               PROVE  /\ \A w \in Workers : recogniser'[w].up
                      /\ (\A u \in Threads : training'[u].step \notin Writing) => Consistent'
    BY DEF Disk, Elsewhere
  <1>1. \A w \in Workers : recogniser'[w].up
    BY ThreadsHaveWorkers DEF Disk, Elsewhere
  <1>2. (\A u \in Threads : training'[u].step \notin Writing)
           => \A u \in Threads : training[u].step \notin Writing
    BY DEF Elsewhere
  <1>3. Consistent => Consistent'
    BY DEF Consistent
  <1> QED BY <1>1, <1>2, <1>3 DEF Disk

\* Who finds both files whole and no retrain between its two writes has found
\* the files of one retrain.
LEMMA WholeMeansOneRun ==
  ASSUME MInv, Loading, deaths = 0, modelFile.state = "whole", ~K!BetweenWrites
  PROVE  labelsFile.state = "whole" /\ labelsFile.names = modelFile.model.known
  <1>1. \A u \in Threads : training[u].step \notin Writing
    <2> SUFFICES ASSUME NEW u \in Threads, training[u].step \in Writing
                 PROVE  FALSE
      OBVIOUS
    <2>1. training[u].step \in Late
      BY DEF Writing, Late
    <2>2. u \in K!Retraining
      BY <2>1 DEF MInv, MTypeOK, Calls, Shape, Placed, K!At, Late, Loads, K!Retraining
    <2>3. Retrains(u)
      BY DEF Loading
    <2> QED BY <2>1, <2>2, <2>3 DEF Retrains, K!At, Writing, K!BetweenWrites
  <1> QED BY <1>1 DEF Loading, Disk, Consistent

LEMMA InitTypes == K!Init => MTypeOK
  <1> SUFFICES ASSUME K!Init PROVE MTypeOK
    OBVIOUS
  <1> USE NoModelIsAModel, IdleIsACall
  <1>1. modelFile \in Files /\ labelsFile \in LabelFiles
    BY DEF K!Init, Files, LabelFiles, FileStates
  <1>2. training \in [Threads -> Calls]
    BY DEF K!Init
  <1>3. [up |-> TRUE, stamp |-> 0, model |-> K!NoModel, labels |-> {}, owner |-> {},
         early |-> FALSE] \in Memories
    BY DEF Memories
  <1>4. recogniser \in [Workers -> Memories]
    BY <1>3 DEF K!Init
  <1> QED BY <1>1, <1>2, <1>4 DEF K!Init, MTypeOK

LEMMA NextTypes == MTypeOK /\ K!Next => MTypeOK'
  <1> SUFFICES ASSUME MTypeOK, K!Next PROVE MTypeOK'
    OBVIOUS
  <1> USE NoModelIsAModel, IdleIsACall, ThreadsHaveWorkers
  <1>0. K!BetweenWrites \in BOOLEAN /\ K!ModelStamp \in Nat
    BY DEF K!BetweenWrites, K!ModelStamp, MTypeOK, Files
  <1>1. ASSUME NEW t \in Threads, K!GetStat(t) PROVE MTypeOK'
    <2>1. [K!Idle EXCEPT !.job = "get", !.step = "read_model", !.stamp = K!ModelStamp] \in Calls
      BY <1>0 DEF Calls, MSteps, Loads, K!Idle, Models, K!NoModel
    <2>2. overlapped' \in BOOLEAN
      BY <1>1 DEF K!GetStat, K!Clash, MTypeOK
    <2> QED BY <1>1, <2>1, <2>2 DEF K!GetStat, K!UnchangedDisk, MTypeOK
  <1>2. ASSUME NEW t \in Threads, K!ReadModel(t) PROVE MTypeOK'
    <2>1. training'[t] \in Calls /\ training' = [training EXCEPT ![t] = training'[t]]
      <3>1. training[t] \in Calls /\ modelFile.model \in Models
        BY DEF MTypeOK, Files
      <3>2. [training[t] EXCEPT !.step = "set_instance", !.model = K!NoModel, !.labels = {},
                !.early = K!BetweenWrites] \in Calls
        BY <1>0, <3>1 DEF Calls, MSteps, Loads
      <3>3. [training[t] EXCEPT !.step = "read_labels", !.model = modelFile.model] \in Calls
        BY <3>1 DEF Calls, MSteps, Loads
      <3> QED BY <1>2, <3>2, <3>3 DEF K!ReadModel, K!Raise, K!Finish, MTypeOK
    <2> QED BY <1>2, <2>1 DEF K!ReadModel, K!UnchangedDisk, K!UnchangedBounds, MTypeOK
  <1>3. ASSUME NEW t \in Threads, K!ReadLabels(t) PROVE MTypeOK'
    <2>1. training'[t] \in Calls /\ training' = [training EXCEPT ![t] = training'[t]]
      <3>1. training[t] \in Calls /\ labelsFile.names \in SUBSET K!People
        BY DEF MTypeOK, LabelFiles
      <3>2. [training[t] EXCEPT !.step = "set_instance", !.labels = labelsFile.names,
                !.early = K!BetweenWrites] \in Calls
        BY <1>0, <3>1 DEF Calls, MSteps, Loads
      <3> QED BY <1>3, <3>2 DEF K!ReadLabels, K!Raise, K!Finish, MTypeOK
    <2> QED BY <1>3, <2>1 DEF K!ReadLabels, K!UnchangedDisk, K!UnchangedBounds, MTypeOK
  <1>4. ASSUME NEW t \in Threads, K!SetInstance(t) PROVE MTypeOK'
    <2>1. training' \in [Threads -> Calls]
      BY <1>4 DEF K!SetInstance, K!Go, MTypeOK, Calls, MSteps, Loads, Late
    <2>2. [recogniser[WorkerOf[t]] EXCEPT !.model = training[t].model, !.labels = training[t].labels,
              !.owner = {t}, !.early = training[t].early] \in Memories
      <3>1. training[t] \in Calls /\ recogniser[WorkerOf[t]] \in Memories /\ {t} \in SUBSET Threads
        BY DEF MTypeOK
      <3> QED BY <3>1 DEF Memories, Calls
    <2>3. recogniser' \in [Workers -> Memories]
      BY <1>4, <2>2 DEF K!SetInstance, MTypeOK
    <2> QED BY <1>4, <2>1, <2>3 DEF K!SetInstance, K!UnchangedDisk, K!UnchangedBounds, MTypeOK
  <1>5. ASSUME NEW t \in Threads, K!SetStamp(t) PROVE MTypeOK'
    <2>1. training' \in [Threads -> Calls] /\ recogniser' \in [Workers -> Memories]
      <3>1. WorkerOf[t] \in Workers /\ recogniser[WorkerOf[t]] \in Memories /\ training[t].stamp \in Nat
        BY DEF MTypeOK, Calls
      <3>2. [recogniser[WorkerOf[t]] EXCEPT !.stamp = training[t].stamp] \in Memories
        BY <3>1 DEF Memories
      <3>3. recogniser' = [recogniser EXCEPT ![WorkerOf[t]] =
                          [recogniser[WorkerOf[t]] EXCEPT !.stamp = training[t].stamp]]
        BY <1>5 DEF K!SetStamp
      <3> QED BY <1>5, <3>2, <3>3 DEF K!SetStamp, K!Finish, MTypeOK
    <2> QED BY <1>5, <2>1 DEF K!SetStamp, K!UnchangedDisk, K!UnchangedBounds, MTypeOK
  <1>6. ASSUME NEW t \in Threads, K!StartRetrain(t) PROVE MTypeOK'
    <2>1. training' \in [Threads -> Calls] /\ overlapped' \in BOOLEAN
      BY <1>6 DEF K!StartRetrain, K!Go, MTypeOK, Calls, MSteps, Loads
    <2> QED BY <1>6, <2>1 DEF K!StartRetrain, K!UnchangedDisk, MTypeOK
  <1>7. ASSUME NEW t \in Threads, K!List(t) PROVE MTypeOK'
    <2>1. [listing |-> faces, known |-> {}] \in Models
      BY DEF MTypeOK, Models
    <2>2. training' \in [Threads -> Calls]
      BY <1>7, <2>1 DEF K!List, MTypeOK, Calls, MSteps, Late
    <2> QED BY <1>7, <2>2 DEF K!List, K!UnchangedDisk, K!UnchangedBounds, MTypeOK
  <1>8. ASSUME NEW t \in Threads, K!Look(t) PROVE MTypeOK'
    <2>1. [listing |-> training[t].model.listing, known |-> training[t].model.listing \cap faces] \in Models
      BY DEF MTypeOK, Models, Calls
    <2>2. training' \in [Threads -> Calls]
      BY <1>8, <2>1 DEF K!Look, MTypeOK, Calls, MSteps, Late
    <2> QED BY <1>8, <2>2 DEF K!Look, K!UnchangedDisk, K!UnchangedBounds, MTypeOK
  <1>9. ASSUME NEW t \in Threads, K!WriteModel(t) PROVE MTypeOK'
    <2>1. training' \in [Threads -> Calls] /\ recogniser' \in [Workers -> Memories]
      <3>1. WorkerOf[t] \in Workers /\ recogniser[WorkerOf[t]] \in Memories /\ training[t].model \in Models
        BY DEF MTypeOK, Calls
      <3>2. [recogniser[WorkerOf[t]] EXCEPT !.model = training[t].model] \in Memories
        BY <3>1 DEF Memories
      <3>3. \/ recogniser' = recogniser
            \/ recogniser' = [recogniser EXCEPT ![WorkerOf[t]] =
                             [recogniser[WorkerOf[t]] EXCEPT !.model = training[t].model]]
        BY <1>9 DEF K!WriteModel
      <3>4. recogniser' \in [Workers -> Memories]
        BY <3>2, <3>3 DEF MTypeOK
      <3>5. training' \in [Threads -> Calls]
        BY <1>9 DEF K!WriteModel, K!Go, MTypeOK, Calls, MSteps, Late
      <3> QED BY <3>4, <3>5
    <2> QED BY <1>9, <2>1 DEF K!WriteModel, K!UnchangedBounds, MTypeOK, Files, FileStates
  <1>10. ASSUME NEW t \in Threads, K!EndModel(t) PROVE MTypeOK'
    <2>1. training' \in [Threads -> Calls] /\ training[t].model \in Models
      BY <1>10 DEF K!EndModel, K!Go, MTypeOK, Calls, MSteps, Late
    <2> QED BY <1>10, <2>1 DEF K!EndModel, K!UnchangedBounds, MTypeOK, Files, FileStates
  <1>11. ASSUME NEW t \in Threads, K!WriteLabels(t) PROVE MTypeOK'
    <2>1. training' \in [Threads -> Calls]
      BY <1>11 DEF K!WriteLabels, K!Go, MTypeOK, Calls, MSteps, Late
    <2> QED BY <1>11, <2>1 DEF K!WriteLabels, K!UnchangedBounds, MTypeOK, LabelFiles, FileStates
  <1>12. ASSUME NEW t \in Threads, K!EndLabels(t) PROVE MTypeOK'
    <2>1. training' \in [Threads -> Calls] /\ training[t].model.known \in SUBSET K!People
      BY <1>12 DEF K!EndLabels, K!Go, MTypeOK, Calls, MSteps, Late, Models
    <2>2. recogniser' \in [Workers -> Memories]
      <3>1. recogniser[WorkerOf[t]] \in Memories
        BY DEF MTypeOK
      <3>2. [recogniser[WorkerOf[t]] EXCEPT !.early = FALSE, !.labels = training[t].model.known]
               \in Memories
        BY <2>1, <3>1 DEF Memories
      <3> QED BY <1>12, <3>2 DEF K!EndLabels, MTypeOK
    <2> QED BY <1>12, <2>1, <2>2 DEF K!EndLabels, K!UnchangedBounds, MTypeOK, LabelFiles, FileStates
  <1>13. ASSUME NEW t \in Threads, K!RemoveModel(t) PROVE MTypeOK'
    <2>1. training' \in [Threads -> Calls]
      BY <1>13 DEF K!RemoveModel, K!Go, MTypeOK, Calls, MSteps, Late
    <2> QED BY <1>13, <2>1 DEF K!RemoveModel, K!UnchangedBounds, MTypeOK, Files, FileStates
  <1>14. ASSUME NEW t \in Threads, K!RemoveLabels(t) PROVE MTypeOK'
    <2>1. training' \in [Threads -> Calls]
      BY <1>14 DEF K!RemoveLabels, K!Go, MTypeOK, Calls, MSteps, Late
    <2> QED BY <1>14, <2>1 DEF K!RemoveLabels, K!UnchangedBounds, MTypeOK, LabelFiles, FileStates
  <1>15. ASSUME NEW t \in Threads, K!RecordStamp(t) PROVE MTypeOK'
    <2>1. training' \in [Threads -> Calls] /\ recogniser' \in [Workers -> Memories]
      <3>1. recogniser[WorkerOf[t]] \in Memories
        BY DEF MTypeOK
      <3>2. [recogniser[WorkerOf[t]] EXCEPT !.stamp = K!ModelStamp] \in Memories
        BY <1>0, <3>1 DEF Memories
      <3>3. recogniser' = [recogniser EXCEPT ![WorkerOf[t]] =
                          [recogniser[WorkerOf[t]] EXCEPT !.stamp = K!ModelStamp]]
        BY <1>15 DEF K!RecordStamp
      <3> QED BY <1>15, <3>2, <3>3 DEF K!RecordStamp, K!Finish, MTypeOK
    <2> QED BY <1>15, <2>1 DEF K!RecordStamp, K!UnchangedDisk, K!UnchangedBounds, MTypeOK
  <1>16. ASSUME NEW t \in Threads, NEW p \in K!People, K!ChangeFaces(t, p) PROVE MTypeOK'
    <2>1. [K!Idle EXCEPT !.job = "retrain", !.step = "start"] \in Calls
      BY DEF Calls, MSteps, K!Idle, Models, K!NoModel
    <2> QED BY <1>16, <2>1 DEF K!ChangeFaces, K!UnchangedDisk, MTypeOK
  <1>17. ASSUME NEW w \in Workers, K!Crash(w) PROVE MTypeOK'
    <2>1. [recogniser[w] EXCEPT !.up = FALSE, !.owner = {}] \in Memories
      BY DEF MTypeOK, Memories
    <2> QED BY <1>17, <2>1 DEF K!Crash, K!UnchangedDisk, MTypeOK
  <1>18. ASSUME NEW w \in Workers, K!Boot(w) PROVE MTypeOK'
    <2> DEFINE m == IF K!IsTrained THEN modelFile.model ELSE K!NoModel
               l == IF K!IsTrained THEN labelsFile.names ELSE {}
    <2>1. m \in Models /\ l \in SUBSET K!People
      BY DEF MTypeOK, Files, LabelFiles
    <2> HIDE DEF m, l
    <2>2. [recogniser[w] EXCEPT !.up = TRUE, !.stamp = K!ModelStamp, !.model = m, !.labels = l,
              !.early = K!BetweenWrites] \in Memories
      BY <1>0, <2>1 DEF MTypeOK, Memories
    <2>3. recogniser' \in [Workers -> Memories]
      BY <1>18, <2>2 DEF K!Boot, MTypeOK, m, l
    <2> QED BY <1>18, <2>3 DEF K!Boot, K!UnchangedDisk, K!UnchangedBounds, MTypeOK
  <1> QED BY <1>1, <1>2, <1>3, <1>4, <1>5, <1>6, <1>7, <1>8, <1>9, <1>10, <1>11, <1>12,
             <1>13, <1>14, <1>15, <1>16, <1>17, <1>18 DEF K!Next, K!Proceed

LEMMA KeptByReadModel ==
  ASSUME MInv, MTypeOK', NEW t \in Threads, K!ReadModel(t)
  PROVE  MInv'
  <1>0. t \in Threads /\ WorkerOf[t] \in Workers
    BY ThreadsHaveWorkers
  <1>1. training[t] \in Calls /\ K!At(t, "read_model") /\ training[t].job \in {"get", "retrain"} /\ Running(t)
    BY DEF K!ReadModel, K!At, MInv, MTypeOK, Calls, Shape, Placed, Running
  <1>2. /\ recogniser' = recogniser /\ modelFile' = modelFile /\ labelsFile' = labelsFile
        /\ stamps' = stamps /\ deaths' = deaths /\ overlapped' = overlapped
    BY DEF K!ReadModel, K!UnchangedDisk, K!UnchangedBounds
  <1>3. Elsewhere(t) /\ FileStep
    BY <1>2 DEF Elsewhere, FileStep, K!ReadModel, K!Raise, K!Finish, MInv, MTypeOK
  <1>4. \/ training'[t] = K!Idle
        \/ /\ training'[t].job = training[t].job /\ training'[t].step = "set_instance"
           /\ training'[t].stamp = training[t].stamp /\ training'[t].model = K!NoModel
           /\ training'[t].labels = {} /\ training'[t].early = K!BetweenWrites /\ ~K!IsTrained
        \/ /\ training'[t].job = training[t].job /\ training'[t].step = "read_labels"
           /\ training'[t].stamp = training[t].stamp /\ training'[t].model = modelFile.model
    <2>1. \/ training'[t] = K!Idle
          \/ ~K!IsTrained /\ training'[t] = [training[t] EXCEPT !.step = "set_instance",
                                !.model = K!NoModel, !.labels = {}, !.early = K!BetweenWrites]
          \/ training'[t] = [training[t] EXCEPT !.step = "read_labels", !.model = modelFile.model]
      BY DEF K!ReadModel, K!Raise, K!Finish, MInv, MTypeOK
    <2> QED BY <1>1, <2>1 DEF Calls
  <1>5. training'[t].job \in {training[t].job, "none"} /\ training'[t].stamp <= stamps'
    BY <1>2, <1>4 DEF K!Idle, MInv, MTypeOK, Shape, Stamped
  <1>6. Placed(t)'
    BY <1>1, <1>2, <1>4 DEF Placed, K!Idle, K!At, Loads, Late, MInv, Shape
  <1>7. ASSUME Loading PROVE Disk' /\ Reads(t)' /\ Retrains(t)' /\ InStep(WorkerOf[t])'
    <2>1. Disk'
      BY <1>1, <1>2, <1>3, <1>7, DiskKept DEF Loading, K!At, Writing
    <2>2. Retrains(t)'
      BY <1>4 DEF Retrains, Late, K!Idle
    <2>3. InStep(WorkerOf[t])'
      <3>1. training[t].step \notin Late
        BY <1>1 DEF K!At, Late
      <3> QED BY <1>0, <1>2, <1>3, <1>7, <3>1 DEF Loading, InStep, Right, Elsewhere
    <2>4. Reads(t)'
      <3>1. CASE training'[t].job # "get"
        BY <3>1 DEF Reads
      <3>2. CASE training'[t].job = "get"
        <4>1. Reads(t) /\ training[t].job = "get"
          BY <1>4, <1>7, <3>2 DEF Loading, K!Idle
        <4>2. Mem(t)'.stamp # modelFile'.stamp \/ modelFile'.state = "absent"
          BY <1>2, <4>1 DEF Reads, Mem
        <4>3. CASE training'[t].step = "read_labels"
          <5>1. training'[t].model = modelFile'.model
            BY <1>2, <1>4, <4>3 DEF K!Idle
          <5> QED BY <4>2, <4>3, <5>1 DEF Reads, K!At
        <4>4. CASE training'[t].step = "set_instance"
          <5>1. /\ training'[t].model = K!NoModel /\ training'[t].labels = {}
                /\ training'[t].early = K!BetweenWrites /\ ~K!IsTrained
            BY <1>4, <4>4 DEF K!Idle
          <5>2. deaths = 0 /\ modelFile.state = "whole" => K!BetweenWrites
            <6>1. modelFile.state = "whole" /\ ~K!IsTrained => labelsFile.state # "whole"
              BY DEF K!IsTrained
            <6> QED BY <1>7, <5>1, <6>1, WholeMeansOneRun
          <5>3. Right(training[t].model, training[t].labels, training[t].early)'
            BY <1>2, <5>1, <5>2 DEF Right
          <5> QED BY <4>2, <4>4, <5>3 DEF Reads, K!At
        <4> QED BY <1>4, <3>2, <4>3, <4>4 DEF K!Idle
      <3> QED BY <3>1, <3>2
    <2> QED BY <2>1, <2>2, <2>3, <2>4
  <1>8. recogniser'[WorkerOf[t]].stamp <= stamps'
    BY <1>0, <1>2 DEF MInv, Shape, Stamped
  <1> QED BY <1>1, <1>2, <1>3, <1>5, <1>6, <1>7, <1>8, Proceeds

LEMMA KeptByReadLabels ==
  ASSUME MInv, MTypeOK', NEW t \in Threads, K!ReadLabels(t)
  PROVE  MInv'
  <1>0. t \in Threads /\ WorkerOf[t] \in Workers
    BY ThreadsHaveWorkers
  <1>1. training[t] \in Calls /\ K!At(t, "read_labels") /\ training[t].job \in {"get", "retrain"} /\ Running(t)
    BY DEF K!ReadLabels, K!At, MInv, MTypeOK, Calls, Shape, Placed, Running
  <1>2. /\ recogniser' = recogniser /\ modelFile' = modelFile /\ labelsFile' = labelsFile
        /\ stamps' = stamps /\ deaths' = deaths /\ overlapped' = overlapped
    BY DEF K!ReadLabels, K!UnchangedDisk, K!UnchangedBounds
  <1>3. Elsewhere(t) /\ FileStep
    BY <1>2 DEF Elsewhere, FileStep, K!ReadLabels, K!Raise, K!Finish, MInv, MTypeOK
  <1>4. \/ training'[t] = K!Idle
        \/ /\ training'[t].job = training[t].job /\ training'[t].step = "set_instance"
           /\ training'[t].stamp = training[t].stamp /\ training'[t].model = training[t].model
           /\ training'[t].labels = labelsFile.names /\ training'[t].early = K!BetweenWrites
    <2>1. \/ training'[t] = K!Idle
          \/ training'[t] = [training[t] EXCEPT !.step = "set_instance",
                              !.labels = labelsFile.names, !.early = K!BetweenWrites]
      BY DEF K!ReadLabels, K!Raise, K!Finish, MInv, MTypeOK
    <2> QED BY <1>1, <2>1 DEF Calls
  <1>5. training'[t].job \in {training[t].job, "none"} /\ training'[t].stamp <= stamps'
    BY <1>2, <1>4 DEF K!Idle, MInv, MTypeOK, Shape, Stamped
  <1>6. Placed(t)'
    BY <1>1, <1>2, <1>4 DEF Placed, K!Idle, K!At, Loads, Late, MInv, Shape
  <1>7. ASSUME Loading PROVE Disk' /\ Reads(t)' /\ Retrains(t)' /\ InStep(WorkerOf[t])'
    <2>1. Disk'
      BY <1>1, <1>2, <1>3, <1>7, DiskKept DEF Loading, K!At, Writing
    <2>2. Retrains(t)'
      BY <1>4 DEF Retrains, Late, K!Idle
    <2>3. InStep(WorkerOf[t])'
      <3>1. training[t].step \notin Late
        BY <1>1 DEF K!At, Late
      <3> QED BY <1>0, <1>2, <1>3, <1>7, <3>1 DEF Loading, InStep, Right, Elsewhere
    <2>4. Reads(t)'
      <3>1. CASE training'[t].job # "get"
        BY <3>1 DEF Reads
      <3>2. CASE training'[t].job = "get"
        <4>1. /\ Reads(t) /\ training[t].job = "get" /\ training'[t].step = "set_instance"
              /\ training'[t].stamp = training[t].stamp /\ training'[t].model = training[t].model
              /\ training'[t].labels = labelsFile.names /\ training'[t].early = K!BetweenWrites
          BY <1>4, <1>7, <3>2 DEF Loading, K!Idle
        <4>2. Mem(t)'.stamp # modelFile'.stamp \/ modelFile'.state = "absent"
          BY <1>2, <4>1 DEF Reads, Mem
        <4>3. Same(t)' => training'[t].model = modelFile.model
          BY <1>1, <1>2, <4>1 DEF Reads, Same
        <4>4. deaths = 0 /\ modelFile.state = "whole" /\ ~K!BetweenWrites
                 => labelsFile.names = modelFile.model.known
          BY <1>7, WholeMeansOneRun
        <4>5. Same(t)' => Right(training[t].model, training[t].labels, training[t].early)'
          BY <1>2, <4>1, <4>3, <4>4 DEF Right
        <4> QED BY <4>1, <4>2, <4>5 DEF Reads, K!At
      <3> QED BY <3>1, <3>2
    <2> QED BY <2>1, <2>2, <2>3, <2>4
  <1>8. recogniser'[WorkerOf[t]].stamp <= stamps'
    BY <1>0, <1>2 DEF MInv, Shape, Stamped
  <1> QED BY <1>1, <1>2, <1>3, <1>5, <1>6, <1>7, <1>8, Proceeds

LEMMA KeptBySetInstance ==
  ASSUME MInv, MTypeOK', NEW t \in Threads, K!SetInstance(t)
  PROVE  MInv'
  <1>0. t \in Threads /\ WorkerOf[t] \in Workers
    BY ThreadsHaveWorkers
  <1>1. training[t] \in Calls /\ K!At(t, "set_instance") /\ training[t].job \in {"get", "retrain"} /\ Running(t)
    BY DEF K!SetInstance, K!At, MInv, MTypeOK, Calls, Shape, Placed, Running
  <1>2. /\ modelFile' = modelFile /\ labelsFile' = labelsFile
        /\ stamps' = stamps /\ deaths' = deaths /\ overlapped' = overlapped
    BY DEF K!SetInstance, K!UnchangedDisk, K!UnchangedBounds
  <1>3. recogniser[WorkerOf[t]] \in Memories
    BY <1>0 DEF MInv, MTypeOK
  <1>4. /\ training'[t].job = training[t].job /\ training'[t].stamp = training[t].stamp
        /\ training'[t].step = IF training[t].job = "get" THEN "set_stamp" ELSE "list"
    BY <1>1 DEF K!SetInstance, K!Go, MInv, MTypeOK, Calls
  <1>5. LET m == recogniser'[WorkerOf[t]] IN
          /\ m.up = recogniser[WorkerOf[t]].up /\ m.stamp = recogniser[WorkerOf[t]].stamp
          /\ m.model = training[t].model /\ m.labels = training[t].labels
          /\ m.owner = {t} /\ m.early = training[t].early
    BY <1>0, <1>3 DEF K!SetInstance, MInv, MTypeOK, Memories
  <1>6. Elsewhere(t) /\ FileStep
    BY <1>2, <1>5 DEF Elsewhere, FileStep, K!SetInstance, K!Go, MInv, MTypeOK
  <1>7. training'[t].stamp <= stamps' /\ recogniser'[WorkerOf[t]].stamp <= stamps'
    BY <1>0, <1>2, <1>4, <1>5 DEF MInv, Shape, Stamped
  <1>8. Placed(t)'
    BY <1>1, <1>4, <1>5 DEF Placed, K!At, Loads, Late, MInv, Shape
  <1>9. ASSUME Loading PROVE Disk' /\ Reads(t)' /\ Retrains(t)' /\ InStep(WorkerOf[t])'
    <2>1. Disk'
      BY <1>1, <1>2, <1>6, <1>9, DiskKept DEF Loading, K!At, Writing
    <2>2. Retrains(t)'
      BY <1>4, <1>5 DEF Retrains, Late, K!Mine, K!At
    <2>3. Reads(t)
      BY <1>9 DEF Loading
    <2>4. Reads(t)'
      <3>1. CASE training[t].job # "get"
        BY <1>4, <3>1 DEF Reads
      <3>2. CASE training[t].job = "get"
        <4>1. Mem(t)'.stamp # modelFile'.stamp \/ modelFile'.state = "absent"
          BY <1>2, <1>5, <2>3, <3>2 DEF Reads, Mem
        <4>2. Same(t)' => Right(Mem(t).model, Mem(t).labels, Mem(t).early)'
          BY <1>1, <1>2, <1>4, <1>5, <2>3, <3>2 DEF Reads, Mem, Same, Right
        <4> QED BY <1>4, <3>2, <4>1, <4>2 DEF Reads, K!At
      <3> QED BY <3>1, <3>2
    <2>5. InStep(WorkerOf[t])'
      <3>1. CASE training[t].job = "get"
        <4>1. recogniser'[WorkerOf[t]].stamp # modelFile'.stamp \/ modelFile'.state = "absent"
          BY <1>2, <1>5, <2>3, <3>1 DEF Reads, Mem
        <4> QED BY <4>1 DEF InStep
      <3>2. CASE training[t].job # "get"
        BY <1>0, <1>4, <3>2 DEF InStep, Late
      <3> QED BY <3>1, <3>2
    <2> QED BY <2>1, <2>2, <2>4, <2>5
  <1> QED BY <1>1, <1>2, <1>4, <1>6, <1>7, <1>8, <1>9, Proceeds

LEMMA KeptBySetStamp ==
  ASSUME MInv, MTypeOK', NEW t \in Threads, K!SetStamp(t)
  PROVE  MInv'
  <1>0. t \in Threads /\ WorkerOf[t] \in Workers
    BY ThreadsHaveWorkers
  <1>1. training[t] \in Calls /\ K!At(t, "set_stamp") /\ training[t].job = "get" /\ Running(t)
    BY DEF K!SetStamp, K!At, MInv, MTypeOK, Calls, Shape, Placed, Running, Loads, Late
  <1>2. /\ modelFile' = modelFile /\ labelsFile' = labelsFile
        /\ stamps' = stamps /\ deaths' = deaths /\ overlapped' = overlapped
    BY DEF K!SetStamp, K!UnchangedDisk, K!UnchangedBounds
  <1>3. recogniser[WorkerOf[t]] \in Memories
    BY <1>0 DEF MInv, MTypeOK
  <1>4. training'[t] = K!Idle
    BY DEF K!SetStamp, K!Finish, MInv, MTypeOK
  <1>5. LET m == recogniser'[WorkerOf[t]] IN
          /\ m.stamp = training[t].stamp /\ m.up = recogniser[WorkerOf[t]].up
          /\ m.model = recogniser[WorkerOf[t]].model /\ m.labels = recogniser[WorkerOf[t]].labels
          /\ m.early = recogniser[WorkerOf[t]].early
    BY <1>0, <1>3 DEF K!SetStamp, MInv, MTypeOK, Memories
  <1>6. Elsewhere(t) /\ FileStep
    BY <1>2, <1>5 DEF Elsewhere, FileStep, K!SetStamp, K!Finish, MInv, MTypeOK
  <1>7. training'[t].stamp <= stamps' /\ recogniser'[WorkerOf[t]].stamp <= stamps'
    BY <1>0, <1>2, <1>4, <1>5 DEF MInv, MTypeOK, Shape, Stamped, K!Idle
  <1>8. Placed(t)' /\ training'[t].job = "none"
    BY <1>4 DEF Placed, K!Idle
  <1>9. ASSUME Loading PROVE Disk' /\ Reads(t)' /\ Retrains(t)' /\ InStep(WorkerOf[t])'
    <2>1. Disk'
      BY <1>1, <1>2, <1>6, <1>9, DiskKept DEF Loading, K!At, Writing
    <2>2. Reads(t)' /\ Retrains(t)'
      BY <1>4 DEF Reads, Retrains, Late, K!Idle
    <2>3. InStep(WorkerOf[t])'
      BY <1>1, <1>2, <1>5, <1>9 DEF Loading, Reads, Same, Mem, InStep, Right
    <2> QED BY <2>1, <2>2, <2>3
  <1> QED BY <1>1, <1>2, <1>6, <1>7, <1>8, <1>9, Proceeds

\* A step of a retrain that has begun to train.
LEMMA RetrainProceeds ==
  ASSUME MInv, MTypeOK', NEW t \in Threads, training[t].step \in Late, Elsewhere(t), FileStep,
         overlapped' = overlapped,
         training'[t].stamp = training[t].stamp \/ training'[t] = K!Idle,
         recogniser'[WorkerOf[t]].stamp \in {recogniser[WorkerOf[t]].stamp, K!ModelStamp},
         \/ training'[t].job = "retrain" /\ training'[t].step \in Late
         \/ training'[t] = K!Idle,
         Loading /\ Retrains(t) => Disk' /\ Retrains(t)',
         Loading /\ Retrains(t) /\ training'[t] = K!Idle => InStep(WorkerOf[t])'
  PROVE  MInv'
  <1>1. training[t].job = "retrain" /\ Running(t) /\ recogniser[WorkerOf[t]].up
    BY DEF MInv, MTypeOK, Calls, Shape, Placed, Late, Loads, Running, K!At
  <1>2. training'[t].job \in {training[t].job, "none"}
    BY <1>1 DEF K!Idle
  <1>3. stamps \in Nat /\ stamps' \in Nat /\ stamps <= stamps'
    BY DEF FileStep, MInv, MTypeOK
  <1>4. training'[t].stamp <= stamps'
    BY <1>3 DEF K!Idle, MInv, MTypeOK, Calls, Shape, Stamped
  <1>5. recogniser'[WorkerOf[t]].stamp <= stamps'
    <2>1. WorkerOf[t] \in Workers /\ recogniser[WorkerOf[t]].stamp \in Nat
      BY ThreadsHaveWorkers DEF MInv, MTypeOK, Memories
    <2>2. K!ModelStamp \in Nat /\ K!ModelStamp <= stamps
      BY <1>3 DEF K!ModelStamp, MInv, MTypeOK, Files, Shape, Stamped
    <2> QED BY <1>3, <2>1, <2>2 DEF MInv, Shape, Stamped
  <1>6. Placed(t)'
    BY <1>1 DEF Placed, Late, K!Idle, Elsewhere
  <1>7. ASSUME Loading PROVE Disk' /\ Reads(t)' /\ Retrains(t)' /\ InStep(WorkerOf[t])'
    <2>1. Retrains(t)
      BY <1>7 DEF Loading
    <2>2. Disk' /\ Retrains(t)'
      BY <1>7, <2>1
    <2>3. Reads(t)'
      BY DEF Reads, K!Idle
    <2>4. InStep(WorkerOf[t])'
      BY <1>7, <2>1 DEF InStep
    <2> QED BY <2>2, <2>3, <2>4
  <1> QED BY <1>1, <1>2, <1>4, <1>5, <1>6, <1>7, Proceeds

LEMMA KeptByListing ==
  ASSUME MInv, MTypeOK', NEW t \in Threads, K!List(t) \/ K!Look(t)
  PROVE  MInv'
  <1>0. t \in Threads /\ WorkerOf[t] \in Workers
    BY ThreadsHaveWorkers
  <1>1. training[t] \in Calls /\ training[t].step \in {"list", "look"} /\ training[t].step \in Late
    BY DEF K!List, K!Look, K!At, MInv, MTypeOK, Late
  <1>2. /\ recogniser' = recogniser /\ modelFile' = modelFile /\ labelsFile' = labelsFile
        /\ stamps' = stamps /\ deaths' = deaths /\ overlapped' = overlapped
    BY DEF K!List, K!Look, K!UnchangedDisk, K!UnchangedBounds
  <1>3. /\ \A u \in Threads \ {t} : training'[u] = training[u]
        /\ training'[t].job = training[t].job /\ training'[t].stamp = training[t].stamp
        /\ training'[t].step \in {"look", "remove_model", "write_model"}
    <2>1. CASE K!List(t)
      BY <1>1, <2>1 DEF K!List, MInv, MTypeOK, Calls
    <2>2. CASE K!Look(t)
      <3> DEFINE kept == training[t].model.listing \cap faces
                 step == IF kept = {} THEN "remove_model" ELSE "write_model"
                 model == [listing |-> training[t].model.listing, known |-> kept]
      <3>1. training' = [training EXCEPT ![t] = [training[t] EXCEPT !.step = step, !.model = model]]
        BY <2>2 DEF K!Look
      <3>2. step \in {"remove_model", "write_model"}
        OBVIOUS
      <3> HIDE DEF step, model
      <3> QED BY <1>1, <3>1, <3>2 DEF MInv, MTypeOK, Calls
    <2> QED BY <2>1, <2>2
  <1>4. Elsewhere(t) /\ FileStep
    BY <1>2, <1>3 DEF Elsewhere, FileStep
  <1>5. training'[t].job = "retrain" /\ training'[t].step \in Late
    BY <1>1, <1>3 DEF MInv, Shape, Placed, Late, Loads, MTypeOK, Calls
  <1>6. ASSUME Loading, Retrains(t) PROVE Disk' /\ Retrains(t)'
    <2>1. Disk'
      BY <1>1, <1>2, <1>4, <1>6, DiskKept DEF Loading, K!At, Writing
    <2>2. Retrains(t)'
      BY <1>1, <1>2, <1>3, <1>6 DEF Retrains, K!Mine, K!At
    <2> QED BY <2>1, <2>2
  <1>7. training'[t] # K!Idle
    BY <1>5 DEF K!Idle
  <1> QED BY <1>1, <1>2, <1>3, <1>4, <1>5, <1>6, <1>7, RetrainProceeds

LEMMA KeptByWriteModel ==
  ASSUME MInv, MTypeOK', NEW t \in Threads, K!WriteModel(t)
  PROVE  MInv'
  <1>0. t \in Threads /\ WorkerOf[t] \in Workers
    BY ThreadsHaveWorkers
  <1>1. training[t] \in Calls /\ training[t].step = "write_model" /\ training[t].step \in Late
    BY DEF K!WriteModel, K!At, MInv, MTypeOK, Late
  <1>2. /\ modelFile' = [state |-> "torn", stamp |-> stamps + 1, model |-> K!NoModel]
        /\ labelsFile' = labelsFile
        /\ stamps' = stamps + 1 /\ deaths' = deaths /\ overlapped' = overlapped
    BY DEF K!WriteModel, K!UnchangedBounds
  <1>3. /\ \A u \in Threads \ {t} : training'[u] = training[u]
        /\ training'[t] = [training[t] EXCEPT !.step = "end_model"]
    BY DEF K!WriteModel, K!Go, MInv, MTypeOK
  <1>4. /\ training'[t].job = training[t].job /\ training'[t].stamp = training[t].stamp
        /\ training'[t].step = "end_model" /\ training'[t].model = training[t].model
    BY <1>1, <1>3 DEF Calls
  <1>5. recogniser[WorkerOf[t]] \in Memories
    BY <1>0 DEF MInv, MTypeOK
  <1>6. LET m == recogniser'[WorkerOf[t]] IN
          /\ m.stamp = recogniser[WorkerOf[t]].stamp /\ m.up = recogniser[WorkerOf[t]].up
          /\ m.owner = recogniser[WorkerOf[t]].owner
          /\ K!Mine(t) => m.model = training[t].model
    BY <1>0, <1>5 DEF K!WriteModel, MInv, MTypeOK, Memories
  <1>7. Elsewhere(t) /\ FileStep
    BY <1>2, <1>3, <1>6 DEF Elsewhere, FileStep, K!WriteModel, MInv, MTypeOK
  <1>8. training'[t].job = "retrain" /\ training'[t].step \in Late
    BY <1>1, <1>4 DEF MInv, Shape, Placed, Late, Loads, MTypeOK, Calls
  <1>9. ASSUME Loading, Retrains(t) PROVE Disk' /\ Retrains(t)'
    <2>1. Disk'
      <3>1. deaths = 0 => \A w \in Workers : recogniser'[w].up
        BY <1>6, <1>9 DEF Loading, Disk, Elsewhere, K!WriteModel, MInv, MTypeOK
      <3> QED BY <1>2, <1>4, <3>1 DEF Disk, Writing
    <2>2. Retrains(t)'
      BY <1>1, <1>2, <1>4, <1>6, <1>9 DEF Retrains, K!Mine, Mem, K!At
    <2> QED BY <2>1, <2>2
  <1>10. training'[t] # K!Idle
    BY <1>8 DEF K!Idle
  <1> QED BY <1>1, <1>2, <1>4, <1>6, <1>7, <1>8, <1>9, <1>10, RetrainProceeds

LEMMA KeptByEndModel ==
  ASSUME MInv, MTypeOK', NEW t \in Threads, K!EndModel(t)
  PROVE  MInv'
  <1>0. t \in Threads /\ WorkerOf[t] \in Workers
    BY ThreadsHaveWorkers
  <1>1. training[t] \in Calls /\ training[t].step = "end_model" /\ training[t].step \in Late
    BY DEF K!EndModel, K!At, MInv, MTypeOK, Late
  <1>2. /\ modelFile' = [state |-> "whole", stamp |-> stamps + 1, model |-> training[t].model]
        /\ labelsFile' = labelsFile /\ recogniser' = recogniser
        /\ stamps' = stamps + 1 /\ deaths' = deaths /\ overlapped' = overlapped
    BY DEF K!EndModel, K!UnchangedBounds
  <1>3. /\ \A u \in Threads \ {t} : training'[u] = training[u]
        /\ training'[t] = [training[t] EXCEPT !.step = "write_labels"]
    BY DEF K!EndModel, K!Go, MInv, MTypeOK
  <1>4. /\ training'[t].job = training[t].job /\ training'[t].stamp = training[t].stamp
        /\ training'[t].step = "write_labels" /\ training'[t].model = training[t].model
    BY <1>1, <1>3 DEF Calls
  <1>5. Elsewhere(t) /\ FileStep
    BY <1>2, <1>3 DEF Elsewhere, FileStep
  <1>6. training'[t].job = "retrain" /\ training'[t].step \in Late
    BY <1>1, <1>4 DEF MInv, Shape, Placed, Late, Loads, MTypeOK, Calls
  <1>7. ASSUME Loading, Retrains(t) PROVE Disk' /\ Retrains(t)'
    <2>1. Disk'
      <3>1. deaths = 0 => \A w \in Workers : recogniser'[w].up
        BY <1>2, <1>7 DEF Loading, Disk
      <3> QED BY <1>2, <1>4, <3>1 DEF Disk, Writing
    <2>2. Retrains(t)'
      BY <1>1, <1>2, <1>4, <1>7 DEF Retrains, K!Mine, Mem, K!At
    <2> QED BY <2>1, <2>2
  <1>8. training'[t] # K!Idle
    BY <1>6 DEF K!Idle
  <1> QED BY <1>1, <1>2, <1>4, <1>5, <1>6, <1>7, <1>8, RetrainProceeds

LEMMA KeptByWriteLabels ==
  ASSUME MInv, MTypeOK', NEW t \in Threads, K!WriteLabels(t)
  PROVE  MInv'
  <1>1. training[t] \in Calls /\ training[t].step = "write_labels" /\ training[t].step \in Late
    BY DEF K!WriteLabels, K!At, MInv, MTypeOK, Late
  <1>2. /\ modelFile' = modelFile /\ recogniser' = recogniser /\ stamps' = stamps
        /\ deaths' = deaths /\ overlapped' = overlapped
    BY DEF K!WriteLabels, K!UnchangedBounds
  <1>3. /\ \A u \in Threads \ {t} : training'[u] = training[u]
        /\ training'[t] = [training[t] EXCEPT !.step = "end_labels"]
    BY DEF K!WriteLabels, K!Go, MInv, MTypeOK
  <1>4. /\ training'[t].job = training[t].job /\ training'[t].stamp = training[t].stamp
        /\ training'[t].step = "end_labels" /\ training'[t].model = training[t].model
    BY <1>1, <1>3 DEF Calls
  <1>5. Elsewhere(t) /\ FileStep
    BY <1>2, <1>3 DEF Elsewhere, FileStep
  <1>6. training'[t].job = "retrain" /\ training'[t].step \in Late
    BY <1>1, <1>4 DEF MInv, Shape, Placed, Late, Loads, MTypeOK, Calls
  <1>7. ASSUME Loading, Retrains(t) PROVE Disk' /\ Retrains(t)'
    <2>1. Disk'
      <3>1. deaths = 0 => \A w \in Workers : recogniser'[w].up
        BY <1>2, <1>7 DEF Loading, Disk
      <3> QED BY <1>2, <1>4, <3>1 DEF Disk, Writing
    <2>2. Retrains(t)'
      BY <1>1, <1>2, <1>4, <1>7 DEF Retrains, K!Mine, Mem, K!At
    <2> QED BY <2>1, <2>2
  <1>8. training'[t] # K!Idle
    BY <1>6 DEF K!Idle
  <1> QED BY <1>1, <1>2, <1>4, <1>5, <1>6, <1>7, <1>8, RetrainProceeds

LEMMA KeptByEndLabels ==
  ASSUME MInv, MTypeOK', NEW t \in Threads, K!EndLabels(t)
  PROVE  MInv'
  <1>0. t \in Threads /\ WorkerOf[t] \in Workers
    BY ThreadsHaveWorkers
  <1>1. training[t] \in Calls /\ training[t].step = "end_labels" /\ training[t].step \in Late
    BY DEF K!EndLabels, K!At, MInv, MTypeOK, Late
  <1>2. /\ modelFile' = modelFile /\ stamps' = stamps
        /\ labelsFile' = [state |-> "whole", names |-> training[t].model.known]
        /\ deaths' = deaths /\ overlapped' = overlapped
    BY DEF K!EndLabels, K!UnchangedBounds
  <1>3. /\ \A u \in Threads \ {t} : training'[u] = training[u]
        /\ training'[t] = [training[t] EXCEPT !.step = "record_stamp"]
    BY DEF K!EndLabels, K!Go, MInv, MTypeOK
  <1>4. /\ training'[t].job = training[t].job /\ training'[t].stamp = training[t].stamp
        /\ training'[t].step = "record_stamp" /\ training'[t].model = training[t].model
    BY <1>1, <1>3 DEF Calls
  <1>5. recogniser[WorkerOf[t]] \in Memories
    BY <1>0 DEF MInv, MTypeOK
  <1>6. LET m == recogniser'[WorkerOf[t]] IN
          /\ m.stamp = recogniser[WorkerOf[t]].stamp /\ m.up = recogniser[WorkerOf[t]].up
          /\ m.owner = recogniser[WorkerOf[t]].owner /\ m.model = recogniser[WorkerOf[t]].model
          /\ K!Mine(t) => m.labels = training[t].model.known
    BY <1>0, <1>5 DEF K!EndLabels, MInv, MTypeOK, Memories
  <1>7. Elsewhere(t) /\ FileStep
    BY <1>2, <1>3, <1>6 DEF Elsewhere, FileStep, K!EndLabels, MInv, MTypeOK
  <1>8. training'[t].job = "retrain" /\ training'[t].step \in Late
    BY <1>1, <1>4 DEF MInv, Shape, Placed, Late, Loads, MTypeOK, Calls
  <1>9. ASSUME Loading, Retrains(t) PROVE Disk' /\ Retrains(t)'
    <2>1. Disk'
      <3>1. deaths = 0 => \A w \in Workers : recogniser'[w].up
        BY <1>6, <1>9 DEF Loading, Disk, Elsewhere, K!EndLabels, MInv, MTypeOK
      <3>2. modelFile.state = "whole" /\ modelFile.model = training[t].model
        BY <1>1, <1>9 DEF Retrains, K!At
      <3> QED BY <1>2, <3>1, <3>2 DEF Disk, Consistent
    <2>2. Retrains(t)'
      BY <1>1, <1>2, <1>4, <1>6, <1>9 DEF Retrains, K!Mine, Mem, K!At
    <2> QED BY <2>1, <2>2
  <1>10. training'[t] # K!Idle
    BY <1>8 DEF K!Idle
  <1> QED BY <1>1, <1>2, <1>4, <1>6, <1>7, <1>8, <1>9, <1>10, RetrainProceeds

LEMMA KeptByRemoving ==
  ASSUME MInv, MTypeOK', NEW t \in Threads, K!RemoveModel(t) \/ K!RemoveLabels(t)
  PROVE  MInv'
  <1>1. training[t] \in Calls /\ training[t].step \in {"remove_model", "remove_labels"}
        /\ training[t].step \in Late
    BY DEF K!RemoveModel, K!RemoveLabels, K!At, MInv, MTypeOK, Late
  <1>2. /\ recogniser' = recogniser /\ stamps' = stamps
        /\ deaths' = deaths /\ overlapped' = overlapped
    BY DEF K!RemoveModel, K!RemoveLabels, K!UnchangedBounds
  <1>3. /\ \A u \in Threads \ {t} : training'[u] = training[u]
        /\ training'[t].job = training[t].job /\ training'[t].stamp = training[t].stamp
        /\ \/ training'[t].step = "remove_labels" /\ K!RemoveModel(t)
           \/ training'[t].step = "record_stamp" /\ K!RemoveLabels(t)
    BY <1>1 DEF K!RemoveModel, K!RemoveLabels, K!Go, MInv, MTypeOK, Calls
  <1>4. Elsewhere(t) /\ FileStep
    BY <1>2, <1>3 DEF Elsewhere, FileStep, K!RemoveModel, K!RemoveLabels
  <1>5. training'[t].job = "retrain" /\ training'[t].step \in Late
    BY <1>1, <1>3 DEF MInv, Shape, Placed, Late, Loads, MTypeOK, Calls
  <1>6. ASSUME Loading, Retrains(t) PROVE Disk' /\ Retrains(t)'
    <2>1. modelFile'.state = "absent"
      <3>1. CASE K!RemoveModel(t)
        BY <3>1 DEF K!RemoveModel
      <3>2. CASE K!RemoveLabels(t)
        BY <1>1, <1>6, <3>2 DEF K!RemoveLabels, Retrains, K!At
      <3> QED BY <3>1, <3>2
    <2>2. Disk'
      <3>1. deaths = 0 => \A w \in Workers : recogniser'[w].up
        BY <1>2, <1>6 DEF Loading, Disk
      <3>2. CASE K!RemoveModel(t)
        <4>1. training'[t].step \in Writing
          BY <1>3, <3>2 DEF K!RemoveModel, K!RemoveLabels, K!At, Writing
        <4> QED BY <1>2, <3>1, <4>1 DEF Disk
      <3>3. CASE K!RemoveLabels(t)
        BY <1>2, <2>1, <3>1, <3>3 DEF K!RemoveLabels, Disk, Consistent
      <3> QED BY <3>2, <3>3
    <2>3. Retrains(t)'
      BY <1>1, <1>2, <1>3, <1>6, <2>1 DEF Retrains, K!Mine, Mem, K!At
    <2> QED BY <2>2, <2>3
  <1>7. training'[t] # K!Idle
    BY <1>5 DEF K!Idle
  <1> QED BY <1>1, <1>2, <1>3, <1>4, <1>5, <1>6, <1>7, RetrainProceeds

LEMMA KeptByRecordStamp ==
  ASSUME MInv, MTypeOK', NEW t \in Threads, K!RecordStamp(t)
  PROVE  MInv'
  <1>0. t \in Threads /\ WorkerOf[t] \in Workers
    BY ThreadsHaveWorkers
  <1>1. training[t] \in Calls /\ training[t].step = "record_stamp" /\ training[t].step \in Late
    BY DEF K!RecordStamp, K!At, MInv, MTypeOK, Late
  <1>2. /\ modelFile' = modelFile /\ labelsFile' = labelsFile /\ stamps' = stamps
        /\ deaths' = deaths /\ overlapped' = overlapped
    BY DEF K!RecordStamp, K!UnchangedDisk, K!UnchangedBounds
  <1>3. training'[t] = K!Idle
    BY DEF K!RecordStamp, K!Finish, MInv, MTypeOK
  <1>4. recogniser[WorkerOf[t]] \in Memories
    BY <1>0 DEF MInv, MTypeOK
  <1>5. LET m == recogniser'[WorkerOf[t]] IN
          /\ m.stamp = K!ModelStamp /\ m.up = recogniser[WorkerOf[t]].up
          /\ m.model = recogniser[WorkerOf[t]].model /\ m.labels = recogniser[WorkerOf[t]].labels
    BY <1>0, <1>4 DEF K!RecordStamp, MInv, MTypeOK, Memories
  <1>6. Elsewhere(t) /\ FileStep
    BY <1>2, <1>5 DEF Elsewhere, FileStep, K!RecordStamp, K!Finish, MInv, MTypeOK
  <1>7. ASSUME Loading, Retrains(t) PROVE Disk' /\ Retrains(t)' /\ InStep(WorkerOf[t])'
    <2>1. Disk'
      BY <1>1, <1>2, <1>6, <1>7, DiskKept DEF Loading, Writing
    <2>2. Retrains(t)'
      BY <1>3 DEF Retrains, Late, K!Idle
    <2>3. InStep(WorkerOf[t])'
      BY <1>1, <1>2, <1>5, <1>7 DEF Retrains, K!At, Mem, InStep, Right
    <2> QED BY <2>1, <2>2, <2>3
  <1> QED BY <1>1, <1>2, <1>3, <1>5, <1>6, <1>7, RetrainProceeds

\* A call that begins leaves the others alone; when it clashes with none, it is
\* alone as well.
LEMMA Begins ==
  ASSUME MInv, MTypeOK', NEW t \in Threads, Elsewhere(t), recogniser' = recogniser,
         UNCHANGED <<modelFile, labelsFile, stamps>>,
         training'[t].stamp <= stamps', Placed(t)',
         training[t].step \in {"idle", "start"},
         training'[t].step \in {"start", "read_model"},
         Loading /\ ~overlapped' => Alone' /\ Reads(t)'
  PROVE  MInv'
  <1>0. WorkerOf[t] \in Workers
    BY ThreadsHaveWorkers
  <1>1. FileStep
    BY DEF FileStep
  <1>2. Shape'
    BY <1>0, <1>1, ShapeKept DEF MInv, Shape, Stamped
  <1>3. ASSUME ~overlapped' PROVE Loading'
    <2>1. Loading
      BY <1>3 DEF MInv, Elsewhere
    <2>2. /\ \A u \in Threads \ {t} : Reads(u)' /\ Retrains(u)'
          /\ \A w \in Workers \ {WorkerOf[t]} : InStep(w)'
      BY <1>1, <2>1, OthersKept DEF MInv
    <2>3. Disk'
      BY <2>1, DiskKept DEF Loading, Writing
    <2>4. Retrains(t)'
      BY DEF Retrains, Late
    <2>5. InStep(WorkerOf[t])'
      BY <1>0, <2>1 DEF Loading, InStep, Right, Elsewhere, Late
    <2> QED BY <1>3, <2>1, <2>2, <2>3, <2>4, <2>5 DEF Loading
  <1> QED BY <1>2, <1>3 DEF MInv

LEMMA KeptByGetStat ==
  ASSUME MInv, MTypeOK', NEW t \in Threads, K!GetStat(t)
  PROVE  MInv'
  <1>1. training[t] \in Calls /\ training[t].step = "idle"
    BY DEF K!GetStat, MInv, MTypeOK, Shape, Placed
  <1>2. /\ recogniser' = recogniser /\ modelFile' = modelFile /\ labelsFile' = labelsFile
        /\ stamps' = stamps /\ deaths' = deaths /\ overlapped' = (overlapped \/ K!Clash(t, "get"))
    BY DEF K!GetStat, K!UnchangedDisk
  <1>3. /\ \A u \in Threads \ {t} : training'[u] = training[u]
        /\ training'[t].job = "get" /\ training'[t].step = "read_model"
        /\ training'[t].stamp = K!ModelStamp
    BY DEF K!GetStat, MInv, MTypeOK, K!Idle
  <1>4. Elsewhere(t)
    BY <1>2, <1>3 DEF Elsewhere
  <1>5. training'[t].stamp <= stamps'
    BY <1>2, <1>3 DEF K!ModelStamp, MInv, MTypeOK, Shape, Stamped
  <1>6. Placed(t)'
    BY <1>2, <1>3 DEF K!GetStat, Placed, Loads
  <1>7. ASSUME Loading, ~overlapped' PROVE Alone' /\ Reads(t)'
    <2>1. \A u \in Threads \ {t} : Running(u) => WorkerOf[u] # WorkerOf[t]
      BY <1>2, <1>7 DEF K!Clash, Running
    <2>2. \A u \in Threads \ {t} : Running(u)' <=> Running(u)
      BY <1>3 DEF Running, K!At
    <2>3. Alone
      BY <1>7 DEF Loading
    <2>4. Alone'
      <3> SUFFICES ASSUME NEW x \in Threads, NEW y \in Threads, Running(x)', Running(y)',
                          WorkerOf[x] = WorkerOf[y]
                             \/ (training'[x].job = "retrain" /\ training'[y].job = "retrain"),
                          x # y
                   PROVE  FALSE
        BY DEF Alone
      <3>1. CASE x = t
        BY <1>3, <2>1, <2>2, <3>1
      <3>2. CASE y = t
        BY <1>3, <2>1, <2>2, <3>2
      <3>3. CASE x # t /\ y # t
        BY <1>3, <2>2, <2>3, <3>3 DEF Alone
      <3> QED BY <3>1, <3>2, <3>3
    <2>5. Mem(t)'.stamp # modelFile'.stamp \/ modelFile'.state = "absent"
      BY <1>2 DEF K!GetStat, Mem, K!ModelStamp
    <2>6. Reads(t)'
      BY <1>3, <2>5 DEF Reads, K!At
    <2> QED BY <2>4, <2>6
  <1> QED BY <1>1, <1>2, <1>3, <1>4, <1>5, <1>6, <1>7, Begins

LEMMA KeptByStartRetrain ==
  ASSUME MInv, MTypeOK', NEW t \in Threads, K!StartRetrain(t)
  PROVE  MInv'
  <1>1. training[t] \in Calls /\ training[t].step = "start" /\ training[t].job = "retrain"
    BY DEF K!StartRetrain, K!At, MInv, MTypeOK, Calls, Shape, Placed, Loads
  <1>2. /\ recogniser' = recogniser /\ modelFile' = modelFile /\ labelsFile' = labelsFile
        /\ stamps' = stamps /\ deaths' = deaths
        /\ overlapped' = (overlapped \/ K!Clash(t, "retrain"))
    BY DEF K!StartRetrain, K!UnchangedDisk
  <1>3. /\ \A u \in Threads \ {t} : training'[u] = training[u]
        /\ training'[t].job = "retrain" /\ training'[t].step = "read_model"
        /\ training'[t].stamp = training[t].stamp
    BY <1>1 DEF K!StartRetrain, K!Go, MInv, MTypeOK, Calls
  <1>4. Elsewhere(t)
    BY <1>2, <1>3 DEF Elsewhere
  <1>5. training'[t].stamp <= stamps'
    BY <1>2, <1>3 DEF MInv, Shape, Stamped
  <1>6. Placed(t)'
    BY <1>1, <1>2, <1>3 DEF Placed, Loads, MInv, Shape
  <1>7. ASSUME Loading, ~overlapped' PROVE Alone' /\ Reads(t)'
    <2>1. \A u \in Threads \ {t} :
             Running(u) => WorkerOf[u] # WorkerOf[t] /\ training[u].job # "retrain"
      BY <1>2, <1>7 DEF K!Clash, Running, K!Retraining
    <2>2. \A u \in Threads \ {t} : Running(u)' <=> Running(u)
      BY <1>3 DEF Running, K!At
    <2>3. Alone
      BY <1>7 DEF Loading
    <2>4. Alone'
      <3> SUFFICES ASSUME NEW x \in Threads, NEW y \in Threads, Running(x)', Running(y)',
                          WorkerOf[x] = WorkerOf[y]
                             \/ (training'[x].job = "retrain" /\ training'[y].job = "retrain"),
                          x # y
                   PROVE  FALSE
        BY DEF Alone
      <3>1. CASE x = t
        BY <1>3, <2>1, <2>2, <3>1
      <3>2. CASE y = t
        BY <1>3, <2>1, <2>2, <3>2
      <3>3. CASE x # t /\ y # t
        BY <1>3, <2>2, <2>3, <3>3 DEF Alone
      <3> QED BY <3>1, <3>2, <3>3
    <2>5. Reads(t)'
      BY <1>3 DEF Reads
    <2> QED BY <2>4, <2>5
  <1> QED BY <1>1, <1>2, <1>3, <1>4, <1>5, <1>6, <1>7, Begins

LEMMA KeptByChangeFaces ==
  ASSUME MInv, MTypeOK', NEW t \in Threads, NEW p \in K!People, K!ChangeFaces(t, p)
  PROVE  MInv'
  <1>1. training[t].step = "idle"
    BY DEF K!ChangeFaces, MInv, Shape, Placed
  <1>2. /\ recogniser' = recogniser /\ modelFile' = modelFile /\ labelsFile' = labelsFile
        /\ stamps' = stamps /\ deaths' = deaths /\ overlapped' = overlapped
    BY DEF K!ChangeFaces, K!UnchangedDisk
  <1>3. /\ \A u \in Threads \ {t} : training'[u] = training[u]
        /\ training'[t].job = "retrain" /\ training'[t].step = "start"
        /\ training'[t].stamp = 0
    BY DEF K!ChangeFaces, MInv, MTypeOK, K!Idle
  <1>4. Elsewhere(t)
    BY <1>2, <1>3 DEF Elsewhere
  <1>5. training'[t].stamp <= stamps'
    BY <1>2, <1>3 DEF MInv, MTypeOK
  <1>6. Placed(t)'
    BY <1>2, <1>3 DEF K!ChangeFaces, Placed
  <1>7. ASSUME Loading PROVE Alone' /\ Reads(t)'
    <2>1. \A u \in Threads : Running(u)' => Running(u) /\ training'[u] = training[u]
      BY <1>3 DEF Running, K!At
    <2>2. Alone'
      BY <1>7, <2>1 DEF Loading, Alone
    <2>3. Reads(t)'
      BY <1>3 DEF Reads
    <2> QED BY <2>2, <2>3
  <1> QED BY <1>1, <1>2, <1>3, <1>4, <1>5, <1>6, <1>7, Begins

LEMMA KeptByCrash ==
  ASSUME MInv, MTypeOK', NEW w \in Workers, K!Crash(w)
  PROVE  MInv'
  <1>1. /\ modelFile' = modelFile /\ labelsFile' = labelsFile /\ stamps' = stamps
        /\ deaths' = deaths + 1 /\ overlapped' = overlapped
    BY DEF K!Crash, K!UnchangedDisk
  <1>2. deaths' # 0
    BY <1>1 DEF MInv, MTypeOK
  <1>3. \A t \in Threads : training'[t] = IF WorkerOf[t] = w THEN K!Idle ELSE training[t]
    BY DEF K!Crash
  <1>4. recogniser[w] \in Memories
    BY DEF MInv, MTypeOK
  <1>5. /\ \A v \in Workers \ {w} : recogniser'[v] = recogniser[v]
        /\ ~recogniser'[w].up /\ recogniser'[w].stamp = recogniser[w].stamp
    BY <1>4 DEF K!Crash, MInv, MTypeOK, Memories
  <1>6. Shape'
    <2>1. \A t \in Threads : training'[t].stamp <= stamps'
      BY <1>1, <1>3 DEF K!Idle, MInv, MTypeOK, Shape, Stamped
    <2>2. \A v \in Workers : recogniser'[v].stamp <= stamps'
      BY <1>1, <1>5 DEF MInv, Shape, Stamped
    <2>3. \A t \in Threads : Placed(t)'
      <3>1. TAKE t \in Threads
      <3>2. CASE WorkerOf[t] = w
        BY <1>3, <3>2 DEF Placed, K!Idle
      <3>3. CASE WorkerOf[t] # w
        <4>1. training'[t] = training[t] /\ recogniser'[WorkerOf[t]] = recogniser[WorkerOf[t]]
          BY <1>3, <1>5, <3>3, ThreadsHaveWorkers
        <4> QED BY <4>1 DEF Placed, MInv, Shape
      <3> QED BY <3>2, <3>3
    <2> QED BY <1>1, <2>1, <2>2, <2>3 DEF MInv, Shape, Stamped
  <1>7. ASSUME ~overlapped' PROVE Loading'
    <2>1. Loading
      BY <1>1, <1>7 DEF MInv
    <2>2. Alone'
      <3>1. \A t \in Threads : Running(t)' => Running(t) /\ training'[t] = training[t]
        BY <1>3 DEF Running, K!At, K!Idle
      <3> QED BY <2>1, <3>1 DEF Loading, Alone
    <2>3. Disk'
      BY <1>2 DEF Disk
    <2>4. \A t \in Threads : Reads(t)' /\ Retrains(t)'
      <3>1. TAKE t \in Threads
      <3>2. CASE WorkerOf[t] = w
        BY <1>3, <3>2 DEF Reads, Retrains, K!Idle, Late
      <3>3. CASE WorkerOf[t] # w
        <4>1. training'[t] = training[t] /\ recogniser'[WorkerOf[t]] = recogniser[WorkerOf[t]]
          BY <1>3, <1>5, <3>3, ThreadsHaveWorkers
        <4>2. Reads(t) /\ Retrains(t)
          BY <2>1 DEF Loading
        <4>3. Reads(t)'
          BY <1>1, <1>2, <4>1, <4>2 DEF Reads, Same, Right, Mem, K!At
        <4>4. Retrains(t)'
          BY <1>1, <4>1, <4>2 DEF Retrains, K!Mine, Mem, K!At
        <4> QED BY <4>3, <4>4
      <3> QED BY <3>2, <3>3
    <2>5. \A v \in Workers : InStep(v)'
      <3>1. TAKE v \in Workers
      <3>2. CASE v = w
        BY <1>5, <3>2 DEF InStep
      <3>3. CASE v # w
        <4>1. \A t \in Threads : WorkerOf[t] = v => training'[t] = training[t]
          BY <1>3, <3>3
        <4> QED BY <1>1, <1>2, <1>5, <2>1, <3>3, <4>1 DEF Loading, InStep, Right
      <3> QED BY <3>2, <3>3
    <2> QED BY <2>2, <2>3, <2>4, <2>5 DEF Loading
  <1> QED BY <1>6, <1>7 DEF MInv

LEMMA KeptByBoot ==
  ASSUME MInv, MTypeOK', NEW w \in Workers, K!Boot(w)
  PROVE  MInv'
  <1>1. /\ modelFile' = modelFile /\ labelsFile' = labelsFile /\ stamps' = stamps
        /\ deaths' = deaths /\ overlapped' = overlapped /\ training' = training
    BY DEF K!Boot, K!UnchangedDisk, K!UnchangedBounds
  <1>2. /\ ~recogniser[w].up
        /\ \A t \in Threads : WorkerOf[t] = w => training[t].job = "none" /\ training[t].step = "idle"
    BY DEF K!Boot, MInv, Shape, Placed
  <1>3. recogniser[w] \in Memories
    BY DEF MInv, MTypeOK
  <1>4. /\ \A v \in Workers \ {w} : recogniser'[v] = recogniser[v]
        /\ recogniser'[w].stamp = K!ModelStamp
        /\ recogniser'[w].model \in {K!NoModel, modelFile.model}
    <2> DEFINE m == IF K!IsTrained THEN modelFile.model ELSE K!NoModel
               l == IF K!IsTrained THEN labelsFile.names ELSE {}
    <2>1. m \in {K!NoModel, modelFile.model}
      OBVIOUS
    <2>2. recogniser' = [recogniser EXCEPT ![w] = [recogniser[w] EXCEPT !.up = TRUE, !.stamp = K!ModelStamp,
                       !.model = m, !.labels = l, !.early = K!BetweenWrites]]
      BY DEF K!Boot
    <2> HIDE DEF m, l
    <2> QED BY <1>3, <2>1, <2>2 DEF MInv, MTypeOK, Memories
  <1>5. Shape'
    <2>1. \A v \in Workers : recogniser'[v].stamp <= stamps'
      BY <1>1, <1>4 DEF K!ModelStamp, MInv, MTypeOK, Shape, Stamped
    <2>2. \A t \in Threads : Placed(t)'
      <3>1. TAKE t \in Threads
      <3>2. Placed(t)
        BY DEF MInv, Shape
      <3>3. CASE WorkerOf[t] = w
        BY <1>1, <1>2, <3>2, <3>3 DEF Placed
      <3>4. CASE WorkerOf[t] # w
        BY <1>1, <1>4, <3>2, <3>4, ThreadsHaveWorkers DEF Placed
      <3> QED BY <3>3, <3>4
    <2> QED BY <1>1, <2>1, <2>2 DEF MInv, Shape, Stamped
  <1>6. ASSUME ~overlapped' PROVE Loading'
    <2>1. Loading
      BY <1>1, <1>6 DEF MInv
    <2>2. deaths # 0
      BY <1>2, <2>1 DEF Loading, Disk
    <2>3. Alone' /\ Disk'
      BY <1>1, <2>1, <2>2 DEF Loading, Alone, Disk, Running, K!At
    <2>4. \A t \in Threads : Reads(t)' /\ Retrains(t)'
      <3>1. TAKE t \in Threads
      <3>2. CASE WorkerOf[t] = w
        BY <1>1, <1>2, <3>2 DEF Reads, Retrains, Late
      <3>3. CASE WorkerOf[t] # w
        <4>1. recogniser'[WorkerOf[t]] = recogniser[WorkerOf[t]]
          BY <1>4, <3>3, ThreadsHaveWorkers
        <4>2. Reads(t) /\ Retrains(t)
          BY <2>1 DEF Loading
        <4>3. Reads(t)'
          BY <1>1, <4>1, <4>2 DEF Reads, Same, Right, Mem, K!At
        <4>4. Retrains(t)'
          BY <1>1, <4>1, <4>2 DEF Retrains, K!Mine, Mem, K!At
        <4> QED BY <4>3, <4>4
      <3> QED BY <3>2, <3>3
    <2>5. \A v \in Workers : InStep(v)'
      <3>1. TAKE v \in Workers
      <3>2. CASE v = w
        BY <1>1, <1>4, <2>2, <3>2 DEF InStep, Right
      <3>3. CASE v # w
        BY <1>1, <1>4, <2>1, <3>3 DEF Loading, InStep, Right
      <3> QED BY <3>2, <3>3
    <2> QED BY <2>3, <2>4, <2>5 DEF Loading
  <1> QED BY <1>5, <1>6 DEF MInv

LEMMA MInit == K!Init => MInv
  <1> SUFFICES ASSUME K!Init PROVE MInv
    OBVIOUS
  <1>1. MTypeOK
    BY InitTypes
  <1>2. Shape
    BY ThreadsHaveWorkers DEF K!Init, Shape, Stamped, Placed, K!Idle
  <1>3. Alone
    BY DEF K!Init, Alone, Running, K!Idle
  <1>4. Disk
    BY DEF K!Init, Disk, Consistent
  <1>5. \A t \in Threads : Reads(t) /\ Retrains(t)
    BY DEF K!Init, Reads, Retrains, K!Idle, Late
  <1>6. \A w \in Workers : InStep(w)
    BY DEF K!Init, InStep
  <1> QED BY <1>1, <1>2, <1>3, <1>4, <1>5, <1>6 DEF MInv, Loading

LEMMA MNext == MInv /\ [K!Next]_(K!vars) => MInv'
  <1> SUFFICES ASSUME MInv, [K!Next]_(K!vars) PROVE MInv'
    OBVIOUS
  <1>1. CASE UNCHANGED K!vars
    BY <1>1 DEF K!vars, MInv, MTypeOK, Shape, Stamped, Placed, Loading, Alone, Running, Disk,
       Consistent, Reads, Retrains, InStep, Same, Right, Mem, K!Mine, K!At
  <1>2. CASE K!Next
    <2>1. MTypeOK'
      BY <1>2, NextTypes DEF MInv
    <2> QED BY <1>2, <2>1, KeptByReadModel, KeptByReadLabels, KeptBySetInstance, KeptBySetStamp,
               KeptByListing, KeptByWriteModel, KeptByEndModel, KeptByWriteLabels, KeptByEndLabels,
               KeptByRemoving, KeptByRecordStamp, KeptByGetStat, KeptByStartRetrain,
               KeptByChangeFaces, KeptByCrash, KeptByBoot DEF K!Next, K!Proceed
  <1> QED BY <1>1, <1>2

LEMMA InvKeepsStep == MInv => K!WorkersInStep
  <1> SUFFICES ASSUME MInv, ~overlapped, NEW w \in Workers, recogniser[w].stamp = modelFile.stamp
               PROVE  /\ recogniser[w].up /\ ~K!RetrainsIn(w) /\ modelFile.state # "absent"
                         => recogniser[w].model \in {K!NoModel, modelFile.model}
                      /\ deaths = 0 /\ K!Retraining = {} /\ K!IsTrained /\ ~recogniser[w].early
                         => /\ recogniser[w].model = modelFile.model
                            /\ recogniser[w].labels = labelsFile.names
    BY DEF K!WorkersInStep
  <1>1. Loading /\ InStep(w)
    BY DEF MInv, Loading
  <1>2. \A t \in Threads : training[t].step \in Late => t \in K!Retraining
    BY DEF MInv, MTypeOK, Calls, Shape, Placed, K!Retraining, K!At, Late, Loads
  <1>3. ASSUME recogniser[w].up, ~K!RetrainsIn(w), modelFile.state # "absent"
        PROVE  Right(recogniser[w].model, recogniser[w].labels, recogniser[w].early)
    BY <1>1, <1>2, <1>3 DEF InStep, K!RetrainsIn
  <1>4. ASSUME deaths = 0, K!Retraining = {}, K!IsTrained, ~recogniser[w].early
        PROVE  recogniser[w].model = modelFile.model /\ recogniser[w].labels = labelsFile.names
    <2>1. Consistent /\ recogniser[w].up
      BY <1>1, <1>2, <1>4 DEF Loading, Disk, Writing, Late
    <2>2. Right(recogniser[w].model, recogniser[w].labels, recogniser[w].early)
      BY <1>3, <1>4, <2>1 DEF K!RetrainsIn, K!IsTrained
    <2> QED BY <1>4, <2>1, <2>2 DEF Right, Consistent, K!IsTrained
  <1>5. recogniser[w].up /\ ~K!RetrainsIn(w) /\ modelFile.state # "absent"
           => recogniser[w].model \in {K!NoModel, modelFile.model}
    BY <1>3 DEF Right
  <1> QED BY <1>4, <1>5

\* A worker whose stamp is that of the file does not go on with an older model,
\* until calls get in each other's way (recognizer.get, recognizer.retrain).
THEOREM InStepAlways == CacheSpec => []WorkersInStep
  <1>1. CacheInit => MInv
    BY MInit DEF CacheInit, Begin
  <1>2. MInv /\ [CacheNext]_all => MInv'
    <2>1. [CacheNext]_all => [K!Next]_(K!vars)
      BY DEF CacheNext, all, cache, K!vars
    <2> QED BY <2>1, MNext
  <1>3. MInv => WorkersInStep
    BY InvKeepsStep DEF WorkersInStep
  <1> QED BY <1>1, <1>2, <1>3, PTL DEF CacheSpec
=============================================================================
