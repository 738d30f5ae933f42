--------------------------- MODULE RateLimitProofs ---------------------------
(***************************************************************************)
(* Theorems about what MCRateLimit composes: the rate limiter (RateLimit), *)
(* for any sets of clients and threads and any limits and delay of the     *)
(* lock within GcAssumption, the passive signals (Channels, C!), the       *)
(* checks of a position (Positions, P!) and the alerts of an exam          *)
(* (ExamMode, X!).  Each component has an invariant of its own; a step of  *)
(* MCNext is a step of that component or leaves it alone.                  *)
(***************************************************************************)
EXTENDS MCRateLimit, TLAPS, FiniteSetTheorems, SequenceTheorems

-----------------------------------------------------------------------------
(* The limiter.  WithinLimit alone is not inductive: it speaks of the hits *)
(* let through, the code of the deque.  KeyInv ties the two together: the  *)
(* deque is a suffix of the history, it holds every hit that a thread may  *)
(* still have to count, and both are sorted up to the delay of the lock,   *)
(* which is why looking at the last entry is enough for the collection and *)
(* why a hit left in the deque counts towards a refusal.                   *)
Recent(k, g, l) == {i \in DOMAIN g : g[i] >= l - Window[k]}

\* Of a key k: its hits g, its deque b and the latest hit l, at time n.
KeyInv(k, g, b, l, n) ==
    /\ g \in Seq(Nat) /\ b \in Seq(Nat) /\ l \in Nat
    /\ Len(b) <= Capacity[k] /\ Len(b) <= Len(g)
    /\ \A j \in 1..Len(b) : b[j] = g[Len(g) - Len(b) + j]
    /\ \A i \in 1..Len(g) : g[i] <= n
    /\ \A i, j \in 1..Len(g) : i < j => g[i] <= g[j] + MaxDelay
    /\ \A i \in 1..Len(g) :
          g[i] >= l - Window[k] /\ g[i] >= n - MaxDelay - Window[k] => i > Len(g) - Len(b)
    /\ \A j \in 1..Len(b) : b[j] <= b[Len(b)] + MaxDelay
    /\ Cardinality(Recent(k, g, l)) <= Capacity[k]

CallsInv ==
    /\ calls \subseteq Call
    /\ \A c \in calls : c.at <= now /\ now <= c.at + MaxDelay

IInv ==
    /\ now \in 0..MaxTime /\ known \subseteq Keys
    /\ bucket \in [Keys -> Seq(Nat)] /\ granted \in [Keys -> Seq(Nat)]
    /\ latest \in [Keys -> Nat]
    /\ CallsInv
    /\ \A k \in Keys : KeyInv(k, granted[k], bucket[k], latest[k], now)

-----------------------------------------------------------------------------
\* Dropping the expired hits leaves a suffix, with every live hit in it.
LEMMA UnexpiredSuffix ==
  ASSUME NEW dq \in Seq(Nat), NEW cutoff \in Int
  PROVE  \E p \in 0..Len(dq) :
            /\ Unexpired(dq, cutoff) \in Seq(Nat)
            /\ Len(Unexpired(dq, cutoff)) = Len(dq) - p
            /\ \A j \in 1..(Len(dq) - p) : Unexpired(dq, cutoff)[j] = dq[p + j]
            /\ \A i \in 1..Len(dq) : dq[i] >= cutoff => p < i
            /\ p < Len(dq) => dq[p + 1] >= cutoff
<1> DEFINE E == Expired(dq, cutoff)
           p == Cardinality(E)
<1>1. Len(dq) \in Nat /\ DOMAIN dq = 1..Len(dq) /\ \A i \in 1..Len(dq) : dq[i] \in Nat
  BY LenProperties
<1>2. E \subseteq 1..Len(dq)
  BY <1>1 DEF Expired
<1>3. IsFiniteSet(E) /\ p \in Nat /\ p <= Len(dq)
  <2>1. IsFiniteSet(1..Len(dq)) /\ Cardinality(1..Len(dq)) = Len(dq)
    BY <1>1, FS_Interval
  <2>2. QED BY <1>2, <2>1, FS_Subset, FS_CardinalityType
<1>4. ASSUME NEW i \in 1..Len(dq), dq[i] >= cutoff PROVE p < i
  <2>1. E \subseteq 1..(i - 1)
    BY <1>1, <1>4 DEF Expired
  <2>2. IsFiniteSet(1..(i - 1)) /\ Cardinality(1..(i - 1)) = i - 1
    <3>1. 1 \in Int /\ i - 1 \in Int /\ (1 > i - 1 => i - 1 = 0) /\ (i - 1) - 1 + 1 = i - 1
      BY <1>1
    <3>2. IsFiniteSet(1..(i - 1)) /\ Cardinality(1..(i - 1)) =
             IF 1 > i - 1 THEN 0 ELSE (i - 1) - 1 + 1
      BY <3>1, FS_Interval
    <3>3. QED BY <3>1, <3>2
  <2>3. QED BY <1>3, <2>1, <2>2, FS_Subset
<1>5. /\ Unexpired(dq, cutoff) \in Seq(Nat)
      /\ Len(Unexpired(dq, cutoff)) = IF p + 1 <= Len(dq) THEN Len(dq) - (p + 1) + 1 ELSE 0
      /\ \A j \in 1..(Len(dq) - (p + 1) + 1) : Unexpired(dq, cutoff)[j] = dq[(p + 1) + j - 1]
  <2> HIDE DEF p
  <2>1. /\ p + 1 \in Int /\ Len(dq) \in Int
        /\ \A i \in (p + 1)..Len(dq) : dq[i] \in Nat
    BY <1>1, <1>3
  <2>2. /\ SubSeq(dq, p + 1, Len(dq)) \in Seq(Nat)
        /\ Len(SubSeq(dq, p + 1, Len(dq))) = IF p + 1 <= Len(dq) THEN Len(dq) - (p + 1) + 1 ELSE 0
        /\ \A j \in 1..(Len(dq) - (p + 1) + 1) :
              SubSeq(dq, p + 1, Len(dq))[j] = dq[(p + 1) + j - 1]
    BY <2>1, SubSeqProperties
  <2>3. Unexpired(dq, cutoff) = SubSeq(dq, p + 1, Len(dq))
    BY DEF Unexpired, p
  <2>4. QED BY <2>2, <2>3
<1>6. p \in 0..Len(dq)
  BY <1>1, <1>3
<1>7. /\ Len(Unexpired(dq, cutoff)) = Len(dq) - p
      /\ \A j \in 1..(Len(dq) - p) : Unexpired(dq, cutoff)[j] = dq[p + j]
  <2> HIDE DEF p
  <2>1. (IF p + 1 <= Len(dq) THEN Len(dq) - (p + 1) + 1 ELSE 0) = Len(dq) - p
    <3>1. \A n \in Nat : \A q \in 0..n : (IF q + 1 <= n THEN n - (q + 1) + 1 ELSE 0) = n - q
      OBVIOUS
    <3>2. QED BY <1>1, <1>6, <3>1
  <2>2. \A j \in 1..(Len(dq) - p) : (p + 1) + j - 1 = p + j
    BY <1>1, <1>3
  <2>3. (Len(dq) - (p + 1)) + 1 = Len(dq) - p
    BY <1>1, <1>3
  <2>4. QED BY <1>5, <2>1, <2>2, <2>3
<1>8. ASSUME p < Len(dq), dq[p + 1] < cutoff PROVE FALSE
  <2>1. 1..(p + 1) \subseteq E
    <3>1. ASSUME NEW i \in 1..(p + 1), NEW j \in 1..i PROVE dq[j] < cutoff
      <4>1. CASE j = p + 1
        BY <1>8, <4>1
      <4>2. CASE j \in 1..p
        <5>1. j \in 1..Len(dq) /\ ~(p < j)
          BY <1>1, <1>3, <4>2
        <5>2. dq[j] \in Nat /\ ~(dq[j] >= cutoff)
          BY <1>1, <1>4, <5>1
        <5>3. QED BY <5>2
      <4>3. QED BY <1>3, <4>1, <4>2
    <3>2. 1..(p + 1) \subseteq DOMAIN dq
      BY <1>1, <1>3, <1>8
    <3>3. QED BY <3>1, <3>2 DEF Expired
  <2>2. IsFiniteSet(1..(p + 1)) /\ Cardinality(1..(p + 1)) = p + 1
    <3> HIDE DEF p
    <3>1. p + 1 \in Nat
      BY <1>3
    <3>2. QED BY <1>3, <3>1, FS_Interval
  <2>3. p + 1 <= p
    BY <1>3, <2>1, <2>2, FS_Subset
  <2>4. QED BY <1>3, <2>3
<1> HIDE DEF p
<1>9. p < Len(dq) => dq[p + 1] >= cutoff
  <2>1. p < Len(dq) => p + 1 \in 1..Len(dq)
    BY <1>1, <1>3
  <2>2. QED BY <1>1, <1>8, <2>1
<1>10. QED BY <1>4, <1>5, <1>6, <1>7, <1>9

\* The hits of a window are finitely many, and fewer the later it ends.
LEMMA RecentShrinks ==
  ASSUME NEW k \in Keys, NEW g \in Seq(Nat), NEW l \in Nat, NEW m \in Nat, l <= m
  PROVE  /\ IsFiniteSet(Recent(k, g, l))
         /\ Cardinality(Recent(k, g, m)) <= Cardinality(Recent(k, g, l))
         /\ Cardinality(Recent(k, g, m)) \in Nat
<1>1. Len(g) \in Nat /\ DOMAIN g = 1..Len(g) /\ \A i \in 1..Len(g) : g[i] \in Nat
  BY LenProperties
<1>2. Window[k] \in Nat
  BY LimitsAssumption
<1>3. IsFiniteSet(Recent(k, g, l))
  <2>1. Recent(k, g, l) \subseteq 1..Len(g)
    BY <1>1 DEF Recent
  <2>2. IsFiniteSet(1..Len(g))
    BY <1>1, FS_Interval
  <2>3. QED BY <2>1, <2>2, FS_Subset
<1>4. Recent(k, g, m) \subseteq Recent(k, g, l)
  BY <1>1, <1>2 DEF Recent
<1>5. QED BY <1>3, <1>4, FS_Subset, FS_CardinalityType

\* Where a hit of the history is in a deque that is a suffix of it.
LEMMA Offset ==
  ASSUME NEW i \in Int, NEW m \in Int, NEW n \in Int, i <= m, i > m - n
  PROVE  i - (m - n) \in 1..n /\ m - n + (i - (m - n)) = i
  OBVIOUS

\* A thread drops the expired hits of its key.
LEMMA PopKeeps ==
  ASSUME NEW k \in Keys, NEW g, NEW b, NEW l, NEW n \in Nat, NEW at \in Nat, NEW m \in Nat,
         KeyInv(k, g, b, l, n), at <= n, n <= at + MaxDelay,
         m = IF l < at THEN at ELSE l
  PROVE  KeyInv(k, g, Unexpired(b, at - Window[k]), m, n)
<1> DEFINE u == Unexpired(b, at - Window[k])
<1>1. /\ g \in Seq(Nat) /\ b \in Seq(Nat) /\ l \in Nat
      /\ Len(b) <= Capacity[k] /\ Len(b) <= Len(g)
      /\ Len(g) \in Nat /\ Len(b) \in Nat
      /\ \A i \in 1..Len(g) : g[i] \in Nat
      /\ \A j \in 1..Len(b) : b[j] \in Nat
  BY LenProperties DEF KeyInv
<1>2. Window[k] \in Nat /\ Capacity[k] \in Nat /\ MaxDelay \in Nat
  BY LimitsAssumption
<1>3. PICK p \in 0..Len(b) :
         /\ u \in Seq(Nat)
         /\ Len(u) = Len(b) - p
         /\ \A j \in 1..(Len(b) - p) : u[j] = b[p + j]
         /\ \A i \in 1..Len(b) : b[i] >= at - Window[k] => p < i
  <2>1. at - Window[k] \in Int
    BY <1>2
  <2>2. QED BY <1>1, <2>1, UnexpiredSuffix
<1>11. m >= l /\ m >= at
  BY <1>1
<1> HIDE DEF u
<1>4. Len(u) <= Capacity[k] /\ Len(u) <= Len(g)
  BY <1>1, <1>2, <1>3
<1>5. \A j \in 1..Len(u) : u[j] = g[Len(g) - Len(u) + j]
  <2>1. TAKE j \in 1..Len(u)
  <2>2. p + j \in 1..Len(b) /\ u[j] = b[p + j]
    BY <1>1, <1>3
  <2>3. b[p + j] = g[Len(g) - Len(b) + (p + j)]
    BY <2>2 DEF KeyInv
  <2>4. Len(g) - Len(b) + (p + j) = Len(g) - Len(u) + j
    BY <1>1, <1>3
  <2>5. QED BY <2>2, <2>3, <2>4
<1>6. \A i \in 1..Len(g) :
        g[i] >= m - Window[k] /\ g[i] >= n - MaxDelay - Window[k] => i > Len(g) - Len(u)
  <2>1. SUFFICES ASSUME NEW i \in 1..Len(g), g[i] >= m - Window[k],
                        g[i] >= n - MaxDelay - Window[k]
                 PROVE  i > Len(g) - Len(u)
    OBVIOUS
  <2>2. i > Len(g) - Len(b)
    <3>1. g[i] \in Nat /\ l \in Nat
      BY <1>1, <2>1
    <3>2. g[i] >= l - Window[k]
      BY <1>2, <1>11, <2>1, <3>1
    <3>3. QED BY <2>1, <3>1, <3>2 DEF KeyInv
  <2> DEFINE q == i - (Len(g) - Len(b))
  <2>3. q \in 1..Len(b) /\ Len(g) - Len(b) + q = i
    <3>1. i \in Int /\ i <= Len(g) /\ i > Len(g) - Len(b)
      BY <1>1, <2>1, <2>2
    <3>2. Len(g) \in Int /\ Len(b) \in Int
      BY <1>1
    <3>3. QED BY <3>1, <3>2, Offset
  <2> HIDE DEF q
  <2>4. b[q] = g[i]
    BY <2>3 DEF KeyInv
  <2>5. g[i] \in Nat
    BY <1>1, <2>1
  <2>6. b[q] >= at - Window[k]
    BY <1>2, <1>11, <2>1, <2>4, <2>5
  <2>7. p < q
    BY <1>3, <2>3, <2>6
  <2>8. QED BY <1>1, <1>3, <2>1, <2>3, <2>7
<1>7. \A j \in 1..Len(u) : u[j] <= u[Len(u)] + MaxDelay
  <2>1. TAKE j \in 1..Len(u)
  <2>2. p + j \in 1..Len(b) /\ u[j] = b[p + j] /\ u[Len(u)] = b[Len(b)]
    <3>1. p + j \in 1..Len(b) /\ u[j] = b[p + j]
      BY <1>1, <1>3
    <3>2. Len(u) \in 1..(Len(b) - p) /\ p + Len(u) = Len(b)
      BY <1>1, <1>3
    <3>3. u[Len(u)] = b[p + Len(u)]
      BY <1>3, <3>2
    <3>4. QED BY <3>1, <3>2, <3>3
  <2>3. QED BY <2>2 DEF KeyInv
<1>8. Cardinality(Recent(k, g, m)) <= Capacity[k]
  <2>1. l <= m
    BY <1>1, <1>11
  <2>2. Cardinality(Recent(k, g, m)) <= Cardinality(Recent(k, g, l))
        /\ Cardinality(Recent(k, g, m)) \in Nat /\ Cardinality(Recent(k, g, l)) \in Nat
    BY <1>1, <2>1, RecentShrinks, FS_CardinalityType
  <2>3. Cardinality(Recent(k, g, l)) <= Capacity[k]
    BY DEF KeyInv
  <2>4. QED BY <1>2, <2>2, <2>3
<1>9. \A i \in 1..Len(g) : g[i] <= n
  BY DEF KeyInv
<1>10. \A i, j \in 1..Len(g) : i < j => g[i] <= g[j] + MaxDelay
  BY DEF KeyInv
<1>12. QED BY <1>1, <1>3, <1>4, <1>5, <1>6, <1>7, <1>8, <1>9, <1>10 DEF KeyInv, u

\* A thread lets a hit of its key through.
LEMMA AppendKeeps ==
  ASSUME NEW k \in Keys, NEW g, NEW b, NEW l, NEW n \in Nat, NEW at \in Nat,
         KeyInv(k, g, b, l, n), Len(b) < Capacity[k],
         at <= n, n <= at + MaxDelay, at <= l
  PROVE  KeyInv(k, Append(g, at), Append(b, at), l, n)
<1> DEFINE h == Append(g, at)
           d == Append(b, at)
<1>1. /\ g \in Seq(Nat) /\ b \in Seq(Nat) /\ l \in Nat
      /\ Len(b) <= Len(g) /\ Len(g) \in Nat /\ Len(b) \in Nat
      /\ \A i \in 1..Len(g) : g[i] \in Nat
  BY LenProperties DEF KeyInv
<1>2. Window[k] \in Nat /\ Capacity[k] \in Nat /\ MaxDelay \in Nat
  BY LimitsAssumption
<1>3. /\ h \in Seq(Nat) /\ Len(h) = Len(g) + 1 /\ h[Len(g) + 1] = at
      /\ \A i \in 1..Len(g) : h[i] = g[i]
  BY <1>1, AppendProperties
<1>4. /\ d \in Seq(Nat) /\ Len(d) = Len(b) + 1 /\ d[Len(b) + 1] = at
      /\ \A i \in 1..Len(b) : d[i] = b[i]
  BY <1>1, AppendProperties
<1> HIDE DEF h, d
<1>5. Len(d) <= Capacity[k] /\ Len(d) <= Len(h)
  BY <1>1, <1>2, <1>3, <1>4
<1>6. ASSUME NEW j \in 1..Len(d) PROVE d[j] = h[Len(h) - Len(d) + j]
  <2>1. CASE j = Len(b) + 1
    BY <1>1, <1>3, <1>4, <2>1
  <2>2. CASE j \in 1..Len(b)
    <3>1. b[j] = g[Len(g) - Len(b) + j]
      BY <2>2 DEF KeyInv
    <3>2. Len(g) - Len(b) + j \in 1..Len(g) /\ Len(h) - Len(d) + j = Len(g) - Len(b) + j
      BY <1>1, <1>3, <1>4, <2>2
    <3>3. QED BY <1>3, <1>4, <2>2, <3>1, <3>2
  <2>3. QED BY <1>1, <1>4, <2>1, <2>2
<1>7. ASSUME NEW i \in 1..Len(h) PROVE h[i] <= n
  <2>1. CASE i = Len(g) + 1
    BY <1>3, <2>1
  <2>2. CASE i \in 1..Len(g)
    BY <1>3, <2>2 DEF KeyInv
  <2>3. QED BY <1>1, <1>3, <2>1, <2>2
<1>8. ASSUME NEW i \in 1..Len(h), h[i] >= l - Window[k], h[i] >= n - MaxDelay - Window[k]
      PROVE  i > Len(h) - Len(d)
  <2>1. CASE i = Len(g) + 1
    BY <1>1, <1>3, <1>4, <2>1
  <2>2. CASE i \in 1..Len(g)
    <3>1. i > Len(g) - Len(b)
      BY <1>3, <1>8, <2>2 DEF KeyInv
    <3>2. QED BY <1>1, <1>3, <1>4, <3>1
  <2>3. QED BY <1>1, <1>3, <2>1, <2>2
<1>9. ASSUME NEW j \in 1..Len(d) PROVE d[j] <= d[Len(d)] + MaxDelay
  <2>1. d[Len(d)] = at
    BY <1>4
  <2>2. d[j] = h[Len(h) - Len(d) + j] /\ Len(h) - Len(d) + j \in 1..Len(h)
    BY <1>1, <1>3, <1>4, <1>5, <1>6
  <2>3. d[j] <= n /\ d[j] \in Nat
    <3>1. h[Len(h) - Len(d) + j] \in Nat
      BY <1>3, <2>2, LenProperties
    <3>2. QED BY <1>7, <2>2, <3>1
  <2>4. QED BY <1>2, <2>1, <2>3
<1>10. Cardinality(Recent(k, h, l)) <= Capacity[k]
  <2> DEFINE tail == (Len(h) - Len(d) + 1)..Len(h)
  <2>1. Recent(k, h, l) \subseteq tail
    <3>1. SUFFICES ASSUME NEW i \in 1..Len(h), h[i] >= l - Window[k] PROVE i \in tail
      BY <1>3, LenProperties DEF Recent
    <3>2. h[i] \in Nat
      BY <1>3, LenProperties
    <3>3. h[i] >= n - MaxDelay - Window[k]
      BY <1>1, <1>2, <3>1, <3>2
    <3>4. i > Len(h) - Len(d)
      BY <1>8, <3>1, <3>3
    <3>5. QED BY <1>1, <1>3, <1>4, <3>4
  <2>2. IsFiniteSet(tail) /\ Cardinality(tail) = Len(d)
    BY <1>1, <1>3, <1>4, FS_Interval
  <2>3. Cardinality(Recent(k, h, l)) <= Len(d) /\ Cardinality(Recent(k, h, l)) \in Nat
    <3>1. IsFiniteSet(Recent(k, h, l)) /\ Cardinality(Recent(k, h, l)) <= Cardinality(tail)
      BY <2>1, <2>2, FS_Subset
    <3>2. QED BY <2>2, <3>1, FS_CardinalityType
  <2>4. QED BY <1>1, <1>2, <1>4, <1>5, <2>3
<1>11. ASSUME NEW i \in 1..Len(h), NEW j \in 1..Len(h), i < j PROVE h[i] <= h[j] + MaxDelay
  <2>0. i \in 1..Len(g) /\ h[i] = g[i] /\ h[i] \in Nat /\ h[i] <= n
    BY <1>1, <1>3, <1>7, <1>11, LenProperties
  <2>1. CASE j = Len(g) + 1
    BY <1>2, <1>3, <2>0, <2>1
  <2>2. CASE j \in 1..Len(g)
    BY <1>3, <1>11, <2>0, <2>2 DEF KeyInv
  <2>3. QED BY <1>1, <1>3, <2>1, <2>2
<1>12. QED BY <1>1, <1>3, <1>4, <1>5, <1>6, <1>7, <1>8, <1>9, <1>10, <1>11 DEF KeyInv, h, d

\* A collection forgets only buckets no thread will ever count again.
LEMMA ForgetKeeps ==
  ASSUME NEW k \in Keys, NEW g, NEW b, NEW l, NEW n \in Nat, NEW at \in Nat,
         KeyInv(k, g, b, l, n), IsIdle(b, at), at <= n
  PROVE  KeyInv(k, g, <<>>, l, n)
<1>1. /\ g \in Seq(Nat) /\ b \in Seq(Nat)
      /\ Len(g) \in Nat /\ Len(b) \in Nat /\ Len(b) <= Len(g)
      /\ \A i \in 1..Len(g) : g[i] \in Nat
      /\ \A j \in 1..Len(b) : b[j] \in Nat
  BY LenProperties DEF KeyInv
<1>2. /\ Window[k] \in Nat /\ Capacity[k] \in Nat /\ MaxDelay \in Nat /\ GcAfter \in Nat
      /\ Window[k] + 2 * MaxDelay <= GcAfter
  BY LimitsAssumption, GcAssumption
<1>3. <<>> \in Seq(Nat) /\ Len(<<>>) = 0
  OBVIOUS
<1>4. ASSUME NEW i \in 1..Len(g), g[i] >= l - Window[k], g[i] >= n - MaxDelay - Window[k]
      PROVE  FALSE
  <2>1. i > Len(g) - Len(b)
    BY <1>4 DEF KeyInv
  <2> DEFINE j == i - (Len(g) - Len(b))
  <2>2. j \in 1..Len(b) /\ Len(g) - Len(b) + j = i
    BY <1>1, <2>1
  <2> HIDE DEF j
  <2>3. b[j] = g[i] /\ b[j] <= b[Len(b)] + MaxDelay
    BY <2>2 DEF KeyInv
  <2>4. Len(b) \in 1..Len(b) /\ b # <<>>
    BY <1>1, <2>2
  <2>5. b[Len(b)] < at - GcAfter
    BY <2>4 DEF IsIdle
  <2>6. b[Len(b)] \in Nat
    BY <1>1, <2>4
  <2>7. b[j] < n - GcAfter + MaxDelay
    <3>1. b[j] \in Nat /\ b[j] <= b[Len(b)] + MaxDelay
      BY <1>1, <2>2, <2>3
    <3> DEFINE x == b[j]
               y == b[Len(b)]
    <3>2. x \in Nat /\ y \in Nat /\ x <= y + MaxDelay /\ y < at - GcAfter
      BY <2>5, <2>6, <3>1
    <3> HIDE DEF x, y
    <3>3. x < n - GcAfter + MaxDelay
      BY <1>2, <3>2
    <3>4. QED BY <3>3 DEF x
  <2>8. n - GcAfter + MaxDelay <= n - MaxDelay - Window[k]
    BY <1>2
  <2>9. g[i] \in Nat
    BY <1>1
  <2>10. QED BY <1>2, <1>4, <2>3, <2>7, <2>8, <2>9
<1>5. \A i \in 1..Len(g) :
        g[i] >= l - Window[k] /\ g[i] >= n - MaxDelay - Window[k] => i > Len(g) - Len(<<>>)
  BY <1>4
<1>6. \A i, j \in 1..Len(g) : i < j => g[i] <= g[j] + MaxDelay
  BY DEF KeyInv
<1>7. QED BY <1>1, <1>2, <1>3, <1>5, <1>6 DEF KeyInv

\* Time alone asks less and less of a deque.
LEMMA TimeKeeps ==
  ASSUME NEW k \in Keys, NEW g, NEW b, NEW l, NEW n \in Nat, KeyInv(k, g, b, l, n)
  PROVE  KeyInv(k, g, b, l, n + 1)
<1>1. Window[k] \in Nat /\ MaxDelay \in Nat
  BY LimitsAssumption
<1>2. \A i \in 1..Len(g) : g[i] \in Nat
  BY LenProperties DEF KeyInv
<1>3. \A i \in 1..Len(g) : g[i] <= n + 1
  BY <1>2 DEF KeyInv
<1>4. \A i \in 1..Len(g) :
        g[i] >= l - Window[k] /\ g[i] >= (n + 1) - MaxDelay - Window[k] => i > Len(g) - Len(b)
  <2>1. TAKE i \in 1..Len(g)
  <2>2. g[i] >= (n + 1) - MaxDelay - Window[k] => g[i] >= n - MaxDelay - Window[k]
    BY <1>1, <1>2
  <2>3. QED BY <2>2 DEF KeyInv
<1>5. QED BY <1>3, <1>4 DEF KeyInv

-----------------------------------------------------------------------------
\* At the start no hit was let through.
LEMMA InitIInv == Init => IInv
<1> SUFFICES ASSUME Init PROVE IInv
  OBVIOUS
<1>1. Window \in [Keys -> Nat] /\ Capacity \in [Keys -> Nat] /\ MaxDelay \in Nat /\ MaxTime \in Nat
  BY LimitsAssumption
<1>2. ASSUME NEW k \in Keys PROVE KeyInv(k, granted[k], bucket[k], latest[k], now)
  <2>1. granted[k] = <<>> /\ bucket[k] = <<>> /\ latest[k] = 0 /\ Len(<<>>) = 0 /\ <<>> \in Seq(Nat)
    BY DEF Init
  <2>2. Recent(k, <<>>, 0) = {} /\ Cardinality({}) = 0
    BY FS_EmptySet DEF Recent
  <2>3. Cardinality(Recent(k, <<>>, 0)) <= Capacity[k] /\ 0 <= Capacity[k]
    <3>1. Cardinality(Recent(k, <<>>, 0)) = 0
      BY <2>2, Zenon
    <3>2. 0 <= Capacity[k]
      BY <1>1
    <3>3. QED BY <3>1, <3>2
  <2>4. KeyInv(k, <<>>, <<>>, 0, now)
    <3>1. \A i \in 1..Len(<<>>) : FALSE
      BY <2>1
    <3>2. QED BY <2>1, <2>3, <3>1 DEF KeyInv
  <2>5. QED BY <2>1, <2>4
<1>3. CallsInv
  BY DEF Init, CallsInv
<1>4. QED BY <1>1, <1>2, <1>3 DEF Init, IInv

\* A call that returns leaves the others within their delay.
LEMMA ReturnKeeps ==
  ASSUME IInv, NEW c \in calls, Return(c)
  PROVE  /\ CallsInv' /\ now' \in 0..MaxTime /\ latest' \in [Keys -> Nat]
         /\ c.key \in Keys /\ c.at \in Nat /\ c.at <= now /\ now <= c.at + MaxDelay
<1>1. c \in Call /\ c.at <= now /\ now <= c.at + MaxDelay
  BY DEF IInv, CallsInv
<1>2. c.key \in Keys /\ c.at \in Nat
  BY <1>1 DEF Call
<1>3. latest' \in [Keys -> Nat]
  BY <1>2 DEF IInv, Return
<1>4. CallsInv' /\ now' \in 0..MaxTime
  BY DEF IInv, CallsInv, Return
<1>5. QED BY <1>1, <1>2, <1>3, <1>4

\* Each action keeps IInv; the collection is the delicate step of Grant.
LEMMA NextIInv == IInv /\ [Next]_vars => IInv'
<1> SUFFICES ASSUME IInv, [Next]_vars PROVE IInv'
  OBVIOUS
<1>0. /\ now \in Nat /\ MaxTime \in Nat /\ MaxDelay \in Nat
      /\ Capacity \in [Keys -> Nat] /\ Window \in [Keys -> Nat]
  BY LimitsAssumption DEF IInv
<1>1. CASE Tick
  <2>1. ASSUME NEW k \in Keys PROVE KeyInv(k, granted[k], bucket[k], latest[k], now + 1)
    BY <1>0, TimeKeeps DEF IInv
  <2>2. CallsInv'
    <3>1. ASSUME NEW c \in calls PROVE c.at <= now + 1 /\ now + 1 <= c.at + MaxDelay
      <4>1. c.at \in Nat /\ c.at <= now
        BY DEF IInv, CallsInv, Call
      <4>2. QED BY <1>0, <1>1, <4>1 DEF Tick
    <3>2. QED BY <1>1, <3>1 DEF Tick, IInv, CallsInv
  <2>3. now' \in 0..MaxTime
    BY <1>0, <1>1 DEF Tick
  <2>4. QED BY <1>1, <2>1, <2>2, <2>3 DEF Tick, IInv
<1>2. ASSUME NEW t \in Threads, NEW k \in Keys, ReadClock(t, k) PROVE IInv'
  <2>1. CallsInv'
    <3>1. [thread |-> t, key |-> k, at |-> now] \in Call
      BY <1>0 DEF Call
    <3>2. now <= now /\ now <= now + MaxDelay
      BY <1>0
    <3>3. QED BY <1>2, <3>1, <3>2 DEF ReadClock, IInv, CallsInv
  <2>2. QED BY <1>2, <2>1 DEF ReadClock, IInv
<1>3. ASSUME NEW c \in calls, Refuse(c) PROVE IInv'
  <2>1. /\ CallsInv' /\ now' \in 0..MaxTime /\ latest' \in [Keys -> Nat]
        /\ c.key \in Keys /\ c.at \in Nat /\ c.at <= now /\ now <= c.at + MaxDelay
    BY <1>3, ReturnKeeps DEF Refuse
  <2>2. /\ now' = now /\ granted' = granted
        /\ bucket' = [bucket EXCEPT ![c.key] = Left(c)]
        /\ known' = known \cup {c.key}
        /\ latest' = [latest EXCEPT ![c.key] = IF @ < c.at THEN c.at ELSE @]
    BY <1>3 DEF Refuse, Return
  <2>3. ASSUME NEW k \in Keys PROVE KeyInv(k, granted'[k], bucket'[k], latest'[k], now')
    <3>1. CASE k = c.key
      <4>1. bucket'[k] = Left(c) /\ latest'[k] = IF latest[k] < c.at THEN c.at ELSE latest[k]
        BY <2>2, <3>1 DEF IInv
      <4>2. latest'[k] \in Nat
        BY <2>1
      <4>3. KeyInv(k, granted[k], Unexpired(bucket[k], c.at - Window[k]), latest'[k], now)
        BY <1>0, <2>1, <4>1, <4>2, PopKeeps DEF IInv
      <4>4. QED BY <2>2, <3>1, <4>1, <4>3 DEF Left
    <3>2. CASE k # c.key
      BY <2>2, <3>2 DEF IInv
    <3>3. QED BY <3>1, <3>2
  <2>4. bucket' \in [Keys -> Seq(Nat)]
    <3>1. Left(c) \in Seq(Nat)
      <4>1. bucket'[c.key] = Left(c)
        BY <2>1, <2>2 DEF IInv
      <4>2. QED BY <2>1, <2>3, <4>1 DEF KeyInv
    <3>2. QED BY <2>2, <3>1 DEF IInv
  <2>5. QED BY <2>1, <2>2, <2>3, <2>4 DEF IInv
<1>4. ASSUME NEW c \in calls, Grant(c) PROVE IInv'
  <2> DEFINE after == [bucket EXCEPT ![c.key] = Append(Left(c), c.at)]
  <2>1. /\ CallsInv' /\ now' \in 0..MaxTime /\ latest' \in [Keys -> Nat]
        /\ c.key \in Keys /\ c.at \in Nat /\ c.at <= now /\ now <= c.at + MaxDelay
    BY <1>4, ReturnKeeps DEF Grant
  <2>2. PICK idle \in SUBSET (known \cup {c.key}) :
          /\ \A x \in idle : IsIdle(after[x], c.at)
          /\ bucket' = [x \in Keys |-> IF x \in idle THEN <<>> ELSE after[x]]
          /\ known' = (known \cup {c.key}) \ idle
    BY <1>4 DEF Grant
  <2>3. /\ now' = now /\ ~Full(c.key, Left(c))
        /\ granted' = [granted EXCEPT ![c.key] = Append(@, c.at)]
        /\ latest' = [latest EXCEPT ![c.key] = IF @ < c.at THEN c.at ELSE @]
    BY <1>4 DEF Grant, Return
  <2>4. ASSUME NEW k \in Keys PROVE KeyInv(k, granted'[k], after[k], latest'[k], now)
    <3>1. CASE k = c.key
      <4>1. /\ after[k] = Append(Left(c), c.at) /\ granted'[k] = Append(granted[k], c.at)
            /\ latest'[k] = IF latest[k] < c.at THEN c.at ELSE latest[k]
        BY <2>3, <3>1 DEF IInv
      <4>2. latest'[k] \in Nat /\ latest[k] \in Nat
        BY <2>1 DEF IInv
      <4>3. KeyInv(k, granted[k], Left(c), latest'[k], now)
        <5>1. KeyInv(k, granted[k], Unexpired(bucket[k], c.at - Window[k]), latest'[k], now)
          BY <1>0, <2>1, <4>1, <4>2, PopKeeps DEF IInv
        <5>2. QED BY <3>1, <5>1 DEF Left
      <4>4. Len(Left(c)) < Capacity[k]
        <5>1. Len(Left(c)) \in Nat /\ Capacity[k] \in Nat
          BY <1>0, <4>3, LenProperties DEF KeyInv
        <5>2. QED BY <2>3, <3>1, <5>1 DEF Full
      <4>5. c.at <= latest'[k]
        BY <2>1, <4>1, <4>2
      <4>6. KeyInv(k, Append(granted[k], c.at), Append(Left(c), c.at), latest'[k], now)
        BY <1>0, <2>1, <4>3, <4>4, <4>5, AppendKeeps
      <4>7. QED BY <4>1, <4>6
    <3>2. CASE k # c.key
      BY <2>3, <3>2 DEF IInv
    <3>3. QED BY <3>1, <3>2
  <2>5. ASSUME NEW k \in Keys PROVE KeyInv(k, granted'[k], bucket'[k], latest'[k], now')
    <3> HIDE DEF after
    <3>1. CASE k \in idle
      <4>1. IsIdle(after[k], c.at) /\ bucket'[k] = <<>>
        BY <2>2, <3>1
      <4>2. KeyInv(k, granted'[k], <<>>, latest'[k], now)
        BY <1>0, <2>1, <2>4, <4>1, ForgetKeeps
      <4>3. QED BY <2>3, <4>1, <4>2
    <3>2. CASE k \notin idle
      <4>1. bucket'[k] = after[k]
        BY <2>2, <3>2
      <4>2. QED BY <2>3, <2>4, <4>1
    <3>3. QED BY <3>1, <3>2
  <2>6. bucket' \in [Keys -> Seq(Nat)] /\ granted' \in [Keys -> Seq(Nat)]
    <3>1. \A k \in Keys : bucket'[k] \in Seq(Nat) /\ granted'[k] \in Seq(Nat)
      BY <2>5 DEF KeyInv
    <3>2. bucket' = [k \in Keys |-> bucket'[k]]
      <4> HIDE DEF after
      <4>1. QED BY <2>2
    <3>3. granted' = [k \in Keys |-> granted'[k]]
      BY <2>3 DEF IInv
    <3>4. QED BY <3>1, <3>2, <3>3
  <2>7. known' \subseteq Keys
    BY <2>1, <2>2 DEF IInv
  <2>8. QED BY <2>1, <2>5, <2>6, <2>7 DEF IInv
<1>5. CASE UNCHANGED vars
  BY <1>5 DEF vars, IInv, CallsInv
<1>6. QED BY <1>1, <1>2, <1>3, <1>4, <1>5 DEF Next

\* What the deque holds bounds what the history holds.
LEMMA IInvImplies == IInv => TypeOK /\ WithinLimit
<1> SUFFICES ASSUME IInv PROVE TypeOK /\ WithinLimit
  OBVIOUS
<1>1. TypeOK
  BY DEF IInv, CallsInv, KeyInv, TypeOK
<1>2. ASSUME NEW k \in Keys PROVE Cardinality(InWindow(k)) <= Capacity[k]
  BY DEF IInv, KeyInv, InWindow, Recent
<1>3. QED BY <1>1, <1>2 DEF WithinLimit

\* The state keeps its types, and no deque grows beyond its route's capacity.
THEOREM TypeCorrect == Spec => []TypeOK
<1>1. Spec => []IInv
  BY InitIInv, NextIInv, PTL DEF Spec
<1>2. QED BY <1>1, IInvImplies, PTL

\* No client is let through more often than the limit in any window, whatever
\* the order in which threads take the lock and whenever buckets are collected.
THEOREM LimitHolds == Spec => []WithinLimit
<1>1. Spec => []IInv
  BY InitIInv, NextIInv, PTL DEF Spec
<1>2. QED BY <1>1, IInvImplies, PTL

\* What is left of a deque after the expired hits are dropped is hits that were
\* let through since the window began, but for the delay of the lock: the first
\* of them is live, and those behind it read the clock MaxDelay before it at most.
LEMMA LeftIsRecent ==
  ASSUME NEW k \in Keys, NEW g, NEW b, NEW l, NEW n \in Nat, NEW at \in Nat,
         KeyInv(k, g, b, l, n)
  PROVE  LET u == Unexpired(b, at - Window[k])
             s == {i \in DOMAIN g : g[i] >= at - Window[k] - MaxDelay}
         IN  IsFiniteSet(s) /\ Len(u) \in Nat /\ Len(u) <= Cardinality(s)
<1> DEFINE u == Unexpired(b, at - Window[k])
           s == {i \in DOMAIN g : g[i] >= at - Window[k] - MaxDelay}
<1>1. /\ g \in Seq(Nat) /\ b \in Seq(Nat) /\ Len(b) <= Len(g)
      /\ Len(g) \in Nat /\ Len(b) \in Nat /\ DOMAIN g = 1..Len(g)
      /\ \A i \in 1..Len(g) : g[i] \in Nat
  BY LenProperties DEF KeyInv
<1>2. Window[k] \in Nat /\ MaxDelay \in Nat
  BY LimitsAssumption
<1>3. PICK p \in 0..Len(b) :
         /\ Len(u) = Len(b) - p
         /\ p < Len(b) => b[p + 1] >= at - Window[k]
  <2>1. at - Window[k] \in Int
    BY <1>2
  <2>2. QED BY <1>1, <2>1, UnexpiredSuffix
<1> HIDE DEF u
<1> DEFINE first == Len(g) - Len(b) + (p + 1)
<1>4. ASSUME NEW i \in first..Len(g) PROVE i \in s
  <2>1. p < Len(b) /\ p + 1 \in 1..Len(b) /\ first \in 1..Len(g) /\ i \in 1..Len(g)
    <3>1. \A m, n1, q, j \in Int : 0 <= q /\ q <= m /\ m <= n1
             /\ n1 - m + (q + 1) <= j /\ j <= n1
             => q < m /\ q + 1 \in 1..m /\ n1 - m + (q + 1) \in 1..n1 /\ j \in 1..n1
      OBVIOUS
    <3>2. /\ Len(b) \in Int /\ Len(g) \in Int /\ p \in Int /\ i \in Int
          /\ 0 <= p /\ p <= Len(b) /\ first <= i /\ i <= Len(g)
      BY <1>1, <1>3, <1>4
    <3>3. QED BY <1>1, <3>1, <3>2
  <2>2. b[p + 1] = g[first]
    BY <2>1 DEF KeyInv
  <2>3. g[first] >= at - Window[k] /\ g[first] \in Nat /\ g[i] \in Nat
    BY <1>1, <1>3, <2>1, <2>2
  <2>4. g[first] <= g[i] + MaxDelay
    <3>1. CASE i = first
      BY <1>2, <2>3, <3>1
    <3>2. CASE first < i
      BY <2>1, <3>2 DEF KeyInv
    <3>3. QED BY <1>4, <2>1, <3>1, <3>2
  <2> HIDE DEF first
  <2>5. g[i] >= at - Window[k] - MaxDelay
    BY <1>2, <2>3, <2>4
  <2>6. QED BY <1>1, <2>1, <2>5
<1>5. IsFiniteSet(s)
  <2>1. IsFiniteSet(1..Len(g)) /\ s \subseteq 1..Len(g)
    BY <1>1, FS_Interval
  <2>2. QED BY <2>1, FS_Subset
<1>6. IsFiniteSet(first..Len(g)) /\ Cardinality(first..Len(g)) = Len(u)
  <2>1. first \in Int /\ Len(g) \in Int
    BY <1>1
  <2>2. (IF first > Len(g) THEN 0 ELSE Len(g) - first + 1) = Len(u)
    <3>1. \A m, n1, q \in Int : 0 <= q /\ q <= m =>
             (IF n1 - m + (q + 1) > n1 THEN 0 ELSE n1 - (n1 - m + (q + 1)) + 1) = m - q
      OBVIOUS
    <3>2. Len(b) \in Int /\ Len(g) \in Int /\ p \in Int /\ 0 <= p /\ p <= Len(b)
      BY <1>1, <1>3
    <3>3. QED BY <1>3, <3>1, <3>2
  <2> HIDE DEF first
  <2>3. QED BY <2>1, <2>2, FS_Interval
<1>7. Cardinality(first..Len(g)) <= Cardinality(s)
  <2> HIDE DEF first
  <2>1. first..Len(g) \subseteq s
    BY <1>4
  <2>2. QED BY <1>5, <2>1, FS_Subset
<1>8. Len(u) \in Nat
  BY <1>1, <1>3
<1>9. QED BY <1>5, <1>6, <1>7, <1>8 DEF u

\* Nobody is refused who is within the limit: behind every refusal are as many
\* hits let through as the limit allows (infra/ratelimit._hit).
THEOREM RefusalsAreEarned == Spec => RefusedWhenFull
<1>1. ASSUME IInv, NEW c \in calls, Refuse(c)
      PROVE  Cardinality({i \in DOMAIN granted[c.key] :
                            granted[c.key][i] >= c.at - Window[c.key] - MaxDelay})
               >= Capacity[c.key]
  <2>1. /\ c.key \in Keys /\ c.at \in Nat /\ now \in Nat
        /\ KeyInv(c.key, granted[c.key], bucket[c.key], latest[c.key], now)
    BY <1>1, LimitsAssumption DEF IInv, CallsInv, Call
  <2>2. Len(Left(c)) >= Capacity[c.key]
    BY <1>1 DEF Refuse, Full
  <2> DEFINE s == {i \in DOMAIN granted[c.key] :
                     granted[c.key][i] >= c.at - Window[c.key] - MaxDelay}
  <2>3. IsFiniteSet(s) /\ Len(Left(c)) \in Nat /\ Len(Left(c)) <= Cardinality(s)
    BY <2>1, LeftIsRecent DEF Left
  <2>4. Cardinality(s) \in Nat /\ Capacity[c.key] \in Nat
    BY <2>1, <2>3, FS_CardinalityType, LimitsAssumption
  <2> HIDE DEF s
  <2>5. Cardinality(s) >= Capacity[c.key]
    BY <2>2, <2>3, <2>4
  <2>6. QED BY <2>5 DEF s
<1>2. Spec => []IInv
  BY InitIInv, NextIInv, PTL DEF Spec
<1>3. IInv => \A c \in calls : Refuse(c) =>
            Cardinality({i \in DOMAIN granted[c.key] :
                            granted[c.key][i] >= c.at - Window[c.key] - MaxDelay})
               >= Capacity[c.key]
  BY <1>1
<1>4. QED BY <1>2, <1>3, PTL DEF RefusedWhenFull

-----------------------------------------------------------------------------
(* The passive signals.  What the marking of a day rests on is the thread  *)
(* that is still summing or crediting a signal of it: its day is today, or *)
(* midnight was noted (OfTodayOrCrossed), and what it credits to today has *)
(* been reached by the day of UTC (CreditIsDue).                           *)
RequestTypeOK(x) ==
    /\ DOMAIN x = {"step", "who", "score", "day"}
    /\ x.step \in {"idle", "mark", "log", "sum", "credit"}
    /\ x.step # "idle" => x.who \in People
    /\ x.score \in Nat
    /\ x.step \in {"sum", "credit"} => x.day \in C!Days
SignalTypeOK ==
    /\ today \in C!Days /\ zone \in Int
    /\ rows \in [People -> [C!Days -> {"none", "shown", "credited", "late"}]]
    /\ signals \in [People -> [C!Days -> Nat]]
    /\ DOMAIN request = Threads /\ \A t \in Threads : RequestTypeOK(request[t])

\* A signal whose request is still at work is of today, or midnight was noted.
OfTodayOrCrossed(x) ==
    x.step \in {"sum", "credit"} => x.day <= today /\ (x.day # today => <<x.who, x.day>> \in crossed)
\* What a request is about to credit to today, the day of UTC has reached.
CreditIsDue(x) ==
    x.step = "credit" /\ x.day = today =>
        today + zone \in C!Days /\ signals[x.who][today + zone] >= Threshold
SignalInv ==
    /\ SignalTypeOK
    /\ \A t \in Threads : OfTodayOrCrossed(request[t]) /\ CreditIsDue(request[t])
    /\ C!SignalsMarkTheDay

-----------------------------------------------------------------------------
LEMMA IdleRequest == RequestTypeOK(C!Idle) /\ C!Idle.step = "idle"
BY DEF RequestTypeOK, C!Idle

LEMMA InitSignalInv == C!Init => SignalInv
<1>. SUFFICES ASSUME C!Init PROVE SignalInv
  OBVIOUS
<1>1. SignalTypeOK
  BY IdleRequest, ChannelsAssumption DEF C!Init, SignalTypeOK, C!Days
<1>2. \A p \in People, d \in C!Days : signals[p][d] = 0 /\ rows[p][d] = "none"
  BY DEF C!Init
<1>3. C!SignalsMarkTheDay
  BY <1>2, ChannelsAssumption DEF C!SignalsMarkTheDay
<1>4. QED  BY <1>1, <1>3, IdleRequest DEF C!Init, SignalInv, OfTodayOrCrossed, CreditIsDue

\* A request moves, and the tables stay: if it was at work on a signal, it still
\* is, or its day is settled.
LEMMA RequestMoves ==
    ASSUME SignalInv, NEW t \in Threads, NEW x, C!Go(t, x), RequestTypeOK(x),
           UNCHANGED <<today, zone, rows, signals, crossed>>,
           OfTodayOrCrossed(x), CreditIsDue(x),
           C!Signalling(t) =>
              \/ x.step \in {"sum", "credit"} /\ x.who = C!Who(t) /\ x.day = request[t].day
              \/ zone = 0 =>
                    \/ signals[C!Who(t)][request[t].day] < Threshold
                    \/ <<C!Who(t), request[t].day>> \in crossed
    PROVE  SignalInv'
<1>1. /\ DOMAIN request' = Threads /\ request'[t] = x
      /\ \A u \in Threads : u # t => request'[u] = request[u]
  BY DEF SignalInv, SignalTypeOK, C!Go
<1>2. SignalTypeOK' /\ \A u \in Threads : OfTodayOrCrossed(request[u])' /\ CreditIsDue(request[u])'
  BY <1>1 DEF SignalInv, SignalTypeOK, OfTodayOrCrossed, CreditIsDue
<1>3. C!SignalsMarkTheDay'
  <2>. SUFFICES ASSUME NEW p \in People, NEW d \in C!Days
                PROVE  /\ /\ zone = 0 /\ signals[p][d] >= Threshold
                          /\ ~C!InFlight(p, d)' /\ <<p, d>> \notin crossed
                          => rows[p][d] # "none"
                       /\ rows[p][d] = "credited" =>
                             d + zone \in C!Days /\ signals[p][d + zone] >= Threshold
    BY DEF C!SignalsMarkTheDay
  <2>1. rows[p][d] = "credited" => d + zone \in C!Days /\ signals[p][d + zone] >= Threshold
    BY DEF SignalInv, C!SignalsMarkTheDay
  <2>2. ASSUME zone = 0, signals[p][d] >= Threshold, ~C!InFlight(p, d)', <<p, d>> \notin crossed
        PROVE  rows[p][d] # "none"
    <3>1. ASSUME NEW u \in Threads, C!Signalling(u), C!Who(u) = p, request[u].day = d
          PROVE  FALSE
      <4>1. u # t => C!Signalling(u)' /\ C!Who(u)' = p /\ request'[u].day = d
        BY <1>1, <3>1 DEF C!Signalling, C!At, C!Who
      <4>2. u = t
        BY <2>2, <4>1 DEF C!InFlight
      <4>3. ~(signals[p][d] < Threshold)
        BY <2>2, ChannelsAssumption DEF SignalInv, SignalTypeOK
      <4>4. x.step \in {"sum", "credit"} /\ x.who = p /\ x.day = d
        BY <2>2, <3>1, <4>2, <4>3
      <4>5. C!Signalling(t)' /\ C!Who(t)' = p /\ request'[t].day = d
        BY <1>1, <4>4 DEF C!Signalling, C!At, C!Who
      <4>6. QED  BY <2>2, <4>5 DEF C!InFlight
    <3>2. ~C!InFlight(p, d)
      BY <3>1 DEF C!InFlight
    <3>3. QED  BY <2>2, <3>2 DEF SignalInv, C!SignalsMarkTheDay
  <2>3. QED  BY <2>1, <2>2
<1>4. QED  BY <1>2, <1>3 DEF SignalInv

\* Nothing of what the invariant speaks of changes.
LEMMA SignalsUntouched ==
    ASSUME SignalInv, UNCHANGED <<today, zone, rows, signals, crossed, request>>
    PROVE  SignalInv'
BY DEF SignalInv, SignalTypeOK, OfTodayOrCrossed, CreditIsDue, C!SignalsMarkTheDay, C!InFlight,
       C!Signalling, C!At, C!Who

LEMMA RegisterKeeps ==
    ASSUME SignalInv, NEW p,
           \/ C!set_pin(p) \/ C!rotate_qr(p) \/ C!set_rfid(p) \/ C!portal_login(p)
           \/ C!portal_logout(p) \/ C!delete_person(p) \/ C!create_person(p)
           \/ C!users_create(p) \/ C!users_patch(p) \/ C!users_delete(p)
    PROVE  SignalInv'
<1>1. UNCHANGED <<today, zone, rows, signals, crossed, request>>
  BY DEF C!set_pin, C!rotate_qr, C!set_rfid, C!portal_login, C!portal_logout, C!delete_person, C!create_person,
         C!users_create, C!users_patch, C!users_delete, C!Link, C!Forget, C!upsert_person, C!world, C!log
<1>2. QED  BY <1>1, SignalsUntouched

\* A request that begins is not at work on a signal yet.
LEMMA BeginsKeep ==
    ASSUME SignalInv, NEW t \in Threads, NEW p \in People,
           \/ C!Begin(t, p, "mark")
           \/ \E score \in Nat : C!Ingest(t, p, score)
    PROVE  SignalInv'
<1>1. PICK x : /\ C!Go(t, x) /\ RequestTypeOK(x) /\ x.step \in {"mark", "log"}
  <2>1. CASE C!Begin(t, p, "mark")
    <3>. DEFINE x == [C!Idle EXCEPT !.step = "mark", !.who = p]
    <3>1. C!Go(t, x) /\ RequestTypeOK(x) /\ x.step = "mark"
      BY <2>1 DEF C!Begin, RequestTypeOK, C!Idle
    <3>2. QED  BY <3>1
  <2>2. CASE \E score \in Nat : C!Ingest(t, p, score)
    <3>1. PICK score \in Nat : C!Ingest(t, p, score)
      BY <2>2
    <3>. DEFINE x == [step |-> "log", who |-> p, score |-> score, day |-> 0]
    <3>2. C!Go(t, x) /\ RequestTypeOK(x) /\ x.step = "log"
      BY <3>1 DEF C!Ingest, RequestTypeOK
    <3>3. QED  BY <3>2
  <2>3. QED  BY <2>1, <2>2
<1>2. UNCHANGED <<today, zone, rows, signals, crossed>> /\ ~C!Signalling(t)
  BY DEF C!Begin, C!Ingest, C!world, C!log, C!Signalling, C!At
<1>3. OfTodayOrCrossed(x) /\ CreditIsDue(x)
  BY <1>1 DEF OfTodayOrCrossed, CreditIsDue
<1>4. QED  BY <1>1, <1>2, <1>3, RequestMoves

LEMMA LogKeeps ==
    ASSUME SignalInv, NEW t \in Threads, C!log_presence(t) PROVE SignalInv'
<1>. DEFINE x == [request[t] EXCEPT !.step = "sum", !.day = today]
            w == C!Who(t)
<1>1. /\ RequestTypeOK(request[t]) /\ today \in C!Days /\ zone \in Int /\ today \in Int
      /\ w \in People /\ request[t].score \in Nat
  BY DEF SignalInv, SignalTypeOK, RequestTypeOK, C!log_presence, C!At, C!Who, C!Days
<1>2. /\ C!Go(t, x) /\ UNCHANGED <<today, zone, rows, crossed>>
      /\ signals' = [signals EXCEPT ![w][today] = @ + request[t].score]
  BY DEF C!log_presence, C!world
<1>3. x.step = "sum" /\ x.who = w /\ x.day = today /\ RequestTypeOK(x)
  BY <1>1 DEF RequestTypeOK, C!Who
<1>. HIDE DEF x, w
<1>4. /\ DOMAIN request' = Threads /\ request'[t] = x
      /\ \A u \in Threads : u # t => request'[u] = request[u]
  BY <1>2 DEF SignalInv, SignalTypeOK, C!Go
<1>5. /\ signals' \in [People -> [C!Days -> Nat]]
      /\ \A p \in People, d \in C!Days :
            /\ signals'[p][d] >= signals[p][d]
            /\ (p # w \/ d # today => signals'[p][d] = signals[p][d])
  <2>1. signals \in [People -> [C!Days -> Nat]]
    BY DEF SignalInv, SignalTypeOK
  <2>2. signals[w][today] + request[t].score \in Nat
        /\ signals[w][today] + request[t].score >= signals[w][today]
    BY <1>1, <2>1
  <2>3. /\ signals' \in [People -> [C!Days -> Nat]]
        /\ signals'[w] = [signals[w] EXCEPT ![today] = @ + request[t].score]
        /\ \A p \in People : p # w => signals'[p] = signals[p]
    BY <1>1, <1>2, <2>1, <2>2
  <2>4. \A d \in C!Days : signals'[w][d] >= signals[w][d]
                        /\ (d # today => signals'[w][d] = signals[w][d])
    <3>1. signals[w] \in [C!Days -> Nat]
      BY <1>1, <2>1
    <3>2. \A d \in C!Days : signals'[w][d] = IF d = today THEN signals[w][today] + request[t].score
                                          ELSE signals[w][d]
      BY <2>3, <3>1
    <3>3. \A d \in C!Days : signals[w][d] >= signals[w][d]
      BY <3>1
    <3>4. QED  BY <2>2, <3>2, <3>3
  <2>5. QED  BY <2>1, <2>3, <2>4
<1>6. SignalTypeOK'
  BY <1>1, <1>2, <1>3, <1>4, <1>5 DEF SignalInv, SignalTypeOK
<1>7. ASSUME NEW u \in Threads PROVE OfTodayOrCrossed(request[u])' /\ CreditIsDue(request[u])'
  <2>1. CASE u = t
    BY <1>1, <1>2, <1>3, <1>4, <2>1 DEF OfTodayOrCrossed, CreditIsDue
  <2>2. CASE u # t
    <3>1. request'[u] = request[u] /\ OfTodayOrCrossed(request[u]) /\ CreditIsDue(request[u])
          /\ RequestTypeOK(request[u])
      BY <1>4, <2>2 DEF SignalInv, SignalTypeOK
    <3>2. signals[request[u].who][today + zone] >= Threshold /\ today + zone \in C!Days
          /\ request[u].who \in People
          => signals'[request[u].who][today + zone] >= Threshold
      <4>1. \A p \in People, d \in C!Days : signals[p][d] \in Nat /\ signals'[p][d] \in Nat
        BY <1>5 DEF SignalInv, SignalTypeOK
      <4>2. QED  BY <1>5, <4>1, ChannelsAssumption
    <3>3. QED  BY <1>2, <3>1, <3>2 DEF OfTodayOrCrossed, CreditIsDue, RequestTypeOK
  <2>3. QED  BY <2>1, <2>2
<1>8. C!SignalsMarkTheDay'
  <2>. SUFFICES ASSUME NEW p \in People, NEW d \in C!Days
                PROVE  /\ /\ zone = 0 /\ signals'[p][d] >= Threshold
                          /\ ~C!InFlight(p, d)' /\ <<p, d>> \notin crossed
                          => rows[p][d] # "none"
                       /\ rows[p][d] = "credited" =>
                             d + zone \in C!Days /\ signals'[p][d + zone] >= Threshold
    BY <1>2 DEF C!SignalsMarkTheDay
  <2>1. /\ zone = 0 /\ signals[p][d] >= Threshold
        /\ ~C!InFlight(p, d) /\ <<p, d>> \notin crossed
        => rows[p][d] # "none"
    BY DEF SignalInv, C!SignalsMarkTheDay
  <2>2. rows[p][d] = "credited" => d + zone \in C!Days /\ signals[p][d + zone] >= Threshold
    BY DEF SignalInv, C!SignalsMarkTheDay
  <2>3. \A e \in C!Days : signals[p][e] \in Nat /\ signals'[p][e] \in Nat
                        /\ signals'[p][e] >= signals[p][e]
    BY <1>5 DEF SignalInv, SignalTypeOK
  <2>4. p = w /\ d = today => C!InFlight(p, d)'
    BY <1>3, <1>4 DEF C!InFlight, C!Signalling, C!At, C!Who
  <2>5. ASSUME C!InFlight(p, d) PROVE C!InFlight(p, d)'
    <3>1. PICK u \in Threads : C!Signalling(u) /\ C!Who(u) = p /\ request[u].day = d
      BY <2>5 DEF C!InFlight
    <3>2. u # t
      BY <3>1 DEF C!Signalling, C!At, C!log_presence
    <3>3. QED  BY <1>4, <3>1, <3>2 DEF C!InFlight, C!Signalling, C!At, C!Who
  <2>6. CASE p = w /\ d = today
    BY <2>2, <2>3, <2>4, <2>6, ChannelsAssumption
  <2>7. CASE p # w \/ d # today
    <3>1. signals'[p][d] = signals[p][d]
      BY <1>5, <2>7
    <3>2. QED  BY <2>1, <2>2, <2>3, <2>5, <3>1, ChannelsAssumption
  <2>8. QED  BY <2>6, <2>7
<1>9. QED  BY <1>6, <1>7, <1>8 DEF SignalInv

LEMMA MaybeKeeps ==
    ASSUME SignalInv, NEW t \in Threads, C!maybe_mark(t) PROVE SignalInv'
<1>1. /\ RequestTypeOK(request[t]) /\ today \in Int /\ zone \in Int /\ today \in C!Days
      /\ request[t].step = "sum" /\ C!Who(t) \in People /\ request[t].day \in C!Days
      /\ OfTodayOrCrossed(request[t])
      /\ UNCHANGED <<today, zone, rows, signals, crossed>>
  BY DEF SignalInv, SignalTypeOK, RequestTypeOK, C!maybe_mark, C!At, C!Who, C!Days, C!world, C!log
<1>2. CASE C!SumOf(C!Who(t), today + zone) < Threshold
  <2>1. C!Go(t, C!Idle)
    BY <1>2 DEF C!maybe_mark
  <2>2. OfTodayOrCrossed(C!Idle) /\ CreditIsDue(C!Idle)
    BY IdleRequest DEF OfTodayOrCrossed, CreditIsDue
  <2>3. ASSUME zone = 0
        PROVE  \/ signals[C!Who(t)][request[t].day] < Threshold
               \/ <<C!Who(t), request[t].day>> \in crossed
    <3>1. CASE request[t].day = today
      BY <1>1, <1>2, <2>3, <3>1 DEF C!SumOf
    <3>2. CASE request[t].day # today
      BY <1>1, <3>2 DEF OfTodayOrCrossed, C!Who
    <3>3. QED  BY <3>1, <3>2
  <2>4. QED  BY <1>1, <2>1, <2>2, <2>3, IdleRequest, RequestMoves
<1>3. CASE ~(C!SumOf(C!Who(t), today + zone) < Threshold)
  <2>0. PICK x : x = [request[t] EXCEPT !.step = "credit"]
    OBVIOUS
  <2>1. C!Go(t, x)
    BY <1>3, <2>0 DEF C!maybe_mark, C!Step
  <2>2. /\ x.step = "credit" /\ x.who = C!Who(t) /\ x.day = request[t].day /\ RequestTypeOK(x)
    BY <1>1, <2>0 DEF RequestTypeOK, C!Who
  <2>3. today + zone \in C!Days /\ signals[C!Who(t)][today + zone] >= Threshold
    <3>1. today + zone \in C!Days
      BY <1>3, ChannelsAssumption DEF C!SumOf
    <3>2. signals[C!Who(t)][today + zone] \in Nat
      BY <1>1, <3>1 DEF SignalInv, SignalTypeOK
    <3>3. QED  BY <1>3, <3>1, <3>2, ChannelsAssumption DEF C!SumOf
  <2>4. OfTodayOrCrossed(x) /\ CreditIsDue(x)
    BY <1>1, <2>2, <2>3 DEF OfTodayOrCrossed, CreditIsDue, C!Who
  <2>5. QED  BY <1>1, <2>1, <2>2, <2>4, RequestMoves
<1>4. QED  BY <1>2, <1>3

LEMMA AttendKeeps ==
    ASSUME SignalInv, NEW t \in Threads, C!mark_attendance(t) PROVE SignalInv'
<1>. DEFINE w == C!Who(t)
            old == rows[w][today]
            new == IF old # "none" THEN old
                   ELSE IF C!At(t, "mark") THEN "shown"
                   ELSE IF request[t].day = today THEN "credited" ELSE "late"
<1>1. /\ RequestTypeOK(request[t]) /\ today \in C!Days /\ today \in Int /\ w \in People
      /\ OfTodayOrCrossed(request[t]) /\ CreditIsDue(request[t])
  BY DEF SignalInv, SignalTypeOK, RequestTypeOK, C!mark_attendance, C!At, C!Who, C!Days
<1>2. /\ C!Go(t, C!Idle) /\ UNCHANGED <<today, zone, signals, crossed>>
      /\ rows' = [rows EXCEPT ![w][today] = new]
      /\ C!At(t, "mark") \/ C!At(t, "credit")
  <2>1. rows' = [rows EXCEPT ![w][today] =
            IF @ # "none" THEN @
            ELSE IF C!At(t, "mark") THEN "shown"
            ELSE IF request[t].day = today THEN "credited" ELSE "late"]
    BY DEF C!mark_attendance
  <2>2. rows \in [People -> [C!Days -> {"none", "shown", "credited", "late"}]]
    BY DEF SignalInv, SignalTypeOK
  <2>3. QED  BY <1>1, <2>1, <2>2 DEF C!mark_attendance, C!world, C!log
<1>3. /\ new \in {"shown", "credited", "late"}
      /\ new = "credited" =>
            old = "credited" \/ (C!At(t, "credit") /\ request[t].day = today)
  <2>1. old \in {"none", "shown", "credited", "late"}
    BY <1>1 DEF SignalInv, SignalTypeOK
  <2>2. QED  BY <1>2, <2>1
<1>. HIDE DEF new, w, old
<1>4. /\ DOMAIN request' = Threads /\ request'[t] = C!Idle
      /\ \A u \in Threads : u # t => request'[u] = request[u]
  BY <1>2 DEF SignalInv, SignalTypeOK, C!Go
<1>5. /\ rows' \in [People -> [C!Days -> {"none", "shown", "credited", "late"}]]
      /\ rows'[w][today] = new
      /\ \A p \in People, d \in C!Days : p # w \/ d # today => rows'[p][d] = rows[p][d]
  <2>1. rows \in [People -> [C!Days -> {"none", "shown", "credited", "late"}]]
    BY DEF SignalInv, SignalTypeOK
  <2>2. /\ rows' \in [People -> [C!Days -> {"none", "shown", "credited", "late"}]]
        /\ rows'[w] = [rows[w] EXCEPT ![today] = new]
        /\ \A p \in People : p # w => rows'[p] = rows[p]
    BY <1>1, <1>2, <1>3, <2>1
  <2>3. rows'[w][today] = new /\ \A d \in C!Days : d # today => rows'[w][d] = rows[w][d]
    BY <1>1, <2>1, <2>2
  <2>4. QED  BY <2>2, <2>3
<1>6. SignalTypeOK'
  BY <1>2, <1>4, <1>5, IdleRequest DEF SignalInv, SignalTypeOK
<1>7. ASSUME NEW u \in Threads PROVE OfTodayOrCrossed(request[u])' /\ CreditIsDue(request[u])'
  <2>1. CASE u = t
    BY <1>4, <2>1, IdleRequest DEF OfTodayOrCrossed, CreditIsDue
  <2>2. CASE u # t
    BY <1>2, <1>4, <2>2 DEF SignalInv, OfTodayOrCrossed, CreditIsDue
  <2>3. QED  BY <2>1, <2>2
<1>8. C!SignalsMarkTheDay'
  <2>. SUFFICES ASSUME NEW p \in People, NEW d \in C!Days
                PROVE  /\ /\ zone = 0 /\ signals[p][d] >= Threshold
                          /\ ~C!InFlight(p, d)' /\ <<p, d>> \notin crossed
                          => rows'[p][d] # "none"
                       /\ rows'[p][d] = "credited" =>
                             d + zone \in C!Days /\ signals[p][d + zone] >= Threshold
    BY <1>2 DEF C!SignalsMarkTheDay
  <2>0. /\ /\ zone = 0 /\ signals[p][d] >= Threshold
           /\ ~C!InFlight(p, d) /\ <<p, d>> \notin crossed
           => rows[p][d] # "none"
        /\ rows[p][d] = "credited" => d + zone \in C!Days /\ signals[p][d + zone] >= Threshold
    BY DEF SignalInv, C!SignalsMarkTheDay
  <2>1. CASE p = w /\ d = today
    <3>1. p = w /\ d = today /\ rows'[p][d] = new
      BY <1>5, <2>1
    <3>2. new = "credited" => d + zone \in C!Days /\ signals[p][d + zone] >= Threshold
      BY <1>1, <1>3, <2>0, <3>1 DEF CreditIsDue, C!At, old, w, C!Who
    <3>3. QED  BY <1>3, <3>1, <3>2
  <2>2. CASE p # w \/ d # today
    <3>1. rows'[p][d] = rows[p][d]
      BY <1>5, <2>2
    <3>2. ASSUME C!InFlight(p, d), <<p, d>> \notin crossed PROVE C!InFlight(p, d)'
      <4>1. PICK u \in Threads : C!Signalling(u) /\ C!Who(u) = p /\ request[u].day = d
        BY <3>2 DEF C!InFlight
      <4>2. u # t
        BY <1>1, <2>2, <3>2, <4>1 DEF OfTodayOrCrossed, C!Signalling, C!At, w, C!Who
      <4>3. QED  BY <1>4, <4>1, <4>2 DEF C!InFlight, C!Signalling, C!At, C!Who
    <3>3. QED  BY <2>0, <3>1, <3>2
  <2>3. QED  BY <2>1, <2>2
<1>9. QED  BY <1>6, <1>7, <1>8 DEF SignalInv

\* Midnight, and the end of a process, note the requests they cut across.
LEMMA CutsKeep ==
    ASSUME SignalInv, C!Midnight \/ C!Crash PROVE SignalInv'
<1>1. /\ crossed' = crossed \cup C!Lost(Threads)
      /\ UNCHANGED <<zone, rows, signals>>
      /\ today \in C!Days /\ today \in Int
  BY DEF C!Midnight, C!Crash, C!log, SignalInv, SignalTypeOK, C!Days
<1>2. \A t \in Threads : request[t].step \in {"sum", "credit"} =>
          <<request[t].who, request[t].day>> \in crossed'
  BY <1>1 DEF C!Lost, C!Signalling, C!At, C!Who
<1>3. SignalTypeOK'
  <2>1. CASE C!Midnight
    <3>1. today' = today + 1 /\ today < LastDay /\ request' = request
      BY <2>1 DEF C!Midnight
    <3>2. today' \in C!Days
      BY <1>1, <3>1, ChannelsAssumption DEF C!Days
    <3>3. QED  BY <1>1, <3>1, <3>2 DEF SignalInv, SignalTypeOK
  <2>2. CASE C!Crash
    <3>1. today' = today /\ request' = [t \in Threads |-> C!Idle]
      BY <2>2 DEF C!Crash
    <3>2. QED  BY <1>1, <3>1, IdleRequest DEF SignalInv, SignalTypeOK
  <2>3. QED  BY <2>1, <2>2
<1>4. ASSUME NEW t \in Threads PROVE OfTodayOrCrossed(request[t])' /\ CreditIsDue(request[t])'
  <2>1. CASE C!Midnight
    <3>1. request'[t] = request[t] /\ today' = today + 1 /\ OfTodayOrCrossed(request[t])
          /\ RequestTypeOK(request[t])
      BY <2>1 DEF C!Midnight, SignalInv, SignalTypeOK
    <3>2. request[t].step \in {"sum", "credit"} => request[t].day \in Int
                                              /\ request[t].day < today'
      BY <1>1, <3>1 DEF OfTodayOrCrossed, RequestTypeOK, C!Days
    <3>3. QED  BY <1>1, <1>2, <3>1, <3>2 DEF OfTodayOrCrossed, CreditIsDue
  <2>2. CASE C!Crash
    BY <2>2, IdleRequest DEF C!Crash, OfTodayOrCrossed, CreditIsDue
  <2>3. QED  BY <2>1, <2>2
<1>5. C!SignalsMarkTheDay'
  <2>. SUFFICES ASSUME NEW p \in People, NEW d \in C!Days, <<p, d>> \notin crossed',
                       zone = 0, signals[p][d] >= Threshold
                PROVE  rows[p][d] # "none"
    BY <1>1 DEF C!SignalsMarkTheDay, SignalInv
  <2>1. ~C!InFlight(p, d)
    BY <1>2 DEF C!InFlight, C!Signalling, C!At, C!Who
  <2>2. QED  BY <1>1, <2>1 DEF SignalInv, C!SignalsMarkTheDay
<1>6. QED  BY <1>3, <1>4, <1>5 DEF SignalInv

LEMMA NextSignalInv ==
    ASSUME SignalInv, [C!Next]_(C!vars) PROVE SignalInv'
<1>1. CASE UNCHANGED C!vars
  BY <1>1, SignalsUntouched DEF C!vars
<1>2. CASE C!Kiosk \/ C!Open
  <2>1. PICK p \in People :
          \/ C!set_pin(p) \/ C!rotate_qr(p) \/ C!set_rfid(p) \/ C!portal_login(p)
          \/ C!portal_logout(p) \/ C!delete_person(p) \/ C!create_person(p)
          \/ C!users_create(p) \/ C!users_patch(p) \/ C!users_delete(p)
          \/ \E t \in Threads :
                \/ C!Begin(t, p, "mark")
                \/ \E score \in Nat : C!Ingest(t, p, score)
    <3>1. \A t, p : C!presence_calendar(t, p) => C!Ingest(t, p, 10) \/ C!Ingest(t, p, 3)
      BY DEF C!presence_calendar
    <3>2. QED
      BY <1>2, <3>1 DEF C!Kiosk, C!Open, C!kiosk_pin, C!kiosk_qr, C!kiosk_rfid, C!gps_check_in,
                        C!manual_mark, C!check_in, C!check_out, C!presence_wifi, C!presence_vpn
  <2>2. QED  BY <2>1, RegisterKeeps, BeginsKeep
<1>3. CASE C!Progress
  BY <1>3, CutsKeep, LogKeeps, MaybeKeeps, AttendKeeps DEF C!Progress
<1>4. QED  BY <1>1, <1>2, <1>3 DEF C!Next

\* However many signals arrive at once, none of them enough, and whatever marks,
\* erases or registers people meanwhile, a day whose signals reach the threshold
\* is marked, and a day that is credited to signals reached it (maybe_mark).
THEOREM SignalsMark == MCSpec => []SignalsMarkTheDay
<1>1. MCInit => SignalInv
  BY InitSignalInv DEF MCInit
<1>2. SignalInv /\ [MCNext]_<<part, vars, channels, positions, exam>> => SignalInv'
  <2>1. [MCNext]_<<part, vars, channels, positions, exam>> => [C!Next]_(C!vars)
    BY DEF MCNext, channels, positions, exam, vars, C!vars, C!Next
  <2>2. QED  BY <2>1, NextSignalInv
<1>3. SignalInv => SignalsMarkTheDay
  BY DEF SignalInv, SignalsMarkTheDay
<1>4. QED  BY <1>1, <1>2, <1>3, PTL DEF MCSpec

-----------------------------------------------------------------------------
(* Positions.  The invariant says of a request how far it has come: what   *)
(* it has stayed for is there, nothing of it has the position inside once  *)
(* the first reading has found nothing, and a branch it was accepted for   *)
(* has.  That rays agree with polygons of every shape is not proved but    *)
(* checked by TLC on a grid; that distances agree with circles is proved.  *)

\* Of a request f, with these branches there: what it has stayed for, and what it
\* has found so far.
FixOK(f, there) ==
    /\ DOMAIN f = {"step", "at", "status", "branch", "stayed", "bare"}
    /\ f.step \in {"idle", "match", "again", "log"}
    /\ f.step # "idle" =>
          /\ f.at \in Points
          /\ f.stayed \subseteq there /\ f.stayed \subseteq DOMAIN Fence
          /\ there = {} => f.bare
    /\ f.step \in {"match", "again"} => f.branch = ""
    /\ f.step = "again" => \A b \in f.stayed : ~P!inside_site(Fence[b], f.at)
    /\ f.step = "log" =>
          /\ f.status = "accepted" =>
                IF f.branch # "" THEN f.branch \in DOMAIN Fence /\ P!inside_site(Fence[f.branch], f.at)
                ELSE f.bare
          /\ f.status = "outside" => \A b \in f.stayed : ~P!inside_site(Fence[b], f.at)
FixesInv ==
    /\ branches \subseteq DOMAIN Fence
    /\ DOMAIN fixes = Phones
    /\ \A t \in Phones : FixOK(fixes[t], branches)

LEMMA ListedAreFenced == \A i \in DOMAIN Names : Names[i] \in DOMAIN Fence
<1>1. ASSUME NEW S, Names \in Seq(S) PROVE \A i \in DOMAIN Names : Names[i] \in S
  BY <1>1
<1>2. QED  BY <1>1, FenceAssumption

LEMMA IdleFix == ASSUME NEW there PROVE FixOK(P!Idle, there)
BY DEF FixOK, P!Idle

LEMMA InitFixesInv == P!Init => FixesInv
BY IdleFix DEF P!Init, FixesInv

\* A request goes on, and the branches stay.
LEMMA FixMoves ==
    ASSUME FixesInv, NEW t \in Phones, NEW f, P!Go(t, f), FixOK(f, branches), UNCHANGED branches
    PROVE  FixesInv'
<1>1. DOMAIN fixes' = Phones /\ \A u \in Phones : fixes'[u] = IF u = t THEN f ELSE fixes[u]
  BY DEF FixesInv, P!Go
<1>2. QED  BY <1>1 DEF FixesInv

LEMMA CheckInKeeps ==
    ASSUME FixesInv, NEW t \in Phones, NEW p \in Points, NEW q, P!gps_check_in(t, p, q)
    PROVE  FixesInv'
<1> DEFINE new(mocked) ==
            [step |-> IF mocked THEN "log" ELSE "match", at |-> p,
             status |-> IF mocked THEN "mocked" ELSE "", branch |-> "",
             stayed |-> branches, bare |-> branches = {}]
<1>1. PICK previous \in P!last_gps_mark : P!Go(t, new(P!looks_mocked(p, q, previous, clock)))
  BY DEF P!gps_check_in
<1>2. PICK f : f = new(P!looks_mocked(p, q, previous, clock))
  OBVIOUS
<1>3. FixOK(f, branches)
  BY <1>2 DEF FixesInv, FixOK
<1> HIDE DEF new
<1>4. QED  BY <1>1, <1>2, <1>3, FixMoves DEF P!gps_check_in

LEMMA MatchKeeps ==
    ASSUME FixesInv, NEW t \in Phones, P!Match(t) PROVE FixesInv'
<1>. DEFINE found == {i \in P!list_branches : P!inside_site(Fence[Names[i]], fixes[t].at)}
<1>1. FixOK(fixes[t], branches) /\ fixes[t].step = "match" /\ UNCHANGED branches
  BY DEF FixesInv, P!Match, P!At
<1>2. CASE found = {} /\ P!Go(t, [fixes[t] EXCEPT !.step = "again"])
  <2>1. PICK f : f = [fixes[t] EXCEPT !.step = "again"]
    OBVIOUS
  <2>2. \A b \in branches : ~P!inside_site(Fence[b], fixes[t].at)
    BY <1>2, FenceAssumption DEF P!list_branches, FixesInv
  <2>3. FixOK(f, branches)
    BY <1>1, <2>1, <2>2 DEF FixOK
  <2>4. QED  BY <1>1, <1>2, <2>1, <2>3, FixMoves
<1>3. ASSUME NEW i \in found,
             P!Go(t, [fixes[t] EXCEPT !.step = "log", !.status = "accepted", !.branch = Names[i]])
      PROVE  FixesInv'
  <2>1. PICK f : f = [fixes[t] EXCEPT !.step = "log", !.status = "accepted", !.branch = Names[i]]
    OBVIOUS
  <2>2. Names[i] \in DOMAIN Fence /\ Names[i] # "" /\ P!inside_site(Fence[Names[i]], fixes[t].at)
    <3>1. i \in DOMAIN Names /\ P!inside_site(Fence[Names[i]], fixes[t].at)
      BY DEF P!list_branches
    <3>2. Names[i] \in DOMAIN Fence
      BY <3>1, ListedAreFenced
    <3>3. QED  BY <3>1, <3>2, FenceAssumption
  <2>3. FixOK(f, branches)
    BY <1>1, <2>1, <2>2 DEF FixOK
  <2>4. QED  BY <1>1, <1>3, <2>1, <2>3, FixMoves
<1>4. QED  BY <1>2, <1>3 DEF P!Match

LEMMA AgainKeeps ==
    ASSUME FixesInv, NEW t \in Phones, P!Again(t) PROVE FixesInv'
<1>1. FixOK(fixes[t], branches) /\ fixes[t].step = "again" /\ UNCHANGED branches
  BY DEF FixesInv, P!Again, P!At
<1>2. P!list_branches # {} \/ branches = {}
  <2>1. \A b \in DOMAIN Fence : \E i \in DOMAIN Names : Names[i] = b
    BY FenceAssumption
  <2>2. QED  BY <2>1 DEF P!list_branches, FixesInv
<1>3. PICK f : f = [fixes[t] EXCEPT !.step = "log",
                      !.status = IF P!list_branches # {} THEN "outside" ELSE "accepted"]
  OBVIOUS
<1>4. P!Go(t, f)
  BY <1>3 DEF P!Again
<1>5. FixOK(f, branches)
  BY <1>1, <1>2, <1>3 DEF FixOK
<1>6. QED  BY <1>1, <1>4, <1>5, FixMoves

LEMMA LogMarkKeeps ==
    ASSUME FixesInv, NEW t \in Phones, P!log_gps_mark(t) PROVE FixesInv'
<1>1. P!Go(t, P!Idle) /\ UNCHANGED branches
  BY DEF P!log_gps_mark
<1>2. QED  BY <1>1, IdleFix, FixMoves

\* A branch more or less: what a request has stayed for becomes less.
LEMMA ChangeKeeps ==
    ASSUME FixesInv, NEW to \in SUBSET DOMAIN Fence, P!Change(to) PROVE FixesInv'
<1>1. branches' = to
  BY DEF P!Change
<1>2. ASSUME NEW t \in Phones PROVE FixOK(fixes'[t], to)
  <2>1. FixOK(fixes[t], branches)
    BY DEF FixesInv
  <2>2. CASE P!At(t, "idle")
    BY <2>2, IdleFix DEF P!Change
  <2>3. CASE ~P!At(t, "idle")
    <3>1. fixes'[t] = [fixes[t] EXCEPT !.stayed = @ \cap to, !.bare = @ \/ to = {}]
      BY <2>3 DEF P!Change
    <3>2. /\ DOMAIN fixes'[t] = DOMAIN fixes[t]
          /\ \A x \in {"step", "at", "status", "branch"} : fixes'[t][x] = fixes[t][x]
          /\ fixes'[t].stayed = fixes[t].stayed \cap to
          /\ fixes'[t].bare = (fixes[t].bare \/ to = {})
      BY <2>1, <3>1 DEF FixOK
    <3>3. /\ fixes'[t].step = fixes[t].step /\ fixes'[t].at = fixes[t].at
          /\ fixes'[t].status = fixes[t].status /\ fixes'[t].branch = fixes[t].branch
      BY <3>2
    <3>4. QED  BY <2>1, <2>3, <3>2, <3>3 DEF FixOK, P!At
  <2>4. QED  BY <2>2, <2>3
<1>3. QED  BY <1>1, <1>2 DEF P!Change, FixesInv

LEMMA NextFixesInv ==
    ASSUME FixesInv, [P!Next]_(P!vars) PROVE FixesInv'
<1>1. CASE UNCHANGED P!vars
  BY <1>1 DEF P!vars, FixesInv
<1>2. CASE P!Next
  <2>1. ASSUME NEW b \in DOMAIN Fence, P!add_branch(b) \/ P!delete_branch(b) PROVE FixesInv'
    <3>1. branches \cup {b} \in SUBSET DOMAIN Fence /\ branches \ {b} \in SUBSET DOMAIN Fence
      BY DEF FixesInv
    <3>2. QED  BY <2>1, <3>1, ChangeKeeps DEF P!add_branch, P!delete_branch
  <2>2. CASE P!Tick
    BY <2>2 DEF P!Tick, FixesInv
  <2>3. QED
    BY <1>2, <2>1, <2>2, CheckInKeeps, MatchKeeps, AgainKeeps, LogMarkKeeps DEF P!Next
<1>3. QED  BY <1>1, <1>2

\* So does the distance from the centre of a circle.
LEMMA SidesAgree ==
    ASSUME NEW b \in DOMAIN Fence, NEW p \in Points
    PROVE  /\ P!StrictlyInside(b, p) => P!inside_site(Fence[b], p)
           /\ P!inside_site(Fence[b], p) => ~P!StrictlyOutside(b, p)
<1>1. CASE Fence[b].polygon # <<>>
  BY <1>1, RaysAgree
<1>2. CASE Fence[b].polygon = <<>> /\ Fence[b].centre = <<>>
  BY <1>2, FenceAssumption DEF P!StrictlyInside, P!inside_site
<1>3. CASE Fence[b].polygon = <<>> /\ Fence[b].centre # <<>>
  <2>1. Fence[b].parts = {} /\ Fence[b].centre \in Int \X Int /\ Fence[b].radius \in Int
        /\ p \in Int \X Int
    BY <1>3, FenceAssumption
  <2>2. P!Distance2(p, Fence[b].centre) \in Int /\ Fence[b].radius * Fence[b].radius \in Int
    BY <2>1 DEF P!Distance2
  <2>3. \A m, n \in Int : (m < n => m <= n) /\ (m <= n => ~(m > n))
    OBVIOUS
  <2>4. QED  BY <1>3, <2>1, <2>2, <2>3 DEF P!StrictlyInside, P!StrictlyOutside, P!inside_site
<1>4. QED  BY <1>1, <1>2, <1>3

LEMMA FixesHold == ASSUME FixesInv PROVE P!GeofenceHolds
<1>. SUFFICES ASSUME NEW t \in Phones, P!At(t, "log")
              PROVE  /\ fixes[t].status = "accepted" =>
                           IF fixes[t].branch # "" THEN ~P!StrictlyOutside(fixes[t].branch, fixes[t].at)
                           ELSE fixes[t].bare
                     /\ fixes[t].status = "outside" =>
                           \A b \in fixes[t].stayed : ~P!StrictlyInside(b, fixes[t].at)
  BY DEF P!GeofenceHolds
<1>1. FixOK(fixes[t], branches) /\ fixes[t].step = "log"
  BY DEF FixesInv, P!At
<1>2. QED  BY <1>1, SidesAgree DEF FixOK, FixesInv

\* Whatever the order of the list, and however it changes between its readings, a
\* phone is accepted for a branch it is not outside of and refused as outside only
\* when no branch that was there all along has it inside (gps_check_in), given that
\* rays agree with polygons.
THEOREM FencesHold == MCSpec => []GeofenceHolds
<1>1. MCInit => FixesInv
  BY InitFixesInv DEF MCInit
<1>2. FixesInv /\ [MCNext]_<<part, vars, channels, positions, exam>> => FixesInv'
  <2>1. [MCNext]_<<part, vars, channels, positions, exam>> => [P!Next]_(P!vars)
    BY DEF MCNext, channels, positions, exam, vars, P!vars
  <2>2. QED  BY <2>1, NextFixesInv
<1>3. FixesInv => GeofenceHolds
  BY FixesHold DEF GeofenceHolds
<1>4. QED  BY <1>1, <1>2, <1>3, PTL DEF MCSpec

-----------------------------------------------------------------------------
(* Exams, of one camera.  What bounds the alerts about a person is that the *)
(* process's set of those alerted has the person, or the frame is just about *)
(* to add them (Noted); what bounds those about strangers, that whatever   *)
(* comes after the time noted last was logged by an earlier process.       *)

Alert == [kind : {"missing", "imposter"}, exam : Exams, person : Persons \cup {"unknown"},
          at : Int, last : Int]
\* The places of a log s that hold an alert of the set K.
Those(s, K) == {i \in DOMAIN s : s[i] \in K}
AbsencesOf(e, p) == {a \in Alert : a.kind = "missing" /\ a.exam = e /\ a.person = p}
ImpostersFrom(e, T) ==
    {a \in Alert : a.kind = "imposter" /\ a.exam = e /\ a.at \in T..(T + ImposterGap)}

FrameTypeOK(x) ==
    /\ DOMAIN x = {"step", "exam", "view", "large", "at", "todo", "person"}
    /\ x.step \in {"idle", "observe", "check", "log", "mark", "logimposter", "markimposter"}
    /\ x.step # "idle" => x.exam \in Exams
    /\ x.at \in Int
    /\ x.step \in {"log", "mark"} => x.person \in Persons
\* What a frame is about to log is still due: nothing has marked it meanwhile.
FrameIsDue(x) ==
    /\ x.step = "log" => /\ x.person \notin alerted[w1][x.exam]
                         /\ seen[w1][x.exam][x.person] < x.at - Grace
    /\ x.step = "logimposter" => x.at - imposter[w1][x.exam] > ImposterGap
ExamTypeOK ==
    /\ tick \in Int /\ restarts \in Nat
    /\ seen \in [Workers -> [Exams -> [Persons -> Int]]]
    /\ sighted \in [Exams -> [Persons -> Int]]
    /\ alerted \in [Workers -> [Exams -> SUBSET Persons]]
    /\ imposter \in [Workers -> [Exams -> Int]]
    /\ alerts \in Seq(Alert)
    /\ DOMAIN thread = Cameras /\ FrameTypeOK(thread[c1]) /\ FrameIsDue(thread[c1])

Noted(e, p) ==
    \/ p \in alerted[w1][e]
    \/ X!At(c1, "mark") /\ X!E(c1) = e /\ thread[c1].person = p
\* The time of the last imposter this process knows, or is about to note.
LastImposter(e) ==
    IF X!At(c1, "markimposter") /\ X!E(c1) = e THEN thread[c1].at ELSE imposter[w1][e]

AbsencesAreTrue ==
    restarts = 0 =>
        /\ seen[w1] = sighted
        /\ \A i \in X!Missing : alerts[i].last < alerts[i].at - Grace
AbsencesAreCounted ==
    \A e \in Exams, p \in Persons :
        Cardinality(Those(alerts, AbsencesOf(e, p))) <= restarts + IF Noted(e, p) THEN 1 ELSE 0
ImpostersAreCounted ==
    \A e \in Exams, T \in Int :
        /\ Cardinality(Those(alerts, ImpostersFrom(e, T))) <= restarts + 1
        /\ T > LastImposter(e) => Cardinality(Those(alerts, ImpostersFrom(e, T))) <= restarts
ExamInv == ExamTypeOK /\ AbsencesAreTrue /\ AbsencesAreCounted /\ ImpostersAreCounted

-----------------------------------------------------------------------------
LEMMA ThoseAreFinite ==
    ASSUME NEW s \in Seq(Alert), NEW K
    PROVE  IsFiniteSet(Those(s, K)) /\ Cardinality(Those(s, K)) \in Nat
<1>1. Those(s, K) \subseteq 1..Len(s)
  BY DEF Those
<1>2. IsFiniteSet(Those(s, K))
  BY <1>1, FS_Interval, FS_Subset
<1>3. QED  BY <1>2, FS_CardinalityType

\* One more alert, one more of every set it is in.
LEMMA CountAppend ==
    ASSUME NEW s \in Seq(Alert), NEW a \in Alert, NEW K
    PROVE  Cardinality(Those(Append(s, a), K)) = Cardinality(Those(s, K)) + IF a \in K THEN 1 ELSE 0
<1>1. /\ Len(s) \in Nat /\ DOMAIN Append(s, a) = DOMAIN s \cup {Len(s) + 1}
      /\ Append(s, a)[Len(s) + 1] = a /\ Len(s) + 1 \notin DOMAIN s
      /\ \A i \in DOMAIN s : Append(s, a)[i] = s[i]
  OBVIOUS
<1>2. CASE a \in K
  <2>1. Those(Append(s, a), K) = Those(s, K) \cup {Len(s) + 1} /\ Len(s) + 1 \notin Those(s, K)
    BY <1>1, <1>2 DEF Those
  <2>2. QED  BY <1>2, <2>1, ThoseAreFinite, FS_AddElement
<1>3. CASE a \notin K
  <2>1. Those(Append(s, a), K) = Those(s, K)
    BY <1>1, <1>3 DEF Those
  <2>2. QED  BY <1>3, <2>1, ThoseAreFinite
<1>4. QED  BY <1>2, <1>3

LEMMA NoAlerts == ASSUME NEW K PROVE Cardinality(Those(<<>>, K)) = 0
<1>1. Those(<<>>, K) = {}
  BY DEF Those
<1>2. QED  BY <1>1, FS_EmptySet

LEMMA InitExamInv == X!Init => ExamInv
<1>. SUFFICES ASSUME X!Init PROVE ExamInv
  OBVIOUS
<1>1. FrameTypeOK(X!Idle) /\ FrameIsDue(X!Idle) /\ X!Idle.step = "idle"
  BY DEF FrameTypeOK, FrameIsDue, X!Idle
<1>2. thread[c1] = X!Idle /\ alerts = <<>> /\ restarts = 0
  BY ExamAssumption DEF X!Init
<1>3. ExamTypeOK
  BY <1>1, <1>2, ExamAssumption DEF X!Init, ExamTypeOK, X!Epoch, X!Empty
<1>4. AbsencesAreTrue
  <2>1. seen[w1] = sighted
    BY ExamAssumption DEF X!Init
  <2>2. QED  BY <1>2, <2>1 DEF AbsencesAreTrue, X!Missing
<1>5. AbsencesAreCounted /\ ImpostersAreCounted
  BY <1>2, NoAlerts DEF AbsencesAreCounted, ImpostersAreCounted
<1>6. QED  BY <1>3, <1>4, <1>5 DEF ExamInv

\* The camera's frame goes on, and neither notes nor alerts change.
LEMMA FrameMoves ==
    ASSUME ExamInv, NEW x, thread' = [thread EXCEPT ![c1] = x],
           FrameTypeOK(x), FrameIsDue(x), x.step \notin {"mark", "markimposter"},
           ~X!At(c1, "mark"), ~X!At(c1, "markimposter"),
           tick' \in Int, UNCHANGED <<seen, alerted, imposter, alerts, sighted, restarts>>
    PROVE  ExamInv'
<1>1. DOMAIN thread' = Cameras /\ thread'[c1] = x
  BY ExamAssumption DEF ExamInv, ExamTypeOK
<1>2. ExamTypeOK'
  BY <1>1 DEF ExamInv, ExamTypeOK, FrameIsDue
<1>3. \A e, p : (Noted(e, p) <=> Noted(e, p)') /\ LastImposter(e)' = LastImposter(e)
  BY <1>1 DEF Noted, LastImposter, X!At
<1>4. AbsencesAreTrue' /\ AbsencesAreCounted' /\ ImpostersAreCounted'
  BY <1>3 DEF ExamInv, AbsencesAreTrue, AbsencesAreCounted, ImpostersAreCounted, X!Missing
<1>5. QED  BY <1>2, <1>4 DEF ExamInv

LEMMA IdleFrame == FrameTypeOK(X!Idle) /\ FrameIsDue(X!Idle) /\ X!Idle.step = "idle"
BY DEF FrameTypeOK, FrameIsDue, X!Idle

LEMMA ClockKeeps ==
    ASSUME ExamInv, tick' \in Int,
           UNCHANGED <<seen, alerted, imposter, thread, alerts, sighted, restarts>>
    PROVE  ExamInv'
BY DEF ExamInv, ExamTypeOK, FrameIsDue, AbsencesAreTrue, AbsencesAreCounted, ImpostersAreCounted,
       Noted, LastImposter, X!Missing, X!At, X!E

LEMMA ObserveKeeps == ASSUME ExamInv, X!Observe(c1) PROVE ExamInv'
<1>. DEFINE e == X!E(c1)
<1>1. /\ FrameTypeOK(thread[c1]) /\ thread[c1].step = "observe" /\ e \in Exams /\ tick \in Int
      /\ X!W(c1) = w1 /\ DOMAIN thread = Cameras
  BY ExamAssumption DEF ExamInv, ExamTypeOK, FrameTypeOK, X!Observe, X!At, X!E, X!W
<1>2. PICK x : /\ thread' = [thread EXCEPT ![c1] = x]
               /\ x = IF X!Throttled(c1) THEN X!Idle
                      ELSE [thread[c1] EXCEPT !.step = "check", !.at = tick, !.todo = Persons]
  BY DEF X!Observe
<1>3. FrameTypeOK(x) /\ x.step \in {"idle", "check"}
  BY <1>1, <1>2, IdleFrame DEF FrameTypeOK
<1>4. thread'[c1] = x /\ DOMAIN thread' = Cameras
  BY <1>1, <1>2, ExamAssumption
<1>5. X!Notes(seen[w1][e], thread[c1].view) \in [Persons -> Int]
  BY <1>1, ExamAssumption DEF X!Notes, ExamInv, ExamTypeOK
<1>6. seen' = [seen EXCEPT ![w1] = [seen[w1] EXCEPT ![e] = X!Notes(seen[w1][e], thread[c1].view)]]
  BY <1>1 DEF X!Observe, X!Set, X!Seen
<1>7. sighted' = [sighted EXCEPT ![e] = X!Notes(sighted[e], thread[c1].view)]
  BY DEF X!Observe
<1>. UNCHANGED <<tick, alerted, imposter, alerts, restarts>>
  BY DEF X!Observe, X!bounds
<1>8. ExamTypeOK'
  <2>1. seen' \in [Workers -> [Exams -> [Persons -> Int]]]
    BY <1>1, <1>5, <1>6, ExamAssumption DEF ExamInv, ExamTypeOK
  <2>2. sighted' \in [Exams -> [Persons -> Int]]
    <3>1. X!Notes(sighted[e], thread[c1].view) \in [Persons -> Int]
      BY <1>1 DEF X!Notes, ExamInv, ExamTypeOK
    <3>2. QED  BY <1>1, <1>7, <3>1 DEF ExamInv, ExamTypeOK
  <2>3. FrameIsDue(x)'
    BY <1>2, <1>3 DEF FrameIsDue
  <2>4. FrameTypeOK(thread[c1])' /\ FrameIsDue(thread[c1])'
    BY <1>3, <1>4, <2>3 DEF FrameIsDue
  <2>5. QED  BY <1>4, <2>1, <2>2, <2>4 DEF ExamInv, ExamTypeOK
<1>9. \A f, p : (Noted(f, p)' <=> Noted(f, p)) /\ LastImposter(f)' = LastImposter(f)
  BY <1>1, <1>3, <1>4 DEF Noted, LastImposter, X!At, X!Observe
<1>10. AbsencesAreTrue'
  <2>1. seen[w1] = sighted => seen'[w1] = sighted'
    BY <1>1, <1>6, <1>7, ExamAssumption DEF ExamInv, ExamTypeOK
  <2>2. QED  BY <2>1 DEF ExamInv, AbsencesAreTrue, X!Missing
<1>11. AbsencesAreCounted' /\ ImpostersAreCounted'
  BY <1>9 DEF ExamInv, AbsencesAreCounted, ImpostersAreCounted
<1>12. QED  BY <1>8, <1>10, <1>11 DEF ExamInv

LEMMA CheckPersonKeeps ==
    ASSUME ExamInv, NEW p \in Persons, X!CheckPerson(c1, p) PROVE ExamInv'
<1>1. /\ FrameTypeOK(thread[c1]) /\ thread[c1].step = "check" /\ X!W(c1) = w1
      /\ tick \in Int
  BY ExamAssumption DEF ExamInv, ExamTypeOK, X!CheckPerson, X!At, X!W
<1>2. PICK x : /\ thread' = [thread EXCEPT ![c1] = x]
               /\ x = [thread[c1] EXCEPT !.todo = @ \ {p},
                              !.person = IF X!IsMissing(c1, p) THEN p ELSE "none",
                              !.step = IF X!IsMissing(c1, p) THEN "log" ELSE "check"]
  BY DEF X!CheckPerson
<1>3. /\ DOMAIN x = DOMAIN thread[c1]
      /\ \A f \in {"exam", "view", "large", "at"} : x[f] = thread[c1][f]
      /\ x.person = IF X!IsMissing(c1, p) THEN p ELSE "none"
      /\ x.step = IF X!IsMissing(c1, p) THEN "log" ELSE "check"
  BY <1>1, <1>2 DEF FrameTypeOK
<1>4. x.exam = X!E(c1) /\ x.at = thread[c1].at
  BY <1>3 DEF X!E
<1>5. FrameTypeOK(x)
  BY <1>1, <1>3, <1>4 DEF FrameTypeOK, X!E
<1>6. FrameIsDue(x)
  BY <1>1, <1>3, <1>4 DEF FrameIsDue, X!IsMissing
<1>7. x.step \in {"log", "check"}
  BY <1>3
<1>8. QED  BY <1>1, <1>2, <1>5, <1>6, <1>7, FrameMoves DEF X!CheckPerson, X!At, X!dicts, X!history, X!bounds

LEMMA CheckImposterKeeps == ASSUME ExamInv, X!CheckImposter(c1) PROVE ExamInv'
<1>1. /\ FrameTypeOK(thread[c1]) /\ thread[c1].step = "check" /\ X!W(c1) = w1
      /\ tick \in Int
  BY ExamAssumption DEF ExamInv, ExamTypeOK, X!CheckImposter, X!At, X!W
<1>2. PICK x : /\ thread' = [thread EXCEPT ![c1] = x]
               /\ x = IF X!IsImposter(c1) THEN [thread[c1] EXCEPT !.step = "logimposter"] ELSE X!Idle
  BY DEF X!CheckImposter
<1>3. FrameTypeOK(x) /\ FrameIsDue(x) /\ x.step \in {"logimposter", "idle"}
  BY <1>1, <1>2, IdleFrame DEF FrameTypeOK, FrameIsDue, X!IsImposter, X!E
<1>4. QED  BY <1>1, <1>2, <1>3, FrameMoves DEF X!CheckImposter, X!At, X!dicts, X!history, X!bounds

\* A frame that starts, and one that is lost.
LEMMA EndsKeep ==
    ASSUME ExamInv,
           \/ \E view \in SUBSET Persons, large \in BOOLEAN : X!GetActiveExam(c1, view, large)
           \/ X!Fail(c1)
    PROVE  ExamInv'
<1>1. /\ tick \in Int /\ ~X!At(c1, "mark") /\ ~X!At(c1, "markimposter")
      /\ UNCHANGED <<tick, seen, alerted, imposter, alerts, sighted, restarts>>
  BY DEF ExamInv, ExamTypeOK, X!GetActiveExam, X!Fail, X!At, X!dicts, X!history, X!bounds
<1>2. PICK x : thread' = [thread EXCEPT ![c1] = x] /\ FrameTypeOK(x) /\ x.step \in {"observe", "idle"}
  <2>1. CASE \E view \in SUBSET Persons, large \in BOOLEAN : X!GetActiveExam(c1, view, large)
    <3>1. PICK view \in SUBSET Persons, large \in BOOLEAN, e \in Exams :
            thread' = [thread EXCEPT ![c1] = [X!Idle EXCEPT !.step = "observe", !.exam = e,
                                                          !.view = view, !.large = large]]
      BY <2>1 DEF X!GetActiveExam
    <3>2. PICK x : x = [X!Idle EXCEPT !.step = "observe", !.exam = e, !.view = view, !.large = large]
      OBVIOUS
    <3>3. FrameTypeOK(x) /\ x.step = "observe"
      BY <3>2 DEF FrameTypeOK, X!Idle
    <3>4. QED  BY <3>1, <3>2, <3>3
  <2>2. CASE X!Fail(c1)
    BY <2>2, IdleFrame DEF X!Fail
  <2>3. QED  BY <2>1, <2>2
<1>3. FrameIsDue(x)
  BY <1>2 DEF FrameIsDue
<1>4. QED  BY <1>1, <1>2, <1>3, FrameMoves

\* An alert more, of the exam the frame is about.
LEMMA AlertAppended ==
    ASSUME ExamInv, NEW a \in Alert, NEW step \in {"mark", "markimposter"},
           FrameTypeOK([thread[c1] EXCEPT !.step = step]),
           alerts' = Append(alerts, a), thread' = [thread EXCEPT ![c1].step = step],
           tick' \in Int, UNCHANGED <<seen, alerted, imposter, sighted, restarts>>
    PROVE  /\ ExamTypeOK'
           /\ thread'[c1] = [thread[c1] EXCEPT !.step = step]
           /\ \A K : Cardinality(Those(alerts, K)') =
                        Cardinality(Those(alerts, K)) + IF a \in K THEN 1 ELSE 0
           /\ \A K : Cardinality(Those(alerts, K)) \in Nat
<1>1. DOMAIN thread' = Cameras /\ thread'[c1] = [thread[c1] EXCEPT !.step = step]
  BY ExamAssumption DEF ExamInv, ExamTypeOK
<1>2. alerts \in Seq(Alert) /\ alerts' \in Seq(Alert)
  BY DEF ExamInv, ExamTypeOK
<1>3. FrameTypeOK(thread'[c1])
  BY <1>1
<1>4. FrameIsDue(thread[c1])'
  <2>1. thread'[c1].step = step
    BY <1>1 DEF ExamInv, ExamTypeOK, FrameTypeOK
  <2>2. QED  BY <2>1 DEF FrameIsDue
<1>5. ExamTypeOK'
  BY <1>1, <1>2, <1>3, <1>4 DEF ExamInv, ExamTypeOK, FrameTypeOK
<1>6. \A K : Those(alerts, K)' = Those(Append(alerts, a), K)
  BY DEF Those
<1>7. QED  BY <1>1, <1>2, <1>5, <1>6, CountAppend, ThoseAreFinite

LEMMA LogMissingKeeps == ASSUME ExamInv, X!LogMissing(c1) PROVE ExamInv'
<1>. DEFINE e == X!E(c1)
            p == thread[c1].person
            a == [kind |-> "missing", exam |-> e, person |-> p, at |-> thread[c1].at,
                  last |-> sighted[e][p]]
<1>1. /\ FrameTypeOK(thread[c1]) /\ FrameIsDue(thread[c1]) /\ thread[c1].step = "log"
      /\ e \in Exams /\ p \in Persons /\ thread[c1].at \in Int
      /\ restarts \in Nat /\ tick \in Int
      /\ UNCHANGED <<tick, seen, alerted, imposter, sighted, restarts>>
  BY DEF ExamInv, ExamTypeOK, FrameTypeOK, X!LogMissing, X!At, X!E, X!dicts, X!history, X!bounds
<1>2. a \in Alert /\ alerts' = Append(alerts, a)
  <2>1. sighted[e][p] \in Int
    BY <1>1 DEF ExamInv, ExamTypeOK
  <2>2. QED  BY <1>1, <2>1 DEF Alert, X!LogMissing, X!Log
<1>3. thread' = [thread EXCEPT ![c1].step = "mark"]
      /\ FrameTypeOK([thread[c1] EXCEPT !.step = "mark"])
  BY <1>1 DEF X!LogMissing, FrameTypeOK
<1>4. /\ ExamTypeOK' /\ thread'[c1] = [thread[c1] EXCEPT !.step = "mark"]
      /\ \A K : Cardinality(Those(alerts, K)') =
                        Cardinality(Those(alerts, K)) + IF a \in K THEN 1 ELSE 0
      /\ \A K : Cardinality(Those(alerts, K)) \in Nat
  <2>. HIDE DEF a
  <2>1. QED  BY <1>1, <1>2, <1>3, AlertAppended
<1>5. thread'[c1].step = "mark" /\ thread'[c1].exam = e /\ thread'[c1].person = p
  BY <1>1, <1>4 DEF FrameTypeOK, X!E
<1>6. AbsencesAreTrue'
  <2>. SUFFICES ASSUME restarts = 0 PROVE AbsencesAreTrue'
    BY <1>1 DEF AbsencesAreTrue
  <2>1. a.last < a.at - Grace
    BY <1>1 DEF ExamInv, AbsencesAreTrue, FrameIsDue, X!E
  <2>2. /\ Len(alerts) \in Nat /\ DOMAIN alerts' = DOMAIN alerts \cup {Len(alerts) + 1}
        /\ alerts'[Len(alerts) + 1] = a /\ \A i \in DOMAIN alerts : alerts'[i] = alerts[i]
    <3>1. \A b \in Alert, s \in Seq(Alert) :
            /\ Len(s) \in Nat /\ DOMAIN Append(s, b) = DOMAIN s \cup {Len(s) + 1}
            /\ Append(s, b)[Len(s) + 1] = b /\ \A i \in DOMAIN s : Append(s, b)[i] = s[i]
      OBVIOUS
    <3>. HIDE DEF a
    <3>2. QED  BY <1>2, <3>1 DEF ExamInv, ExamTypeOK
  <2>. HIDE DEF a
  <2>3. QED  BY <1>1, <2>1, <2>2 DEF ExamInv, AbsencesAreTrue, X!Missing
<1>7. AbsencesAreCounted'
  <2>. SUFFICES ASSUME NEW f \in Exams, NEW q \in Persons
                PROVE  Cardinality(Those(alerts, AbsencesOf(f, q))')
                          <= restarts + IF Noted(f, q)' THEN 1 ELSE 0
    BY <1>1 DEF AbsencesAreCounted
  <2>1. Noted(f, q)' <=> Noted(f, q) \/ (f = e /\ q = p)
    BY <1>1, <1>5 DEF Noted, X!At, X!E
  <2>2. ~Noted(e, p)
    BY <1>1 DEF Noted, X!At, X!E, FrameIsDue
  <2>3. a \in AbsencesOf(f, q) <=> f = e /\ q = p
    BY <1>2 DEF AbsencesOf
  <2>4. Cardinality(Those(alerts, AbsencesOf(f, q))) <= restarts + IF Noted(f, q) THEN 1 ELSE 0
    BY DEF ExamInv, AbsencesAreCounted
  <2>. HIDE DEF a
  <2>5. QED  BY <1>1, <1>4, <2>1, <2>2, <2>3, <2>4
<1>8. ImpostersAreCounted'
  <2>. SUFFICES ASSUME NEW f \in Exams, NEW T \in Int
                PROVE  /\ Cardinality(Those(alerts, ImpostersFrom(f, T))') <= restarts + 1
                       /\ T > LastImposter(f)' =>
                             Cardinality(Those(alerts, ImpostersFrom(f, T))') <= restarts
    BY <1>1 DEF ImpostersAreCounted
  <2>1. a \notin ImpostersFrom(f, T)
    BY DEF ImpostersFrom
  <2>2. LastImposter(f)' = LastImposter(f)
    BY <1>1, <1>5 DEF LastImposter, X!At
  <2>. HIDE DEF a
  <2>3. Cardinality(Those(alerts, ImpostersFrom(f, T))') = Cardinality(Those(alerts, ImpostersFrom(f, T)))
    BY <1>4, <2>1
  <2>4. QED  BY <2>2, <2>3 DEF ExamInv, ImpostersAreCounted
<1>9. QED  BY <1>4, <1>6, <1>7, <1>8 DEF ExamInv

LEMMA LogImposterKeeps == ASSUME ExamInv, X!LogImposter(c1) PROVE ExamInv'
<1>. DEFINE e == X!E(c1)
            t == thread[c1].at
            a == [kind |-> "imposter", exam |-> e, person |-> "unknown", at |-> t, last |-> 0]
<1>1. /\ FrameTypeOK(thread[c1]) /\ FrameIsDue(thread[c1]) /\ thread[c1].step = "logimposter"
      /\ e \in Exams /\ t \in Int /\ restarts \in Nat /\ tick \in Int
      /\ UNCHANGED <<tick, seen, alerted, imposter, sighted, restarts>>
  BY DEF ExamInv, ExamTypeOK, FrameTypeOK, X!LogImposter, X!At, X!E, X!dicts, X!history, X!bounds
<1>2. a \in Alert /\ alerts' = Append(alerts, a)
  BY <1>1 DEF Alert, X!LogImposter, X!Log
<1>3. thread' = [thread EXCEPT ![c1].step = "markimposter"]
      /\ FrameTypeOK([thread[c1] EXCEPT !.step = "markimposter"])
  BY <1>1 DEF X!LogImposter, FrameTypeOK
<1>4. /\ ExamTypeOK' /\ thread'[c1] = [thread[c1] EXCEPT !.step = "markimposter"]
      /\ \A K : Cardinality(Those(alerts, K)') =
                        Cardinality(Those(alerts, K)) + IF a \in K THEN 1 ELSE 0
      /\ \A K : Cardinality(Those(alerts, K)) \in Nat
  <2>. HIDE DEF a
  <2>1. QED  BY <1>1, <1>2, <1>3, AlertAppended
<1>5. thread'[c1].step = "markimposter" /\ thread'[c1].exam = e /\ thread'[c1].at = t
  BY <1>1, <1>4 DEF FrameTypeOK, X!E
<1>6. AbsencesAreTrue'
  <2>1. \A b \in Alert, s \in Seq(Alert) :
            /\ Len(s) \in Nat /\ DOMAIN Append(s, b) = DOMAIN s \cup {Len(s) + 1}
            /\ Append(s, b)[Len(s) + 1] = b /\ \A i \in DOMAIN s : Append(s, b)[i] = s[i]
    OBVIOUS
  <2>2. a.kind # "missing"
    OBVIOUS
  <2>. HIDE DEF a
  <2>3. X!Missing' = X!Missing /\ \A i \in X!Missing : alerts'[i] = alerts[i]
    BY <1>2, <2>1, <2>2 DEF ExamInv, ExamTypeOK, X!Missing
  <2>4. QED  BY <1>1, <2>3 DEF ExamInv, AbsencesAreTrue
<1>7. AbsencesAreCounted'
  <2>. SUFFICES ASSUME NEW f \in Exams, NEW q \in Persons
                PROVE  Cardinality(Those(alerts, AbsencesOf(f, q))')
                          <= restarts + IF Noted(f, q)' THEN 1 ELSE 0
    BY <1>1 DEF AbsencesAreCounted
  <2>1. Noted(f, q)' <=> Noted(f, q)
    BY <1>1, <1>5 DEF Noted, X!At, X!E
  <2>2. a \notin AbsencesOf(f, q)
    BY DEF AbsencesOf
  <2>. HIDE DEF a
  <2>3. Cardinality(Those(alerts, AbsencesOf(f, q))') = Cardinality(Those(alerts, AbsencesOf(f, q)))
    BY <1>4, <2>2
  <2>4. QED  BY <2>1, <2>3 DEF ExamInv, AbsencesAreCounted
<1>8. ImpostersAreCounted'
  <2>. SUFFICES ASSUME NEW f \in Exams, NEW T \in Int
                PROVE  /\ Cardinality(Those(alerts, ImpostersFrom(f, T))') <= restarts + 1
                       /\ T > LastImposter(f)' =>
                             Cardinality(Those(alerts, ImpostersFrom(f, T))') <= restarts
    BY <1>1 DEF ImpostersAreCounted
  <2>1. CASE f = e /\ t \in T..(T + ImposterGap)
    <3>1. T > LastImposter(f) /\ ~(T > LastImposter(f)')
      <4>1. LastImposter(f) = imposter[w1][f] /\ LastImposter(f)' = t
        BY <1>1, <1>5, <2>1 DEF LastImposter, X!At, X!E
      <4>2. t - imposter[w1][f] > ImposterGap /\ imposter[w1][f] \in Int
        BY <1>1, <2>1, ExamAssumption DEF FrameIsDue, X!E, ExamInv, ExamTypeOK
      <4>3. QED  BY <1>1, <2>1, <4>1, <4>2, ExamAssumption
    <3>2. Cardinality(Those(alerts, ImpostersFrom(f, T))) <= restarts
      BY <3>1 DEF ExamInv, ImpostersAreCounted
    <3>. HIDE DEF a
    <3>3. QED  BY <1>1, <1>4, <3>1, <3>2
  <2>2. CASE ~(f = e /\ t \in T..(T + ImposterGap))
    <3>1. a \notin ImpostersFrom(f, T)
      BY <2>2 DEF ImpostersFrom
    <3>2. T > LastImposter(f)' => T > LastImposter(f)
      <4>1. CASE f = e
        <5>1. LastImposter(f) = imposter[w1][f] /\ LastImposter(f)' = t
          BY <1>1, <1>5, <4>1 DEF LastImposter, X!At, X!E
        <5>2. t - imposter[w1][f] > ImposterGap /\ imposter[w1][f] \in Int
          BY <1>1, <4>1, ExamAssumption DEF FrameIsDue, X!E, ExamInv, ExamTypeOK
        <5>3. QED  BY <1>1, <5>1, <5>2, ExamAssumption
      <4>2. CASE f # e
        BY <1>1, <1>5, <4>2 DEF LastImposter, X!At, X!E
      <4>3. QED  BY <4>1, <4>2
    <3>. HIDE DEF a
    <3>3. Cardinality(Those(alerts, ImpostersFrom(f, T))') = Cardinality(Those(alerts, ImpostersFrom(f, T)))
      BY <1>4, <3>1
    <3>4. QED  BY <3>2, <3>3 DEF ExamInv, ImpostersAreCounted
  <2>3. QED  BY <2>1, <2>2
<1>9. QED  BY <1>4, <1>6, <1>7, <1>8 DEF ExamInv

LEMMA MarksKeep ==
    ASSUME ExamInv, X!MarkAlerted(c1) \/ X!MarkImposter(c1) PROVE ExamInv'
<1>. DEFINE e == X!E(c1)
<1>1. /\ FrameTypeOK(thread[c1]) /\ e \in Exams /\ X!W(c1) = w1 /\ w1 \in Workers
      /\ UNCHANGED <<tick, seen, alerts, sighted, restarts>>
  BY ExamAssumption DEF ExamInv, ExamTypeOK, FrameTypeOK, X!MarkAlerted, X!MarkImposter, X!At,
     X!E, X!W, X!history, X!bounds
<1>2. CASE X!MarkAlerted(c1)
  <2>1. /\ thread[c1].step = "mark" /\ thread[c1].person \in Persons
        /\ thread' = [thread EXCEPT ![c1].step = "check"] /\ UNCHANGED imposter
        /\ alerted' = [alerted EXCEPT ![w1] =
                          [alerted[w1] EXCEPT ![e] = alerted[w1][e] \cup {thread[c1].person}]]
    BY <1>1, <1>2 DEF X!MarkAlerted, X!At, X!Set, FrameTypeOK
  <2>2. DOMAIN thread' = Cameras /\ thread'[c1] = [thread[c1] EXCEPT !.step = "check"]
    BY <2>1, ExamAssumption DEF ExamInv, ExamTypeOK
  <2>3. FrameTypeOK(thread[c1])' /\ FrameIsDue(thread[c1])' /\ thread'[c1].step = "check"
    <3>1. FrameTypeOK([thread[c1] EXCEPT !.step = "check"])
      BY <1>1, <2>1 DEF FrameTypeOK
    <3>2. thread'[c1].step = "check"
      BY <1>1, <2>2 DEF FrameTypeOK
    <3>3. QED  BY <2>2, <3>1, <3>2 DEF FrameIsDue
  <2>4. alerted' \in [Workers -> [Exams -> SUBSET Persons]]
        /\ \A f \in Exams : alerted'[w1][f] = IF f = e THEN alerted[w1][e] \cup {thread[c1].person}
                                              ELSE alerted[w1][f]
    BY <1>1, <2>1 DEF ExamInv, ExamTypeOK
  <2>5. ExamTypeOK'
    BY <1>1, <2>1, <2>2, <2>3, <2>4 DEF ExamInv, ExamTypeOK
  <2>6. \A f \in Exams, p \in Persons :
            (Noted(f, p)' <=> Noted(f, p)) /\ LastImposter(f)' = LastImposter(f)
    BY <1>1, <2>1, <2>3, <2>4 DEF Noted, LastImposter, X!At, X!E
  <2>7. AbsencesAreTrue'
    BY <1>1 DEF ExamInv, AbsencesAreTrue, X!Missing
  <2>8. AbsencesAreCounted'
    BY <1>1, <2>6 DEF ExamInv, AbsencesAreCounted
  <2>9. \A f \in Exams : LastImposter(f)' = LastImposter(f)
    BY <2>1, <2>3 DEF LastImposter, X!At
  <2>10. ImpostersAreCounted'
    BY <1>1, <2>9 DEF ExamInv, ImpostersAreCounted
  <2>11. QED  BY <2>5, <2>7, <2>8, <2>10 DEF ExamInv
<1>3. CASE X!MarkImposter(c1)
  <2>1. /\ thread[c1].step = "markimposter" /\ thread[c1].at \in Int
        /\ thread' = [thread EXCEPT ![c1] = X!Idle] /\ UNCHANGED alerted
        /\ imposter' = [imposter EXCEPT ![w1] = [imposter[w1] EXCEPT ![e] = thread[c1].at]]
    BY <1>1, <1>3 DEF X!MarkImposter, X!At, X!Set, FrameTypeOK
  <2>2. DOMAIN thread' = Cameras /\ thread'[c1] = X!Idle
    BY <2>1, ExamAssumption DEF ExamInv, ExamTypeOK
  <2>3. FrameTypeOK(thread[c1])' /\ FrameIsDue(thread[c1])' /\ thread'[c1].step = "idle"
    BY <2>2, IdleFrame DEF FrameIsDue
  <2>4. imposter' \in [Workers -> [Exams -> Int]]
        /\ \A f \in Exams : imposter'[w1][f] = IF f = e THEN thread[c1].at ELSE imposter[w1][f]
    BY <1>1, <2>1 DEF ExamInv, ExamTypeOK
  <2>5. ExamTypeOK'
    BY <1>1, <2>1, <2>2, <2>3, <2>4 DEF ExamInv, ExamTypeOK
  <2>6. \A f \in Exams, p \in Persons : Noted(f, p)' <=> Noted(f, p)
    BY <2>1, <2>3 DEF Noted, X!At
  <2>7. \A f \in Exams : LastImposter(f)' = LastImposter(f)
    BY <2>1, <2>3, <2>4 DEF LastImposter, X!At, X!E
  <2>8. AbsencesAreTrue' /\ AbsencesAreCounted' /\ ImpostersAreCounted'
    BY <1>1, <2>6, <2>7 DEF ExamInv, AbsencesAreTrue, AbsencesAreCounted, ImpostersAreCounted, X!Missing
  <2>9. QED  BY <2>5, <2>8 DEF ExamInv
<1>4. QED  BY <1>2, <1>3

\* The new process may alert about everybody once more.
LEMMA RestartKeeps == ASSUME ExamInv, X!Restart(w1) PROVE ExamInv'
<1>1. /\ restarts' = restarts + 1 /\ restarts \in Nat
      /\ UNCHANGED <<tick, alerts, sighted>>
      /\ seen' = [seen EXCEPT ![w1] = X!Empty([p \in Persons |-> 0])]
      /\ alerted' = [alerted EXCEPT ![w1] = X!Empty({})]
      /\ imposter' = [imposter EXCEPT ![w1] = X!Empty(0)]
      /\ DOMAIN thread' = Cameras /\ thread'[c1] = X!Idle
  BY ExamAssumption DEF X!Restart, X!history, ExamInv, ExamTypeOK, X!W
<1>2. ExamTypeOK'
  <2>1. FrameTypeOK(thread[c1])' /\ FrameIsDue(thread[c1])'
    BY <1>1, IdleFrame DEF FrameIsDue
  <2>2. seen' \in [Workers -> [Exams -> [Persons -> Int]]]
    <3>1. X!Empty([p \in Persons |-> 0]) \in [Exams -> [Persons -> Int]]
      BY DEF X!Empty
    <3>2. QED  BY <1>1, <3>1 DEF ExamInv, ExamTypeOK
  <2>3. alerted' \in [Workers -> [Exams -> SUBSET Persons]]
    BY <1>1 DEF ExamInv, ExamTypeOK, X!Empty
  <2>4. imposter' \in [Workers -> [Exams -> Int]]
    <3>1. X!Empty(0) \in [Exams -> Int]
      BY DEF X!Empty
    <3>2. QED  BY <1>1, <3>1 DEF ExamInv, ExamTypeOK
  <2>5. restarts' \in Nat
    BY <1>1
  <2>6. QED  BY <1>1, <2>1, <2>2, <2>3, <2>4, <2>5 DEF ExamInv, ExamTypeOK
<1>3. AbsencesAreTrue'
  BY <1>1 DEF AbsencesAreTrue
<1>4. \A K : Cardinality(Those(alerts, K)') = Cardinality(Those(alerts, K))
             /\ Cardinality(Those(alerts, K)) \in Nat
  BY <1>1, ThoseAreFinite DEF ExamInv, ExamTypeOK
<1>5. AbsencesAreCounted'
  <2>. SUFFICES ASSUME NEW f \in Exams, NEW q \in Persons
                PROVE  Cardinality(Those(alerts, AbsencesOf(f, q))) <= restarts + 1
    BY <1>1, <1>4 DEF AbsencesAreCounted
  <2>1. Cardinality(Those(alerts, AbsencesOf(f, q))) <= restarts + IF Noted(f, q) THEN 1 ELSE 0
    BY DEF ExamInv, AbsencesAreCounted
  <2>2. QED  BY <1>1, <1>4, <2>1
<1>6. ImpostersAreCounted'
  <2>. SUFFICES ASSUME NEW f \in Exams, NEW T \in Int
                PROVE  Cardinality(Those(alerts, ImpostersFrom(f, T))) <= restarts + 1
    BY <1>1, <1>4 DEF ImpostersAreCounted
  <2>1. QED  BY DEF ExamInv, ImpostersAreCounted
<1>7. QED  BY <1>2, <1>3, <1>5, <1>6 DEF ExamInv

LEMMA NextExamInv == ASSUME ExamInv, [X!Next]_(X!vars) PROVE ExamInv'
<1>1. CASE UNCHANGED X!vars
  <2>1. tick \in Int
    BY DEF ExamInv, ExamTypeOK
  <2>2. QED  BY <1>1, <2>1, ClockKeeps DEF X!vars, X!dicts, X!history, X!bounds
<1>2. CASE X!Tick \/ \E e \in Exams : X!EndExam(e)
  <2>1. tick' \in Int /\ UNCHANGED <<seen, alerted, imposter, thread, alerts, sighted, restarts>>
    <3>1. tick \in Int
      BY DEF ExamInv, ExamTypeOK
    <3>2. CASE X!Tick
      BY <3>1, <3>2 DEF X!Tick, X!dicts, X!bounds
    <3>3. CASE \E e \in Exams : X!EndExam(e)
      BY <3>1, <3>3 DEF X!EndExam, X!dicts, X!history, X!bounds
    <3>4. QED  BY <1>2, <3>2, <3>3
  <2>2. QED  BY <2>1, ClockKeeps
<1>3. CASE X!Frame(c1)
  BY <1>3, ObserveKeeps, CheckPersonKeeps, CheckImposterKeeps, EndsKeep, LogMissingKeeps,
     LogImposterKeeps, MarksKeep DEF X!Frame
<1>4. CASE X!Restart(w1)
  BY <1>4, RestartKeeps
<1>5. QED  BY <1>1, <1>2, <1>3, <1>4, ExamAssumption DEF X!Next

\* The instance counts as this module does.
LEMMA ExamsCount == \A S : X!Cardinality(S) = Cardinality(S)
BY DEF X!Cardinality, Cardinality

LEMMA AlertsHold == ASSUME ExamInv PROVE X!AlertsAreTrueOnce
<1>1. Cardinality(Workers) = 1 /\ restarts \in Nat /\ alerts \in Seq(Alert)
  BY FS_Singleton, ExamAssumption DEF ExamInv, ExamTypeOK
<1>2. \A K : Cardinality(Those(alerts, K)) \in Nat
  BY <1>1, ThoseAreFinite
<1>3. \A i \in DOMAIN alerts : alerts[i] \in Alert
  BY <1>1
<1>4. restarts = 0 => \A i \in X!Missing : alerts[i].last < alerts[i].at - Grace
  BY DEF ExamInv, AbsencesAreTrue
<1>5. ASSUME NEW e \in Exams, NEW p \in Persons
      PROVE  Cardinality({i \in X!Missing : alerts[i].exam = e /\ alerts[i].person = p})
                <= Cardinality(Workers) + restarts
  <2>1. {i \in X!Missing : alerts[i].exam = e /\ alerts[i].person = p} = Those(alerts, AbsencesOf(e, p))
    BY <1>3 DEF X!Missing, Those, AbsencesOf
  <2>2. Cardinality(Those(alerts, AbsencesOf(e, p))) <= restarts + IF Noted(e, p) THEN 1 ELSE 0
    BY DEF ExamInv, AbsencesAreCounted
  <2>3. \A m, n \in Nat, b \in BOOLEAN : m <= n + (IF b THEN 1 ELSE 0) => m <= 1 + n
    OBVIOUS
  <2>4. Noted(e, p) \in BOOLEAN
    BY DEF Noted
  <2>5. Cardinality(Those(alerts, AbsencesOf(e, p))) <= 1 + restarts
    BY <1>1, <1>2, <2>2, <2>3, <2>4
  <2>6. QED  BY <1>1, <2>1, <2>5
<1>6. ASSUME NEW i \in X!Imposters
      PROVE  Cardinality({j \in X!Imposters :
                             /\ alerts[j].exam = alerts[i].exam
                             /\ alerts[j].at \in (alerts[i].at - ImposterGap)..alerts[i].at})
                <= Cardinality(Workers) + restarts
  <2>1. alerts[i].exam \in Exams /\ alerts[i].at \in Int
    BY <1>3 DEF X!Imposters, Alert
  <2>. DEFINE T == alerts[i].at - ImposterGap
  <2>2. T \in Int /\ T + ImposterGap = alerts[i].at
    BY <2>1, ExamAssumption
  <2>3. {j \in X!Imposters :
            /\ alerts[j].exam = alerts[i].exam
            /\ alerts[j].at \in (alerts[i].at - ImposterGap)..alerts[i].at}
          = Those(alerts, ImpostersFrom(alerts[i].exam, T))
    BY <1>3, <2>2 DEF X!Imposters, Those, ImpostersFrom
  <2>. HIDE DEF T
  <2>4. Cardinality(Those(alerts, ImpostersFrom(alerts[i].exam, T))) <= restarts + 1
    BY <2>1, <2>2 DEF ExamInv, ImpostersAreCounted
  <2>5. Cardinality(Those(alerts, ImpostersFrom(alerts[i].exam, T))) <= 1 + restarts
    BY <1>1, <1>2, <2>4
  <2>6. QED  BY <1>1, <2>3, <2>5
<1>7. QED  BY <1>4, <1>5, <1>6, ExamsCount DEF X!AlertsAreTrueOnce

\* However frames, checks, failed writes and restarts fall, one camera alerts about
\* an absence only when there is one and about a person once per exam and process
\* there was, and about strangers once per interval and process
\* (exam_mode.observe).
THEOREM AlertsOnce == MCSpec => []AlertsAreTrueOnce
<1>1. MCInit => ExamInv
  BY InitExamInv DEF MCInit
<1>2. ExamInv /\ [MCNext]_<<part, vars, channels, positions, exam>> => ExamInv'
  <2>1. [MCNext]_<<part, vars, channels, positions, exam>> => [X!Next]_(X!vars)
    BY DEF MCNext, channels, positions, exam, vars, X!vars, X!dicts, X!history, X!bounds
  <2>2. QED  BY <2>1, NextExamInv
<1>3. ExamInv => AlertsAreTrueOnce
  BY AlertsHold DEF AlertsAreTrueOnce
<1>4. QED  BY <1>1, <1>2, <1>3, PTL DEF MCSpec

-----------------------------------------------------------------------------
(* Absences, of one camera.  While no tick goes by without a frame, the    *)
(* next check of an exam is due by NextDue.  What a person is found by is  *)
(* a check that came to its end: up to some moment, not longer before      *)
(* NextDue than one interval and one more for each fault, everybody is     *)
(* accounted for (InGoodTime).                                             *)

Accounted(e, p, c) == c <= Hours[e][1] \/ X!Reported(e, p) \/ sighted[e][p] + Grace >= c

NextFrame(e) == IF framed[e] = tick THEN tick + 1 ELSE tick
NextDue(e) ==
    LET after == lastCheck[w1][e] + CheckEvery
    IN  IF after > NextFrame(e) THEN after ELSE NextFrame(e)
Slack == CheckEvery * (1 + fails + restarts)
InGoodTime(e, due) ==
    \E c \in Int : c + Slack >= due /\ \A p \in Persons : Accounted(e, p, c)

InHours(e) == Hours[e][1] <= tick /\ tick <= Hours[e][2]
Checking(x) == x.step \in {"check", "log", "mark", "logimposter", "markimposter"}

ClockInv ==
    /\ tick >= X!Epoch /\ missed \in BOOLEAN /\ fails \in Nat
    /\ lastCheck \in [Workers -> [Exams -> Int]] /\ framed \in [Exams -> Int]
    /\ \A e \in Exams : lastCheck[w1][e] <= tick /\ framed[e] <= tick
    /\ \A e \in Exams, p \in Persons :
          /\ seen[w1][e][p] <= sighted[e][p] /\ 0 <= sighted[e][p] /\ sighted[e][p] <= tick
          /\ p \in alerted[w1][e] => X!Reported(e, p)

\* Of a check in progress: who is not on the list any more is accounted for.
CheckInv(x) ==
    /\ x.step = "mark" => X!Reported(x.exam, x.person)
    /\ ~missed /\ x.step # "idle" => InHours(x.exam)
    /\ ~missed /\ Checking(x) =>
          /\ x.at = tick /\ lastCheck[w1][x.exam] = tick /\ framed[x.exam] = tick
          /\ \A p \in Persons :
                p \in x.todo \/ (x.step = "log" /\ x.person = p) \/ Accounted(x.exam, p, tick)
          /\ x.step \in {"logimposter", "markimposter"} => x.todo = {}

Due(e) == IF Checking(thread[c1]) /\ thread[c1].exam = e THEN tick ELSE NextDue(e)
PromptInv ==
    ~missed => \A e \in Exams :
       /\ framed[e] = tick => InHours(e)
       /\ X!Active(e) => InGoodTime(e, Due(e))

AbsenceInv == ClockInv /\ CheckInv(thread[c1]) /\ PromptInv

-----------------------------------------------------------------------------
LEMMA AppendedAlert ==
    ASSUME NEW s \in Seq(Alert), NEW a \in Alert
    PROVE  /\ Len(s) \in Nat /\ DOMAIN Append(s, a) = DOMAIN s \cup {Len(s) + 1}
           /\ Append(s, a)[Len(s) + 1] = a /\ \A i \in DOMAIN s : Append(s, a)[i] = s[i]
OBVIOUS

\* Alerts are only added.
LEMMA ReportedStays ==
    ASSUME ExamTypeOK, NEW a \in Alert, alerts' = Append(alerts, a)
    PROVE  /\ \A e, p : X!Reported(e, p) => X!Reported(e, p)'
           /\ a.kind = "missing" => X!Reported(a.exam, a.person)'
<1>1. /\ Len(alerts) \in Nat /\ DOMAIN alerts' = DOMAIN alerts \cup {Len(alerts) + 1}
      /\ alerts'[Len(alerts) + 1] = a /\ \A i \in DOMAIN alerts : alerts'[i] = alerts[i]
  BY AppendedAlert DEF ExamTypeOK
<1>2. QED  BY <1>1 DEF X!Reported, X!Missing

LEMMA SlackGrows ==
    ASSUME NEW n \in Nat, NEW f \in Nat
    PROVE  /\ n * (1 + f) \in Nat /\ n * (1 + f) >= n
           /\ n * (1 + (f + 1)) = n * (1 + f) + n
<1>1. n * (1 + f) = n + n * f /\ n * f \in Nat /\ n * f >= 0
  OBVIOUS
<1>2. n * (1 + (f + 1)) = n * (1 + f) + n
  OBVIOUS
<1>3. QED  BY <1>1, <1>2

LEMMA AbsenceTypes ==
    ASSUME ExamInv, ClockInv
    PROVE  /\ tick \in Int /\ CheckEvery \in Nat /\ CheckEvery >= 1 /\ Grace \in Nat
           /\ tick > CheckEvery /\ tick >= 1
           /\ restarts \in Nat /\ fails \in Nat /\ Slack \in Nat /\ Slack >= CheckEvery
           /\ \A e \in Exams : /\ lastCheck[w1][e] \in Int /\ framed[e] \in Int
                               /\ Hours[e][1] \in Int /\ Hours[e][2] \in Int
                               /\ NextDue(e) \in Int /\ NextDue(e) >= tick
                               /\ NextDue(e) >= lastCheck[w1][e] + CheckEvery
                               /\ framed[e] = tick => NextDue(e) >= tick + 1
           /\ \A e \in Exams, p \in Persons : sighted[e][p] \in Int /\ seen[w1][e][p] \in Int
           /\ DOMAIN thread = Cameras /\ FrameTypeOK(thread[c1])
<1>1. /\ tick \in Int /\ restarts \in Nat /\ fails \in Nat
      /\ CheckEvery \in Nat /\ CheckEvery >= 1 /\ Grace \in Nat /\ ImposterGap \in Nat
      /\ DOMAIN thread = Cameras /\ FrameTypeOK(thread[c1])
  BY ExamAssumption, HoursAssumption DEF ExamInv, ExamTypeOK, ClockInv
<1>2. tick > CheckEvery /\ tick >= 1
  BY <1>1 DEF ClockInv, X!Epoch
<1>3. Slack \in Nat /\ Slack >= CheckEvery
  <2>1. fails + restarts \in Nat
    BY <1>1
  <2>2. CheckEvery * (1 + fails + restarts) = CheckEvery * (1 + (fails + restarts))
    BY <1>1
  <2>3. QED  BY <1>1, <2>1, <2>2, SlackGrows DEF Slack
<1>4. \A e \in Exams : /\ lastCheck[w1][e] \in Int /\ framed[e] \in Int
                       /\ Hours[e][1] \in Int /\ Hours[e][2] \in Int
  BY ExamAssumption, HoursAssumption DEF ClockInv
<1>5. \A e \in Exams : /\ NextDue(e) \in Int /\ NextDue(e) >= tick
                       /\ NextDue(e) >= lastCheck[w1][e] + CheckEvery
                       /\ framed[e] = tick => NextDue(e) >= tick + 1
  BY <1>1, <1>4 DEF NextDue, NextFrame
<1>6. \A e \in Exams, p \in Persons : sighted[e][p] \in Int /\ seen[w1][e][p] \in Int
  BY ExamAssumption DEF ExamInv, ExamTypeOK
<1>7. QED  BY <1>1, <1>2, <1>3, <1>4, <1>5, <1>6

\* Who is accounted for stays so.
LEMMA AccountedStays ==
    ASSUME ExamInv, ClockInv, ExamTypeOK', NEW e \in Exams, NEW p \in Persons, NEW c \in Int,
           Accounted(e, p, c), X!Reported(e, p) => X!Reported(e, p)', sighted[e][p] <= sighted'[e][p]
    PROVE  Accounted(e, p, c)'
<1>1. sighted[e][p] \in Int /\ sighted'[e][p] \in Int /\ Grace \in Int
  BY AbsenceTypes DEF ExamTypeOK
<1>2. QED  BY <1>1 DEF Accounted

\* Exams do not overlap.
LEMMA OneExam ==
    ASSUME ExamInv, ClockInv, NEW e \in Exams, NEW f \in Exams, InHours(e), InHours(f) PROVE e = f
BY AbsenceTypes, HoursAssumption DEF InHours

LEMMA InitAbsenceInv == X!Init => AbsenceInv
<1>. SUFFICES ASSUME X!Init PROVE AbsenceInv
  OBVIOUS
<1>1. ExamInv
  BY InitExamInv
<1>2. /\ tick = X!Epoch /\ missed = FALSE /\ fails = 0 /\ thread[c1] = X!Idle /\ w1 \in Workers
      /\ \A e \in Exams : /\ lastCheck[w1][e] = 0 /\ framed[e] = 0
                          /\ \A p \in Persons : seen[w1][e][p] = 0 /\ sighted[e][p] = 0
                          /\ alerted[w1][e] = {}
  BY ExamAssumption DEF X!Init, X!Empty
<1>3. /\ CheckEvery \in Nat /\ X!Epoch \in Int /\ X!Epoch > CheckEvery /\ X!Epoch > 0
  BY ExamAssumption DEF X!Epoch
<1>4. lastCheck \in [Workers -> [Exams -> Int]] /\ framed \in [Exams -> Int]
  BY DEF X!Init, X!Empty
<1>5. ClockInv
  <2>1. \A e \in Exams : lastCheck[w1][e] <= tick /\ framed[e] <= tick
    BY <1>2, <1>3
  <2>2. \A e \in Exams, p \in Persons :
          /\ seen[w1][e][p] <= sighted[e][p] /\ 0 <= sighted[e][p] /\ sighted[e][p] <= tick
          /\ p \notin alerted[w1][e]
    <3>. SUFFICES ASSUME NEW e \in Exams, NEW p \in Persons
                  PROVE  /\ seen[w1][e][p] = 0 /\ sighted[e][p] = 0 /\ tick >= 0
                         /\ p \notin alerted[w1][e]
      OBVIOUS
    <3>1. tick >= 0
      BY <1>2, <1>3
    <3>2. seen[w1][e] = [q \in Persons |-> 0] /\ sighted[e] = [q \in Persons |-> 0]
      BY <1>2 DEF X!Init, X!Empty
    <3>3. alerted[w1][e] = {}
      BY <1>2
    <3>4. QED  BY <3>1, <3>2, <3>3
  <2>3. tick >= X!Epoch /\ fails \in Nat
    BY <1>2, <1>3
  <2>4. missed \in BOOLEAN
    BY Zenon DEF X!Init
  <2>5. QED  BY <1>2, <1>4, <2>1, <2>2, <2>3, <2>4 DEF ClockInv
<1>6. CheckInv(thread[c1])
  BY <1>2 DEF CheckInv, Checking, X!Idle
<1>7. ASSUME NEW e \in Exams, X!Active(e) PROVE InGoodTime(e, Due(e))
  <2>1. Due(e) = tick
    BY <1>2, <1>3 DEF Due, NextDue, NextFrame, Checking, X!Idle
  <2>2. Hours[e][1] = tick
    BY <1>2, <1>3, <1>7, HoursAssumption DEF X!Active
  <2>3. Slack \in Nat /\ tick \in Int /\ tick + Slack >= tick
    BY <1>1, <1>5, AbsenceTypes
  <2>4. QED  BY <2>1, <2>2, <2>3 DEF InGoodTime, Accounted
<1>8. PromptInv
  BY <1>2, <1>3, <1>7 DEF PromptInv
<1>9. QED  BY <1>5, <1>6, <1>8 DEF AbsenceInv

\* A step of a frame that neither begins a check nor ends one.
LEMMA CheckGoesOn ==
    ASSUME ExamInv, AbsenceInv, ExamInv',
           UNCHANGED <<tick, ended, missed, lastCheck, framed, fails, restarts, seen, sighted>>,
           \A e, p : X!Reported(e, p) => X!Reported(e, p)',
           \A e \in Exams, p \in Persons : p \in alerted'[w1][e] => X!Reported(e, p)',
           Checking(thread[c1])' <=> Checking(thread[c1]),
           Checking(thread[c1]) => thread'[c1].exam = thread[c1].exam,
           CheckInv(thread[c1])'
    PROVE  AbsenceInv'
<1>1. ClockInv'
  BY DEF AbsenceInv, ClockInv, X!Epoch
<1>2. ASSUME ~missed, NEW e \in Exams, X!Active(e) PROVE InGoodTime(e, Due(e))'
  <2>1. Due(e)' = Due(e) /\ Slack' = Slack
    BY DEF Due, NextDue, NextFrame, Slack
  <2>2. PICK c \in Int : c + Slack >= Due(e) /\ \A p \in Persons : Accounted(e, p, c)
    BY <1>2 DEF AbsenceInv, PromptInv, InGoodTime
  <2>3. \A p \in Persons : Accounted(e, p, c)'
    <3>1. ExamTypeOK' /\ ClockInv
      BY DEF ExamInv, AbsenceInv
    <3>2. \A p \in Persons : sighted[e][p] <= sighted'[e][p]
      BY <3>1, AbsenceTypes
    <3>3. QED  BY <2>2, <3>1, <3>2, AccountedStays
  <2>4. QED  BY <2>1, <2>2, <2>3 DEF InGoodTime
<1>3. PromptInv'
  BY <1>2 DEF AbsenceInv, PromptInv, X!Active, InHours
<1>4. QED  BY <1>1, <1>3 DEF AbsenceInv

LEMMA TickKeepsTrack == ASSUME ExamInv, AbsenceInv, ExamInv', X!Tick PROVE AbsenceInv'
<1>1. /\ tick' = tick + 1 /\ tick \in Int
      /\ UNCHANGED <<ended, lastCheck, framed, fails, restarts, seen, sighted, alerted, alerts, thread>>
      /\ missed' = \/ missed \/ \E t \in Cameras : ~X!At(t, "idle")
                   \/ (\E e \in Exams : X!Active(e)) /\ \A e \in Exams : framed[e] # tick
      /\ ClockInv
  BY AbsenceTypes DEF X!Tick, X!dicts, X!bounds, AbsenceInv
<1>2. \A e, p : X!Reported(e, p)' <=> X!Reported(e, p)
  BY <1>1 DEF X!Reported, X!Missing
<1>3. ClockInv'
  <2>1. tick' >= X!Epoch
    BY <1>1, ExamAssumption DEF ClockInv, X!Epoch
  <2>2. missed' \in BOOLEAN
    BY <1>1 DEF ClockInv
  <2>3. \A e \in Exams : lastCheck[w1][e] <= tick' /\ framed[e] <= tick'
    BY <1>1, AbsenceTypes DEF ClockInv
  <2>4. \A e \in Exams, p \in Persons : sighted[e][p] <= tick'
    BY <1>1, AbsenceTypes DEF ClockInv
  <2>5. QED  BY <1>1, <1>2, <2>1, <2>2, <2>3, <2>4 DEF ClockInv
<1>4. ~missed' => ~missed /\ thread[c1].step = "idle"
  BY <1>1, ExamAssumption DEF X!At, ClockInv
<1>5. CheckInv(thread[c1])'
  <2>1. thread[c1].step = "mark" => X!Reported(thread[c1].exam, thread[c1].person)
    BY DEF AbsenceInv, CheckInv
  <2>2. thread'[c1].step = "mark" => X!Reported(thread[c1].exam, thread[c1].person)'
    BY <1>1, <2>1 DEF X!Reported, X!Missing
  <2>3. QED  BY <1>1, <1>4, <2>2 DEF CheckInv, Checking
<1>6. ASSUME ~missed', NEW e \in Exams, X!Active(e)' PROVE InGoodTime(e, Due(e))'
  <2>1. Slack' = Slack /\ Slack \in Nat /\ Slack >= CheckEvery /\ CheckEvery \in Nat
    BY <1>1, AbsenceTypes DEF Slack
  <2>2. framed'[e] # tick'
    BY <1>1, AbsenceTypes DEF ClockInv
  <2>3. Due(e)' = IF lastCheck[w1][e] + CheckEvery > tick + 1 THEN lastCheck[w1][e] + CheckEvery ELSE tick + 1
    BY <1>1, <1>4, <1>6, <2>2 DEF Due, NextDue, NextFrame, Checking
  <2>4. \A p \in Persons, c \in Int : Accounted(e, p, c) => Accounted(e, p, c)'
    BY <1>1, <1>2 DEF Accounted
  <2>5. CASE Hours[e][1] <= tick
    <3>1. X!Active(e)
      BY <1>1, <1>6, <2>5, AbsenceTypes DEF X!Active
    <3>2. PICK f \in Exams : framed[f] = tick
      BY <1>1, <1>6, <3>1
    <3>3. f = e
      BY <1>1, <1>4, <1>6, <3>1, <3>2, OneExam DEF AbsenceInv, PromptInv, X!Active, InHours
    <3>4. Due(e) = Due(e)'
      BY <1>4, <1>6, <2>3, <3>2, <3>3 DEF Due, NextDue, NextFrame, Checking
    <3>5. PICK c \in Int : c + Slack >= Due(e) /\ \A p \in Persons : Accounted(e, p, c)
      BY <1>4, <1>6, <3>1 DEF AbsenceInv, PromptInv, InGoodTime
    <3>6. QED  BY <2>1, <2>4, <3>4, <3>5 DEF InGoodTime
  <2>6. CASE ~(Hours[e][1] <= tick)
    <3>1. Hours[e][1] = tick + 1
      BY <1>1, <1>6, <2>6, AbsenceTypes DEF X!Active
    <3>2. PICK d \in Int : d = tick + 1
      BY <1>1
    <3>3. d + Slack' >= Due(e)'
      <4>1. lastCheck[w1][e] \in Int /\ lastCheck[w1][e] <= tick
        BY <1>1, AbsenceTypes DEF ClockInv
      <4>2. QED  BY <1>1, <2>1, <2>3, <3>2, <4>1
    <3>4. \A p \in Persons : Accounted(e, p, d)'
      BY <3>1, <3>2 DEF Accounted
    <3>5. QED  BY <3>2, <3>3, <3>4 DEF InGoodTime
  <2>7. QED  BY <2>5, <2>6
<1>7. PromptInv'
  <2>1. \A e \in Exams : framed'[e] # tick'
    BY <1>1, AbsenceTypes DEF ClockInv
  <2>2. QED  BY <1>6, <2>1 DEF PromptInv
<1>8. QED  BY <1>3, <1>5, <1>7 DEF AbsenceInv

LEMMA EndKeepsTrack ==
    ASSUME ExamInv, AbsenceInv, NEW e \in Exams, X!EndExam(e) PROVE AbsenceInv'
<1>1. /\ ended \subseteq ended'
      /\ UNCHANGED <<tick, missed, lastCheck, framed, fails, restarts, seen, sighted, alerted, alerts, thread>>
  BY DEF X!EndExam, X!dicts, X!history, X!bounds
<1>2. \A f, p : X!Reported(f, p)' <=> X!Reported(f, p)
  BY <1>1 DEF X!Reported, X!Missing
<1>3. \A f, p, c : Accounted(f, p, c)' <=> Accounted(f, p, c)
  BY <1>1, <1>2 DEF Accounted
<1>4. ClockInv' /\ CheckInv(thread[c1])'
  BY <1>1, <1>2, <1>3 DEF AbsenceInv, ClockInv, CheckInv, InHours
<1>5. \A f : /\ X!Active(f)' => X!Active(f) /\ (InHours(f)' <=> InHours(f))
             /\ Due(f)' = Due(f) /\ Slack' = Slack
  BY <1>1 DEF X!Active, InHours, Due, NextDue, NextFrame, Slack
<1>6. \A f, d : InGoodTime(f, d) => \E c \in Int : c + Slack >= d /\ \A p \in Persons : Accounted(f, p, c)'
  BY <1>3 DEF InGoodTime
<1>7. PromptInv'
  <2>. SUFFICES ASSUME ~missed, NEW f \in Exams
                PROVE  (framed[f] = tick => InHours(f)') /\ (X!Active(f)' => InGoodTime(f, Due(f))')
    BY <1>1 DEF PromptInv
  <2>1. framed[f] = tick => InHours(f)'
    BY <1>1 DEF AbsenceInv, PromptInv, InHours
  <2>2. ASSUME X!Active(f)' PROVE InGoodTime(f, Due(f))'
    <3>1. InGoodTime(f, Due(f))
      BY <1>5, <2>2 DEF AbsenceInv, PromptInv
    <3>2. QED  BY <1>5, <1>6, <3>1 DEF InGoodTime
  <2>3. QED  BY <2>1, <2>2
<1>8. QED  BY <1>4, <1>7 DEF AbsenceInv

LEMMA BeginKeepsTrack ==
    ASSUME ExamInv, AbsenceInv, ExamInv', NEW view, NEW large, X!GetActiveExam(c1, view, large)
    PROVE  AbsenceInv'
<1>1. /\ UNCHANGED <<tick, ended, missed, lastCheck, framed, fails, restarts, seen, sighted, alerted, alerts>>
      /\ thread[c1].step = "idle"
  BY DEF X!GetActiveExam, X!dicts, X!history, X!bounds, X!At
<1>2. PICK e \in Exams : /\ X!Active(e)
                         /\ thread'[c1] = [X!Idle EXCEPT !.step = "observe", !.exam = e,
                                                         !.view = view, !.large = large]
  BY AbsenceTypes, ExamAssumption DEF X!GetActiveExam, AbsenceInv
<1>3. thread'[c1].step = "observe" /\ thread'[c1].exam = e
  BY <1>2 DEF X!Idle
<1>4. \A f, p : X!Reported(f, p)' <=> X!Reported(f, p)
  BY <1>1 DEF X!Reported, X!Missing
<1>5. CheckInv(thread[c1])' /\ ~Checking(thread[c1]) /\ ~Checking(thread[c1])'
  BY <1>1, <1>2, <1>3 DEF CheckInv, Checking, X!Active, InHours
<1>6. \A f \in Exams, p \in Persons : p \in alerted'[w1][f] => X!Reported(f, p)'
  BY <1>1, <1>4 DEF AbsenceInv, ClockInv
<1>7. QED  BY <1>1, <1>4, <1>5, <1>6, CheckGoesOn

\* What a frame in progress says of its exam.
LEMMA FrameInHours ==
    ASSUME ExamInv, AbsenceInv, thread[c1].step # "idle"
    PROVE  /\ thread[c1].exam \in Exams
           /\ ~missed => InHours(thread[c1].exam)
           /\ ~missed => \A f \in Exams : X!Active(f) => f = thread[c1].exam
<1>1. thread[c1].exam \in Exams
  BY DEF ExamInv, ExamTypeOK, FrameTypeOK
<1>2. ~missed => InHours(thread[c1].exam)
  BY DEF AbsenceInv, CheckInv
<1>3. \A f \in Exams : X!Active(f) => InHours(f)
  BY DEF X!Active, InHours
<1>4. QED  BY <1>1, <1>2, <1>3, OneExam DEF AbsenceInv

\* A step of a frame after which its exam is in good time.
LEMMA FrameKeepsTrack ==
    ASSUME ExamInv, AbsenceInv, ExamInv', thread[c1].step # "idle",
           NEW e, e = thread[c1].exam,
           UNCHANGED <<tick, ended, missed>>, ClockInv', CheckInv(thread[c1])',
           \A f \in Exams : f # e => framed'[f] = framed[f],
           \A f, p : X!Reported(f, p) => X!Reported(f, p)',
           \A f \in Exams, p \in Persons : sighted[f][p] <= sighted'[f][p],
           ~missed /\ X!Active(e) =>
              \E c \in Int : c + Slack' >= Due(e)' /\ \A p \in Persons : Accounted(e, p, c)
    PROVE  AbsenceInv'
<1>1. e \in Exams /\ (~missed => InHours(e))
  BY FrameInHours
<1>2. ~missed => \A f \in Exams : framed'[f] = tick => InHours(f)'
  BY <1>1 DEF AbsenceInv, PromptInv, InHours
<1>3. ASSUME ~missed, NEW f \in Exams, X!Active(f) PROVE InGoodTime(f, Due(f))'
  <2>1. f = e
    BY <1>3, FrameInHours
  <2>2. PICK c \in Int : c + Slack' >= Due(e)' /\ \A p \in Persons : Accounted(e, p, c)
    BY <1>3, <2>1
  <2>3. ExamTypeOK' /\ ClockInv
    BY DEF ExamInv, AbsenceInv
  <2>4. \A p \in Persons : Accounted(e, p, c)'
    BY <1>3, <2>1, <2>2, <2>3, AccountedStays
  <2>5. QED  BY <2>1, <2>2, <2>4 DEF InGoodTime
<1>4. PromptInv'
  BY <1>2, <1>3 DEF PromptInv, X!Active
<1>5. QED  BY <1>4 DEF AbsenceInv

LEMMA ObserveKeepsTrack ==
    ASSUME ExamInv, AbsenceInv, ExamInv', X!Observe(c1) PROVE AbsenceInv'
<1>. PICK e \in Exams : e = thread[c1].exam
  BY FrameInHours DEF X!Observe, X!At
<1>. PICK view : view = thread[c1].view
  OBVIOUS
<1>1. /\ thread[c1].step = "observe" /\ tick \in Int /\ tick >= 1
      /\ DOMAIN thread = Cameras /\ X!W(c1) = w1 /\ X!E(c1) = e /\ e = thread[c1].exam
      /\ UNCHANGED <<tick, ended, missed, fails, restarts, alerted, alerts>>
      /\ ClockInv /\ ExamTypeOK /\ ExamTypeOK'
  BY AbsenceTypes, FrameInHours, ExamAssumption
     DEF X!Observe, X!At, X!W, X!E, X!bounds, ExamInv, AbsenceInv
<1>2. /\ thread'[c1] = IF X!Throttled(c1) THEN X!Idle
                       ELSE [thread[c1] EXCEPT !.step = "check", !.at = tick, !.todo = Persons]
      /\ X!Throttled(c1) <=> tick - lastCheck[w1][e] < CheckEvery
  BY <1>1, ExamAssumption DEF X!Observe, X!Throttled
<1>3. /\ lastCheck' \in [Workers -> [Exams -> Int]]
      /\ lastCheck'[w1][e] = IF X!Throttled(c1) THEN lastCheck[w1][e] ELSE tick
      /\ \A f \in Exams : f # e => lastCheck'[w1][f] = lastCheck[w1][f]
  <2>1. lastCheck' = [lastCheck EXCEPT ![w1] = [lastCheck[w1] EXCEPT ![e] = X!NextCheck(c1)]]
    BY <1>1 DEF X!Observe, X!Set
  <2>2. X!NextCheck(c1) = IF X!Throttled(c1) THEN lastCheck[w1][e] ELSE tick
    BY <1>1 DEF X!NextCheck
  <2>3. lastCheck \in [Workers -> [Exams -> Int]] /\ w1 \in Workers
    BY <1>1, ExamAssumption DEF ClockInv
  <2>4. QED  BY <1>1, <2>1, <2>2, <2>3
<1>4. /\ framed' \in [Exams -> Int] /\ framed'[e] = tick
      /\ \A f \in Exams : f # e => framed'[f] = framed[f]
  BY <1>1 DEF X!Observe, ClockInv
<1>5. \A f \in Exams, p \in Persons :
         /\ seen'[w1][f][p] = IF f = e /\ p \in view THEN tick ELSE seen[w1][f][p]
         /\ sighted'[f][p] = IF f = e /\ p \in view THEN tick ELSE sighted[f][p]
  <2>1. /\ seen' = [seen EXCEPT ![w1] = [seen[w1] EXCEPT ![e] = X!Notes(seen[w1][e], view)]]
        /\ sighted' = [sighted EXCEPT ![e] = X!Notes(sighted[e], view)]
    BY <1>1 DEF X!Observe, X!Set, X!Seen
  <2>2. \A s : X!Notes(s, view) = [p \in Persons |-> IF p \in view THEN tick ELSE s[p]]
    BY DEF X!Notes
  <2>3. seen \in [Workers -> [Exams -> [Persons -> Int]]] /\ sighted \in [Exams -> [Persons -> Int]]
        /\ w1 \in Workers
    BY <1>1, ExamAssumption DEF ExamTypeOK
  <2>4. /\ \A f \in Exams : seen'[w1][f] = IF f = e THEN X!Notes(seen[w1][e], view) ELSE seen[w1][f]
        /\ \A f \in Exams : sighted'[f] = IF f = e THEN X!Notes(sighted[e], view) ELSE sighted[f]
    BY <2>1, <2>3
  <2>5. \A s, p : p \in Persons => X!Notes(s, view)[p] = IF p \in view THEN tick ELSE s[p]
    BY <2>2
  <2>6. QED  BY <2>4, <2>5
<1>6. \A f, p : X!Reported(f, p)' <=> X!Reported(f, p)
  BY <1>1 DEF X!Reported, X!Missing
<1>7. \A f \in Exams, p \in Persons :
         /\ sighted[f][p] <= sighted'[f][p] /\ sighted'[f][p] <= tick /\ 0 <= sighted'[f][p]
         /\ seen'[w1][f][p] <= sighted'[f][p]
  BY <1>1, <1>5, AbsenceTypes DEF ClockInv
<1>8. ClockInv'
  <2>1. \A f \in Exams : lastCheck'[w1][f] <= tick /\ framed'[f] <= tick
    BY <1>1, <1>3, <1>4 DEF ClockInv
  <2>2. tick' >= X!Epoch /\ missed' \in BOOLEAN /\ fails' \in Nat
    BY <1>1 DEF ClockInv, X!Epoch
  <2>3. \A f \in Exams, p \in Persons : p \in alerted'[w1][f] => X!Reported(f, p)'
    BY <1>1, <1>6 DEF ClockInv
  <2>4. QED  BY <1>1, <1>3, <1>4, <1>7, <2>1, <2>2, <2>3 DEF ClockInv
<1>9. thread'[c1].exam = e \/ thread'[c1].step = "idle"
  BY <1>2 DEF X!Idle, ExamInv, ExamTypeOK, FrameTypeOK
<1>10. ~missed => InHours(e)'
  BY <1>1, FrameInHours DEF InHours
<1>11. CheckInv(thread[c1])' /\ Due(e) \in Int /\ Due(e)' \in Int /\ Due(e)' <= Due(e)
  <2>1. CASE X!Throttled(c1)
    <3>1. thread'[c1].step = "idle" /\ ~Checking(thread[c1])'
      BY <1>2, <2>1 DEF X!Idle, Checking
    <3>2. CheckInv(thread[c1])'
      BY <3>1 DEF CheckInv
    <3>3. ~Checking(thread[c1])
      BY <1>1 DEF Checking
    <3>4. Due(e) = NextDue(e) /\ NextDue(e) \in Int /\ NextDue(e) >= lastCheck[w1][e] + CheckEvery
      BY <1>1, <3>3, AbsenceTypes DEF Due
    <3>5. Due(e)' = lastCheck[w1][e] + CheckEvery
      <4>1. tick - lastCheck[w1][e] < CheckEvery /\ lastCheck[w1][e] \in Int /\ CheckEvery \in Int
        BY <1>1, <1>2, <2>1, AbsenceTypes
      <4>2. QED  BY <1>1, <1>3, <1>4, <2>1, <3>1, <4>1 DEF Due, NextDue, NextFrame
    <3>6. lastCheck[w1][e] + CheckEvery \in Int /\ Due(e)' <= Due(e)
      BY <1>1, <3>4, <3>5, AbsenceTypes
    <3>7. QED  BY <3>2, <3>4, <3>5, <3>6
  <2>2. CASE ~X!Throttled(c1)
    <3>1. /\ thread'[c1].step = "check" /\ thread'[c1].exam = e /\ thread'[c1].at = tick
          /\ thread'[c1].todo = Persons
      BY <1>1, <1>2, <2>2 DEF ExamInv, ExamTypeOK, FrameTypeOK
    <3>2. CheckInv(thread[c1])'
      BY <1>1, <1>3, <1>4, <1>10, <2>2, <3>1 DEF CheckInv
    <3>3. Due(e)' = tick
      BY <1>1, <3>1 DEF Due, Checking
    <3>4. ~Checking(thread[c1])
      BY <1>1 DEF Checking
    <3>5. Due(e) = NextDue(e) /\ NextDue(e) \in Int /\ NextDue(e) >= tick
      BY <1>1, <3>4, AbsenceTypes DEF Due
    <3>6. Due(e)' <= Due(e)
      BY <3>3, <3>5
    <3>7. QED  BY <1>1, <3>2, <3>3, <3>5, <3>6
  <2>3. QED  BY <2>1, <2>2
<1>12. ASSUME ~missed, X!Active(e)
       PROVE  \E c \in Int : c + Slack' >= Due(e)' /\ \A p \in Persons : Accounted(e, p, c)
  <2>1. PICK c \in Int : c + Slack >= Due(e) /\ \A p \in Persons : Accounted(e, p, c)
    BY <1>1, <1>12 DEF AbsenceInv, PromptInv, InGoodTime
  <2>2. Slack' = Slack /\ Slack \in Nat
    BY <1>1, AbsenceTypes DEF Slack
  <2>3. c + Slack' >= Due(e)'
    BY <1>11, <2>1, <2>2
  <2>4. QED  BY <2>1, <2>3
<1>13. QED
  BY <1>1, <1>4, <1>6, <1>7, <1>8, <1>11, <1>12, FrameKeepsTrack


LEMMA CheckPersonKeepsTrack ==
    ASSUME ExamInv, AbsenceInv, ExamInv', NEW p \in Persons, X!CheckPerson(c1, p) PROVE AbsenceInv'
<1>. PICK e \in Exams : e = thread[c1].exam
  BY FrameInHours DEF X!CheckPerson, X!At
<1>. PICK gone \in BOOLEAN : gone <=> X!IsMissing(c1, p)
  BY DEF X!IsMissing
<1>1. /\ UNCHANGED <<tick, ended, missed, lastCheck, framed, fails, restarts, seen, sighted, alerted, alerts>>
      /\ thread[c1].step = "check" /\ X!W(c1) = w1 /\ X!E(c1) = e /\ DOMAIN thread = Cameras
      /\ e = thread[c1].exam /\ FrameTypeOK(thread[c1])
      /\ gone <=> seen[w1][e][p] < thread[c1].at - Grace /\ p \notin alerted[w1][e]
  BY AbsenceTypes, ExamAssumption
     DEF X!CheckPerson, X!dicts, X!history, X!bounds, X!At, X!W, X!E, AbsenceInv, X!IsMissing
<1>2. /\ thread'[c1].exam = e /\ thread'[c1].at = thread[c1].at
      /\ thread'[c1].todo = thread[c1].todo \ {p}
      /\ thread'[c1].person = IF gone THEN p ELSE "none"
      /\ thread'[c1].step = IF gone THEN "log" ELSE "check"
  BY <1>1, ExamAssumption DEF X!CheckPerson, FrameTypeOK
<1>3. \A f, q : X!Reported(f, q)' <=> X!Reported(f, q)
  BY <1>1 DEF X!Reported, X!Missing
<1>4. ~missed => /\ InHours(e) /\ thread[c1].at = tick /\ lastCheck[w1][e] = tick /\ framed[e] = tick
                 /\ \A q \in Persons : q \in thread[c1].todo \/ Accounted(e, q, tick)
  BY <1>1 DEF AbsenceInv, CheckInv, Checking
<1>5. ~missed /\ ~gone => Accounted(e, p, tick)
  <2>1. ASSUME ~missed, ~gone PROVE seen[w1][e][p] >= tick - Grace \/ p \in alerted[w1][e]
    <3>1. seen[w1][e][p] \in Int /\ tick - Grace \in Int
      BY AbsenceTypes DEF AbsenceInv
    <3>2. QED  BY <1>1, <1>4, <2>1, <3>1
  <2>2. seen[w1][e][p] >= tick - Grace => sighted[e][p] + Grace >= tick
    BY AbsenceTypes DEF AbsenceInv, ClockInv
  <2>3. p \in alerted[w1][e] => X!Reported(e, p)
    BY DEF AbsenceInv, ClockInv
  <2>4. QED  BY <2>1, <2>2, <2>3 DEF Accounted
<1>6. \A q \in Persons : Accounted(e, q, tick)' <=> Accounted(e, q, tick)
  BY <1>1, <1>3 DEF Accounted
<1>7. Checking(thread[c1]) /\ Checking(thread[c1])'
  BY <1>1, <1>2 DEF Checking
<1>8. CheckInv(thread[c1])'
  <2>1. ~missed => InHours(e)'
    BY <1>1, <1>4 DEF InHours
  <2>2. ~missed => \A q \in Persons : \/ q \in thread'[c1].todo
                                      \/ thread'[c1].step = "log" /\ thread'[c1].person = q
                                      \/ Accounted(e, q, tick)'
    BY <1>2, <1>4, <1>5, <1>6
  <2>3. QED  BY <1>1, <1>2, <1>4, <2>1, <2>2 DEF CheckInv
<1>9. \A f \in Exams, q \in Persons : q \in alerted'[w1][f] => X!Reported(f, q)'
  BY <1>1, <1>3 DEF AbsenceInv, ClockInv
<1>10. QED  BY <1>1, <1>2, <1>3, <1>7, <1>8, <1>9, CheckGoesOn

\* An alert that is written accounts for its person.
LEMMA MissingKeepsTrack ==
    ASSUME ExamInv, AbsenceInv, ExamInv', X!LogMissing(c1) PROVE AbsenceInv'
<1>. PICK e \in Exams : e = thread[c1].exam
  BY FrameInHours DEF X!LogMissing, X!At
<1>. PICK p : p = thread[c1].person
  OBVIOUS
<1>. DEFINE a == [kind |-> "missing", exam |-> e, person |-> p, at |-> thread[c1].at,
                  last |-> sighted[e][p]]
<1>1. /\ UNCHANGED <<tick, ended, missed, lastCheck, framed, fails, restarts, seen, sighted, alerted>>
      /\ thread[c1].step = "log" /\ X!E(c1) = e /\ e = thread[c1].exam /\ p \in Persons
      /\ DOMAIN thread = Cameras /\ FrameTypeOK(thread[c1]) /\ ExamTypeOK
  BY AbsenceTypes DEF X!LogMissing, X!dicts, X!history, X!bounds, X!At, X!E, AbsenceInv, ExamInv, FrameTypeOK
<1>2. a \in Alert /\ alerts' = Append(alerts, a)
  <2>1. sighted[e][p] \in Int /\ thread[c1].at \in Int
    BY <1>1 DEF ExamTypeOK, FrameTypeOK
  <2>2. QED  BY <1>1, <2>1 DEF Alert, X!LogMissing, X!Log
<1>3. a.kind = "missing" /\ a.exam = e /\ a.person = p
  OBVIOUS
<1>. HIDE DEF a
<1>4. (\A f, q : X!Reported(f, q) => X!Reported(f, q)') /\ X!Reported(e, p)'
  BY <1>1, <1>2, <1>3, ReportedStays
<1>5. /\ thread'[c1].exam = e /\ thread'[c1].at = thread[c1].at /\ thread'[c1].person = p
      /\ thread'[c1].todo = thread[c1].todo /\ thread'[c1].step = "mark"
  BY <1>1, ExamAssumption DEF X!LogMissing, FrameTypeOK
<1>6. Checking(thread[c1]) /\ Checking(thread[c1])'
  BY <1>1, <1>5 DEF Checking
<1>7. ~missed => \A q \in Persons : q \in thread[c1].todo \/ Accounted(e, q, tick)'
  <2>1. ASSUME ~missed, NEW q \in Persons, q \notin thread[c1].todo, q # p
        PROVE  Accounted(e, q, tick)'
    <3>1. Accounted(e, q, tick)
      BY <1>1, <1>6, <2>1 DEF AbsenceInv, CheckInv
    <3>2. QED  BY <1>1, <1>4, <3>1 DEF Accounted
  <2>2. Accounted(e, p, tick)'
    BY <1>4 DEF Accounted
  <2>3. QED  BY <2>1, <2>2
<1>8. CheckInv(thread[c1])'
  <2>1. ~missed => /\ InHours(e)' /\ thread[c1].at = tick
                   /\ lastCheck[w1][e] = tick /\ framed[e] = tick
    BY <1>1, <1>6 DEF AbsenceInv, CheckInv, InHours
  <2>2. QED  BY <1>1, <1>4, <1>5, <1>7, <2>1 DEF CheckInv
<1>9. \A f \in Exams, q \in Persons : q \in alerted'[w1][f] => X!Reported(f, q)'
  BY <1>1, <1>4 DEF AbsenceInv, ClockInv
<1>10. QED  BY <1>1, <1>4, <1>5, <1>6, <1>8, <1>9, CheckGoesOn

LEMMA MarkKeepsTrack ==
    ASSUME ExamInv, AbsenceInv, ExamInv', X!MarkAlerted(c1) PROVE AbsenceInv'
<1>. PICK e \in Exams : e = thread[c1].exam
  BY FrameInHours DEF X!MarkAlerted, X!At
<1>. PICK p : p = thread[c1].person
  OBVIOUS
<1>1. /\ UNCHANGED <<tick, ended, missed, lastCheck, framed, fails, restarts, seen, sighted, alerts>>
      /\ thread[c1].step = "mark" /\ X!E(c1) = e /\ X!W(c1) = w1 /\ e = thread[c1].exam
      /\ DOMAIN thread = Cameras /\ FrameTypeOK(thread[c1]) /\ ExamTypeOK /\ ExamTypeOK'
      /\ p = thread[c1].person
  BY AbsenceTypes, ExamAssumption
     DEF X!MarkAlerted, X!history, X!bounds, X!At, X!E, X!W, AbsenceInv, ExamInv
<1>2. /\ thread'[c1].exam = e /\ thread'[c1].at = thread[c1].at
      /\ thread'[c1].todo = thread[c1].todo /\ thread'[c1].step = "check"
  BY <1>1, ExamAssumption DEF X!MarkAlerted, FrameTypeOK
<1>3. \A f, q : X!Reported(f, q)' <=> X!Reported(f, q)
  BY <1>1 DEF X!Reported, X!Missing
<1>4. X!Reported(e, p)
  BY <1>1 DEF AbsenceInv, CheckInv
<1>5. \A f \in Exams, q \in Persons : q \in alerted'[w1][f] => X!Reported(f, q)'
  <2>1. alerted' = [alerted EXCEPT ![w1] = [alerted[w1] EXCEPT ![e] = alerted[w1][e] \cup {p}]]
    BY <1>1 DEF X!MarkAlerted, X!Set
  <2>2. \A f \in Exams : alerted'[w1][f] = IF f = e THEN alerted[w1][e] \cup {p} ELSE alerted[w1][f]
    BY <1>1, <2>1, ExamAssumption DEF ExamTypeOK
  <2>3. \A f \in Exams, q \in Persons : q \in alerted[w1][f] => X!Reported(f, q)
    BY DEF AbsenceInv, ClockInv
  <2>4. QED  BY <1>3, <1>4, <2>2, <2>3
<1>6. Checking(thread[c1]) /\ Checking(thread[c1])'
  BY <1>1, <1>2 DEF Checking
<1>7. ~missed => /\ InHours(e) /\ thread[c1].at = tick /\ lastCheck[w1][e] = tick /\ framed[e] = tick
                 /\ \A q \in Persons : q \in thread[c1].todo \/ Accounted(e, q, tick)
  BY <1>1, <1>6 DEF AbsenceInv, CheckInv
<1>8. \A q : Accounted(e, q, tick)' <=> Accounted(e, q, tick)
  BY <1>1, <1>3 DEF Accounted
<1>9. CheckInv(thread[c1])'
  BY <1>1, <1>2, <1>7, <1>8 DEF CheckInv, InHours
<1>10. QED  BY <1>1, <1>2, <1>3, <1>5, <1>6, <1>9, CheckGoesOn

LEMMA LogImposterKeepsTrack ==
    ASSUME ExamInv, AbsenceInv, ExamInv', X!LogImposter(c1) PROVE AbsenceInv'
<1>. PICK e \in Exams : e = thread[c1].exam
  BY FrameInHours DEF X!LogImposter, X!At
<1>. DEFINE a == [kind |-> "imposter", exam |-> e, person |-> "unknown", at |-> thread[c1].at,
                  last |-> 0]
<1>1. /\ UNCHANGED <<tick, ended, missed, lastCheck, framed, fails, restarts, seen, sighted, alerted>>
      /\ thread[c1].step = "logimposter" /\ X!E(c1) = e /\ e = thread[c1].exam
      /\ DOMAIN thread = Cameras /\ FrameTypeOK(thread[c1]) /\ ExamTypeOK
  BY AbsenceTypes
     DEF X!LogImposter, X!dicts, X!history, X!bounds, X!At, X!E, AbsenceInv, ExamInv
<1>2. a \in Alert /\ alerts' = Append(alerts, a)
  BY <1>1 DEF Alert, FrameTypeOK, X!LogImposter, X!Log
<1>. HIDE DEF a
<1>3. \A f, q : X!Reported(f, q) => X!Reported(f, q)'
  BY <1>1, <1>2, ReportedStays
<1>4. /\ thread'[c1].exam = e /\ thread'[c1].at = thread[c1].at
      /\ thread'[c1].todo = thread[c1].todo /\ thread'[c1].step = "markimposter"
  BY <1>1, ExamAssumption DEF X!LogImposter, FrameTypeOK
<1>5. Checking(thread[c1]) /\ Checking(thread[c1])'
  BY <1>1, <1>4 DEF Checking
<1>6. ~missed => /\ InHours(e) /\ thread[c1].at = tick /\ lastCheck[w1][e] = tick /\ framed[e] = tick
                 /\ thread[c1].todo = {} /\ \A q \in Persons : Accounted(e, q, tick)
  BY <1>1, <1>5 DEF AbsenceInv, CheckInv
<1>7. \A q : Accounted(e, q, tick) => Accounted(e, q, tick)'
  BY <1>1, <1>3 DEF Accounted
<1>8. CheckInv(thread[c1])'
  BY <1>1, <1>4, <1>6, <1>7 DEF CheckInv, InHours
<1>9. \A f \in Exams, q \in Persons : q \in alerted'[w1][f] => X!Reported(f, q)'
  BY <1>1, <1>3 DEF AbsenceInv, ClockInv
<1>10. QED  BY <1>1, <1>3, <1>4, <1>5, <1>8, <1>9, CheckGoesOn

\* A check that comes to its end has accounted for everybody, now.
LEMMA CheckEnds ==
    ASSUME ExamInv, AbsenceInv, ExamInv', Checking(thread[c1]), thread[c1].step # "log",
           ~missed => thread[c1].todo = {}, thread'[c1] = X!Idle,
           UNCHANGED <<tick, ended, missed, lastCheck, framed, fails, restarts, seen, sighted,
                       alerted, alerts>>
    PROVE  AbsenceInv'
<1>. PICK e \in Exams : e = thread[c1].exam
  BY FrameInHours DEF Checking
<1>1. thread[c1].step # "idle" /\ e = thread[c1].exam
  BY DEF Checking
<1>2. \A f, q : X!Reported(f, q)' <=> X!Reported(f, q)
  BY DEF X!Reported, X!Missing
<1>3. ClockInv'
  BY <1>2 DEF AbsenceInv, ClockInv, X!Epoch
<1>4. ~Checking(thread[c1])' /\ thread'[c1].step = "idle"
  BY DEF Checking, X!Idle
<1>5. CheckInv(thread[c1])'
  BY <1>4 DEF CheckInv
<1>6. \A f \in Exams, p \in Persons : sighted[f][p] <= sighted'[f][p]
  BY AbsenceTypes DEF AbsenceInv
<1>7. ASSUME ~missed
      PROVE  \E c \in Int : c + Slack' >= Due(e)' /\ \A p \in Persons : Accounted(e, p, c)
  <2>1. lastCheck[w1][e] = tick /\ framed[e] = tick /\ \A p \in Persons : Accounted(e, p, tick)
    BY <1>1, <1>7 DEF AbsenceInv, CheckInv
  <2>2. /\ tick \in Int /\ CheckEvery \in Nat /\ CheckEvery >= 1 /\ Slack \in Nat /\ Slack >= CheckEvery
        /\ Slack' = Slack
    BY AbsenceTypes DEF AbsenceInv, Slack
  <2>3. Due(e)' = tick + CheckEvery
    BY <1>4, <2>1, <2>2 DEF Due, NextDue, NextFrame
  <2>4. tick + Slack' >= Due(e)'
    BY <2>2, <2>3
  <2>5. QED  BY <2>1, <2>2, <2>4
<1>8. QED  BY <1>1, <1>2, <1>3, <1>5, <1>6, <1>7, FrameKeepsTrack

LEMMA CheckImposterKeepsTrack ==
    ASSUME ExamInv, AbsenceInv, ExamInv', X!CheckImposter(c1) PROVE AbsenceInv'
<1>. PICK e \in Exams : e = thread[c1].exam
  BY FrameInHours DEF X!CheckImposter, X!At
<1>1. /\ UNCHANGED <<tick, ended, missed, lastCheck, framed, fails, restarts, seen, sighted, alerted, alerts>>
      /\ thread[c1].step = "check" /\ thread[c1].todo = {} /\ e = thread[c1].exam
      /\ DOMAIN thread = Cameras /\ FrameTypeOK(thread[c1]) /\ Checking(thread[c1])
  BY AbsenceTypes
     DEF X!CheckImposter, X!dicts, X!history, X!bounds, X!At, AbsenceInv, Checking
<1>2. CASE ~X!IsImposter(c1)
  <2>1. thread'[c1] = X!Idle
    BY <1>1, <1>2, ExamAssumption DEF X!CheckImposter
  <2>2. QED  BY <1>1, <2>1, CheckEnds
<1>3. CASE X!IsImposter(c1)
  <2>1. /\ thread'[c1].exam = e /\ thread'[c1].at = thread[c1].at
        /\ thread'[c1].todo = thread[c1].todo /\ thread'[c1].step = "logimposter"
    BY <1>1, <1>3, ExamAssumption DEF X!CheckImposter, FrameTypeOK
  <2>2. Checking(thread[c1])'
    BY <2>1 DEF Checking
  <2>3. \A f, q : X!Reported(f, q)' <=> X!Reported(f, q)
    BY <1>1 DEF X!Reported, X!Missing
  <2>4. ~missed => /\ InHours(e) /\ thread[c1].at = tick /\ lastCheck[w1][e] = tick /\ framed[e] = tick
                   /\ \A q \in Persons : Accounted(e, q, tick)
    BY <1>1 DEF AbsenceInv, CheckInv
  <2>5. \A q : Accounted(e, q, tick)' <=> Accounted(e, q, tick)
    BY <1>1, <2>3 DEF Accounted
  <2>6. CheckInv(thread[c1])'
    BY <1>1, <2>1, <2>4, <2>5 DEF CheckInv, InHours
  <2>7. \A f \in Exams, q \in Persons : q \in alerted'[w1][f] => X!Reported(f, q)'
    BY <1>1, <2>3 DEF AbsenceInv, ClockInv
  <2>8. QED  BY <1>1, <2>1, <2>2, <2>3, <2>6, <2>7, CheckGoesOn
<1>4. QED  BY <1>2, <1>3

LEMMA MarkImposterKeepsTrack ==
    ASSUME ExamInv, AbsenceInv, ExamInv', X!MarkImposter(c1) PROVE AbsenceInv'
<1>1. /\ UNCHANGED <<tick, ended, missed, lastCheck, framed, fails, restarts, seen, sighted, alerted, alerts>>
      /\ thread[c1].step = "markimposter" /\ DOMAIN thread = Cameras /\ Checking(thread[c1])
  BY AbsenceTypes DEF X!MarkImposter, X!history, X!bounds, X!At, AbsenceInv, Checking
<1>2. thread'[c1] = X!Idle
  BY <1>1, ExamAssumption DEF X!MarkImposter
<1>3. ~missed => thread[c1].todo = {}
  BY <1>1 DEF AbsenceInv, CheckInv
<1>4. QED  BY <1>1, <1>2, <1>3, CheckEnds

\* A fault makes room for one interval more.
LEMMA MoreSlack ==
    ASSUME NEW n \in Nat, NEW f \in Nat, NEW r \in Nat
    PROVE  /\ n * (1 + (f + 1) + r) = n * (1 + f + r) + n
           /\ n * (1 + f + (r + 1)) = n * (1 + f + r) + n
<1>1. /\ 1 + f + r = 1 + (f + r) /\ 1 + (f + 1) + r = 1 + ((f + r) + 1)
      /\ 1 + f + (r + 1) = 1 + ((f + r) + 1) /\ f + r \in Nat
  OBVIOUS
<1>2. QED  BY <1>1, SlackGrows

LEMMA FailKeepsTrack ==
    ASSUME ExamInv, AbsenceInv, ExamInv', X!Fail(c1) PROVE AbsenceInv'
<1>. PICK e \in Exams : e = thread[c1].exam
  BY FrameInHours DEF X!Fail
<1>1. /\ UNCHANGED <<tick, ended, missed, lastCheck, framed, restarts, seen, sighted, alerted, alerts>>
      /\ fails' = fails + 1 /\ fails \in Nat /\ restarts \in Nat
      /\ thread[c1].step \in {"log", "logimposter"} /\ e = thread[c1].exam /\ DOMAIN thread = Cameras
  BY AbsenceTypes DEF X!Fail, X!dicts, X!history, AbsenceInv
<1>2. thread'[c1] = X!Idle
  BY <1>1, ExamAssumption DEF X!Fail
<1>3. \A f, q : X!Reported(f, q)' <=> X!Reported(f, q)
  BY <1>1 DEF X!Reported, X!Missing
<1>4. ClockInv'
  BY <1>1, <1>3 DEF AbsenceInv, ClockInv, X!Epoch
<1>5. /\ ~Checking(thread[c1])' /\ thread'[c1].step = "idle"
      /\ Checking(thread[c1]) /\ thread[c1].step # "idle"
  BY <1>1, <1>2 DEF Checking, X!Idle
<1>6. CheckInv(thread[c1])'
  BY <1>5 DEF CheckInv
<1>7. \A f \in Exams, p \in Persons : sighted[f][p] <= sighted'[f][p]
  BY <1>1, AbsenceTypes DEF AbsenceInv
<1>8. ASSUME ~missed, X!Active(e)
      PROVE  \E c \in Int : c + Slack' >= Due(e)' /\ \A p \in Persons : Accounted(e, p, c)
  <2>1. lastCheck[w1][e] = tick /\ framed[e] = tick
    BY <1>1, <1>5, <1>8 DEF AbsenceInv, CheckInv
  <2>2. /\ tick \in Int /\ CheckEvery \in Nat /\ CheckEvery >= 1 /\ Slack \in Nat
    BY AbsenceTypes DEF AbsenceInv
  <2>3. Due(e)' = tick + CheckEvery
    BY <1>1, <1>5, <2>1, <2>2 DEF Due, NextDue, NextFrame
  <2>4. Slack' = Slack + CheckEvery
    BY <1>1, <2>2, MoreSlack DEF Slack
  <2>5. Due(e) = tick
    BY <1>1, <1>5 DEF Due
  <2>6. PICK c \in Int : c + Slack >= Due(e) /\ \A p \in Persons : Accounted(e, p, c)
    BY <1>8 DEF AbsenceInv, PromptInv, InGoodTime
  <2>7. c + Slack' >= Due(e)'
    BY <2>2, <2>3, <2>4, <2>5, <2>6
  <2>8. QED  BY <2>6, <2>7
<1>9. QED  BY <1>1, <1>3, <1>4, <1>5, <1>6, <1>7, <1>8, FrameKeepsTrack

LEMMA RestartKeepsTrack ==
    ASSUME ExamInv, AbsenceInv, ExamInv', X!Restart(w1) PROVE AbsenceInv'
<1>1. /\ UNCHANGED <<tick, ended, missed, framed, fails, sighted, alerts>>
      /\ restarts' = restarts + 1 /\ fails \in Nat /\ restarts \in Nat
      /\ tick \in Int /\ CheckEvery \in Nat /\ CheckEvery >= 1 /\ tick > CheckEvery
      /\ DOMAIN thread = Cameras /\ w1 \in Workers /\ ClockInv /\ ExamTypeOK
  BY AbsenceTypes, ExamAssumption DEF X!Restart, X!history, AbsenceInv, ExamInv
<1>2. /\ lastCheck' \in [Workers -> [Exams -> Int]]
      /\ \A f \in Exams : /\ lastCheck'[w1][f] = 0 /\ alerted'[w1][f] = {}
                          /\ \A p \in Persons : seen'[w1][f][p] = 0
  BY <1>1 DEF X!Restart, X!Empty, ClockInv, ExamTypeOK
<1>3. thread'[c1] = X!Idle
  BY <1>1, ExamAssumption DEF X!Restart, X!W
<1>4. \A f, q : X!Reported(f, q)' <=> X!Reported(f, q)
  BY <1>1 DEF X!Reported, X!Missing
<1>5. ClockInv'
  <2>1. tick' >= X!Epoch /\ missed' \in BOOLEAN /\ fails' \in Nat /\ framed' \in [Exams -> Int]
    BY <1>1 DEF ClockInv, X!Epoch
  <2>2. \A f \in Exams : lastCheck'[w1][f] <= tick /\ framed'[f] <= tick
    BY <1>1, <1>2 DEF ClockInv
  <2>3. \A f \in Exams, p \in Persons :
           /\ seen'[w1][f][p] <= sighted'[f][p] /\ 0 <= sighted'[f][p] /\ sighted'[f][p] <= tick
           /\ p \notin alerted'[w1][f]
    BY <1>1, <1>2 DEF ClockInv
  <2>4. QED  BY <1>1, <1>2, <2>1, <2>2, <2>3 DEF ClockInv
<1>6. ~Checking(thread[c1])' /\ thread'[c1].step = "idle"
  BY <1>3 DEF Checking, X!Idle
<1>7. CheckInv(thread[c1])'
  BY <1>6 DEF CheckInv
<1>8. ASSUME ~missed, NEW f \in Exams, X!Active(f) PROVE InGoodTime(f, Due(f))'
  <2>1. Due(f) \in Int /\ Due(f) >= tick /\ Slack \in Nat
    BY <1>1, AbsenceTypes DEF Due
  <2>2. Due(f)' <= tick + 1 /\ Due(f)' \in Int
    BY <1>1, <1>2, <1>6 DEF Due, NextDue, NextFrame
  <2>3. Slack' = Slack + CheckEvery
    BY <1>1, MoreSlack DEF Slack
  <2>4. PICK c \in Int : c + Slack >= Due(f) /\ \A p \in Persons : Accounted(f, p, c)
    BY <1>8 DEF AbsenceInv, PromptInv, InGoodTime
  <2>5. c + Slack' >= Due(f)'
    BY <1>1, <2>1, <2>2, <2>3, <2>4
  <2>6. \A p : Accounted(f, p, c)' <=> Accounted(f, p, c)
    BY <1>1, <1>4 DEF Accounted
  <2>7. QED  BY <2>4, <2>5, <2>6 DEF InGoodTime
<1>9. PromptInv'
  <2>1. ~missed => \A f \in Exams : framed'[f] = tick => InHours(f)'
    BY <1>1 DEF AbsenceInv, PromptInv, InHours
  <2>2. QED  BY <1>1, <1>8, <2>1 DEF PromptInv, X!Active
<1>10. QED  BY <1>5, <1>7, <1>9 DEF AbsenceInv

LEMMA NextAbsenceInv == ASSUME ExamInv, AbsenceInv, [X!Next]_(X!vars) PROVE AbsenceInv'
<1>1. ExamInv'
  BY NextExamInv
<1>2. CASE UNCHANGED X!vars
  <2>1. UNCHANGED <<tick, ended, missed, lastCheck, framed, fails, restarts, seen, sighted, alerted,
                    alerts, thread>>
    BY <1>2 DEF X!vars, X!dicts, X!history, X!bounds
  <2>2. QED
    BY <2>1 DEF AbsenceInv, ClockInv, CheckInv, PromptInv, Checking, Due, NextDue, NextFrame, Slack,
                InGoodTime, Accounted, InHours, X!Active, X!Reported, X!Missing, X!Epoch
<1>3. CASE X!Tick
  BY <1>1, <1>3, TickKeepsTrack
<1>4. CASE \E e \in Exams : X!EndExam(e)
  BY <1>4, EndKeepsTrack
<1>5. CASE X!Frame(c1)
  BY <1>1, <1>5, BeginKeepsTrack, ObserveKeepsTrack, CheckPersonKeepsTrack, MissingKeepsTrack,
     MarkKeepsTrack, CheckImposterKeepsTrack, LogImposterKeepsTrack, MarkImposterKeepsTrack,
     FailKeepsTrack DEF X!Frame
<1>6. CASE X!Restart(w1)
  BY <1>1, <1>6, RestartKeepsTrack
<1>7. QED
  BY <1>2, <1>3, <1>4, <1>5, <1>6, ExamAssumption DEF X!Next

\* Whoever is out of view for longer than Patience is on the list by the next tick.
LEMMA TickFindsReported ==
    ASSUME ExamInv, AbsenceInv, X!Tick, ~missed', NEW e \in Exams, NEW p \in Persons,
           X!Active(e), Hours[e][1] + X!Patience < tick, sighted[e][p] + X!Patience < tick
    PROVE  X!Reported(e, p)
<1>1. /\ tick \in Int /\ Grace \in Nat /\ Slack \in Nat /\ sighted[e][p] \in Int /\ Hours[e][1] \in Int
      /\ framed[e] = tick => NextDue(e) >= tick + 1
      /\ NextDue(e) \in Int
  BY AbsenceTypes DEF AbsenceInv
<1>2. ~missed /\ thread[c1].step = "idle" /\ \E f \in Exams : framed[f] = tick
  BY ExamAssumption DEF X!Tick, X!At, AbsenceInv, ClockInv
<1>3. framed[e] = tick
  BY <1>2, OneExam DEF AbsenceInv, PromptInv, X!Active, InHours
<1>4. Due(e) = NextDue(e)
  BY <1>2 DEF Due, Checking
<1>5. PICK c \in Int : c + Slack >= Due(e) /\ Accounted(e, p, c)
  BY <1>2 DEF AbsenceInv, PromptInv, InGoodTime
<1>6. X!Patience = Grace + Slack
  BY DEF X!Patience, Slack
<1>7. c + Slack >= tick + 1
  BY <1>1, <1>3, <1>4, <1>5
<1>8. Hours[e][1] + Grace + Slack < tick /\ sighted[e][p] + Grace + Slack < tick
  BY <1>1, <1>6
<1>9. c > Hours[e][1] /\ sighted[e][p] + Grace < c
  BY <1>1, <1>7, <1>8
<1>10. QED  BY <1>1, <1>5, <1>9 DEF Accounted

\* With a frame in every tick, nobody stays out of view for the grace period and
\* an interval between checks (one more for each alert that could not be written
\* and each restart) without an alert, whatever the throttle, the marks of those
\* alerted and lost checks do (exam_mode.observe).
THEOREM AbsencesReported == MCSpec => AbsenteesAreReported
<1>. DEFINE Found == tick' > tick /\ ~missed' =>
              \A e \in Exams, p \in Persons :
                 /\ X!Active(e) /\ Hours[e][1] + X!Patience < tick
                 /\ sighted[e][p] + X!Patience < tick
                 => X!Reported(e, p)
<1>1. MCInit => ExamInv /\ AbsenceInv
  BY InitExamInv, InitAbsenceInv DEF MCInit
<1>2. ExamInv /\ AbsenceInv /\ [MCNext]_<<part, vars, channels, positions, exam>>
         => ExamInv' /\ AbsenceInv' /\ [Found]_(X!vars)
  <2>1. [MCNext]_<<part, vars, channels, positions, exam>> => [X!Next]_(X!vars)
    BY DEF MCNext, channels, positions, exam, vars, X!vars, X!dicts, X!history, X!bounds
  <2>2. ASSUME ExamInv, AbsenceInv, [X!Next]_(X!vars) PROVE [Found]_(X!vars)
    <3>1. tick \in Int
      BY <2>2 DEF ExamInv, ExamTypeOK
    <3>2. X!Tick \/ tick' = tick
      BY <2>2 DEF X!Next, X!Frame, X!EndExam, X!GetActiveExam, X!Observe, X!CheckPerson, X!LogMissing,
                  X!MarkAlerted, X!CheckImposter, X!LogImposter, X!MarkImposter, X!Fail, X!Restart, X!vars
    <3>3. QED  BY <2>2, <3>1, <3>2, TickFindsReported
  <2>3. QED  BY <2>1, <2>2, NextExamInv, NextAbsenceInv
<1>3. [][Found]_(X!vars) => AbsenteesAreReported
  BY DEF AbsenteesAreReported, X!AbsenteesAreReported
<1>4. QED  BY <1>1, <1>2, <1>3, PTL DEF MCSpec
=============================================================================
