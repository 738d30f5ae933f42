------------------------- MODULE AuditStreamProofs -------------------------
(***************************************************************************)
(* Theorems about AuditStream, for any sinks, drainers, batch size, rows   *)
(* and faults.                                                             *)
(*                                                                         *)
(* StreamedInOrder is not inductive: a batch that a drainer holds was read *)
(* earlier (BatchesAreNext), and how often a row has reached a sink says   *)
(* nothing of those that still have it in hand.  Counted adds them: while  *)
(* a row is pending, each arrival is of a drainer that still holds the row *)
(* and is past the sink (Past), or is a fault; once it is streamed, no     *)
(* drainer takes it up again, and the ones that may still push it (Ahead)  *)
(* are not among those that have.                                          *)
(***************************************************************************)
EXTENDS AuditStream, TLAPS, FiniteSetTheorems

Steps == {"idle", "rows", "push", "status"}

TypeOK ==
    /\ rows \in Nat /\ streamed \subseteq 1..rows
    /\ drain \in [Drainers -> [step : Steps, todo : SUBSET Sinks, batch : SUBSET Nat,
                               ok : BOOLEAN, any_ok : BOOLEAN]]
    /\ sinks \subseteq Sinks
    /\ received \in [Sinks -> [Ids -> Nat]]
    /\ lost \in Nat /\ crashes \in Nat

\* What a drain holds fits the step it is at.
StepsFit ==
    \A t \in Drainers :
        /\ drain[t].step \in {"idle", "rows"} => drain[t].batch = {}
        /\ At(t, "status") => drain[t].todo # {}

\* What comes before a row of a batch is in the batch or streamed.
BatchesAreNext ==
    \A t \in Drainers :
        /\ drain[t].batch \subseteq 1..rows
        /\ \A i \in drain[t].batch : 1..i \subseteq streamed \cup drain[t].batch
InOrder == \A i \in streamed : 1..i \subseteq streamed

\* t holds row i and may push it to s; has been at s, and will mark the batch.
MayPush(t, s, i) ==
    /\ i \in drain[t].batch /\ s \in drain[t].todo
    /\ ~(At(t, "status") /\ s = Sink(t))
WillMark(t) == drain[t].any_ok \/ (At(t, "status") /\ drain[t].ok)
Ahead(s, i) == {t \in Drainers : MayPush(t, s, i)}
Past(s, i) == {t \in Drainers : i \in drain[t].batch /\ ~MayPush(t, s, i) /\ WillMark(t)}

CountedAt(s, i) ==
    IF i \in streamed
    THEN received[s][i] + Cardinality(Ahead(s, i)) <= Cardinality(Drainers) + lost + crashes
    ELSE received[s][i] <= Cardinality(Past(s, i)) + lost + crashes
Counted == \A s \in Sinks, i \in Ids : CountedAt(s, i)

IInv == TypeOK /\ StepsFit /\ BatchesAreNext /\ InOrder /\ Counted

-----------------------------------------------------------------------------
(* Counting.                                                               *)

\* Sets of drainers have sizes, and a larger set has the larger one.
LEMMA Sizes ==
    ASSUME NEW A, A \subseteq Drainers
    PROVE  /\ IsFiniteSet(A) /\ Cardinality(A) \in Nat /\ Cardinality(Drainers) \in Nat
           /\ Cardinality(A) <= Cardinality(Drainers)
<1>1. IsFiniteSet(Drainers)  BY SinksAssumption
<1>2. IsFiniteSet(A) /\ Cardinality(A) <= Cardinality(Drainers)
  BY <1>1, FS_Subset
<1>3. QED  BY <1>1, <1>2, FS_CardinalityType

LEMMA Grows ==
    ASSUME NEW A, NEW B, A \subseteq B, B \subseteq Drainers
    PROVE  Cardinality(A) <= Cardinality(B)
<1>1. IsFiniteSet(B)  BY Sizes
<1>2. QED  BY <1>1, FS_Subset

LEMMA Disjoint ==
    ASSUME NEW A, NEW B, A \subseteq Drainers, B \subseteq Drainers, A \cap B = {}
    PROVE  Cardinality(A) + Cardinality(B) <= Cardinality(Drainers)
<1>1. IsFiniteSet(A) /\ IsFiniteSet(B) /\ Cardinality(A) \in Nat /\ Cardinality(B) \in Nat
  BY Sizes
<1>2. Cardinality(A \cup B) = Cardinality(A) + Cardinality(B) - Cardinality(A \cap B)
  BY <1>1, FS_Union
<1>3. Cardinality(A \cap B) = 0
  BY FS_EmptySet
<1>4. Cardinality(A \cup B) <= Cardinality(Drainers)
  BY Grows
<1>5. QED  BY <1>1, <1>2, <1>3, <1>4

LEMMA OneMore ==
    ASSUME NEW A, A \subseteq Drainers, NEW t \in Drainers, t \notin A
    PROVE  Cardinality(A \cup {t}) = Cardinality(A) + 1
BY Sizes, FS_AddElement

LEMMA AheadAndPast ==
    ASSUME NEW s, NEW i
    PROVE  /\ Ahead(s, i) \subseteq Drainers /\ Past(s, i) \subseteq Drainers
           /\ Ahead(s, i) \cap Past(s, i) = {}
BY DEF Ahead, Past

\* A set of numbers has a least one.
LEMMA Least ==
    ASSUME NEW T \in SUBSET Nat, T # {}
    PROVE  \E n \in T : \A m \in T : n <= m
<1> DEFINE R == {ss \in Nat \X Nat : ss[1] < ss[2]}
<1>1. IsWellFoundedOn(R, Nat)
  BY NatLessThanWellFounded DEF OpToRel
<1>2. \A m \in T, n \in T : m < n => <<m, n>> \in R
  OBVIOUS
<1> HIDE DEF R
<1>3. PICK n \in T : \A m \in T : <<m, n>> \notin R
  BY <1>1, WFMin
<1>4. \A m \in T : ~(m < n)
  BY <1>2, <1>3
<1>5. QED  BY <1>4

\* The sink a drain is at is one of its list.
LEMMA SinkIsListed ==
    ASSUME TypeOK, NEW t \in Drainers, drain[t].todo # {}
    PROVE  Sink(t) \in drain[t].todo
<1>1. drain[t].todo \in SUBSET Nat
  BY SinksAssumption DEF TypeOK
<1>2. \E n \in drain[t].todo : \A m \in drain[t].todo : n <= m
  BY <1>1, Least
<1>3. QED  BY <1>2 DEF Sink, Min

\* ORDER BY id LIMIT n leaves no row out.
LEMMA BatchIsNext ==
    ASSUME TypeOK
    PROVE  /\ Batch \subseteq Pending
           /\ \A i \in Batch : 1..i \subseteq streamed \cup Batch
<1> SUFFICES ASSUME NEW i \in Batch, NEW k \in 1..i, k \notin streamed
             PROVE  k \in Batch
  BY DEF Batch, FirstOf
<1>1. rows \in Nat /\ i \in Pending /\ i \in 1..rows
  BY DEF TypeOK, Batch, FirstOf, Pending
<1>2. k \in Pending
  BY <1>1 DEF Pending
<1> DEFINE UpTo(n) == {j \in Pending : j <= n}
<1>3. UpTo(k) \subseteq UpTo(i)
  <2>1. Pending \subseteq Int /\ k \in Int /\ i \in Int /\ k <= i
    BY <1>1 DEF Pending
  <2> HIDE DEF Pending
  <2>2. \A j \in Pending : j <= k => j <= i  BY <2>1
  <2>3. QED  BY <2>2
<1>4. IsFiniteSet(UpTo(i))
  <2>1. IsFiniteSet(1..rows)  BY <1>1, FS_Interval
  <2>2. UpTo(i) \in SUBSET (1..rows)  BY DEF Pending
  <2>3. QED  BY <2>1, <2>2, FS_Subset
<1>5. IsFiniteSet(UpTo(k)) /\ Cardinality(UpTo(k)) <= Cardinality(UpTo(i))
  BY <1>3, <1>4, FS_Subset
<1>6. Cardinality(UpTo(i)) <= Limit
  BY DEF Batch, FirstOf
<1>7. Cardinality(UpTo(k)) \in Nat /\ Cardinality(UpTo(i)) \in Nat /\ Limit \in Nat
  BY <1>4, <1>5, FS_CardinalityType, SinksAssumption
<1>8. Cardinality(UpTo(k)) <= Limit
  BY <1>5, <1>6, <1>7
<1>9. QED  BY <1>2, <1>8 DEF Batch, FirstOf

-----------------------------------------------------------------------------
LEMMA InitIInv == Init => IInv
<1> SUFFICES ASSUME Init PROVE IInv  OBVIOUS
<1>1. TypeOK /\ StepsFit /\ BatchesAreNext /\ InOrder
  BY DEF Init, TypeOK, StepsFit, BatchesAreNext, InOrder, Idle, Steps, At
<1>2. ASSUME NEW s \in Sinks, NEW i \in Ids PROVE CountedAt(s, i)
  <2>1. received[s][i] = 0 /\ lost = 0 /\ crashes = 0 /\ streamed = {}
    BY DEF Init
  <2>2. Cardinality(Past(s, i)) \in Nat
    BY Sizes, AheadAndPast
  <2>3. QED  BY <2>1, <2>2 DEF CountedAt
<1>3. QED  BY <1>1, <1>2 DEF IInv, Counted

\* The audit and the forms change no drain.
LEMMA OthersKeep ==
    ASSUME IInv, UNCHANGED <<streamed, drain, network, crashes>>,
           rows' \in Nat, rows' >= rows, sinks' \subseteq Sinks
    PROVE  IInv'
<1>1. UNCHANGED <<streamed, drain, received, lost, crashes>>
  BY DEF network
<1>2. 1..rows \subseteq 1..(rows')
  BY DEF IInv, TypeOK
<1>3. TypeOK' /\ StepsFit' /\ BatchesAreNext' /\ InOrder'
  BY <1>1, <1>2 DEF IInv, TypeOK, StepsFit, BatchesAreNext, InOrder, At, Ids
<1>4. Counted'
  BY <1>1 DEF IInv, Counted, CountedAt, Ahead, Past, MayPush, WillMark, At, Sink
<1>5. QED  BY <1>3, <1>4 DEF IInv

\* Where a step takes nothing from Past and puts nothing into Ahead, and nothing
\* arrives, the count stands.
LEMMA CountStands ==
    ASSUME IInv, NEW s \in Sinks, NEW i \in Ids,
           UNCHANGED <<streamed, received>>,
           lost' \in Nat, crashes' \in Nat, lost' >= lost, crashes' >= crashes,
           i \in streamed => Ahead(s, i)' \subseteq Ahead(s, i),
           i \notin streamed => Past(s, i) \subseteq Past(s, i)'
    PROVE  CountedAt(s, i)'
<1>1. CountedAt(s, i) /\ lost \in Nat /\ crashes \in Nat /\ received[s][i] \in Nat
  BY DEF IInv, Counted, TypeOK
<1>2. Ahead(s, i)' \subseteq Drainers /\ Past(s, i)' \subseteq Drainers
  BY DEF Ahead, Past
<1>3. /\ Cardinality(Ahead(s, i)) \in Nat /\ Cardinality(Ahead(s, i)') \in Nat
      /\ Cardinality(Past(s, i)) \in Nat /\ Cardinality(Past(s, i)') \in Nat
      /\ Cardinality(Drainers) \in Nat
  BY <1>2, AheadAndPast, Sizes
<1>4. CASE i \in streamed
  <2>1. Cardinality(Ahead(s, i)') <= Cardinality(Ahead(s, i))
    BY <1>4, Grows, AheadAndPast
  <2>2. QED  BY <1>1, <1>3, <1>4, <2>1 DEF CountedAt
<1>5. CASE i \notin streamed
  <2>1. Cardinality(Past(s, i)) <= Cardinality(Past(s, i)')
    BY <1>2, <1>5, Grows
  <2>2. QED  BY <1>1, <1>3, <1>5, <2>1 DEF CountedAt
<1>6. QED  BY <1>4, <1>5

-----------------------------------------------------------------------------
(* One lemma for each step of a drain.                                     *)

\* A drainer that is idle or about to read holds no row.
LEMMA ListSinksKeeps ==
    ASSUME IInv, NEW t \in Drainers, ListSinks(t)
    PROVE  IInv'
<1>1. UNCHANGED <<rows, streamed, sinks, received, lost, crashes>>
  BY DEF ListSinks, table, admin, network
<1>2. /\ drain' = [drain EXCEPT ![t] = [Idle EXCEPT !.step = "rows", !.todo = sinks]]
      /\ drain[t].step = "idle"
  BY DEF ListSinks, At
<1>3. TypeOK' /\ StepsFit' /\ BatchesAreNext' /\ InOrder'
  BY <1>1, <1>2 DEF IInv, TypeOK, StepsFit, BatchesAreNext, InOrder, At, Idle, Steps, Ids
<1>4. ASSUME NEW s \in Sinks, NEW i \in Ids PROVE CountedAt(s, i)'
  <2>1. drain[t].batch = {} /\ drain'[t].batch = {}
    BY <1>2 DEF IInv, StepsFit, TypeOK, Idle
  <2>2. \A u \in Drainers \ {t} : drain'[u] = drain[u]
    BY <1>2 DEF IInv, TypeOK
  <2>3. Ahead(s, i)' \subseteq Ahead(s, i) /\ Past(s, i) \subseteq Past(s, i)'
    BY <2>1, <2>2 DEF Ahead, Past, MayPush, WillMark, At, Sink
  <2>4. QED  BY <1>1, <2>3, CountStands DEF IInv, TypeOK
<1>5. QED  BY <1>3, <1>4 DEF IInv, Counted

\* The rows of a new batch are pending: Ahead of a streamed row stays.
LEMMA ReadRowsKeeps ==
    ASSUME IInv, NEW t \in Drainers, ReadRows(t)
    PROVE  IInv'
<1>1. UNCHANGED <<rows, streamed, sinks, received, lost, crashes>>
  BY DEF ReadRows, table, admin, network
<1> DEFINE new == IF Batch = {} \/ drain[t].todo = {} THEN Idle
                  ELSE [drain[t] EXCEPT !.step = "push", !.batch = Batch]
<1>2. drain' = [drain EXCEPT ![t] = new] /\ drain[t].step = "rows"
  BY DEF ReadRows, At
<1>3. drain[t] \in [step : Steps, todo : SUBSET Sinks, batch : SUBSET Nat,
                    ok : BOOLEAN, any_ok : BOOLEAN]
  BY DEF IInv, TypeOK
<1>4. /\ Batch \subseteq Pending
      /\ \A i \in Batch : 1..i \subseteq streamed \cup Batch
  BY BatchIsNext DEF IInv
<1>5. Batch \subseteq 1..rows /\ Batch \in SUBSET Nat
  BY <1>4 DEF Pending, IInv, TypeOK
<1>6. /\ new \in [step : Steps, todo : SUBSET Sinks, batch : SUBSET Nat,
                  ok : BOOLEAN, any_ok : BOOLEAN]
      /\ new.step \in {"idle", "push"} /\ new.batch \in {{}, Batch}
      /\ new.step = "idle" => new.batch = {}
  BY <1>3, <1>5 DEF Idle, Steps
<1> HIDE DEF new
<1>7. drain'[t] = new /\ \A u \in Drainers \ {t} : drain'[u] = drain[u]
  BY <1>2 DEF IInv, TypeOK
<1>8. TypeOK'
  BY <1>1, <1>2, <1>6 DEF IInv, TypeOK, Ids
<1>9. StepsFit'
  BY <1>6, <1>7 DEF IInv, StepsFit, At
<1>10. BatchesAreNext' /\ InOrder'
  BY <1>1, <1>4, <1>5, <1>6, <1>7 DEF IInv, BatchesAreNext, InOrder
<1>11. ASSUME NEW s \in Sinks, NEW i \in Ids PROVE CountedAt(s, i)'
  <2>1. drain[t].batch = {}
    BY <1>2 DEF IInv, StepsFit
  <2>2. Past(s, i) \subseteq Past(s, i)'
    BY <1>7, <2>1 DEF Past, MayPush, WillMark, At, Sink
  <2>3. ASSUME i \in streamed PROVE Ahead(s, i)' \subseteq Ahead(s, i)
    <3>1. i \notin drain'[t].batch
      BY <1>4, <1>6, <1>7, <2>3 DEF Pending
    <3>2. QED  BY <1>7, <3>1 DEF Ahead, MayPush, At, Sink
  <2>4. QED  BY <1>1, <2>2, <2>3, CountStands DEF IInv, TypeOK
<1>12. QED  BY <1>8, <1>9, <1>10, <1>11 DEF IInv, Counted

\* The sink that was at its turn is past, and counted among those past if it
\* answered.
LEMMA PushKeeps ==
    ASSUME IInv, NEW t \in Drainers, Push(t)
    PROVE  IInv'
<1> DEFINE s0 == Sink(t)
<1>1. UNCHANGED <<rows, streamed, sinks, crashes>> /\ drain[t].step = "push" /\ drain[t].todo # {}
  BY DEF Push, table, admin, At
<1>2. s0 \in drain[t].todo /\ s0 \in Sinks
  BY <1>1, SinkIsListed DEF IInv, TypeOK
<1>3. PICK ok \in BOOLEAN : drain' = [drain EXCEPT ![t] = [@ EXCEPT !.step = "status", !.ok = ok]]
  BY DEF Push, Answered
<1>4. /\ \A u \in Drainers \ {t} : drain'[u] = drain[u]
      /\ drain'[t] = [drain[t] EXCEPT !.step = "status", !.ok = ok]
  BY <1>3 DEF IInv, TypeOK
<1>5. drain[t] \in [step : Steps, todo : SUBSET Sinks, batch : SUBSET Nat,
                    ok : BOOLEAN, any_ok : BOOLEAN]
  BY DEF IInv, TypeOK
<1>6. /\ drain'[t].step = "status" /\ drain'[t].ok = ok
      /\ drain'[t].todo = drain[t].todo /\ drain'[t].batch = drain[t].batch
      /\ drain'[t].any_ok = drain[t].any_ok
      /\ drain'[t] \in [step : Steps, todo : SUBSET Sinks, batch : SUBSET Nat,
                        ok : BOOLEAN, any_ok : BOOLEAN]
  BY <1>4, <1>5 DEF Steps
<1>7. Sink(t)' = s0
  BY <1>6 DEF Sink
<1> DEFINE arrived == [received EXCEPT ![s0] =
                          [i \in Ids |-> @[i] + (IF i \in drain[t].batch THEN 1 ELSE 0)]]
<1>8. \/ ok = TRUE /\ received' = arrived /\ lost' = lost
      \/ received' = arrived /\ lost' = lost + 1
      \/ received' = received /\ lost' = lost
  BY <1>3, <1>4, <1>6 DEF Push, Arrives, Answered, IInv, TypeOK
<1>9. /\ arrived \in [Sinks -> [Ids -> Nat]]
      /\ \A s \in Sinks \ {s0} : arrived[s] = received[s]
      /\ \A i \in Ids : arrived[s0][i] = received[s0][i]
                                         + (IF i \in drain[t].batch THEN 1 ELSE 0)
  BY <1>2 DEF IInv, TypeOK
<1> HIDE DEF s0, arrived
<1>10. TypeOK'
  <2>1. drain' \in [Drainers -> [step : Steps, todo : SUBSET Sinks, batch : SUBSET Nat,
                                 ok : BOOLEAN, any_ok : BOOLEAN]]
    BY <1>3, <1>4, <1>6 DEF IInv, TypeOK
  <2>2. received' \in [Sinks -> [Ids -> Nat]] /\ lost' \in Nat
    BY <1>8, <1>9 DEF IInv, TypeOK
  <2>3. QED  BY <1>1, <2>1, <2>2 DEF IInv, TypeOK, Ids
<1>11. StepsFit' /\ BatchesAreNext' /\ InOrder'
  <2>1. StepsFit'
    <3>1. drain'[t].step \notin {"idle", "rows"} /\ drain'[t].todo # {}
      BY <1>1, <1>6
    <3>2. \A u \in Drainers \ {t} : drain'[u] = drain[u]
      BY <1>4
    <3>3. QED  BY <3>1, <3>2 DEF IInv, StepsFit, At
  <2>2. BatchesAreNext' /\ InOrder'
    <3>1. \A u \in Drainers : drain'[u].batch = drain[u].batch
      BY <1>4, <1>6
    <3>2. QED  BY <1>1, <3>1 DEF IInv, BatchesAreNext, InOrder
  <2>3. QED  BY <2>1, <2>2
<1>12. ASSUME NEW s \in Sinks, NEW i \in Ids PROVE CountedAt(s, i)'
  <2>1. lost \in Nat /\ lost' \in Nat /\ lost' >= lost /\ crashes' \in Nat /\ crashes' >= crashes
        /\ crashes' = crashes /\ crashes \in Nat
    BY <1>1, <1>8, <1>10 DEF IInv, TypeOK
  <2>2. \A u \in Drainers \ {t} : /\ u \in Ahead(s, i)' <=> u \in Ahead(s, i)
                                  /\ u \in Past(s, i)' <=> u \in Past(s, i)
    BY <1>4 DEF Ahead, Past, MayPush, WillMark, At, Sink
  <2>3. t \in Ahead(s, i)' <=> i \in drain[t].batch /\ s \in drain[t].todo /\ s # s0
    BY <1>6, <1>7 DEF Ahead, MayPush, At
  <2>4. t \in Ahead(s, i) <=> i \in drain[t].batch /\ s \in drain[t].todo
    BY <1>1 DEF Ahead, MayPush, At
  <2>5. t \in Past(s, i) => t \in Past(s, i)'
    BY <1>1, <1>6, <1>7 DEF Past, MayPush, WillMark, At
  <2>6. CASE s # s0 \/ i \notin drain[t].batch \/ received' = received
    <3>1. received'[s][i] = received[s][i]
      BY <1>8, <1>9, <2>6 DEF IInv, TypeOK
    <3>2. Ahead(s, i)' \subseteq Ahead(s, i) /\ Past(s, i) \subseteq Past(s, i)'
      BY <2>2, <2>3, <2>4, <2>5 DEF Ahead, Past
    <3>3. Ahead(s, i)' \subseteq Drainers /\ Past(s, i)' \subseteq Drainers
      BY DEF Ahead, Past
    <3>4. /\ Cardinality(Ahead(s, i)') <= Cardinality(Ahead(s, i))
          /\ Cardinality(Past(s, i)) <= Cardinality(Past(s, i)')
      BY <3>2, <3>3, AheadAndPast, Grows
    <3>5. CountedAt(s, i) /\ received[s][i] \in Nat
      BY DEF IInv, Counted, TypeOK
    <3>6. /\ Cardinality(Ahead(s, i)) \in Nat /\ Cardinality(Ahead(s, i)') \in Nat
          /\ Cardinality(Past(s, i)) \in Nat /\ Cardinality(Past(s, i)') \in Nat
          /\ Cardinality(Drainers) \in Nat
      BY <3>3, AheadAndPast, Sizes
    <3>7. QED  BY <1>1, <2>1, <3>1, <3>4, <3>5, <3>6 DEF CountedAt
  <2>7. CASE s = s0 /\ i \in drain[t].batch /\ received' = arrived
    <3>1. received'[s][i] = received[s][i] + 1
      BY <1>9, <2>7
    <3>2. t \in Ahead(s, i) /\ t \notin Ahead(s, i)' /\ t \notin Past(s, i)
      BY <1>2, <2>3, <2>4, <2>7 DEF Ahead, Past
    <3>3. Ahead(s, i) = Ahead(s, i)' \cup {t}
      BY <2>2, <3>2 DEF Ahead
    <3>4. Ahead(s, i)' \subseteq Drainers /\ Past(s, i)' \subseteq Drainers
      BY DEF Ahead, Past
    <3>5. Cardinality(Ahead(s, i)) = Cardinality(Ahead(s, i)') + 1
      BY <3>2, <3>3, <3>4, OneMore
    <3>6. Past(s, i) \subseteq Past(s, i)'
      BY <2>2, <2>5 DEF Past
    <3>7. Cardinality(Past(s, i)) <= Cardinality(Past(s, i)')
      BY <3>4, <3>6, Grows
    <3>8. CountedAt(s, i) /\ received[s][i] \in Nat
      BY DEF IInv, Counted, TypeOK
    <3>9. /\ Cardinality(Ahead(s, i)) \in Nat /\ Cardinality(Ahead(s, i)') \in Nat
          /\ Cardinality(Past(s, i)) \in Nat /\ Cardinality(Past(s, i)') \in Nat
          /\ Cardinality(Drainers) \in Nat
      BY <3>4, AheadAndPast, Sizes
    <3>10. CASE lost' = lost + 1
      BY <1>1, <2>1, <3>1, <3>5, <3>7, <3>8, <3>9, <3>10 DEF CountedAt
    <3>11. CASE ok = TRUE /\ lost' = lost
      <4>1. t \in Past(s, i)'
        BY <1>6, <2>3, <2>7, <3>11 DEF Past, MayPush, WillMark, At, Ahead
      <4>2. Past(s, i) \cup {t} \subseteq Past(s, i)'
        BY <3>6, <4>1
      <4>3. Cardinality(Past(s, i) \cup {t}) = Cardinality(Past(s, i)) + 1
        BY <3>2, AheadAndPast, OneMore
      <4>4. Cardinality(Past(s, i)) + 1 <= Cardinality(Past(s, i)')
        BY <3>4, <4>2, <4>3, Grows
      <4>5. QED  BY <1>1, <2>1, <3>1, <3>5, <3>8, <3>9, <3>11, <4>4 DEF CountedAt
    <3>12. QED
      BY <1>8, <2>6, <3>10, <3>11
  <2>8. QED  BY <1>8, <2>6, <2>7
<1>13. QED  BY <1>10, <1>11, <1>12 DEF IInv, Counted

\* The sink leaves the list and its answer is remembered: nothing moves.
LEMMA SetStatusKeeps ==
    ASSUME IInv, NEW t \in Drainers, SetStatus(t)
    PROVE  IInv'
<1>1. UNCHANGED <<rows, streamed, sinks, received, lost, crashes>> /\ drain[t].step = "status"
  BY DEF SetStatus, table, admin, network, At
<1> DEFINE new == [drain[t] EXCEPT !.step = "push", !.todo = drain[t].todo \ {Sink(t)},
                                     !.any_ok = AnyOk(t)]
<1>2. drain' = [drain EXCEPT ![t] = new]
  BY DEF SetStatus
<1>3. drain[t] \in [step : Steps, todo : SUBSET Sinks, batch : SUBSET Nat,
                    ok : BOOLEAN, any_ok : BOOLEAN]
  BY DEF IInv, TypeOK
<1>4. AnyOk(t) \in BOOLEAN
  BY <1>3 DEF AnyOk
<1>5. /\ new \in [step : Steps, todo : SUBSET Sinks, batch : SUBSET Nat,
                  ok : BOOLEAN, any_ok : BOOLEAN]
      /\ new.step = "push" /\ new.batch = drain[t].batch /\ new.todo = drain[t].todo \ {Sink(t)}
      /\ new.any_ok = AnyOk(t)
  BY <1>3, <1>4 DEF Steps
<1> HIDE DEF new
<1>6. drain'[t] = new /\ \A u \in Drainers \ {t} : drain'[u] = drain[u]
  BY <1>2 DEF IInv, TypeOK
<1>7. TypeOK' /\ StepsFit' /\ BatchesAreNext' /\ InOrder'
  BY <1>1, <1>2, <1>5, <1>6 DEF IInv, TypeOK, StepsFit, BatchesAreNext, InOrder, At, Ids
<1>8. ASSUME NEW s \in Sinks, NEW i \in Ids PROVE CountedAt(s, i)'
  <2>1. MayPush(t, s, i)' <=> MayPush(t, s, i)
    BY <1>1, <1>5, <1>6 DEF MayPush, At
  <2>2. WillMark(t) => WillMark(t)'
    BY <1>1, <1>5, <1>6 DEF WillMark, AnyOk, At
  <2>3. Ahead(s, i)' \subseteq Ahead(s, i) /\ Past(s, i) \subseteq Past(s, i)'
    BY <1>5, <1>6, <2>1, <2>2 DEF Ahead, Past, MayPush, WillMark, At, Sink
  <2>4. QED  BY <1>1, <2>3, CountStands DEF IInv, TypeOK
<1>9. QED  BY <1>7, <1>8 DEF IInv, Counted

\* The rows that become streamed have reached each sink by drainers that are
\* past it, and others may still be ahead of it: no drainer is both.
LEMMA MarkStreamedKeeps ==
    ASSUME IInv, NEW t \in Drainers, MarkStreamed(t)
    PROVE  IInv'
<1>1. /\ UNCHANGED <<rows, sinks, received, lost, crashes>>
      /\ drain[t].step = "push" /\ drain[t].todo = {}
      /\ streamed' = IF drain[t].any_ok THEN streamed \cup drain[t].batch ELSE streamed
      /\ drain' = [drain EXCEPT ![t] = Idle]
  BY DEF MarkStreamed, admin, network, At
<1>2. drain'[t] = Idle /\ \A u \in Drainers \ {t} : drain'[u] = drain[u]
  BY <1>1 DEF IInv, TypeOK
<1>3. drain[t].batch \subseteq 1..rows
  BY DEF IInv, BatchesAreNext
<1>4. TypeOK'
  BY <1>1, <1>3 DEF IInv, TypeOK, Idle, Steps, Ids
<1>5. StepsFit' /\ BatchesAreNext'
  BY <1>1, <1>2 DEF IInv, StepsFit, BatchesAreNext, At, Idle
<1>6. InOrder'
  BY <1>1 DEF IInv, InOrder, BatchesAreNext
<1>7. ASSUME NEW s \in Sinks, NEW i \in Ids PROVE CountedAt(s, i)'
  <2>1. Ahead(s, i)' \subseteq Ahead(s, i)
    BY <1>2 DEF Ahead, MayPush, At, Sink, Idle
  <2>2. ASSUME i \notin streamed' PROVE Past(s, i) \subseteq Past(s, i)'
    <3>1. t \notin Past(s, i)
      BY <1>1, <2>2 DEF Past, WillMark, At
    <3>2. QED  BY <1>2, <3>1 DEF Past, MayPush, WillMark, At, Sink
  <2>3. CASE (i \in streamed') = (i \in streamed)
    <3>1. CountedAt(s, i) /\ received[s][i] \in Nat /\ lost \in Nat /\ crashes \in Nat
      BY DEF IInv, Counted, TypeOK
    <3>2. Ahead(s, i)' \subseteq Drainers /\ Past(s, i)' \subseteq Drainers
      BY DEF Ahead, Past
    <3>3. /\ Cardinality(Ahead(s, i)) \in Nat /\ Cardinality(Ahead(s, i)') \in Nat
          /\ Cardinality(Past(s, i)) \in Nat /\ Cardinality(Past(s, i)') \in Nat
          /\ Cardinality(Drainers) \in Nat
      BY <3>2, AheadAndPast, Sizes
    <3>4. Cardinality(Ahead(s, i)') <= Cardinality(Ahead(s, i))
      BY <2>1, AheadAndPast, Grows
    <3>5. i \notin streamed' => Cardinality(Past(s, i)) <= Cardinality(Past(s, i)')
      BY <2>2, <3>2, Grows
    <3>6. QED  BY <1>1, <2>3, <3>1, <3>3, <3>4, <3>5 DEF CountedAt
  <2>4. CASE i \in streamed' /\ i \notin streamed
    <3>1. received[s][i] <= Cardinality(Past(s, i)) + lost + crashes
      BY <2>4 DEF IInv, Counted, CountedAt
    <3>2. Cardinality(Ahead(s, i)) + Cardinality(Past(s, i)) <= Cardinality(Drainers)
      BY AheadAndPast, Disjoint
    <3>3. Ahead(s, i)' \subseteq Drainers
      BY DEF Ahead
    <3>4. Cardinality(Ahead(s, i)') <= Cardinality(Ahead(s, i))
      BY <2>1, AheadAndPast, Grows
    <3>5. /\ Cardinality(Ahead(s, i)) \in Nat /\ Cardinality(Ahead(s, i)') \in Nat
          /\ Cardinality(Past(s, i)) \in Nat /\ Cardinality(Drainers) \in Nat
      BY <3>3, AheadAndPast, Sizes
    <3>6. received[s][i] \in Nat /\ lost \in Nat /\ crashes \in Nat
      BY DEF IInv, TypeOK
    <3>7. QED  BY <1>1, <2>4, <3>1, <3>2, <3>4, <3>5, <3>6 DEF CountedAt
  <2>5. i \in streamed => i \in streamed'
    BY <1>1
  <2>6. QED  BY <2>3, <2>4, <2>5
<1>8. QED  BY <1>4, <1>5, <1>6, <1>7 DEF IInv, Counted

\* A drain that is cut short takes one from those past each sink, which the count
\* of crashes makes up for.
LEMMA AbortKeeps ==
    ASSUME IInv, NEW t \in Drainers, Abort(t)
    PROVE  IInv'
<1>1. /\ UNCHANGED <<rows, streamed, sinks, received, lost>>
      /\ crashes' = crashes + 1 /\ drain' = [drain EXCEPT ![t] = Idle]
  BY DEF Abort, table, admin, network
<1>2. drain'[t] = Idle /\ \A u \in Drainers \ {t} : drain'[u] = drain[u]
  BY <1>1 DEF IInv, TypeOK
<1>3. TypeOK'
  BY <1>1 DEF IInv, TypeOK, Idle, Steps, Ids
<1>4. StepsFit' /\ BatchesAreNext' /\ InOrder'
  BY <1>1, <1>2 DEF IInv, StepsFit, BatchesAreNext, InOrder, At, Idle
<1>5. ASSUME NEW s \in Sinks, NEW i \in Ids PROVE CountedAt(s, i)'
  <2>1. Ahead(s, i)' \subseteq Ahead(s, i)
    BY <1>2 DEF Ahead, MayPush, At, Sink, Idle
  <2>2. t \notin Past(s, i)'
    BY <1>2 DEF Past, Idle
  <2>3. Past(s, i) \subseteq Past(s, i)' \cup {t}
    BY <1>2 DEF Past, MayPush, WillMark, At, Sink
  <2>4. Past(s, i)' \subseteq Drainers /\ Ahead(s, i)' \subseteq Drainers
    BY DEF Past, Ahead
  <2>5. Cardinality(Past(s, i)' \cup {t}) = Cardinality(Past(s, i)') + 1
    BY <2>2, <2>4, OneMore
  <2>6. Cardinality(Past(s, i)) <= Cardinality(Past(s, i)') + 1
    <3>1. Past(s, i)' \cup {t} \subseteq Drainers
      BY <2>4
    <3>2. Cardinality(Past(s, i)) <= Cardinality(Past(s, i)' \cup {t})
      BY <2>3, <3>1, Grows
    <3>3. QED  BY <2>5, <3>2
  <2>7. Cardinality(Ahead(s, i)') <= Cardinality(Ahead(s, i))
    BY <2>1, AheadAndPast, Grows
  <2>8. /\ Cardinality(Ahead(s, i)) \in Nat /\ Cardinality(Ahead(s, i)') \in Nat
        /\ Cardinality(Past(s, i)) \in Nat /\ Cardinality(Past(s, i)') \in Nat
        /\ Cardinality(Drainers) \in Nat
    BY <2>4, AheadAndPast, Sizes
  <2>9. CountedAt(s, i) /\ received[s][i] \in Nat /\ lost \in Nat /\ crashes \in Nat
    BY DEF IInv, Counted, TypeOK
  <2>10. QED  BY <1>1, <2>6, <2>7, <2>8, <2>9 DEF CountedAt
<1>6. QED  BY <1>3, <1>4, <1>5 DEF IInv, Counted

-----------------------------------------------------------------------------
LEMMA NextIInv == IInv /\ [Next]_vars => IInv'
<1> SUFFICES ASSUME IInv, [Next]_vars PROVE IInv'  OBVIOUS
<1>1. rows \in Nat /\ sinks \subseteq Sinks
  BY DEF IInv, TypeOK
<1>2. CASE Audit
  BY <1>1, <1>2, OthersKeep DEF Audit, admin
<1>3. ASSUME NEW s \in Sinks, AddSink(s) \/ DeleteSink(s) PROVE IInv'
  <2>1. UNCHANGED <<rows, streamed, drain, network, crashes>> /\ sinks' \subseteq Sinks
    BY <1>1, <1>3 DEF AddSink, DeleteSink, table
  <2>2. QED  BY <1>1, <2>1, OthersKeep
<1>4. ASSUME NEW t \in Drainers, Drain(t) \/ Abort(t) PROVE IInv'
  BY <1>4, ListSinksKeeps, ReadRowsKeeps, PushKeeps, SetStatusKeeps, MarkStreamedKeeps,
     AbortKeeps DEF Drain
<1>5. CASE UNCHANGED vars
  BY <1>1, <1>5, OthersKeep DEF vars, table, admin, network
<1>6. QED  BY <1>2, <1>3, <1>4, <1>5 DEF Next

\* The invariant of the stream, in every behaviour.
THEOREM IInvHolds == Spec => []IInv
<1>1. Init => IInv  BY InitIInv
<1>2. IInv /\ [Next]_vars => IInv'  BY NextIInv
<1>3. QED  BY <1>1, <1>2, PTL DEF Spec

\* The trail leaves in order, and a sink gets a row at most once for each drainer,
\* each lost answer and each drain that was cut short (drain_once).
THEOREM TrailLeavesInOrder == Spec => []StreamedInOrder
<1>1. IInv => StreamedInOrder
  <2> SUFFICES ASSUME IInv PROVE StreamedInOrder  OBVIOUS
  <2>1. ASSUME NEW s \in Sinks, NEW i \in Ids
        PROVE  received[s][i] <= Cardinality(Drainers) + lost + crashes
    <3>1. CountedAt(s, i) /\ received[s][i] \in Nat /\ lost \in Nat /\ crashes \in Nat
      BY DEF IInv, Counted, TypeOK
    <3>2. /\ Cardinality(Ahead(s, i)) \in Nat /\ Cardinality(Past(s, i)) \in Nat
          /\ Cardinality(Drainers) \in Nat /\ Cardinality(Past(s, i)) <= Cardinality(Drainers)
      BY AheadAndPast, Sizes
    <3>3. QED  BY <3>1, <3>2 DEF CountedAt
  <2>2. QED  BY <2>1 DEF StreamedInOrder, IInv, InOrder
<1>2. QED  BY <1>1, IInvHolds, PTL
=============================================================================
