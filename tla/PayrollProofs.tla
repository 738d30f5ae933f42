--------------------------- MODULE PayrollProofs ---------------------------
(***************************************************************************)
(* Theorems about what MCPayroll composes: the payroll report (Payroll),   *)
(* the dashboard (Reports, R!), the memoised analytics (Memo, M!),         *)
(* webhooks and connectors (Deliveries, D!) and backups (Backup, B!).      *)
(* They hold for any number of persons, requests, threads, receivers and   *)
(* runs; each component has an invariant of its own, and a step of MCNext  *)
(* is a step of that component or leaves it alone.                         *)
(***************************************************************************)
EXTENDS MCPayroll, TLAPS, FiniteSetTheorems, FunctionTheorems

-----------------------------------------------------------------------------
(* The payroll report.  TypeOK is not inductive: that the next id is new   *)
(* needs the ids to be at most the number of requests, which IInv adds.    *)
(* The statements about the report follow from the types alone, since they *)
(* hold of every table in which a check-in makes a row; PartOf is the      *)
(* counting they share.                                                    *)
Rows == {NoRow} \cup {Row(l) : l \in BOOLEAN}

IInv ==
    /\ attendance \in [Persons -> [Days -> Rows]]
    /\ leaves \subseteq Leave /\ holidays \subseteq Holiday
    /\ \A l, m \in leaves : l.id = m.id => l = m
    /\ IsFiniteSet(leaves)
    /\ \A l \in leaves : l.id <= Cardinality(leaves)

-----------------------------------------------------------------------------
\* A part of a finite set and what is left of it.
LEMMA PartOf ==
    ASSUME NEW W, IsFiniteSet(W), NEW A, A \subseteq W
    PROVE  /\ IsFiniteSet(A) /\ IsFiniteSet(W \ A)
           /\ Cardinality(W) \in Nat /\ Cardinality(A) \in Nat /\ Cardinality(W \ A) \in Nat
           /\ Cardinality(W \ A) = Cardinality(W) - Cardinality(A)
           /\ Cardinality(A) <= Cardinality(W)
<1>1. IsFiniteSet(A) /\ Cardinality(A) <= Cardinality(W)
  BY FS_Subset
<1>2. IsFiniteSet(W \ A)
  BY FS_Subset, W \ A \in SUBSET W
<1>3. Cardinality(W) = Cardinality(A) + Cardinality(W \ A)
  <2>1. A \cup (W \ A) = W /\ A \cap (W \ A) = {}
    OBVIOUS
  <2>2. Cardinality(A \cup (W \ A))
            = Cardinality(A) + Cardinality(W \ A) - Cardinality(A \cap (W \ A))
    BY <1>1, <1>2, FS_Union
  <2>3. Cardinality(A) \in Nat /\ Cardinality(W \ A) \in Nat
    BY <1>1, <1>2, FS_CardinalityType
  <2>4. Cardinality(A \cup (W \ A)) = Cardinality(W)
    BY <2>1
  <2>5. Cardinality(A \cap (W \ A)) = 0
    BY <2>1, FS_EmptySet
  <2>6. QED  BY <2>2, <2>3, <2>4, <2>5
<1>4. Cardinality(W) \in Nat /\ Cardinality(A) \in Nat /\ Cardinality(W \ A) \in Nat
  BY <1>1, <1>2, FS_CardinalityType
<1>5. QED  BY <1>1, <1>2, <1>3, <1>4

LEMMA DaysFinite == IsFiniteSet(Days)
<1>1. MaxDay \in Int  BY PayrollAssumption
<1>2. QED  BY <1>1, FS_Interval DEF Days

-----------------------------------------------------------------------------
LEMMA InitIInv == Init => IInv
<1>1. IsFiniteSet({}) /\ Cardinality({}) = 0
  BY FS_EmptySet
<1>2. QED  BY <1>1 DEF Init, IInv, Rows

LEMMA AnyRow == \A l \in BOOLEAN : Row(l) \in Rows
BY DEF Rows

\* A new row of attendance is a row.
LEMMA NewRow ==
    ASSUME attendance \in [Persons -> [Days -> Rows]], NEW p \in Persons, NEW d \in Days,
           NEW r \in Rows, attendance' = [attendance EXCEPT ![p] = [@ EXCEPT ![d] = r]]
    PROVE  attendance' \in [Persons -> [Days -> Rows]]
<1>1. attendance[p] \in [Days -> Rows]  OBVIOUS
<1>2. [attendance[p] EXCEPT ![d] = r] \in [Days -> Rows]  BY <1>1
<1>3. QED  BY <1>2

LEMMA NextIInv == IInv /\ [Next]_vars => IInv'
<1> SUFFICES ASSUME IInv, [Next]_vars PROVE IInv'  OBVIOUS
<1>n. Cardinality(leaves) \in Nat
  BY FS_CardinalityType DEF IInv
<1>1. ASSUME NEW p \in Persons, NEW d \in Days, NEW late \in BOOLEAN, CheckIn(p, d, late)
      PROVE  IInv'
  <2>1. Row(late) \in Rows  BY AnyRow
  <2>2. attendance' \in [Persons -> [Days -> Rows]]
    BY <1>1, <2>1, NewRow DEF IInv, CheckIn
  <2>3. QED  BY <1>1, <2>2 DEF IInv, CheckIn
<1>2. ASSUME NEW p \in Persons, NEW d \in Days, CheckOutOnly(p, d)
      PROVE  IInv'
  <2>1. Row(FALSE) \in Rows  BY AnyRow
  <2>2. attendance' \in [Persons -> [Days -> Rows]]
    BY <1>2, <2>1, NewRow DEF IInv, CheckOutOnly
  <2>3. QED  BY <1>2, <2>2 DEF IInv, CheckOutOnly
<1>3. ASSUME NEW p \in Persons, NEW s \in Days, NEW e \in Days, AddLeave(p, s, e)
      PROVE  IInv'
  <2> DEFINE n == Cardinality(leaves)
             new == [id |-> n + 1, person |-> p, start |-> s, end |-> e, status |-> "pending"]
  <2>1. n + 1 \in 1..MaxLeaves
    BY <1>3, <1>n, PayrollAssumption DEF AddLeave
  <2>2. new \in Leave
    BY <2>1 DEF Leave, Statuses
  <2>3. leaves' = leaves \cup {new}
    BY <1>3 DEF AddLeave
  <2>4. \A l \in leaves : l.id \in Nat /\ l.id <= n
    BY DEF IInv, Leave
  <2>5. new \notin leaves /\ new.id = n + 1
    BY <2>4, <1>n
  <2>6. IsFiniteSet(leaves') /\ Cardinality(leaves') = n + 1
    BY <2>3, <2>5, FS_AddElement DEF IInv
  <2>7. \A l \in leaves' : l.id <= Cardinality(leaves')
    BY <2>3, <2>4, <2>5, <2>6, <1>n
  <2>8. \A l, m \in leaves' : l.id = m.id => l = m
    BY <2>3, <2>4, <2>5, <1>n DEF IInv
  <2>9. leaves' \subseteq Leave
    BY <2>2, <2>3 DEF IInv
  <2>10. QED  BY <1>3, <2>6, <2>7, <2>8, <2>9 DEF IInv, AddLeave
<1>4. ASSUME NEW l \in leaves, NEW status \in {"approved", "rejected"}, DecideLeave(l, status)
      PROVE  IInv'
  <2> DEFINE rest == leaves \ {l}
             new == [l EXCEPT !.status = status]
  <2>1. l \in Leave  BY DEF IInv
  <2>2. new \in Leave /\ new.id = l.id
    BY <2>1 DEF Leave, Statuses
  <2>3. leaves' = rest \cup {new}
    BY <1>4 DEF DecideLeave
  <2>4. \A m \in rest : m \in leaves /\ m.id # new.id
    BY <2>2 DEF IInv
  <2>5. new \notin rest  BY <2>4
  <2>6. IsFiniteSet(rest) /\ Cardinality(rest) = Cardinality(leaves) - 1
    BY FS_RemoveElement DEF IInv
  <2>7. IsFiniteSet(leaves') /\ Cardinality(leaves') = Cardinality(leaves)
    BY <2>3, <2>5, <2>6, <1>n, FS_AddElement
  <2>8. \A m \in leaves' : m.id <= Cardinality(leaves')
    BY <2>2, <2>3, <2>4, <2>7 DEF IInv
  <2>9. \A k, m \in leaves' : k.id = m.id => k = m
    BY <2>2, <2>3, <2>4 DEF IInv
  <2>10. leaves' \subseteq Leave
    BY <2>2, <2>3 DEF IInv
  <2>11. QED  BY <1>4, <2>7, <2>8, <2>9, <2>10 DEF IInv, DecideLeave
<1>5. ASSUME NEW d \in Days, NEW b \in Branches \cup {"all"}, AddHoliday(d, b)
      PROVE  IInv'
  BY <1>5 DEF IInv, AddHoliday, Holiday
<1>6. ASSUME NEW h \in holidays, DeleteHoliday(h)
      PROVE  IInv'
  BY <1>6 DEF IInv, DeleteHoliday
<1>7. CASE UNCHANGED vars
  BY <1>7 DEF IInv, vars
<1>8. QED  BY <1>1, <1>2, <1>3, <1>4, <1>5, <1>6, <1>7 DEF Next

\* The tables keep their types, and no two requests share an id, whatever HR
\* decides and however often (db.add_leave, db.decide_leave).
THEOREM TypeCorrect == Spec => []TypeOK
<1>1. IInv => TypeOK  BY DEF IInv, TypeOK, Rows
<1>2. QED  BY <1>1, InitIInv, NextIInv, PTL DEF Spec

-----------------------------------------------------------------------------
\* What a report works with: some of the days; those with a row are those with
\* a check-in.
LEMMA ReportSets ==
    ASSUME TypeOK, NEW p \in Persons, NEW working \in Reports
    PROVE  /\ IsFiniteSet(working)
           /\ SeenDays(p, working) \subseteq working
           /\ LeaveDays(p, working) \subseteq working
           /\ PresentDays(p, working) = SeenDays(p, working)
<1>1. working \subseteq Days
  BY PayrollAssumption DEF Reports, WorkingSet, DateRange, Days
<1>2. IsFiniteSet(working)
  BY <1>1, DaysFinite, FS_Subset
<1>3. \A d \in Days : attendance[p][d] \in Rows
  BY DEF TypeOK, Rows
<1>4. \A r \in Rows : r.in <=> r.row
  BY DEF Rows, NoRow, Row
<1>5. PresentDays(p, working) = SeenDays(p, working)
  BY <1>1, <1>3, <1>4 DEF PresentDays, SeenDays
<1>6. QED  BY <1>2, <1>5 DEF SeenDays, LeaveDays

\* Of working days W, seen S, leave L and present P.
Rest(W, S, L, P) == W \ (P \cup (L \ S))

\* The days counted as absent are those that are neither present nor leave, so
\* max(0, ...) never hides a negative difference.
LEMMA AbsentIsRest ==
    ASSUME NEW W, IsFiniteSet(W), NEW S, NEW L, NEW P, S \subseteq W, L \subseteq W, P \subseteq S
    PROVE  /\ Cardinality(W) - Cardinality(P) - Cardinality(L \ S) \in Nat
           /\ Cardinality(W) - Cardinality(P) - Cardinality(L \ S)
                  = Cardinality(Rest(W, S, L, P))
<1> DEFINE C == P \cup (L \ S)
<1>1. /\ IsFiniteSet(P) /\ Cardinality(P) \in Nat
      /\ IsFiniteSet(L \ S) /\ Cardinality(L \ S) \in Nat
  <2>1. P \subseteq W /\ L \ S \subseteq W  OBVIOUS
  <2>2. QED  BY <2>1, PartOf
<1>2. P \cap (L \ S) = {}  OBVIOUS
<1>3. Cardinality(C) = Cardinality(P) + Cardinality(L \ S)
  <2>1. Cardinality(C) = Cardinality(P) + Cardinality(L \ S) - Cardinality(P \cap (L \ S))
    BY <1>1, FS_Union
  <2>2. Cardinality(P \cap (L \ S)) = 0
    BY <1>2, FS_EmptySet
  <2>3. QED  BY <1>1, <2>1, <2>2
<1>4. C \subseteq W /\ Rest(W, S, L, P) = W \ C  BY DEF Rest
<1> HIDE DEF C
<1>5. /\ Cardinality(W) \in Nat /\ Cardinality(W \ C) \in Nat
      /\ Cardinality(W \ C) = Cardinality(W) - Cardinality(C)
  BY <1>4, PartOf
<1>6. Cardinality(W \ C) = Cardinality(Rest(W, S, L, P))  BY <1>4
<1>7. QED  BY <1>1, <1>3, <1>5, <1>6

\* payroll.compute counts every working day once, for every report, leave and
\* holiday: present, on leave and absent add up to the working days.
THEOREM DaysAreCounted == Spec => []DaysAddUp
<1>1. ASSUME TypeOK, NEW p \in Persons, NEW working \in Reports
      PROVE  Present(p, working) + OnLeave(p, working) + Absent(p, working)
                = Cardinality(working)
  <2> DEFINE S == SeenDays(p, working)
             L == LeaveDays(p, working)
             P == PresentDays(p, working)
             rest == Cardinality(working) - Cardinality(P) - Cardinality(L \ S)
  <2>1. IsFiniteSet(working) /\ S \subseteq working /\ L \subseteq working /\ P \subseteq S
    BY <1>1, ReportSets
  <2>2. rest \in Nat
    <3> HIDE DEF S, L, P
    <3> QED  BY <2>1, AbsentIsRest
  <2>3. P \subseteq working /\ L \ S \subseteq working
    BY <2>1
  <2>4. Cardinality(working) \in Nat /\ Cardinality(P) \in Nat /\ Cardinality(L \ S) \in Nat
    <3> HIDE DEF S, L, P
    <3> QED  BY <2>1, <2>3, PartOf
  <2>5. /\ Present(p, working) = Cardinality(P) /\ OnLeave(p, working) = Cardinality(L \ S)
        /\ Absent(p, working) = IF rest < 0 THEN 0 ELSE rest
    BY DEF Present, OnLeave, Absent
  <2> HIDE DEF S, L, P
  <2>6. QED  BY <2>2, <2>4, <2>5
<1>2. TypeOK => DaysAddUp
  BY <1>1 DEF DaysAddUp
<1>3. QED  BY <1>2, TypeCorrect, PTL

\* payroll.compute reports exactly the working days without a check-in and
\* without approved leave as absences.
THEOREM NothingHidden == Spec => []NoAbsenceHidden
<1>1. ASSUME TypeOK, NEW p \in Persons, NEW working \in Reports
      PROVE  Absent(p, working) = Cardinality(Unexcused(p, working))
  <2> DEFINE S == SeenDays(p, working)
             L == LeaveDays(p, working)
             P == PresentDays(p, working)
             U == Unexcused(p, working)
             A == Rest(working, S, L, P)
             rest == Cardinality(working) - Cardinality(P) - Cardinality(L \ S)
  <2>1. IsFiniteSet(working) /\ S \subseteq working /\ L \subseteq working /\ P = S
    BY <1>1, ReportSets
  <2>2. U = working \ (P \cup L)
    BY DEF Unexcused, PresentDays, LeaveDays
  <2>3. Absent(p, working) = IF rest < 0 THEN 0 ELSE rest
    BY DEF Present, OnLeave, Absent
  <2> HIDE DEF S, L, P, U
  <2>4. rest \in Nat /\ rest = Cardinality(A)
    BY <2>1, AbsentIsRest
  <2>5. U = A
    BY <2>1, <2>2 DEF Rest
  <2> HIDE DEF A
  <2>6. Absent(p, working) = Cardinality(A)
    BY <2>3, <2>4
  <2>7. QED  BY <2>5, <2>6 DEF U
<1>2. TypeOK => NoAbsenceHidden
  BY <1>1 DEF NoAbsenceHidden
<1>3. QED  BY <1>2, TypeCorrect, PTL

-----------------------------------------------------------------------------
(* The memoised analytics.  What bounds the age of an answer is that an    *)
(* entry expires Ttl after its writer asked, which is no later than Ttl    *)
(* after the writer read the table (EntryIsDated).                         *)

ReaderSteps == {"idle", "look", "compute", "store", "shown"}

MemoTypeOK ==
    /\ clock \in Nat
    /\ entry \in [expires : Nat, read : Nat]
    /\ reader \in [Readers -> [step : ReaderSteps, began : Nat, read : Nat]]

EntryIsDated == entry.expires <= entry.read + Ttl

\* A thread asked before now, and reads the table after it asked.
ReadAfterAsking ==
    \A t \in Readers :
        /\ reader[t].began <= clock
        /\ M!At(t, "store") => reader[t].read >= reader[t].began

MemoInv == MemoTypeOK /\ EntryIsDated /\ ReadAfterAsking /\ M!AnalyticsAreRecent

-----------------------------------------------------------------------------
\* A step that moves one reader.
LEMMA ReaderMoved ==
    ASSUME MemoTypeOK, NEW t \in Readers, NEW to \in [step : ReaderSteps, began : Nat, read : Nat],
           reader' = [reader EXCEPT ![t] = to]
    PROVE  /\ reader' \in [Readers -> [step : ReaderSteps, began : Nat, read : Nat]]
           /\ reader'[t] = to
           /\ \A u \in Readers \ {t} : reader'[u] = reader[u]
BY DEF MemoTypeOK

\* The rest of the invariant, for what the reader has become.
LEMMA MovedKeepsMemo ==
    ASSUME MemoInv, NEW t \in Readers, NEW to \in [step : ReaderSteps, began : Nat, read : Nat],
           reader' = [reader EXCEPT ![t] = to], clock' = clock,
           entry' \in [expires : Nat, read : Nat], EntryIsDated',
           to.began <= clock,
           to.step = "store" => to.read >= to.began,
           to.step = "shown" => to.read > to.began - Ttl
    PROVE  MemoInv'
<1>1. /\ reader' \in [Readers -> [step : ReaderSteps, began : Nat, read : Nat]]
      /\ reader'[t] = to
      /\ \A u \in Readers \ {t} : reader'[u] = reader[u]
  BY ReaderMoved DEF MemoInv
<1>2. MemoTypeOK'
  BY <1>1 DEF MemoInv, MemoTypeOK
<1>3. ReadAfterAsking' /\ M!AnalyticsAreRecent'
  BY <1>1 DEF MemoInv, ReadAfterAsking, M!AnalyticsAreRecent, M!At
<1>4. QED  BY <1>2, <1>3 DEF MemoInv

LEMMA InitMemoInv == ASSUME Ttl \in Nat \ {0}, M!Init PROVE MemoInv
BY DEF M!Init, MemoInv, MemoTypeOK, EntryIsDated, ReadAfterAsking, M!AnalyticsAreRecent, M!At, M!Idle,
       M!NoEntry, ReaderSteps

LEMMA NextMemoInv == ASSUME Ttl \in Nat \ {0}, MemoInv, [M!Next]_(M!mvars) PROVE MemoInv'
<1>1. CASE M!Second
  BY <1>1 DEF M!Second, MemoInv, MemoTypeOK, EntryIsDated, ReadAfterAsking, M!AnalyticsAreRecent, M!At
<1>2. ASSUME NEW t \in Readers,
             \/ M!analytics_page(t) \/ M!Hit(t) \/ M!Miss(t) \/ M!attrition_scores(t)
             \/ M!Store(t) \/ M!Answer(t)
      PROVE  MemoInv'
  <2>1. /\ reader[t] \in [step : ReaderSteps, began : Nat, read : Nat]
        /\ clock \in Nat /\ entry \in [expires : Nat, read : Nat] /\ EntryIsDated
        /\ reader[t].began <= clock
    BY DEF MemoInv, MemoTypeOK, ReadAfterAsking
  <2>2. M!Idle \in [step : ReaderSteps, began : Nat, read : Nat] /\ M!Idle.step = "idle" /\ M!Idle.began = 0
    BY DEF M!Idle, ReaderSteps
  <2>3. CASE M!analytics_page(t)
    <3> DEFINE to == [M!Idle EXCEPT !.step = "look", !.began = clock]
    <3>1. to \in [step : ReaderSteps, began : Nat, read : Nat] /\ to.step = "look" /\ to.began = clock
      BY <2>1 DEF M!Idle, ReaderSteps
    <3>2. reader' = [reader EXCEPT ![t] = to] /\ UNCHANGED <<clock, entry>>
      BY <2>3 DEF M!analytics_page, M!Go
    <3> HIDE DEF to
    <3>3. EntryIsDated' /\ to.began <= clock
      BY <2>1, <3>1, <3>2 DEF EntryIsDated
    <3>4. QED  BY <2>1, <3>1, <3>2, <3>3, MovedKeepsMemo
  \* An entry that has not expired was read less than Ttl before the question.
  <2>4. CASE M!Hit(t)
    <3> DEFINE to == [reader[t] EXCEPT !.step = "shown", !.read = entry.read]
    <3>1. /\ to \in [step : ReaderSteps, began : Nat, read : Nat] /\ to.step = "shown"
          /\ to.began = reader[t].began /\ to.read = entry.read
      BY <2>1 DEF ReaderSteps
    <3>2. reader' = [reader EXCEPT ![t] = to] /\ UNCHANGED <<clock, entry>>
      BY <2>4 DEF M!Hit, M!Go
    <3> HIDE DEF to
    <3>3. entry.expires > to.began
      BY <2>4, <3>1 DEF M!Hit
    <3>4. to.read > to.began - Ttl
      BY <2>1, <3>1, <3>3 DEF EntryIsDated
    <3>5. EntryIsDated'
      BY <2>1, <3>2 DEF EntryIsDated
    <3>6. QED  BY <2>1, <3>1, <3>2, <3>4, <3>5, MovedKeepsMemo
  <2>5. CASE M!Miss(t)
    <3> DEFINE to == [reader[t] EXCEPT !.step = "compute"]
    <3>1. /\ to \in [step : ReaderSteps, began : Nat, read : Nat] /\ to.step = "compute"
          /\ to.began = reader[t].began
      BY <2>1 DEF ReaderSteps
    <3>2. reader' = [reader EXCEPT ![t] = to] /\ UNCHANGED <<clock, entry>>
      BY <2>5 DEF M!Miss, M!Go
    <3> HIDE DEF to
    <3>3. EntryIsDated'
      BY <2>1, <3>2 DEF EntryIsDated
    <3>4. QED  BY <2>1, <3>1, <3>2, <3>3, MovedKeepsMemo
  <2>6. CASE M!attrition_scores(t)
    <3> DEFINE to == [reader[t] EXCEPT !.step = "store", !.read = clock]
    <3>1. /\ to \in [step : ReaderSteps, began : Nat, read : Nat] /\ to.step = "store"
          /\ to.began = reader[t].began /\ to.read = clock
      BY <2>1 DEF ReaderSteps
    <3>2. reader' = [reader EXCEPT ![t] = to] /\ UNCHANGED <<clock, entry>>
      BY <2>6 DEF M!attrition_scores, M!Go
    <3> HIDE DEF to
    <3>3. EntryIsDated' /\ to.read >= to.began
      BY <2>1, <3>1, <3>2 DEF EntryIsDated
    <3>4. QED  BY <2>1, <3>1, <3>2, <3>3, MovedKeepsMemo
  \* The entry is dated from the question, which was before the reading.
  <2>7. CASE M!Store(t)
    <3> DEFINE to == [reader[t] EXCEPT !.step = "shown"]
    <3>1. /\ to \in [step : ReaderSteps, began : Nat, read : Nat] /\ to.step = "shown"
          /\ to.began = reader[t].began /\ to.read = reader[t].read
      BY <2>1 DEF ReaderSteps
    <3>2. /\ reader' = [reader EXCEPT ![t] = to] /\ UNCHANGED clock
          /\ entry' = [expires |-> reader[t].began + Ttl, read |-> reader[t].read]
      BY <2>7 DEF M!Store, M!Go, M!Expires
    <3> HIDE DEF to
    <3>3. reader[t].read >= reader[t].began
      BY <2>7 DEF M!Store, MemoInv, ReadAfterAsking
    <3>4. /\ entry' \in [expires : Nat, read : Nat]
          /\ EntryIsDated' /\ to.read > to.began - Ttl
      BY <2>1, <3>1, <3>2, <3>3 DEF EntryIsDated
    <3>5. QED  BY <2>1, <3>1, <3>2, <3>4, MovedKeepsMemo
  <2>8. CASE M!Answer(t)
    <3>1. reader' = [reader EXCEPT ![t] = M!Idle] /\ UNCHANGED <<clock, entry>>
      BY <2>8 DEF M!Answer, M!Go
    <3>2. EntryIsDated' /\ M!Idle.began <= clock
      BY <2>1, <2>2, <3>1 DEF EntryIsDated
    <3>3. QED  BY <2>1, <2>2, <3>1, <3>2, MovedKeepsMemo
  <2>9. QED  BY <1>2, <2>3, <2>4, <2>5, <2>6, <2>7, <2>8
<1>3. CASE UNCHANGED M!mvars
  BY <1>3 DEF M!mvars, MemoInv, MemoTypeOK, EntryIsDated, ReadAfterAsking, M!AnalyticsAreRecent, M!At
<1>4. QED  BY <1>1, <1>2, <1>3 DEF M!Next

\* However many threads compute at once and overwrite each other's entry, nobody
\* is shown a reading of the table Ttl or more before the page was asked for
\* (infra/cache.memoize).
THEOREM RecentAnalytics == MCSpec => []AnalyticsAreRecent
<1>1. MCInit => MemoInv
  BY InitMemoInv, MemoAssumption DEF MCInit
<1>2. MemoInv /\ [MCNext]_<<part, vars, reports, memo, deliveries, backup>> => MemoInv'
  <2>1. [MCNext]_<<part, vars, reports, memo, deliveries, backup>> => [M!Next]_(M!mvars)
    BY DEF MCNext, reports, memo, deliveries, backup, vars, M!mvars
  <2>2. QED  BY <2>1, NextMemoInv, MemoAssumption
<1>3. MemoInv => AnalyticsAreRecent
  BY DEF MemoInv, AnalyticsAreRecent
<1>4. QED  BY <1>1, <1>2, <1>3, PTL DEF MCSpec

-----------------------------------------------------------------------------
(* Webhooks and connectors.  StatusesAreOwn is about the id of a row: what *)
(* notes an outcome was read from a row that may be gone, and a row with   *)
(* its id may be there.  The invariant says that it is the same row        *)
(* (Known), which rests on ids that are never given out twice (each is at  *)
(* most the table's sequence), and that the number of a POST tells which   *)
(* receiver it went to.                                                    *)

Receiver == [tbl : D!Receivers, id : Nat, born : Nat, takes : BOOLEAN,
        status : [no : Nat, outcome : D!Outcomes \cup {"none"}]]

DeliveryTypeOK ==
    /\ table \subseteq Receiver /\ IsFiniteSet(table)
    /\ seq \in [D!Receivers -> Nat]
    /\ flights \subseteq [tbl : D!Receivers, id : Nat, born : Nat, no : Nat]
    /\ syncing \subseteq {r \in Receiver : r.tbl = "connectors"}
    /\ posted \subseteq [born : Nat, no : Nat, outcome : D!Outcomes]
    /\ born \in Nat /\ sent \in Nat

\* What was once read of a row: its id is given out, and if a row has it, it is
\* that row.
Known(x) ==
    /\ x.id <= seq[x.tbl]
    /\ \A r \in table : r.tbl = x.tbl /\ r.id = x.id => r.born = x.born
RowsAreApart ==
    /\ \A r \in table : r.id <= seq[r.tbl]
    /\ \A r, q \in table : r.tbl = q.tbl /\ r.id = q.id => r = q
AllKnown == \A x \in flights \cup syncing : Known(x)

\* POSTs are numbered as they begin, each once.
Numbered ==
    /\ \A f \in flights : f.no <= sent
    /\ \A f, g \in flights : f.no = g.no => f = g
    /\ \A p \in posted : p.no <= sent
    /\ \A p \in posted, f \in flights : p.no = f.no => p.born = f.born

DeliveryInv == DeliveryTypeOK /\ RowsAreApart /\ AllKnown /\ Numbered /\ D!StatusesAreOwn

-----------------------------------------------------------------------------
(* Ranks: the number of a webhook among those of a dispatch.               *)

Rank(hooks, r) == Cardinality({h \in hooks : h.id <= r.id})

LEMMA Ranks ==
    ASSUME NEW hooks, IsFiniteSet(hooks), \A h \in hooks : h.id \in Nat,
           \A h, g \in hooks : h.id = g.id => h = g
    PROVE  /\ Cardinality(hooks) \in Nat
           /\ \A r \in hooks : Rank(hooks, r) \in 1..Cardinality(hooks)
           /\ \A r, q \in hooks : Rank(hooks, r) = Rank(hooks, q) => r = q
<1> DEFINE UpTo(r) == {h \in hooks : h.id <= r.id}
<1>1. \A r : IsFiniteSet(UpTo(r)) /\ Cardinality(UpTo(r)) \in Nat
             /\ Cardinality(UpTo(r)) <= Cardinality(hooks)
  <2>1. \A r : UpTo(r) \in SUBSET hooks  OBVIOUS
  <2>2. \A r : IsFiniteSet(UpTo(r)) /\ Cardinality(UpTo(r)) <= Cardinality(hooks)
    BY <2>1, FS_Subset
  <2>3. QED  BY <2>2, FS_CardinalityType
<1>2. Cardinality(hooks) \in Nat
  BY FS_CardinalityType
<1>3. ASSUME NEW r \in hooks PROVE Cardinality(UpTo(r)) >= 1
  <2>1. UpTo(r) # {}
    <3>1. r \in UpTo(r)  OBVIOUS
    <3>2. QED  BY <3>1
  <2>2. Cardinality(UpTo(r)) # 0
    BY <1>1, <2>1, FS_EmptySet
  <2>3. Cardinality(UpTo(r)) \in Nat
    BY <1>1
  <2> HIDE DEF UpTo
  <2>4. QED  BY <2>2, <2>3
<1>4. ASSUME NEW r \in hooks, NEW q \in hooks, r.id < q.id
      PROVE  Cardinality(UpTo(r)) # Cardinality(UpTo(q))
  <2>1. UpTo(r) \in SUBSET UpTo(q) /\ q \in UpTo(q) /\ q \notin UpTo(r)
    BY <1>4
  <2>2. UpTo(r) # UpTo(q)
    BY <2>1
  <2>3. QED  BY <1>1, <2>1, <2>2, FS_Subset
<1>5. ASSUME NEW r \in hooks, NEW q \in hooks, Cardinality(UpTo(r)) = Cardinality(UpTo(q))
      PROVE  r = q
  <2>1. ~(r.id < q.id) /\ ~(q.id < r.id)
    BY <1>4, <1>5
  <2>2. QED  BY <2>1
<1>6. \A r : Rank(hooks, r) = Cardinality(UpTo(r))
  BY DEF Rank
<1> HIDE DEF UpTo
<1>7. QED  BY <1>1, <1>2, <1>3, <1>5, <1>6

-----------------------------------------------------------------------------
(* The tables.                                                             *)

LEMMA InitDeliveryInv == D!Init => DeliveryInv
<1>1. IsFiniteSet({})  BY FS_EmptySet
<1>2. QED
  BY <1>1 DEF D!Init, DeliveryInv, DeliveryTypeOK, RowsAreApart, AllKnown, Numbered, D!StatusesAreOwn

\* A new id is above all that were given out: nobody has read it.
LEMMA AddKeeps ==
    ASSUME DeliveryInv, NEW t \in D!Receivers, NEW takes \in BOOLEAN, D!Add(t, takes)
    PROVE  DeliveryInv'
<1> DEFINE new == [tbl |-> t, id |-> seq[t] + 1, born |-> born + 1, takes |-> takes,
                   status |-> D!NoStatus]
<1>1. /\ table' = table \cup {new} /\ seq' = [seq EXCEPT ![t] = seq[t] + 1]
      /\ born' = born + 1 /\ UNCHANGED <<flights, syncing, sent, posted>>
  BY DEF D!Add, D!NextId
<1>2. seq[t] \in Nat /\ born \in Nat
  BY DEF DeliveryInv, DeliveryTypeOK
<1>3. new \in Receiver /\ new.tbl = t /\ new.id = seq[t] + 1 /\ new.status = D!NoStatus
  BY <1>2 DEF Receiver, D!NoStatus
<1> HIDE DEF new
<1>4. seq' \in [D!Receivers -> Nat] /\ seq'[t] = seq[t] + 1 /\ \A u \in D!Receivers : seq'[u] >= seq[u]
  BY <1>1, <1>2 DEF DeliveryInv, DeliveryTypeOK
<1>5. DeliveryTypeOK'
  <2>1. IsFiniteSet(table')
    BY <1>1, FS_AddElement DEF DeliveryInv, DeliveryTypeOK
  <2>2. QED  BY <1>1, <1>2, <1>3, <1>4, <2>1 DEF DeliveryInv, DeliveryTypeOK
<1>6. \A r \in table : r.tbl \in D!Receivers /\ r.id \in Nat /\ r.id <= seq[r.tbl]
  BY DEF DeliveryInv, DeliveryTypeOK, RowsAreApart, Receiver
<1>7. \A r \in table : ~(r.tbl = t /\ r.id = new.id)
  BY <1>2, <1>3, <1>6
<1>8. RowsAreApart'
  <2>1. ASSUME NEW r \in table PROVE r.id <= seq'[r.tbl]
    <3>1. seq[r.tbl] \in Nat /\ seq'[r.tbl] \in Nat /\ seq'[r.tbl] >= seq[r.tbl]
      BY <1>4, <1>6 DEF DeliveryInv, DeliveryTypeOK
    <3>2. QED  BY <1>6, <3>1
  <2>2. new.id <= seq'[new.tbl]
    BY <1>2, <1>3, <1>4
  <2>3. QED  BY <1>1, <1>3, <1>7, <2>1, <2>2 DEF DeliveryInv, RowsAreApart
<1>9. AllKnown'
  <2> SUFFICES ASSUME NEW x \in flights \cup syncing PROVE Known(x)'
    BY <1>1 DEF AllKnown
  <2>1. x.tbl \in D!Receivers /\ x.id \in Nat /\ Known(x)
    BY DEF DeliveryInv, DeliveryTypeOK, AllKnown, Receiver
  <2>2. seq[x.tbl] \in Nat /\ seq'[x.tbl] \in Nat /\ seq'[x.tbl] >= seq[x.tbl]
    BY <1>4, <2>1 DEF DeliveryInv, DeliveryTypeOK
  <2>3. ~(new.tbl = x.tbl /\ new.id = x.id)
    BY <1>2, <1>3, <2>1, <2>2 DEF Known
  <2>4. QED  BY <1>1, <2>1, <2>2, <2>3 DEF Known
<1>10. Numbered' /\ D!StatusesAreOwn'
  BY <1>1, <1>3 DEF DeliveryInv, Numbered, D!StatusesAreOwn
<1>11. QED  BY <1>5, <1>8, <1>9, <1>10 DEF DeliveryInv

LEMMA DeleteKeeps ==
    ASSUME DeliveryInv, NEW r \in table, D!Delete(r)
    PROVE  DeliveryInv'
<1>1. table' \subseteq table /\ UNCHANGED <<seq, flights, syncing, born, sent, posted>>
  BY DEF D!Delete
<1>2. IsFiniteSet(table')
  BY <1>1, FS_Subset DEF DeliveryInv, DeliveryTypeOK
<1>3. DeliveryTypeOK' /\ RowsAreApart'
  BY <1>1, <1>2 DEF DeliveryInv, DeliveryTypeOK, RowsAreApart
<1>4. AllKnown' /\ Numbered' /\ D!StatusesAreOwn'
  BY <1>1 DEF DeliveryInv, AllKnown, Known, Numbered, D!StatusesAreOwn
<1>5. QED  BY <1>3, <1>4 DEF DeliveryInv

-----------------------------------------------------------------------------
(* The deliveries.                                                         *)

\* Deliveries begin: each of a row of the table or of the list, each with a number
\* of its own.
LEMMA BeginKeeps ==
    ASSUME DeliveryInv, NEW new \in SUBSET [tbl : D!Receivers, id : Nat, born : Nat, no : Nat],
           UNCHANGED <<table, seq, born, posted>>, syncing' \subseteq table \cup syncing,
           \A r \in syncing' : r.tbl = "connectors", flights' = flights \cup new, sent' \in Nat, sent' >= sent,
           \A f \in new : Known(f) /\ f.no > sent /\ f.no <= sent',
           \A f, g \in new : f.no = g.no => f = g
    PROVE  DeliveryInv'
<1>1. DeliveryTypeOK'
  BY DEF DeliveryInv, DeliveryTypeOK
<1>2. RowsAreApart' /\ D!StatusesAreOwn'
  BY DEF DeliveryInv, RowsAreApart, D!StatusesAreOwn
<1>3. AllKnown'
  <2>1. \A r \in table : Known(r)
    BY DEF DeliveryInv, RowsAreApart, Known
  <2>2. \A x \in flights' \cup syncing' : Known(x)
    BY <2>1 DEF DeliveryInv, AllKnown
  <2>3. QED  BY <2>2 DEF AllKnown, Known
<1>4. Numbered'
  <2>1. sent \in Nat /\ (\A f \in flights : f.no \in Nat) /\ (\A p \in posted : p.no \in Nat)
    BY DEF DeliveryInv, DeliveryTypeOK
  <2>2. \A f \in new : f.no \in Nat
    OBVIOUS
  <2>3. \A f \in flights' : f.no <= sent'
    BY <2>1, <2>2 DEF DeliveryInv, Numbered
  <2>4. \A f, g \in flights' : f.no = g.no => f = g
    BY <2>1, <2>2 DEF DeliveryInv, Numbered
  <2>5. \A p \in posted' : p.no <= sent'
    BY <2>1 DEF DeliveryInv, Numbered
  <2>6. \A p \in posted', f \in flights' : p.no = f.no => p.born = f.born
    BY <2>1, <2>2 DEF DeliveryInv, Numbered
  <2>7. QED  BY <2>3, <2>4, <2>5, <2>6 DEF Numbered
<1>5. QED  BY <1>1, <1>2, <1>3, <1>4 DEF DeliveryInv

\* The instance counts as this module does.
LEMMA DeliveriesCount == \A S : D!Cardinality(S) = Cardinality(S)
BY DEF D!Cardinality, Cardinality

LEMMA DispatchKeeps ==
    ASSUME DeliveryInv, D!dispatch_event
    PROVE  DeliveryInv'
<1> DEFINE hooks == {r \in D!RowsOf("webhooks") : r.takes}
           Flight(r) == [tbl |-> "webhooks", id |-> r.id, born |-> r.born,
                         no |-> sent + Rank(hooks, r)]
           new == {Flight(r) : r \in hooks}
<1>1. /\ flights' = flights \cup new /\ sent' = sent + Cardinality(hooks)
      /\ UNCHANGED <<table, seq, syncing, born, posted>>
  BY DeliveriesCount DEF D!dispatch_event, Rank
<1>2. hooks \subseteq table /\ \A r \in hooks : r \in Receiver /\ r.tbl = "webhooks"
  BY DEF D!RowsOf, DeliveryInv, DeliveryTypeOK
<1>3. IsFiniteSet(hooks)
  BY <1>2, FS_Subset DEF DeliveryInv, DeliveryTypeOK
<1>4. (\A r \in hooks : r.id \in Nat /\ r.born \in Nat)
      /\ \A r, q \in hooks : r.id = q.id => r = q
  BY <1>2 DEF Receiver, DeliveryInv, RowsAreApart
<1> HIDE DEF hooks
<1>5. /\ Cardinality(hooks) \in Nat
      /\ \A r \in hooks : Rank(hooks, r) \in 1..Cardinality(hooks)
      /\ \A r, q \in hooks : Rank(hooks, r) = Rank(hooks, q) => r = q
  BY <1>3, <1>4, Ranks
<1>6. sent \in Nat  BY DEF DeliveryInv, DeliveryTypeOK
<1>7. \A r \in hooks : /\ Flight(r).tbl = "webhooks" /\ Flight(r).id = r.id
                       /\ Flight(r).born = r.born /\ Flight(r).no = sent + Rank(hooks, r)
                       /\ Flight(r) \in [tbl : D!Receivers, id : Nat, born : Nat, no : Nat]
  BY <1>4, <1>5, <1>6 DEF D!Receivers
<1>8. \A f \in new : \E r \in hooks : f = Flight(r)
  OBVIOUS
<1>9. new \in SUBSET [tbl : D!Receivers, id : Nat, born : Nat, no : Nat]
  BY <1>7
<1> HIDE DEF Flight, new
<1>10. ASSUME NEW f \in new PROVE Known(f) /\ f.no > sent /\ f.no <= sent'
  <2>1. PICK r \in hooks : f = Flight(r)
    BY <1>8
  <2>2. Known(f)
    BY <1>2, <1>7, <2>1 DEF Known, DeliveryInv, RowsAreApart
  <2>3. QED  BY <1>1, <1>5, <1>6, <1>7, <2>1, <2>2
<1>11. ASSUME NEW f \in new, NEW g \in new, f.no = g.no PROVE f = g
  <2>1. PICK r \in hooks : f = Flight(r)
    BY <1>8
  <2>2. PICK q \in hooks : g = Flight(q)
    BY <1>8
  <2>3. Rank(hooks, r) \in Nat /\ Rank(hooks, q) \in Nat
    BY <1>5
  <2>4. sent + Rank(hooks, r) = sent + Rank(hooks, q)
    BY <1>7, <1>11, <2>1, <2>2
  <2>5. Rank(hooks, r) = Rank(hooks, q)
    BY <1>6, <2>3, <2>4
  <2>6. QED  BY <1>5, <2>1, <2>2, <2>5
<1>12. /\ sent' \in Nat /\ sent' >= sent /\ syncing' \subseteq table \cup syncing
       /\ \A r \in syncing' : r.tbl = "connectors"
  BY <1>1, <1>5, <1>6 DEF DeliveryInv, DeliveryTypeOK
<1>13. QED  BY <1>1, <1>9, <1>10, <1>11, <1>12, BeginKeeps

\* Nothing is begun.
LEMMA ListKeeps ==
    ASSUME DeliveryInv, UNCHANGED <<table, seq, flights, born, posted, sent>>,
           syncing' \subseteq table \cup syncing, \A r \in syncing' : r.tbl = "connectors"
    PROVE  DeliveryInv'
<1>1. sent \in Nat  BY DEF DeliveryInv, DeliveryTypeOK
<1> DEFINE none == {}
<1>2. /\ none \in SUBSET [tbl : D!Receivers, id : Nat, born : Nat, no : Nat]
      /\ flights' = flights \cup none /\ \A f \in none : FALSE
  OBVIOUS
<1> HIDE DEF none
<1>3. QED  BY <1>1, <1>2, BeginKeeps

LEMMA SyncAllKeeps ==
    ASSUME DeliveryInv, D!sync_all
    PROVE  DeliveryInv'
BY ListKeeps DEF D!sync_all, D!RowsOf

LEMMA SyncOneKeeps ==
    ASSUME DeliveryInv, NEW r \in syncing, D!sync_one(r)
    PROVE  DeliveryInv'
<1>1. sent \in Nat  BY DEF DeliveryInv, DeliveryTypeOK
<1>2. r \in Receiver /\ Known(r) /\ r.tbl \in D!Receivers /\ r.tbl = "connectors"
  BY DEF DeliveryInv, DeliveryTypeOK, AllKnown, Receiver
<1>3. /\ UNCHANGED <<table, seq, born, posted>> /\ syncing' \subseteq table \cup syncing
      /\ \A q \in syncing' : q.tbl = "connectors"
  BY DEF D!sync_one, DeliveryInv, DeliveryTypeOK
<1> DEFINE f == [tbl |-> "connectors", id |-> r.id, born |-> r.born, no |-> sent + 1]
           new == {f}
<1>4. CASE flights' = flights \cup new /\ sent' = sent + 1
  <2>1. /\ f \in [tbl : D!Receivers, id : Nat, born : Nat, no : Nat]
        /\ f.tbl = r.tbl /\ f.id = r.id /\ f.born = r.born /\ f.no = sent + 1
    BY <1>1, <1>2 DEF Receiver, D!Receivers
  <2>2. \A g \in new : g = f
    OBVIOUS
  <2>3. new \in SUBSET [tbl : D!Receivers, id : Nat, born : Nat, no : Nat]
    BY <2>1
  <2> HIDE DEF f, new
  <2>4. Known(f)
    BY <1>2, <2>1 DEF Known
  <2>5. (\A g \in new : Known(g) /\ g.no > sent /\ g.no <= sent') /\ sent' \in Nat /\ sent' >= sent
    BY <1>1, <1>4, <2>1, <2>2, <2>4
  <2>6. \A g, h \in new : g.no = h.no => g = h
    BY <2>2
  <2>7. QED  BY <1>3, <1>4, <2>3, <2>5, <2>6, BeginKeeps
<1>5. CASE UNCHANGED <<flights, sent>>
  BY <1>3, <1>5, ListKeeps
<1>6. QED  BY <1>4, <1>5 DEF D!sync_one

\* The number of the POST is of this delivery alone, which knows its receiver.
LEMMA PostKeeps ==
    ASSUME DeliveryInv, NEW f \in flights, NEW outcome \in D!Outcomes, D!Post(f, outcome)
    PROVE  DeliveryInv'
<1> DEFINE p == [born |-> f.born, no |-> f.no, outcome |-> outcome]
<1>1. posted' = posted \cup {p} /\ UNCHANGED <<table, seq, flights, syncing, born, sent>>
  BY DEF D!Post
<1>2. f \in [tbl : D!Receivers, id : Nat, born : Nat, no : Nat]
  BY DEF DeliveryInv, DeliveryTypeOK
<1>3. p \in [born : Nat, no : Nat, outcome : D!Outcomes] /\ p.born = f.born /\ p.no = f.no
  BY <1>2
<1> HIDE DEF p
<1>4. DeliveryTypeOK' /\ RowsAreApart' /\ AllKnown'
  BY <1>1, <1>3 DEF DeliveryInv, DeliveryTypeOK, RowsAreApart, AllKnown, Known
<1>5. Numbered'
  BY <1>1, <1>3 DEF DeliveryInv, Numbered
<1>6. D!StatusesAreOwn'
  BY <1>1 DEF DeliveryInv, D!StatusesAreOwn
<1>7. QED  BY <1>4, <1>5, <1>6 DEF DeliveryInv

\* The row that is noted is the one the delivery was read from.
LEMMA UpdateKeeps ==
    ASSUME DeliveryInv, NEW f \in flights, D!update_status(f)
    PROVE  DeliveryInv'
<1>1. PICK p \in posted : /\ p.no = f.no
                          /\ D!Note(f, [no |-> f.no, outcome |-> p.outcome])
  BY DEF D!update_status
<1>2. flights' \subseteq flights /\ UNCHANGED <<seq, syncing, born, sent, posted>>
  BY DEF D!update_status
<1>3. /\ f \in [tbl : D!Receivers, id : Nat, born : Nat, no : Nat] /\ Known(f)
      /\ p \in [born : Nat, no : Nat, outcome : D!Outcomes] /\ p.born = f.born
  BY <1>1 DEF DeliveryInv, DeliveryTypeOK, AllKnown, Numbered
<1> DEFINE status == [no |-> f.no, outcome |-> p.outcome]
           Noted(r) == IF r.tbl = f.tbl /\ r.id = f.id THEN [r EXCEPT !.status = status] ELSE r
<1>4. table' = {Noted(r) : r \in table}
  BY <1>1 DEF D!Note
<1>5. status \in [no : Nat, outcome : D!Outcomes \cup {"none"}]
      /\ status.no = f.no /\ status.outcome = p.outcome
  BY <1>3
<1> HIDE DEF status
<1>6. ASSUME NEW r \in table
      PROVE  /\ Noted(r) \in Receiver
             /\ Noted(r).tbl = r.tbl /\ Noted(r).id = r.id /\ Noted(r).born = r.born
             /\ Noted(r).status = IF r.tbl = f.tbl /\ r.id = f.id THEN status ELSE r.status
  <2>1. r \in Receiver  BY DEF DeliveryInv, DeliveryTypeOK
  <2>2. QED  BY <1>5, <2>1 DEF Receiver
<1> HIDE DEF Noted
<1>7. IsFiniteSet(table')
  <2> DEFINE g == [r \in table |-> Noted(r)]
  <2>1. g \in Surjection(table, table')
    BY <1>4 DEF Surjection
  <2>2. QED  BY <2>1, FS_Surjection DEF DeliveryInv, DeliveryTypeOK
<1>8. DeliveryTypeOK'
  BY <1>2, <1>4, <1>6, <1>7 DEF DeliveryInv, DeliveryTypeOK
<1>9. RowsAreApart'
  BY <1>2, <1>4, <1>6 DEF DeliveryInv, RowsAreApart
<1>10. AllKnown'
  BY <1>2, <1>4, <1>6 DEF DeliveryInv, AllKnown, Known
<1>11. Numbered'
  BY <1>2 DEF DeliveryInv, Numbered
<1>12. D!StatusesAreOwn'
  <2> SUFFICES ASSUME NEW r \in table, Noted(r).status # D!NoStatus
               PROVE  [born |-> r.born, no |-> Noted(r).status.no,
                       outcome |-> Noted(r).status.outcome] \in posted
    BY <1>2, <1>4, <1>6 DEF D!StatusesAreOwn
  <2>1. CASE r.tbl = f.tbl /\ r.id = f.id
    <3>1. r.born = p.born
      BY <1>3, <2>1 DEF Known
    <3>2. Noted(r).status.no = p.no /\ Noted(r).status.outcome = p.outcome
      BY <1>1, <1>5, <1>6, <2>1
    <3>3. p = [born |-> p.born, no |-> p.no, outcome |-> p.outcome]
      BY <1>3
    <3>4. QED  BY <3>1, <3>2, <3>3
  <2>2. CASE ~(r.tbl = f.tbl /\ r.id = f.id)
    <3>1. Noted(r).status = r.status
      BY <1>6, <2>2
    <3>2. QED  BY <3>1 DEF DeliveryInv, D!StatusesAreOwn
  <2>3. QED  BY <2>1, <2>2
<1>13. QED  BY <1>8, <1>9, <1>10, <1>11, <1>12 DEF DeliveryInv

LEMMA CrashKeeps ==
    ASSUME DeliveryInv, D!Crash
    PROVE  DeliveryInv'
<1>1. flights' = {} /\ syncing' = {} /\ UNCHANGED <<table, seq, born, sent, posted>>
  BY DEF D!Crash
<1>2. DeliveryTypeOK' /\ RowsAreApart' /\ AllKnown' /\ Numbered' /\ D!StatusesAreOwn'
  BY <1>1 DEF DeliveryInv, DeliveryTypeOK, RowsAreApart, AllKnown, Numbered, D!StatusesAreOwn
<1>3. QED  BY <1>2 DEF DeliveryInv

-----------------------------------------------------------------------------
LEMMA NextDeliveryInv == DeliveryInv /\ [D!Next]_(D!dvars) => DeliveryInv'
<1> SUFFICES ASSUME DeliveryInv, [D!Next]_(D!dvars) PROVE DeliveryInv'  OBVIOUS
<1>1. ASSUME NEW takes \in BOOLEAN, D!webhooks_admin(takes) \/ D!connectors_admin(takes)
      PROVE  DeliveryInv'
  <2>1. "webhooks" \in D!Receivers /\ "connectors" \in D!Receivers
    BY DEF D!Receivers
  <2>2. \/ \E t \in D!Receivers : D!Add(t, takes)
        \/ \E r \in table : D!Delete(r)
    BY <1>1, <2>1 DEF D!webhooks_admin, D!connectors_admin, D!RowsOf
  <2>3. QED  BY <2>2, AddKeeps, DeleteKeeps
<1>2. CASE D!dispatch_event \/ D!sync_all \/ D!Crash
  BY <1>2, DispatchKeeps, SyncAllKeeps, CrashKeeps
<1>3. ASSUME NEW f \in flights,
             D!update_status(f) \/ \E outcome \in D!Outcomes : D!Post(f, outcome)
      PROVE  DeliveryInv'
  BY <1>3, UpdateKeeps, PostKeeps
<1>4. ASSUME NEW r \in syncing, D!sync_one(r) PROVE DeliveryInv'
  BY <1>4, SyncOneKeeps
<1>5. CASE UNCHANGED D!dvars
  BY <1>5 DEF D!dvars, DeliveryInv, DeliveryTypeOK, RowsAreApart, AllKnown, Known, Numbered, D!StatusesAreOwn
<1>6. QED  BY <1>1, <1>2, <1>3, <1>4, <1>5 DEF D!Next

\* Whatever the order of the answers, and whoever is deleted and added meanwhile,
\* the status beside a webhook or connector is the outcome of a POST to it
\* (dispatch_event, sync_all).
THEOREM OwnStatuses ==
    MCSpec => []StatusesAreOwn
<1>1. MCInit => DeliveryInv
  BY InitDeliveryInv DEF MCInit
<1>2. DeliveryInv /\ [MCNext]_<<part, vars, reports, memo, deliveries, backup>> => DeliveryInv'
  <2>1. [MCNext]_<<part, vars, reports, memo, deliveries, backup>> => [D!Next]_(D!dvars)
    BY DEF MCNext, reports, memo, deliveries, backup, vars, D!dvars
  <2>2. QED  BY <2>1, NextDeliveryInv
<1>3. DeliveryInv => StatusesAreOwn
  BY DEF DeliveryInv, StatusesAreOwn
<1>4. QED  BY <1>1, <1>2, <1>3, PTL DEF MCSpec

-----------------------------------------------------------------------------
(* Backups.  A name that was chosen once belongs to one run (OneRun): what *)
(* is at that name in each place is what this run put there, as far as it  *)
(* has come, so its status is true of its last destination when it is      *)
(* logged and ever after.                                                  *)

RunnerSteps == {"off", "local", "dir", "url", "command", "tmp", "run", "remove", "log"}
Folders == {"dir", "bucket", "tmp", "remote"}
RunnerIsTyped(x) ==
    /\ DOMAIN x = {"step", "run", "name", "dest", "status"}
    /\ x.step \in RunnerSteps /\ x.name \in B!Names /\ x.dest \in B!Stores \cup {"none"}
FileIsTyped(x) == DOMAIN x = {"opened", "written"}
BackupTypeOK ==
    /\ second \in Nat /\ second <= MaxSecond
    /\ named \in [B!Names -> Nat]
    /\ DOMAIN runner = Runners /\ \A r \in Runners : RunnerIsTyped(runner[r])
    /\ DOMAIN file = Folders
    /\ \A f \in Folders : DOMAIN file[f] = B!Names /\ \A n \in B!Names : FileIsTyped(file[f][n])
    /\ \A row \in log : row.name \in B!Names

At_(x, n) == x.step # "off" /\ x.name = n
Begun(run) == [opened |-> {run}, written |-> {}]

\* The run at x, which nobody shares its name with, has these files, and a
\* status that is true of the destination it was at last.
FilesOf(x, fs) ==
    /\ x.step = "local" => fs["dir"][x.name] = B!NoFile
    /\ x.step = "dir" => fs["dir"][x.name] = Begun(x.run)
    /\ x.step \in {"local", "dir", "url", "command"} => fs["tmp"][x.name] = B!NoFile
    /\ x.step = "tmp" => fs["tmp"][x.name] = Begun(x.run)
    /\ x.step \in {"run", "remove"} => fs["tmp"][x.name] = B!Whole(x.run)
StatusOf(x, fs) ==
    x.status = "ok" =>
       /\ x.step \notin {"local", "dir"}
       /\ x.step = "url" => x.dest = "local"
       /\ x.step \in {"command", "tmp", "run"} => x.dest \in {"local", "url"}
       /\ x.step = "remove" => fs["remote"][x.name] = B!Whole(x.run)
       /\ x.step \in {"url", "command", "tmp", "run", "log"} =>
            x.dest \in B!Stores /\ fs[B!Place[x.dest]][x.name] = B!Whole(x.run)

Untouched ==
    \A n \in B!Names : named[n] = 0 =>
       /\ \A r \in Runners : ~At_(runner[r], n)
       /\ \A f \in Folders : file[f][n] = B!NoFile
       /\ \A row \in log : row.name # n
OneRun ==
    \A n \in B!Names : named[n] = 1 =>
       /\ \A q, r \in Runners : At_(runner[q], n) /\ At_(runner[r], n) => q = r
       /\ \A r \in Runners : At_(runner[r], n) =>
             /\ FilesOf(runner[r], file) /\ StatusOf(runner[r], file)
             /\ \A row \in log : row.name # n
       /\ \A row \in log : row.name = n /\ row.status = "ok" =>
             row.dest \in B!Stores /\ file[B!Place[row.dest]][n] = B!Whole(row.run)

BackupInv == BackupTypeOK /\ Untouched /\ OneRun

-----------------------------------------------------------------------------
\* A step of one runner under its name: it goes on to x, the files change at its
\* name only, and what it leaves is true of x, or is logged and true of the row.
LEMMA RunnerGoes ==
    ASSUME BackupInv, NEW r \in Runners, NEW x, ~B!At(r, "off"),
           B!Go(r, x), RunnerIsTyped(x), x.step = "off" \/ x.name = B!Name(r),
           UNCHANGED <<second, named>>,
           DOMAIN file' = Folders,
           \A f \in Folders : /\ DOMAIN file'[f] = B!Names
                              /\ \A n \in B!Names : FileIsTyped(file'[f][n])
                              /\ \A n \in B!Names : n # B!Name(r) => file'[f][n] = file[f][n],
           log \subseteq log',
           \A row \in log' : row \in log \/ (row.name = B!Name(r) /\ x.step = "off"),
           named[B!Name(r)] = 1 =>
              /\ x.step # "off" => FilesOf(x, file') /\ StatusOf(x, file')
              /\ \A row \in log' \ log : row.status = "ok" =>
                   row.dest \in B!Stores /\ file'[B!Place[row.dest]][B!Name(r)] = B!Whole(row.run)
    PROVE  BackupInv'
<1>1. /\ DOMAIN runner' = Runners /\ runner'[r] = x
      /\ \A q \in Runners : q # r => runner'[q] = runner[q]
  BY DEF BackupInv, BackupTypeOK, B!Go
<1>2. BackupTypeOK'
  BY <1>1 DEF BackupInv, BackupTypeOK, B!Name, RunnerIsTyped
<1>3. B!Name(r) \in B!Names /\ At_(runner[r], B!Name(r)) /\ named[B!Name(r)] # 0
  BY DEF BackupInv, BackupTypeOK, RunnerIsTyped, At_, B!At, B!Name, Untouched
<1>4. Untouched'
  <2>. SUFFICES ASSUME NEW n \in B!Names, named[n] = 0
                PROVE  /\ \A q \in Runners : ~At_(runner'[q], n)
                       /\ \A f \in Folders : file'[f][n] = B!NoFile
                       /\ \A row \in log' : row.name # n
    BY DEF Untouched
  <2>1. n # B!Name(r)
    BY <1>3
  <2>2. QED  BY <1>1, <2>1 DEF BackupInv, Untouched, At_
<1>5. OneRun'
  <2>. SUFFICES ASSUME NEW n \in B!Names, named[n] = 1
                PROVE  /\ \A q, s \in Runners : At_(runner'[q], n) /\ At_(runner'[s], n) => q = s
                       /\ \A q \in Runners : At_(runner'[q], n) =>
                             /\ FilesOf(runner'[q], file') /\ StatusOf(runner'[q], file')
                             /\ \A row \in log' : row.name # n
                       /\ \A row \in log' : row.name = n /\ row.status = "ok" =>
                             row.dest \in B!Stores /\ file'[B!Place[row.dest]][n] = B!Whole(row.run)
    BY DEF OneRun
  <2>0. /\ \A q, s \in Runners : At_(runner[q], n) /\ At_(runner[s], n) => q = s
        /\ \A q \in Runners : At_(runner[q], n) =>
              /\ FilesOf(runner[q], file) /\ StatusOf(runner[q], file)
              /\ \A row \in log : row.name # n
        /\ \A row \in log : row.name = n /\ row.status = "ok" =>
              row.dest \in B!Stores /\ file[B!Place[row.dest]][n] = B!Whole(row.run)
    BY DEF BackupInv, OneRun
  <2>1. CASE n # B!Name(r)
    <3>1. \A f \in Folders : file'[f][n] = file[f][n]
      BY <2>1
    <3>2. \A q \in Runners : At_(runner'[q], n) => q # r /\ runner'[q] = runner[q]
      BY <1>1, <2>1 DEF At_
    <3>3. \A row \in log' : row.name = n => row \in log
      BY <2>1
    <3>4. \A s \in B!Stores : B!Place[s] \in Folders
      BY DEF B!Stores, B!Place, Folders
    <3>5. ASSUME NEW q \in Runners, At_(runner'[q], n)
          PROVE  FilesOf(runner'[q], file') /\ StatusOf(runner'[q], file')
      <4>1. /\ runner'[q] = runner[q] /\ runner[q].name = n
            /\ FilesOf(runner[q], file) /\ StatusOf(runner[q], file)
        BY <2>0, <3>2, <3>5 DEF At_
      <4>2. QED  BY <3>1, <3>4, <4>1 DEF FilesOf, StatusOf, Folders
    <3>6. QED  BY <2>0, <3>1, <3>2, <3>3, <3>4, <3>5
  <2>2. CASE n = B!Name(r)
    <3>1. \A q \in Runners : At_(runner'[q], n) => q = r
      BY <1>1, <1>3, <2>0, <2>2
    <3>2. \A row \in log : row.name # n
      BY <1>3, <2>0, <2>2
    <3>3. QED  BY <1>1, <2>2, <3>1, <3>2 DEF At_
  <2>3. QED  BY <2>1, <2>2
<1>6. QED  BY <1>2, <1>4, <1>5 DEF BackupInv

\* What a runner's step may take for granted.
LEMMA RunnerIs ==
    ASSUME BackupInv, NEW r \in Runners
    PROVE  /\ RunnerIsTyped(runner[r]) /\ B!Name(r) \in B!Names
           /\ \A f \in Folders : DOMAIN file[f] = B!Names /\ FileIsTyped(file[f][B!Name(r)])
           /\ ~B!At(r, "off") /\ named[B!Name(r)] = 1 =>
                 FilesOf(runner[r], file) /\ StatusOf(runner[r], file)
           /\ \A s : /\ [runner[r] EXCEPT !.step = s].step = s
                     /\ \A f \in {"run", "name", "dest", "status"} :
                           [runner[r] EXCEPT !.step = s][f] = runner[r][f]
BY DEF BackupInv, BackupTypeOK, RunnerIsTyped, OneRun, At_, B!At, B!Name

\* A runner only goes on.
LEMMA GoKeeps ==
    ASSUME BackupInv, NEW r \in Runners, NEW x, ~B!At(r, "off"),
           B!Go(r, x), RunnerIsTyped(x), x.step # "off", x.name = B!Name(r),
           UNCHANGED <<second, named, file, log>>,
           named[B!Name(r)] = 1 => FilesOf(x, file) /\ StatusOf(x, file)
    PROVE  BackupInv'
BY RunnerGoes DEF BackupInv, BackupTypeOK

\* One file gives way to another, at one name.
LEMMA FileChanges ==
    ASSUME BackupInv, NEW g \in Folders, NEW m \in B!Names, NEW new, FileIsTyped(new),
           file' = [file EXCEPT ![g][m] = new]
    PROVE  /\ DOMAIN file' = Folders /\ file'[g][m] = new
           /\ \A f \in Folders : /\ DOMAIN file'[f] = B!Names
                                 /\ \A n \in B!Names : FileIsTyped(file'[f][n])
                                 /\ \A n \in B!Names : n # m => file'[f][n] = file[f][n]
           /\ \A f \in Folders : f # g => file'[f] = file[f]
<1>1. DOMAIN file = Folders /\ \A f \in Folders : DOMAIN file[f] = B!Names
  BY DEF BackupInv, BackupTypeOK
<1>2. /\ DOMAIN file' = Folders /\ \A f \in Folders : f # g => file'[f] = file[f]
      /\ file'[g] = [file[g] EXCEPT ![m] = new]
  BY <1>1
<1>3. /\ DOMAIN file'[g] = B!Names /\ file'[g][m] = new
      /\ \A n \in B!Names : n # m => file'[g][n] = file[g][n]
  BY <1>1, <1>2
<1>4. \A f \in Folders, n \in B!Names : FileIsTyped(file[f][n])
  BY DEF BackupInv, BackupTypeOK
<1>5. QED  BY <1>1, <1>2, <1>3, <1>4

LEMMA TriedIs ==
    ASSUME BackupInv, NEW r \in Runners, NEW s \in B!Stores, NEW status, B!Tried(r, s, status)
    PROVE  \E x : /\ B!Go(r, x) /\ RunnerIsTyped(x) /\ x.step = B!After[s] /\ x.dest = s
                  /\ x.status = status /\ x.name = B!Name(r) /\ x.run = B!Run(r)
<1>. DEFINE x == [runner[r] EXCEPT !.step = B!After[s], !.dest = s, !.status = status]
<1>1. B!Go(r, x)
  BY DEF B!Tried
<1>2. RunnerIsTyped(runner[r])
  BY RunnerIs
<1>3. B!After[s] \in RunnerSteps
  BY DEF B!After, B!Stores, RunnerSteps
<1>4. /\ DOMAIN x = {"step", "run", "name", "dest", "status"}
      /\ x.step = B!After[s] /\ x.dest = s /\ x.status = status
      /\ x.name = B!Name(r) /\ x.run = B!Run(r)
  BY <1>2 DEF RunnerIsTyped, B!Name, B!Run
<1>5. RunnerIsTyped(x)
  BY <1>2, <1>3, <1>4 DEF RunnerIsTyped, B!Name
<1>. HIDE DEF x
<1>6. QED  BY <1>1, <1>4, <1>5

LEMMA AfterIs == B!After["local"] = "url" /\ B!After["url"] = "command" /\ B!After["command"] = "log"
BY DEF B!After
LEMMA PlaceIs ==
    B!Place["local"] = "dir" /\ B!Place["url"] = "bucket" /\ B!Place["command"] = "remote"
BY DEF B!Place

-----------------------------------------------------------------------------
LEMMA InitBackupInv == MaxSecond \in Nat /\ B!Init => BackupInv
<1>. SUFFICES ASSUME MaxSecond \in Nat, B!Init PROVE BackupInv
  OBVIOUS
<1>1. RunnerIsTyped(B!Off) /\ B!Off.step = "off"
  <2>1. 0 \in B!Names
    BY DEF B!Names
  <2>2. QED  BY <2>1 DEF RunnerIsTyped, B!Off, RunnerSteps
<1>2. FileIsTyped(B!NoFile)
  BY DEF FileIsTyped, B!NoFile
<1>3. BackupTypeOK
  BY <1>1, <1>2 DEF B!Init, BackupTypeOK, Folders
<1>4. QED  BY <1>1, <1>3 DEF B!Init, BackupInv, Untouched, OneRun, At_, Folders

LEMMA BeginBackup == ASSUME BackupInv, NEW r \in Runners, B!run_backup_once(r) PROVE BackupInv'
<1>. DEFINE n == second
            x == [B!Off EXCEPT !.step = "local", !.run = B!runs + 1, !.name = second]
<1>1. n \in B!Names /\ named[n] \in Nat /\ named \in [B!Names -> Nat]
  BY DEF BackupInv, BackupTypeOK, B!Names
<1>2. /\ named' = [named EXCEPT ![n] = @ + 1] /\ B!At(r, "off") /\ B!Go(r, x)
      /\ UNCHANGED <<second, file, log>>
  BY DEF B!run_backup_once
<1>3. x.step = "local" /\ x.name = n /\ x.status = "skipped" /\ RunnerIsTyped(x)
  BY <1>1 DEF B!Off, RunnerIsTyped, RunnerSteps
<1>. HIDE DEF n, x
<1>4. /\ DOMAIN runner' = Runners /\ runner'[r] = x
      /\ \A q \in Runners : q # r => runner'[q] = runner[q]
  BY <1>2 DEF BackupInv, BackupTypeOK, B!Go
<1>5. /\ named' \in [B!Names -> Nat] /\ named'[n] = named[n] + 1
      /\ \A m \in B!Names : m # n => named'[m] = named[m]
  BY <1>1, <1>2
<1>6. BackupTypeOK'
  BY <1>2, <1>3, <1>4, <1>5 DEF BackupInv, BackupTypeOK
<1>7. ASSUME NEW m \in B!Names, m # n, NEW q \in Runners
      PROVE  At_(runner'[q], m) => q # r /\ runner'[q] = runner[q]
  BY <1>3, <1>4, <1>7 DEF At_
<1>8. Untouched'
  BY <1>1, <1>2, <1>5, <1>7 DEF BackupInv, Untouched
<1>9. OneRun'
  <2>. SUFFICES ASSUME NEW m \in B!Names, named'[m] = 1
                PROVE  /\ \A q, s \in Runners : At_(runner'[q], m) /\ At_(runner'[s], m) => q = s
                       /\ \A q \in Runners : At_(runner'[q], m) =>
                             /\ FilesOf(runner'[q], file') /\ StatusOf(runner'[q], file')
                             /\ \A row \in log' : row.name # m
                       /\ \A row \in log' : row.name = m /\ row.status = "ok" =>
                             row.dest \in B!Stores /\ file'[B!Place[row.dest]][m] = B!Whole(row.run)
    BY DEF OneRun
  <2>1. CASE m # n
    <3>1. named[m] = 1
      BY <1>5, <2>1
    <3>2. QED  BY <1>2, <1>7, <2>1, <3>1 DEF BackupInv, OneRun
  <2>2. CASE m = n
    <3>1. named[n] = 0
      BY <1>1, <1>5, <2>2
    <3>2. /\ \A q \in Runners : ~At_(runner[q], n)
          /\ \A f \in Folders : file[f][n] = B!NoFile
          /\ \A row \in log : row.name # n
      BY <1>1, <3>1 DEF BackupInv, Untouched
    <3>3. \A q \in Runners : At_(runner'[q], n) => q = r
      BY <1>4, <3>2
    <3>4. FilesOf(x, file) /\ StatusOf(x, file)
      BY <1>3, <3>2 DEF FilesOf, StatusOf, Folders
    <3>5. QED  BY <1>2, <1>4, <2>2, <3>2, <3>3, <3>4
  <2>3. QED  BY <2>1, <2>2
<1>10. QED  BY <1>6, <1>8, <1>9 DEF BackupInv

\* A setting that is empty, or a destination that fails: the runner goes on with
\* the files as they are.
LEMMA SkipKeeps ==
    ASSUME BackupInv, NEW r \in Runners, NEW s \in B!Stores, B!Skip(r, s) PROVE BackupInv'
<1>. DEFINE x == [runner[r] EXCEPT !.step = B!After[s]]
<1>1. B!Go(r, x) /\ runner[r].step = s /\ UNCHANGED <<second, file, log, named>>
  BY DEF B!Skip, B!At
<1>2. RunnerIsTyped(runner[r])
  BY RunnerIs
<1>3. /\ DOMAIN x = {"step", "run", "name", "dest", "status"} /\ x.step = B!After[s]
      /\ x.run = runner[r].run /\ x.name = runner[r].name
      /\ x.dest = runner[r].dest /\ x.status = runner[r].status
  BY <1>2 DEF RunnerIsTyped
<1>4. \/ s = "local" /\ B!After[s] = "url"
      \/ s = "url" /\ B!After[s] = "command"
      \/ s = "command" /\ B!After[s] = "log"
  <2>1. s = "local" \/ s = "url" \/ s = "command"
    BY DEF B!Stores
  <2>. HIDE DEF x
  <2>2. QED  BY <2>1, AfterIs
<1>5. RunnerIsTyped(x)
  BY <1>2, <1>3, <1>4 DEF RunnerIsTyped, RunnerSteps
<1>. HIDE DEF x
<1>6. ASSUME named[B!Name(r)] = 1 PROVE FilesOf(x, file) /\ StatusOf(x, file)
  <2>1. FilesOf(runner[r], file) /\ StatusOf(runner[r], file)
    BY <1>1, <1>6, RunnerIs DEF B!At, B!Stores
  <2>2. FilesOf(x, file)
    BY <1>1, <1>3, <1>4, <2>1 DEF FilesOf
  <2>3. StatusOf(x, file)
    BY <1>1, <1>3, <1>4, <2>1 DEF StatusOf, B!Stores
  <2>4. QED  BY <2>2, <2>3
<1>7. ~B!At(r, "off") /\ x.step # "off" /\ x.name = B!Name(r)
  BY <1>1, <1>3, <1>4 DEF B!At, B!Name
<1>8. QED  BY <1>1, <1>5, <1>6, <1>7, GoKeeps

LEMMA RaisesKeeps == ASSUME BackupInv, NEW r \in Runners, B!Raises(r) PROVE BackupInv'
<1>1. PICK s \in {"local", "command"} :
         /\ B!Tried(r, s, "error")
         /\ s = "local" => runner[r].step \in {"local", "dir"}
         /\ s = "command" => runner[r].step \in {"command", "tmp", "run"}
  BY DEF B!Raises, B!At
<1>2. PICK x : /\ B!Go(r, x) /\ RunnerIsTyped(x) /\ x.step = B!After[s] /\ x.status = "error"
               /\ x.name = B!Name(r)
  BY <1>1, TriedIs DEF B!Stores
<1>3. x.step = (IF s = "local" THEN "url" ELSE "log")
  BY <1>2, AfterIs
<1>4. ASSUME named[B!Name(r)] = 1 PROVE FilesOf(x, file) /\ StatusOf(x, file)
  <2>1. FilesOf(runner[r], file)
    BY <1>1, <1>4, RunnerIs DEF B!At
  <2>2. QED  BY <1>1, <1>2, <1>3, <2>1, AfterIs DEF FilesOf, StatusOf, B!Name
<1>5. ~B!At(r, "off") /\ UNCHANGED <<second, named, file, log>>
  BY <1>1 DEF B!At, B!Raises
<1>6. QED  BY <1>2, <1>3, <1>4, <1>5, GoKeeps

LEMMA OpensKeeps ==
    ASSUME BackupInv, NEW r \in Runners, NEW s, NEW f, B!Opens(r, s, f),
           <<s, f>> \in {<<"local", "dir">>, <<"command", "tmp">>}
    PROVE  BackupInv'
<1>1. B!Opens(r, s, f) /\ ((s = "local" /\ f = "dir") \/ (s = "command" /\ f = "tmp"))
  OBVIOUS
<1>. DEFINE x == [runner[r] EXCEPT !.step = f]
            new == [file[f][B!Name(r)] EXCEPT !.opened = @ \cup {B!Run(r)}]
<1>2. f \in Folders /\ B!Name(r) \in B!Names /\ RunnerIsTyped(runner[r])
      /\ FileIsTyped(file[f][B!Name(r)])
  BY <1>1, RunnerIs DEF Folders
<1>3. /\ runner[r].step = s /\ B!Go(r, x) /\ UNCHANGED <<second, log, named>>
      /\ file' = [file EXCEPT ![f][B!Name(r)] = new]
  <2>1. /\ DOMAIN file = Folders /\ DOMAIN file[f] = B!Names
    BY <1>2 DEF BackupInv, BackupTypeOK
  <2>2. file' = [file EXCEPT ![f][B!Name(r)].opened = @ \cup {B!Run(r)}]
    BY <1>1 DEF B!Opens
  <2>3. QED  BY <1>1, <2>1, <2>2 DEF B!Opens, B!At
<1>4. FileIsTyped(new) /\ new.opened = file[f][B!Name(r)].opened \cup {B!Run(r)}
      /\ new.written = file[f][B!Name(r)].written
  BY <1>2 DEF FileIsTyped
<1>5. /\ x.step = f /\ x.name = B!Name(r) /\ x.run = B!Run(r) /\ x.dest = runner[r].dest
      /\ x.status = runner[r].status /\ RunnerIsTyped(x)
  BY <1>1, <1>2 DEF RunnerIsTyped, RunnerSteps, B!Name, B!Run
<1>6. file[f][B!Name(r)] = B!NoFile => new = Begun(B!Run(r))
  BY DEF B!NoFile, Begun
<1>. HIDE DEF x, new
<1>7. /\ DOMAIN file' = Folders /\ file'[f][B!Name(r)] = new
      /\ \A g \in Folders : /\ DOMAIN file'[g] = B!Names
                            /\ \A n \in B!Names : FileIsTyped(file'[g][n])
                            /\ \A n \in B!Names : n # B!Name(r) => file'[g][n] = file[g][n]
      /\ \A g \in Folders : g # f => file'[g] = file[g]
  BY <1>2, <1>3, <1>4, FileChanges
<1>8. ASSUME named[B!Name(r)] = 1 PROVE FilesOf(x, file') /\ StatusOf(x, file')
  <2>1. FilesOf(runner[r], file) /\ StatusOf(runner[r], file)
    BY <1>1, <1>3, <1>8, RunnerIs DEF B!At
  <2>2. FilesOf(x, file')
    BY <1>1, <1>3, <1>5, <1>6, <1>7, <2>1 DEF FilesOf, Folders, B!Name
  <2>3. StatusOf(x, file')
    BY <1>1, <1>3, <1>5, <1>7, <2>1, PlaceIs DEF StatusOf, Folders, B!Name, B!Run
  <2>4. QED  BY <2>2, <2>3
<1>9. ~B!At(r, "off") /\ x.step # "off"
  BY <1>1, <1>3, <1>5 DEF B!At
<1>10. QED  BY <1>3, <1>5, <1>7, <1>8, <1>9, RunnerGoes

LEMMA WritesKeeps ==
    ASSUME BackupInv, NEW r \in Runners, B!LocalWrite(r) \/ B!CommandWrite(r) PROVE BackupInv'
<1>1. PICK f \in {"dir", "tmp"} : B!At(r, f) /\ B!Written(r, f)
        /\ \/ f = "dir" /\ B!Tried(r, "local", "ok")
           \/ f = "tmp" /\ B!Go(r, [runner[r] EXCEPT !.step = "run"])
        /\ UNCHANGED <<second, log, named>>
  BY DEF B!LocalWrite, B!CommandWrite
<1>. DEFINE old == file[f][B!Name(r)]
            new == [old EXCEPT !.written = IF B!Run(r) \in old.opened THEN @ \cup {B!Run(r)} ELSE @]
<1>2. f \in Folders /\ B!Name(r) \in B!Names /\ RunnerIsTyped(runner[r]) /\ FileIsTyped(old)
  BY <1>1, RunnerIs DEF Folders
<1>3. file' = [file EXCEPT ![f][B!Name(r)] = new]
  <2>1. /\ DOMAIN file = Folders /\ DOMAIN file[f] = B!Names
    BY <1>2 DEF BackupInv, BackupTypeOK
  <2>2. QED  BY <1>1, <1>2, <2>1 DEF B!Written
<1>4. FileIsTyped(new)
  BY <1>2 DEF FileIsTyped
<1>5. old = Begun(B!Run(r)) => new = B!Whole(B!Run(r))
  BY DEF Begun, B!Whole
<1>6. PICK x : /\ B!Go(r, x) /\ RunnerIsTyped(x) /\ x.name = B!Name(r) /\ x.run = B!Run(r)
               /\ f = "dir" => x.step = "url" /\ x.dest = "local"
               /\ f = "tmp" => /\ x.step = "run" /\ x.dest = runner[r].dest
                               /\ x.status = runner[r].status
  <2>1. CASE f = "dir"
    <3>1. B!Tried(r, "local", "ok")
      BY <1>1, <2>1
    <3>2. QED  BY <2>1, <3>1, TriedIs, AfterIs DEF B!Stores
  <2>2. CASE f = "tmp"
    <3>. DEFINE x == [runner[r] EXCEPT !.step = "run"]
    <3>1. /\ B!Go(r, x) /\ x.step = "run" /\ x.name = B!Name(r) /\ x.run = B!Run(r)
          /\ x.dest = runner[r].dest /\ x.status = runner[r].status /\ RunnerIsTyped(x)
      BY <1>1, <1>2, <2>2 DEF RunnerIsTyped, RunnerSteps, B!Name, B!Run
    <3>. HIDE DEF x
    <3>2. QED  BY <2>2, <3>1
  <2>3. QED  BY <2>1, <2>2
<1>. HIDE DEF new
<1>7. /\ DOMAIN file' = Folders /\ file'[f][B!Name(r)] = new
      /\ \A g \in Folders : /\ DOMAIN file'[g] = B!Names
                            /\ \A n \in B!Names : FileIsTyped(file'[g][n])
                            /\ \A n \in B!Names : n # B!Name(r) => file'[g][n] = file[g][n]
      /\ \A g \in Folders : g # f => file'[g] = file[g]
  BY <1>2, <1>3, <1>4, FileChanges
<1>8. ASSUME named[B!Name(r)] = 1 PROVE FilesOf(x, file') /\ StatusOf(x, file')
  <2>1. FilesOf(runner[r], file) /\ StatusOf(runner[r], file)
    BY <1>1, <1>8, RunnerIs DEF B!At
  <2>2. old = Begun(B!Run(r))
    BY <1>1, <2>1 DEF FilesOf, B!At, B!Name, B!Run
  <2>3. FilesOf(x, file')
    BY <1>1, <1>5, <1>6, <1>7, <2>1, <2>2 DEF FilesOf, Folders, B!Name, B!At
  <2>4. StatusOf(x, file')
    BY <1>1, <1>5, <1>6, <1>7, <2>1, <2>2, PlaceIs DEF StatusOf, Folders, B!Stores, B!Name, B!Run, B!At
  <2>5. QED  BY <2>3, <2>4
<1>9. ~B!At(r, "off") /\ x.step # "off"
  BY <1>1, <1>6 DEF B!At
<1>10. QED  BY <1>1, <1>6, <1>7, <1>8, <1>9, RunnerGoes

LEMMA PutKeeps == ASSUME BackupInv, NEW r \in Runners, B!Put(r) PROVE BackupInv'
<1>1. PICK status \in {"ok", "error"} :
         /\ B!Tried(r, "url", status)
         /\ \/ file' = [file EXCEPT !["bucket"][B!Name(r)] = B!Whole(B!Run(r))]
            \/ status = "error" /\ file' = file
  BY DEF B!Put
<1>2. PICK x : /\ B!Go(r, x) /\ RunnerIsTyped(x) /\ x.step = "command" /\ x.dest = "url"
               /\ x.status = status /\ x.name = B!Name(r) /\ x.run = B!Run(r)
  BY <1>1, TriedIs, AfterIs DEF B!Stores
<1>3. B!Name(r) \in B!Names /\ B!At(r, "url") /\ UNCHANGED <<second, log, named>>
  BY RunnerIs DEF B!Put
<1>4. /\ DOMAIN file' = Folders
      /\ \A g \in Folders : /\ DOMAIN file'[g] = B!Names
                            /\ \A n \in B!Names : FileIsTyped(file'[g][n])
                            /\ \A n \in B!Names : n # B!Name(r) => file'[g][n] = file[g][n]
      /\ \A g \in Folders : g # "bucket" => file'[g] = file[g]
      /\ status = "ok" => file'["bucket"][B!Name(r)] = B!Whole(B!Run(r))
  <2>1. CASE file' = [file EXCEPT !["bucket"][B!Name(r)] = B!Whole(B!Run(r))]
    <3>1. FileIsTyped(B!Whole(B!Run(r))) /\ "bucket" \in Folders
      BY DEF FileIsTyped, B!Whole, Folders
    <3>2. /\ DOMAIN file' = Folders /\ file'["bucket"][B!Name(r)] = B!Whole(B!Run(r))
          /\ \A f \in Folders : /\ DOMAIN file'[f] = B!Names
                                /\ \A n \in B!Names : FileIsTyped(file'[f][n])
                                /\ \A n \in B!Names : n # B!Name(r) => file'[f][n] = file[f][n]
          /\ \A f \in Folders : f # "bucket" => file'[f] = file[f]
      BY <1>3, <2>1, <3>1, FileChanges
    <3>3. QED  BY <3>2
  <2>2. CASE status = "error" /\ file' = file
    BY <2>2 DEF BackupInv, BackupTypeOK
  <2>3. QED  BY <1>1, <2>1, <2>2
<1>5. ASSUME named[B!Name(r)] = 1 PROVE FilesOf(x, file') /\ StatusOf(x, file')
  <2>1. FilesOf(runner[r], file)
    BY <1>3, <1>5, RunnerIs DEF B!At
  <2>2. FilesOf(x, file')
    BY <1>2, <1>3, <1>4, <2>1 DEF FilesOf, Folders, B!Name, B!At
  <2>3. StatusOf(x, file')
    BY <1>2, <1>4, PlaceIs DEF StatusOf, B!Stores
  <2>4. QED  BY <2>2, <2>3
<1>6. ~B!At(r, "off")
  BY <1>3 DEF B!At
<1>7. QED  BY <1>2, <1>3, <1>4, <1>5, <1>6, RunnerGoes

LEMMA CommandKeeps == ASSUME BackupInv, NEW r \in Runners, B!CommandRuns(r) PROVE BackupInv'
<1>0. B!Name(r) \in B!Names /\ RunnerIsTyped(runner[r]) /\ FileIsTyped(file["tmp"][B!Name(r)])
  BY RunnerIs DEF Folders
<1>1. PICK status \in {"ok", "error"} :
         /\ B!Go(r, [runner[r] EXCEPT !.step = "remove", !.status = status])
         /\ \/ file' = [file EXCEPT !["remote"][B!Name(r)] = file["tmp"][B!Name(r)]]
            \/ status = "error" /\ file' = file
  BY DEF B!CommandRuns
<1>. DEFINE x == [runner[r] EXCEPT !.step = "remove", !.status = status]
<1>2. /\ B!Go(r, x) /\ RunnerIsTyped(x) /\ x.step = "remove" /\ x.status = status
      /\ x.name = B!Name(r) /\ x.run = B!Run(r)
  BY <1>0, <1>1 DEF RunnerIsTyped, RunnerSteps, B!Name, B!Run
<1>. HIDE DEF x
<1>3. B!At(r, "run") /\ UNCHANGED <<second, log, named>>
  BY DEF B!CommandRuns
<1>4. /\ DOMAIN file' = Folders
      /\ \A g \in Folders : /\ DOMAIN file'[g] = B!Names
                            /\ \A n \in B!Names : FileIsTyped(file'[g][n])
                            /\ \A n \in B!Names : n # B!Name(r) => file'[g][n] = file[g][n]
      /\ \A g \in Folders : g # "remote" => file'[g] = file[g]
      /\ status = "ok" => file'["remote"][B!Name(r)] = file["tmp"][B!Name(r)]
  <2>1. CASE file' = [file EXCEPT !["remote"][B!Name(r)] = file["tmp"][B!Name(r)]]
    <3>1. "remote" \in Folders
      BY DEF Folders
    <3>2. /\ DOMAIN file' = Folders /\ file'["remote"][B!Name(r)] = file["tmp"][B!Name(r)]
          /\ \A f \in Folders : /\ DOMAIN file'[f] = B!Names
                                /\ \A n \in B!Names : FileIsTyped(file'[f][n])
                                /\ \A n \in B!Names : n # B!Name(r) => file'[f][n] = file[f][n]
          /\ \A f \in Folders : f # "remote" => file'[f] = file[f]
      BY <1>0, <2>1, <3>1, FileChanges
    <3>3. QED  BY <3>2
  <2>2. CASE status = "error" /\ file' = file
    BY <2>2 DEF BackupInv, BackupTypeOK
  <2>3. QED  BY <1>1, <2>1, <2>2
<1>5. ASSUME named[B!Name(r)] = 1 PROVE FilesOf(x, file') /\ StatusOf(x, file')
  <2>1. FilesOf(runner[r], file)
    BY <1>3, <1>5, RunnerIs DEF B!At
  <2>2. file["tmp"][B!Name(r)] = B!Whole(B!Run(r)) /\ file'["tmp"] = file["tmp"]
    BY <1>3, <1>4, <2>1 DEF FilesOf, Folders, B!Name, B!Run, B!At
  <2>3. FilesOf(x, file')
    BY <1>2, <2>2 DEF FilesOf
  <2>4. StatusOf(x, file')
    BY <1>2, <1>4, <2>2 DEF StatusOf
  <2>5. QED  BY <2>3, <2>4
<1>6. ~B!At(r, "off")
  BY <1>3 DEF B!At
<1>7. QED  BY <1>2, <1>3, <1>4, <1>5, <1>6, RunnerGoes

LEMMA RemovesKeeps == ASSUME BackupInv, NEW r \in Runners, B!CommandRemoves(r) PROVE BackupInv'
<1>. DEFINE status == IF file["tmp"][B!Name(r)] = B!NoFile THEN "error" ELSE runner[r].status
<1>1. /\ B!Tried(r, "command", status) /\ B!At(r, "remove")
      /\ file' = [file EXCEPT !["tmp"][B!Name(r)] = B!NoFile]
      /\ UNCHANGED <<second, log, named>>
  BY DEF B!CommandRemoves
<1>2. PICK x : /\ B!Go(r, x) /\ RunnerIsTyped(x) /\ x.step = "log" /\ x.dest = "command"
               /\ x.status = status /\ x.name = B!Name(r) /\ x.run = B!Run(r)
  BY <1>1, TriedIs, AfterIs DEF B!Stores
<1>3. B!Name(r) \in B!Names /\ FileIsTyped(B!NoFile) /\ "tmp" \in Folders
  BY RunnerIs DEF FileIsTyped, B!NoFile, Folders
<1>4. /\ DOMAIN file' = Folders
      /\ \A g \in Folders : /\ DOMAIN file'[g] = B!Names
                            /\ \A n \in B!Names : FileIsTyped(file'[g][n])
                            /\ \A n \in B!Names : n # B!Name(r) => file'[g][n] = file[g][n]
      /\ \A g \in Folders : g # "tmp" => file'[g] = file[g]
  BY <1>1, <1>3, FileChanges
<1>5. ASSUME named[B!Name(r)] = 1 PROVE FilesOf(x, file') /\ StatusOf(x, file')
  <2>1. StatusOf(runner[r], file)
    BY <1>1, <1>5, RunnerIs DEF B!At
  <2>2. FilesOf(x, file')
    BY <1>2 DEF FilesOf
  <2>3. status = "ok" => file["remote"][B!Name(r)] = B!Whole(B!Run(r))
    BY <1>1, <2>1 DEF StatusOf, B!Name, B!Run, B!At
  <2>4. StatusOf(x, file')
    BY <1>2, <1>4, <2>3, PlaceIs DEF StatusOf, B!Stores, Folders
  <2>5. QED  BY <2>2, <2>4
<1>6. ~B!At(r, "off")
  BY <1>1 DEF B!At
<1>7. QED  BY <1>1, <1>2, <1>4, <1>5, <1>6, RunnerGoes

LEMMA EndsKeeps ==
    ASSUME BackupInv, MaxSecond \in Nat, NEW r \in Runners, B!log_backup(r) \/ B!Crash(r)
    PROVE  BackupInv'
<1>1. /\ ~B!At(r, "off") /\ B!Go(r, B!Off) /\ UNCHANGED <<second, named, file>>
  BY DEF B!log_backup, B!Crash, B!At
<1>2. RunnerIsTyped(B!Off) /\ B!Off.step = "off"
  BY DEF RunnerIsTyped, B!Off, RunnerSteps, B!Names
<1>3. /\ log \subseteq log'
      /\ \A row \in log' : row \in log \/
           /\ B!At(r, "log") /\ row.name = B!Name(r) /\ row.run = B!Run(r)
           /\ row.dest = runner[r].dest /\ row.status = runner[r].status
  BY DEF B!log_backup, B!Crash
<1>4. ASSUME named[B!Name(r)] = 1, NEW row \in log' \ log, row.status = "ok"
      PROVE  row.dest \in B!Stores /\ file'[B!Place[row.dest]][B!Name(r)] = B!Whole(row.run)
  <2>1. StatusOf(runner[r], file)
    BY <1>1, <1>4, RunnerIs
  <2>2. QED  BY <1>1, <1>3, <1>4, <2>1 DEF StatusOf, B!At, B!Name, B!Run
<1>5. /\ DOMAIN file' = Folders
      /\ \A g \in Folders : /\ DOMAIN file'[g] = B!Names
                            /\ \A n \in B!Names : FileIsTyped(file'[g][n])
                            /\ \A n \in B!Names : n # B!Name(r) => file'[g][n] = file[g][n]
  BY <1>1 DEF BackupInv, BackupTypeOK
<1>6. QED  BY <1>1, <1>2, <1>3, <1>4, <1>5, RunnerGoes

LEMMA NextBackupInv == ASSUME MaxSecond \in Nat, BackupInv, [B!Next]_(B!bvars) PROVE BackupInv'
<1>1. CASE UNCHANGED B!bvars \/ B!Second
  <2>1. UNCHANGED <<file, log, runner, named>> /\ second' \in Nat /\ second' <= MaxSecond
    BY <1>1 DEF B!bvars, B!Second, BackupInv, BackupTypeOK
  <2>2. QED  BY <2>1 DEF BackupInv, BackupTypeOK, Untouched, OneRun
<1>2. ASSUME NEW r \in Runners,
             \/ B!run_backup_once(r) \/ B!LocalOpen(r) \/ B!LocalWrite(r) \/ B!Put(r)
             \/ B!CommandOpen(r) \/ B!CommandWrite(r) \/ B!CommandRuns(r) \/ B!CommandRemoves(r)
             \/ B!Raises(r) \/ B!log_backup(r) \/ B!Crash(r)
             \/ \E s \in B!Stores : B!Skip(r, s)
      PROVE  BackupInv'
  <2>1. CASE B!LocalOpen(r) \/ B!CommandOpen(r)
    BY <2>1, OpensKeeps DEF B!LocalOpen, B!CommandOpen
  <2>2. QED
    BY <1>2, <2>1, BeginBackup, WritesKeeps, PutKeeps, CommandKeeps, RemovesKeeps,
       RaisesKeeps, EndsKeeps, SkipKeeps
<1>3. QED  BY <1>1, <1>2 DEF B!Next

\* A row of backup_log that says "ok" vouches for a copy, whatever failed before
\* it at the other destinations and whoever else runs a backup meanwhile, as long
\* as nobody took the archive's name (cloud_backup.run_backup_once).
THEOREM LogsVouch == MCSpec => []LoggedOkHasACopy
<1>1. MCInit => BackupInv
  BY InitBackupInv, BackupAssumption DEF MCInit
<1>2. BackupInv /\ [MCNext]_<<part, vars, reports, memo, deliveries, backup>> => BackupInv'
  <2>1. [MCNext]_<<part, vars, reports, memo, deliveries, backup>> => [B!Next]_(B!bvars)
    BY DEF MCNext, reports, memo, deliveries, backup, vars, B!bvars
  <2>2. QED  BY <2>1, NextBackupInv, BackupAssumption
<1>3. BackupInv => LoggedOkHasACopy
  BY DEF BackupInv, BackupTypeOK, OneRun, LoggedOkHasACopy, B!LoggedOkHasACopy
<1>4. QED  BY <1>1, <1>2, <1>3, PTL DEF MCSpec

-----------------------------------------------------------------------------
(* The dashboard.  While nothing but arrivals comes between its reads, what *)
(* has been read so far stays true of the table (ReadsAgree): the arrived  *)
(* only grow, those yet to arrive only become fewer.                       *)

PageFields == {"step", "arrived", "missing", "recent", "late", "absent"}
PageTypeOK ==
    /\ IsFiniteSet(rows) /\ registered \subseteq People
    /\ DOMAIN page = PageFields /\ page.step \in 0..6
    /\ disturbed \in BOOLEAN
LateOf(rs) == {r \in rs : r.late}

\* What has been read so far, while no more than arrivals came between the reads.
ReadsAgree ==
    ~disturbed =>
       /\ page.step >= 2 => page.arrived \subseteq R!OnDay(today)
       /\ page.step >= 3 => /\ R!PersonsOf(page.arrived) \cap page.missing = {}
                            /\ R!not_yet_arrived \subseteq page.missing
                            /\ page.missing \subseteq registered
       /\ page.step >= 4 => page.arrived \subseteq page.recent
                            \/ Cardinality(page.recent) = RecentLimit
       /\ page.step >= 5 => page.late >= Cardinality(LateOf(page.arrived))
       /\ page.step >= 6 => page.absent <= Cardinality(page.missing)
PageInv == PageTypeOK /\ ReadsAgree

-----------------------------------------------------------------------------
LEMMA RowsAreFinite ==
    ASSUME PageTypeOK, IsFiniteSet(People)
    PROVE  /\ IsFiniteSet(R!OnDay(today)) /\ IsFiniteSet(R!late_today)
           /\ IsFiniteSet(R!not_yet_arrived) /\ IsFiniteSet(registered)
           /\ Cardinality(R!OnDay(today)) \in Nat
<1>1. IsFiniteSet(rows) /\ IsFiniteSet(registered)
  BY FS_Subset DEF PageTypeOK
<1>2. R!OnDay(today) \in SUBSET rows /\ R!late_today \in SUBSET rows
      /\ R!not_yet_arrived \in SUBSET registered
  BY DEF R!OnDay, R!late_today, R!not_yet_arrived
<1>3. QED  BY <1>1, <1>2, FS_Subset, FS_CardinalityType

LEMMA LesserOfTwo ==
    ASSUME NEW a \in Nat, NEW b \in Nat PROVE R!Min({a, b}) \in {a, b}
<1>1. \E x \in {a, b} : \A y \in {a, b} : x <= y
  OBVIOUS
<1>2. QED  BY <1>1 DEF R!Min

\* The instance counts as this module does.
LEMMA ReportsCount == \A S : R!Cardinality(S) = Cardinality(S)
BY DEF R!Cardinality, Cardinality

LEMMA InitPageInv == R!Init => PageInv
<1>. SUFFICES ASSUME R!Init PROVE PageInv
  OBVIOUS
<1>1. IsFiniteSet(rows)
  BY FS_EmptySet DEF R!Init
<1>2. DOMAIN page = PageFields /\ page.step = 0
  BY DEF R!Init, R!EmptyPage, PageFields
<1>3. registered \subseteq People /\ disturbed \in BOOLEAN
  BY DEF R!Init
<1>4. PageTypeOK
  BY <1>1, <1>2, <1>3 DEF PageTypeOK
<1>5. QED  BY <1>2, <1>4 DEF PageInv, ReadsAgree

\* An arrival: the sets of those who came and of those who did not can only
\* grow and shrink.
LEMMA MarkKeepsPage ==
    ASSUME PageInv, NEW p, NEW late, R!mark_attendance(p, late) PROVE PageInv'
<1>1. /\ rows \subseteq rows' /\ UNCHANGED <<page, today, registered, disturbed>>
      /\ rows' = rows \cup {[person |-> p, day |-> today, late |-> late]}
  BY DEF R!mark_attendance
<1>2. PageTypeOK'
  BY <1>1, FS_AddElement DEF PageInv, PageTypeOK
<1>3. R!OnDay(today) \subseteq R!OnDay(today)' /\ R!not_yet_arrived' \subseteq R!not_yet_arrived
  BY <1>1 DEF R!OnDay, R!not_yet_arrived
<1>4. ReadsAgree'
  BY <1>1, <1>3 DEF PageInv, ReadsAgree, LateOf, R!PersonsOf
<1>5. QED  BY <1>2, <1>4 DEF PageInv

LEMMA DisturbKeepsPage ==
    ASSUME PageInv, NEW p, R!delete_person(p) \/ R!fulfil_erasure(p) \/ R!Midnight
                            \/ (p \in People /\ R!upsert_person(p))
    PROVE  PageInv'
<1>1. disturbed' = TRUE /\ page' = page /\ rows' \in SUBSET rows /\ registered' \subseteq People
  BY DEF PageInv, PageTypeOK, R!delete_person, R!fulfil_erasure, R!Midnight, R!upsert_person
<1>2. IsFiniteSet(rows')
  BY <1>1, FS_Subset DEF PageInv, PageTypeOK
<1>3. QED  BY <1>1, <1>2 DEF PageInv, PageTypeOK, ReadsAgree

\* A read of the page: what it finds agrees with what the reads before it found.
LEMMA ReadKeepsPage ==
    ASSUME PageInv, IsFiniteSet(People), RecentLimit \in Nat, R!home PROVE PageInv'
<1>0. /\ UNCHANGED <<today, zone, registered, rows>>
      /\ DOMAIN page = PageFields /\ page.step \in 0..6
  BY DEF R!home, PageInv, PageTypeOK
<1>. /\ R!OnDay(today)' = R!OnDay(today) /\ R!not_yet_arrived' = R!not_yet_arrived
     /\ IsFiniteSet(rows)' /\ registered' \subseteq People
  BY <1>0 DEF R!OnDay, R!not_yet_arrived, PageInv, PageTypeOK
<1>1. CASE page' = [R!EmptyPage EXCEPT !.step = 1] \/ page' = R!EmptyPage
  <2>1. DOMAIN page' = PageFields /\ page'.step \in {0, 1}
    BY <1>1 DEF R!EmptyPage, PageFields
  <2>2. disturbed' \in BOOLEAN
    BY DEF R!home, PageInv, PageTypeOK
  <2>3. QED  BY <2>1, <2>2 DEF PageInv, PageTypeOK, ReadsAgree
<1>2. ASSUME page.step = 1, UNCHANGED disturbed,
             page' = [R!ReadArrived EXCEPT !.step = @ + 1]
      PROVE  PageInv'
  <2>1. /\ DOMAIN page' = PageFields /\ page'.step = 2 /\ page'.arrived = R!OnDay(today)
    BY <1>0, <1>2 DEF R!ReadArrived, R!list_attendance, PageFields
  <2>2. QED  BY <1>2, <2>1 DEF PageInv, PageTypeOK, ReadsAgree
<1>3. ASSUME page.step = 2, UNCHANGED disturbed,
             page' = [R!ReadMissing EXCEPT !.step = @ + 1]
      PROVE  PageInv'
  <2>1. /\ DOMAIN page' = PageFields /\ page'.step = 3
        /\ page'.arrived = page.arrived /\ page'.missing = R!not_yet_arrived
    BY <1>0, <1>3 DEF R!ReadMissing, R!yet_to_arrive, R!not_yet_arrived, PageFields
  <2>2. ~disturbed => R!PersonsOf(page.arrived) \cap R!not_yet_arrived = {}
    BY <1>3 DEF PageInv, ReadsAgree, R!PersonsOf, R!not_yet_arrived
  <2>3. R!not_yet_arrived \subseteq registered
    BY DEF R!not_yet_arrived
  <2>4. QED  BY <1>0, <1>3, <2>1, <2>2, <2>3 DEF PageInv, PageTypeOK, ReadsAgree
<1>4. ASSUME page.step = 3, UNCHANGED disturbed, NEW s \in R!recent_sightings,
             page' = [page EXCEPT !.step = 4, !.recent = s]
      PROVE  PageInv'
  <2>1. /\ DOMAIN page' = PageFields /\ page'.step = 4 /\ page'.recent = s
        /\ page'.arrived = page.arrived /\ page'.missing = page.missing
    BY <1>0, <1>4 DEF PageFields
  <2>2. s \subseteq R!OnDay(today) /\ Cardinality(s) \in {RecentLimit, Cardinality(R!OnDay(today))}
    BY RowsAreFinite, LesserOfTwo, ReportsCount DEF R!recent_sightings, PageInv
  <2>3. CASE Cardinality(s) = RecentLimit
    BY <1>0, <1>4, <2>1, <2>3 DEF PageInv, PageTypeOK, ReadsAgree
  <2>4. CASE Cardinality(s) = Cardinality(R!OnDay(today))
    <3>1. s = R!OnDay(today)
      BY <2>2, <2>4, RowsAreFinite, FS_Subset DEF PageInv
    <3>2. QED  BY <1>0, <1>4, <2>1, <3>1 DEF PageInv, PageTypeOK, ReadsAgree
  <2>5. QED  BY <2>2, <2>3, <2>4
<1>5. ASSUME page.step = 4, UNCHANGED disturbed,
             page' = [page EXCEPT !.step = 5, !.late = Cardinality(R!late_today)]
      PROVE  PageInv'
  <2>1. /\ DOMAIN page' = PageFields /\ page'.step = 5 /\ page'.recent = page.recent
        /\ page'.arrived = page.arrived /\ page'.missing = page.missing
        /\ page'.late = Cardinality(R!late_today)
    BY <1>0, <1>5 DEF PageFields
  <2>2. ASSUME ~disturbed PROVE Cardinality(LateOf(page.arrived)) <= Cardinality(R!late_today)
    <3>1. LateOf(page.arrived) \in SUBSET R!late_today
      BY <1>5, <2>2 DEF PageInv, ReadsAgree, LateOf, R!late_today
    <3>2. QED  BY <3>1, RowsAreFinite, FS_Subset DEF PageInv
  <2>3. ASSUME ~disturbed PROVE Cardinality(LateOf(page.arrived)) \in Nat
                                /\ Cardinality(R!late_today) \in Nat
    <3>1. LateOf(page.arrived) \in SUBSET R!late_today
      BY <1>5, <2>3 DEF PageInv, ReadsAgree, LateOf, R!late_today
    <3>2. QED  BY <3>1, RowsAreFinite, FS_Subset, FS_CardinalityType DEF PageInv
  <2>4. QED  BY <1>0, <1>5, <2>1, <2>2, <2>3 DEF PageInv, PageTypeOK, ReadsAgree
<1>6. ASSUME page.step = 5, UNCHANGED disturbed,
             page' = [page EXCEPT !.step = 6, !.absent = Cardinality(R!not_yet_arrived)]
      PROVE  PageInv'
  <2>1. /\ DOMAIN page' = PageFields /\ page'.step = 6 /\ page'.recent = page.recent
        /\ page'.arrived = page.arrived /\ page'.missing = page.missing
        /\ page'.late = page.late /\ page'.absent = Cardinality(R!not_yet_arrived)
    BY <1>0, <1>6 DEF PageFields
  <2>2. ASSUME ~disturbed PROVE Cardinality(R!not_yet_arrived) <= Cardinality(page.missing)
    <3>1. page.missing \in SUBSET registered /\ R!not_yet_arrived \in SUBSET page.missing
      BY <1>6, <2>2 DEF PageInv, ReadsAgree
    <3>2. QED  BY <3>1, RowsAreFinite, FS_Subset DEF PageInv
  <2>3. QED  BY <1>0, <1>6, <2>1, <2>2 DEF PageInv, PageTypeOK, ReadsAgree
<1>7. QED
  BY <1>1, <1>2, <1>3, <1>4, <1>5, <1>6, ReportsCount DEF R!home, R!home_reads

LEMMA NextPageInv ==
    ASSUME IsFiniteSet(People), RecentLimit \in Nat, PageInv, [R!Next]_(R!vars) PROVE PageInv'
<1>1. CASE UNCHANGED R!vars
  BY <1>1 DEF R!vars, PageInv, PageTypeOK, ReadsAgree, R!OnDay, R!not_yet_arrived
<1>2. CASE R!Writes
  BY <1>2, MarkKeepsPage, DisturbKeepsPage DEF R!Writes
<1>3. CASE R!home
  BY <1>3, ReadKeepsPage
<1>4. QED  BY <1>1, <1>2, <1>3 DEF R!Next

\* The reads that make up the dashboard agree with each other, whatever arrivals
\* come between them (app.home).
THEOREM PageAgrees == MCSpec => []PageMovesForward
<1>1. MCInit => PageInv
  BY InitPageInv, PageAssumption DEF MCInit
<1>2. PageInv /\ [MCNext]_<<part, vars, reports, memo, deliveries, backup>> => PageInv'
  <2>1. [MCNext]_<<part, vars, reports, memo, deliveries, backup>> => [R!Next]_(R!vars)
    BY DEF MCNext, reports, memo, deliveries, backup, vars, R!vars, R!Next
  <2>2. QED  BY <2>1, NextPageInv, PageAssumption
<1>3. PageInv => PageMovesForward
  BY ReportsCount DEF PageInv, PageTypeOK, ReadsAgree, PageMovesForward, R!PageMovesForward, LateOf
<1>4. QED  BY <1>1, <1>2, <1>3, PTL DEF MCSpec

-----------------------------------------------------------------------------
(* The reports over the table.  That nobody has two rows of a day, and that *)
(* no row is of a day to come (TableInv), makes the rows of a person and   *)
(* the days they came the same number; the rest are windows of days.       *)

TableInv ==
    /\ IsFiniteSet(rows) /\ rows \subseteq R!Row
    /\ \A q, r \in rows : q.person = r.person /\ q.day = r.day => q = r
    /\ \A r \in rows : r.day <= today
    /\ today \in R!Days /\ zone \in -1..1 /\ registered \subseteq People

LEMMA RowsAreDated ==
    ASSUME TableInv
    PROVE  /\ \A r \in rows : r.day \in Int /\ r.day <= today /\ r.day <= LastDay /\ r.person \in People
           /\ today \in Int /\ zone \in {-1, 0, 1} /\ LastDay \in Int
BY ReportsAssumption DEF TableInv, R!Row, R!Days

LEMMA InitTableInv == R!Init => TableInv
BY FS_EmptySet, ReportsAssumption DEF R!Init, TableInv, R!Days

LEMMA MarkKeepsTable ==
    ASSUME TableInv, NEW p \in People, NEW late \in BOOLEAN, R!mark_attendance(p, late)
    PROVE  TableInv'
<1>. DEFINE new == [person |-> p, day |-> today, late |-> late]
<1>1. /\ rows' = rows \cup {new} /\ UNCHANGED <<today, zone, registered>>
      /\ \A r \in rows : r.day = today => r.person # p
  BY DEF R!mark_attendance, R!OnDay
<1>2. new \in R!Row /\ new.person = p /\ new.day = today /\ today <= today
  BY DEF TableInv, R!Row, R!Days
<1>. HIDE DEF new
<1>3. IsFiniteSet(rows') /\ rows' \subseteq R!Row
  BY <1>1, <1>2, FS_AddElement DEF TableInv
<1>4. QED  BY <1>1, <1>2, <1>3 DEF TableInv, R!Days

LEMMA NextTableInv == TableInv /\ [R!Next]_(R!vars) => TableInv'
<1>. SUFFICES ASSUME TableInv, [R!Next]_(R!vars) PROVE TableInv'
  OBVIOUS
<1>1. CASE R!home \/ UNCHANGED R!vars
  BY <1>1 DEF R!home, R!vars, TableInv, R!Row, R!Days
<1>2. ASSUME NEW p \in People, R!delete_person(p) \/ R!fulfil_erasure(p) \/ R!upsert_person(p)
      PROVE  TableInv'
  <2>1. rows' \in SUBSET rows /\ UNCHANGED <<today, zone>> /\ registered' \subseteq People
    BY <1>2 DEF TableInv, R!delete_person, R!fulfil_erasure, R!upsert_person
  <2>2. IsFiniteSet(rows')
    BY <2>1, FS_Subset DEF TableInv
  <2>3. QED  BY <2>1, <2>2 DEF TableInv, R!Days
<1>3. CASE R!Midnight
  <2>1. /\ UNCHANGED <<zone, registered, rows>> /\ today' = today + 1 /\ today' \in R!Days
        /\ today \in Int /\ \A r \in rows : r.day \in Int
    BY <1>3, ReportsAssumption, RowsAreDated DEF R!Midnight, TableInv, R!Days
  <2>2. \A r \in rows : r.day <= today'
    BY <2>1 DEF TableInv
  <2>3. QED  BY <2>1, <2>2 DEF TableInv
<1>4. QED
  BY <1>1, <1>2, <1>3, MarkKeepsTable DEF R!Next, R!Writes

\* Counting a set class by class.
LEMMA SumOfClasses ==
    ASSUME NEW S, IsFiniteSet(S), NEW I, NEW g \in [S -> I], NEW f,
           f = [d \in I |-> Cardinality({x \in S : g[x] = d})]
    PROVE  R!SumOf(f) = Cardinality(S)
<1>. DEFINE Class(d) == {x \in S : g[x] = d}
            Pairs == UNION {{d} \X (1..f[d]) : d \in I}
            b == [d \in I |-> CHOOSE h : h \in Bijection(Class(d), 1..f[d])]
            m == [x \in S |-> <<g[x], b[g[x]][x]>>]
<1>1. ASSUME NEW d \in I PROVE b[d] \in Bijection(Class(d), 1..f[d])
  <2>1. IsFiniteSet(Class(d))
    BY FS_Subset
  <2>2. ExistsBijection(1..f[d], Class(d))
    BY <2>1, FS_CardinalityType
  <2>3. \E h : h \in Bijection(Class(d), 1..f[d])
    BY <2>2, Fun_ExistsBijSymmetric DEF ExistsBijection
  <2>4. QED  BY <2>3
<1>. HIDE DEF b
<1>2. ASSUME NEW d \in I
      PROVE  /\ \A x \in Class(d) : b[d][x] \in 1..f[d]
             /\ \A x, y \in Class(d) : b[d][x] = b[d][y] => x = y
  <2>1. b[d] \in Bijection(Class(d), 1..f[d])
    BY <1>1
  <2>. HIDE DEF Class
  <2>2. b[d] \in [Class(d) -> 1..f[d]] /\ IsInjective(b[d])
    BY <2>1 DEF Bijection, Injection
  <2>3. QED  BY <2>2 DEF IsInjective
<1>3. ASSUME NEW d \in I, NEW k \in 1..f[d] PROVE \E x \in Class(d) : b[d][x] = k
  BY <1>1, <1>3 DEF Bijection, Surjection
<1>4. m \in Bijection(S, Pairs)
  <2>0. ASSUME NEW x \in S PROVE m[x] = <<g[x], b[g[x]][x]>> /\ g[x] \in I /\ x \in Class(g[x])
    OBVIOUS
  <2>. HIDE DEF m
  <2>1. ASSUME NEW x \in S PROVE m[x] \in Pairs
    <3>1. b[g[x]][x] \in 1..f[g[x]]
      BY <1>2, <2>0
    <3>2. <<g[x], b[g[x]][x]>> \in {g[x]} \X (1..f[g[x]])
      BY <3>1
    <3>3. QED  BY <2>0, <3>2
  <2>2. ASSUME NEW x \in S, NEW y \in S, m[x] = m[y] PROVE x = y
    <3>1. g[x] = g[y] /\ b[g[x]][x] = b[g[x]][y]
      BY <2>0, <2>2
    <3>2. y \in Class(g[x])
      BY <2>0, <3>1
    <3>3. QED  BY <1>2, <2>0, <3>1, <3>2
  <2>3. ASSUME NEW q \in Pairs PROVE \E x \in S : m[x] = q
    <3>1. PICK d \in I : q \in {d} \X (1..f[d])
      BY <2>3
    <3>2. PICK k \in 1..f[d] : q = <<d, k>>
      BY <3>1
    <3>3. PICK x \in Class(d) : b[d][x] = k
      BY <1>3
    <3>4. QED  BY <2>0, <3>2, <3>3
  <2>4. m \in [S -> Pairs]
    BY <2>1 DEF m
  <2>5. QED  BY <2>2, <2>3, <2>4 DEF Bijection, Injection, IsInjective, Surjection
<1>5. Cardinality(Pairs) = Cardinality(S)
  BY <1>4, FS_Bijection DEF ExistsBijection
<1>6. R!SumOf(f) = Cardinality(Pairs)
  BY ReportsCount DEF R!SumOf
<1>7. QED  BY <1>5, <1>6

-----------------------------------------------------------------------------
(* The windows.                                                            *)

LEMMA ShownDays ==
    ASSUME TableInv, NEW days \in 1..LastDay, NEW p
    PROVE  R!Shown(p, days) =
             {r.day : r \in {x \in rows : x.person = p /\ x.day > today - days /\ x.day >= today + zone - (days - 1)}}
<1>1. ASSUME NEW d \in (today - days + 1)..today
      PROVE  R!attendance_heatmap(p, days)[d] > 0
               <=> \E r \in rows : r.person = p /\ r.day = d /\ r.day >= today + zone - (days - 1)
  <2>. DEFINE s == {x \in R!OfPerson(p) : x.day = d /\ x.day >= R!UtcAgo(days - 1)}
  <2>1. R!attendance_heatmap(p, days)[d] = IF s = {} THEN 0 ELSE IF \E x \in s : x.late THEN 2 ELSE 3
    BY DEF R!attendance_heatmap
  <2>2. s # {} <=> \E r \in rows : r.person = p /\ r.day = d /\ r.day >= today + zone - (days - 1)
    BY DEF R!OfPerson, R!UtcAgo
  <2>. HIDE DEF s
  <2>3. QED  BY <2>1, <2>2
<1>2. \A r \in rows : r.day > today - days => r.day \in (today - days + 1)..today
  BY RowsAreDated
<1>3. \A d \in (today - days + 1)..today : d > today - days
  BY RowsAreDated
<1>4. QED  BY <1>1, <1>2, <1>3 DEF R!Shown

\* A person has a row for each day.
LEMMA DaysAreRows ==
    ASSUME TableInv, NEW p, NEW S \in SUBSET {r \in rows : r.person = p}
    PROVE  /\ IsFiniteSet(S) /\ IsFiniteSet({r.day : r \in S})
           /\ Cardinality(S) = Cardinality({r.day : r \in S})
<1>. DEFINE h == [r \in S |-> r.day]
            Dates == {r.day : r \in S}
<1>1. IsFiniteSet(S)
  BY FS_Subset DEF TableInv
<1>2. h \in Bijection(S, Dates)
  BY DEF TableInv, Bijection, Injection, IsInjective, Surjection
<1>3. QED  BY <1>1, <1>2, FS_Bijection DEF ExistsBijection

LEMMA HistoriesAgree ==
    ASSUME TableInv, NEW days \in 1..LastDay, NEW p \in People
    PROVE  LET true == {r.day : r \in {x \in R!OfPerson(p) : x.day > today - days}}
               more == R!Cardinality(R!person_history(p, days)) - R!Cardinality(R!Shown(p, days))
           IN  /\ R!Shown(p, days) \subseteq true
               /\ true \ R!Shown(p, days) \subseteq IF zone = 1 THEN {today - days + 1} ELSE {}
               /\ more \in IF zone = -1 THEN {0, 1} ELSE {0}
               /\ p \in DOMAIN R!top_attenders(days) =>
                     R!top_attenders(days)[p] = R!Cardinality(R!person_history(p, days))
<1>. DEFINE true == {r.day : r \in {x \in R!OfPerson(p) : x.day > today - days}}
            history == R!person_history(p, days)
            shown == R!Shown(p, days)
            dates == {r.day : r \in history}
<1>1. shown = {r.day : r \in {x \in rows : x.person = p /\ x.day > today - days /\ x.day >= today + zone - (days - 1)}}
  BY ShownDays
<1>2. true = {r.day : r \in {x \in rows : x.person = p /\ x.day > today - days}}
  BY DEF R!OfPerson
<1>3. history = {x \in rows : x.person = p /\ x.day >= today + zone - (days - 1)}
  BY DEF R!person_history, R!OfPerson, R!UtcAgo
<1>4. shown \subseteq true
  BY <1>1, <1>2
<1>5. true \ shown \subseteq IF zone = 1 THEN {today - days + 1} ELSE {}
  BY <1>1, <1>2, RowsAreDated
<1>6. shown \subseteq dates /\ dates \ shown \subseteq IF zone = -1 THEN {today - days} ELSE {}
  BY <1>1, <1>3, RowsAreDated
<1>7. Cardinality(history) = Cardinality(dates) /\ IsFiniteSet(dates)
  <2>1. history \in SUBSET {r \in rows : r.person = p}
    BY <1>3
  <2>2. QED  BY <2>1, DaysAreRows
<1>8. p \in DOMAIN R!top_attenders(days) => R!top_attenders(days)[p] = R!Cardinality(history)
  BY DEF R!top_attenders
<1>. HIDE DEF history, dates, shown, true
<1>9. Cardinality(history) - Cardinality(shown) = Cardinality(dates \ shown)
  <2>1. dates \cap shown = shown /\ IsFiniteSet(shown)
    BY <1>6, <1>7, FS_Subset
  <2>2. Cardinality(dates \ shown) = Cardinality(dates) - Cardinality(dates \cap shown)
    BY <1>7, FS_Difference
  <2>3. QED  BY <1>7, <2>1, <2>2
<1>10. Cardinality(dates \ shown) \in IF zone = -1 THEN {0, 1} ELSE {0}
  <2>1. CASE zone = -1
    <3>1. dates \ shown = {} \/ dates \ shown = {today - days}
      BY <1>6, <2>1
    <3>2. QED  BY <2>1, <3>1, FS_EmptySet, FS_Singleton
  <2>2. CASE zone # -1
    BY <1>6, <2>2, FS_EmptySet
  <2>3. QED  BY <2>1, <2>2
<1>11. QED
  BY <1>4, <1>5, <1>8, <1>9, <1>10, ReportsCount DEF true, history, shown

LEMMA TotalsAgree ==
    ASSUME TableInv, NEW days \in 1..LastDay
    PROVE  LET totals == R!attendance_summary(days) IN
           /\ R!SumOf([d \in DOMAIN totals |-> totals[d].total])
                = R!SumOf([p \in People |-> R!Cardinality(R!person_history(p, days))])
           /\ \A d \in DOMAIN totals : R!occupancy_trend(days)[d] = totals[d].total
<1>. DEFINE H == {x \in rows : x.day >= R!UtcAgo(days - 1)}
            totals == R!attendance_summary(days)
            Dates == {r.day : r \in H}
<1>1. IsFiniteSet(H)
  BY FS_Subset DEF TableInv
<1>2. DOMAIN totals = Dates /\ \A d \in Dates : totals[d].total = R!Cardinality(R!OnDay(d))
  BY DEF R!attendance_summary
<1>3. \A d \in Dates : R!OnDay(d) = {x \in H : x.day = d}
  BY DEF R!OnDay
<1>4. \A p : R!person_history(p, days) = {x \in H : x.person = p}
  BY DEF R!person_history, R!OfPerson
<1>5. \A d \in Dates : R!occupancy_trend(days)[d] = R!Cardinality(R!OnDay(d))
  BY DEF R!occupancy_trend
<1>6. \A x \in H : x.person \in People
  BY RowsAreDated
<1>. DEFINE dated == [r \in H |-> r.day]
            owned == [r \in H |-> r.person]
<1>7. dated \in [H -> Dates] /\ owned \in [H -> People]
  BY <1>6
<1>8. \A x \in H : dated[x] = x.day /\ owned[x] = x.person
  OBVIOUS
<1>. HIDE DEF H, totals, Dates, dated, owned
<1>9. R!SumOf([d \in DOMAIN totals |-> totals[d].total]) = Cardinality(H)
  <2>1. \A d \in Dates : {x \in H : x.day = d} = {x \in H : dated[x] = d}
    BY <1>8
  <2>. DEFINE sizes == [d \in DOMAIN totals |-> totals[d].total]
  <2>2. sizes = [d \in Dates |-> Cardinality({x \in H : dated[x] = d})]
    BY <1>2, <1>3, <2>1, ReportsCount
  <2>. HIDE DEF sizes
  <2>3. R!SumOf(sizes) = Cardinality(H)
    BY <1>1, <1>7, <2>2, SumOfClasses
  <2>4. QED  BY <2>3 DEF sizes
<1>10. R!SumOf([p \in People |-> R!Cardinality(R!person_history(p, days))]) = Cardinality(H)
  <2>1. \A p \in People : {x \in H : x.person = p} = {x \in H : owned[x] = p}
    BY <1>8
  <2>. DEFINE sizes == [p \in People |-> R!Cardinality(R!person_history(p, days))]
  <2>2. sizes = [p \in People |-> Cardinality({x \in H : owned[x] = p})]
    BY <1>4, <2>1, ReportsCount
  <2>. HIDE DEF sizes
  <2>3. R!SumOf(sizes) = Cardinality(H)
    BY <1>1, <1>7, <2>2, SumOfClasses
  <2>4. QED  BY <2>3 DEF sizes
<1>11. QED  BY <1>2, <1>5, <1>9, <1>10 DEF totals

-----------------------------------------------------------------------------
(* The lists of those whose attendance falls.                              *)

LEMMA CameIsNat == ASSUME TableInv, NEW p, NEW a, NEW b
                   PROVE  R!Came(p, a, b) \in Nat
<1>1. {r \in R!OfPerson(p) : a <= r.day /\ r.day < b} \in SUBSET rows
  BY DEF R!OfPerson
<1>2. QED  BY <1>1, FS_Subset, FS_CardinalityType, ReportsCount DEF TableInv, R!Came

LEMMA DroppedCameLess ==
    ASSUME TableInv, NEW p \in R!dropped PROVE R!Recent(p) < R!Prev(p)
<1>1. R!Recent(p) \in Nat /\ R!Prev(p) \in Nat
  BY CameIsNat DEF R!Recent, R!Prev
<1>2. R!Recent(p) < R!Prev(p) - 1
  BY DEF R!dropped
<1>3. QED  BY <1>1, <1>2

LEMMA AtRiskCameLess ==
    ASSUME TableInv, NEW p \in R!at_risk_persons PROVE R!RiskRecent(p) < R!RiskPrior(p)
<1>1. R!RiskRecent(p) \in Nat /\ R!RiskPrior(p) \in Nat /\ R!RiskRows(p) \in Nat
  BY CameIsNat DEF R!RiskRecent, R!RiskPrior, R!RiskRows
<1>2. R!RiskRows(p) > 0 /\ 4 * R!RiskRecent(p) + R!RiskRows(p) <= 4 * R!RiskPrior(p)
  BY DEF R!at_risk_persons
<1>. HIDE DEF R!RiskRecent, R!RiskPrior, R!RiskRows
<1>3. QED  BY <1>1, <1>2

LEMMA WhoStoppedIsListed ==
    ASSUME TableInv, NEW p \in registered,
           NEW r \in R!OfPerson(p), R!UtcAgo(2 * RiskWindow) <= r.day, r.day < R!UtcAgo(RiskWindow),
           ~(\E q \in R!OfPerson(p) : q.day >= R!UtcAgo(RiskWindow))
    PROVE  p \in R!at_risk_persons
<1>. DEFINE from == R!UtcAgo(2 * RiskWindow)
            till == R!UtcAgo(RiskWindow)
            Theirs == {x \in R!OfPerson(p) : from <= x.day /\ x.day < R!Forever}
<1>1. \A q \in R!OfPerson(p) : q \in rows /\ q.person = p /\ q.day < till /\ q.day < R!Forever
  <2>1. from \in Int /\ till \in Int /\ R!Forever \in Int /\ R!Forever > LastDay
    BY RowsAreDated, ReportsAssumption DEF R!UtcAgo, R!Forever
  <2>2. QED  BY <2>1, RowsAreDated DEF R!OfPerson, R!Forever
<1>2. {x \in R!OfPerson(p) : from <= x.day /\ x.day < till} = Theirs
  BY <1>1
<1>3. {x \in R!OfPerson(p) : till <= x.day /\ x.day < R!Forever} = {}
  <2>1. till \in Int
    BY RowsAreDated, ReportsAssumption DEF R!UtcAgo
  <2>2. \A q \in R!OfPerson(p) : q.day \in Int
    BY RowsAreDated DEF R!OfPerson
  <2>3. QED  BY <2>1, <2>2
<1>4. r \in Theirs /\ IsFiniteSet(Theirs)
  <2>1. Theirs \in SUBSET rows
    BY DEF R!OfPerson
  <2>2. QED  BY <2>1, <1>1, FS_Subset DEF TableInv
<1>5. Cardinality(Theirs) \in Nat /\ Cardinality(Theirs) # 0
  BY <1>4, FS_CardinalityType, FS_EmptySet
<1>6. R!RiskPrior(p) = Cardinality(Theirs) /\ R!RiskRows(p) = Cardinality(Theirs) /\ R!RiskRecent(p) = 0
  BY <1>2, <1>3, FS_EmptySet, ReportsCount DEF R!RiskPrior, R!RiskRows, R!RiskRecent, R!Came
<1>7. p \in R!PersonsOf(rows)
  BY <1>1 DEF R!PersonsOf
<1>. HIDE DEF Theirs
<1>8. R!RiskRows(p) > 0 /\ 10 * R!RiskPrior(p) >= 4 * R!RiskRows(p)
      /\ 4 * R!RiskRecent(p) + R!RiskRows(p) <= 4 * R!RiskPrior(p)
  BY <1>5, <1>6
<1>9. QED  BY <1>7, <1>8 DEF R!at_risk_persons

\* The reports over the last days agree with the table and with each other, and
\* the lists of those whose attendance falls name people whose rows say so
\* (attendance_heatmap, person_history, attendance_summary, at_risk_persons,
\* smart_insights).
THEOREM ReportsAgree == MCSpec => []ReportsMatchTheTable
<1>1. MCInit => TableInv
  BY InitTableInv DEF MCInit
<1>2. TableInv /\ [MCNext]_<<part, vars, reports, memo, deliveries, backup>> => TableInv'
  <2>1. [MCNext]_<<part, vars, reports, memo, deliveries, backup>> => [R!Next]_(R!vars)
    BY DEF MCNext, reports, memo, deliveries, backup, vars, R!vars, R!Next
  <2>2. QED  BY <2>1, NextTableInv
<1>3. TableInv => ReportsMatchTheTable
  <2>. SUFFICES ASSUME TableInv PROVE R!WindowsAgree /\ R!AlertsAreEarned
    BY DEF ReportsMatchTheTable, R!ReportsMatchTheTable
  <2>1. R!WindowsAgree
    BY HistoriesAgree, TotalsAgree DEF R!WindowsAgree
  <2>2. R!AlertsAreEarned
    BY DroppedCameLess, AtRiskCameLess, WhoStoppedIsListed DEF R!AlertsAreEarned, R!RiskPrior
  <2>3. QED  BY <2>1, <2>2
<1>4. QED  BY <1>1, <1>2, <1>3, PTL DEF MCSpec
=============================================================================
