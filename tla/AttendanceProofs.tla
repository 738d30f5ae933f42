-------------------------- MODULE AttendanceProofs --------------------------
(***************************************************************************)
(* Theorems about Attendance, for any sets of persons and threads, any     *)
(* settings and any length of the day.  The invariant that carries them is *)
(* IInv: besides the types it says what a thread that is about to UPDATE   *)
(* saw, because "check_out" is answered without looking at the row again.  *)
(***************************************************************************)
EXTENDS Attendance, TLAPS

USE DEF Days, Times, Null

\* The gap subtracted from a clock reading is never negative.
LEMMA GapNat == \A op \in Ops : Gap(op) \in Nat
  BY SettingsAssumption DEF Gap

LEMMA NoRowType == NoRow \in Row /\ \A n \in Times, b \in BOOLEAN :
    /\ [check_in |-> n, check_out |-> Null, is_late |-> b] \in Row
    /\ [check_in |-> n, check_out |-> n, is_late |-> b] \in Row
  BY DEF NoRow, Row

LEMMA IsLateType == \A n \in Times : IsLate(n) \in BOOLEAN
  BY DEF IsLate

\* Recording an answer, or moving to the next step, keeps the type of a call.
LEMMA ReturnType ==
  ASSUME NEW t \in Threads, NEW event \in Events, NEW at \in Times \cup {Null},
         call \in [Threads -> Call], Return(t, event, at)
  PROVE  call' \in [Threads -> Call]
<1>1. call[t] \in Call
  OBVIOUS
<1>2. [call[t] EXCEPT !.step = "done", !.event = event, !.time = at] \in Call
  BY <1>1 DEF Call, Steps
<1>3. QED BY <1>2 DEF Return

\* What Return leaves in the call, and that it leaves the other calls alone.
LEMMA ReturnEffect ==
  ASSUME NEW t \in Threads, NEW event, NEW at,
         call \in [Threads -> Call], Return(t, event, at)
  PROVE  /\ call'[t].step = "done" /\ call'[t].event = event /\ call'[t].time = at
         /\ call'[t].person = call[t].person /\ call'[t].day = call[t].day
         /\ \A u \in Threads \ {t} : call'[u] = call[u]
<1>1. call[t] \in Call
  OBVIOUS
<1>2. call'[t] = [call[t] EXCEPT !.step = "done", !.event = event, !.time = at]
  BY DEF Return
<1>3. \A u \in Threads \ {t} : call'[u] = call[u]
  BY DEF Return
<1>4. QED BY <1>1, <1>2, <1>3 DEF Call

(***************************************************************************)
(* Types.                                                                  *)
(***************************************************************************)
LEMMA InitType == Init => TypeOK
<1> SUFFICES ASSUME Init PROVE TypeOK
  OBVIOUS
<1>1. day \in Days /\ time \in Times
  BY BoundsAssumption DEF Init
<1>2. attendance \in [Persons -> [Days -> Row]]
  BY NoRowType DEF Init
<1>3. call \in [Threads -> Call]
  <2>1. PICK p \in Persons : call = [t \in Threads |-> IdleCall(p)]
    BY DEF Init
  <2>2. IdleCall(p) \in Call
    BY BoundsAssumption DEF IdleCall, Call, Ops, Steps, Events
  <2>3. QED BY <2>1, <2>2
<1>4. QED BY <1>1, <1>2, <1>3 DEF Init, TypeOK

LEMMA NextType == TypeOK /\ [Next]_vars => TypeOK'
<1> SUFFICES ASSUME TypeOK, [Next]_vars PROVE TypeOK'
  OBVIOUS
<1>1. ASSUME Tick PROVE TypeOK'
  BY <1>1, BoundsAssumption DEF Tick, TypeOK
<1>2. ASSUME NEW p \in Persons, Erase(p) PROVE TypeOK'
  BY <1>2, NoRowType DEF Erase, TypeOK
<1>3. ASSUME NEW t \in Threads, NEW op \in Ops, NEW p \in Persons, Begin(t, op, p)
      PROVE TypeOK'
  <2>1. [op |-> op, step |-> IF op = "manual_check_out" THEN "upsert" ELSE "select",
         person |-> p, day |-> day, now |-> time, event |-> "none", time |-> Null] \in Call
    BY DEF Call, Steps, Events, TypeOK
  <2>2. QED BY <1>3, <2>1 DEF Begin, TypeOK
<1>4. ASSUME NEW t \in Threads, Select(t) PROVE TypeOK'
  <2>1. call[t] \in Call /\ RowOf(t) \in Row
    BY DEF TypeOK, RowOf, Call
  <2>2. call' \in [Threads -> Call]
    <3>1. CASE Return(t, "already_in", RowOf(t).check_in)
      <4>1. RowOf(t).check_in \in Times \cup {Null}
        BY <2>1 DEF Row
      <4>2. "already_in" \in Events /\ call \in [Threads -> Call]
        BY DEF Events, TypeOK
      <4>3. QED BY <3>1, <4>1, <4>2, ReturnType
    <3>2. CASE \E step \in {"insert", "update"} : call' = [call EXCEPT ![t].step = step]
      <4>1. PICK step \in {"insert", "update"} : call' = [call EXCEPT ![t].step = step]
        BY <3>2
      <4>2. [call[t] EXCEPT !.step = step] \in Call
        BY <2>1 DEF Call, Steps
      <4>3. QED BY <4>1, <4>2 DEF TypeOK
    <3>3. QED BY <1>4, <3>1, <3>2 DEF Select
  <2>3. QED BY <1>4, <2>2 DEF Select, TypeOK
<1>5. ASSUME NEW t \in Threads, Insert(t) PROVE TypeOK'
  <2>1. call[t] \in Call
    BY DEF TypeOK
  <2>2. call' \in [Threads -> Call]
    BY <1>5, <2>1, ReturnType DEF Insert, TypeOK, Call, Events
  <2>3. attendance' \in [Persons -> [Days -> Row]]
    <3> DEFINE row == [check_in |-> call[t].now, check_out |-> Null,
                       is_late |-> IsLate(call[t].now)]
    <3>1. row \in Row
      BY <2>1, NoRowType, IsLateType DEF Call
    <3>2. \/ attendance' = attendance
          \/ attendance' = [attendance EXCEPT ![call[t].person][call[t].day] = row]
      BY <1>5 DEF Insert
    <3>3. call[t].person \in Persons /\ call[t].day \in Days
      BY <2>1 DEF Call
    <3> HIDE DEF row
    <3>4. [attendance EXCEPT ![call[t].person][call[t].day] = row]
             \in [Persons -> [Days -> Row]]
      BY <3>1, <3>3 DEF TypeOK
    <3>5. QED BY <3>2, <3>4 DEF TypeOK
  <2>4. QED BY <1>5, <2>2, <2>3 DEF Insert, TypeOK
<1>6. ASSUME NEW t \in Threads, Update(t) PROVE TypeOK'
  <2>1. call[t] \in Call
    BY DEF TypeOK
  <2>2. call' \in [Threads -> Call]
    BY <1>6, <2>1, ReturnType DEF Update, TypeOK, Call, Events
  <2>3. attendance' \in [Persons -> [Days -> Row]]
    <3>1. \A r \in Row : [r EXCEPT !.check_out = call[t].now] \in Row
      BY <2>1 DEF Row, Call
    <3>2. QED BY <1>6, <2>1, <3>1 DEF Update, TypeOK, Call
  <2>4. QED BY <1>6, <2>2, <2>3 DEF Update, TypeOK
<1>7. ASSUME NEW t \in Threads, Upsert(t) PROVE TypeOK'
  <2>1. call[t] \in Call
    BY DEF TypeOK
  <2>2. call' \in [Threads -> Call]
    BY <1>7, <2>1, ReturnType DEF Upsert, TypeOK, Call, Events
  <2>3. attendance' \in [Persons -> [Days -> Row]]
    <3>1. \A r \in Row : [r EXCEPT !.check_out = call[t].now] \in Row
      BY <2>1 DEF Row, Call
    <3>2. [check_in |-> call[t].now, check_out |-> call[t].now, is_late |-> FALSE] \in Row
      BY <2>1, NoRowType DEF Call
    <3>3. QED BY <1>7, <2>1, <3>1, <3>2 DEF Upsert, TypeOK, Call
  <2>4. QED BY <1>7, <2>2, <2>3 DEF Upsert, TypeOK
<1>8. ASSUME NEW t \in Threads, Crash(t) PROVE TypeOK'
  <2>1. IdleCall(call[t].person) \in Call
    BY BoundsAssumption DEF IdleCall, Call, Ops, Steps, Events, TypeOK
  <2>2. QED BY <1>8, <2>1 DEF Crash, TypeOK
<1>9. CASE UNCHANGED vars
  BY <1>9 DEF vars, TypeOK
<1>10. QED
  BY <1>1, <1>2, <1>3, <1>4, <1>5, <1>6, <1>7, <1>8, <1>9 DEF Next

\* The variables keep their types: in particular a call's answer is one of the
\* five events mark_attendance and manual_check_out can return or raise.
THEOREM TypeCorrect == Spec => []TypeOK
<1>1. QED BY InitType, NextType, PTL DEF Spec

(***************************************************************************)
(* What one step may do to a row that is there.                            *)
(***************************************************************************)
Settled(p, d) ==
    HasRow(p, d) =>
        /\ attendance'[p][d].check_in = attendance[p][d].check_in
        /\ attendance'[p][d].is_late = attendance[p][d].is_late
        /\ attendance[p][d].check_out # Null => attendance'[p][d].check_out # Null

\* A writing step changes the row of its own person and day, and no other.
LEMMA WritesOwnRow ==
  ASSUME TypeOK, NEW t \in Threads, Insert(t) \/ Update(t) \/ Upsert(t),
         NEW p \in Persons, NEW d \in Days,
         ~(call[t].person = p /\ call[t].day = d)
  PROVE  attendance'[p][d] = attendance[p][d]
<1> DEFINE q == call[t].person
           e == call[t].day
<1>1. q \in Persons /\ e \in Days
  BY DEF TypeOK, Call
<1>2. \/ attendance' = attendance
      \/ \E r : attendance' = [attendance EXCEPT ![q][e] = r]
  <2>1. CASE Insert(t)
    BY <2>1 DEF Insert
  <2>2. CASE Update(t)
    <3>1. [attendance EXCEPT ![q][e].check_out = call[t].now]
           = [attendance EXCEPT ![q][e] = [attendance[q][e] EXCEPT !.check_out = call[t].now]]
      OBVIOUS
    <3>2. QED BY <2>2, <3>1 DEF Update
  <2>3. CASE Upsert(t)
    BY <2>3 DEF Upsert
  <2>4. QED BY <2>1, <2>2, <2>3
<1>3. CASE attendance' = attendance
  BY <1>3
<1>4. CASE \E r : attendance' = [attendance EXCEPT ![q][e] = r]
  <2>1. PICK r : attendance' = [attendance EXCEPT ![q][e] = r]
    BY <1>4
  <2>2. ~(q = p /\ e = d)
    OBVIOUS
  <2> HIDE DEF q, e
  <2>3. CASE q # p
    BY <2>1, <2>3, <1>1 DEF TypeOK
  <2>4. CASE q = p /\ e # d
    BY <2>1, <2>4, <1>1 DEF TypeOK
  <2>5. QED BY <2>2, <2>3, <2>4
<1>5. QED BY <1>2, <1>3, <1>4

\* Every step but an erasure of p leaves p's rows settled.
LEMMA RowsSettle ==
  ASSUME TypeOK, [Next]_vars, NEW p \in Persons, NEW d \in Days, ~Erase(p)
  PROVE  Settled(p, d)
<1> USE DEF Settled, HasRow
<1>1. CASE UNCHANGED attendance
  BY <1>1
<1>2. ASSUME NEW q \in Persons, Erase(q) PROVE Settled(p, d)
  <2>1. p # q
    BY <1>2
  <2>2. attendance'[p] = attendance[p]
    BY <1>2, <2>1 DEF Erase, TypeOK
  <2>3. QED BY <2>2
<1>3. ASSUME NEW t \in Threads, Insert(t) PROVE Settled(p, d)
  <2>1. call[t].person \in Persons /\ call[t].day \in Days
    BY DEF TypeOK, Call
  <2>2. CASE call[t].person = p /\ call[t].day = d
    BY <1>3, <2>2 DEF Insert
  <2>3. CASE ~(call[t].person = p /\ call[t].day = d)
    <3>1. QED BY <1>3, <2>3, WritesOwnRow
  <2>4. QED BY <2>2, <2>3
<1>4. ASSUME NEW t \in Threads, Update(t) \/ Upsert(t) PROVE Settled(p, d)
  <2>1. call[t] \in Call /\ call[t].person \in Persons /\ call[t].day \in Days
        /\ call[t].now \in Times
    BY DEF TypeOK, Call
  <2>2. CASE call[t].person = p /\ call[t].day = d
    <3>1. SUFFICES ASSUME HasRow(p, d) PROVE Settled(p, d)
      OBVIOUS
    <3>2. attendance'[p][d] = [attendance[p][d] EXCEPT !.check_out = call[t].now]
      <4>1. CASE Update(t)
        <5>1. attendance' = [attendance EXCEPT ![p][d].check_out = call[t].now]
          BY <4>1, <2>2, <3>1 DEF Update
        <5>2. QED BY <5>1 DEF TypeOK
      <4>2. CASE Upsert(t)
        <5>1. attendance' = [attendance EXCEPT ![p][d] =
                               [attendance[p][d] EXCEPT !.check_out = call[t].now]]
          BY <4>2, <2>2, <3>1 DEF Upsert
        <5>2. QED BY <5>1 DEF TypeOK
      <4>3. QED BY <1>4, <4>1, <4>2
    <3>3. attendance[p][d] \in Row
      BY DEF TypeOK
    <3>4. QED BY <2>1, <3>2, <3>3, BoundsAssumption DEF Row
  <2>3. CASE ~(call[t].person = p /\ call[t].day = d)
    <3>1. QED BY <1>4, <2>3, WritesOwnRow
  <2>4. QED BY <2>2, <2>3
<1>5. QED
  BY <1>1, <1>2, <1>3, <1>4 DEF Next, vars, Tick, Begin, Select, Crash

\* A row, while it exists, keeps its check-in and late flag, and a check-out
\* is never taken back.
THEOREM CheckInSettles == Spec => CheckInIsSettled
<1>1. TypeOK /\ [Next]_vars => [SettledStep]_attendance
  <2> SUFFICES ASSUME TypeOK, [Next]_vars
               PROVE  SettledStep
    OBVIOUS
  <2>1. ASSUME NEW p \in Persons, NEW d \in Days, HasRow(p, d), HasRow(p, d)'
        PROVE  Settled(p, d)
    <3>1. ASSUME Erase(p) PROVE FALSE
      <4>1. attendance'[p][d] = NoRow
        BY <3>1 DEF Erase, TypeOK
      <4>2. attendance'[p][d].check_in # Null
        BY <2>1 DEF HasRow
      <4>3. QED BY <4>1, <4>2 DEF NoRow
    <3>2. QED BY <3>1, RowsSettle
  <2>2. QED BY <2>1 DEF SettledStep, Settled
<1>2. QED BY <1>1, TypeCorrect, PTL DEF Spec, CheckInIsSettled

(***************************************************************************)
(* The inductive invariant.  Thread by thread: what a thread saw or was    *)
(* told stays true of its row under the steps of every other thread,       *)
(* because rows are settled.                                               *)
(***************************************************************************)
ThreadOK(t) ==
    /\ t \notin overtaken =>
          /\ call[t].step = "update" =>
                /\ RowOf(t).check_in # Null
                /\ RowOf(t).check_in + Gap(call[t].op) <= call[t].now
          /\ Answered(t) =>
                /\ RowOf(t).check_in # Null
                /\ call[t].event = "check_in" => /\ RowOf(t).check_in = call[t].time
                                                 /\ RowOf(t).is_late = IsLate(call[t].time)
                /\ call[t].event = "already_in" => RowOf(t).check_in = call[t].time
                /\ call[t].event = "check_out" =>
                      /\ RowOf(t).check_out # Null
                      /\ RowOf(t).check_in + Gap(call[t].op) <= call[t].time
                /\ call[t].event = "manual_check_out" => RowOf(t).check_out # Null
    /\ t \in overtaken => call[t].person \in everErased

LEMMA ThreadByThread ==
  ASSUME TypeOK
  PROVE  (\A t \in Threads : ThreadOK(t)) <=>
            (AnswerMatchesRow /\ UpdateSawRow /\ OvertakenWereErased)
  BY DEF ThreadOK, AnswerMatchesRow, UpdateSawRow, OvertakenWereErased, TypeOK

\* A thread whose call a step leaves alone keeps its part of the invariant.
LEMMA OthersKeep ==
  ASSUME TypeOK, [Next]_vars, NEW t \in Threads, ThreadOK(t),
         call'[t] = call[t], everErased \subseteq everErased',
         t \in overtaken => t \in overtaken',
         t \in overtaken' => t \in overtaken \/ call[t].person \in everErased',
         t \notin overtaken' => ~Erase(call[t].person)
  PROVE  ThreadOK(t)'
<1>1. call[t].person \in Persons /\ call[t].day \in Days
  BY DEF TypeOK, Call
<1>2. CASE t \in overtaken'
  BY <1>2 DEF ThreadOK
<1>3. CASE t \notin overtaken'
  <2>1. Settled(call[t].person, call[t].day)
    BY <1>1, <1>3, RowsSettle
  <2>2. t \notin overtaken
    BY <1>3
  <2>3. RowOf(t)' = attendance'[call[t].person][call[t].day]
    BY DEF RowOf
  <2>4. QED BY <1>3, <2>1, <2>2, <2>3 DEF ThreadOK, Settled, HasRow, RowOf, Answered
<1>4. QED BY <1>2, <1>3

\* A thread's own step establishes its part of the invariant.
LEMMA OwnStep ==
  ASSUME TypeOK, NEW t \in Threads, ThreadOK(t),
         \/ \E op \in Ops, p \in Persons : Begin(t, op, p)
         \/ Select(t) \/ Insert(t) \/ Update(t) \/ Upsert(t) \/ Crash(t)
  PROVE  ThreadOK(t)'
<1> DEFINE c == call[t]
<1>1. c \in Call /\ c.person \in Persons /\ c.day \in Days /\ RowOf(t) \in Row
  BY DEF TypeOK, Call, RowOf
<1>2. ASSUME NEW op \in Ops, NEW p \in Persons, Begin(t, op, p) PROVE ThreadOK(t)'
  <2>1. call'[t].step \in {"select", "upsert"} /\ t \notin overtaken'
    BY <1>2 DEF Begin, TypeOK
  <2>2. QED BY <2>1 DEF ThreadOK, Answered
<1>3. CASE Crash(t)
  <2>1. call'[t] = IdleCall(c.person) /\ overtaken' = overtaken /\ everErased' = everErased
    BY <1>3 DEF Crash, TypeOK
  <2>2. call'[t].step = "idle" /\ call'[t].person = c.person
    BY <2>1 DEF IdleCall
  <2>3. QED BY <2>1, <2>2 DEF ThreadOK, Answered
<1>4. CASE Select(t)
  <2> USE <1>4
  <2>1. overtaken' = overtaken /\ everErased' = everErased /\ attendance' = attendance
    BY DEF Select
  <2>2. CASE c.step = "select" /\ call' = [call EXCEPT ![t].step = "insert"]
    <3>1. call'[t] = [c EXCEPT !.step = "insert"]
      BY <2>2 DEF TypeOK
    <3>2. QED BY <1>1, <2>1, <3>1 DEF ThreadOK, Answered, Call
  <2>3. CASE /\ RowOf(t).check_in # Null
             /\ Return(t, "already_in", RowOf(t).check_in)
    <3>1. call'[t] = [c EXCEPT !.step = "done", !.event = "already_in",
                               !.time = RowOf(t).check_in]
      BY <2>3 DEF Return, TypeOK
    <3>2. RowOf(t)' = RowOf(t)
      BY <1>1, <2>1, <3>1 DEF RowOf, Call
    <3>3. QED BY <1>1, <2>1, <2>3, <3>1, <3>2 DEF ThreadOK, Answered, Call
  <2>4. CASE /\ RowOf(t).check_in # Null
             /\ c.now - RowOf(t).check_in >= Gap(c.op)
             /\ call' = [call EXCEPT ![t].step = "update"]
    <3>1. call'[t] = [c EXCEPT !.step = "update"]
      BY <2>4 DEF TypeOK
    <3>2. RowOf(t)' = RowOf(t)
      BY <1>1, <2>1, <3>1 DEF RowOf, Call
    <3>3. Gap(c.op) \in Nat
      BY <1>1, GapNat DEF Call
    <3>4. RowOf(t).check_in + Gap(c.op) <= c.now
      BY <1>1, <2>4, <3>3, BoundsAssumption DEF Row, Call
    <3>5. QED BY <1>1, <2>1, <2>4, <3>1, <3>2, <3>4 DEF ThreadOK, Answered, Call
  <2>5. QED BY <2>2, <2>3, <2>4 DEF Select
<1>5. CASE Insert(t)
  <2>1. overtaken' = overtaken /\ everErased' = everErased
    BY <1>5 DEF Insert
  <2>2. CASE ~HasRow(c.person, c.day)
    <3> DEFINE row == [check_in |-> c.now, check_out |-> Null, is_late |-> IsLate(c.now)]
    <3>1. attendance' = [attendance EXCEPT ![c.person][c.day] = row]
      BY <1>5, <2>2 DEF Insert
    <3>2. attendance'[c.person][c.day] = row
      BY <1>1, <3>1 DEF TypeOK
    <3>3. call'[t] = [c EXCEPT !.step = "done", !.event = "check_in", !.time = c.now]
      BY <1>5, <2>2 DEF Insert, Return, TypeOK
    <3>4. RowOf(t)' = row
      BY <1>1, <3>2, <3>3 DEF RowOf, Call
    <3>5. row.check_in = c.now /\ row.is_late = IsLate(c.now) /\ c.now # Null
      BY <1>1, BoundsAssumption DEF Call
    <3>6. call'[t].event = "check_in" /\ call'[t].time = c.now /\ call'[t].step = "done"
          /\ call'[t].person = c.person
      BY <1>1, <3>3 DEF Call
    <3> HIDE DEF row
    <3>7. QED BY <2>1, <3>4, <3>5, <3>6 DEF ThreadOK, Answered
  <2>3. CASE HasRow(c.person, c.day)
    <3>1. call'[t] = [c EXCEPT !.step = "done", !.event = "IntegrityError", !.time = Null]
          /\ attendance' = attendance
      BY <1>5, <2>3 DEF Insert, Return, TypeOK
    <3>2. RowOf(t)' = RowOf(t)
      BY <1>1, <3>1 DEF RowOf, Call
    <3>3. QED BY <1>1, <2>1, <2>3, <3>1, <3>2 DEF ThreadOK, Answered, HasRow, RowOf, Call
  <2>4. QED BY <2>2, <2>3
<1>6. CASE Update(t)
  <2>1. overtaken' = overtaken /\ everErased' = everErased /\ c.step = "update"
    BY <1>6 DEF Update
  <2>2. call'[t] = [c EXCEPT !.step = "done", !.event = "check_out", !.time = c.now]
    BY <1>6 DEF Update, Return, TypeOK
  <2>3. call'[t].event = "check_out" /\ call'[t].time = c.now /\ call'[t].step = "done"
        /\ call'[t].person = c.person /\ call'[t].day = c.day /\ call'[t].op = c.op
    BY <1>1, <2>2 DEF Call
  <2>4. CASE t \in overtaken
    BY <2>1, <2>3, <2>4 DEF ThreadOK
  <2>5. CASE t \notin overtaken
    <3>1. RowOf(t).check_in # Null /\ RowOf(t).check_in + Gap(c.op) <= c.now
      BY <2>1, <2>5 DEF ThreadOK
    <3>2. attendance' = [attendance EXCEPT ![c.person][c.day].check_out = c.now]
      BY <1>6, <3>1 DEF Update, HasRow, RowOf
    <3>3. attendance'[c.person][c.day] = [attendance[c.person][c.day] EXCEPT !.check_out = c.now]
      BY <1>1, <3>2 DEF TypeOK
    <3>4. RowOf(t)' = [RowOf(t) EXCEPT !.check_out = c.now]
      BY <2>3, <3>3 DEF RowOf
    <3>5. RowOf(t)'.check_out = c.now /\ RowOf(t)'.check_in = RowOf(t).check_in /\ c.now # Null
      BY <1>1, <3>4, BoundsAssumption DEF Row, Call
    <3>6. QED BY <2>1, <2>3, <2>5, <3>1, <3>5 DEF ThreadOK, Answered
  <2>6. QED BY <2>4, <2>5
<1>7. CASE Upsert(t)
  <2>1. overtaken' = overtaken /\ everErased' = everErased
    BY <1>7 DEF Upsert
  <2>2. call'[t] = [c EXCEPT !.step = "done", !.event = "manual_check_out", !.time = c.now]
    BY <1>7 DEF Upsert, Return, TypeOK
  <2>3. call'[t].event = "manual_check_out" /\ call'[t].step = "done"
        /\ call'[t].person = c.person /\ call'[t].day = c.day
    BY <1>1, <2>2 DEF Call
  <2>4. RowOf(t)' = attendance'[c.person][c.day]
    BY <2>3 DEF RowOf
  <2>5. attendance'[c.person][c.day] =
          IF HasRow(c.person, c.day)
          THEN [attendance[c.person][c.day] EXCEPT !.check_out = c.now]
          ELSE [check_in |-> c.now, check_out |-> c.now, is_late |-> FALSE]
    BY <1>1, <1>7 DEF Upsert, TypeOK
  <2>6. RowOf(t)'.check_in # Null /\ RowOf(t)'.check_out # Null
    BY <1>1, <2>4, <2>5, BoundsAssumption DEF HasRow, RowOf, Row, Call
  <2>7. QED BY <2>1, <2>3, <2>6 DEF ThreadOK, Answered
<1>8. QED BY <1>2, <1>3, <1>4, <1>5, <1>6, <1>7

\* Every step keeps every thread's part of the invariant.
LEMMA NextThreads ==
  ASSUME TypeOK, [Next]_vars, \A t \in Threads : ThreadOK(t)
  PROVE  \A t \in Threads : ThreadOK(t)'
<1> SUFFICES ASSUME NEW t \in Threads PROVE ThreadOK(t)'
  OBVIOUS
<1>1. CASE Tick \/ UNCHANGED vars
  <2>1. /\ call' = call /\ overtaken' = overtaken /\ everErased' = everErased
        /\ attendance' = attendance
    BY <1>1 DEF Tick, vars
  <2>2. RowOf(t)' = RowOf(t)
    BY <2>1 DEF RowOf
  <2>3. QED BY <2>1, <2>2 DEF ThreadOK, Answered
<1>2. ASSUME NEW p \in Persons, Erase(p) PROVE ThreadOK(t)'
  <2>1. CASE call[t].person = p
    <3>1. t \in overtaken' /\ p \in everErased' /\ call' = call
      BY <1>2, <2>1 DEF Erase
    <3>2. QED BY <2>1, <3>1 DEF ThreadOK
  <2>2. CASE call[t].person # p
    <3>1. call' = call /\ everErased \subseteq everErased'
      BY <1>2 DEF Erase
    <3>2. t \in overtaken <=> t \in overtaken'
      BY <1>2, <2>2 DEF Erase
    <3>3. attendance'[call[t].person] = attendance[call[t].person]
      BY <1>2, <2>2 DEF Erase, TypeOK, Call
    <3>4. RowOf(t)' = RowOf(t)
      BY <3>1, <3>3 DEF RowOf
    <3>5. QED BY <3>1, <3>2, <3>4 DEF ThreadOK, Answered
  <2>3. QED BY <2>1, <2>2
<1>3. ASSUME NEW u \in Threads,
             \/ \E op \in Ops, p \in Persons : Begin(u, op, p)
             \/ Select(u) \/ Insert(u) \/ Update(u) \/ Upsert(u) \/ Crash(u)
      PROVE  ThreadOK(t)'
  <2>1. CASE u = t
    BY <1>3, <2>1, OwnStep
  <2>2. CASE u # t
    <3>1. call'[t] = call[t]
      BY <1>3, <2>2 DEF Begin, Select, Insert, Update, Upsert, Crash, Return, TypeOK
    <3>2. everErased' = everErased /\ (t \in overtaken <=> t \in overtaken')
      BY <1>3, <2>2 DEF Begin, Select, Insert, Update, Upsert, Crash
    <3>3. CASE t \in overtaken
      BY <3>1, <3>2, <3>3 DEF ThreadOK
    <3>4. CASE t \notin overtaken
      <4>1. call[t].person \in Persons /\ call[t].day \in Days
        BY DEF TypeOK, Call
      <4>2. CASE Erase(call[t].person)
        <5>1. t \in overtaken'
          BY <4>2 DEF Erase
        <5>2. QED BY <3>2, <3>4, <5>1
      <4>3. CASE ~Erase(call[t].person)
        BY <3>1, <3>2, <4>3, OthersKeep
      <4>4. QED BY <4>2, <4>3
    <3>5. QED BY <3>3, <3>4
  <2>3. QED BY <2>1, <2>2
<1>4. QED BY <1>1, <1>2, <1>3 DEF Next

\* Nobody else is told "check_in" while a row stands: the second INSERT fails.
LEMMA NextOneCheckIn ==
  ASSUME TypeOK, [Next]_vars, \A t \in Threads : ThreadOK(t), AtMostOneCheckIn
  PROVE  AtMostOneCheckIn'
<1> DEFINE In(t) == t \notin overtaken /\ Answered(t) /\ call[t].event = "check_in"
<1>1. ASSUME NEW t \in Threads, In(t)'
      PROVE  \/ In(t) /\ call'[t] = call[t]
             \/ /\ Insert(t) /\ ~HasRow(call[t].person, call[t].day)
                /\ call'[t].person = call[t].person /\ call'[t].day = call[t].day
                /\ \A u \in Threads \ {t} : call'[u] = call[u]
  <2>1. CASE Tick \/ UNCHANGED vars \/ \E p \in Persons : Erase(p)
    BY <1>1, <2>1 DEF Tick, vars, Erase, Answered
  <2>2. ASSUME NEW u \in Threads, \E op \in Ops, p \in Persons : Begin(u, op, p)
        PROVE  In(t) /\ call'[t] = call[t]
    <3>1. CASE u = t
      BY <1>1, <2>2, <3>1 DEF Begin, Answered, TypeOK
    <3>2. CASE u # t
      BY <1>1, <2>2, <3>2 DEF Begin, Answered, TypeOK
    <3>3. QED BY <3>1, <3>2
  <2>3. ASSUME NEW u \in Threads, Select(u) \/ Update(u) \/ Upsert(u) \/ Crash(u)
        PROVE  In(t) /\ call'[t] = call[t]
    <3>1. CASE u = t
      <4>1. call[t] \in Call
        BY DEF TypeOK
      <4>2. call'[t].step # "done" \/ call'[t].event # "check_in"
        <5>1. CASE Select(t)
          <6>1. CASE Return(t, "already_in", RowOf(t).check_in)
            <7>1. call'[t].event = "already_in"
              BY <6>1, ReturnEffect DEF TypeOK
            <7>2. QED BY <7>1
          <6>2. CASE call' = [call EXCEPT ![t].step = "insert"]
            BY <6>2, <4>1 DEF TypeOK, Call
          <6>3. CASE call' = [call EXCEPT ![t].step = "update"]
            BY <6>3, <4>1 DEF TypeOK, Call
          <6>4. QED BY <5>1, <6>1, <6>2, <6>3 DEF Select
        <5>2. CASE Update(t)
          <6>1. call'[t].event = "check_out"
            BY <5>2, ReturnEffect DEF Update, TypeOK
          <6>2. QED BY <6>1
        <5>3. CASE Upsert(t)
          <6>1. call'[t].event = "manual_check_out"
            BY <5>3, ReturnEffect DEF Upsert, TypeOK
          <6>2. QED BY <6>1
        <5>4. CASE Crash(t)
          BY <5>4 DEF Crash, IdleCall, TypeOK
        <5>5. QED BY <2>3, <3>1, <5>1, <5>2, <5>3, <5>4
      <4>3. QED BY <1>1, <4>2 DEF Answered
    <3>2. CASE u # t
      BY <1>1, <2>3, <3>2 DEF Select, Update, Upsert, Crash, Return, Answered, TypeOK
    <3>3. QED BY <3>1, <3>2
  <2>4. ASSUME NEW u \in Threads, Insert(u)
        PROVE  \/ In(t) /\ call'[t] = call[t]
               \/ /\ Insert(t) /\ ~HasRow(call[t].person, call[t].day)
                  /\ call'[t].person = call[t].person /\ call'[t].day = call[t].day
                  /\ \A v \in Threads \ {t} : call'[v] = call[v]
    <3>1. CASE u # t
      BY <1>1, <2>4, <3>1 DEF Insert, Return, Answered, TypeOK
    <3>2. CASE u = t /\ HasRow(call[t].person, call[t].day)
      <4>1. call'[t].event = "IntegrityError"
        BY <2>4, <3>2, ReturnEffect DEF Insert, TypeOK
      <4>2. QED BY <1>1, <4>1
    <3>3. CASE u = t /\ ~HasRow(call[t].person, call[t].day)
      BY <2>4, <3>3, ReturnEffect DEF Insert, TypeOK
    <3>4. QED BY <3>1, <3>2, <3>3
  <2>5. QED BY <2>1, <2>2, <2>3, <2>4 DEF Next
<1>2. SUFFICES ASSUME NEW t \in Threads, NEW u \in Threads, In(t)', In(u)', t # u,
                      call'[t].person = call'[u].person, call'[t].day = call'[u].day
               PROVE  FALSE
  BY DEF AtMostOneCheckIn
<1>3. ASSUME NEW v \in Threads, In(v)
      PROVE  HasRow(call[v].person, call[v].day)
  BY <1>3 DEF ThreadOK, HasRow, RowOf
<1>4. CASE In(t) /\ call'[t] = call[t] /\ In(u) /\ call'[u] = call[u]
  BY <1>2, <1>4 DEF AtMostOneCheckIn
<1>5. CASE ~(In(t) /\ call'[t] = call[t])
  <2>1. /\ ~HasRow(call[t].person, call[t].day) /\ call'[u] = call[u]
        /\ call'[t].person = call[t].person /\ call'[t].day = call[t].day /\ Insert(t)
    BY <1>1, <1>2, <1>5
  <2>2. In(u)
    BY <1>2, <2>1 DEF Insert, Answered
  <2>3. QED BY <1>2, <1>3, <2>1, <2>2
<1>6. CASE ~(In(u) /\ call'[u] = call[u])
  <2>1. /\ ~HasRow(call[u].person, call[u].day) /\ call'[t] = call[t]
        /\ call'[u].person = call[u].person /\ call'[u].day = call[u].day /\ Insert(u)
    BY <1>1, <1>2, <1>6
  <2>2. In(t)
    BY <1>2, <2>1 DEF Insert, Answered
  <2>3. QED BY <1>2, <1>3, <2>1, <2>2
<1>7. QED BY <1>4, <1>5, <1>6

\* The inductive invariant holds in every reachable state.
THEOREM IInvHolds == Spec => []IInv
<1>1. Init => IInv
  <2> SUFFICES ASSUME Init PROVE IInv
    OBVIOUS
  <2>1. PICK p \in Persons : call = [t \in Threads |-> IdleCall(p)]
    BY DEF Init
  <2>2. \A t \in Threads : call[t].step = "idle"
    BY <2>1 DEF IdleCall
  <2>3. UpdateSawRow /\ OvertakenWereErased /\ AnswerMatchesRow /\ AtMostOneCheckIn
    BY <2>2 DEF Init, UpdateSawRow, OvertakenWereErased, AnswerMatchesRow,
                AtMostOneCheckIn, Answered
  <2>4. QED BY <2>3, InitType DEF IInv
<1>2. IInv /\ [Next]_vars => IInv'
  <2> SUFFICES ASSUME IInv, [Next]_vars PROVE IInv'
    OBVIOUS
  <2>1. TypeOK /\ \A t \in Threads : ThreadOK(t)
    BY ThreadByThread DEF IInv
  <2>2. TypeOK'
    BY <2>1, NextType
  <2>3. \A t \in Threads : ThreadOK(t)'
    BY <2>1, NextThreads
  <2>4. AtMostOneCheckIn'
    BY <2>1, NextOneCheckIn DEF IInv
  <2>5. AnswerMatchesRow' /\ UpdateSawRow' /\ OvertakenWereErased'
    BY <2>2, <2>3 DEF ThreadOK, AnswerMatchesRow, UpdateSawRow, OvertakenWereErased, TypeOK
  <2>6. QED BY <2>2, <2>4, <2>5 DEF IInv
<1>3. QED BY <1>1, <1>2, PTL DEF Spec

\* What mark_attendance tells its caller is what the table holds.
THEOREM AnswersMatchRows == Spec => []AnswerMatchesRow
<1>1. IInv => AnswerMatchesRow
  BY DEF IInv
<1>2. QED BY <1>1, IInvHolds, PTL

\* No two callers are told they made the same check-in.
THEOREM OneCheckIn == Spec => []AtMostOneCheckIn
<1>1. IInv => AtMostOneCheckIn
  BY DEF IInv
<1>2. QED BY <1>1, IInvHolds, PTL

\* The concurrent implementation does what the abstract register does: each
\* step is a register operation on one row, an erasure, or invisible.
THEOREM RegisterIsImplemented == Spec => ImplementsRegister
<1> USE DEF Register!Null, Register!NoRow, Register!HasRow, NoRow, HasRow
<1>1. Init => Register!RegInit
  BY DEF Init, Register!RegInit
<1>2. IInv /\ [Next]_vars => [Register!RegNext]_(Register!rvars)
  <2> SUFFICES ASSUME IInv, [Next]_vars,
                      ~ UNCHANGED <<attendance, everErased>>
               PROVE  Register!RegNext
    BY DEF Register!rvars
  <2>1. ASSUME NEW p \in Persons, Erase(p) PROVE Register!RegNext
    BY <2>1 DEF Erase, Register!RegNext, Register!Forget
  <2>2. ASSUME NEW t \in Threads, Insert(t) \/ Update(t) \/ Upsert(t)
        PROVE  Register!RegNext
    <3> DEFINE c == call[t]
    <3>1. c.person \in Persons /\ c.day \in Days /\ c.now \in Times
      BY DEF IInv, TypeOK, Call
    <3>2. CASE Insert(t)
      <4>1. Register!CheckIn(c.person, c.day, c.now)
        <5>1. (c.now \in {now \in Times : IsLate(now)}) = IsLate(c.now)
          <6>1. IsLate(c.now) \in BOOLEAN
            BY <3>1, IsLateType
          <6>2. (c.now \in {now \in Times : IsLate(now)}) <=> IsLate(c.now)
            BY <3>1
          <6>3. QED BY <6>1, <6>2
        <5>2. ~HasRow(c.person, c.day)
          BY <3>2 DEF Insert
        <5>3. attendance' = [attendance EXCEPT ![c.person][c.day] =
                 [check_in |-> c.now, check_out |-> Null,
                  is_late |-> (c.now \in {now \in Times : IsLate(now)})]]
          BY <3>2, <5>1, <5>2 DEF Insert
        <5>4. QED BY <3>2, <5>2, <5>3 DEF Insert, Register!CheckIn
      <4>2. QED BY <3>1, <4>1 DEF Register!RegNext
    <3>3. CASE Update(t)
      <4>1. HasRow(c.person, c.day)
        BY <3>3 DEF Update
      <4>2. c.person \in everErased \/ attendance[c.person][c.day].check_in <= c.now
        <5>1. CASE t \in overtaken
          BY <5>1 DEF IInv, OvertakenWereErased
        <5>2. CASE t \notin overtaken
          <6>1. RowOf(t).check_in + Gap(c.op) <= c.now
            BY <3>3, <5>2 DEF IInv, UpdateSawRow, Update
          <6>2. Gap(c.op) \in Nat
            BY GapNat DEF IInv, TypeOK, Call
          <6>3. RowOf(t).check_in \in Int /\ c.now \in Int
            BY <3>1, BoundsAssumption DEF IInv, TypeOK, RowOf, Row
          <6>4. QED BY <6>1, <6>2, <6>3 DEF RowOf
        <5>3. QED BY <5>1, <5>2
      <4>3. Register!CheckOut(c.person, c.day, c.now)
        BY <3>3, <4>1, <4>2 DEF Update, Register!CheckOut
      <4>4. QED BY <3>1, <4>3 DEF Register!RegNext
    <3>4. CASE Upsert(t)
      <4>1. Register!ForceCheckOut(c.person, c.day, c.now)
        BY <3>4 DEF Upsert, Register!ForceCheckOut
      <4>2. QED BY <3>1, <4>1 DEF Register!RegNext
    <3>5. QED BY <2>2, <3>2, <3>3, <3>4
  <2>3. QED
    BY <2>1, <2>2 DEF Next, vars, Tick, Begin, Select, Crash
<1>3. QED
  BY <1>1, <1>2, IInvHolds, PTL DEF Spec, ImplementsRegister, Register!RegSpec
=============================================================================
