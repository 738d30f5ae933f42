----------------------------- MODULE Attendance -----------------------------
(***************************************************************************)
(* db.mark_attendance, db.manual_check_in, db.manual_check_out and the     *)
(* attendance part of db.fulfil_erasure, run by concurrent request threads *)
(* (gunicorn: several worker processes with several threads each, all on   *)
(* one SQLite file).                                                       *)
(*                                                                         *)
(* mark_attendance reads the clock, then SELECTs the day's row, then       *)
(* INSERTs or UPDATEs it.  The connection is in sqlite3's default          *)
(* isolation mode: a SELECT opens no transaction, so the three are three   *)
(* steps that other connections can come between.  The UNIQUE constraint   *)
(* on (person_id, date) is the only guard of the INSERT.                   *)
(***************************************************************************)
EXTENDS Integers

CONSTANTS Persons,     \* person ids
          Threads,     \* request threads of all worker processes
          MaxDay,      \* bound: days of the model are 0..MaxDay
          MaxTime,     \* bound: instants of one day are 0..MaxTime
          HourLen,     \* instants in an hour (60 minutes in the program)
          StartHour, StartMin,  \* setting work_start_time, "HH:MM"
          LateMin,     \* setting late_threshold_min
          GapMin       \* setting min_checkout_gap_min

ASSUME BoundsAssumption == MaxDay \in Nat /\ MaxTime \in Nat
ASSUME SettingsAssumption ==
    /\ HourLen \in Nat \ {0}
    /\ StartHour \in Nat /\ StartMin \in 0..(HourLen - 1)
    /\ LateMin \in Nat /\ GapMin \in Nat

VARIABLES day, time,   \* the wall clock, shared by every thread
          attendance,  \* the table: [Persons -> [Days -> Row]]
          call,        \* [Threads -> the call in progress, or the last one]
          everErased,  \* history: persons erased so far
          overtaken    \* history: threads whose person was erased since the
                       \* call began

vars == <<day, time, attendance, call, everErased, overtaken>>

Days == 0..MaxDay
Times == 0..MaxTime

-----------------------------------------------------------------------------
(* The late rule.  The cutoff is built with                                *)
(*     now.replace(hour=hh, minute=mm + late_min)                          *)
(* inside a try: when mm + late_min is not a minute of the hour, replace   *)
(* raises and the except branch says "not late".                           *)

IsLate(now) ==
    /\ StartMin + LateMin < HourLen
    /\ now > StartHour * HourLen + StartMin + LateMin

Register == INSTANCE AttendanceRegister
               WITH LateTimes <- {now \in Times : IsLate(now)}

Null == -1
Row == [check_in : Times \cup {Null}, check_out : Times \cup {Null},
        is_late : BOOLEAN]
NoRow == [check_in |-> Null, check_out |-> Null, is_late |-> FALSE]
HasRow(p, d) == attendance[p][d].check_in # Null

(* The functions that reach the table: what a thread is running, and the   *)
(* step it is at.  "done" holds the dict the call returned (or the         *)
(* exception it raised: "IntegrityError").                                 *)
Ops == {"mark_attendance", "manual_check_in", "manual_check_out"}
Steps == {"idle", "select", "insert", "update", "upsert", "done"}
Events == {"none", "check_in", "already_in", "check_out", "manual_check_out",
           "IntegrityError"}
Call == [op : Ops, step : Steps, person : Persons, day : Days, now : Times,
         event : Events, time : Times \cup {Null}]

IdleCall(p) == [op |-> "mark_attendance", step |-> "idle", person |-> p,
                day |-> 0, now |-> 0, event |-> "none", time |-> Null]

Running(t) == call[t].step \notin {"idle", "done"}
Answered(t) == call[t].step = "done"
RowOf(t) == attendance[call[t].person][call[t].day]

\* The min_gap_min argument: manual_check_in passes 0.
Gap(op) == IF op = "manual_check_in" THEN 0 ELSE GapMin

-----------------------------------------------------------------------------
Init ==
    /\ day = 0 /\ time = 0
    /\ attendance = [p \in Persons |-> [d \in Days |-> NoRow]]
    /\ \E p \in Persons : call = [t \in Threads |-> IdleCall(p)]
    /\ everErased = {}
    /\ overtaken = {}

\* now = datetime.now(); today = now.date()
Begin(t, op, p) ==
    /\ ~Running(t)
    /\ call' = [call EXCEPT ![t] =
            [op |-> op,
             step |-> IF op = "manual_check_out" THEN "upsert" ELSE "select",
             person |-> p, day |-> day, now |-> time,
             event |-> "none", time |-> Null]]
    /\ overtaken' = overtaken \ {t}
    /\ UNCHANGED <<day, time, attendance, everErased>>

Return(t, event, at) ==
    call' = [call EXCEPT ![t] =
                [@ EXCEPT !.step = "done", !.event = event, !.time = at]]

\* SELECT * FROM attendance WHERE person_id = ? AND date = ?, and the choice
\* between check-in, "already in" and check-out that is made on its result.
Select(t) ==
    LET row == RowOf(t) IN
    /\ call[t].step = "select"
    /\ \/ /\ row.check_in = Null
          /\ call' = [call EXCEPT ![t].step = "insert"]
       \/ /\ row.check_in # Null
          /\ call[t].now - row.check_in < Gap(call[t].op)
          /\ Return(t, "already_in", row.check_in)
       \/ /\ row.check_in # Null
          /\ call[t].now - row.check_in >= Gap(call[t].op)
          /\ call' = [call EXCEPT ![t].step = "update"]
    /\ UNCHANGED <<day, time, attendance, everErased, overtaken>>

\* (Mutants of Insert: INSERT OR REPLACE, and INSERT OR IGNORE without a look
\* at the row count.)
InsertOrReplace(t) ==
    LET c == call[t] IN
    /\ c.step = "insert"
    /\ attendance' = [attendance EXCEPT ![c.person][c.day] =
           [check_in |-> c.now, check_out |-> Null, is_late |-> IsLate(c.now)]]
    /\ Return(t, "check_in", c.now)
    /\ UNCHANGED <<day, time, everErased, overtaken>>

InsertOrIgnore(t) ==
    LET c == call[t] IN
    /\ c.step = "insert"
    /\ attendance' = IF HasRow(c.person, c.day) THEN attendance
                     ELSE [attendance EXCEPT ![c.person][c.day] =
           [check_in |-> c.now, check_out |-> Null, is_late |-> IsLate(c.now)]]
    /\ Return(t, "check_in", c.now)
    /\ UNCHANGED <<day, time, everErased, overtaken>>

\* INSERT INTO attendance(...); the UNIQUE(person_id, date) constraint makes
\* it raise when another thread inserted the row after this one's SELECT.
Insert(t) ==
    LET c == call[t] IN
    /\ c.step = "insert"
    /\ \/ /\ ~HasRow(c.person, c.day)
          /\ attendance' = [attendance EXCEPT ![c.person][c.day] =
                 [check_in |-> c.now, check_out |-> Null, is_late |-> IsLate(c.now)]]
          /\ Return(t, "check_in", c.now)
       \/ /\ HasRow(c.person, c.day)
          /\ Return(t, "IntegrityError", Null)
          /\ UNCHANGED attendance
    /\ UNCHANGED <<day, time, everErased, overtaken>>

\* UPDATE attendance SET check_out = ? ...: no effect when the row has gone,
\* and the caller is told "check_out" either way.
Update(t) ==
    LET c == call[t] IN
    /\ c.step = "update"
    /\ attendance' = IF HasRow(c.person, c.day)
                     THEN [attendance EXCEPT ![c.person][c.day].check_out = c.now]
                     ELSE attendance
    /\ Return(t, "check_out", c.now)
    /\ UNCHANGED <<day, time, everErased, overtaken>>

\* (Mutant of Upsert: the conflict clause rewrites the whole row.)
UpsertWholeRow(t) ==
    LET c == call[t] IN
    /\ c.step = "upsert"
    /\ attendance' = [attendance EXCEPT ![c.person][c.day] =
            [check_in |-> c.now, check_out |-> c.now, is_late |-> FALSE]]
    /\ Return(t, "manual_check_out", c.now)
    /\ UNCHANGED <<day, time, everErased, overtaken>>

\* manual_check_out: INSERT ... ON CONFLICT DO UPDATE, one statement.
Upsert(t) ==
    LET c == call[t] IN
    /\ c.step = "upsert"
    /\ attendance' = [attendance EXCEPT ![c.person][c.day] =
            IF HasRow(c.person, c.day)
            THEN [@ EXCEPT !.check_out = c.now]
            ELSE [check_in |-> c.now, check_out |-> c.now, is_late |-> FALSE]]
    /\ Return(t, "manual_check_out", c.now)
    /\ UNCHANGED <<day, time, everErased, overtaken>>

\* A worker dies, or is killed on a timeout, between two steps of a call.
Crash(t) ==
    /\ Running(t)
    /\ call' = [call EXCEPT ![t] = IdleCall(call[t].person)]
    /\ UNCHANGED <<day, time, attendance, everErased, overtaken>>

\* fulfil_erasure: DELETE FROM attendance WHERE person_id = ?
Erase(p) ==
    /\ attendance' = [attendance EXCEPT ![p] = [d \in Days |-> NoRow]]
    /\ everErased' = everErased \cup {p}
    /\ overtaken' = overtaken \cup {t \in Threads : call[t].person = p}
    /\ UNCHANGED <<day, time, call>>

\* Seconds pass; midnight starts a new day.
Tick ==
    /\ \/ time < MaxTime /\ time' = time + 1 /\ UNCHANGED day
       \/ time = MaxTime /\ day < MaxDay /\ time' = 0 /\ day' = day + 1
    /\ UNCHANGED <<attendance, call, everErased, overtaken>>

Next ==
    \/ Tick
    \/ \E p \in Persons : Erase(p)
    \/ \E t \in Threads :
          \/ \E op \in Ops, p \in Persons : Begin(t, op, p)
          \/ Select(t) \/ Insert(t) \/ Update(t) \/ Upsert(t) \/ Crash(t)

Spec == Init /\ [][Next]_vars

-----------------------------------------------------------------------------
(* Properties.                                                             *)

TypeOK ==
    /\ day \in Days /\ time \in Times
    /\ attendance \in [Persons -> [Days -> Row]]
    /\ call \in [Threads -> Call]
    /\ everErased \in SUBSET Persons
    /\ overtaken \in SUBSET Threads

\* What a caller was told is what the table holds, whatever other threads did
\* in between (db.mark_attendance's return value drives the notification, the
\* webhook and the on-screen flash): the answer "check_in" is the row's check-in
\* and its late flag, "already_in" quotes the row's check-in, "check_out" has a
\* row that has been checked out at least the gap after its check-in, and even
\* the thread whose INSERT lost the race leaves a person who has a row.
\* Erasures of the person since the call began are excepted.
AnswerMatchesRow ==
    \A t \in Threads :
        LET c == call[t]
            row == RowOf(t) IN
        Answered(t) /\ t \notin overtaken =>
            /\ row.check_in # Null
            /\ c.event = "check_in" => /\ row.check_in = c.time
                                       /\ row.is_late = IsLate(c.time)
            /\ c.event = "already_in" => row.check_in = c.time
            /\ c.event = "check_out" =>
                  /\ row.check_out # Null
                  /\ row.check_in + Gap(c.op) <= c.time
            /\ c.event = "manual_check_out" => row.check_out # Null

\* Two calls are never both told that they made the same check-in, so the
\* welcome notification of a day can be sent once (db.mark_attendance's INSERT
\* branch against the SELECT of a concurrent call).
AtMostOneCheckIn ==
    \A t, u \in Threads \ overtaken :
        /\ Answered(t) /\ Answered(u)
        /\ call[t].event = "check_in" /\ call[u].event = "check_in"
        /\ call[t].person = call[u].person /\ call[t].day = call[u].day
        => t = u

\* A row, while it exists, keeps the check-in time and the late flag it was
\* created with, and a check-out is never taken back (only moved): no UPDATE
\* or upsert of a later call touches what the first one recorded.
SettledStep ==
    \A p \in Persons, d \in Days :
        HasRow(p, d) /\ HasRow(p, d)' =>
            /\ attendance'[p][d].check_in = attendance[p][d].check_in
            /\ attendance'[p][d].is_late = attendance[p][d].is_late
            /\ attendance[p][d].check_out # Null =>
                  attendance'[p][d].check_out # Null
CheckInIsSettled == [][SettledStep]_attendance

\* The concurrent implementation, with its reads and writes apart, does what
\* the abstract register does: every write it commits is a check-in, check-out,
\* forced check-out or erasure of the register.
ImplementsRegister == Register!RegSpec

-----------------------------------------------------------------------------
(* Inductive strengthening, used by the proofs and checked by TLC too.     *)

\* A thread about to UPDATE saw a row and that row is still there, checked in
\* at least the gap before the thread's `now`.
UpdateSawRow ==
    \A t \in Threads :
        call[t].step = "update" /\ t \notin overtaken =>
            /\ RowOf(t).check_in # Null
            /\ RowOf(t).check_in + Gap(call[t].op) <= call[t].now

\* An erasure that overtakes a thread is an erasure of the thread's person.
OvertakenWereErased == \A t \in overtaken : call[t].person \in everErased

IInv == TypeOK /\ UpdateSawRow /\ OvertakenWereErased /\ AnswerMatchesRow
        /\ AtMostOneCheckIn
=============================================================================
