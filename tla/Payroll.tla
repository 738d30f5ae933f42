------------------------------ MODULE Payroll ------------------------------
(***************************************************************************)
(* payroll.compute over the tables it reads: attendance, leave requests    *)
(* and holidays, which the register, HR and the calendar change.           *)
(***************************************************************************)
EXTENDS Integers, FiniteSets

CONSTANTS Persons, Branches,
          MaxDay,    \* bound: days 1..MaxDay
          MaxLeaves  \* bound: leave requests

ASSUME PayrollAssumption == MaxDay \in Nat /\ MaxLeaves \in Nat

VARIABLES attendance, \* [Persons -> [Days -> a row or NoRow]]
          leaves,     \* leave_requests: [id, person, start, end, status]
          holidays    \* holidays: [day, branch]; branch "all" is NULL

vars == <<attendance, leaves, holidays>>

Days == 1..MaxDay
NoRow == [row |-> FALSE, in |-> FALSE, late |-> FALSE]
Row(late) == [row |-> TRUE, in |-> TRUE, late |-> late]  \* both INSERTs set check_in
Statuses == {"pending", "approved", "rejected"}
Leave == [id : 1..MaxLeaves, person : Persons, start : Days, end : Days, status : Statuses]
Holiday == [day : Days, branch : Branches \cup {"all"}]

-----------------------------------------------------------------------------
Init ==
    /\ attendance = [p \in Persons |-> [d \in Days |-> NoRow]]
    /\ leaves = {} /\ holidays = {}

\* mark_attendance: the check-in is written once; a later call is a check-out,
\* which is of no interest here.
CheckIn(p, d, late) ==
    /\ attendance[p][d] = NoRow
    /\ attendance' = [attendance EXCEPT ![p] = [@ EXCEPT ![d] = Row(late)]]
    /\ UNCHANGED <<leaves, holidays>>

\* manual_check_out of one who has no row: a visit of length zero, never late.
CheckOutOnly(p, d) ==
    /\ attendance[p][d] = NoRow
    /\ attendance' = [attendance EXCEPT ![p] = [@ EXCEPT ![d] = Row(FALSE)]]
    /\ UNCHANGED <<leaves, holidays>>

AddLeave(p, start, end) ==
    /\ Cardinality(leaves) < MaxLeaves
    /\ leaves' = leaves \cup {[id |-> Cardinality(leaves) + 1, person |-> p, start |-> start,
                               end |-> end, status |-> "pending"]}
    /\ UNCHANGED <<attendance, holidays>>

\* decide_leave does not look at the status there is.
DecideLeave(l, status) ==
    /\ leaves' = (leaves \ {l}) \cup {[l EXCEPT !.status = status]}
    /\ UNCHANGED <<attendance, holidays>>

AddHoliday(d, b) ==
    /\ holidays' = holidays \cup {[day |-> d, branch |-> b]}
    /\ UNCHANGED <<attendance, leaves>>

DeleteHoliday(h) ==
    /\ holidays' = holidays \ {h}
    /\ UNCHANGED <<attendance, leaves>>

-----------------------------------------------------------------------------
(* compute(start, end, branch), of a person.                               *)

DateRange(start, end) == start..end

HolidaysSet(b) == {h.day : h \in {x \in holidays : x.branch \in {"all", b}}}
WorkingSet(start, end, b) == DateRange(start, end) \ HolidaysSet(b)

SeenDays(p, working) == {d \in working : attendance[p][d].row}
PresentDays(p, working) == {d \in working : attendance[p][d].in}

Covers(l, d) == l.start <= d /\ d <= l.end

\* (Mutant of LeaveDays: a request counts before it is decided.)
LeaveDaysAsked(p, working) ==
    {d \in working : \E l \in leaves : l.person = p /\ l.status # "rejected" /\ Covers(l, d)}
LeaveDays(p, working) ==
    {d \in working : \E l \in leaves : l.person = p /\ l.status = "approved" /\ Covers(l, d)}

OnLeave(p, working) == Cardinality(LeaveDays(p, working) \ SeenDays(p, working))
Present(p, working) == Cardinality(PresentDays(p, working))

\* max(0, working days - present - on leave)
Absent(p, working) ==
    LET rest == Cardinality(working) - Present(p, working) - OnLeave(p, working)
    IN  IF rest < 0 THEN 0 ELSE rest

-----------------------------------------------------------------------------
Next ==
    \/ \E p \in Persons, d \in Days :
          \/ \E late \in BOOLEAN : CheckIn(p, d, late)
          \/ CheckOutOnly(p, d)
          \/ \E e \in Days : AddLeave(p, d, e)
    \/ \E l \in leaves, status \in {"approved", "rejected"} : DecideLeave(l, status)
    \/ \E d \in Days, b \in Branches \cup {"all"} : AddHoliday(d, b)
    \/ \E h \in holidays : DeleteHoliday(h)

Spec == Init /\ [][Next]_vars

-----------------------------------------------------------------------------
(* Properties, for every report that could be asked for.                   *)

TypeOK ==
    /\ attendance \in [Persons -> [Days -> {NoRow} \cup {Row(l) : l \in BOOLEAN}]]
    /\ leaves \subseteq Leave /\ holidays \subseteq Holiday
    /\ \A l, m \in leaves : l.id = m.id => l = m

Reports == {WorkingSet(s, e, b) : s, e \in Days, b \in Branches \cup {"all"}}

\* Every working day is counted once: as present, as on leave or as absent, for
\* leaves that overlap each other, holidays and days that were worked.
DaysAddUp ==
    \A p \in Persons, working \in Reports :
       Present(p, working) + OnLeave(p, working) + Absent(p, working) = Cardinality(working)

Unexcused(p, working) ==
    {d \in working :
        /\ ~attendance[p][d].in
        /\ ~\E l \in leaves : l.person = p /\ l.status = "approved" /\ Covers(l, d)}

\* No absence is hidden and none invented: exactly the working days without a
\* check-in and without approved leave are absences.
NoAbsenceHidden ==
    \A p \in Persons, working \in Reports :
       Absent(p, working) = Cardinality(Unexcused(p, working))

=============================================================================
