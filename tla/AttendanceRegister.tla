------------------------- MODULE AttendanceRegister -------------------------
(***************************************************************************)
(* What the `attendance` table promises to its readers (reports, payroll,  *)
(* the dashboard), with no mention of requests, threads or transactions:   *)
(* one row per person and day, created once, whose check-in time and late  *)
(* flag are settled by the write that creates it; afterwards only the      *)
(* check-out moves; only an erasure takes a row away.                      *)
(***************************************************************************)
EXTENDS Integers

CONSTANTS Persons,      \* the person ids of the installation
          Days,         \* calendar days
          Times,        \* times of day
          LateTimes     \* the times of day at which a check-in is late

VARIABLES attendance,   \* [Persons -> [Days -> Row]]
          everErased    \* persons a right-to-erasure request was fulfilled for

rvars == <<attendance, everErased>>

Null == -1
Row == [check_in : Times \cup {Null}, check_out : Times \cup {Null},
        is_late : BOOLEAN]
NoRow == [check_in |-> Null, check_out |-> Null, is_late |-> FALSE]
HasRow(p, d) == attendance[p][d].check_in # Null

RegInit == /\ attendance = [p \in Persons |-> [d \in Days |-> NoRow]]
           /\ everErased = {}

\* The first sighting of the day.
CheckIn(p, d, now) ==
    /\ ~HasRow(p, d)
    /\ attendance' = [attendance EXCEPT ![p][d] =
            [check_in |-> now, check_out |-> Null, is_late |-> now \in LateTimes]]
    /\ UNCHANGED everErased

\* A later sighting moves the check-out, never to before the check-in. (A
\* sighting overtaken by an erasure may land on a row it never saw.)
CheckOut(p, d, now) ==
    /\ HasRow(p, d)
    /\ p \in everErased \/ attendance[p][d].check_in <= now
    /\ attendance' = [attendance EXCEPT ![p][d].check_out = now]
    /\ UNCHANGED everErased

\* An administrator's check-out: of a row, or of a day with no row, which
\* becomes a visit of length zero that is never late.
ForceCheckOut(p, d, now) ==
    /\ attendance' = [attendance EXCEPT ![p][d] =
            IF HasRow(p, d)
            THEN [@ EXCEPT !.check_out = now]
            ELSE [check_in |-> now, check_out |-> now, is_late |-> FALSE]]
    /\ UNCHANGED everErased

Forget(p) ==
    /\ attendance' = [attendance EXCEPT ![p] = [d \in Days |-> NoRow]]
    /\ everErased' = everErased \cup {p}

RegNext ==
    \E p \in Persons :
        \/ Forget(p)
        \/ \E d \in Days, now \in Times :
              CheckIn(p, d, now) \/ CheckOut(p, d, now) \/ ForceCheckOut(p, d, now)

RegSpec == RegInit /\ [][RegNext]_rvars
=============================================================================
