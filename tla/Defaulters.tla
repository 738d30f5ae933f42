----------------------------- MODULE Defaulters -----------------------------
(***************************************************************************)
(* The "75% rule": subject_attendance_report of db.py, and the two pages   *)
(* that go through the subjects with it, the list of defaulters and the    *)
(* pack for the parents of a person.                                       *)
(*                                                                         *)
(* A report counts the sessions held once, lists the people, and counts    *)
(* what each has attended.  Nothing is locked: sessions are opened, marked *)
(* and deleted by other requests between the readings of one report.       *)
(***************************************************************************)
EXTENDS Integers, Sequences, SequencesExt, FiniteSets

CONSTANTS Courses,    \* subjects, in the order of their names
          HomeOf,     \* [subject -> its department, "" for none]
          Students,   \* persons, in the order of their names
          Departments,
          MinPct,     \* setting attendance_required_pct, in tenths
          MaxClasses, MaxWrites  \* bounds: sessions ever opened; changes

VARIABLES taught,   \* table subjects
          roll,     \* table persons: [person -> department, "" for none], of some
          classes,  \* table class_sessions: [id, subject]
          attends,  \* table session_attendance: <<id, person>>
          opened,   \* ids given out
          report,   \* the page being put together
          writes

vars == <<taught, roll, classes, attends, opened, report, writes>>

\* Of the report: the subjects to come (its own first), sessions held, who of the
\* people is to come, rows.  History, of this subject since held was counted: whether sessions
\* were opened or marks taken away, and for each person whether the rule was
\* broken, at one time or another.
NoReport == [step |-> "none", pack |-> "", subjects |-> <<>>, held |-> 0, people |-> {},
             rows |-> {}, added |-> FALSE, removed |-> FALSE, broken |-> [p \in ToSet(Students) |-> {}]]
At(step) == report.step = step

Init ==
    /\ taught = ToSet(Courses) /\ roll \in [ToSet(Students) -> Departments]
    /\ classes = {} /\ attends = {} /\ opened = 0
    /\ report = NoReport /\ writes = 0

-----------------------------------------------------------------------------
(* The numbers.                                                            *)

HeldIn(cs, s) == Cardinality({c \in cs : c.subject = s})
\* (Mutant of Attended: sessions of any subject.)
AttendedAnywhere(cs, as, s, p) == Cardinality({c \in cs : <<c.id, p>> \in as})
Attended(cs, as, s, p) == Cardinality({c \in cs : c.subject = s /\ <<c.id, p>> \in as})

\* round(attended / held * 100, 1) if held else 0.0, in tenths
Pct(attended, held) == IF held = 0 THEN 0 ELSE (2000 * attended + held) \div (2 * held)
Broken(attended, held) == held > 0 /\ Pct(attended, held) < MinPct

-----------------------------------------------------------------------------
(* Other requests.                                                         *)

\* A report on its way is told what happens to its subject.
Watched(cs, as) ==
    IF report.subjects = <<>> \/ ~(At("people") \/ At("person")) THEN report
    ELSE LET s == Head(report.subjects) IN
         [report EXCEPT
             !.added = report.added \/ \E c \in cs \ classes : c.subject = s,
             !.removed = report.removed \/ ~(attends \subseteq as),
             !.broken = [p \in ToSet(Students) |->
                report.broken[p] \cup {Broken(Attended(cs, as, s, p), HeldIn(cs, s))}]]
Write(cs, as) ==
    /\ writes < MaxWrites /\ writes' = writes + 1
    /\ classes' = cs /\ attends' = as
    /\ report' = Watched(cs, as)

create_session(s) ==
    /\ s \in taught /\ opened < MaxClasses
    /\ opened' = opened + 1
    /\ Write(classes \cup {[id |-> opened + 1, subject |-> s]}, attends)
    /\ UNCHANGED <<taught, roll>>
Without(gone) == Write(classes \ gone, {a \in attends : \A c \in gone : c.id # a[1]})
delete_session(c) ==
    /\ Without({c})
    /\ UNCHANGED <<taught, roll, opened>>
delete_subject(s) ==
    /\ s \in taught
    /\ taught' = taught \ {s}
    /\ Without({c \in classes : c.subject = s})
    /\ UNCHANGED <<roll, opened>>
\* Nobody asks whether the person is registered.
mark_session_attendance(c, p) ==
    /\ <<c.id, p>> \notin attends
    /\ Write(classes, attends \cup {<<c.id, p>>})
    /\ UNCHANGED <<taught, roll, opened>>
\* Marks stay when the person goes, and are there if the id comes back.
delete_person(p) ==
    /\ p \in DOMAIN roll
    /\ roll' = [q \in DOMAIN roll \ {p} |-> roll[q]]
    /\ Write(classes, attends)
    /\ UNCHANGED <<taught, opened>>
upsert_person(p, d) ==
    /\ roll' = [q \in DOMAIN roll \cup {p} |-> IF q = p THEN d ELSE roll[q]]
    /\ Write(classes, attends)
    /\ UNCHANGED <<taught, opened>>
fulfil_erasure(p) ==
    /\ roll' = [q \in DOMAIN roll \ {p} |-> roll[q]]
    /\ Write(classes, {a \in attends : a[2] # p})
    /\ UNCHANGED <<taught, opened>>

-----------------------------------------------------------------------------
(* The report.                                                             *)

Step(to) == report' = to /\ UNCHANGED <<taught, roll, classes, attends, opened, writes>>
Begin(pack) ==
    /\ At("none")
    /\ Step([NoReport EXCEPT !.step = "subject", !.pack = pack,
                             !.subjects = SelectSeq(Courses, LAMBDA s : s \in taught)])
all_defaulters == Begin("")
parent_pack(p) == p \in DOMAIN roll /\ Begin(p)

\* SELECT * FROM subjects: nothing to report of one deleted since; and
\* SELECT COUNT(*) FROM class_sessions.
NextSubject == [report EXCEPT !.step = "subject", !.subjects = Tail(report.subjects)]
CountHeld ==
    /\ At("subject")
    /\ IF report.subjects = <<>> THEN Step([report EXCEPT !.step = "done"])
       ELSE LET s == Head(report.subjects) IN
            IF s \notin taught THEN Step(NextSubject)
            ELSE Step([report EXCEPT !.step = "people", !.held = HeldIn(classes, s),
                          !.added = FALSE, !.removed = FALSE,
                          !.broken = [p \in ToSet(Students) |->
                             {Broken(Attended(classes, attends, s, p), HeldIn(classes, s))}]])

\* SELECT * FROM persons, of the department if the subject has one.
ListPeople ==
    /\ At("people")
    /\ LET s == Head(report.subjects) IN
       Step([report EXCEPT !.step = "person",
                !.people = {p \in ToSet(Students) :
                    p \in DOMAIN roll /\ HomeOf[s] \in {"", roll[p]}}])

\* One person's count, and the row: the defaulters' page keeps it if the rule is
\* broken, the pack if it is the person's.
CountAttended(i) ==
    LET p == Students[i]
        s == Head(report.subjects)
        n == Attended(classes, attends, s, p)
        row == [subject |-> s, person |-> p, attended |-> n, held |-> report.held,
                listed |-> Broken(n, report.held), added |-> report.added,
                removed |-> report.removed, broken |-> report.broken[p]]
    IN  /\ At("person") /\ p \in report.people
        /\ \A j \in 1..(i - 1) : Students[j] \notin report.people
        /\ Step([report EXCEPT !.people = report.people \ {p},
                    !.rows = report.rows \cup (IF report.pack \in {"", p} THEN {row} ELSE {})])
Counted == At("person") /\ report.people = {} /\ Step(NextSubject)

Answer == At("done") /\ Step(NoReport)

Next ==
    \/ \E s \in ToSet(Courses) : create_session(s) \/ delete_subject(s)
    \/ \E c \in classes : delete_session(c) \/ \E p \in ToSet(Students) : mark_session_attendance(c, p)
    \/ \E p \in ToSet(Students) :
          delete_person(p) \/ fulfil_erasure(p) \/ \E d \in Departments : upsert_person(p, d)
    \/ all_defaulters \/ \E p \in ToSet(Students) : parent_pack(p)
    \/ CountHeld \/ ListPeople \/ Counted \/ Answer
    \/ \E i \in DOMAIN Students : CountAttended(i)

Spec == Init /\ [][Next]_vars

-----------------------------------------------------------------------------
\* "All (subject, person) pairs below min_pct", counted while sessions come and
\* go.  Somebody listed was below at some time during the count unless marks were
\* taken away meanwhile; somebody not listed was at some time not below, and has
\* not attended more than was held, unless a session was opened meanwhile.
DefaultersAreReal ==
    \A r \in report.rows :
        /\ ~r.removed => (r.listed => TRUE \in r.broken)
        /\ ~r.added => (~r.listed => FALSE \in r.broken) /\ r.attended <= r.held
=============================================================================
