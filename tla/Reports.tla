------------------------------ MODULE Reports ------------------------------
(***************************************************************************)
(* What the pages read from the attendance table: the reports of db.py,    *)
(* the presence counts of enterprise/analytics.py, and the dashboard that  *)
(* app.home puts together from several reads.                              *)
(*                                                                         *)
(* Rows are written under the local date (date.today()); the windows of    *)
(* the SQL reports start at a day of SQLite's date('now'), which is UTC.   *)
(* Each SELECT reads what is committed at that moment: requests that mark, *)
(* register and erase come between two reads of one page.                  *)
(***************************************************************************)
EXTENDS Integers, FiniteSets, FiniteSetsExt

CONSTANTS People,
          LastDay,     \* bound: days 1..LastDay
          Zones,       \* UTC date - local date: 0, 1 west and -1 east of UTC
          Week, MinPrev,   \* smart_insights: 7 days; at least 3 of the week before
          RiskWindow,  \* at_risk_persons: 14 days
          RecentLimit  \* recent_sightings

VARIABLES today,       \* local date
          zone,        \* UTC date - local date, during this behaviour
          registered,  \* table persons
          rows,        \* table attendance: [person, day, late]
          page,        \* the dashboard being put together
          disturbed    \* history: midnight, an erasure or a registration since

vars == <<today, zone, registered, rows, page, disturbed>>

Days == 1..LastDay
Row == [person : People, day : Days, late : BOOLEAN]
OnDay(d) == {r \in rows : r.day = d}
OfPerson(p) == {r \in rows : r.person = p}
PersonsOf(rs) == {r.person : r \in rs}

-----------------------------------------------------------------------------
(* The reports.                                                            *)

\* date('now', '-k days')
UtcAgo(k) == today + zone - k

list_attendance(d) == OnDay(d)
yet_to_arrive == {p \in registered : \A r \in OnDay(today) : r.person # p}

\* ORDER BY COALESCE(check_out, check_in) DESC LIMIT: any choice of the latest.
recent_sightings ==
    {s \in SUBSET OnDay(today) :
        Cardinality(s) = Min({RecentLimit, Cardinality(OnDay(today))})}

person_history(p, days) == {r \in OfPerson(p) : r.day >= UtcAgo(days - 1)}

attendance_summary(days) ==
    [d \in {r.day : r \in {x \in rows : x.day >= UtcAgo(days - 1)}} |->
        [total |-> Cardinality(OnDay(d)),
         late |-> Cardinality({r \in OnDay(d) : r.late})]]
occupancy_trend(days) ==
    [d \in {r.day : r \in {x \in rows : x.day >= UtcAgo(days - 1)}} |->
        Cardinality(OnDay(d))]

top_attenders(days) ==
    [p \in PersonsOf(rows) \cap registered |-> Cardinality(person_history(p, days))]

\* (Mutant of attendance_heatmap: `date >` for `date >=`.)
heatmap_after(p, days) ==
    [d \in (today - days + 1)..today |->
        LET r == {x \in OfPerson(p) : x.day = d /\ x.day > UtcAgo(days - 1)} IN
        IF r = {} THEN 0 ELSE IF \E x \in r : x.late THEN 2 ELSE 3]
\* The list of days counts back from date.today(), the rows from date('now').
attendance_heatmap(p, days) ==
    [d \in (today - days + 1)..today |->
        LET r == {x \in OfPerson(p) : x.day = d /\ x.day >= UtcAgo(days - 1)} IN
        IF r = {} THEN 0 ELSE IF \E x \in r : x.late THEN 2 ELSE 3]

Came(p, from, to) == Cardinality({r \in OfPerson(p) : from <= r.day /\ r.day < to})
Forever == LastDay + 1

\* smart_insights: those who came in the week before last week and less since.
late_today == {r \in OnDay(today) : r.late}
not_yet_arrived == {p \in registered : \A r \in OnDay(today) : r.person # p}
Prev(p) == Came(p, UtcAgo(2 * Week - 1), UtcAgo(Week - 1))
Recent(p) == Came(p, UtcAgo(Week - 1), Forever)
dropped == {p \in PersonsOf(rows) : Prev(p) >= MinPrev /\ Recent(p) < Prev(p) - 1}

\* at_risk_persons: AVG(...) divides both counts by the rows of the two windows
\* together; 0.4 and 0.25 are the literals of the query.
\* (Mutant of RiskPrior: the prior window has no end.)
RiskPriorOpen(p) == Came(p, UtcAgo(2 * RiskWindow), Forever)
RiskPrior(p) == Came(p, UtcAgo(2 * RiskWindow), UtcAgo(RiskWindow))
RiskRecent(p) == Came(p, UtcAgo(RiskWindow), Forever)
RiskRows(p) == Came(p, UtcAgo(2 * RiskWindow), Forever)
at_risk_persons ==
    {p \in registered \cap PersonsOf(rows) :
        /\ RiskRows(p) > 0
        /\ 10 * RiskPrior(p) >= 4 * RiskRows(p)
        /\ 4 * RiskRecent(p) + RiskRows(p) <= 4 * RiskPrior(p)}

-----------------------------------------------------------------------------
(* The table changes.                                                      *)

EmptyPage == [step |-> 0, arrived |-> {}, missing |-> {}, recent |-> {},
              late |-> 0, absent |-> 0]

Init ==
    /\ today = 1 /\ zone \in Zones
    /\ registered = People /\ rows = {}
    /\ page = EmptyPage /\ disturbed = FALSE

mark_attendance(p, late) ==
    /\ p \in registered /\ \A r \in OnDay(today) : r.person # p
    /\ rows' = rows \cup {[person |-> p, day |-> today, late |-> late]}
    /\ UNCHANGED <<page, today, zone, registered, disturbed>>
\* delete_user forgets the person; fulfil_erasure the rows as well.
delete_person(p) ==
    /\ p \in registered
    /\ registered' = registered \ {p}
    /\ disturbed' = TRUE
    /\ UNCHANGED <<page, today, zone, rows>>
fulfil_erasure(p) ==
    /\ rows # rows \ OfPerson(p)
    /\ registered' = registered \ {p} /\ rows' = rows \ OfPerson(p)
    /\ disturbed' = TRUE
    /\ UNCHANGED <<page, today, zone>>
upsert_person(p) ==
    /\ p \notin registered
    /\ registered' = registered \cup {p}
    /\ disturbed' = TRUE
    /\ UNCHANGED <<page, today, zone, rows>>
Midnight ==
    /\ today < LastDay
    /\ today' = today + 1
    /\ disturbed' = TRUE
    /\ UNCHANGED <<page, zone, registered, rows>>

-----------------------------------------------------------------------------
(* app.home: the reads in the order of render_template's arguments.        *)

ReadArrived == [page EXCEPT !.arrived = list_attendance(today)]
ReadMissing == [page EXCEPT !.missing = yet_to_arrive]
\* (Mutant of home_reads: yet_to_arrive before the list of arrivals.)
home_reads_swapped(k) == IF k = 1 THEN ReadMissing ELSE ReadArrived
home_reads(k) == IF k = 1 THEN ReadArrived ELSE ReadMissing

home ==
    /\ \/ /\ page.step = 0
          /\ page' = [EmptyPage EXCEPT !.step = 1]
          /\ disturbed' = FALSE
       \/ /\ page.step = 6
          /\ page' = EmptyPage
          /\ UNCHANGED disturbed
       \/ /\ \/ page.step \in {1, 2} /\ page' = [home_reads(page.step) EXCEPT !.step = @ + 1]
             \/ /\ page.step = 3
                /\ \E s \in recent_sightings :
                      page' = [page EXCEPT !.step = 4, !.recent = s]
             \/ /\ page.step = 4
                /\ page' = [page EXCEPT !.step = 5, !.late = Cardinality(late_today)]
             \/ /\ page.step = 5
                /\ page' = [page EXCEPT !.step = 6, !.absent = Cardinality(not_yet_arrived)]
          /\ UNCHANGED disturbed
    /\ UNCHANGED <<today, zone, registered, rows>>

Writes ==
    \/ \E p \in People :
          \/ \E late \in BOOLEAN : mark_attendance(p, late)
          \/ delete_person(p) \/ fulfil_erasure(p) \/ upsert_person(p)
    \/ Midnight
Next == Writes \/ home

Spec == Init /\ [][Next]_vars

-----------------------------------------------------------------------------
(* Properties.                                                             *)

\* The dashboard is put together from reads that other requests come between.
\* Unless midnight passes or somebody is registered or removed meanwhile, nobody
\* is on it both as arrived and as yet to arrive, whoever arrived is among the
\* recent sightings (or as many others are), and no count falls behind a list
\* that was read before it.
PageMovesForward ==
    page.step = 6 /\ ~disturbed =>
        /\ PersonsOf(page.arrived) \cap page.missing = {}
        /\ page.arrived \subseteq page.recent \/ Cardinality(page.recent) = RecentLimit
        /\ page.late >= Cardinality({r \in page.arrived : r.late})
        /\ page.absent <= Cardinality(page.missing)

\* The reports over the last days agree with the table and with each other,
\* although some count local days and some UTC days: the heatmap is right on
\* every day but, west of UTC, the first one; a person's history has the days of
\* the heatmap and, east of UTC, at most one more; and the histories of all
\* persons add up to the daily totals.
\* The sum of a function of natural numbers: so many pairs are below its graph.
SumOf(f) == Cardinality(UNION {{d} \X (1..f[d]) : d \in DOMAIN f})
Shown(p, days) == {d \in (today - days + 1)..today : attendance_heatmap(p, days)[d] > 0}
WindowsAgree ==
    \A days \in 1..LastDay :
        /\ \A p \in People :
              LET true == {r.day : r \in {x \in OfPerson(p) : x.day > today - days}}
                  more == Cardinality(person_history(p, days)) - Cardinality(Shown(p, days))
              IN  /\ Shown(p, days) \subseteq true
                  /\ true \ Shown(p, days) \subseteq IF zone = 1 THEN {today - days + 1} ELSE {}
                  /\ more \in IF zone = -1 THEN {0, 1} ELSE {0}
                  /\ p \in DOMAIN top_attenders(days) =>
                        top_attenders(days)[p] = Cardinality(person_history(p, days))
        /\ LET totals == attendance_summary(days) IN
           /\ SumOf([d \in DOMAIN totals |-> totals[d].total])
                = SumOf([p \in People |-> Cardinality(person_history(p, days))])
           /\ \A d \in DOMAIN totals : occupancy_trend(days)[d] = totals[d].total

\* The two lists of people whose attendance falls do not disagree with the
\* table: everybody on them came less often in the recent window than in the
\* one before, whatever days they missed in both, and nobody who came before
\* and has stopped coming is left out of the at-risk list.
AlertsAreEarned ==
    /\ \A p \in dropped : Recent(p) < Prev(p)
    /\ \A p \in at_risk_persons : RiskRecent(p) < Came(p, UtcAgo(2 * RiskWindow), UtcAgo(RiskWindow))
    /\ \A p \in registered :
          (\E r \in OfPerson(p) : UtcAgo(2 * RiskWindow) <= r.day /\ r.day < UtcAgo(RiskWindow))
          /\ ~(\E r \in OfPerson(p) : r.day >= UtcAgo(RiskWindow))
             => p \in at_risk_persons

\* "Rows of the last n days" means the same days in every report, and the lists
\* drawn from them name people whose rows say so.
ReportsMatchTheTable == WindowsAgree /\ AlertsAreEarned
=============================================================================
