------------------------------ MODULE Channels ------------------------------
(***************************************************************************)
(* The ways to be marked other than the camera: the kiosk's PIN, QR code   *)
(* and card, the phone's position, the buttons of the dashboard, the REST  *)
(* API, and the passive signals of enterprise/presence.py, which add up to *)
(* a check-in once those of a day reach a threshold.                       *)
(*                                                                         *)
(* A request verifies what it was given, then marks, in transactions of    *)
(* their own.  A signal is logged, the signals of the day are summed, and  *)
(* only then the person is marked: three transactions that other threads,  *)
(* midnight and the end of a process come between.  date(seen_at) is the   *)
(* local date, date('now') is the date in UTC.  mark_attendance is one     *)
(* step here (Attendance has its own); the webhooks that some of these     *)
(* routes call afterwards are in Deliveries.                               *)
(***************************************************************************)
EXTENDS Integers, FiniteSetsExt

CONSTANTS People, Threads,
          Zones,      \* UTC date - local date: -1, 0, 1
          Threshold,  \* setting presence_threshold, in twentieths
          LastDay,    \* bound: days 1..LastDay
          MaxSignals, \* bound: signals logged
          MaxCrashes  \* bound: worker processes that die

VARIABLES today,      \* local date
          zone,
          registered, \* table persons
          linked,     \* persons with a PIN, a QR secret, a card
          portal,     \* persons signed in to the portal
          rows,       \* table attendance: how the row came to be
          signals,    \* table presence_signals: [person, day -> SUM(score)]
          logged,     \* rows of it
          request,    \* [Threads -> where a request is]
          crossed,    \* history: [person, day] of a signal whose request met midnight
          crashes

vars == <<today, zone, registered, linked, portal, rows, signals, logged, request, crossed, crashes>>

Days == 1..LastDay
Kinds == {"pin", "qr", "rfid"}
Idle == [step |-> "idle", who |-> "", score |-> 0, day |-> 0]
At(t, step) == request[t].step = step
Who(t) == request[t].who
Go(t, to) == request' = [request EXCEPT ![t] = to]
Step(t, step) == Go(t, [request[t] EXCEPT !.step = step])

register == <<registered, linked, portal>>
log == <<signals, logged>>
world == <<today, zone, crossed, crashes>>

Init ==
    /\ today = 1 /\ zone \in Zones
    /\ registered = People /\ portal = {}
    /\ linked = [k \in Kinds |-> {}]
    /\ rows = [p \in People |-> [d \in Days |-> "none"]]
    /\ signals = [p \in People |-> [d \in Days |-> 0]] /\ logged = 0
    /\ crossed = {} /\ crashes = 0
    /\ request = [t \in Threads |-> Idle]

-----------------------------------------------------------------------------
(* The register.                                                           *)

\* set_person_pin, rotate_qr_secret and set_person_rfid are UPDATEs: nothing
\* happens to a person who is not registered.
Link(p, k) ==
    /\ p \in registered
    /\ linked' = [linked EXCEPT ![k] = @ \cup {p}]
    /\ UNCHANGED <<world, registered, portal, rows, log, request>>
set_pin(p) == Link(p, "pin")
rotate_qr(p) == Link(p, "qr")
set_rfid(p) == Link(p, "rfid")

verify_person_pin(p) == p \in linked["pin"]
verify_qr_secret(p) == p \in linked["qr"]
find_person_by_rfid(p) == p \in linked["rfid"]

\* The session is a cookie: it outlives the PIN and the person.
portal_login(p) ==
    /\ verify_person_pin(p)
    /\ portal' = portal \cup {p}
    /\ UNCHANGED <<world, registered, linked, rows, log, request>>
portal_logout(p) ==
    /\ p \in portal
    /\ portal' = portal \ {p}
    /\ UNCHANGED <<world, registered, linked, rows, log, request>>

\* DELETE FROM persons: rows and signals stay.  Somebody registered under the
\* id again has no PIN, QR code or card; somebody who is registered keeps them.
Forget(p) ==
    /\ registered' = registered \ {p}
    /\ linked' = [k \in Kinds |-> linked[k] \ {p}]
    /\ UNCHANGED <<world, portal, rows, log, request>>
upsert_person(p) ==
    /\ registered' = registered \cup {p}
    /\ UNCHANGED <<world, linked, portal, rows, log, request>>
delete_person(p) == p \in registered /\ Forget(p)
create_person(p) == p \notin registered /\ upsert_person(p)

\* The company's directory (SCIM), with the token of a client: it creates, which
\* updates whoever is there, removes, and removes by declaring inactive.
users_create(p) == upsert_person(p)
users_delete(p) == Forget(p)
users_patch(p) == \E active \in BOOLEAN :
    p \in registered /\ IF active THEN upsert_person(p) ELSE Forget(p)

-----------------------------------------------------------------------------
(* The requests that mark.                                                 *)

Begin(t, p, step) ==
    /\ At(t, "idle")
    /\ Go(t, [Idle EXCEPT !.step = step, !.who = p])
    /\ UNCHANGED <<register, world, rows, log>>

kiosk_pin(t, p) == verify_person_pin(p) /\ Begin(t, p, "mark")
kiosk_qr(t, p) == verify_qr_secret(p) /\ Begin(t, p, "mark")
kiosk_rfid(t, p) == find_person_by_rfid(p) /\ Begin(t, p, "mark")
\* Whether the position is plausible and inside a site is an input (Positions).
\* In a portal session the PIN is not asked for.
gps_check_in(t, p) == (portal # {} \/ verify_person_pin(p)) /\ Begin(t, p, "mark")
\* Neither the dashboard nor the API asks whether the person is registered.
manual_mark(t, p) == Begin(t, p, "mark")
check_in(t, p) == Begin(t, p, "mark")
\* manual_check_out inserts a row when there is none.
check_out(t, p) == Begin(t, p, "mark")

\* The network controller, the gateway or the calendar reports a person, whose
\* registration is not looked up either; a network that is not the company's,
\* an inactive session, and there the request ends.
Ingest(t, p, score) ==
    /\ At(t, "idle")
    /\ Go(t, [step |-> "log", who |-> p, score |-> score, day |-> 0])
    /\ UNCHANGED <<register, world, rows, log>>
presence_wifi(t, p) == Ingest(t, p, 8)
presence_vpn(t, p) == Ingest(t, p, 7)
presence_calendar(t, p) == \E branch_hit \in BOOLEAN :
    Ingest(t, p, IF branch_hit THEN 10 ELSE 3)

log_presence(t) ==
    /\ At(t, "log") /\ logged < MaxSignals
    /\ signals' = [signals EXCEPT ![Who(t)][today] = @ + request[t].score]
    /\ logged' = logged + 1
    /\ Go(t, [request[t] EXCEPT !.step = "sum", !.day = today])
    /\ UNCHANGED <<register, world, rows>>

\* (Mutant of SumOf: the signals of every day.)
SumOfAll(p, utc) == MapThenSumSet(LAMBDA d : signals[p][d], Days)
\* SELECT SUM(score) ... WHERE person_id = ? AND date(seen_at) = date('now')
SumOf(p, utc) == IF utc \in Days THEN signals[p][utc] ELSE 0

maybe_mark(t) ==
    /\ At(t, "sum")
    /\ IF SumOf(Who(t), today + zone) < Threshold THEN Go(t, Idle)
       ELSE Step(t, "credit")
    /\ UNCHANGED <<register, world, rows, log>>

\* mark_attendance, or manual_check_out: the first of a day makes the row, under
\* the date of this moment; later ones move the check-out at most.
mark_attendance(t) ==
    /\ At(t, "mark") \/ At(t, "credit")
    /\ rows' = [rows EXCEPT ![Who(t)][today] =
            IF @ # "none" THEN @
            ELSE IF At(t, "mark") THEN "shown"
            ELSE IF request[t].day = today THEN "credited" ELSE "late"]
    /\ Go(t, Idle)
    /\ UNCHANGED <<register, world, log>>

-----------------------------------------------------------------------------
Signalling(t) == At(t, "sum") \/ At(t, "credit")
Lost(ts) == {<<Who(t), request[t].day>> : t \in {u \in ts : Signalling(u)}}

Midnight ==
    /\ today < LastDay
    /\ today' = today + 1
    /\ crossed' = crossed \cup Lost(Threads)
    /\ UNCHANGED <<register, zone, crashes, rows, log, request>>

\* The process of every thread dies and is replaced.
Crash ==
    /\ crashes < MaxCrashes
    /\ crashes' = crashes + 1
    /\ crossed' = crossed \cup Lost(Threads)
    /\ request' = [t \in Threads |-> Idle]
    /\ UNCHANGED <<register, today, zone, rows, log>>

\* The register and the requests that rest on it.
Kiosk ==
    \E p \in People :
       \/ set_pin(p) \/ rotate_qr(p) \/ set_rfid(p) \/ portal_login(p)
       \/ portal_logout(p) \/ delete_person(p) \/ create_person(p)
       \/ users_create(p) \/ users_patch(p) \/ users_delete(p)
       \/ \E t \in Threads : kiosk_pin(t, p) \/ kiosk_qr(t, p)
                             \/ kiosk_rfid(t, p) \/ gps_check_in(t, p)
\* Those that do not ask who is registered.
Open ==
    \E p \in People, t \in Threads :
       \/ manual_mark(t, p) \/ check_in(t, p) \/ check_out(t, p)
       \/ presence_wifi(t, p) \/ presence_vpn(t, p) \/ presence_calendar(t, p)
Progress ==
    \/ Midnight \/ Crash
    \/ \E t \in Threads : log_presence(t) \/ maybe_mark(t) \/ mark_attendance(t)

Next == Kiosk \/ Open \/ Progress

PSpec == Init /\ [][Next]_vars

-----------------------------------------------------------------------------
(* Properties.                                                             *)

InFlight(p, d) ==
    \E t \in Threads : Signalling(t) /\ Who(t) = p /\ request[t].day = d

\* "If today's total presence score >= threshold, mark attendance" (maybe_mark),
\* both ways.  Where UTC has the local date, a day whose signals reach the
\* threshold has a row, however many of them arrive at once, none of which is
\* enough, unless the last request met midnight or the end of its process.  A
\* day that is credited to signals has reached it; elsewhere (and that is not
\* what the docstring says) the day of UTC has.
SignalsMarkTheDay ==
    \A p \in People, d \in Days :
        /\ /\ zone = 0 /\ signals[p][d] >= Threshold
           /\ ~InFlight(p, d) /\ <<p, d>> \notin crossed
           => rows[p][d] # "none"
        /\ rows[p][d] = "credited" =>
              d + zone \in Days /\ signals[p][d + zone] >= Threshold
=============================================================================
