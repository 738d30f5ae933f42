----------------------------- MODULE Positions -----------------------------
(***************************************************************************)
(* Checking in from a phone (app.gps_check_in): is the position plausible  *)
(* (geo.looks_mocked), and does it lie inside one of the branches          *)
(* (geo.inside_site)?  The mark before, the list of branches, the list     *)
(* again when none matched and the log are transactions of their own, with *)
(* other requests and the page of the branches between them.               *)
(*                                                                         *)
(* The earth is a plane with integer coordinates.  A border is a limit of  *)
(* floating point (an epsilon of 1e-12): nothing is claimed about it.      *)
(***************************************************************************)
EXTENDS Integers, Sequences, FiniteSets

CONSTANTS Phones,    \* requests at one time
          Points,    \* positions: <<lat, lng>>
          Names,     \* of branches that may be entered, in the order of the list
          Fence,     \* [name -> fence]: see below
          Speed,     \* 800 km/h, in units of Points per tick
          MaxFixes, MaxEdits, MaxTicks  \* bounds: fixes logged, changes, seconds

VARIABLES branches,  \* table branches: their names
          marks,     \* table gps_marks of one person: where and when
          fixes,     \* [Phones -> a request]
          clock,     \* seconds
          edits      \* changes of branches

vars == <<branches, marks, fixes, clock, edits>>

\* A fence has the polygon as entered (<<>>: none, or no JSON), or a circle
\* (centre <<>>: none); and, for reference, the same region as convex parts that
\* overlap, each with its corners counterclockwise.
Idle == [step |-> "idle", at |-> <<0, 0>>, status |-> "", branch |-> "",
         stayed |-> {}, bare |-> FALSE]
At(t, step) == fixes[t].step = step
Go(t, to) == fixes' = [fixes EXCEPT ![t] = to]

Init ==
    /\ branches = {} /\ marks = {} /\ clock = 0 /\ edits = 0
    /\ fixes = [t \in Phones |-> Idle]

-----------------------------------------------------------------------------
(* geo.py                                                                  *)

Distance2(a, b) == (a[1] - b[1]) * (a[1] - b[1]) + (a[2] - b[2]) * (a[2] - b[2])

\* Of the half-open rule: an edge takes its upper end and not its lower one.
Straddles(a, b, lat) == (a[1] > lat) # (b[1] > lat)

\* lng < (xj - xi) * (lat - yi) / (yj - yi) + xi, without the division
LeftOf(a, b, p) ==
    LET rise == b[1] - a[1]
        here == (p[2] - a[2]) * rise
        edge == (b[2] - a[2]) * (p[1] - a[1])
    IN  IF rise > 0 THEN here < edge ELSE here > edge

point_in_polygon(p, polygon) ==
    LET n == Len(polygon)
        Before(i) == polygon[IF i = 1 THEN n ELSE i - 1]
        crossed == {i \in 1..n : /\ Straddles(polygon[i], Before(i), p[1])
                                 /\ LeftOf(polygon[i], Before(i), p)}
    IN  n >= 3 /\ Cardinality(crossed) % 2 = 1

\* (Mutant of inside_site: a branch without a fence is everywhere.)
inside_unfenced(fence, p) ==
    IF fence.polygon # <<>> THEN point_in_polygon(p, fence.polygon)
    ELSE fence.centre # <<>> => Distance2(p, fence.centre) <= fence.radius * fence.radius

\* A polygon hides the circle.
inside_site(fence, p) ==
    IF fence.polygon # <<>> THEN point_in_polygon(p, fence.polygon)
    ELSE fence.centre # <<>> /\ Distance2(p, fence.centre) <= fence.radius * fence.radius

\* accuracy and mock provider are of the fix; previous is a mark or none.
looks_mocked(p, quality, previous, now) ==
    \/ quality \in {"no accuracy", "too coarse", "mocked"}
    \/ \E m \in previous : LET dt == IF now > m.at THEN now - m.at ELSE 0 IN
          Distance2(p, m.place) > Speed * Speed * dt * dt

-----------------------------------------------------------------------------
\* ORDER BY created_at DESC LIMIT 1: of one second, any.
last_gps_mark ==
    IF marks = {} THEN {{}}
    ELSE {{m} : m \in {x \in marks : \A y \in marks : y.at <= x.at}}

\* ORDER BY name: the places in Names of those that are there.
list_branches == {i \in DOMAIN Names : Names[i] \in branches}

\* The portal session or the PIN is verified first (Channels).
gps_check_in(t, p, quality) ==
    /\ At(t, "idle")
    /\ \E previous \in last_gps_mark :
          LET mocked == looks_mocked(p, quality, previous, clock) IN
          Go(t, [step |-> IF mocked THEN "log" ELSE "match", at |-> p,
                 status |-> IF mocked THEN "mocked" ELSE "", branch |-> "",
                 stayed |-> branches, bare |-> branches = {}])
    /\ UNCHANGED <<branches, marks, clock, edits>>

\* The first branch of the list that the position is inside.
Match(t) ==
    /\ At(t, "match")
    /\ LET found == {i \in list_branches : inside_site(Fence[Names[i]], fixes[t].at)} IN
       \/ found = {} /\ Go(t, [fixes[t] EXCEPT !.step = "again"])
       \/ \E i \in found :
             /\ \A j \in found : i <= j
             /\ Go(t, [fixes[t] EXCEPT !.step = "log", !.status = "accepted", !.branch = Names[i]])
    /\ UNCHANGED <<branches, marks, clock, edits>>

\* No branch matched: outside, or there are none and any position is as good.
Again(t) ==
    /\ At(t, "again")
    /\ Go(t, [fixes[t] EXCEPT !.step = "log",
                 !.status = IF list_branches # {} THEN "outside" ELSE "accepted"])
    /\ UNCHANGED <<branches, marks, clock, edits>>

\* Refused or accepted; after an accepted one the person is marked (Channels).
log_gps_mark(t) ==
    /\ At(t, "log") /\ Cardinality(marks) < MaxFixes
    /\ marks' = marks \cup {[place |-> fixes[t].at, at |-> clock]}
    /\ Go(t, Idle)
    /\ UNCHANGED <<branches, clock, edits>>

-----------------------------------------------------------------------------
Change(to) ==
    /\ edits < MaxEdits /\ edits' = edits + 1
    /\ branches' = to
    /\ fixes' = [t \in Phones |->
          IF At(t, "idle") THEN Idle
          ELSE [fixes[t] EXCEPT !.stayed = @ \cap to, !.bare = @ \/ to = {}]]
    /\ UNCHANGED <<marks, clock>>
add_branch(b) == b \notin branches /\ Change(branches \cup {b})
delete_branch(b) == b \in branches /\ Change(branches \ {b})

Tick ==
    /\ clock < MaxTicks
    /\ clock' = clock + 1
    /\ UNCHANGED <<branches, marks, fixes, edits>>

Next ==
    \/ \E t \in Phones :
          \/ \E p \in Points, q \in {"fine", "no accuracy", "too coarse", "mocked"} :
                gps_check_in(t, p, q)
          \/ Match(t) \/ Again(t) \/ log_gps_mark(t)
    \/ \E b \in DOMAIN Fence : add_branch(b) \/ delete_branch(b)
    \/ Tick

Spec == Init /\ [][Next]_vars

-----------------------------------------------------------------------------
(* What inside means, without casting rays.                                *)

\* On the left of every edge, going round counterclockwise.
Turn(a, b, p) == (b[2] - a[2]) * (p[1] - a[1]) - (b[1] - a[1]) * (p[2] - a[2])
Corner(part, i) == part[IF i = Len(part) THEN 1 ELSE i + 1]
StrictlyInside(b, p) ==
    \/ \E part \in Fence[b].parts :
          \A i \in DOMAIN part : Turn(part[i], Corner(part, i), p) > 0
    \/ /\ Fence[b].parts = {} /\ Fence[b].centre # <<>>
       /\ Distance2(p, Fence[b].centre) < Fence[b].radius * Fence[b].radius
StrictlyOutside(b, p) ==
    /\ \A part \in Fence[b].parts :
          \E i \in DOMAIN part : Turn(part[i], Corner(part, i), p) < 0
    /\ Fence[b].parts = {} /\ Fence[b].centre # <<>> =>
          Distance2(p, Fence[b].centre) > Fence[b].radius * Fence[b].radius

\* gps_check_in, "Find a branch the user is inside", over polygons of any shape
\* and a list that changes between its two readings.  A position accepted for a
\* branch is not outside it; one accepted for none was asked for at a time
\* without branches; and a position is not refused as outside that is inside a
\* branch which was there all along, whatever order the list is in and whatever
\* a ray from the position meets: corners, edges along it, borders that touch.
GeofenceHolds ==
    \A t \in Phones : At(t, "log") =>
        LET f == fixes[t] IN
        /\ f.status = "accepted" =>
              IF f.branch # "" THEN ~StrictlyOutside(f.branch, f.at) ELSE f.bare
        /\ f.status = "outside" => \A b \in f.stayed : ~StrictlyInside(b, f.at)
=============================================================================
