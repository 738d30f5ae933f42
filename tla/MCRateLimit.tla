---------------------------- MODULE MCRateLimit ----------------------------
(* RateLimit for TLC, and what comes in from outside.  A behaviour is one   *)
(* of five parts: the limiter; the requests that rest on the register, and  *)
(* those that do not (Channels); the position of a phone (Positions); the   *)
(* frames of an exam of one person, in which a tick is 30 s (ExamMode).     *)
(* What a part does not use stays as it began.                              *)
EXTENDS RateLimit, TLC

CONSTANTS People, Zones, Threshold, LastDay, MaxSignals, MaxCrashes,
          Phones, Points, Names, Fence, Speed, MaxFixes, MaxEdits, MaxTicks,  \* of Positions
          w1, c1, Persons, Workers, Cameras, Exams, Hours,
          CheckEvery, Grace, ImposterGap, LastTick, MaxFaults  \* of ExamMode

VARIABLES part,
          today, zone, registered, linked, portal, rows, signals, logged,
          request, crossed, crashes,             \* of Channels
          branches, marks, fixes, clock, edits,  \* of Positions
          tick, ended, seen, lastCheck, alerted, imposter, thread, alerts,
          sighted, framed, missed, fails, restarts  \* of ExamMode

C == INSTANCE Channels
P == INSTANCE Positions
X == INSTANCE ExamMode WITH
        now <- tick, MaxTime <- LastTick, Window <- Hours,
        Threads <- Cameras, WorkerOf <- [c \in Cameras |-> w1]

Two == [k \in Keys |-> 2]
EveryZone == -1..1
\* An exam that lasts from the first moment on.
AllAlong == <<<<CheckEvery + Grace + ImposterGap + 1, LastTick>>>>
Symmetry == Permutations(Threads) \cup Permutations(Keys)
channels == <<today, zone, registered, linked, portal, rows, signals, logged,
              request, crossed, crashes>>

positions == <<branches, marks, fixes, clock, edits>>

\* Branches on a grid: an L with a closed polygon (whose circle is hidden), a
\* square on its tip, a wedge, a circle, and one without a fence.
Grid == (0..4) \X (0..4)
NamesInOrder == <<"annex", "hall", "kite", "ring", "wedge">>
Circle(centre, radius) == [polygon |-> <<>>, centre |-> centre, radius |-> radius, parts |-> {}]
Polygon(corners, parts) == [Circle(<<4, 4>>, 1) EXCEPT !.polygon = corners, !.parts = parts]
Fences == [
    annex |-> Circle(<<>>, 0),
    hall |-> Polygon(<<<<0, 0>>, <<4, 0>>, <<4, 2>>, <<2, 2>>, <<2, 4>>, <<0, 4>>, <<0, 0>>>>,
                     {<<<<0, 0>>, <<0, 2>>, <<4, 2>>, <<4, 0>>>>,
                      <<<<0, 0>>, <<0, 4>>, <<2, 4>>, <<2, 0>>>>}),
    kite |-> Polygon(<<<<0, 2>>, <<2, 4>>, <<4, 2>>, <<2, 0>>>>,
                     {<<<<0, 2>>, <<2, 4>>, <<4, 2>>, <<2, 0>>>>}),
    ring |-> Circle(<<2, 2>>, 2),
    wedge |-> Polygon(<<<<4, 1>>, <<1, 4>>, <<0, 0>>>>,
                      {<<<<0, 0>>, <<1, 4>>, <<4, 1>>>>})]

exam == <<tick, ended, seen, lastCheck, alerted, imposter, thread, alerts,
          sighted, framed, missed, fails, restarts>>

ASSUME ChannelsAssumption == Threshold \in Nat \ {0} /\ LastDay \in Nat \ {0} /\ Zones \subseteq Int

\* The list names every branch there can be; a fence without a polygon is a
\* circle or nothing.
ASSUME FenceAssumption ==
    /\ Names \in Seq(DOMAIN Fence) /\ "" \notin DOMAIN Fence
    /\ \A b \in DOMAIN Fence : \E i \in DOMAIN Names : Names[i] = b
    /\ Points \subseteq Int \X Int
    /\ \A b \in DOMAIN Fence :
          /\ Fence[b].polygon = <<>> => Fence[b].parts = {}
          /\ Fence[b].centre # <<>> => Fence[b].centre \in Int \X Int /\ Fence[b].radius \in Int

\* Casting rays at a polygon agrees with the regions it stands for.
ASSUME RaysAgree ==
    \A b \in DOMAIN Fence, p \in Points :
        Fence[b].polygon # <<>> =>
            /\ P!StrictlyInside(b, p) => P!inside_site(Fence[b], p)
            /\ P!inside_site(Fence[b], p) => ~P!StrictlyOutside(b, p)

\* One camera, of one worker.
ASSUME ExamAssumption ==
    /\ Cameras = {c1} /\ Workers = {w1}
    /\ CheckEvery \in Nat /\ Grace \in Nat /\ ImposterGap \in Nat

\* Exams do not overlap and begin when the clock does, or later; an interval of 0
\* is taken as the default (exam_mode.observe).
ASSUME HoursAssumption ==
    /\ CheckEvery # 0
    /\ \A e \in Exams : Hours[e] \in Int \X Int /\ Hours[e][1] >= X!Epoch
    /\ \A e, f \in Exams : e # f => Hours[e][2] < Hours[f][1] \/ Hours[f][2] < Hours[e][1]

MCInit ==
    /\ part \in {"limit", "kiosk", "signals", "position", "exam"}
    /\ Init /\ C!Init /\ P!Init /\ X!Init
    /\ part # "signals" => zone = 0
MCNext ==
    /\ UNCHANGED part
    /\ \/ part = "limit" /\ Next /\ UNCHANGED <<channels, positions, exam>>
       \/ part = "position" /\ P!Next /\ UNCHANGED <<vars, channels, exam>>
       \/ part = "exam" /\ X!Next /\ UNCHANGED <<vars, channels, positions>>
       \/ /\ UNCHANGED <<vars, positions, exam>>
          /\ \/ part = "kiosk" /\ C!Kiosk
             \/ part = "signals" /\ C!Open
             \/ part \in {"kiosk", "signals"} /\ C!Progress
MCSpec == MCInit /\ [][MCNext]_<<part, vars, channels, positions, exam>>

SignalsMarkTheDay == C!SignalsMarkTheDay
GeofenceHolds == P!GeofenceHolds
AlertsAreTrueOnce == X!AlertsAreTrueOnce
AbsenteesAreReported == X!AbsenteesAreReported
============================================================================
