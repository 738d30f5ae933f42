------------------------------ MODULE Liveness ------------------------------
(***************************************************************************)
(* liveness.LivenessTracker, one for a worker process and without a lock:  *)
(* what it remembers of a face from one frame to the next, the verdict of  *)
(* update, and _prune, which walks over a dictionary that other threads    *)
(* add faces to.  Eyes and boxes are inputs; texture strikes are left out. *)
(***************************************************************************)
EXTENDS Integers, Sequences, FiniteSets

CONSTANTS Viewers, Faces,
          BlinkWindow,   \* BLINK_WINDOW_SEC
          MotionWindow,  \* MOTION_WINDOW_SEC
          Ttl,           \* _prune's ttl
          LastSecond,       \* bound: seconds
          MaxFrames      \* bound: updates

VARIABLES clock,
          last,     \* _last_seen: the faces it has are those in its domain
          memory,   \* [Faces -> _eye_state, _blinks, _bboxes]
          update,   \* [Viewers -> the update in progress or just returned]
          seen      \* history: the sightings, in their order

lvars == <<clock, last, memory, update, seen>>

Times == 0..LastSecond
Eyes == {"open", "closed", "unclear"}
Positions == {0, 1}  \* two boxes MOTION_MIN_PX apart
Nothing == [eye |-> "open", blinks |-> {}, boxes |-> {}]
Off == [step |-> "off", face |-> "", now |-> 0, eye |-> "unclear",
        size |-> 0, stale |-> {}, live |-> FALSE]
At(t, step) == update[t].step = step
Face(t) == update[t].face
Now(t) == update[t].now
Go(t, to) == update' = [update EXCEPT ![t] = to]

Init ==
    /\ clock = 0 /\ seen = <<>>
    /\ last = [f \in {} |-> 0]
    /\ memory = [f \in Faces |-> Nothing]
    /\ update = [t \in Viewers |-> Off]

Second ==
    /\ clock < LastSecond
    /\ clock' = clock + 1
    /\ UNCHANGED <<last, memory, update, seen>>

\* update up to the walk of _prune: the face itself is never stale there.
Sight(t, f, eye, pos) ==
    /\ At(t, "off") /\ Len(seen) < MaxFrames
    /\ last' = [g \in DOMAIN last \cup {f} |-> IF g = f THEN clock ELSE last[g]]
    /\ memory' = [memory EXCEPT ![f].boxes = @ \cup {<<clock, pos>>}]
    /\ seen' = Append(seen, [face |-> f, at |-> clock, eye |-> eye, pos |-> pos])
    /\ Go(t, [Off EXCEPT !.step = "walk", !.face = f, !.now = clock, !.eye = eye,
                         !.size = Cardinality(DOMAIN last \cup {f})])
    /\ UNCHANGED clock

\* The list comprehension over _last_seen.items(): a face that another thread
\* adds, or removes, on the way raises, and the frame is lost.
Walk(t) ==
    /\ At(t, "walk")
    /\ \/ /\ Cardinality(DOMAIN last) = update[t].size
          /\ Go(t, [update[t] EXCEPT !.step = "prune",
                       !.stale = {f \in DOMAIN last : Now(t) - last[f] > Ttl}])
       \/ /\ Cardinality(DOMAIN last) # update[t].size
          /\ Go(t, Off)
    /\ UNCHANGED <<clock, last, memory, seen>>

\* reset(k), though k may have been seen again since the walk.
Reset(t, f) ==
    /\ At(t, "prune") /\ f \in update[t].stale
    /\ last' = [g \in DOMAIN last \ {f} |-> last[g]]
    /\ memory' = [memory EXCEPT ![f] = Nothing]
    /\ Go(t, [update[t] EXCEPT !.stale = @ \ {f}])
    /\ UNCHANGED <<clock, seen>>

\* (Mutant of Blinks: open eyes are a blink, whatever was seen before.)
BlinksOpen(eye, was) == eye = "open"
Blinks(eye, was) == eye = "open" /\ was = "closed"

Blink(t) ==
    /\ At(t, "prune") /\ update[t].stale = {}
    /\ LET was == memory[Face(t)]
           eye == update[t].eye
       IN  memory' = [memory EXCEPT ![Face(t)] =
              [eye |-> IF eye = "unclear" THEN was.eye ELSE eye,
               blinks |-> was.blinks \cup (IF Blinks(eye, was.eye) THEN {Now(t)} ELSE {}),
               boxes |-> was.boxes]]
    /\ Go(t, [update[t] EXCEPT !.step = "judge"])
    /\ UNCHANGED <<clock, last, seen>>

\* What another thread's reset has emptied since counts as never seen.
blink_ok(t) == \E b \in memory[Face(t)].blinks : b >= Now(t) - BlinkWindow
motion_ok(t) ==
    \E a, b \in memory[Face(t)].boxes :
        a[1] >= Now(t) - MotionWindow /\ b[1] >= Now(t) - MotionWindow /\ a[2] # b[2]

Judge(t) ==
    /\ At(t, "judge")
    /\ Go(t, [update[t] EXCEPT !.step = "judged", !.live = blink_ok(t) /\ motion_ok(t)])
    /\ UNCHANGED <<clock, last, memory, seen>>
Return(t) == At(t, "judged") /\ Go(t, Off) /\ UNCHANGED <<clock, last, memory, seen>>

Next ==
    \/ Second
    \/ \E t \in Viewers :
          \/ \E f \in Faces, eye \in Eyes, pos \in Positions : Sight(t, f, eye, pos)
          \/ Walk(t) \/ Blink(t) \/ Judge(t) \/ Return(t)
          \/ \E f \in Faces : Reset(t, f)

LSpec == Init /\ [][Next]_lvars

-----------------------------------------------------------------------------
\* A face is found live only on what was seen of that face: it has closed its
\* eyes, opened them no longer ago than a blink counts and moved within the motion
\* window, whatever faces came between, were forgotten on the way, or made another
\* thread's frame fail.
LiveIsEarned ==
    \A t \in Viewers : At(t, "judged") /\ update[t].live =>
        LET own == {i \in DOMAIN seen : seen[i].face = Face(t)}
            since(i, length) == seen[i].at >= Now(t) - length
        IN  /\ \E i, j \in own : /\ seen[i].eye = "closed" /\ seen[j].eye = "open"
                                 /\ since(j, BlinkWindow)
            /\ \E i, j \in own : /\ seen[i].pos # seen[j].pos
                                 /\ since(i, MotionWindow) /\ since(j, MotionWindow)
=============================================================================
