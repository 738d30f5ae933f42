--------------------------- MODULE FramePipeline ---------------------------
(***************************************************************************)
(* app.process_frame in mode 'recognise': how predictions on single frames *)
(* become attendance marks.  Each accepted prediction is a vote for a      *)
(* person; enough votes inside a sliding window confirm the identity; then *)
(* liveness, mask and PPE gates, and a cooldown, decide about a mark.      *)
(*                                                                         *)
(* The buffers (_vote_buffer, _recent_marks, _capture_mode)               *)
(* are module globals: one copy for each worker process, shared without a  *)
(* lock by the threads of the process.  A frame is one request (the        *)
(* browser camera) or one turn of gen_frames' loop (the server camera).    *)
(***************************************************************************)
EXTENDS Integers, Sequences, FiniteSets, SequencesExt, FiniteSetsExt

CONSTANTS Persons, Workers, Threads,
          WorkerOf,      \* the process of a thread
          Window,        \* CROWD_VOTE_WINDOW
          VotesNeeded,   \* CROWD_VOTES_NEEDED
          MaxVotes,      \* maxlen of a vote deque
          Cooldown,      \* CROWD_MARK_COOLDOWN
          MaxFaces,      \* bound: faces predicted as one person in a frame
          MaxTime,       \* bound: instants are 0..MaxTime
          MaxRestarts    \* bound: worker processes that restart

ASSUME PipelineAssumption ==
    /\ WorkerOf \in [Threads -> Workers]
    /\ VotesNeeded \in 1..MaxVotes
    /\ {MaxVotes, Window, Cooldown, MaxTime, MaxFaces} \subseteq Nat
    /\ IsFiniteSet(Workers) /\ IsFiniteSet(Persons)

VARIABLES time,      \* time.time()
          worker,    \* [Workers -> its buffers]
          frame,     \* [Threads -> the frame in process_frame]
          marks,     \* history: [Persons -> [instants -> marks of frames of then]]
          glimpses,  \* history: [Workers -> [Persons -> [instants -> faces
                     \* accepted then, counted up to VotesNeeded, since the
                     \* buffers were last emptied]]]
          restarts

vars == <<time, worker, frame, marks, glimpses, restarts>>

Times == 0..MaxTime
Never == -1  \* _recent_marks.get(pid, 0): longer ago than any cooldown

EmptyBuffers == [mode |-> "none", votes |-> [p \in Persons |-> <<>>],
                 recent |-> [p \in Persons |-> Never]]

NoGlimpses == [p \in Persons |-> [i \in Times |-> 0]]

\* One face of a frame: the person predicted, and which of several it is.
Face == Persons \X (1..MaxFaces)
NoFrame == [step |-> "idle", now |-> 0, faces |-> {}, face |-> <<>>]

At(t, step) == frame[t].step = step
Whom(t) == frame[t].face[1]
Buf(t) == worker[WorkerOf[t]]

-----------------------------------------------------------------------------
Init ==
    /\ time = 0
    /\ worker = [w \in Workers |-> EmptyBuffers]
    /\ frame = [t \in Threads |-> NoFrame]
    /\ marks = [p \in Persons |-> [i \in Times |-> 0]]
    /\ glimpses = [w \in Workers |-> NoGlimpses]
    /\ restarts = 0

\* deque(maxlen).append, n times.
Vote(votes, now, n) ==
    LET all == votes \o [i \in 1..n |-> now] IN
    SubSeq(all, Len(all) - Min({MaxVotes, Len(all)}) + 1, Len(all))

\* Steps 1 of the pipeline: predict every face, grow the vote buffers.  The
\* server camera's loop does this only in mode 'recognise' of its own process;
\* the browser's request carries its mode.
Predict(t, camera, faces) ==
    LET count == [p \in Persons |-> Cardinality({f \in faces : f[1] = p})] IN
    /\ At(t, "idle")
    /\ camera = "server" => Buf(t).mode = "recognise"
    /\ frame' = [frame EXCEPT ![t] = [step |-> "prune", now |-> time,
                                      faces |-> faces, face |-> <<>>]]
    /\ worker' = [worker EXCEPT ![WorkerOf[t]].votes =
                     [p \in Persons |-> Vote(@[p], time, count[p])]]
    /\ glimpses' = [glimpses EXCEPT ![WorkerOf[t]] =
                     [p \in Persons |-> [@[p] EXCEPT ![time] =
                        Min({VotesNeeded, glimpses[WorkerOf[t]][p][time] + count[p]})]]]
    /\ UNCHANGED <<time, marks, restarts>>

\* (Mutant of Prune: votes are never forgotten.)
PruneNothing(t) ==
    /\ At(t, "prune")
    /\ frame' = [frame EXCEPT ![t].step = "face"]
    /\ UNCHANGED <<time, worker, marks, glimpses, restarts>>

\* popleft, while the oldest vote is older than the cutoff.
Popped(ts, cutoff) ==
    SubSeq(ts, Min({k \in DOMAIN ts : ts[k] >= cutoff} \cup {Len(ts) + 1}), Len(ts))

\* Step 2: pop the votes older than the window.
Prune(t) ==
    /\ At(t, "prune")
    /\ worker' = [worker EXCEPT ![WorkerOf[t]].votes =
                     [p \in Persons |-> Popped(@[p], frame[t].now - Window)]]
    /\ frame' = [frame EXCEPT ![t].step = "face"]
    /\ UNCHANGED <<time, marks, glimpses, restarts>>

CooledDown(t, p) == Buf(t).recent[p] = Never
                    \/ frame[t].now - Buf(t).recent[p] > Cooldown

LookedAt(t, f, marked) ==
    [step |-> IF marked THEN "mark" ELSE "face", now |-> frame[t].now,
     faces |-> frame[t].faces \ {f}, face |-> f]

\* (Mutant of Decide: the cooldown is not looked at.)
DecideAlways(t, f, live, gear) ==
    /\ At(t, "face") /\ f \in frame[t].faces
    /\ frame' = [frame EXCEPT ![t] = LookedAt(t, f,
                     gear /\ live /\ Len(Buf(t).votes[f[1]]) >= VotesNeeded)]
    /\ UNCHANGED <<time, worker, marks, glimpses, restarts>>

\* Step 3, a face: enough votes, the mask and PPE gates (`gear`; they continue
\* with the next face), cooldown and liveness (`live`) lead to a mark.
Decide(t, f, live, gear) ==
    LET confirmed == Len(Buf(t).votes[f[1]]) >= VotesNeeded IN
    /\ At(t, "face") /\ f \in frame[t].faces
    /\ frame' = [frame EXCEPT ![t] =
                     LookedAt(t, f, confirmed /\ gear /\ live /\ CooledDown(t, f[1]))]
    /\ UNCHANGED <<time, worker, marks, glimpses, restarts>>

\* mark_attendance and what follows it in the try block; an exception is
\* logged and goes the same way.
Mark(t) ==
    /\ At(t, "mark")
    /\ marks' = [marks EXCEPT ![Whom(t)][frame[t].now] = @ + 1]
    /\ frame' = [frame EXCEPT ![t].step = "record"]
    /\ UNCHANGED <<time, worker, glimpses, restarts>>

\* _recent_marks[pid] = now_ts (and the flash, which is drawn only).
Record(t) ==
    /\ At(t, "record")
    /\ worker' = [worker EXCEPT ![WorkerOf[t]].recent[Whom(t)] = frame[t].now]
    /\ frame' = [frame EXCEPT ![t].step = "face"]
    /\ UNCHANGED <<time, marks, glimpses, restarts>>

\* Every face has been looked at: the frame is done.
EndFrame(t) ==
    /\ At(t, "face") /\ frame[t].faces = {}
    /\ frame' = [frame EXCEPT ![t] = NoFrame]
    /\ UNCHANGED <<time, worker, marks, glimpses, restarts>>

\* /start_recognise and /stop_capture reach one worker.
SetMode(w, mode) ==
    /\ worker' = [worker EXCEPT ![w] =
                     [mode |-> mode, votes |-> EmptyBuffers.votes, recent |-> worker[w].recent]]
    /\ glimpses' = [glimpses EXCEPT ![w] = NoGlimpses]
    /\ UNCHANGED <<time, frame, marks, restarts>>

\* A worker dies and is replaced: its buffers start empty.
Restart(w) ==
    /\ restarts < MaxRestarts
    /\ restarts' = restarts + 1
    /\ worker' = [worker EXCEPT ![w] = EmptyBuffers]
    /\ glimpses' = [glimpses EXCEPT ![w] = NoGlimpses]
    /\ frame' = [t \in Threads |-> IF WorkerOf[t] = w THEN NoFrame ELSE frame[t]]
    /\ UNCHANGED <<time, marks>>

Tick ==
    /\ time < MaxTime
    /\ time' = time + 1
    /\ UNCHANGED <<worker, frame, marks, glimpses, restarts>>

Next ==
    \/ Tick
    \/ \E w \in Workers : Restart(w) \/ \E mode \in {"none", "recognise"} : SetMode(w, mode)
    \/ \E t \in Threads :
          \/ \E camera \in {"server", "browser"}, faces \in SUBSET Face :
                faces # {} /\ Predict(t, camera, faces)
          \/ Prune(t) \/ Mark(t) \/ Record(t) \/ EndFrame(t)
          \/ \E f \in Face, live, gear \in BOOLEAN : Decide(t, f, live, gear)

Spec == Init /\ [][Next]_vars

-----------------------------------------------------------------------------
(* Properties.                                                             *)

\* How many a history counts at the instants from..from + length.
InWindow(history, from, length) ==
    Cardinality(UNION {{i} \X (1..history[i]) : i \in {j \in Times : from <= j /\ j <= from + length}})

\* "An identity is confirmed only when it accumulates 3 hits inside that window"
\* (build_docs.py): when a frame decides to mark a person, its own worker has seen
\* that person VotesNeeded times inside one window no older than the frame's, and
\* since its buffers were last emptied.  (One frame at a time in a worker.)
MarksHaveVotes ==
    [][\A t \in Threads :
         At(t, "face") /\ frame'[t].step = "mark" =>
            \E from \in Times :
               /\ from >= frame[t].now - Window
               /\ VotesNeeded <= InWindow(glimpses[WorkerOf[t]][frame'[t].face[1]],
                                         from, Window)]_frame

\* "an 8-second cooldown prevents re-marking" (build_docs.py), as far as buffers
\* that belong to a process can: inside a cooldown a person is marked at most once
\* by every worker process that was alive in it, the failed marks included,
\* however often the modes are switched.  (One frame at a time in a worker.)
MarksAreSpaced ==
    \A p \in Persons, from \in Times :
        InWindow(marks[p], from, Cooldown) <= Cardinality(Workers) + restarts
=============================================================================
