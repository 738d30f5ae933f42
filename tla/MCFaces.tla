------------------------------ MODULE MCFaces ------------------------------
(***************************************************************************)
(* What the system keeps of faces, for TLC: votes and marks of a worker    *)
(* (FramePipeline), its liveness tracker (Liveness), enrolment (Enrolment), *)
(* the removal of a person (Erasure), and the model each worker has in     *)
(* memory (ModelCache).  Each specification below runs one part, with its  *)
(* own fairness (the first runs one of two); the other parts stay as they  *)
(* began.                                                                  *)
(***************************************************************************)
EXTENDS FramePipeline, TLC

CONSTANTS w1, w2, t1, t2,
          Viewers, Faces, BlinkWindow, MotionWindow, Ttl, LastSecond, MaxFrames,
          Folders, Concurrency, NIMGS, MaxEncrypts,
          FolderCount, Crops, MaxRequests, MaxDeletes, MaxFaults,
          MaxPerson, MaxChanges, MaxCrashes

VARIABLES part,
          clock, last, memory, update, seen,                  \* of Liveness
          samples, capture, request, page, known, encrypt,    \* of Enrolment
          deletes, encrypts, crossed,
          others, dirs, files, profile, rows, requests, onDisk, inMemory, \* of Erasure
          sighting, removal, removed, failures, killed, cut,
          faces, modelFile, labelsFile, stamps, recogniser, training,     \* of ModelCache
          changes, deaths, overlapped

L == INSTANCE Liveness
E == INSTANCE Enrolment
R == INSTANCE Erasure WITH thread <- removal, deletes <- removed, crashes <- killed
K == INSTANCE ModelCache WITH worker <- recogniser, thread <- training, crashes <- deaths

OneThread == t1 :> w1
OneThreadEach == t1 :> w1 @@ t2 :> w2
Symmetry == Permutations(Viewers) \cup Permutations(Faces)

tracker == <<clock, last, memory, update, seen>>
enrolment == <<samples, capture, request, page, known, encrypt, deletes, encrypts, crossed>>
erasure == <<others, dirs, files, profile, rows, requests, onDisk, inMemory, sighting,
             removal, removed, failures, killed, cut>>
cache == <<faces, modelFile, labelsFile, stamps, recogniser, training, changes, deaths,
           overlapped>>
all == <<part, vars, tracker, enrolment, erasure, cache>>

\* Every process handles one frame at a time.
ASSUME OneFrameAtATime == \A t, u \in Threads : WorkerOf[t] = WorkerOf[u] => t = u
ASSUME CapturesAssumption ==
    NIMGS \in Nat \ {0} /\ Concurrency \in Nat \ {0} /\ "none" \notin Workers

Begin == Init /\ L!Init /\ E!Init /\ R!Init /\ K!Init

FramesInit == Begin /\ part \in {"votes", "tracker"} /\ ~encrypt /\ ~others
FramesNext ==
    /\ UNCHANGED <<part, enrolment, erasure, cache>>
    /\ \/ part = "votes" /\ Next /\ UNCHANGED tracker
       \/ part = "tracker" /\ L!Next /\ UNCHANGED vars
FramesSpec == FramesInit /\ [][FramesNext]_all

EnrolmentInit == Begin /\ part = "enrolment" /\ ~others
EnrolmentNext == E!Next /\ UNCHANGED <<part, vars, tracker, erasure, cache>>
EnrolmentSpec ==
    EnrolmentInit /\ [][EnrolmentNext]_all /\ E!Fairness

ErasureInit == Begin /\ part = "erasure" /\ ~encrypt
ErasureNext == R!Next /\ UNCHANGED <<part, vars, tracker, enrolment, cache>>
ErasureSpec ==
    ErasureInit /\ [][ErasureNext]_all /\ R!Fairness

CacheInit == Begin /\ part = "cache" /\ ~encrypt /\ ~others
CacheNext == K!Next /\ UNCHANGED <<part, vars, tracker, enrolment, erasure>>
CacheSpec ==
    CacheInit /\ [][CacheNext]_all /\ K!Fairness

LiveIsEarned == L!LiveIsEarned
CropsAreOwn == E!CropsAreOwn
EnrolmentCompletes == E!EnrolmentCompletes
RequestsSettle == R!RequestsSettle
ClosedMeansErased == R!ClosedMeansErased
Forgotten == R!Forgotten
WorkersInStep == K!WorkersInStep
ReloadingSettles == K!ReloadingSettles
=============================================================================
