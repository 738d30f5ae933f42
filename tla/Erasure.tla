------------------------------ MODULE Erasure ------------------------------
(***************************************************************************)
(* Removing one person: /privacy/erase and /deleteuser take the files, the *)
(* profile picture, the rows and the trained model one after the other,    *)
(* while other requests do the same and cameras go on marking attendance.  *)
(* A training run is one step here (ModelCache has its steps), and the     *)
(* recogniser is LBPH.                                                     *)
(***************************************************************************)
EXTENDS Integers, Sequences, FiniteSets

CONSTANTS FolderCount,    \* the person's folders are 1..FolderCount, in the order
                          \* os.listdir gives
          Crops,          \* files a folder begins with
          Threads, Workers, WorkerOf,
          MaxRequests, MaxDeletes, \* bounds: calls of the two routes
          MaxFaults       \* bound: writes that raise, and workers that die

FaceFolders == 1..FolderCount

\* The tables of fulfil_erasure; "other" is consents, gps_marks, leave_requests
\* and site_muster.
Erased == {"persons", "attendance", "session_attendance", "other"}

VARIABLES others,       \* whether there are other people's crops (fixed at Init)
          dirs, files,  \* the folders there are, and their files
          profile,      \* whether the picture is there
          rows,         \* the tables with rows on the person
          requests,     \* erasure_requests: a sequence of "open" / "fulfilled"
          onDisk,       \* whether the model on disk knows the person
          inMemory,     \* the workers whose model does
          sighting,     \* workers about to mark a recognised face
          thread,       \* [Threads -> its place in a removal]
          deletes, failures, crashes,
          cut           \* history: a worker died between the rows and the training

vars == <<others, dirs, files, profile, rows, requests, onDisk, inMemory, sighting, thread,
          deletes, failures, crashes, cut>>
disk == <<dirs, files, profile>>
model == <<onDisk, inMemory>>
bounds == <<deletes, failures, crashes, cut>>

\* Of a removal: the folders to go through, and the files found in the first.
Idle == [kind |-> "none", step |-> "idle", todo |-> {}, left |-> {}]
At(t, step) == thread[t].step = step
IsNext(t, d) == d \in thread[t].todo /\ \A e \in thread[t].todo : d <= e
Go(t, step) == thread' = [thread EXCEPT ![t].step = step]
Raise(t) == thread' = [thread EXCEPT ![t] = Idle]

HasCrops == \E d \in dirs : files[d] # {}
IsTrained == others \/ onDisk

-----------------------------------------------------------------------------
Init ==
    /\ others \in BOOLEAN
    /\ dirs = FaceFolders /\ files = [d \in FaceFolders |-> Crops] /\ profile = TRUE
    /\ rows = Erased
    /\ requests = <<>>
    /\ onDisk = TRUE /\ inMemory = Workers /\ sighting = {}
    /\ thread = [t \in Threads |-> Idle]
    /\ deletes = 0 /\ failures = 0 /\ crashes = 0 /\ cut = FALSE

\* request_erasure
Erase(t) ==
    /\ At(t, "idle") /\ Len(requests) < MaxRequests
    /\ requests' = Append(requests, "open")
    /\ thread' = [thread EXCEPT ![t] = [kind |-> "erase", step |-> "list", todo |-> {}, left |-> {}]]
    /\ UNCHANGED <<others, disk, rows, model, sighting, bounds>>

\* The next folder of the loop, or what follows it.
Walk(t, todo) ==
    thread' = [thread EXCEPT ![t] = [kind |-> thread[t].kind, todo |-> todo, left |-> {},
                                     step |-> IF todo = {} THEN "profile" ELSE "open"]]

ListFaces(t) ==
    /\ At(t, "list")
    /\ Walk(t, dirs)
    /\ UNCHANGED <<others, disk, rows, requests, model, sighting, bounds>>

\* /deleteuser names one folder.
Delete(t, d) ==
    /\ At(t, "idle") /\ deletes < MaxDeletes
    /\ deletes' = deletes + 1
    /\ thread' = [thread EXCEPT ![t] =
                    [kind |-> "delete", todo |-> {d} \cap dirs, left |-> {},
                     step |-> IF d \in dirs THEN "open" ELSE "profile"]]
    /\ UNCHANGED <<others, disk, rows, requests, model, sighting, failures, crashes, cut>>

\* os.listdir(folder) raises if someone else removed it.
Open(t, d) ==
    /\ At(t, "open") /\ IsNext(t, d)
    /\ IF d \in dirs
       THEN thread' = [thread EXCEPT ![t] = [kind |-> thread[t].kind, step |-> "remove",
                                             todo |-> thread[t].todo, left |-> files[d]]]
       ELSE Raise(t)
    /\ UNCHANGED <<others, disk, rows, requests, model, sighting, bounds>>

\* os.remove; that the file is gone already is ignored.
Remove(t, d) ==
    /\ At(t, "remove") /\ IsNext(t, d)
    /\ \E f \in thread[t].left :
          /\ files' = [files EXCEPT ![d] = @ \ {f}]
          /\ thread' = [thread EXCEPT ![t].left = @ \ {f}]
    /\ UNCHANGED <<others, dirs, profile, rows, requests, model, sighting, bounds>>

\* os.rmdir; that the folder is gone or not empty is ignored.
RemoveFolder(t, d) ==
    /\ At(t, "remove") /\ IsNext(t, d) /\ thread[t].left = {}
    /\ dirs' = IF files[d] = {} THEN dirs \ {d} ELSE dirs
    /\ Walk(t, thread[t].todo \ {d})
    /\ UNCHANGED <<others, files, profile, rows, requests, model, sighting, bounds>>

CheckProfile(t) ==
    /\ At(t, "profile")
    /\ Go(t, IF profile THEN "unlink" ELSE "rows")
    /\ UNCHANGED <<others, disk, rows, requests, model, sighting, bounds>>

\* os.remove, here not guarded.
RemoveProfile(t) ==
    /\ At(t, "unlink")
    /\ IF profile THEN profile' = FALSE /\ Go(t, "rows")
                  ELSE Raise(t) /\ UNCHANGED profile
    /\ UNCHANGED <<others, dirs, files, rows, requests, model, sighting, bounds>>

\* (Mutant of Fulfilled: one request only.)
FulfilledFirst == [requests EXCEPT ![1] = "fulfilled"]
Fulfilled == [i \in DOMAIN requests |-> "fulfilled"]

\* (Mutant of DeleteRows: the request closes before the picture is deleted.)
DeleteRowsFirst(t) ==
    /\ At(t, "unlink") \/ At(t, "rows")
    /\ IF thread[t].kind = "erase"
       THEN rows' = rows \ Erased /\ requests' = Fulfilled
       ELSE rows' = rows \ {"persons"} /\ UNCHANGED requests
    /\ Go(t, "retrain")
    /\ UNCHANGED <<others, disk, model, sighting, bounds>>

\* fulfil_erasure closes every open request of the person, in one transaction
\* with the deletions; delete_person deletes the one row.
DeleteRows(t) ==
    /\ At(t, "rows")
    /\ IF thread[t].kind = "erase"
       THEN rows' = rows \ Erased /\ requests' = Fulfilled
       ELSE rows' = rows \ {"persons"} /\ UNCHANGED requests
    /\ Go(t, "retrain")
    /\ UNCHANGED <<others, disk, model, sighting, bounds>>

DatabaseFails(t) ==
    /\ At(t, "rows") /\ failures + crashes < MaxFaults
    /\ failures' = failures + 1
    /\ Raise(t)
    /\ UNCHANGED <<others, disk, rows, requests, model, sighting, deletes, crashes, cut>>

\* (Mutant of Learnt: training adds to the model it loaded.)
LearntMore(w) == [onDisk |-> onDisk \/ HasCrops,
                  inMemory |-> IF onDisk \/ HasCrops THEN inMemory \cup {w} ELSE inMemory \ {w}]

\* What train leaves on disk and in the worker.  Without any crops it removes
\* the files and keeps what it had loaded.
Learnt(w) ==
    LET known == IF HasCrops \/ others THEN HasCrops ELSE onDisk IN
    [onDisk |-> HasCrops,
     inMemory |-> IF known THEN inMemory \cup {w} ELSE inMemory \ {w}]

Retrain(t) ==
    /\ At(t, "retrain")
    /\ onDisk' = Learnt(WorkerOf[t]).onDisk
    /\ inMemory' = Learnt(WorkerOf[t]).inMemory
    /\ thread' = [thread EXCEPT ![t] = Idle]
    /\ UNCHANGED <<others, disk, rows, requests, sighting, bounds>>

\* A frame calls recognizer.get(), which loads a model file that has changed.
Reload(w) ==
    /\ inMemory' = IF onDisk THEN inMemory \cup {w} ELSE inMemory \ {w}
    /\ UNCHANGED <<others, disk, rows, requests, onDisk, sighting, thread, bounds>>

\* process_frame recognises the person ...
Recognise(w) ==
    /\ w \in inMemory /\ IsTrained
    /\ sighting' = sighting \cup {w}
    /\ UNCHANGED <<others, disk, rows, requests, model, thread, bounds>>

\* ... and mark_attendance writes a row, for whom there may be no person.
Mark(w) ==
    /\ w \in sighting
    /\ sighting' = sighting \ {w}
    /\ rows' = rows \cup {"attendance"}
    /\ UNCHANGED <<others, disk, requests, model, thread, bounds>>

\* A worker dies, and comes back with the model on disk.
Crash(w) ==
    /\ failures + crashes < MaxFaults
    /\ crashes' = crashes + 1
    /\ cut' = (cut \/ \E t \in Threads : WorkerOf[t] = w /\ At(t, "retrain"))
    /\ thread' = [t \in Threads |-> IF WorkerOf[t] = w THEN Idle ELSE thread[t]]
    /\ sighting' = sighting \ {w}
    /\ inMemory' = IF onDisk THEN inMemory \cup {w} ELSE inMemory \ {w}
    /\ UNCHANGED <<others, disk, rows, requests, onDisk, deletes, failures>>

Removal(t) ==
    \/ ListFaces(t) \/ \E d \in FaceFolders : Open(t, d) \/ Remove(t, d) \/ RemoveFolder(t, d)
    \/ CheckProfile(t) \/ RemoveProfile(t) \/ DeleteRows(t) \/ Retrain(t)

Next ==
    \/ \E t \in Threads :
          \/ Erase(t) \/ Removal(t) \/ DatabaseFails(t)
          \/ \E d \in FaceFolders : Delete(t, d)
    \/ \E w \in Workers : Reload(w) \/ Recognise(w) \/ Mark(w) \/ Crash(w)

Spec == Init /\ [][Next]_vars

\* A call that runs goes on, and every camera goes on sending frames.
Fairness ==
    /\ \A t \in Threads : WF_vars(Removal(t))
    /\ \A w \in Workers : WF_vars(Reload(w)) /\ WF_vars(Mark(w))

-----------------------------------------------------------------------------
(* Properties.                                                             *)

Quiet == \A t \in Threads : At(t, "idle")
IsFulfilled == \E i \in DOMAIN requests : requests[i] = "fulfilled"

\* A request closes only when the files and the picture are gone and the rows go
\* with it, whoever deleted what, and after crashes and failures half way.
ClosedMeansErased ==
    [][\A i \in DOMAIN requests :
         requests[i] = "open" /\ requests'[i] = "fulfilled" =>
            /\ \A d \in FaceFolders : files[d] = {}
            /\ ~profile /\ rows' \cap Erased = {}]_vars

\* Of several erasures one may trip over another, but then the other closes its
\* request: when all calls have ended none is open, unless one was cut short by a
\* failure or met a deletion.
RequestsSettle ==
    Quiet /\ deletes + failures + crashes = 0 =>
        \A i \in DOMAIN requests : requests[i] = "fulfilled"

\* "the recogniser retrains automatically": no worker goes on recognising the
\* person once the request is fulfilled, however removals, frames, failures and
\* crashes fall, as long as no worker dies before a training that is due.
CanRecognise == \E w \in Workers : w \in inMemory /\ IsTrained
Forgotten == []~cut => (IsFulfilled ~> []~CanRecognise)
=============================================================================
