----------------------------- MODULE ModelCache -----------------------------
(***************************************************************************)
(* recognizer.py: every worker process keeps a trained LBPH model in memory *)
(* (_instance) and the (mtime, size) of the file it was loaded from         *)
(* (_loaded_stamp).  get() reloads when the stamp on disk has changed;      *)
(* retrain() rewrites the two files, lbph_model.yml and lbph_labels.json,   *)
(* one after the other.  No lock is taken by either, inside a process or    *)
(* between processes.                                                       *)
(*                                                                          *)
(* A model predicts a rank: the position of a face's folder in the sorted   *)
(* listing the model was trained on.  The label file turns ranks into       *)
(* names.  A model is right about a person only together with the labels    *)
(* of the same training run.                                                *)
(***************************************************************************)
EXTENDS Integers, FiniteSets

CONSTANTS MaxPerson,    \* face folders are 1..MaxPerson (sorted by name)
          Workers,      \* worker processes
          Threads,      \* request threads of all of them
          WorkerOf,     \* the process of a thread
          MaxChanges,   \* bound: enrolments and deletions
          MaxCrashes    \* bound: deaths of a worker process

VARIABLES faces,      \* the folders under static/faces
          modelFile,  \* lbph_model.yml: absent, torn (half-written) or whole
          labelsFile, \* lbph_labels.json
          stamps,     \* stamps given out so far: each write makes a new mtime
          worker,     \* [Workers -> memory of the process]
          thread,     \* [Threads -> the call in progress]
          changes, crashes, \* counters of the bounds
          overlapped  \* history: calls have been in each other's way (Clash)

vars == <<faces, modelFile, labelsFile, stamps, worker, thread, changes, crashes, overlapped>>

People == 1..MaxPerson

\* What a training run learned: the folders it listed, and those it had samples of.
NoModel == [listing |-> {}, known |-> {}]

\* _model_stamp(): 0 stands for (0.0, 0), no file.
ModelStamp == IF modelFile.state = "absent" THEN 0 ELSE modelFile.stamp

\* is_trained(): both files exist.
IsTrained == modelFile.state # "absent" /\ labelsFile.state # "absent"

At(t, step) == thread[t].step = step
Retraining == {t \in Threads : thread[t].job = "retrain" /\ ~At(t, "start")}

\* A retrain runs together with another one, or two calls in one process.
Clash(t, job) ==
    \/ job = "retrain" /\ Retraining # {}
    \/ \E u \in Threads \ {t} :
          WorkerOf[u] = WorkerOf[t] /\ thread[u].job # "none" /\ ~At(u, "start")

\* The window of a retrain that has written its model and not yet its labels.
BetweenWrites == \E u \in Retraining : thread[u].step \in {"write_labels", "end_labels"}

\* (early is a history field: the load fell between the two writes.)
Idle == [job |-> "none", step |-> "idle", stamp |-> 0, model |-> NoModel,
         labels |-> {}, early |-> FALSE]

Go(t, step) == thread' = [thread EXCEPT ![t].step = step]
Finish(t) == thread' = [thread EXCEPT ![t] = Idle]
\* An exception out of the recogniser: the request ends in an error page.
Raise(t) == Finish(t)

UnchangedDisk == UNCHANGED <<modelFile, labelsFile, stamps>>
UnchangedBounds == UNCHANGED <<changes, crashes, overlapped>>

-----------------------------------------------------------------------------
Init ==
    /\ faces = {}
    /\ modelFile = [state |-> "absent", stamp |-> 0, model |-> NoModel]
    /\ labelsFile = [state |-> "absent", names |-> {}]
    /\ stamps = 0
    /\ worker = [w \in Workers |-> [up |-> TRUE, stamp |-> 0, model |-> NoModel,
                                    labels |-> {}, owner |-> {}, early |-> FALSE]]
    /\ thread = [t \in Threads |-> Idle]
    /\ changes = 0 /\ crashes = 0 /\ overlapped = FALSE

\* get(): stat the file; reload when its stamp is not the loaded one.
GetStat(t) ==
    LET w == worker[WorkerOf[t]] IN
    /\ thread[t].job = "none" /\ w.up
    /\ w.stamp # ModelStamp
    /\ overlapped' = (overlapped \/ Clash(t, "get"))
    /\ thread' = [thread EXCEPT ![t] = [Idle EXCEPT !.job = "get",
                     !.step = "read_model", !.stamp = ModelStamp]]
    /\ UNCHANGED <<faces, worker, changes, crashes>> /\ UnchangedDisk

\* LBPHRecognizer(): if is_trained(), self._model.read(LBPH_MODEL) ...
ReadModel(t) ==
    /\ At(t, "read_model")
    /\ \/ /\ ~IsTrained
          /\ thread' = [thread EXCEPT ![t] = [thread[t] EXCEPT !.step = "set_instance",
                           !.model = NoModel, !.labels = {}, !.early = BetweenWrites]]
       \/ /\ IsTrained /\ modelFile.state = "torn"
          /\ Raise(t)
       \/ /\ IsTrained /\ modelFile.state = "whole"
          /\ thread' = [thread EXCEPT ![t] = [thread[t] EXCEPT !.step = "read_labels",
                           !.model = modelFile.model]]
    /\ UNCHANGED <<faces, worker>> /\ UnchangedDisk /\ UnchangedBounds

\* ... and json.load(LBPH_LABELS).
ReadLabels(t) ==
    /\ At(t, "read_labels")
    /\ \/ /\ labelsFile.state # "whole"
          /\ Raise(t)
       \/ /\ labelsFile.state = "whole"
          /\ thread' = [thread EXCEPT ![t] = [thread[t] EXCEPT !.step = "set_instance",
                           !.labels = labelsFile.names, !.early = BetweenWrites]]
    /\ UNCHANGED <<faces, worker>> /\ UnchangedDisk /\ UnchangedBounds

\* _instance = _pick_backend(), in get() and at the start of retrain(); the
\* object that retrain() goes on to train is the one it just stored.
SetInstance(t) ==
    LET c == thread[t] IN
    /\ At(t, "set_instance")
    /\ worker' = [worker EXCEPT ![WorkerOf[t]] = [worker[WorkerOf[t]] EXCEPT
                     !.model = c.model, !.labels = c.labels, !.owner = {t}, !.early = c.early]]
    /\ Go(t, IF c.job = "get" THEN "set_stamp" ELSE "list")
    /\ UNCHANGED faces /\ UnchangedDisk /\ UnchangedBounds

\* (Mutant of SetStamp: get() reloads but does not remember what it loaded.)
SetNoStamp(t) ==
    /\ At(t, "set_stamp")
    /\ Finish(t)
    /\ UNCHANGED <<faces, worker>> /\ UnchangedDisk /\ UnchangedBounds

\* (Mutant of SetStamp: the stamp is taken after the load, not before it.)
SetStampOfNow(t) ==
    /\ At(t, "set_stamp")
    /\ worker' = [worker EXCEPT ![WorkerOf[t]].stamp = ModelStamp]
    /\ Finish(t)
    /\ UNCHANGED faces /\ UnchangedDisk /\ UnchangedBounds

\* _loaded_stamp = stamp, the stamp get() read before it loaded.
SetStamp(t) ==
    /\ At(t, "set_stamp")
    /\ worker' = [worker EXCEPT ![WorkerOf[t]].stamp = thread[t].stamp]
    /\ Finish(t)
    /\ UNCHANGED faces /\ UnchangedDisk /\ UnchangedBounds

-----------------------------------------------------------------------------
\* Enrolment makes a folder, delete_user and privacy_erase remove one; all
\* three then call recognizer.retrain.
ChangeFaces(t, p) ==
    /\ thread[t].job = "none" /\ worker[WorkerOf[t]].up
    /\ changes < MaxChanges
    /\ changes' = changes + 1
    /\ faces' = IF p \in faces THEN faces \ {p} ELSE faces \cup {p}
    /\ thread' = [thread EXCEPT ![t] = [Idle EXCEPT !.job = "retrain",
                     !.step = "start"]]
    /\ UNCHANGED <<worker, crashes, overlapped>> /\ UnchangedDisk

\* retrain() begins by loading the files that it is about to replace.
StartRetrain(t) ==
    /\ At(t, "start")
    /\ overlapped' = (overlapped \/ Clash(t, "retrain"))
    /\ Go(t, "read_model")
    /\ UNCHANGED <<faces, worker, changes, crashes>> /\ UnchangedDisk

\* sorted(os.listdir(faces_dir)): this fixes the rank of every folder.
List(t) ==
    /\ At(t, "list")
    /\ thread' = [thread EXCEPT ![t] = [thread[t] EXCEPT !.step = "look",
                     !.model = [listing |-> faces, known |-> {}]]]
    /\ UNCHANGED <<faces, worker>> /\ UnchangedDisk /\ UnchangedBounds

\* The loop over the listing: folders that have gone since are skipped without
\* a label but keep their rank.  No samples: the files are removed.
Look(t) ==
    LET known == thread[t].model.listing \cap faces IN
    /\ At(t, "look")
    /\ thread' = [thread EXCEPT ![t] = [thread[t] EXCEPT
                     !.step = IF known = {} THEN "remove_model" ELSE "write_model",
                     !.model = [listing |-> thread[t].model.listing, known |-> known]]]
    /\ UNCHANGED <<faces, worker>> /\ UnchangedDisk /\ UnchangedBounds

\* The instance being trained takes the new model; its old labels stay until
\* the files are written.  Nothing changes in a process whose _instance has
\* been replaced by another thread meanwhile.
Mine(t) == t \in worker[WorkerOf[t]].owner

\* self._model.train(...); self._model.write(LBPH_MODEL) opens the file.
WriteModel(t) ==
    /\ At(t, "write_model")
    /\ worker' = IF Mine(t)
                 THEN [worker EXCEPT ![WorkerOf[t]].model = thread[t].model]
                 ELSE worker
    /\ stamps' = stamps + 1
    /\ modelFile' = [state |-> "torn", stamp |-> stamps + 1, model |-> NoModel]
    /\ Go(t, "end_model")
    /\ UNCHANGED <<faces, labelsFile>> /\ UnchangedBounds

\* The write ends and gives the file its final mtime and size.
EndModel(t) ==
    /\ At(t, "end_model")
    /\ stamps' = stamps + 1
    /\ modelFile' = [state |-> "whole", stamp |-> stamps + 1,
                     model |-> thread[t].model]
    /\ Go(t, "write_labels")
    /\ UNCHANGED <<faces, labelsFile, worker>> /\ UnchangedBounds

\* open(LBPH_LABELS, 'w') truncates the labels ...
WriteLabels(t) ==
    /\ At(t, "write_labels")
    /\ labelsFile' = [state |-> "torn", names |-> {}]
    /\ Go(t, "end_labels")
    /\ UNCHANGED <<faces, modelFile, stamps, worker>> /\ UnchangedBounds

\* ... json.dump and close complete them; self._labels = label_names.
EndLabels(t) ==
    /\ At(t, "end_labels")
    /\ labelsFile' = [state |-> "whole", names |-> thread[t].model.known]
    /\ worker' = IF Mine(t)
                 THEN [worker EXCEPT ![WorkerOf[t]] = [worker[WorkerOf[t]] EXCEPT !.early = FALSE,
                          !.labels = thread[t].model.known]]
                 ELSE worker
    /\ Go(t, "record_stamp")
    /\ UNCHANGED <<faces, modelFile, stamps>> /\ UnchangedBounds

\* No samples left: os.remove of both files, where they exist.
RemoveModel(t) ==
    /\ At(t, "remove_model")
    /\ modelFile' = [state |-> "absent", stamp |-> 0, model |-> NoModel]
    /\ Go(t, "remove_labels")
    /\ UNCHANGED <<faces, labelsFile, stamps, worker>> /\ UnchangedBounds

RemoveLabels(t) ==
    /\ At(t, "remove_labels")
    /\ labelsFile' = [state |-> "absent", names |-> {}]
    /\ Go(t, "record_stamp")
    /\ UNCHANGED <<faces, modelFile, stamps, worker>> /\ UnchangedBounds

\* _loaded_stamp = _model_stamp()
RecordStamp(t) ==
    /\ At(t, "record_stamp")
    /\ worker' = [worker EXCEPT ![WorkerOf[t]].stamp = ModelStamp]
    /\ Finish(t)
    /\ UNCHANGED faces /\ UnchangedDisk /\ UnchangedBounds

-----------------------------------------------------------------------------
\* A worker process is killed; what its threads had opened stays half-written.
Crash(w) ==
    /\ worker[w].up /\ crashes < MaxCrashes
    /\ crashes' = crashes + 1
    /\ worker' = [worker EXCEPT ![w] = [worker[w] EXCEPT !.up = FALSE, !.owner = {}]]
    /\ thread' = [t \in Threads |-> IF WorkerOf[t] = w THEN Idle ELSE thread[t]]
    /\ UNCHANGED <<faces, changes, overlapped>> /\ UnchangedDisk

\* Import of recognizer.py in a new process: it loads whole files, or none,
\* and dies at once on torn ones.
Boot(w) ==
    /\ ~worker[w].up
    /\ IsTrained => modelFile.state = "whole" /\ labelsFile.state = "whole"
    /\ worker' = [worker EXCEPT ![w] = [worker[w] EXCEPT !.up = TRUE, !.stamp = ModelStamp,
                     !.model = IF IsTrained THEN modelFile.model ELSE NoModel,
                     !.labels = IF IsTrained THEN labelsFile.names ELSE {},
                     !.early = BetweenWrites]]
    /\ UNCHANGED <<faces, thread>> /\ UnchangedDisk /\ UnchangedBounds

\* The steps a call takes once it runs.
Proceed(t) ==
    \/ ReadModel(t) \/ ReadLabels(t) \/ SetInstance(t) \/ SetStamp(t)
    \/ StartRetrain(t) \/ List(t) \/ Look(t) \/ WriteModel(t) \/ EndModel(t)
    \/ WriteLabels(t) \/ EndLabels(t) \/ RemoveModel(t) \/ RemoveLabels(t)
    \/ RecordStamp(t)

Next ==
    \/ \E t \in Threads : GetStat(t) \/ Proceed(t)
    \/ \E t \in Threads, p \in People : ChangeFaces(t, p)
    \/ \E w \in Workers : Crash(w) \/ Boot(w)

Spec == Init /\ [][Next]_vars

\* A call that runs goes on, and every worker is asked for its recogniser
\* again and again (each page and each camera frame calls get()).
Fairness == \A t \in Threads : WF_vars(GetStat(t) \/ Proceed(t))

-----------------------------------------------------------------------------
(* Properties.                                                             *)

RetrainsIn(w) == \E t \in Retraining : WorkerOf[t] = w

\* Until calls get in each other's way, a worker whose stamp is that of the model
\* file does not go on with an older model: it has the model of that file in
\* memory, or none at all, whatever was written or removed while it was loading
\* (recognizer.get's comparison).  And, "keeps the workers in step" (get's
\* docstring), as far as it goes: unless a worker is killed too, when no retrain
\* runs a worker that sees no change on disk has the model and the labels of the
\* disk, or it loaded in the window between the two writes of a retrain.
WorkersInStep ==
    ~overlapped => \A w \in Workers : worker[w].stamp = modelFile.stamp =>
        /\ worker[w].up /\ ~RetrainsIn(w) /\ modelFile.state # "absent"
           => worker[w].model \in {NoModel, modelFile.model}
        /\ crashes = 0 /\ Retraining = {} /\ IsTrained /\ ~worker[w].early
           => /\ worker[w].model = modelFile.model
              /\ worker[w].labels = labelsFile.names

\* Unless a worker is killed, reloading comes to an end: once enrolments and
\* deletions stop, every worker agrees with the file's stamp for good and get()
\* costs "one stat() per call" (get's docstring).
ReloadingSettles ==
    [](crashes = 0) => <>[](\A w \in Workers : worker[w].stamp = ModelStamp)
=============================================================================
