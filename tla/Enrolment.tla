----------------------------- MODULE Enrolment -----------------------------
(***************************************************************************)
(* Enrolment through the browser camera: /add opens a capture page, the    *)
(* page posts one frame at a time to /api/camera/frame, process_frame in   *)
(* mode 'register' saves a crop, and the last crop retrains the model and  *)
(* encrypts the folder.                                                    *)
(*                                                                         *)
(* The request says whose folder it is for, but hands that to              *)
(* process_frame through _capture_mode, a dictionary shared by the threads *)
(* of a worker process; the number of the next crop is the number of files *)
(* in the folder when the request began.                                   *)
(***************************************************************************)
EXTENDS Integers, FiniteSets

CONSTANTS Folders,     \* <name>_<id> folders under static/faces
          Workers,     \* worker processes
          Concurrency, \* requests a worker handles at one time (its threads)
          NIMGS,       \* crops that complete an enrolment
          MaxDeletes,  \* bound: deletions of users
          MaxEncrypts  \* bound: presses of "encrypt now"

VARIABLES samples,   \* [Folders -> its crops: number, whose face, .jpg.enc or not]
          capture,   \* [Workers -> _capture_mode]
          request,   \* [Folders -> the frame its page has on the wire]
          page,      \* [Folders -> "closed", "open", or "done"]
          known,     \* the folders the trained model recognises
          encrypt,   \* setting encrypt_templates
          deletes, encrypts, \* counters of the bounds
          crossed    \* history: a worker took a request while it had another

vars == <<samples, capture, request, page, known, encrypt, deletes, encrypts, crossed>>

NoRequest == [step |-> "idle", worker |-> "none"]
At(f, step) == request[f].step = step
Go(f, step) == request' = [request EXCEPT ![f].step = step]
Cap(f) == capture[request[f].worker]

\* A worker takes a request when one of its threads is free.  Bound: behaviours
\* are followed until requests cross in a worker (the properties end there), so a
\* crossing request is the last one taken.
InHand(w) == {g \in Folders : request[g].worker = w}
Free(w) == Cardinality(InHand(w)) < Concurrency
Take(w) == Free(w) /\ ~crossed /\ crossed' = (InHand(w) # {})

\* _saved_sample_count
SavedSampleCount(f) == Cardinality(samples[f])

\* Folders that a training run has readable crops of: cv2.imread returns None
\* for an encrypted file.
Readable == {f \in Folders : \E s \in samples[f] : ~s.enc}

Encrypted(crops) == {[s EXCEPT !.enc = TRUE] : s \in crops}

-----------------------------------------------------------------------------
Init ==
    /\ samples = [f \in Folders |-> {}]
    /\ \E f \in Folders : capture = [w \in Workers |-> [folder |-> f, count |-> 0,
                                                        idx |-> 0]]
    /\ request = [f \in Folders |-> NoRequest]
    /\ page = [f \in Folders |-> "closed"]
    /\ known = {}
    /\ encrypt \in BOOLEAN
    /\ deletes = 0 /\ encrypts = 0 /\ crossed = FALSE

\* POST /add: refused for a folder that has files; else _capture_mode of the
\* worker it reached is set and the browser goes to the capture page.
Add(f, w) ==
    /\ page[f] # "open" /\ At(f, "idle") /\ Take(w)
    /\ samples[f] = {}
    /\ capture' = [capture EXCEPT ![w] = [folder |-> f, count |-> 0, idx |-> 0]]
    /\ page' = [page EXCEPT ![f] = "open"]
    /\ UNCHANGED <<samples, request, known, encrypt, deletes, encrypts>>

\* (Mutant of Post: the folder is the one /add left in _capture_mode.)
PostFolderOfAdd(f, w) ==
    /\ page[f] = "open" /\ At(f, "idle") /\ Take(w)
    /\ capture' = [capture EXCEPT ![w] = [@ EXCEPT !.idx = 3,
                                          !.count = SavedSampleCount(f)]]
    /\ request' = [request EXCEPT ![f] = [step |-> "gate", worker |-> w]]
    /\ UNCHANGED <<samples, page, known, encrypt, deletes, encrypts>>

\* camera_frame up to the call of process_frame.
Post(f, w) ==
    /\ page[f] = "open" /\ At(f, "idle") /\ Take(w)
    /\ capture' = [capture EXCEPT ![w] = [folder |-> f, idx |-> 3,
                                          count |-> SavedSampleCount(f)]]
    /\ request' = [request EXCEPT ![f] = [step |-> "gate", worker |-> w]]
    /\ UNCHANGED <<samples, page, known, encrypt, deletes, encrypts>>

\* _capture_mode['frame_idx'] += 1
Gate(f) ==
    /\ At(f, "gate")
    /\ capture' = [capture EXCEPT ![request[f].worker].idx = @ + 1]
    /\ Go(f, "save")
    /\ UNCHANGED <<samples, page, known, encrypt, deletes, encrypts, crossed>>

\* A sharp face on every fourth frame, while crops are missing: imwrite to the
\* folder and the number that _capture_mode names now.  An earlier .jpg with
\* that number is overwritten.
Save(f) ==
    LET c == Cap(f)
        crop == [index |-> c.count, face |-> f, enc |-> FALSE] IN
    /\ At(f, "save")
    /\ c.idx % 4 = 0 /\ c.count < NIMGS
    /\ samples' = [samples EXCEPT ![c.folder] =
                      {s \in @ : s.index # c.count \/ s.enc} \cup {crop}]
    /\ Go(f, "bump")
    /\ UNCHANGED <<capture, page, known, encrypt, deletes, encrypts, crossed>>

\* A blurred frame, a frame the gate drops, or no face.
Skip(f) ==
    /\ At(f, "save")
    /\ Go(f, "check")
    /\ UNCHANGED <<samples, capture, page, known, encrypt, deletes, encrypts, crossed>>

\* _capture_mode['count'] += 1
Bump(f) ==
    /\ At(f, "bump")
    /\ capture' = [capture EXCEPT ![request[f].worker].count = @ + 1]
    /\ Go(f, "check")
    /\ UNCHANGED <<samples, page, known, encrypt, deletes, encrypts, crossed>>

\* if _capture_mode['count'] >= NIMGS
Check(f) ==
    /\ At(f, "check")
    /\ IF Cap(f).count >= NIMGS
       THEN Go(f, "retrain")
       ELSE request' = [request EXCEPT ![f] = NoRequest]
    /\ UNCHANGED <<samples, capture, page, known, encrypt, deletes, encrypts, crossed>>

\* (Mutant of Retrain: the page is told "done" and nothing is trained.)
RetrainNot(f) ==
    /\ At(f, "retrain")
    /\ Go(f, "encrypt")
    /\ UNCHANGED <<samples, capture, page, known, encrypt, deletes, encrypts, crossed>>

\* recognizer.retrain(FACES_DIR)
Retrain(f) ==
    /\ At(f, "retrain")
    /\ known' = Readable
    /\ Go(f, "encrypt")
    /\ UNCHANGED <<samples, capture, page, encrypt, deletes, encrypts, crossed>>

\* Encryption at rest, of the folder _capture_mode names, and the response
\* (done: true), on which the page closes.
Encrypt(f) ==
    /\ At(f, "encrypt")
    /\ samples' = IF encrypt
                  THEN [samples EXCEPT ![Cap(f).folder] = Encrypted(@)]
                  ELSE samples
    /\ request' = [request EXCEPT ![f] = NoRequest]
    /\ page' = [page EXCEPT ![f] = "done"]
    /\ UNCHANGED <<capture, known, encrypt, deletes, encrypts, crossed>>

\* delete_user (and the files part of privacy_erase), with its retrain.
Delete(f) ==
    /\ deletes < MaxDeletes /\ deletes' = deletes + 1
    /\ samples' = [samples EXCEPT ![f] = {}]
    /\ known' = Readable \ {f}
    /\ UNCHANGED <<capture, request, page, encrypt, encrypts, crossed>>

\* privacy_encrypt_now
EncryptNow ==
    /\ encrypts < MaxEncrypts /\ encrypts' = encrypts + 1
    /\ samples' = [f \in Folders |-> Encrypted(samples[f])]
    /\ encrypt' = TRUE
    /\ UNCHANGED <<capture, request, page, known, deletes, crossed>>

Proceed(f) ==
    Gate(f) \/ Save(f) \/ Skip(f) \/ Bump(f) \/ Check(f) \/ Retrain(f) \/ Encrypt(f)

Next ==
    \/ EncryptNow
    \/ \E f \in Folders :
          \/ Delete(f) \/ Proceed(f)
          \/ \E w \in Workers : Add(f, w) \/ Post(f, w)

Spec == Init /\ [][Next]_vars

\* The page posts the next frame when the last one is answered (a timer in
\* browser-camera.js), requests that run finish, and a person who is asked to
\* look at the camera is sharp now and then.
Fairness ==
    \A f \in Folders :
        /\ SF_vars(\E w \in Workers : Post(f, w))
        /\ WF_vars(Proceed(f)) /\ SF_vars(Save(f))

-----------------------------------------------------------------------------
(* Properties.                                                             *)

\* "Captured face crops per user" (build_docs.py): as long as no worker handles
\* two requests at one time, a folder holds faces of its own person only, so
\* nobody is recognised under another's name.  Unless a user is deleted as well,
\* no crop overwrites another: they are numbered from 0 without gaps, so that the
\* number of the next, which is the number of files, is free (_saved_sample_count
\* against the file names), and a finished enrolment has all of them.
CropsAreOwn ==
    ~crossed => \A f \in Folders :
        /\ \A s \in samples[f] : s.face = f
        /\ deletes = 0 => {s.index : s \in samples[f]} = 0..(SavedSampleCount(f) - 1)
        /\ deletes = 0 /\ page[f] = "done" => SavedSampleCount(f) = NIMGS

\* Unless requests cross, a user is deleted or "encrypt now" is pressed, a
\* capture page that stays open reaches its last crop, and the person is in the
\* model from then on ("When capture finishes, the recogniser retrains
\* automatically and the new person is live", copilot_kb.py).
EnrolmentCompletes ==
    [](~crossed /\ deletes = 0 /\ encrypts = 0) =>
       \A f \in Folders : page[f] = "open" ~> page[f] = "done" /\ f \in known
=============================================================================
