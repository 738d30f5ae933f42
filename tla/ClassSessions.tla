--------------------------- MODULE ClassSessions ---------------------------
(***************************************************************************)
(* Class sessions of one day: db.materialise_today_sessions (run by the    *)
(* scheduler and by the timetable page), the session routes of app.py, the *)
(* setting active_session_id they share, and the session part of a mark.   *)
(*                                                                         *)
(* SQLite with sqlite3's default isolation: a SELECT before the first      *)
(* write of a `with tx()` block reads what is committed and locks nothing; *)
(* the first write takes the write lock, which is held to the commit.      *)
(***************************************************************************)
EXTENDS Integers, Sequences, FiniteSets

CONSTANTS Slots,        \* the day's timetable: a sequence of [subject, start]
          Threads,      \* request threads and schedulers of all processes
          MaxSessions,  \* bound: class_sessions rows ever inserted
          MaxSubjectDeletes, \* bound: subjects deleted
          MaxCrashes         \* bound: requests cut short by a crash

ASSUME SlotsAssumption == Slots \in Seq({Slots[i] : i \in DOMAIN Slots})

VARIABLES subjects,  \* rows of subjects
          sessions,  \* committed rows of class_sessions: [id, slot]
          ids,       \* ids given out (AUTOINCREMENT: none is used twice)
          active,    \* setting active_session_id; 0 for ''
          writer,    \* the thread that holds the write lock, as a set
          pending,   \* the rows it has inserted and not committed
          job,       \* [Threads -> the function it runs]
          touched,   \* history: slots that had a session made or deleted by hand
          crossed,   \* history: a session route was entered inside another one
          deletes, crashes

vars == <<subjects, sessions, ids, active, writer, pending, job, touched,
          crossed, deletes, crashes>>

AllSlots == {Slots[i] : i \in DOMAIN Slots}
IdsOf(rows) == {s.id : s \in rows}
OfSlot(rows, slot) == {s \in rows : s.slot = slot}

Idle == [step |-> "idle", slot |-> 0, id |-> 0]
At(t, step) == job[t].step = step
Go(t, step) == job' = [job EXCEPT ![t].step = step]
Return(t) == job' = [job EXCEPT ![t] = Idle]
Raise(t) == Return(t)   \* an error page, or an exception that is logged

\* What a SELECT of thread t sees.
Visible(t) == IF t \in writer THEN sessions \cup pending ELSE sessions
MayWrite(t) == writer \subseteq {t}

\* A session route begins, perhaps while another one is between its two steps.
Routed == \E t \in Threads : job[t].step \in {"activate", "was_active", "clear"}
EnterRoute == crossed' = (crossed \/ Routed)

NoData == UNCHANGED <<subjects, sessions, ids, writer, pending, touched, deletes, crashes>>
NoDb == UNCHANGED <<subjects, sessions, ids, writer, pending, touched, crossed, deletes, crashes>>

-----------------------------------------------------------------------------
Init ==
    /\ subjects = {slot.subject : slot \in AllSlots}
    /\ sessions = {} /\ ids = 0 /\ active = 0
    /\ writer = {} /\ pending = {}
    /\ job = [t \in Threads |-> Idle]
    /\ touched = {} /\ crossed = FALSE /\ deletes = 0 /\ crashes = 0

(* materialise_today_sessions.                                             *)

\* SELECT * FROM timetable ...: the slots of the weekday (timetable rows go
\* with their subject).
Materialise(t) ==
    /\ At(t, "idle")
    /\ job' = [job EXCEPT ![t] = [Idle EXCEPT !.step = "exists", !.slot = 1]]
    /\ NoDb /\ UNCHANGED active

\* (Mutant of SlotExists: no look at the table once something was inserted.)
SlotExistsAtFirst(t) ==
    LET i == job[t].slot IN
    /\ At(t, "exists") /\ i <= Len(Slots)
    /\ IF t \notin writer /\ OfSlot(sessions, Slots[i]) # {}
       THEN job' = [job EXCEPT ![t].slot = i + 1]
       ELSE Go(t, "insert")
    /\ NoDb /\ UNCHANGED active

\* SELECT 1 FROM class_sessions WHERE subject_id, date and start_time are the
\* slot's.
SlotExists(t) ==
    LET i == job[t].slot IN
    /\ At(t, "exists") /\ i <= Len(Slots)
    /\ \/ /\ OfSlot(Visible(t), Slots[i]) # {}
          /\ job' = [job EXCEPT ![t].slot = i + 1]
       \/ /\ OfSlot(Visible(t), Slots[i]) = {}
          /\ Go(t, "insert")
    /\ NoDb /\ UNCHANGED active

\* (Mutant of InsertSlot: each INSERT commits on its own.)
InsertSlotAlone(t) ==
    LET slot == Slots[job[t].slot] IN
    /\ At(t, "insert") /\ MayWrite(t)
    /\ slot.subject \in subjects /\ ids < MaxSessions
    /\ ids' = ids + 1
    /\ sessions' = sessions \cup {[id |-> ids + 1, slot |-> slot]}
    /\ job' = [job EXCEPT ![t] = [@ EXCEPT !.step = "exists", !.slot = job[t].slot + 1]]
    /\ UNCHANGED <<subjects, active, writer, pending, touched, crossed, deletes, crashes>>

\* INSERT INTO class_sessions: takes the write lock; a subject deleted since
\* the slots were read fails the foreign key and rolls everything back.
InsertSlot(t) ==
    LET slot == Slots[job[t].slot] IN
    /\ At(t, "insert") /\ MayWrite(t)
    /\ \/ /\ slot.subject \in subjects /\ ids < MaxSessions
          /\ writer' = {t} /\ ids' = ids + 1
          /\ pending' = pending \cup {[id |-> ids + 1, slot |-> slot]}
          /\ job' = [job EXCEPT ![t] = [@ EXCEPT !.step = "exists", !.slot = job[t].slot + 1]]
       \/ /\ slot.subject \notin subjects
          /\ writer' = {} /\ pending' = {}
          /\ Raise(t)
          /\ UNCHANGED ids
    /\ UNCHANGED <<subjects, sessions, active, touched, crossed, deletes, crashes>>

\* The INSERT waits for the lock longer than the busy timeout.
Locked(t) ==
    /\ At(t, "insert") /\ ~MayWrite(t)
    /\ Raise(t)
    /\ NoDb /\ UNCHANGED active

\* The end of the `with tx()` block.
Commit(t) ==
    /\ At(t, "exists") /\ job[t].slot > Len(Slots)
    /\ \/ /\ t \in writer
          /\ sessions' = sessions \cup pending
          /\ writer' = {} /\ pending' = {}
       \/ /\ t \notin writer
          /\ UNCHANGED <<sessions, writer, pending>>
    /\ Return(t)
    /\ UNCHANGED <<subjects, ids, active, touched, crossed, deletes, crashes>>

\* The process dies: an open transaction is rolled back.
Crash(t) ==
    /\ ~At(t, "idle")
    /\ crashes < MaxCrashes /\ crashes' = crashes + 1
    /\ job' = [job EXCEPT ![t] = Idle]
    /\ IF t \in writer THEN writer' = {} /\ pending' = {}
                       ELSE UNCHANGED <<writer, pending>>
    /\ UNCHANGED <<subjects, sessions, ids, active, touched, crossed, deletes>>

-----------------------------------------------------------------------------
(* The routes.                                                             *)

\* POST /sessions with start_now: create_session, then the setting.
CreateSession(t, slot) ==
    /\ At(t, "idle") /\ writer = {} /\ ids < MaxSessions
    /\ slot.subject \in subjects
    /\ ids' = ids + 1
    /\ sessions' = sessions \cup {[id |-> ids + 1, slot |-> slot]}
    /\ job' = [job EXCEPT ![t] = [Idle EXCEPT !.step = "activate", !.id = ids + 1]]
    /\ touched' = touched \cup {slot} /\ EnterRoute
    /\ UNCHANGED <<subjects, active, writer, pending, deletes, crashes>>

\* The sessions page, with a button for every row it shows ...
ShowSessions(t, id) ==
    /\ At(t, "idle") /\ id \in IdsOf(sessions)
    /\ job' = [job EXCEPT ![t] = [Idle EXCEPT !.step = "activate", !.id = id]]
    /\ EnterRoute
    /\ NoData /\ UNCHANGED active

\* ... and /set_active_session, which checks only that it is a number.
SetActive(t) ==
    /\ At(t, "activate") /\ writer = {}
    /\ active' = job[t].id
    /\ Return(t)
    /\ NoDb

\* /sessions with delete: DELETE (marks go with it), ...
DeleteSession(t, id) ==
    /\ At(t, "idle") /\ writer = {} /\ id \in IdsOf(sessions)
    /\ sessions' = {s \in sessions : s.id # id}
    /\ job' = [job EXCEPT ![t] = [Idle EXCEPT !.step = "was_active", !.id = id]]
    /\ touched' = touched \cup {s.slot : s \in {x \in sessions : x.id = id}}
    /\ EnterRoute
    /\ UNCHANGED <<subjects, ids, active, writer, pending, deletes, crashes>>

\* (Mutant of WasActive: the setting is left alone.)
WasActiveIgnored(t) ==
    /\ At(t, "was_active")
    /\ Return(t)
    /\ NoDb /\ UNCHANGED active

\* ... get_setting('active_session_id') == str(sid), ...
WasActive(t) ==
    /\ At(t, "was_active")
    /\ IF active = job[t].id THEN Go(t, "clear") ELSE Return(t)
    /\ NoDb /\ UNCHANGED active

\* ... set_setting('active_session_id', '').
ClearActive(t) ==
    /\ At(t, "clear") /\ writer = {}
    /\ active' = 0
    /\ Return(t)
    /\ NoDb

\* /subjects with delete: the foreign key takes the subject's sessions along.
DeleteSubject(s) ==
    /\ s \in subjects /\ writer = {}
    /\ deletes < MaxSubjectDeletes /\ deletes' = deletes + 1
    /\ subjects' = subjects \ {s}
    /\ sessions' = {x \in sessions : x.slot.subject # s}
    /\ UNCHANGED <<ids, active, writer, pending, job, touched, crossed, crashes>>

\* process_frame, after mark_attendance: read the setting; mark there too.
ReadActive(t) ==
    /\ At(t, "idle") /\ active # 0
    /\ job' = [job EXCEPT ![t] = [Idle EXCEPT !.step = "mark", !.id = active]]
    /\ NoDb /\ UNCHANGED active

\* mark_session_attendance: INSERT OR IGNORE does not ignore a foreign key.
MarkSession(t) ==
    /\ At(t, "mark") /\ writer = {}
    /\ \/ job[t].id \in IdsOf(sessions) /\ Return(t)
       \/ job[t].id \notin IdsOf(sessions) /\ Raise(t)
    /\ NoDb /\ UNCHANGED active

Next ==
    \/ \E s \in subjects : DeleteSubject(s)
    \/ \E t \in Threads :
          \/ Materialise(t) \/ SlotExists(t) \/ InsertSlot(t) \/ Locked(t)
          \/ Commit(t) \/ Crash(t)
          \/ \E slot \in AllSlots : CreateSession(t, slot)
          \/ \E id \in 1..MaxSessions : ShowSessions(t, id) \/ DeleteSession(t, id)
          \/ SetActive(t) \/ WasActive(t) \/ ClearActive(t)
          \/ ReadActive(t) \/ MarkSession(t)

Spec == Init /\ [][Next]_vars

-----------------------------------------------------------------------------
(* Properties.                                                             *)

\* Concurrent materialisations of a day insert at most one session too many for
\* each thread but the first: only the first INSERT of a transaction rests on a
\* SELECT made without the lock.  (Stated of each step that commits.)
OneDuplicateEach ==
    [][\A t \in Threads :
         t \in writer /\ Commit(t) =>
            Cardinality({p \in pending : OfSlot(sessions, p.slot) # {}}) <= 1]_vars

\* A materialisation is all or nothing, whatever crashes, failed foreign keys
\* and lock timeouts come between: of the slots nobody has touched by hand
\* either all have a session or none has.
AllSlotsOrNone ==
    LET planned == {slot \in AllSlots : OfSlot(sessions, slot) # {}}
        whole == {slot \in AllSlots \ touched : slot.subject \in subjects} IN
    whole \cap planned \in {{}, whole}

\* "If we deleted the active session, clear it" (sessions() in app.py), so that a
\* mark in the active session does not fail: unless routes cross, one is cut short
\* or a subject is deleted, with nobody inside a route the active session exists,
\* whatever materialisations and marks went on meanwhile.
ActiveSessionExists ==
    ~crossed /\ deletes = 0 /\ crashes = 0 /\ ~Routed => active \in {0} \cup IdsOf(sessions)
=============================================================================
