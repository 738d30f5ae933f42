------------------------------ MODULE ExamMode ------------------------------
(***************************************************************************)
(* exam_mode.observe: while an exam is on, each frame notes who is in view *)
(* and, every CheckEvery at most, who of the roster was not seen for Grace *)
(* gets an alert.  Each worker process keeps its own dictionaries.         *)
(***************************************************************************)
EXTENDS Integers, Sequences, FiniteSets

CONSTANTS Persons,     \* the roster (of every exam)
          Threads, Workers,
          WorkerOf,    \* [Threads -> Workers]
          Exams,       \* ids, in the order of creation
          Window,      \* [Exams -> <<first time, last time>>]
          CheckEvery,  \* check_every_sec
          Grace,       \* 90 s
          ImposterGap, \* 60 s
          MaxTime,     \* bound: the clock
          MaxFaults    \* bound: alerts that could not be written, and restarts

\* time.time() is long after the 0 that stands for never (any origin after all
\* three intervals is the same).
Epoch == CheckEvery + Grace + ImposterGap + 1

VARIABLES now,
          ended,     \* the exams whose row says active = 0
          seen,      \* _seen: [Workers -> [Exams -> [Persons -> time]]]
          lastCheck, \* _last_check: [Workers -> [Exams -> time]]
          alerted,   \* _alerted_missing: [Workers -> [Exams -> SUBSET Persons]]
          imposter,  \* _alerted_imposter: [Workers -> [Exams -> time]]
          thread,    \* [Threads -> the frame it is at]
          alerts,    \* exam_alerts, with the history of the one alerted
          sighted,   \* history: [Exams -> [Persons -> last frame of any worker]]
          framed,    \* history: [Exams -> last frame that was checked against it]
          missed,    \* history: a tick of an exam went by without a frame, or
                     \* before its frame was through
          fails, restarts

dicts == <<seen, lastCheck, alerted, imposter>>
history == <<sighted, framed, missed>>
bounds == <<fails, restarts>>
vars == <<now, ended, dicts, thread, alerts, history, bounds>>

Idle == [step |-> "idle", exam |-> 0, view |-> {}, large |-> FALSE, at |-> 0,
         todo |-> {}, person |-> "none"]
At(t, step) == thread[t].step = step
E(t) == thread[t].exam
W(t) == WorkerOf[t]
Empty(v) == [e \in Exams |-> v]
\* d[W(t)][E(t)] = v, for one of the dictionaries.
Set(d, t, v) == [d EXCEPT ![W(t)] = [@ EXCEPT ![E(t)] = v]]

Active(e) == e \notin ended /\ Window[e][1] <= now /\ now <= Window[e][2]

-----------------------------------------------------------------------------
Init ==
    /\ now = Epoch /\ ended = {}
    /\ seen = [w \in Workers |-> Empty([p \in Persons |-> 0])]
    /\ lastCheck = [w \in Workers |-> Empty(0)]
    /\ alerted = [w \in Workers |-> Empty({})]
    /\ imposter = [w \in Workers |-> Empty(0)]
    /\ thread = [t \in Threads |-> Idle]
    /\ alerts = <<>>
    /\ sighted = Empty([p \in Persons |-> 0]) /\ framed = Empty(0) /\ missed = FALSE
    /\ fails = 0 /\ restarts = 0

Tick ==
    /\ now < MaxTime
    /\ now' = now + 1
    /\ missed' = \/ missed \/ \E t \in Threads : ~At(t, "idle")
                 \/ (\E e \in Exams : Active(e)) /\ \A e \in Exams : framed[e] # now
    /\ UNCHANGED <<ended, dicts, thread, alerts, sighted, framed, bounds>>

\* Only the row: exam_mode.end_session is called nowhere.
EndExam(e) ==
    /\ e \notin ended
    /\ ended' = ended \cup {e}
    /\ UNCHANGED <<now, dicts, thread, alerts, history, bounds>>

\* get_active_exam, for a frame that shows some of the roster and, perhaps, a
\* large face that is not recognised: of the exams that are on, the last created.
GetActiveExam(t, view, large) ==
    /\ At(t, "idle")
    /\ \E e \in Exams :
          /\ Active(e) /\ \A f \in Exams : Active(f) => f <= e
          /\ thread' = [thread EXCEPT ![t] =
                          [Idle EXCEPT !.step = "observe", !.exam = e,
                                       !.view = view, !.large = large]]
    /\ UNCHANGED <<now, ended, dicts, alerts, history, bounds>>

Notes(s, view) == [p \in Persons |-> IF p \in view THEN now ELSE s[p]]

Throttled(t) == now - lastCheck[W(t)][E(t)] < CheckEvery
\* (Mutant of NextCheck: the interval starts afresh with every frame.)
NextCheckAlways(t) == now
NextCheck(t) == IF Throttled(t) THEN lastCheck[W(t)][E(t)] ELSE now

\* (Mutant of Seen: a frame between two checks is not noted.)
SeenAtChecks(t) ==
    IF Throttled(t) THEN seen[W(t)][E(t)] ELSE Notes(seen[W(t)][E(t)], thread[t].view)

\* _seen[eid][pid] = now, before the throttle.
Seen(t) == Notes(seen[W(t)][E(t)], thread[t].view)

Observe(t) ==
    /\ At(t, "observe")
    /\ seen' = Set(seen, t, Seen(t))
    /\ lastCheck' = Set(lastCheck, t, NextCheck(t))
    /\ thread' = [thread EXCEPT ![t] =
                    IF Throttled(t) THEN Idle
                    ELSE [@ EXCEPT !.step = "check", !.at = now, !.todo = Persons]]
    /\ sighted' = [sighted EXCEPT ![E(t)] = Notes(@, thread[t].view)]
    /\ framed' = [framed EXCEPT ![E(t)] = now] /\ UNCHANGED missed
    /\ UNCHANGED <<now, ended, alerted, imposter, alerts, bounds>>

IsMissing(t, p) ==
    seen[W(t)][E(t)][p] < thread[t].at - Grace /\ p \notin alerted[W(t)][E(t)]

\* The next of the roster, in any order.
CheckPerson(t, p) ==
    /\ At(t, "check") /\ p \in thread[t].todo
    /\ thread' = [thread EXCEPT ![t] =
                    [thread[t] EXCEPT !.todo = @ \ {p},
                        !.person = IF IsMissing(t, p) THEN p ELSE "none",
                        !.step = IF IsMissing(t, p) THEN "log" ELSE "check"]]
    /\ UNCHANGED <<now, ended, dicts, alerts, history, bounds>>

Log(t, kind, p, last) ==
    alerts' = Append(alerts, [kind |-> kind, exam |-> E(t), person |-> p, at |-> thread[t].at, last |-> last])

\* log_exam_alert commits ...
LogMissing(t) ==
    /\ At(t, "log")
    /\ Log(t, "missing", thread[t].person, sighted[E(t)][thread[t].person])
    /\ thread' = [thread EXCEPT ![t].step = "mark"]
    /\ UNCHANGED <<now, ended, dicts, history, bounds>>

\* ... before the person is marked.
MarkAlerted(t) ==
    /\ At(t, "mark")
    /\ alerted' = Set(alerted, t, alerted[W(t)][E(t)] \cup {thread[t].person})
    /\ thread' = [thread EXCEPT ![t].step = "check"]
    /\ UNCHANGED <<now, ended, seen, lastCheck, imposter, alerts, history, bounds>>

IsImposter(t) == thread[t].large /\ thread[t].at - imposter[W(t)][E(t)] > ImposterGap

CheckImposter(t) ==
    /\ At(t, "check") /\ thread[t].todo = {}
    /\ thread' = [thread EXCEPT ![t] =
                    IF IsImposter(t) THEN [@ EXCEPT !.step = "logimposter"] ELSE Idle]
    /\ UNCHANGED <<now, ended, dicts, alerts, history, bounds>>

LogImposter(t) ==
    /\ At(t, "logimposter")
    /\ Log(t, "imposter", "unknown", 0)
    /\ thread' = [thread EXCEPT ![t].step = "markimposter"]
    /\ UNCHANGED <<now, ended, dicts, history, bounds>>

MarkImposter(t) ==
    /\ At(t, "markimposter")
    /\ imposter' = Set(imposter, t, thread[t].at)
    /\ thread' = [thread EXCEPT ![t] = Idle]
    /\ UNCHANGED <<now, ended, seen, lastCheck, alerted, alerts, history, bounds>>

\* The INSERT raises (database locked): the frame is lost, and the check with it.
Fail(t) ==
    /\ thread[t].step \in {"log", "logimposter"} /\ fails + restarts < MaxFaults
    /\ fails' = fails + 1
    /\ thread' = [thread EXCEPT ![t] = Idle]
    /\ UNCHANGED <<now, ended, dicts, alerts, history, restarts>>

Restart(w) ==
    /\ fails + restarts < MaxFaults
    /\ restarts' = restarts + 1
    /\ seen' = [seen EXCEPT ![w] = Empty([p \in Persons |-> 0])]
    /\ lastCheck' = [lastCheck EXCEPT ![w] = Empty(0)]
    /\ alerted' = [alerted EXCEPT ![w] = Empty({})]
    /\ imposter' = [imposter EXCEPT ![w] = Empty(0)]
    /\ thread' = [t \in Threads |-> IF W(t) = w THEN Idle ELSE thread[t]]
    /\ UNCHANGED <<now, ended, alerts, history, fails>>

Frame(t) ==
    \/ \E view \in SUBSET Persons, large \in BOOLEAN : GetActiveExam(t, view, large)
    \/ Observe(t)
    \/ \E p \in Persons : CheckPerson(t, p)
    \/ LogMissing(t) \/ MarkAlerted(t)
    \/ CheckImposter(t) \/ LogImposter(t) \/ MarkImposter(t)
    \/ Fail(t)

Next ==
    \/ Tick
    \/ \E e \in Exams : EndExam(e)
    \/ \E t \in Threads : Frame(t)
    \/ \E w \in Workers : Restart(w)

Spec == Init /\ [][Next]_vars

-----------------------------------------------------------------------------
(* Properties.                                                             *)

Missing == {i \in DOMAIN alerts : alerts[i].kind = "missing"}
Imposters == {i \in DOMAIN alerts : alerts[i].kind = "imposter"}

\* "no sighting in last 90s" is true of the person: no frame of the exam showed
\* them then, those between two checks included.  (Until a process is replaced:
\* the new one has seen nobody.)  And a person is alerted about at most once per
\* exam by every process there was, however the write, its failures and the mark
\* that follows it fall; and of imposters "we only log once per minute", each
\* process that there was.
AlertsAreTrueOnce ==
    LET each == Cardinality(Workers) + restarts IN
    /\ restarts = 0 => \A i \in Missing : alerts[i].last < alerts[i].at - Grace
    /\ \A e \in Exams, p \in Persons :
          Cardinality({i \in Missing : alerts[i].exam = e /\ alerts[i].person = p}) <= each
    /\ \A i \in Imposters :
          Cardinality({j \in Imposters :
                          /\ alerts[j].exam = alerts[i].exam
                          /\ alerts[j].at \in (alerts[i].at - ImposterGap)..alerts[i].at}) <= each

Patience == Grace + CheckEvery * (1 + fails + restarts)
Reported(e, p) == \E i \in Missing : alerts[i].exam = e /\ alerts[i].person = p

\* With frames in every tick, nobody is out of view for the grace period and an
\* interval between checks (one more for each alert that could not be written and
\* for each restart) without an alert, however frames, checks and failures fall.
AbsenteesAreReported ==
    [][now' > now /\ ~missed' =>
         \A e \in Exams, p \in Persons :
            /\ Active(e) /\ Window[e][1] + Patience < now
            /\ sighted[e][p] + Patience < now
            => Reported(e, p)]_vars
=============================================================================
