----------------------------- MODULE Scheduler -----------------------------
(***************************************************************************)
(* scheduler.py: in each process of `python app.py` a daemon thread wakes  *)
(* every minute and runs the jobs of _tick that are due and that the       *)
(* setting cron_<job> does not say to have run today.                      *)
(*                                                                         *)
(* The clock is a day and a slot: slot n lasts from the n-th of the        *)
(* moments at which a job falls due to the next.                           *)
(***************************************************************************)
EXTENDS Integers, Sequences, FiniteSets

CONSTANTS Processes,   \* processes that run the thread
          Sundays,     \* the days on which the weekly job is due
          BackupOn,    \* setting backup_enabled
          MaxDays,     \* bound: days after the first
          FirstSlot,   \* bound: the slot of day 0 in which the system is installed
          MaxSlow,     \* bound: moments that pass before a tick has ended
          MaxFaults    \* bound: runs of jobs that raise, and deaths of processes

ASSUME SchedulerAssumption == IsFiniteSet(Processes) /\ FirstSlot \in 0..6

\* The order of _tick, and the slot from which each job is due.
Jobs == <<"purge", "timetable", "digest", "absent_alerts", "weekly_atrisk", "backup">>
JobSet == {Jobs[i] : i \in DOMAIN Jobs}
\* 00:00, 00:05, 00:10, 02:30, 11:00, 18:30, 20:00
LastSlot == 6
DueFrom == [purge |-> 1, timetable |-> 2, digest |-> 5, absent_alerts |-> 4,
            weekly_atrisk |-> 6, backup |-> 3]
Days == 0..MaxDays
Never == -1

VARIABLES day, slot,
          cron,   \* settings cron_<job>: the day written, or Never
          thread, \* [Processes -> the thread's place in _tick]
          swept,  \* processes that ended a tick of this slot
          begun,  \* history: [JobSet -> times begun today]
          slow,   \* history: times the clock went on before a tick of the slot had ended
          failures, crashes

vars == <<day, slot, cron, thread, swept, begun, slow, failures, crashes>>
clock == <<day, slot>>
history == <<begun, slow>>

Asleep == [step |-> "asleep", hm |-> 0, sunday |-> FALSE, job |-> 1]
Off == [Asleep EXCEPT !.step = "off"]
At(p, step) == thread[p].step = step
JobOf(p) == Jobs[thread[p].job]
Go(p, step) == thread' = [thread EXCEPT ![p].step = step]

Due(job, hm, sunday) ==
    /\ hm >= DueFrom[job]
    /\ job = "weekly_atrisk" => sunday
    /\ job = "backup" => BackupOn

-----------------------------------------------------------------------------
Init ==
    /\ day = 0 /\ slot = FirstSlot
    /\ cron = [j \in JobSet |-> Never]
    /\ thread = [p \in Processes |-> Asleep]
    /\ swept = {}
    /\ begun = [j \in JobSet |-> 0]
    /\ slow = 0
    /\ failures = 0 /\ crashes = 0

\* Time goes on.  A prompt system ticks in every slot, each of which has five
\* minutes at least, and never across the end of one.
Pass ==
    /\ IF \A p \in Processes : At(p, "off") \/ (At(p, "asleep") /\ p \in swept)
       THEN UNCHANGED slow
       ELSE slow < MaxSlow /\ slow' = slow + 1
    /\ \/ slot < LastSlot /\ slot' = slot + 1 /\ UNCHANGED <<day, begun>>
       \/ /\ slot = LastSlot /\ slot' = 0
          /\ day < MaxDays /\ day' = day + 1
          /\ begun' = [j \in JobSet |-> 0]
    /\ swept' = {}
    /\ UNCHANGED <<cron, thread, failures, crashes>>

\* _tick begins: the hour and the weekday are read once.
Wake(p) ==
    /\ At(p, "asleep")
    /\ thread' = [thread EXCEPT ![p] = [step |-> "check", hm |-> slot,
                                        sunday |-> day \in Sundays, job |-> 1]]
    /\ UNCHANGED <<clock, cron, swept, history, failures, crashes>>

\* (Mutant of NextJob: an elif chain, a tick runs one job at most.)
NextJobElif(p) ==
    /\ thread' = [thread EXCEPT ![p] = Asleep]
    /\ swept' = swept \cup {p}

\* The next if of _tick, or the end of it.
NextJob(p) ==
    IF thread[p].job < Len(Jobs)
    THEN /\ thread' = [thread EXCEPT ![p] = [step |-> "check", hm |-> @.hm,
                                           sunday |-> @.sunday, job |-> @.job + 1]]
         /\ UNCHANGED swept
    ELSE /\ thread' = [thread EXCEPT ![p] = Asleep]
         /\ swept' = swept \cup {p}

\* The hour of the tick's start, but _ran_today compares with today's date now.
Check(p) ==
    /\ At(p, "check")
    /\ IF /\ Due(JobOf(p), thread[p].hm, thread[p].sunday)
          /\ cron[JobOf(p)] # day
       THEN Go(p, "run") /\ UNCHANGED swept
       ELSE NextJob(p)
    /\ UNCHANGED <<clock, cron, history, failures, crashes>>

Begin(job) == begun' = [begun EXCEPT ![job] = @ + 1] /\ UNCHANGED slow

\* The job does its work for date.today().
Run(p) ==
    /\ At(p, "run")
    /\ Begin(JobOf(p))
    /\ Go(p, "mark")
    /\ UNCHANGED <<clock, cron, swept, failures, crashes>>

\* The job raises: _loop's except ends the tick; only the backup has a try of
\* its own.
Fail(p) ==
    /\ At(p, "run")
    /\ failures + crashes < MaxFaults /\ failures' = failures + 1
    /\ Begin(JobOf(p))
    /\ IF JobOf(p) = "backup" THEN Go(p, "mark")
       ELSE thread' = [thread EXCEPT ![p] = Asleep]
    /\ UNCHANGED <<clock, cron, swept, crashes>>

\* (Mutant of Mark: the job is not marked.)
MarkNot(p) ==
    /\ At(p, "mark")
    /\ NextJob(p)
    /\ UNCHANGED <<clock, cron, history, failures, crashes>>

\* _mark_ran: the day it is by now.
Mark(p) ==
    /\ At(p, "mark")
    /\ cron' = [cron EXCEPT ![JobOf(p)] = day]
    /\ NextJob(p)
    /\ UNCHANGED <<clock, history, failures, crashes>>

Crash(p) ==
    /\ ~At(p, "off")
    /\ failures + crashes < MaxFaults /\ crashes' = crashes + 1
    /\ thread' = [thread EXCEPT ![p] = Off]
    /\ swept' = swept \ {p}
    /\ UNCHANGED <<clock, cron, history, failures>>

\* start() of a new process.
Restart(p) ==
    /\ At(p, "off")
    /\ thread' = [thread EXCEPT ![p] = Asleep]
    /\ UNCHANGED <<clock, cron, swept, history, failures, crashes>>

Next ==
    \/ Pass
    \/ \E p \in Processes : Wake(p) \/ Check(p) \/ Run(p) \/ Fail(p) \/ Mark(p)
                            \/ Crash(p) \/ Restart(p)

Spec == Init /\ [][Next]_vars

-----------------------------------------------------------------------------
(* Properties.                                                             *)

\* The end of a tick finds no job due: whatever failures, crashes and late
\* restarts came before, each job due by now has been begun today (in a system
\* whose ticks end in the slot they begin in).
TickCatchesUp ==
    swept # {} /\ slow = 0 =>
       \A j \in JobSet : Due(j, slot, day \in Sundays) => begun[j] >= 1

\* Of one job at most one run a day is begun for each process, and one for each
\* crash or failure, however slow the ticks are: cron_<job> stops all others.
ExtraRunsAccounted ==
    \A j \in JobSet : begun[j] <= Cardinality(Processes) + crashes + failures

\* scheduler.py:10: "Tasks are idempotent and use a `last_run` setting key per job
\* so a process restart never re-runs a job that already ran today."  Of one
\* process, whose jobs do not raise and whose ticks are prompt.
RestartNeverReruns ==
    Cardinality(Processes) = 1 /\ failures = 0 /\ slow = 0 => \A j \in JobSet : begun[j] <= 1
=============================================================================
