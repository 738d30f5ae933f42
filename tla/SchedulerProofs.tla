-------------------------- MODULE SchedulerProofs --------------------------
(***************************************************************************)
(* Theorems about Scheduler, for any number of processes, days, slow ticks *)
(* and faults.                                                             *)
(*                                                                         *)
(* The bound on runs (Accounted) is a count of processes: while cron_<job> *)
(* does not name today, each run of today is of a process that is about to *)
(* mark it, or is accounted for by a fault; once it does, only those that  *)
(* had looked before may still begin.  What a tick has passed by is begun  *)
(* (PassedIsBegun), as long as ticks see the slot they run in (InSlot).    *)
(***************************************************************************)
EXTENDS Scheduler, TLAPS, FiniteSetTheorems

Steps == {"asleep", "off", "check", "run", "mark"}
Place == [step : Steps, hm : Int, sunday : BOOLEAN, job : 1..6]

TypeOK ==
    /\ day \in Nat /\ slot \in Int
    /\ cron \in [JobSet -> Int]
    /\ thread \in [Processes -> Place]
    /\ swept \subseteq Processes
    /\ begun \in [JobSet -> Nat]
    /\ slow \in Nat /\ failures \in Nat /\ crashes \in Nat

CronIsPast == \A j \in JobSet : cron[j] <= day

Running(j) == {p \in Processes : At(p, "run") /\ JobOf(p) = j}
Marking(j) == {p \in Processes : At(p, "mark") /\ JobOf(p) = j}
Accounted ==
    \A j \in JobSet :
       IF cron[j] = day
       THEN begun[j] + Cardinality(Running(j)) <= Cardinality(Processes) + crashes + failures
       ELSE begun[j] <= Cardinality(Marking(j)) + crashes + failures

Ticking(p) == thread[p].step \in {"check", "run", "mark"}
DueNow(j) == Due(j, slot, day \in Sundays)

\* What holds as long as every tick ends in the slot it begins in.
InSlot == \A p \in Processes :
    Ticking(p) => thread[p].hm = slot /\ thread[p].sunday = (day \in Sundays)
CronIsBegun == \A j \in JobSet : cron[j] = day => begun[j] >= 1
PassedIsBegun == \A p \in Processes :
    /\ Ticking(p) => \A i \in 1..(thread[p].job - 1) : DueNow(Jobs[i]) => begun[Jobs[i]] >= 1
    /\ At(p, "mark") => begun[JobOf(p)] >= 1
SweptIsBegun == swept # {} => \A j \in JobSet : DueNow(j) => begun[j] >= 1
Prompt == InSlot /\ CronIsBegun /\ PassedIsBegun /\ SweptIsBegun

IInv == TypeOK /\ CronIsPast /\ Accounted /\ (slow = 0 => Prompt)

-----------------------------------------------------------------------------
LEMMA JobsAre ==
    /\ Len(Jobs) = 6 /\ DOMAIN Jobs = 1..6
    /\ \A i \in 1..6 : Jobs[i] \in JobSet
    /\ \A j \in JobSet : \E i \in 1..6 : j = Jobs[i]
<1>1. Len(Jobs) = 6
  BY DEF Jobs
<1>2. DOMAIN Jobs = 1..6
  BY DEF Jobs
<1>3. QED  BY <1>1, <1>2 DEF JobSet

LEMMA AsleepIs ==
    /\ Asleep \in Place /\ Asleep.step = "asleep"
    /\ Off \in Place /\ Off.step = "off"
<1>1. Asleep \in Place /\ Asleep.step = "asleep"
  BY DEF Asleep, Place, Steps
<1>2. Off \in Place /\ Off.step = "off"
  BY <1>1 DEF Off, Place, Steps
<1>3. QED  BY <1>1, <1>2

\* Counting processes.
LEMMA Counts ==
    ASSUME NEW j
    PROVE  /\ IsFiniteSet(Running(j)) /\ IsFiniteSet(Marking(j))
           /\ Cardinality(Running(j)) \in Nat /\ Cardinality(Marking(j)) \in Nat
           /\ Cardinality(Processes) \in Nat
           /\ Cardinality(Running(j)) <= Cardinality(Processes)
           /\ Cardinality(Running(j)) + Cardinality(Marking(j)) <= Cardinality(Processes)
<1>1. IsFiniteSet(Processes) /\ Running(j) \subseteq Processes /\ Marking(j) \subseteq Processes
  BY SchedulerAssumption DEF Running, Marking
<1>2. IsFiniteSet(Running(j)) /\ IsFiniteSet(Marking(j))
      /\ Cardinality(Running(j)) <= Cardinality(Processes)
  BY <1>1, FS_Subset
<1>3. /\ Cardinality(Running(j)) \in Nat /\ Cardinality(Marking(j)) \in Nat
      /\ Cardinality(Processes) \in Nat
  BY <1>1, <1>2, FS_CardinalityType
<1>4. Running(j) \cap Marking(j) = {}
  BY DEF Running, Marking, At
<1>5. Cardinality(Running(j) \cup Marking(j))
          = Cardinality(Running(j)) + Cardinality(Marking(j))
  <2>1. Cardinality(Running(j) \cap Marking(j)) = 0
    BY <1>4, FS_EmptySet
  <2>2. Cardinality(Running(j) \cup Marking(j))
            = Cardinality(Running(j)) + Cardinality(Marking(j))
              - Cardinality(Running(j) \cap Marking(j))
    BY <1>2, FS_Union
  <2>3. QED  BY <1>3, <2>1, <2>2
<1>6. Cardinality(Running(j) \cup Marking(j)) <= Cardinality(Processes)
  <2>1. Running(j) \cup Marking(j) \in SUBSET Processes
    BY <1>1
  <2>2. QED  BY <1>1, <2>1, FS_Subset
<1>7. QED  BY <1>2, <1>3, <1>5, <1>6

\* What the next run of the job may rely on, in either case of Accounted.
LEMMA RoomToBegin ==
    ASSUME TypeOK, Accounted, NEW j \in JobSet
    PROVE  begun[j] + Cardinality(Running(j)) <= Cardinality(Processes) + crashes + failures
<1>1. begun[j] \in Nat /\ crashes \in Nat /\ failures \in Nat
  BY DEF TypeOK
<1>2. CASE cron[j] = day
  BY <1>2 DEF Accounted
<1>3. CASE cron[j] # day
  <2>1. begun[j] <= Cardinality(Marking(j)) + crashes + failures
    BY <1>3 DEF Accounted
  <2>2. QED  BY <1>1, <2>1, Counts
<1>4. QED  BY <1>2, <1>3

\* One process moves; a set of processes changes by that process at most.
LEMMA Moved ==
    ASSUME TypeOK, NEW p \in Processes, NEW to \in Place,
           thread' = [thread EXCEPT ![p] = to]
    PROVE  /\ thread' \in [Processes -> Place] /\ thread'[p] = to
           /\ \A q \in Processes \ {p} : thread'[q] = thread[q]
BY DEF TypeOK

LEMMA InOut ==
    ASSUME NEW A, NEW B, NEW p, IsFiniteSet(A), IsFiniteSet(B), A \ {p} = B \ {p}
    PROVE  /\ Cardinality(A) \in Nat /\ Cardinality(B) \in Nat
           /\ p \in A /\ p \notin B => Cardinality(B) = Cardinality(A) - 1
           /\ p \notin A /\ p \in B => Cardinality(B) = Cardinality(A) + 1
           /\ (p \in A <=> p \in B) => B = A
<1>1. Cardinality(A) \in Nat /\ Cardinality(B) \in Nat
  BY FS_CardinalityType
<1>2. ASSUME p \in A, p \notin B PROVE Cardinality(B) = Cardinality(A) - 1
  <2>1. B = A \ {p}
    BY <1>2
  <2>2. QED  BY <1>2, <2>1, FS_RemoveElement
<1>3. ASSUME p \notin A, p \in B PROVE Cardinality(B) = Cardinality(A) + 1
  <2>1. B = A \cup {p}
    BY <1>3
  <2>2. QED  BY <1>3, <2>1, FS_AddElement
<1>4. ASSUME p \in A <=> p \in B PROVE B = A
  BY <1>4
<1>5. QED  BY <1>1, <1>2, <1>3, <1>4

LEMMA MovedSets ==
    ASSUME TypeOK, NEW p \in Processes, NEW to \in Place,
           thread' = [thread EXCEPT ![p] = to], NEW j
    PROVE  /\ IsFiniteSet(Running(j)') /\ IsFiniteSet(Marking(j)')
           /\ Running(j) \ {p} = Running(j)' \ {p} /\ Marking(j) \ {p} = Marking(j)' \ {p}
           /\ p \in Running(j) <=> At(p, "run") /\ JobOf(p) = j
           /\ p \in Marking(j) <=> At(p, "mark") /\ JobOf(p) = j
           /\ p \in Running(j)' <=> to.step = "run" /\ Jobs[to.job] = j
           /\ p \in Marking(j)' <=> to.step = "mark" /\ Jobs[to.job] = j
<1>1. /\ thread'[p] = to /\ \A q \in Processes \ {p} : thread'[q] = thread[q]
  BY Moved
<1>2. IsFiniteSet(Running(j)') /\ IsFiniteSet(Marking(j)')
  <2>1. Running(j)' \in SUBSET Processes /\ Marking(j)' \in SUBSET Processes
    BY DEF Running, Marking
  <2>2. QED  BY <2>1, SchedulerAssumption, FS_Subset
<1>3. QED  BY <1>1, <1>2 DEF Running, Marking, At, JobOf

Of(b) == IF b THEN 1 ELSE 0

\* How the counts of a job change when one process moves.
LEMMA MovedCounts ==
    ASSUME TypeOK, NEW p \in Processes, NEW to \in Place,
           thread' = [thread EXCEPT ![p] = to], NEW j
    PROVE  /\ Cardinality(Running(j))' = Cardinality(Running(j))
                 - Of(At(p, "run") /\ JobOf(p) = j) + Of(to.step = "run" /\ Jobs[to.job] = j)
           /\ Cardinality(Marking(j))' = Cardinality(Marking(j))
                 - Of(At(p, "mark") /\ JobOf(p) = j) + Of(to.step = "mark" /\ Jobs[to.job] = j)
           /\ Cardinality(Running(j))' \in Nat /\ Cardinality(Marking(j))' \in Nat
<1>1. IsFiniteSet(Running(j)) /\ IsFiniteSet(Marking(j))
  BY Counts
<1>2. Cardinality(Running(j)') = Cardinality(Running(j))
          - Of(p \in Running(j)) + Of(p \in Running(j)')
      /\ Cardinality(Running(j)') \in Nat
  <2>1. IsFiniteSet(Running(j)') /\ Running(j) \ {p} = Running(j)' \ {p}
    BY MovedSets
  <2>. HIDE DEF Running
  <2>2. QED  BY <1>1, <2>1, InOut DEF Of
<1>3. Cardinality(Marking(j)') = Cardinality(Marking(j))
          - Of(p \in Marking(j)) + Of(p \in Marking(j)')
      /\ Cardinality(Marking(j)') \in Nat
  <2>1. IsFiniteSet(Marking(j)') /\ Marking(j) \ {p} = Marking(j)' \ {p}
    BY MovedSets
  <2>2. QED  BY <1>1, <2>1, InOut DEF Of
<1>4. QED  BY <1>2, <1>3, MovedSets DEF Of

\* Nothing moves, or nothing but the clock does.
LEMMA UnmovedCounts ==
    ASSUME UNCHANGED thread, NEW j
    PROVE  Running(j)' = Running(j) /\ Marking(j)' = Marking(j)
BY DEF Running, Marking, At, JobOf

-----------------------------------------------------------------------------
LEMMA InitIInv == Init => IInv
<1>. SUFFICES ASSUME Init PROVE IInv
  OBVIOUS
<1>1. TypeOK
  <2>1. FirstSlot \in Int
    BY SchedulerAssumption
  <2>2. QED  BY <2>1, AsleepIs DEF Init, TypeOK, Never
<1>2. CronIsPast
  BY DEF Init, CronIsPast, Never
<1>3. Accounted
  <2>. SUFFICES ASSUME NEW j \in JobSet
                PROVE  cron[j] # day /\ begun[j] <= Cardinality(Marking(j)) + crashes + failures
    BY DEF Accounted
  <2>1. begun[j] = 0 /\ cron[j] # day /\ crashes = 0 /\ failures = 0
    BY DEF Init, Never
  <2>2. QED  BY <2>1, Counts
<1>4. Prompt
  BY AsleepIs DEF Init, Prompt, InSlot, CronIsBegun, PassedIsBegun, SweptIsBegun, Ticking, At, Never
<1>5. QED  BY <1>1, <1>2, <1>3, <1>4 DEF IInv

LEMMA PassKeeps == IInv /\ Pass => IInv'
<1>. SUFFICES ASSUME IInv, Pass PROVE IInv'
  OBVIOUS
<1>. USE DEF IInv
<1>0. UNCHANGED <<cron, thread, failures, crashes>> /\ swept' = {}
  BY DEF Pass
<1>1. /\ day \in Nat /\ day' \in Nat /\ slot' \in Int /\ day <= day'
      /\ \/ day' = day /\ begun' = begun
         \/ day' = day + 1 /\ begun' = [j \in JobSet |-> 0]
  BY DEF Pass, TypeOK
<1>2. TypeOK'
  <2>1. slow' \in Nat
    BY DEF Pass, TypeOK
  <2>2. QED  BY <1>0, <1>1, <2>1 DEF TypeOK
<1>3. CronIsPast'
  BY <1>0, <1>1 DEF CronIsPast, TypeOK
<1>4. Accounted'
  <2>. SUFFICES ASSUME NEW j \in JobSet
                PROVE  IF cron'[j] = day'
                       THEN begun'[j] + Cardinality(Running(j)')
                              <= Cardinality(Processes) + crashes' + failures'
                       ELSE begun'[j] <= Cardinality(Marking(j)') + crashes' + failures'
    BY DEF Accounted
  <2>1. Running(j)' = Running(j) /\ Marking(j)' = Marking(j)
    BY <1>0, UnmovedCounts
  <2>2. CASE day' = day /\ begun' = begun
    BY <1>0, <2>1, <2>2 DEF Accounted
  <2>3. CASE day' = day + 1 /\ begun' = [k \in JobSet |-> 0]
    <3>1. cron'[j] # day' /\ begun'[j] = 0
      BY <1>0, <1>1, <2>3 DEF CronIsPast, TypeOK
    <3>2. crashes' \in Nat /\ failures' \in Nat
      BY <1>2 DEF TypeOK
    <3>3. QED  BY <2>1, <3>1, <3>2, Counts
  <2>4. QED  BY <1>1, <2>2, <2>3
<1>5. ASSUME slow' = 0 PROVE Prompt'
  <2>1. slow = 0 /\ \A p \in Processes : ~Ticking(p)
    BY <1>5 DEF Pass, TypeOK, Ticking, At
  <2>2. \A p \in Processes : ~Ticking(p)' /\ ~At(p, "mark")'
    BY <1>0, <2>1 DEF Ticking, At
  <2>3. CronIsBegun'
    <3>1. CronIsBegun
      BY <2>1 DEF Prompt
    <3>2. CASE day' = day /\ begun' = begun
      BY <1>0, <3>1, <3>2 DEF CronIsBegun
    <3>3. CASE day' = day + 1
      BY <1>0, <1>1, <3>3 DEF CronIsBegun, CronIsPast, TypeOK
    <3>4. QED  BY <1>1, <3>2, <3>3
  <2>4. QED  BY <1>0, <2>2, <2>3 DEF Prompt, InSlot, PassedIsBegun, SweptIsBegun
<1>6. QED  BY <1>2, <1>3, <1>4, <1>5

\* A move of one process that begins, marks and faults nothing, and does not
\* put it before a run.
LEMMA StepsAside ==
    ASSUME IInv, NEW p \in Processes, NEW to \in Place,
           thread' = [thread EXCEPT ![p] = to],
           to.step \in {"asleep", "off", "check"}, ~At(p, "mark"),
           UNCHANGED <<clock, cron, begun, failures, crashes>>
    PROVE  Accounted'
<1>. SUFFICES ASSUME NEW j \in JobSet
              PROVE  IF cron[j] = day
                     THEN begun[j] + Cardinality(Running(j))'
                            <= Cardinality(Processes) + crashes + failures
                     ELSE begun[j] <= Cardinality(Marking(j))' + crashes + failures
  BY DEF Accounted, clock
<1>1. Cardinality(Running(j))' <= Cardinality(Running(j))
      /\ Cardinality(Marking(j))' = Cardinality(Marking(j))
      /\ Cardinality(Running(j))' \in Nat
  <2>1. /\ Cardinality(Running(j))' = Cardinality(Running(j))
              - Of(At(p, "run") /\ JobOf(p) = j) + Of(to.step = "run" /\ Jobs[to.job] = j)
        /\ Cardinality(Marking(j))' = Cardinality(Marking(j))
              - Of(At(p, "mark") /\ JobOf(p) = j) + Of(to.step = "mark" /\ Jobs[to.job] = j)
        /\ Cardinality(Running(j))' \in Nat
    BY MovedCounts DEF IInv
  <2>2. to.step # "run" /\ to.step # "mark"
    OBVIOUS
  <2>3. QED  BY <2>1, <2>2, Counts DEF Of
<1>2. QED  BY <1>1, Counts DEF IInv, Accounted, TypeOK

\* A move of one process to a place that sees the slot, and has only begun
\* jobs behind it.
LEMMA PromptMoves ==
    ASSUME TypeOK, Prompt, NEW p \in Processes, NEW to \in Place,
           thread' = [thread EXCEPT ![p] = to], UNCHANGED clock,
           \A j \in JobSet : begun'[j] \in Nat /\ begun'[j] >= begun[j],
           to.step \in {"check", "run", "mark"} =>
              /\ to.hm = slot /\ to.sunday = (day \in Sundays)
              /\ \A i \in 1..(to.job - 1) : DueNow(Jobs[i]) => begun'[Jobs[i]] >= 1,
           to.step = "mark" => begun'[Jobs[to.job]] >= 1
    PROVE  InSlot' /\ PassedIsBegun'
<1>1. /\ thread'[p] = to /\ \A q \in Processes \ {p} : thread'[q] = thread[q]
      /\ \A q \in Processes : thread[q] \in Place /\ thread[q].job \in 1..6
  BY Moved DEF TypeOK, Place
<1>2. \A j : DueNow(j)' = DueNow(j)
  BY DEF DueNow, Due, clock
<1>3. InSlot'
  BY <1>1 DEF Prompt, InSlot, Ticking, clock
<1>4. PassedIsBegun'
  <2>. SUFFICES ASSUME NEW q \in Processes
                PROVE  /\ Ticking(q)' => \A i \in 1..(thread'[q].job - 1) :
                                            DueNow(Jobs[i])' => begun'[Jobs[i]] >= 1
                       /\ At(q, "mark")' => begun'[JobOf(q)'] >= 1
    BY DEF PassedIsBegun
  <2>1. CASE q = p
    BY <1>1, <1>2, <2>1 DEF Ticking, At, JobOf
  <2>2. CASE q # p
    <3>1. thread'[q] = thread[q]
      BY <1>1, <2>2
    <3>2. \A j \in JobSet : begun[j] >= 1 => begun'[j] >= 1
      BY DEF TypeOK
    <3>3. ASSUME Ticking(q)', NEW i \in 1..(thread'[q].job - 1), DueNow(Jobs[i])'
          PROVE  begun'[Jobs[i]] >= 1
      <4>1. i \in 1..6 /\ begun[Jobs[i]] >= 1
        BY <1>1, <1>2, <3>1, <3>3 DEF Prompt, PassedIsBegun, Ticking
      <4>2. QED  BY <3>2, <4>1, JobsAre
    <3>4. ASSUME At(q, "mark")'
          PROVE  begun'[JobOf(q)'] >= 1
      <4>1. JobOf(q)' = JobOf(q) /\ JobOf(q) \in JobSet /\ begun[JobOf(q)] >= 1
        BY <1>1, <3>1, <3>4, JobsAre DEF Prompt, PassedIsBegun, At, JobOf
      <4>2. QED  BY <3>2, <4>1
    <3>5. QED  BY <3>3, <3>4
  <2>3. QED  BY <2>1, <2>2
<1>5. QED  BY <1>3, <1>4

\* NextJob moves the process on to the next job, or to sleep after the last.
LEMMA NextJobGoes ==
    ASSUME TypeOK, NEW p \in Processes, NextJob(p)
    PROVE  \E to \in Place :
              /\ thread' = [thread EXCEPT ![p] = to]
              /\ \/ /\ to.step = "check" /\ to.job = thread[p].job + 1
                    /\ to.hm = thread[p].hm /\ to.sunday = thread[p].sunday
                    /\ swept' = swept
                 \/ to.step = "asleep" /\ thread[p].job = 6 /\ swept' = swept \cup {p}
<1>0. thread[p] \in Place /\ thread[p].job \in 1..6
  BY DEF TypeOK, Place
<1>1. CASE thread[p].job < 6
  <2>. DEFINE to == [step |-> "check", hm |-> thread[p].hm, sunday |-> thread[p].sunday,
                     job |-> thread[p].job + 1]
  <2>2. thread[p].job < Len(Jobs)
    BY <1>0, <1>1, JobsAre
  <2>3. /\ thread' = [thread EXCEPT ![p] = to] /\ swept' = swept
    BY <2>2 DEF NextJob
  <2>4. /\ to \in Place /\ to.step = "check" /\ to.job = thread[p].job + 1
        /\ to.hm = thread[p].hm /\ to.sunday = thread[p].sunday
    BY <1>0, <1>1 DEF Place, Steps
  <2>. HIDE DEF to
  <2>5. QED  BY <2>3, <2>4
<1>2. CASE thread[p].job = 6
  BY <1>2, AsleepIs, JobsAre DEF NextJob
<1>3. QED  BY <1>0, <1>1, <1>2

LEMMA WakeKeeps == ASSUME IInv, NEW p \in Processes, Wake(p) PROVE IInv'
<1>. DEFINE to == [step |-> "check", hm |-> slot, sunday |-> day \in Sundays, job |-> 1]
<1>0. to \in Place /\ to.step = "check" /\ to.hm = slot
      /\ to.sunday = (day \in Sundays) /\ to.job = 1
  BY DEF Place, Steps, IInv, TypeOK
<1>1. /\ thread' = [thread EXCEPT ![p] = to] /\ At(p, "asleep")
      /\ UNCHANGED <<clock, cron, swept, history, failures, crashes>>
  BY DEF Wake
<1>. HIDE DEF to
<1>2. thread' \in [Processes -> Place] /\ thread'[p] = to
      /\ \A q \in Processes \ {p} : thread'[q] = thread[q]
  BY <1>0, <1>1, Moved DEF IInv
<1>3. TypeOK' /\ CronIsPast'
  BY <1>1, <1>2 DEF IInv, TypeOK, CronIsPast, clock, history
<1>4. Accounted'
  BY <1>0, <1>1, StepsAside DEF At, history
<1>5. ASSUME slow' = 0 PROVE Prompt'
  <2>1. Prompt
    BY <1>1, <1>5 DEF IInv, history
  <2>2. InSlot' /\ PassedIsBegun'
    <3>1. \A j \in JobSet : begun'[j] \in Nat /\ begun'[j] >= begun[j]
      BY <1>1 DEF IInv, TypeOK, history
    <3>2. \A i \in 1..(to.job - 1) : DueNow(Jobs[i]) => begun'[Jobs[i]] >= 1
      BY <1>0
    <3>3. QED  BY <1>0, <1>1, <2>1, <3>1, <3>2, PromptMoves DEF IInv
  <2>3. CronIsBegun' /\ SweptIsBegun'
    BY <1>1, <2>1 DEF Prompt, CronIsBegun, SweptIsBegun, DueNow, Due, clock, history
  <2>4. QED  BY <2>2, <2>3 DEF Prompt
<1>6. QED  BY <1>3, <1>4, <1>5 DEF IInv

\* The job the process is at has been begun, or is not due now: what lets the
\* process go on to the next.
LEMMA NextJobPrompt ==
    ASSUME TypeOK, Prompt, NEW p \in Processes, NextJob(p), Ticking(p),
           DueNow(JobOf(p)) => begun[JobOf(p)] >= 1, UNCHANGED <<clock, begun>>
    PROVE  InSlot' /\ PassedIsBegun' /\ SweptIsBegun'
<1>1. PICK to \in Place :
              /\ thread' = [thread EXCEPT ![p] = to]
              /\ \/ /\ to.step = "check" /\ to.job = thread[p].job + 1
                    /\ to.hm = thread[p].hm /\ to.sunday = thread[p].sunday
                    /\ swept' = swept
                 \/ to.step = "asleep" /\ thread[p].job = 6 /\ swept' = swept \cup {p}
  BY NextJobGoes
<1>2. /\ thread[p].job \in 1..6 /\ thread[p].hm = slot /\ thread[p].sunday = (day \in Sundays)
      /\ \A i \in 1..thread[p].job : DueNow(Jobs[i]) => begun[Jobs[i]] >= 1
  <2>1. thread[p].job \in 1..6 /\ thread[p].hm = slot /\ thread[p].sunday = (day \in Sundays)
    BY DEF TypeOK, Place, Prompt, InSlot
  <2>2. \A i \in 1..(thread[p].job - 1) : DueNow(Jobs[i]) => begun[Jobs[i]] >= 1
    BY DEF Prompt, PassedIsBegun
  <2>3. DueNow(Jobs[thread[p].job]) => begun[Jobs[thread[p].job]] >= 1
    BY DEF JobOf
  <2>4. ASSUME NEW i \in 1..thread[p].job, DueNow(Jobs[i]) PROVE begun[Jobs[i]] >= 1
    <3>1. i = thread[p].job \/ i \in 1..(thread[p].job - 1)
      BY <2>1
    <3>2. QED  BY <2>2, <2>3, <2>4, <3>1
  <2>5. QED  BY <2>1, <2>4
<1>3. \A j \in JobSet : begun'[j] \in Nat /\ begun'[j] >= begun[j]
  BY DEF TypeOK
<1>4. InSlot' /\ PassedIsBegun'
  <2>1. to.step = "check" =>
              /\ to.hm = slot /\ to.sunday = (day \in Sundays)
              /\ \A i \in 1..(to.job - 1) : DueNow(Jobs[i]) => begun'[Jobs[i]] >= 1
    BY <1>1, <1>2
  <2>2. to.step \notin {"run", "mark"}
    BY <1>1
  <2>3. QED  BY <1>1, <1>3, <2>1, <2>2, PromptMoves
<1>5. SweptIsBegun'
  <2>1. \A j : DueNow(j)' = DueNow(j)
    BY DEF DueNow, Due, clock
  <2>2. CASE swept' = swept
    BY <2>1, <2>2 DEF Prompt, SweptIsBegun
  <2>3. CASE thread[p].job = 6
    <3>1. \A j \in JobSet : DueNow(j) => begun[j] >= 1
      BY <1>2, <2>3, JobsAre
    <3>2. QED  BY <2>1, <3>1 DEF SweptIsBegun
  <2>4. QED  BY <1>1, <2>2, <2>3
<1>6. QED  BY <1>4, <1>5

LEMMA CheckKeeps == ASSUME IInv, NEW p \in Processes, Check(p) PROVE IInv'
<1>0. UNCHANGED <<clock, cron, begun, slow, failures, crashes>> /\ At(p, "check")
      /\ Ticking(p) /\ thread[p] \in Place
  BY DEF Check, history, Ticking, At, IInv, TypeOK
<1>1. CASE /\ Due(JobOf(p), thread[p].hm, thread[p].sunday) /\ cron[JobOf(p)] # day
  <2>. DEFINE to == [thread[p] EXCEPT !.step = "run"]
  <2>1. thread' = [thread EXCEPT ![p] = to] /\ swept' = swept
    BY <1>0, <1>1 DEF Check, Go, IInv, TypeOK
  <2>2. /\ to \in Place /\ to.step = "run" /\ to.job = thread[p].job
        /\ to.hm = thread[p].hm /\ to.sunday = thread[p].sunday
    BY <1>0 DEF Place, Steps
  <2>. HIDE DEF to
  <2>3. TypeOK' /\ CronIsPast'
    BY <1>0, <2>1, <2>2, Moved DEF IInv, TypeOK, CronIsPast, clock
  <2>4. Accounted'
    <3>. SUFFICES ASSUME NEW j \in JobSet
                  PROVE  IF cron[j] = day
                         THEN begun[j] + Cardinality(Running(j))'
                                <= Cardinality(Processes) + crashes + failures
                         ELSE begun[j] <= Cardinality(Marking(j))' + crashes + failures
      BY <1>0 DEF Accounted, clock
    <3>1. /\ Cardinality(Running(j))' = Cardinality(Running(j))
               - Of(At(p, "run") /\ JobOf(p) = j) + Of(to.step = "run" /\ Jobs[to.job] = j)
          /\ Cardinality(Marking(j))' = Cardinality(Marking(j))
               - Of(At(p, "mark") /\ JobOf(p) = j) + Of(to.step = "mark" /\ Jobs[to.job] = j)
      <4>1. thread' = [thread EXCEPT ![p] = to] /\ to \in Place
        BY <2>1, <2>2
      <4>. HIDE DEF to
      <4>2. TypeOK
        BY DEF IInv
      <4>3. QED  BY <4>1, <4>2, MovedCounts
    <3>2. ~At(p, "run") /\ ~At(p, "mark") /\ to.step # "mark" /\ (cron[j] = day => Jobs[to.job] # j)
      BY <1>0, <1>1, <2>2 DEF At, JobOf
    <3>3. QED  BY <3>1, <3>2, Counts DEF IInv, Accounted, Of
  <2>5. ASSUME slow' = 0 PROVE Prompt'
    <3>1. Prompt
      BY <1>0, <2>5 DEF IInv
    <3>2. \A j \in JobSet : begun'[j] \in Nat /\ begun'[j] >= begun[j]
      BY <1>0 DEF IInv, TypeOK
    <3>3. /\ to.hm = slot /\ to.sunday = (day \in Sundays)
          /\ \A i \in 1..(to.job - 1) : DueNow(Jobs[i]) => begun'[Jobs[i]] >= 1
      BY <1>0, <2>2, <3>1 DEF Prompt, InSlot, PassedIsBegun
    <3>4. InSlot' /\ PassedIsBegun'
      BY <1>0, <2>1, <2>2, <3>1, <3>2, <3>3, PromptMoves DEF IInv
    <3>5. CronIsBegun' /\ SweptIsBegun'
      BY <1>0, <2>1, <3>1 DEF Prompt, CronIsBegun, SweptIsBegun, DueNow, Due, clock
    <3>6. QED  BY <3>4, <3>5 DEF Prompt
  <2>6. QED  BY <2>3, <2>4, <2>5 DEF IInv
<1>2. CASE ~(Due(JobOf(p), thread[p].hm, thread[p].sunday) /\ cron[JobOf(p)] # day)
  <2>1. NextJob(p)
    BY <1>2 DEF Check
  <2>2. PICK to \in Place :
              /\ thread' = [thread EXCEPT ![p] = to] /\ to.step \in {"check", "asleep"}
              /\ swept' \subseteq Processes
    BY <2>1, NextJobGoes DEF IInv, TypeOK
  <2>3. TypeOK' /\ CronIsPast'
    BY <1>0, <2>2, Moved DEF IInv, TypeOK, CronIsPast, clock
  <2>4. Accounted'
    BY <1>0, <2>2, StepsAside DEF At
  <2>5. ASSUME slow' = 0 PROVE Prompt'
    <3>1. Prompt
      BY <1>0, <2>5 DEF IInv
    <3>2. JobOf(p) \in JobSet
      BY <1>0, JobsAre DEF JobOf, Place
    <3>3. DueNow(JobOf(p)) => begun[JobOf(p)] >= 1
      BY <1>0, <1>2, <3>1, <3>2 DEF Prompt, InSlot, CronIsBegun, DueNow
    <3>4. InSlot' /\ PassedIsBegun' /\ SweptIsBegun'
      BY <1>0, <2>1, <3>1, <3>3, NextJobPrompt DEF IInv
    <3>5. CronIsBegun'
      BY <1>0, <3>1 DEF Prompt, CronIsBegun, clock
    <3>6. QED  BY <3>4, <3>5 DEF Prompt
  <2>6. QED  BY <2>3, <2>4, <2>5 DEF IInv
<1>3. QED  BY <1>1, <1>2

\* A job begins: the process goes on to mark it, or a failure is counted.
LEMMA BeginKeeps ==
    ASSUME IInv, NEW p \in Processes, NEW to \in Place, At(p, "run"),
           thread' = [thread EXCEPT ![p] = to], Begin(JobOf(p)),
           \/ to.step = "mark" /\ failures' = failures
           \/ to.step \in {"mark", "asleep"} /\ failures' = failures + 1,
           to.step = "mark" => to = [thread[p] EXCEPT !.step = "mark"],
           UNCHANGED <<clock, cron, swept, crashes>>
    PROVE  IInv'
<1>0. /\ thread[p] \in Place /\ JobOf(p) \in JobSet /\ Ticking(p)
      /\ \A j \in JobSet : begun[j] \in Nat
      /\ crashes \in Nat /\ failures \in Nat
  BY JobsAre DEF IInv, TypeOK, Place, JobOf, Ticking, At
<1>1. /\ begun' \in [JobSet -> Nat] /\ slow' = slow
      /\ \A j \in JobSet : begun'[j] = begun[j] + Of(JobOf(p) = j)
  BY <1>0 DEF Begin, Of, IInv, TypeOK
<1>2. to.step = "mark" => /\ to.job = thread[p].job /\ to.hm = thread[p].hm
                          /\ to.sunday = thread[p].sunday
  BY <1>0 DEF Place
<1>3. TypeOK' /\ CronIsPast'
  BY <1>0, <1>1, Moved DEF IInv, TypeOK, CronIsPast, clock
<1>4. Accounted'
  <2>. SUFFICES ASSUME NEW j \in JobSet
                PROVE  IF cron[j] = day
                       THEN begun'[j] + Cardinality(Running(j))'
                              <= Cardinality(Processes) + crashes + failures'
                       ELSE begun'[j] <= Cardinality(Marking(j))' + crashes + failures'
    BY DEF Accounted, clock
  <2>1. /\ Cardinality(Running(j))' = Cardinality(Running(j))
             - Of(At(p, "run") /\ JobOf(p) = j) + Of(to.step = "run" /\ Jobs[to.job] = j)
        /\ Cardinality(Marking(j))' = Cardinality(Marking(j))
             - Of(At(p, "mark") /\ JobOf(p) = j) + Of(to.step = "mark" /\ Jobs[to.job] = j)
    BY MovedCounts DEF IInv
  <2>2. ~At(p, "mark") /\ to.step # "run"
    BY DEF At
  <2>3. Cardinality(Running(j))' = Cardinality(Running(j)) - Of(JobOf(p) = j)
    BY <2>1, <2>2, Counts DEF Of
  <2>4. Cardinality(Marking(j))' =
           Cardinality(Marking(j)) + Of(to.step = "mark" /\ Jobs[to.job] = j)
    BY <2>1, <2>2, Counts DEF Of
  <2>5. \/ failures' = failures /\ (JobOf(p) = j => to.step = "mark" /\ Jobs[to.job] = j)
        \/ failures' = failures + 1
    BY <1>2 DEF JobOf
  <2>6. CASE cron[j] = day
    <3>1. begun[j] + Cardinality(Running(j)) <= Cardinality(Processes) + crashes + failures
      BY <2>6 DEF IInv, Accounted
    <3>2. QED  BY <1>0, <1>1, <2>3, <2>5, <2>6, <3>1, Counts DEF Of
  <2>7. CASE cron[j] # day
    <3>1. begun[j] <= Cardinality(Marking(j)) + crashes + failures
      BY <2>7 DEF IInv, Accounted
    <3>2. QED  BY <1>0, <1>1, <2>4, <2>5, <2>7, <3>1, Counts DEF Of
  <2>8. QED  BY <2>6, <2>7
<1>5. ASSUME slow' = 0 PROVE Prompt'
  <2>1. Prompt
    BY <1>1, <1>5 DEF IInv
  <2>2. \A j \in JobSet : begun'[j] \in Nat /\ begun'[j] >= begun[j]
    BY <1>0, <1>1 DEF Of
  <2>3. to.step = "mark" => begun'[Jobs[to.job]] >= 1
    BY <1>0, <1>1, <1>2 DEF Of, JobOf
  <2>4. to.step = "mark" =>
          /\ to.hm = slot /\ to.sunday = (day \in Sundays)
          /\ \A i \in 1..(to.job - 1) : DueNow(Jobs[i]) => begun'[Jobs[i]] >= 1
    <3>1. to.step = "mark" =>
          /\ to.hm = slot /\ to.sunday = (day \in Sundays)
          /\ \A i \in 1..(to.job - 1) : DueNow(Jobs[i]) => begun[Jobs[i]] >= 1
      BY <1>0, <1>2, <2>1 DEF Prompt, InSlot, PassedIsBegun
    <3>2. to.step = "mark" => \A i \in 1..(to.job - 1) : Jobs[i] \in JobSet
      BY <1>0, <1>2, JobsAre DEF Place
    <3>3. QED  BY <1>0, <2>2, <3>1, <3>2
  <2>5. InSlot' /\ PassedIsBegun'
    <3>1. to.step \notin {"check", "run"}
      OBVIOUS
    <3>2. QED  BY <2>1, <2>2, <2>3, <2>4, <3>1, PromptMoves DEF IInv
  <2>6. CronIsBegun' /\ SweptIsBegun'
    BY <1>0, <2>1, <2>2 DEF Prompt, CronIsBegun, SweptIsBegun, DueNow, Due, clock
  <2>7. QED  BY <2>5, <2>6 DEF Prompt
<1>6. QED  BY <1>3, <1>4, <1>5 DEF IInv

LEMMA RunKeeps == ASSUME IInv, NEW p \in Processes, Run(p) \/ Fail(p) PROVE IInv'
<1>. DEFINE to == [thread[p] EXCEPT !.step = "mark"]
<1>1. to \in Place /\ to.step = "mark"
  BY DEF IInv, TypeOK, Place, Steps
<1>2. Go(p, "mark") => thread' = [thread EXCEPT ![p] = to]
  BY DEF Go, IInv, TypeOK
<1>3. CASE Run(p)
  <2>1. /\ At(p, "run") /\ Begin(JobOf(p)) /\ thread' = [thread EXCEPT ![p] = to]
        /\ UNCHANGED <<clock, cron, swept, failures, crashes>>
    BY <1>2, <1>3 DEF Run
  <2>. HIDE DEF to
  <2>2. to = [thread[p] EXCEPT !.step = "mark"]
    BY DEF to
  <2>3. QED  BY <1>1, <2>1, <2>2, BeginKeeps
<1>4. CASE Fail(p)
  <2>1. /\ At(p, "run") /\ Begin(JobOf(p)) /\ failures' = failures + 1
        /\ \/ thread' = [thread EXCEPT ![p] = to]
           \/ thread' = [thread EXCEPT ![p] = Asleep]
        /\ UNCHANGED <<clock, cron, swept, crashes>>
    BY <1>2, <1>4 DEF Fail
  <2>. HIDE DEF to
  <2>2. to = [thread[p] EXCEPT !.step = "mark"]
    BY DEF to
  <2>3. CASE thread' = [thread EXCEPT ![p] = to]
    BY <1>1, <2>1, <2>2, <2>3, BeginKeeps
  <2>4. CASE thread' = [thread EXCEPT ![p] = Asleep]
    BY <2>1, <2>4, AsleepIs, BeginKeeps
  <2>5. QED  BY <2>1, <2>3, <2>4
<1>5. QED  BY <1>3, <1>4

LEMMA MarkKeeps == ASSUME IInv, NEW p \in Processes, Mark(p) PROVE IInv'
<1>0. /\ At(p, "mark") /\ NextJob(p) /\ Ticking(p) /\ thread[p] \in Place
      /\ JobOf(p) \in JobSet /\ day \in Nat
      /\ UNCHANGED <<clock, begun, slow, failures, crashes>>
      /\ cron' = [cron EXCEPT ![JobOf(p)] = day]
  BY JobsAre DEF Mark, history, Ticking, At, IInv, TypeOK, JobOf, Place
<1>1. PICK to \in Place :
              /\ thread' = [thread EXCEPT ![p] = to] /\ to.step \in {"check", "asleep"}
              /\ swept' \subseteq Processes
  BY <1>0, NextJobGoes DEF IInv, TypeOK
<1>2. /\ cron' \in [JobSet -> Int] /\ cron'[JobOf(p)] = day
      /\ \A j \in JobSet : j # JobOf(p) => cron'[j] = cron[j]
  BY <1>0 DEF IInv, TypeOK
<1>3. TypeOK' /\ CronIsPast'
  BY <1>0, <1>1, <1>2, Moved DEF IInv, TypeOK, CronIsPast, clock
<1>4. Accounted'
  <2>. SUFFICES ASSUME NEW j \in JobSet
                PROVE  IF cron'[j] = day
                       THEN begun[j] + Cardinality(Running(j))'
                              <= Cardinality(Processes) + crashes + failures
                       ELSE begun[j] <= Cardinality(Marking(j))' + crashes + failures
    BY <1>0 DEF Accounted, clock
  <2>1. /\ Cardinality(Running(j))' = Cardinality(Running(j))
             - Of(At(p, "run") /\ JobOf(p) = j) + Of(to.step = "run" /\ Jobs[to.job] = j)
        /\ Cardinality(Marking(j))' = Cardinality(Marking(j))
             - Of(At(p, "mark") /\ JobOf(p) = j) + Of(to.step = "mark" /\ Jobs[to.job] = j)
    BY <1>1, MovedCounts DEF IInv
  <2>2. ~At(p, "run") /\ to.step # "run" /\ to.step # "mark"
    BY <1>0, <1>1 DEF At
  <2>3. Cardinality(Running(j))' = Cardinality(Running(j))
    BY <2>1, <2>2, Counts DEF Of
  <2>4. cron'[j] # day =>
           Cardinality(Marking(j))' = Cardinality(Marking(j)) /\ cron[j] # day
    BY <1>2, <2>1, <2>2, Counts DEF Of
  <2>5. begun[j] + Cardinality(Running(j)) <= Cardinality(Processes) + crashes + failures
    BY RoomToBegin DEF IInv
  <2>6. QED  BY <2>3, <2>4, <2>5 DEF IInv, Accounted
<1>5. ASSUME slow' = 0 PROVE Prompt'
  <2>1. Prompt
    BY <1>0, <1>5 DEF IInv
  <2>2. begun[JobOf(p)] >= 1
    BY <1>0, <2>1 DEF Prompt, PassedIsBegun
  <2>3. InSlot' /\ PassedIsBegun' /\ SweptIsBegun'
    BY <1>0, <2>1, <2>2, NextJobPrompt DEF IInv
  <2>4. CronIsBegun'
    BY <1>0, <1>2, <2>1, <2>2 DEF Prompt, CronIsBegun, clock
  <2>5. QED  BY <2>3, <2>4 DEF Prompt
<1>6. QED  BY <1>3, <1>4, <1>5 DEF IInv

LEMMA CrashKeeps == ASSUME IInv, NEW p \in Processes, Crash(p) PROVE IInv'
<1>0. /\ thread' = [thread EXCEPT ![p] = Off] /\ crashes' = crashes + 1
      /\ swept' = swept \ {p}
      /\ UNCHANGED <<clock, cron, begun, slow, failures>>
  BY DEF Crash, history
<1>1. TypeOK' /\ CronIsPast'
  BY <1>0, AsleepIs, Moved DEF IInv, TypeOK, CronIsPast, clock
<1>2. Accounted'
  <2>. SUFFICES ASSUME NEW j \in JobSet
                PROVE  IF cron[j] = day
                       THEN begun[j] + Cardinality(Running(j))'
                              <= Cardinality(Processes) + crashes' + failures
                       ELSE begun[j] <= Cardinality(Marking(j))' + crashes' + failures
    BY <1>0 DEF Accounted, clock
  <2>1. /\ Cardinality(Running(j))' = Cardinality(Running(j))
             - Of(At(p, "run") /\ JobOf(p) = j) + Of(Off.step = "run" /\ Jobs[Off.job] = j)
        /\ Cardinality(Marking(j))' = Cardinality(Marking(j))
             - Of(At(p, "mark") /\ JobOf(p) = j) + Of(Off.step = "mark" /\ Jobs[Off.job] = j)
        /\ Cardinality(Running(j))' \in Nat
    <3>1. TypeOK /\ Off \in Place
      BY AsleepIs DEF IInv
    <3>2. QED  BY <1>0, <3>1, MovedCounts
  <2>2. Off.step # "run" /\ Off.step # "mark"
    BY AsleepIs
  <2>3. /\ Cardinality(Running(j))' <= Cardinality(Running(j))
        /\ Cardinality(Marking(j)) <= Cardinality(Marking(j))' + 1
        /\ Cardinality(Marking(j))' \in Int
    BY <2>1, <2>2, Counts DEF Of
  <2>4. crashes \in Nat /\ failures \in Nat /\ begun[j] \in Nat
    BY DEF IInv, TypeOK
  <2>5. CASE cron[j] = day
    <3>1. begun[j] + Cardinality(Running(j)) <= Cardinality(Processes) + crashes + failures
      BY <2>5 DEF IInv, Accounted
    <3>2. QED  BY <1>0, <2>1, <2>3, <2>4, <2>5, <3>1, Counts
  <2>6. CASE cron[j] # day
    <3>1. begun[j] <= Cardinality(Marking(j)) + crashes + failures
      BY <2>6 DEF IInv, Accounted
    <3>2. QED  BY <1>0, <2>3, <2>4, <2>6, <3>1, Counts
  <2>7. QED  BY <2>5, <2>6
<1>3. ASSUME slow' = 0 PROVE Prompt'
  <2>1. Prompt
    BY <1>0, <1>3 DEF IInv
  <2>2. \A j \in JobSet : begun'[j] \in Nat /\ begun'[j] >= begun[j]
    BY <1>0 DEF IInv, TypeOK
  <2>3. InSlot' /\ PassedIsBegun'
    BY <1>0, <2>1, <2>2, AsleepIs, PromptMoves DEF IInv
  <2>4. CronIsBegun' /\ SweptIsBegun'
    BY <1>0, <2>1 DEF Prompt, CronIsBegun, SweptIsBegun, DueNow, Due, clock
  <2>5. QED  BY <2>3, <2>4 DEF Prompt
<1>4. QED  BY <1>1, <1>2, <1>3 DEF IInv

LEMMA RestartKeeps == ASSUME IInv, NEW p \in Processes, Restart(p) PROVE IInv'
<1>0. /\ thread' = [thread EXCEPT ![p] = Asleep] /\ At(p, "off")
      /\ UNCHANGED <<clock, cron, swept, begun, slow, failures, crashes>>
  BY DEF Restart, history
<1>1. TypeOK' /\ CronIsPast'
  BY <1>0, AsleepIs, Moved DEF IInv, TypeOK, CronIsPast, clock
<1>2. Accounted'
  BY <1>0, AsleepIs, StepsAside DEF At
<1>3. ASSUME slow' = 0 PROVE Prompt'
  <2>1. Prompt
    BY <1>0, <1>3 DEF IInv
  <2>2. \A j \in JobSet : begun'[j] \in Nat /\ begun'[j] >= begun[j]
    BY <1>0 DEF IInv, TypeOK
  <2>3. InSlot' /\ PassedIsBegun'
    BY <1>0, <2>1, <2>2, AsleepIs, PromptMoves DEF IInv
  <2>4. CronIsBegun' /\ SweptIsBegun'
    BY <1>0, <2>1 DEF Prompt, CronIsBegun, SweptIsBegun, DueNow, Due, clock
  <2>5. QED  BY <2>3, <2>4 DEF Prompt
<1>4. QED  BY <1>1, <1>2, <1>3 DEF IInv

LEMMA NextIInv == IInv /\ [Next]_vars => IInv'
<1>. SUFFICES ASSUME IInv, [Next]_vars PROVE IInv'
  OBVIOUS
<1>1. CASE UNCHANGED vars
  <2>1. \A j : Running(j)' = Running(j) /\ Marking(j)' = Marking(j)
    BY <1>1, UnmovedCounts DEF vars
  <2>2. TypeOK' /\ CronIsPast' /\ Accounted'
    BY <1>1, <2>1 DEF vars, IInv, TypeOK, CronIsPast, Accounted
  <2>3. slow' = 0 => Prompt'
    BY <1>1 DEF vars, IInv, Prompt, InSlot, CronIsBegun, PassedIsBegun, SweptIsBegun,
                Ticking, At, JobOf, DueNow, Due
  <2>4. QED  BY <2>2, <2>3 DEF IInv
<1>2. CASE Pass
  BY <1>2, PassKeeps
<1>3. ASSUME NEW p \in Processes,
             Wake(p) \/ Check(p) \/ Run(p) \/ Fail(p) \/ Mark(p) \/ Crash(p) \/ Restart(p)
      PROVE  IInv'
  BY <1>3, WakeKeeps, CheckKeeps, RunKeeps, MarkKeeps, CrashKeeps, RestartKeeps
<1>4. QED  BY <1>1, <1>2, <1>3 DEF Next

LEMMA AlwaysIInv == Spec => []IInv
BY InitIInv, NextIInv, PTL DEF Spec

\* Of one job at most one run a day is begun for each process, and one for each
\* failure or crash: whatever the interleaving of the processes' looks at
\* cron_<job> with each other's marks, and however slow the ticks are.
THEOREM RunsAccountedFor == Spec => []ExtraRunsAccounted
<1>1. IInv => ExtraRunsAccounted
  <2>. SUFFICES ASSUME IInv, NEW j \in JobSet
                PROVE  begun[j] <= Cardinality(Processes) + crashes + failures
    BY DEF ExtraRunsAccounted
  <2>1. begun[j] + Cardinality(Running(j)) <= Cardinality(Processes) + crashes + failures
    BY RoomToBegin DEF IInv
  <2>2. begun[j] \in Nat /\ crashes \in Nat /\ failures \in Nat
    BY DEF IInv, TypeOK
  <2>3. QED  BY <2>1, <2>2, Counts
<1>2. QED  BY <1>1, AlwaysIInv, PTL

\* Whatever failures, crashes and late restarts came before, the end of a tick
\* finds every job that is due by now begun today.
THEOREM TicksCatchUp == Spec => []TickCatchesUp
<1>1. IInv => TickCatchesUp
  BY DEF IInv, Prompt, SweptIsBegun, TickCatchesUp, DueNow
<1>2. QED  BY <1>1, AlwaysIInv, PTL
=============================================================================
