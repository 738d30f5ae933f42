------------------------ MODULE ClassSessionsProofs ------------------------
(***************************************************************************)
(* Theorems about what MCClassSessions composes: the day's sessions        *)
(* (ClassSessions), for any timetable of a day and any number of threads,  *)
(* sessions, deleted subjects and crashes; processes that start on one     *)
(* database (Startup, St!), for any set of them; the 75% rule (Defaulters, *)
(* Df!), for any subjects, persons and threshold; and the administration   *)
(* console (Console, C!), over any tables of the schema and any number of  *)
(* rows.  Each has an invariant of its own; a step of MCNext is a step of  *)
(* that part or leaves it alone.                                           *)
(***************************************************************************)
EXTENDS MCClassSessions, TLAPS, FiniteSetTheorems

-----------------------------------------------------------------------------
(* The day.  The three properties speak of what is committed; the          *)
(* invariant says what a thread in the middle of a materialisation or of a *)
(* route may rely on: the slots behind it are planned in what it sees      *)
(* (BehindIsPlanned); of the rows it has not committed one at most doubles *)
(* a committed one (OneDouble), since it looked at the others with the     *)
(* lock; and while one route runs alone, the setting names a session, or   *)
(* the one that route is about to clear (SettingIsSettled).                *)
Session == [id : Nat, slot : AllSlots]
Steps == {"idle", "exists", "insert", "activate", "was_active", "clear", "mark"}
Job == [step : Steps, slot : Nat, id : Nat]

TypeOK ==
    /\ sessions \subseteq Session /\ pending \subseteq Session
    /\ ids \in Nat /\ active \in Nat /\ deletes \in Nat /\ crashes \in Nat
    /\ job \in [Threads -> Job]
    /\ \A t \in Threads : At(t, "exists") \/ At(t, "insert") => job[t].slot >= 1
    /\ \A t \in Threads : At(t, "insert") => job[t].slot <= Len(Slots)

\* The write lock is held by a materialisation, and by one at a time.
LockIsHeld ==
    /\ writer \subseteq Threads
    /\ \A t, u \in writer : t = u
    /\ \A t \in writer : At(t, "exists") \/ At(t, "insert")
    /\ writer = {} => pending = {}

Planned(slot, table) == OfSlot(table, slot) # {}
Ours(slot) == slot \notin touched /\ slot.subject \in subjects

BehindIsPlanned ==
    \A t \in Threads : At(t, "exists") \/ At(t, "insert") =>
        \A j \in 1..Len(Slots) : j < job[t].slot /\ Ours(Slots[j]) => Planned(Slots[j], Visible(t))

Doubles == {p \in pending : Planned(p.slot, sessions)}
OneDouble ==
    /\ \A p, q \in Doubles : p = q
    /\ \A t \in writer : At(t, "insert") => ~Planned(Slots[job[t].slot], sessions \cup pending)

InRoute(t) == job[t].step \in {"activate", "was_active", "clear"}
Settled == active \in {0} \cup IdsOf(sessions)
SettingIsSettled ==
    ~crossed /\ deletes = 0 /\ crashes = 0 =>
        /\ \A t, u \in Threads : InRoute(t) /\ InRoute(u) => t = u
        /\ (\A t \in Threads : ~InRoute(t)) => Settled
        /\ \A t \in Threads :
              /\ At(t, "activate") => Settled /\ job[t].id \in IdsOf(sessions)
              /\ At(t, "was_active") => Settled \/ active = job[t].id

IInv == TypeOK /\ LockIsHeld /\ BehindIsPlanned /\ AllSlotsOrNone /\ OneDouble /\ SettingIsSettled

-----------------------------------------------------------------------------
LEMMA SlotsAreASequence ==
    /\ Len(Slots) \in Nat /\ DOMAIN Slots = 1..Len(Slots)
    /\ \A i \in 1..Len(Slots) : Slots[i] \in AllSlots
    /\ \A slot \in AllSlots : \E i \in 1..Len(Slots) : slot = Slots[i]
BY SlotsAssumption DEF AllSlots

\* "All or none" in a form that does not speak of sets of slots.
AllOrNone ==
    \A a, b \in AllSlots : Ours(a) /\ Ours(b) /\ Planned(a, sessions) => Planned(b, sessions)
LEMMA AllOrNoneIs == AllSlotsOrNone <=> AllOrNone
<1> DEFINE planned == {slot \in AllSlots : OfSlot(sessions, slot) # {}}
           whole == {slot \in AllSlots \ touched : slot.subject \in subjects}
<1>1. AllSlotsOrNone <=> whole \cap planned \in {{}, whole}
  BY DEF AllSlotsOrNone
<1>2. \A slot \in AllSlots : /\ slot \in planned <=> Planned(slot, sessions)
                             /\ slot \in whole <=> Ours(slot)
  BY DEF Planned, Ours
<1>3. whole \subseteq AllSlots /\ planned \subseteq AllSlots
  OBVIOUS
<1> HIDE DEF planned, whole
<1>4. whole \cap planned \in {{}, whole} <=> \A a, b \in whole : a \in planned => b \in planned
  OBVIOUS
<1>5. QED  BY <1>1, <1>2, <1>3, <1>4 DEF AllOrNone

LEMMA AllOrNoneIsThen == AllSlotsOrNone' <=> AllOrNone'
BY AllOrNoneIs, PTL

\* What is planned in some rows is planned in more.
LEMMA PlannedGrows ==
    ASSUME NEW slot, NEW A, NEW B, A \subseteq B, Planned(slot, A)
    PROVE  Planned(slot, B)
BY DEF Planned, OfSlot

LEMMA InitIInv == Init => IInv
<1> SUFFICES ASSUME Init PROVE IInv  OBVIOUS
<1>1. \A t \in Threads : job[t] = Idle
  BY DEF Init
<1>2. TypeOK
  BY DEF Init, TypeOK, Idle, Job, Steps, At
<1>3. LockIsHeld /\ BehindIsPlanned /\ OneDouble /\ SettingIsSettled
  BY <1>1 DEF Init, LockIsHeld, BehindIsPlanned, OneDouble, Doubles, SettingIsSettled, At, Idle,
          InRoute, Settled
<1>4. AllSlotsOrNone
  BY AllOrNoneIs DEF Init, AllOrNone, Planned, OfSlot
<1>5. QED  BY <1>2, <1>3, <1>4 DEF IInv

-----------------------------------------------------------------------------
(* What the steps have in common.                                          *)

Moves(t, new) == job' = [job EXCEPT ![t] = new]

\* One thread moves on.
LEMMA Moved ==
    ASSUME TypeOK, NEW t \in Threads, NEW new \in Job, Moves(t, new)
    PROVE  /\ job' \in [Threads -> Job] /\ job'[t] = new
           /\ \A u \in Threads \ {t} : job'[u] = job[u]
BY DEF TypeOK, Moves

LEMMA IdleIsAJob == Idle \in Job /\ Idle.step = "idle"
BY DEF Idle, Job, Steps

LEMMA IdleWithId ==
    ASSUME NEW id \in Nat
    PROVE  LET new == [Idle EXCEPT !.step = "activate", !.id = id] IN
           new \in Job /\ new.step = "activate" /\ new.id = id
BY DEF Idle, Job, Steps

\* The types, for what is written and for where the thread goes.
LEMMA TypesKept ==
    ASSUME TypeOK, NEW t \in Threads, NEW new \in Job, Moves(t, new),
           new.step \in {"exists", "insert"} => new.slot >= 1,
           new.step = "insert" => new.slot <= Len(Slots),
           sessions' \subseteq Session, pending' \subseteq Session, ids' \in Nat,
           active' \in Nat, deletes' \in Nat, crashes' \in Nat
    PROVE  TypeOK'
<1>1. /\ job' \in [Threads -> Job] /\ job'[t] = new
      /\ \A u \in Threads \ {t} : job'[u] = job[u]
  BY Moved
<1>2. \A u \in Threads : At(u, "exists")' \/ At(u, "insert")' => job'[u].slot >= 1
  BY <1>1 DEF TypeOK, At
<1>3. \A u \in Threads : At(u, "insert")' => job'[u].slot <= Len(Slots)
  BY <1>1 DEF TypeOK, At
<1>4. QED  BY <1>1, <1>2, <1>3 DEF TypeOK

\* A step outside the routes, after which no session is missing.
LEMMA OffRoute ==
    ASSUME TypeOK, SettingIsSettled, NEW t \in Threads, NEW new \in Job, Moves(t, new),
           ~InRoute(t), new.step \notin {"activate", "was_active", "clear"},
           UNCHANGED <<active, crossed, deletes, crashes>>, sessions \subseteq sessions'
    PROVE  SettingIsSettled'
<1>1. job'[t] = new /\ \A u \in Threads \ {t} : job'[u] = job[u]
  BY Moved
<1>2. Settled => Settled'
  BY DEF Settled, IdsOf
<1>3. IdsOf(sessions) \subseteq IdsOf(sessions')
  BY DEF IdsOf
<1>4. \A u \in Threads : InRoute(u)' <=> InRoute(u)
  BY <1>1 DEF InRoute
<1>5. \A u \in Threads : InRoute(u) => u # t
  OBVIOUS
<1>6. \A u \in Threads : At(u, "activate") \/ At(u, "was_active") => InRoute(u)
  BY DEF At, InRoute
<1>7. \A u \in Threads : /\ At(u, "activate")' => At(u, "activate") /\ job'[u] = job[u]
                         /\ At(u, "was_active")' => At(u, "was_active") /\ job'[u] = job[u]
  BY <1>1 DEF At
<1>8. QED  BY <1>2, <1>3, <1>4, <1>7 DEF SettingIsSettled

\* Steps that write no table: what is left to show is where the thread has got to.
LEMMA NothingWritten ==
    ASSUME IInv, NEW t \in Threads, NEW new \in Job, Moves(t, new), NoData, active' \in Nat,
           t \in writer => new.step \in {"exists", "insert"},
           new.step \in {"exists", "insert"} =>
              /\ new.slot >= 1
              /\ \A j \in 1..Len(Slots) :
                    j < new.slot /\ Ours(Slots[j]) => Planned(Slots[j], Visible(t)),
           new.step = "insert" =>
              /\ new.slot <= Len(Slots)
              /\ t \in writer => ~Planned(Slots[new.slot], sessions \cup pending),
           SettingIsSettled'
    PROVE  IInv'
<1>1. job'[t] = new /\ \A u \in Threads \ {t} : job'[u] = job[u]
  BY Moved DEF IInv
<1>2. UNCHANGED <<subjects, sessions, ids, writer, pending, touched, deletes, crashes>>
  BY DEF NoData
<1>3. TypeOK'
  <2>1. sessions' \subseteq Session /\ pending' \subseteq Session /\ ids' \in Nat
        /\ deletes' \in Nat /\ crashes' \in Nat
    BY <1>2 DEF IInv, TypeOK
  <2>2. QED  BY <2>1, TypesKept DEF IInv
<1>4. LockIsHeld'
  BY <1>1, <1>2 DEF IInv, LockIsHeld, At
<1>5. BehindIsPlanned'
  <2>1. \A u : Visible(u)' = Visible(u)
    BY <1>2 DEF Visible
  <2>2. \A slot : Ours(slot)' <=> Ours(slot)
    BY <1>2 DEF Ours
  <2>3. QED  BY <1>1, <2>1, <2>2 DEF IInv, BehindIsPlanned, At, Planned, OfSlot
<1>6. AllSlotsOrNone'
  BY <1>2 DEF IInv, AllSlotsOrNone, OfSlot
<1>7. OneDouble'
  <2>1. Doubles' = Doubles /\ (sessions \cup pending)' = sessions \cup pending
    BY <1>2 DEF Doubles, Planned, OfSlot
  <2>2. \A u \in writer : u \in Threads
    BY DEF IInv, LockIsHeld
  <2>3. QED  BY <1>1, <1>2, <2>1, <2>2 DEF IInv, OneDouble, At, Planned, OfSlot
<1>8. QED  BY <1>3, <1>4, <1>5, <1>6, <1>7 DEF IInv

-----------------------------------------------------------------------------
(* Materialisation.                                                        *)

LEMMA MaterialiseKeeps ==
    ASSUME IInv, NEW t \in Threads, Materialise(t)
    PROVE  IInv'
<1> DEFINE new == [Idle EXCEPT !.step = "exists", !.slot = 1]
<1>1. new \in Job /\ new.step = "exists" /\ new.slot = 1
  BY DEF Idle, Job, Steps
<1>2. Moves(t, new) /\ NoDb /\ UNCHANGED active /\ job[t].step = "idle"
  BY DEF Materialise, Moves, At
<1> HIDE DEF new
<1>3. t \notin writer /\ active' \in Nat /\ ~InRoute(t)
  BY <1>2 DEF IInv, LockIsHeld, TypeOK, InRoute, At
<1>4. SettingIsSettled'
  BY <1>1, <1>2, <1>3, OffRoute DEF IInv, NoDb
<1>5. \A j \in 1..Len(Slots) : ~(j < new.slot)
  BY <1>1, SlotsAreASequence
<1>6. QED  BY <1>1, <1>2, <1>3, <1>4, <1>5, NothingWritten DEF NoDb, NoData

\* The slot that was looked at is planned, or the thread is about to plan it.
LEMMA SlotExistsKeeps ==
    ASSUME IInv, NEW t \in Threads, SlotExists(t)
    PROVE  IInv'
<1> DEFINE i == job[t].slot
<1>1. /\ job[t] \in Job /\ job[t].step = "exists" /\ i \in Nat /\ i >= 1 /\ i <= Len(Slots)
      /\ Len(Slots) \in Nat
  BY SlotsAreASequence DEF SlotExists, IInv, TypeOK, At, Job
<1>2. NoDb /\ UNCHANGED active /\ active' \in Nat /\ ~InRoute(t)
  BY <1>1 DEF SlotExists, IInv, TypeOK, InRoute
<1>3. \A j \in 1..Len(Slots) : j < i /\ Ours(Slots[j]) => Planned(Slots[j], Visible(t))
  BY <1>1 DEF IInv, BehindIsPlanned, At
<1>4. CASE OfSlot(Visible(t), Slots[i]) # {} /\ job' = [job EXCEPT ![t].slot = i + 1]
  <2> DEFINE new == [job[t] EXCEPT !.slot = i + 1]
  <2>1. new \in Job /\ new.step = "exists" /\ new.slot = i + 1
    BY <1>1 DEF Job
  <2>2. Moves(t, new)
    BY <1>4 DEF Moves
  <2> HIDE DEF new
  <2>3. SettingIsSettled'
    BY <1>2, <2>1, <2>2, OffRoute DEF IInv, NoDb
  <2>4. \A j \in 1..Len(Slots) :
            j < new.slot /\ Ours(Slots[j]) => Planned(Slots[j], Visible(t))
    <3>1. \A j \in 1..Len(Slots) : j < new.slot => j < i \/ j = i
      BY <1>1, <2>1
    <3>2. Planned(Slots[i], Visible(t))
      BY <1>4 DEF Planned
    <3>3. QED  BY <1>3, <3>1, <3>2
  <2>5. QED  BY <1>1, <1>2, <2>1, <2>2, <2>3, <2>4, NothingWritten DEF NoDb, NoData
<1>5. CASE OfSlot(Visible(t), Slots[i]) = {} /\ Go(t, "insert")
  <2> DEFINE new == [job[t] EXCEPT !.step = "insert"]
  <2>1. new \in Job /\ new.step = "insert" /\ new.slot = i
    BY <1>1 DEF Job, Steps
  <2>2. Moves(t, new)
    BY <1>5 DEF Moves, Go
  <2> HIDE DEF new
  <2>3. SettingIsSettled'
    BY <1>2, <2>1, <2>2, OffRoute DEF IInv, NoDb
  <2>4. t \in writer => ~Planned(Slots[i], sessions \cup pending)
    BY <1>5 DEF Planned, Visible
  <2>5. QED  BY <1>1, <1>2, <1>3, <2>1, <2>2, <2>3, <2>4, NothingWritten DEF NoDb, NoData
<1>6. QED  BY <1>4, <1>5 DEF SlotExists

\* Another thread has the lock.
LEMMA LockedKeeps ==
    ASSUME IInv, NEW t \in Threads, Locked(t)
    PROVE  IInv'
<1>1. Moves(t, Idle) /\ NoDb /\ UNCHANGED active /\ job[t].step = "insert"
  BY DEF Locked, Raise, Return, Moves, At
<1>2. t \notin writer /\ active' \in Nat /\ ~InRoute(t)
  BY <1>1 DEF Locked, MayWrite, IInv, LockIsHeld, TypeOK, InRoute
<1>3. SettingIsSettled'
  BY <1>1, <1>2, IdleIsAJob, OffRoute DEF IInv, NoDb
<1>4. QED  BY <1>1, <1>2, <1>3, IdleIsAJob, NothingWritten DEF NoDb, NoData

\* A row that is inserted after the first was looked for with the lock.
LEMMA InsertSlotKeeps ==
    ASSUME IInv, NEW t \in Threads, InsertSlot(t)
    PROVE  IInv'
<1> DEFINE i == job[t].slot
           row == [id |-> ids + 1, slot |-> Slots[i]]
<1>1. /\ job[t] \in Job /\ job[t].step = "insert" /\ i \in 1..Len(Slots) /\ i \in Nat
      /\ Len(Slots) \in Nat
  BY SlotsAreASequence DEF InsertSlot, IInv, TypeOK, At, Job
<1>2. /\ UNCHANGED <<subjects, sessions, active, touched, crossed, deletes, crashes>>
      /\ ~InRoute(t) /\ writer \subseteq {t}
  BY <1>1 DEF InsertSlot, MayWrite, InRoute
<1>3. \A u \in Threads \ {t} : u \notin writer
  BY <1>2
<1>4. sessions' \subseteq Session /\ pending \subseteq Session /\ ids \in Nat
      /\ active' \in Nat /\ deletes' \in Nat /\ crashes' \in Nat
  BY <1>2 DEF IInv, TypeOK
<1>5. AllSlotsOrNone' /\ \A slot : Ours(slot)' <=> Ours(slot)
  BY <1>2 DEF IInv, AllSlotsOrNone, OfSlot, Ours
<1>6. CASE /\ ids' = ids + 1 /\ writer' = {t} /\ pending' = pending \cup {row}
           /\ job' = [job EXCEPT ![t] = [@ EXCEPT !.step = "exists", !.slot = job[t].slot + 1]]
  <2> DEFINE new == [job[t] EXCEPT !.step = "exists", !.slot = i + 1]
  <2>1. new \in Job /\ new.step = "exists" /\ new.slot = i + 1
    <3>1. i + 1 \in Nat /\ "exists" \in Steps
      BY <1>1 DEF Steps
    <3> HIDE DEF i
    <3>2. QED  BY <1>1, <3>1 DEF Job
  <2>2. Moves(t, new)
    BY <1>6 DEF Moves
  <2>3. row \in Session /\ row.slot = Slots[i]
    BY <1>1, <1>4, SlotsAreASequence DEF Session
  <2> HIDE DEF new, row
  <2>4. job'[t] = new /\ \A u \in Threads \ {t} : job'[u] = job[u]
    BY <2>1, <2>2, Moved DEF IInv
  <2>5. TypeOK'
    <3>1. pending' \subseteq Session /\ ids' \in Nat
      BY <1>4, <1>6, <2>3
    <3>2. QED  BY <1>1, <1>4, <2>1, <2>2, <3>1, TypesKept DEF IInv
  <2>6. LockIsHeld'
    BY <1>6, <2>1, <2>4 DEF LockIsHeld, At
  <2>7. BehindIsPlanned'
    <3>1. Visible(t) \subseteq Visible(t)' /\ row \in Visible(t)'
      BY <1>2, <1>6 DEF Visible
    <3>2. \A u \in Threads \ {t} : Visible(u)' = Visible(u)
      BY <1>2, <1>3, <1>6 DEF Visible
    <3>3. ASSUME NEW j \in 1..Len(Slots), j < new.slot, Ours(Slots[j])
          PROVE  Planned(Slots[j], Visible(t)')
      <4>1. CASE j = i
        BY <2>3, <3>1, <4>1 DEF Planned, OfSlot
      <4>2. CASE j < i
        <5>1. Planned(Slots[j], Visible(t))
          BY <1>1, <3>3, <4>2 DEF IInv, BehindIsPlanned, At
        <5>2. QED  BY <3>1, <5>1, PlannedGrows
      <4>3. QED  BY <1>1, <2>1, <3>3, <4>1, <4>2
    <3>4. ASSUME NEW u \in Threads, At(u, "exists")' \/ At(u, "insert")',
                 NEW j \in 1..Len(Slots), j < job'[u].slot, Ours(Slots[j])
          PROVE  Planned(Slots[j], Visible(u)')
      <4>1. CASE u = t
        BY <2>4, <3>3, <3>4, <4>1
      <4>2. CASE u # t
        BY <2>4, <3>2, <3>4, <4>2 DEF IInv, BehindIsPlanned, At
      <4>3. QED  BY <4>1, <4>2
    <3>5. QED  BY <1>5, <3>4 DEF BehindIsPlanned, Planned, OfSlot
  <2>8. OneDouble'
    <3>1. \A p, q \in Doubles' : p = q
      <4>1. CASE writer = {}
        <5>1. pending' = {row}
          BY <1>6, <4>1 DEF IInv, LockIsHeld
        <5>2. QED  BY <5>1 DEF Doubles
      <4>2. CASE writer = {t}
        <5>1. ~Planned(Slots[i], sessions \cup pending)
          BY <1>1, <4>2 DEF IInv, OneDouble, At
        <5>2. ~Planned(Slots[i], sessions)
          BY <5>1, PlannedGrows
        <5>3. \A p \in Doubles' : p \in Doubles
          BY <1>2, <1>6, <2>3, <5>2 DEF Doubles, Planned, OfSlot
        <5>4. QED  BY <5>3 DEF IInv, OneDouble
      <4>3. QED  BY <1>2, <4>1, <4>2
    <3>2. \A u \in writer' : ~At(u, "insert")'
      BY <1>6, <2>1, <2>4 DEF At
    <3>3. QED  BY <3>1, <3>2 DEF OneDouble
  <2>9. SettingIsSettled'
    BY <1>2, <2>1, <2>2, OffRoute DEF IInv
  <2>10. QED  BY <1>5, <2>5, <2>6, <2>7, <2>8, <2>9 DEF IInv
<1>7. CASE writer' = {} /\ pending' = {} /\ Raise(t) /\ UNCHANGED ids
  <2>1. Moves(t, Idle)
    BY <1>7 DEF Raise, Return, Moves
  <2>2. job'[t] = Idle /\ \A u \in Threads \ {t} : job'[u] = job[u]
    BY <2>1, IdleIsAJob, Moved DEF IInv
  <2>3. TypeOK'
    BY <1>4, <1>7, <2>1, IdleIsAJob, TypesKept DEF IInv
  <2>4. LockIsHeld' /\ OneDouble'
    BY <1>7 DEF LockIsHeld, OneDouble, Doubles
  <2>5. BehindIsPlanned'
    <3>1. \A u \in Threads \ {t} : Visible(u)' = Visible(u)
      BY <1>2, <1>3, <1>7 DEF Visible
    <3>2. QED  BY <1>5, <2>2, <3>1, IdleIsAJob DEF IInv, BehindIsPlanned, At, Planned, OfSlot
  <2>6. SettingIsSettled'
    BY <1>2, <2>1, IdleIsAJob, OffRoute DEF IInv
  <2>7. QED  BY <1>5, <2>3, <2>4, <2>5, <2>6 DEF IInv
<1>8. QED  BY <1>6, <1>7 DEF InsertSlot

\* With the last slot behind it, what the thread sees is a whole day.
LEMMA CommitKeeps ==
    ASSUME IInv, NEW t \in Threads, Commit(t)
    PROVE  IInv'
<1>1. /\ job[t].step = "exists" /\ job[t].slot > Len(Slots) /\ ~InRoute(t) /\ job[t].slot \in Nat
  BY DEF Commit, At, InRoute, IInv, TypeOK, Job
<1>2. Moves(t, Idle) /\ UNCHANGED <<subjects, ids, active, touched, crossed, deletes, crashes>>
  BY DEF Commit, Return, Moves
<1>3. job'[t] = Idle /\ \A u \in Threads \ {t} : job'[u] = job[u]
  BY <1>2, IdleIsAJob, Moved DEF IInv
<1>4. \/ /\ t \in writer /\ sessions' = sessions \cup pending /\ writer' = {} /\ pending' = {}
      \/ t \notin writer /\ UNCHANGED <<sessions, writer, pending>>
  BY DEF Commit
<1>5. sessions \subseteq sessions' /\ \A slot : Ours(slot)' <=> Ours(slot)
  BY <1>2, <1>4 DEF Ours
<1>6. TypeOK'
  <2>1. sessions' \subseteq Session /\ pending' \subseteq Session /\ ids' \in Nat
        /\ active' \in Nat /\ deletes' \in Nat /\ crashes' \in Nat
    BY <1>2, <1>4 DEF IInv, TypeOK
  <2>2. QED  BY <1>2, <2>1, IdleIsAJob, TypesKept DEF IInv
<1>7. LockIsHeld'
  BY <1>3, <1>4 DEF IInv, LockIsHeld, At
<1>8. BehindIsPlanned'
  <2>1. ASSUME NEW u \in Threads \ {t} PROVE Visible(u) \subseteq Visible(u)'
    BY <1>4 DEF Visible, IInv, LockIsHeld
  <2>2. ASSUME NEW u \in Threads, At(u, "exists")' \/ At(u, "insert")',
               NEW j \in 1..Len(Slots), j < job'[u].slot, Ours(Slots[j])
        PROVE  Planned(Slots[j], Visible(u)')
    <3>1. u # t
      BY <1>3, <2>2, IdleIsAJob DEF At
    <3>2. Planned(Slots[j], Visible(u))
      BY <1>3, <2>2, <3>1 DEF IInv, BehindIsPlanned, At
    <3>3. QED  BY <2>1, <3>1, <3>2, PlannedGrows
  <2>3. QED  BY <1>5, <2>2 DEF BehindIsPlanned, Planned, OfSlot
<1>9. AllSlotsOrNone'
  <2>1. CASE t \in writer
    <3>1. sessions' = Visible(t)
      BY <1>4, <2>1 DEF Visible
    <3>2. ASSUME NEW b \in AllSlots, Ours(b) PROVE Planned(b, sessions')
      <4>1. PICK j \in 1..Len(Slots) : b = Slots[j]
        BY SlotsAreASequence
      <4>2. j < job[t].slot
        BY <1>1, SlotsAreASequence
      <4>3. QED  BY <1>1, <3>1, <3>2, <4>1, <4>2 DEF IInv, BehindIsPlanned, At
    <3>3. AllOrNone'
      BY <1>5, <3>2 DEF AllOrNone, Planned, OfSlot
    <3>4. AllSlotsOrNone' <=> AllOrNone'
      BY AllOrNoneIsThen
    <3>5. QED  BY <3>3, <3>4
  <2>2. CASE t \notin writer
    BY <1>2, <1>4, <2>2 DEF IInv, AllSlotsOrNone, OfSlot
  <2>3. QED  BY <2>1, <2>2
<1>10. OneDouble'
  <2>1. CASE t \in writer
    BY <1>4, <2>1 DEF OneDouble, Doubles
  <2>2. CASE t \notin writer
    <3>1. \A u \in writer : u \in Threads \ {t}
      BY <2>2 DEF IInv, LockIsHeld
    <3>2. Doubles' = Doubles
      BY <1>4, <2>2 DEF Doubles, Planned, OfSlot
    <3>3. QED  BY <1>3, <1>4, <2>2, <3>1, <3>2 DEF IInv, OneDouble, At, Planned, OfSlot
  <2>3. QED  BY <2>1, <2>2
<1>11. SettingIsSettled'
  BY <1>1, <1>2, <1>5, IdleIsAJob, OffRoute DEF IInv
<1>12. QED  BY <1>6, <1>7, <1>8, <1>9, <1>10, <1>11 DEF IInv

\* What was not committed is gone, and nobody has seen it.
LEMMA CrashKeeps ==
    ASSUME IInv, NEW t \in Threads, Crash(t)
    PROVE  IInv'
<1>1. /\ Moves(t, Idle) /\ crashes' = crashes + 1
      /\ UNCHANGED <<subjects, sessions, ids, active, touched, crossed, deletes>>
  BY DEF Crash, Moves
<1>2. \/ t \in writer /\ writer' = {} /\ pending' = {}
      \/ t \notin writer /\ UNCHANGED <<writer, pending>>
  BY DEF Crash
<1>3. job'[t] = Idle /\ \A u \in Threads \ {t} : job'[u] = job[u]
  BY <1>1, IdleIsAJob, Moved DEF IInv
<1>4. TypeOK'
  <2>1. sessions' \subseteq Session /\ pending' \subseteq Session /\ ids' \in Nat
        /\ active' \in Nat /\ deletes' \in Nat /\ crashes' \in Nat
    BY <1>1, <1>2 DEF IInv, TypeOK
  <2>2. QED  BY <1>1, <2>1, IdleIsAJob, TypesKept DEF IInv
<1>5. LockIsHeld'
  BY <1>2, <1>3 DEF IInv, LockIsHeld, At
<1>6. BehindIsPlanned'
  <2>1. \A u \in Threads \ {t} : Visible(u)' = Visible(u)
    BY <1>1, <1>2 DEF Visible, IInv, LockIsHeld
  <2>2. QED  BY <1>1, <1>3, <2>1, IdleIsAJob DEF IInv, BehindIsPlanned, At, Planned, OfSlot, Ours
<1>7. AllSlotsOrNone'
  BY <1>1 DEF IInv, AllSlotsOrNone, OfSlot
<1>8. OneDouble'
  <2>1. CASE t \in writer
    BY <1>2, <2>1 DEF OneDouble, Doubles
  <2>2. CASE t \notin writer
    <3>1. \A u \in writer : u \in Threads \ {t}
      BY <2>2 DEF IInv, LockIsHeld
    <3>2. Doubles' = Doubles
      BY <1>1, <1>2, <2>2 DEF Doubles, Planned, OfSlot
    <3>3. QED
      BY <1>1, <1>2, <1>3, <2>2, <3>1, <3>2 DEF IInv, OneDouble, At, Planned, OfSlot
  <2>3. QED  BY <2>1, <2>2
<1>9. SettingIsSettled'
  <2>1. crashes' # 0
    BY <1>1 DEF IInv, TypeOK
  <2>2. QED  BY <2>1 DEF SettingIsSettled
<1>10. QED  BY <1>4, <1>5, <1>6, <1>7, <1>8, <1>9 DEF IInv

-----------------------------------------------------------------------------
(* The routes.                                                             *)

\* A write to the table outside materialisations: of the slots that are still to
\* be answered for none was planned or unplanned.
LEMMA TableWritten ==
    ASSUME IInv, writer = {}, UNCHANGED <<writer, pending>>, TypeOK', SettingIsSettled',
           \A slot \in AllSlots : Ours(slot)' =>
              Ours(slot) /\ (Planned(slot, sessions') <=> Planned(slot, sessions)),
           \A u \in Threads : At(u, "exists")' \/ At(u, "insert")' => job'[u] = job[u]
    PROVE  IInv'
<1>1. pending = {}
  BY DEF IInv, LockIsHeld
<1>2. LockIsHeld' /\ OneDouble'
  BY <1>1 DEF LockIsHeld, OneDouble, Doubles
<1>3. BehindIsPlanned'
  <2>1. \A u : Visible(u) = sessions /\ Visible(u)' = sessions'
    BY DEF Visible
  <2>2. ASSUME NEW u \in Threads, At(u, "exists")' \/ At(u, "insert")',
               NEW j \in 1..Len(Slots), j < job'[u].slot, Ours(Slots[j])'
        PROVE  Planned(Slots[j], sessions')
    <3>1. Slots[j] \in AllSlots
      BY SlotsAreASequence
    <3>2. job'[u] = job[u] /\ (At(u, "exists") \/ At(u, "insert"))
      BY <2>2 DEF At
    <3>3. Planned(Slots[j], sessions)
      BY <2>1, <2>2, <3>1, <3>2 DEF IInv, BehindIsPlanned
    <3>4. QED  BY <2>2, <3>1, <3>3
  <2>3. QED  BY <2>1, <2>2 DEF BehindIsPlanned, Planned, OfSlot
<1>4. AllSlotsOrNone'
  <2>1. AllOrNone
    BY AllOrNoneIs DEF IInv
  <2>2. AllOrNone'
    BY <2>1 DEF AllOrNone, Planned, OfSlot
  <2>3. AllSlotsOrNone' <=> AllOrNone'
    BY AllOrNoneIsThen
  <2>4. QED  BY <2>2, <2>3
<1>5. QED  BY <1>2, <1>3, <1>4 DEF IInv

\* A route that begins while no other is under way finds the setting settled.
LEMMA Entered ==
    ASSUME IInv, EnterRoute, ~crossed', deletes = 0, crashes = 0
    PROVE  Settled /\ \A u \in Threads : ~InRoute(u)
<1>1. ~crossed /\ \A u \in Threads : ~InRoute(u)
  BY DEF EnterRoute, Routed, InRoute
<1>2. QED  BY <1>1 DEF IInv, SettingIsSettled

LEMMA CreateSessionKeeps ==
    ASSUME IInv, NEW t \in Threads, NEW slot \in AllSlots, CreateSession(t, slot)
    PROVE  IInv'
<1> DEFINE row == [id |-> ids + 1, slot |-> slot]
           new == [Idle EXCEPT !.step = "activate", !.id = ids + 1]
<1>1. /\ job[t].step = "idle" /\ writer = {} /\ ids' = ids + 1 /\ sessions' = sessions \cup {row}
      /\ Moves(t, new) /\ touched' = touched \cup {slot} /\ EnterRoute
      /\ UNCHANGED <<subjects, active, writer, pending, deletes, crashes>>
  BY DEF CreateSession, Moves, At
<1>2. /\ ids \in Nat /\ row \in Session /\ row.id = ids + 1 /\ row.slot = slot
      /\ new \in Job /\ new.step = "activate" /\ new.id = ids + 1
  <2>1. ids \in Nat /\ ids + 1 \in Nat
    BY DEF IInv, TypeOK
  <2>2. row \in Session /\ row.id = ids + 1 /\ row.slot = slot
    BY <2>1 DEF Session
  <2>3. ids + 1 \in Nat => /\ new \in Job /\ new.step = "activate" /\ new.id = ids + 1
    BY IdleWithId
  <2>4. QED  BY <2>1, <2>2, <2>3
<1> HIDE DEF row, new
<1>3. job'[t] = new /\ \A u \in Threads \ {t} : job'[u] = job[u]
  BY <1>1, <1>2, Moved DEF IInv
<1>4. TypeOK'
  <2>1. sessions' \subseteq Session /\ pending' \subseteq Session /\ ids' \in Nat
        /\ active' \in Nat /\ deletes' \in Nat /\ crashes' \in Nat
    BY <1>1, <1>2 DEF IInv, TypeOK
  <2>2. QED  BY <1>1, <1>2, <2>1, TypesKept DEF IInv
<1>5. SettingIsSettled'
  <2> SUFFICES ASSUME ~crossed', deletes = 0, crashes = 0 PROVE SettingIsSettled'
    BY <1>1 DEF SettingIsSettled
  <2>1. Settled /\ \A u \in Threads : ~InRoute(u)
    BY <1>1, Entered
  <2>2. \A u \in Threads : InRoute(u)' => u = t
    BY <1>3, <2>1 DEF InRoute
  <2>3. Settled' /\ ids + 1 \in IdsOf(sessions')
    BY <1>1, <1>2, <2>1 DEF Settled, IdsOf
  <2>4. \A u \in Threads : At(u, "activate")' \/ At(u, "was_active")' => u = t
    BY <2>2 DEF InRoute, At
  <2>5. QED  BY <1>2, <1>3, <2>2, <2>3, <2>4 DEF SettingIsSettled, At
<1>6. \A s \in AllSlots : Ours(s)' =>
         Ours(s) /\ (Planned(s, sessions') <=> Planned(s, sessions))
  BY <1>1, <1>2 DEF Ours, Planned, OfSlot
<1>7. \A u \in Threads : At(u, "exists")' \/ At(u, "insert")' => job'[u] = job[u]
  BY <1>2, <1>3 DEF At
<1>8. QED  BY <1>1, <1>4, <1>5, <1>6, <1>7, TableWritten

LEMMA DeleteSessionKeeps ==
    ASSUME IInv, NEW t \in Threads, NEW id, DeleteSession(t, id)
    PROVE  IInv'
<1> DEFINE new == [Idle EXCEPT !.step = "was_active", !.id = id]
<1>1. /\ job[t].step = "idle" /\ writer = {} /\ id \in IdsOf(sessions)
      /\ sessions' = {s \in sessions : s.id # id} /\ Moves(t, new) /\ EnterRoute
      /\ touched' = touched \cup {s.slot : s \in {x \in sessions : x.id = id}}
      /\ UNCHANGED <<subjects, ids, active, writer, pending, deletes, crashes>>
  BY DEF DeleteSession, Moves, At
<1>2. id \in Nat /\ new \in Job /\ new.step = "was_active" /\ new.id = id
  BY <1>1 DEF IInv, TypeOK, IdsOf, Session, Idle, Job, Steps
<1> HIDE DEF new
<1>3. job'[t] = new /\ \A u \in Threads \ {t} : job'[u] = job[u]
  BY <1>1, <1>2, Moved DEF IInv
<1>4. TypeOK'
  <2>1. sessions' \subseteq Session /\ pending' \subseteq Session /\ ids' \in Nat
        /\ active' \in Nat /\ deletes' \in Nat /\ crashes' \in Nat
    BY <1>1 DEF IInv, TypeOK
  <2>2. QED  BY <1>1, <1>2, <2>1, TypesKept DEF IInv
<1>5. SettingIsSettled'
  <2> SUFFICES ASSUME ~crossed', deletes = 0, crashes = 0 PROVE SettingIsSettled'
    BY <1>1 DEF SettingIsSettled
  <2>1. Settled /\ \A u \in Threads : ~InRoute(u)
    BY <1>1, Entered
  <2>2. \A u \in Threads : InRoute(u)' => u = t
    BY <1>3, <2>1 DEF InRoute
  <2>3. Settled' \/ active' = id
    BY <1>1, <2>1 DEF Settled, IdsOf
  <2>4. \A u \in Threads : At(u, "activate")' \/ At(u, "was_active")' => u = t
    BY <2>2 DEF InRoute, At
  <2>5. InRoute(t)' /\ ~At(t, "activate")'
    BY <1>2, <1>3 DEF InRoute, At
  <2>6. QED  BY <1>2, <1>3, <2>2, <2>3, <2>4, <2>5 DEF SettingIsSettled
<1>6. \A s \in AllSlots : Ours(s)' =>
         Ours(s) /\ (Planned(s, sessions') <=> Planned(s, sessions))
  BY <1>1 DEF Ours, Planned, OfSlot
<1>7. \A u \in Threads : At(u, "exists")' \/ At(u, "insert")' => job'[u] = job[u]
  BY <1>2, <1>3 DEF At
<1>8. QED  BY <1>1, <1>4, <1>5, <1>6, <1>7, TableWritten

LEMMA DeleteSubjectKeeps ==
    ASSUME IInv, NEW s \in subjects, DeleteSubject(s)
    PROVE  IInv'
<1>1. /\ writer = {} /\ deletes' = deletes + 1 /\ subjects' = subjects \ {s}
      /\ sessions' = {x \in sessions : x.slot.subject # s}
      /\ UNCHANGED <<ids, active, writer, pending, job, touched, crossed, crashes>>
  BY DEF DeleteSubject
<1>2. TypeOK'
  BY <1>1 DEF IInv, TypeOK, At
<1>3. SettingIsSettled'
  <2>1. deletes' # 0
    BY <1>1 DEF IInv, TypeOK
  <2>2. QED  BY <2>1 DEF SettingIsSettled
<1>4. \A slot \in AllSlots : Ours(slot)' =>
         Ours(slot) /\ (Planned(slot, sessions') <=> Planned(slot, sessions))
  BY <1>1 DEF Ours, Planned, OfSlot
<1>5. QED  BY <1>1, <1>2, <1>3, <1>4, TableWritten

LEMMA ShowSessionsKeeps ==
    ASSUME IInv, NEW t \in Threads, NEW id, ShowSessions(t, id)
    PROVE  IInv'
<1> DEFINE new == [Idle EXCEPT !.step = "activate", !.id = id]
<1>1. /\ job[t].step = "idle" /\ id \in IdsOf(sessions) /\ Moves(t, new) /\ EnterRoute
      /\ NoData /\ UNCHANGED active
  BY DEF ShowSessions, Moves, At
<1>2. id \in Nat /\ new \in Job /\ new.step = "activate" /\ new.id = id
  BY <1>1 DEF IInv, TypeOK, IdsOf, Session, Idle, Job, Steps
<1> HIDE DEF new
<1>3. job'[t] = new /\ \A u \in Threads \ {t} : job'[u] = job[u]
  BY <1>1, <1>2, Moved DEF IInv
<1>4. t \notin writer /\ active' \in Nat
  BY <1>1 DEF IInv, LockIsHeld, TypeOK, At
<1>5. SettingIsSettled'
  <2> SUFFICES ASSUME ~crossed', deletes = 0, crashes = 0 PROVE SettingIsSettled'
    BY <1>1 DEF SettingIsSettled, NoData
  <2>1. Settled /\ \A u \in Threads : ~InRoute(u)
    BY <1>1, Entered
  <2>2. \A u \in Threads : InRoute(u)' => u = t
    BY <1>3, <2>1 DEF InRoute
  <2>3. Settled' /\ id \in IdsOf(sessions')
    BY <1>1, <2>1 DEF Settled, IdsOf, NoData
  <2>4. \A u \in Threads : At(u, "activate")' \/ At(u, "was_active")' => u = t
    BY <2>2 DEF InRoute, At
  <2>5. QED  BY <1>2, <1>3, <2>2, <2>3, <2>4 DEF SettingIsSettled, At
<1>6. QED  BY <1>1, <1>2, <1>4, <1>5, NothingWritten

\* A route ends, with the setting settled if it was alone.
LEMMA RouteEnds ==
    ASSUME IInv, NEW t \in Threads, InRoute(t), Moves(t, Idle), NoDb, active' \in Nat,
           ~crossed /\ deletes = 0 /\ crashes = 0 => Settled'
    PROVE  IInv'
<1>1. job'[t] = Idle /\ \A u \in Threads \ {t} : job'[u] = job[u]
  BY IdleIsAJob, Moved DEF IInv
<1>2. t \notin writer
  BY DEF IInv, LockIsHeld, InRoute, At
<1>3. SettingIsSettled'
  <2> SUFFICES ASSUME ~crossed, deletes = 0, crashes = 0 PROVE SettingIsSettled'
    BY DEF SettingIsSettled, NoDb
  <2>1. \A u \in Threads : ~InRoute(u)'
    BY <1>1, IdleIsAJob DEF IInv, SettingIsSettled, InRoute
  <2>2. \A u \in Threads : ~At(u, "activate")' /\ ~At(u, "was_active")'
    BY <2>1 DEF InRoute, At
  <2>3. QED  BY <2>1, <2>2 DEF SettingIsSettled
<1>4. QED  BY <1>2, <1>3, IdleIsAJob, NothingWritten DEF NoDb, NoData

LEMMA SetActiveKeeps ==
    ASSUME IInv, NEW t \in Threads, SetActive(t)
    PROVE  IInv'
<1>1. InRoute(t) /\ At(t, "activate") /\ Moves(t, Idle) /\ NoDb /\ active' = job[t].id
  BY DEF SetActive, InRoute, At, Return, Moves
<1>2. active' \in Nat
  BY <1>1 DEF IInv, TypeOK, Job
<1>3. ~crossed /\ deletes = 0 /\ crashes = 0 => Settled'
  BY <1>1 DEF IInv, SettingIsSettled, Settled, NoDb, IdsOf
<1>4. QED  BY <1>1, <1>2, <1>3, RouteEnds

LEMMA ClearActiveKeeps ==
    ASSUME IInv, NEW t \in Threads, ClearActive(t)
    PROVE  IInv'
<1>1. InRoute(t) /\ Moves(t, Idle) /\ NoDb /\ active' = 0
  BY DEF ClearActive, InRoute, At, Return, Moves
<1>2. QED  BY <1>1, RouteEnds DEF Settled

LEMMA WasActiveKeeps ==
    ASSUME IInv, NEW t \in Threads, WasActive(t)
    PROVE  IInv'
<1>1. InRoute(t) /\ At(t, "was_active") /\ NoDb /\ UNCHANGED active /\ active' \in Nat
  BY DEF WasActive, InRoute, At, IInv, TypeOK
<1>2. CASE active # job[t].id /\ Return(t)
  <2>1. ~crossed /\ deletes = 0 /\ crashes = 0 => Settled'
    BY <1>1, <1>2 DEF IInv, SettingIsSettled, Settled, NoDb, IdsOf
  <2>2. QED  BY <1>1, <1>2, <2>1, RouteEnds DEF Return, Moves
<1>3. CASE Go(t, "clear")
  <2> DEFINE new == [job[t] EXCEPT !.step = "clear"]
  <2>1. new \in Job /\ new.step = "clear"
    BY DEF IInv, TypeOK, Job, Steps
  <2>2. Moves(t, new)
    BY <1>3 DEF Go, Moves
  <2> HIDE DEF new
  <2>3. job'[t] = new /\ \A u \in Threads \ {t} : job'[u] = job[u]
    BY <2>1, <2>2, Moved DEF IInv
  <2>4. t \notin writer
    BY <1>1 DEF IInv, LockIsHeld, At
  <2>5. SettingIsSettled'
    <3> SUFFICES ASSUME ~crossed, deletes = 0, crashes = 0 PROVE SettingIsSettled'
      BY <1>1 DEF SettingIsSettled, NoDb
    <3>1. \A u \in Threads : InRoute(u) => u = t
      BY <1>1 DEF IInv, SettingIsSettled
    <3>2. \A u \in Threads : InRoute(u)' <=> u = t
      BY <2>1, <2>3, <3>1 DEF InRoute
    <3>3. \A u \in Threads : ~At(u, "activate")' /\ ~At(u, "was_active")'
      BY <2>1, <2>3, <3>2 DEF InRoute, At
    <3>4. QED  BY <3>2, <3>3 DEF SettingIsSettled
  <2>6. QED  BY <1>1, <2>1, <2>2, <2>4, <2>5, NothingWritten DEF NoDb, NoData
<1>4. QED  BY <1>2, <1>3 DEF WasActive

\* A mark reads the setting and the table only.
LEMMA MarkKeeps ==
    ASSUME IInv, NEW t \in Threads, ReadActive(t) \/ MarkSession(t)
    PROVE  IInv'
<1> DEFINE mark == [Idle EXCEPT !.step = "mark", !.id = active]
<1>1. mark \in Job /\ mark.step = "mark"
  BY DEF Idle, Job, Steps, IInv, TypeOK
<1>2. /\ job[t].step \in {"idle", "mark"} /\ NoDb /\ UNCHANGED active
      /\ Moves(t, mark) \/ Moves(t, Idle)
  BY DEF ReadActive, MarkSession, At, Return, Raise, Moves
<1> HIDE DEF mark
<1>3. PICK new \in {mark, Idle} : Moves(t, new)
  BY <1>2
<1>4. new \in Job /\ new.step \in {"mark", "idle"}
  BY <1>1, IdleIsAJob
<1>5. t \notin writer /\ active' \in Nat /\ ~InRoute(t)
  BY <1>2 DEF IInv, LockIsHeld, TypeOK, InRoute, At
<1>6. SettingIsSettled'
  BY <1>2, <1>3, <1>4, <1>5, OffRoute DEF IInv, NoDb
<1>7. QED  BY <1>2, <1>3, <1>4, <1>5, <1>6, NothingWritten DEF NoDb, NoData

-----------------------------------------------------------------------------
LEMMA NextIInv == IInv /\ [Next]_vars => IInv'
<1> SUFFICES ASSUME IInv, [Next]_vars PROVE IInv'  OBVIOUS
<1>1. ASSUME NEW s \in subjects, DeleteSubject(s) PROVE IInv'
  BY <1>1, DeleteSubjectKeeps
<1>2. ASSUME NEW t \in Threads,
             \/ Materialise(t) \/ SlotExists(t) \/ InsertSlot(t) \/ Locked(t)
             \/ Commit(t) \/ Crash(t)
      PROVE  IInv'
  BY <1>2, MaterialiseKeeps, SlotExistsKeeps, InsertSlotKeeps, LockedKeeps, CommitKeeps,
     CrashKeeps
<1>3. ASSUME NEW t \in Threads,
             \/ \E slot \in AllSlots : CreateSession(t, slot)
             \/ \E id \in 1..MaxSessions : ShowSessions(t, id) \/ DeleteSession(t, id)
             \/ SetActive(t) \/ WasActive(t) \/ ClearActive(t)
             \/ ReadActive(t) \/ MarkSession(t)
      PROVE  IInv'
  BY <1>3, CreateSessionKeeps, ShowSessionsKeeps, DeleteSessionKeeps, SetActiveKeeps,
     WasActiveKeeps, ClearActiveKeeps, MarkKeeps
<1>4. CASE UNCHANGED vars
  <2>1. AllSlotsOrNone'
    BY <1>4 DEF vars, IInv, AllSlotsOrNone, OfSlot
  <2>2. TypeOK' /\ LockIsHeld'
    BY <1>4 DEF vars, IInv, TypeOK, LockIsHeld, At
  <2>3. BehindIsPlanned' /\ OneDouble'
    BY <1>4 DEF vars, IInv, BehindIsPlanned, OneDouble, Doubles, Planned, OfSlot, Ours, Visible, At
  <2>4. SettingIsSettled'
    BY <1>4 DEF vars, IInv, SettingIsSettled, Settled, InRoute, At, IdsOf
  <2>5. QED  BY <2>1, <2>2, <2>3, <2>4 DEF IInv
<1>5. QED  BY <1>1, <1>2, <1>3, <1>4 DEF Next

\* The invariant of the day, in every behaviour.
THEOREM IInvHolds == Spec => []IInv
<1>1. Init => IInv  BY InitIInv
<1>2. IInv /\ [Next]_vars => IInv'  BY NextIInv
<1>3. QED  BY <1>1, <1>2, PTL DEF Spec

\* A day is planned whole or not at all (materialise_today_sessions).
THEOREM DayIsWhole == Spec => []AllSlotsOrNone
<1>1. IInv => AllSlotsOrNone  BY DEF IInv
<1>2. QED  BY <1>1, IInvHolds, PTL

\* While routes do not cross, none is cut short and no subject goes, the setting
\* names a session that is there (sessions, set_active_session).
THEOREM ActiveExists == Spec => []ActiveSessionExists
<1>1. IInv => ActiveSessionExists
  BY DEF IInv, SettingIsSettled, ActiveSessionExists, Routed, InRoute, Settled
<1>2. QED  BY <1>1, IInvHolds, PTL

\* A materialisation that commits doubles one slot at most, the one it looked at
\* before it had the lock (materialise_today_sessions).
THEOREM DoublesOne == Spec => OneDuplicateEach
<1> DEFINE Doubled == \A t \in Threads : t \in writer /\ Commit(t) =>
                         Cardinality({p \in pending : OfSlot(sessions, p.slot) # {}}) <= 1
<1>1. IInv => Doubled
  <2> SUFFICES ASSUME IInv
               PROVE  Cardinality({p \in pending : OfSlot(sessions, p.slot) # {}}) <= 1
    OBVIOUS
  <2>1. {p \in pending : OfSlot(sessions, p.slot) # {}} = Doubles
    BY DEF Doubles, Planned
  <2>2. \A p, q \in Doubles : p = q
    BY DEF IInv, OneDouble
  <2>3. Doubles = {} \/ \E p : Doubles = {p}
    BY <2>2
  <2>4. Cardinality(Doubles) \in {0, 1}
    BY <2>3, FS_EmptySet, FS_Singleton
  <2>5. Cardinality(Doubles) <= 1
    BY <2>4
  <2>6. QED  BY <2>1, <2>5
<1>2. IInv /\ [Next]_vars => [Doubled]_vars
  BY <1>1
<1>3. QED  BY <1>2, IInvHolds, PTL DEF Spec, OneDuplicateEach

-----------------------------------------------------------------------------
(* Startup.  The property is about a process that is up.  The invariant    *)
(* says where one is that is still starting: what it has created so far is *)
(* there, since nothing drops it, and what it read of the columns is a part *)
(* of what is there now.                                                   *)

StepNames == {"off", "schema", "info", "alter", "index", "seed", "up"}
Values == {"none", "default", "set"}

StartPlaces == [step : StepNames, at : 1..2, seen : SUBSET St!AllColumns]

\* Past the indexes every column and every index is there; up, so is a value for
\* each setting and, unless one was deleted, an administrator.
StartInv ==
    /\ proc \in [Procs -> StartPlaces]
    /\ columns \subseteq St!AllColumns
    /\ settings \in [Keys -> Values] /\ chosen \in [Keys -> Values]
    /\ \A p \in Procs : proc[p].step \in {"seed", "up"} => columns = St!AllColumns /\ indexed
    /\ \A p \in Procs : proc[p].step = "up" =>
          /\ \A k \in Keys : settings[k] # "none"
          /\ admins = {} => removed
    /\ \A k \in Keys : chosen[k] # "none" => settings[k] = chosen[k]
    /\ "admin" \in admins => founded
    /\ admins = {} => founded

LEMMA MigratesTwo == DOMAIN St!Migrations = 1..2 /\ Len(St!Migrations) = 2
BY DEF St!Migrations

LEMMA InitStartInv == St!Init => StartInv
<1> SUFFICES ASSUME St!Init PROVE StartInv
  OBVIOUS
<1>1. proc \in [Procs -> StartPlaces]
  BY DEF St!Init, St!Off, StartPlaces, StepNames, Values
<1>2. \A p \in Procs : proc[p].step = "off"
  BY DEF St!Init, St!Off, StartPlaces, StepNames, Values
<1>3. settings \in [Keys -> Values] /\ chosen \in [Keys -> Values]
  <2>1. settings \in [Keys -> Values]
    <3>1. CASE St!Empty
      BY <3>1 DEF St!Empty, Values
    <3>2. CASE St!Older
      BY <3>2 DEF St!Older, Values
    <3>3. QED  BY <3>1, <3>2 DEF St!Init
  <2>2. QED  BY <2>1 DEF St!Init, Values
<1>4. columns \subseteq St!AllColumns
  BY DEF St!Init, St!Empty, St!Older
<1>5. "admin" \notin admins
  BY DEF St!Init, St!Empty, St!Older
<1>6. \A k \in Keys : chosen[k] # "none" => settings[k] = chosen[k]
  BY DEF St!Init
<1>7. QED  BY <1>1, <1>2, <1>3, <1>4, <1>5, <1>6 DEF St!Init, StartInv

\* One process moves and the file does not change: it moves to a step that needs
\* nothing of the file.
LEMMA MoveKeeps ==
    ASSUME StartInv, NEW p \in Procs,
           NEW r \in StartPlaces,
           St!Go(p, r), r.step \notin {"seed", "up"},
           columns' = columns \/ \E c \in St!AllColumns : columns' = columns \cup {c},
           UNCHANGED <<indexed, settings, admins, St!history>>
    PROVE  StartInv'
<1>1. proc' = [proc EXCEPT ![p] = r] /\ proc'[p] = r
      /\ \A q \in Procs : q # p => proc'[q] = proc[q]
  BY DEF St!Go, StartInv, StartPlaces, StepNames, Values
<1>2. columns' \subseteq St!AllColumns /\ (columns = St!AllColumns => columns' = St!AllColumns)
  BY DEF StartInv, StartPlaces, StepNames, Values
<1>3. proc' \in [Procs -> StartPlaces]
  BY <1>1 DEF StartInv, StartPlaces, StepNames, Values
<1>4. UNCHANGED <<indexed, settings, admins, chosen, founded, removed>>
  BY DEF St!history
<1>5. \A q \in Procs : proc'[q].step \in {"seed", "up"} => q # p /\ proc'[q] = proc[q]
  BY <1>1
<1>6. QED  BY <1>2, <1>3, <1>4, <1>5 DEF StartInv

LEMMA ImportKeeps == ASSUME StartInv, NEW p \in Procs, St!Import(p) PROVE StartInv'
<1>1. [proc[p] EXCEPT !.step = "schema"] \in StartPlaces
  BY DEF StartInv, StartPlaces, StepNames, Values
<1>2. [proc[p] EXCEPT !.step = "schema"].step = "schema"
  BY DEF StartInv, StartPlaces, StepNames, Values
<1>3. QED  BY <1>1, <1>2, MoveKeeps DEF St!Import, St!Step, St!file

LEMMA TablesKeep == ASSUME StartInv, NEW p \in Procs, St!CreateTables(p) PROVE StartInv'
<1>1. CASE UNCHANGED proc
  BY <1>1 DEF St!CreateTables, StartInv, St!history, StartPlaces, StepNames, Values
<1>2. CASE St!Step(p, "info")
  <2>1. [proc[p] EXCEPT !.step = "info"] \in StartPlaces
    BY DEF StartInv, StartPlaces, StepNames, Values
  <2>2. [proc[p] EXCEPT !.step = "info"].step = "info"
    BY DEF StartInv, StartPlaces, StepNames, Values
  <2>3. QED  BY <1>2, <2>1, <2>2, MoveKeeps DEF St!CreateTables, St!Step
<1>3. QED  BY <1>1, <1>2 DEF St!CreateTables

LEMMA InfoKeeps == ASSUME StartInv, NEW p \in Procs, St!TableInfo(p) PROVE StartInv'
<1> DEFINE r == [proc[p] EXCEPT !.step = "alter", !.seen = St!Of(St!Table(p), columns)]
<1>1. r \in StartPlaces /\ r.step = "alter"
  BY DEF StartInv, St!Of, StartPlaces, StepNames, Values
<1>2. St!Go(p, r) /\ UNCHANGED <<columns, indexed, settings, admins, St!history>>
  BY DEF St!TableInfo, St!file
<1> HIDE DEF r
<1>3. QED  BY <1>1, <1>2, MoveKeeps

LEMMA AddKeeps == ASSUME StartInv, NEW p \in Procs, St!AddColumn(p) PROVE StartInv'
<1> DEFINE cols == Added[St!Table(p)]
<1>1. proc[p] \in StartPlaces /\ proc[p].at \in 1..2
  BY DEF StartInv, StartPlaces, StepNames, Values
<1>2. St!Table(p) \in St!Tables
  BY <1>1 DEF St!Table, St!Tables, St!ToSet, St!Migrations
<1>3. \A i \in DOMAIN cols : <<St!Table(p), cols[i]>> \in St!AllColumns
  BY <1>2 DEF St!AllColumns, St!ToSet
<1>4. UNCHANGED <<indexed, settings, admins, St!history>>
  BY DEF St!AddColumn
<1>5. \/ columns' = columns \/ \E c \in St!AllColumns : columns' = columns \cup {c}
  BY <1>3 DEF St!AddColumn
<1>6. \E r \in StartPlaces : St!Go(p, r) /\ r.step \notin {"seed", "up"}
  <2>1. St!Off \in StartPlaces /\ St!Off.step = "off"
    BY DEF St!Off, StartPlaces, StepNames, Values
  <2>2. [St!Off EXCEPT !.step = "index"] \in StartPlaces /\ [St!Off EXCEPT !.step = "index"].step = "index"
    BY DEF St!Off, StartPlaces, StepNames, Values
  <2>3. ASSUME proc[p].at < Len(St!Migrations)
        PROVE  /\ [step |-> "info", at |-> proc[p].at + 1, seen |-> {}] \in StartPlaces
               /\ [step |-> "info", at |-> proc[p].at + 1, seen |-> {}].step = "info"
    <3>1. proc[p].at + 1 \in 1..2
      BY <1>1, <2>3, MigratesTwo
    <3>2. QED  BY <3>1 DEF StartPlaces, StepNames
  <2>4. ASSUME NEW c \in St!AllColumns
        PROVE  /\ [proc[p] EXCEPT !.seen = @ \cup {c}] \in StartPlaces
               /\ [proc[p] EXCEPT !.seen = @ \cup {c}].step = proc[p].step
    BY <1>1 DEF StartPlaces
  <2>5. proc[p].step = "alter"
    BY DEF St!AddColumn, St!At
  <2>6. CASE St!Go(p, St!Off)
    BY <2>1, <2>6
  <2>7. CASE St!Go(p, [St!Off EXCEPT !.step = "index"])
    BY <2>2, <2>7
  <2>8. CASE proc[p].at < Len(St!Migrations) /\ St!Go(p, [step |-> "info", at |-> proc[p].at + 1, seen |-> {}])
    BY <2>3, <2>8
  <2>9. ASSUME NEW c \in St!AllColumns, St!Go(p, [proc[p] EXCEPT !.seen = @ \cup {c}])
        PROVE  \E r \in StartPlaces : St!Go(p, r) /\ r.step \notin {"seed", "up"}
    BY <2>4, <2>5, <2>9
  <2>10. QED  BY <1>3, <2>6, <2>7, <2>8, <2>9 DEF St!AddColumn
<1>7. PICK r \in StartPlaces : St!Go(p, r) /\ r.step \notin {"seed", "up"}
  BY <1>6
<1>8. QED  BY <1>4, <1>5, <1>7, MoveKeeps

LEMMA IndexKeeps == ASSUME StartInv, NEW p \in Procs, St!CreateIndexes(p) PROVE StartInv'
<1>1. CASE columns # St!AllColumns
  <2>1. St!Off \in StartPlaces /\ St!Off.step = "off"
    BY DEF St!Off, StartPlaces, StepNames, Values
  <2>2. QED  BY <1>1, <2>1, MoveKeeps DEF St!CreateIndexes
<1>2. CASE columns = St!AllColumns
  <2>1. proc' = [proc EXCEPT ![p] = [proc[p] EXCEPT !.step = "seed"]]
    BY <1>2 DEF St!CreateIndexes, St!Step, St!Go
  <2>2. proc' \in [Procs -> StartPlaces]
    BY <2>1 DEF StartInv, StartPlaces, StepNames, Values
  <2>3. \A q \in Procs : proc'[q].step = "up" => proc[q].step = "up"
    BY <2>1 DEF StartInv, StartPlaces, StepNames, Values
  <2>4. indexed' = TRUE /\ columns' = St!AllColumns
    BY <1>2 DEF St!CreateIndexes
  <2>5. QED  BY <2>2, <2>3, <2>4 DEF StartInv, St!CreateIndexes, St!history
<1>3. QED  BY <1>1, <1>2

LEMMA SeedKeeps == ASSUME StartInv, NEW p \in Procs, St!Seed(p) PROVE StartInv'
<1>1. proc' = [proc EXCEPT ![p] = [proc[p] EXCEPT !.step = "up"]]
  BY DEF St!Seed, St!Step, St!Go
<1>2. proc' \in [Procs -> StartPlaces]
  BY <1>1 DEF StartInv, StartPlaces, StepNames, Values
<1>3. \A q \in Procs : proc'[q].step \in {"seed", "up"} => columns = St!AllColumns /\ indexed
  BY <1>1 DEF StartInv, St!Seed, St!At, StartPlaces, StepNames, Values
<1>4. \A k \in Keys : settings'[k] # "none" /\ (settings[k] # "none" => settings'[k] = settings[k])
  BY DEF St!Seed, St!Seeded, StartInv, StartPlaces, StepNames, Values
<1>5. settings' \in [Keys -> Values]
  BY DEF St!Seed, St!Seeded, StartInv, StartPlaces, StepNames, Values
<1>6. \A k \in Keys : chosen'[k] # "none" => settings'[k] = chosen'[k]
  BY <1>4 DEF St!Seed, St!history, StartInv, StartPlaces, StepNames, Values
<1>7. admins' # {} /\ ("admin" \in admins' => founded')
  BY DEF St!Seed, St!history, StartInv, StartPlaces, StepNames, Values
<1>8. QED  BY <1>2, <1>3, <1>4, <1>5, <1>6, <1>7 DEF StartInv, St!Seed, St!history

LEMMA SettingKeeps ==
    ASSUME StartInv, NEW p \in Procs, NEW k \in Keys, St!set_setting(p, k) PROVE StartInv'
<1>1. settings' \in [Keys -> Values] /\ chosen' \in [Keys -> Values]
  BY DEF St!set_setting, StartInv, StartPlaces, StepNames, Values
<1>2. \A l \in Keys : settings'[l] # settings[l] => settings'[l] = "set"
  BY DEF St!set_setting, StartInv, StartPlaces, StepNames, Values
<1>3. \A l \in Keys : chosen'[l] # "none" => settings'[l] = chosen'[l]
  BY DEF St!set_setting, StartInv, StartPlaces, StepNames, Values
<1>4. UNCHANGED <<proc, columns, indexed, admins, founded, removed>>
  BY DEF St!set_setting, St!Edit
<1>5. QED  BY <1>1, <1>2, <1>3, <1>4 DEF StartInv

LEMMA AdminsKeep ==
    ASSUME StartInv, NEW p \in Procs, NEW name \in {"admin", "root"},
           St!create_admin(p, name) \/ St!delete_admin(p, name)
    PROVE  StartInv'
<1>1. UNCHANGED <<proc, columns, indexed, settings, chosen>>
  BY DEF St!create_admin, St!delete_admin, St!Edit
<1>2. /\ "admin" \in admins' => founded'
      /\ admins' = {} => founded' /\ ((admins = {} /\ removed' = removed) \/ removed')
  <2>1. CASE St!create_admin(p, name)
    BY <2>1 DEF St!create_admin, StartInv
  <2>2. CASE St!delete_admin(p, name)
    BY <2>2 DEF St!delete_admin, StartInv
  <2>3. QED  BY <2>1, <2>2
<1>3. QED  BY <1>1, <1>2 DEF StartInv

LEMMA DepartmentsKeep ==
    ASSUME StartInv, NEW p \in Procs, NEW name, St!delete_department(p, name) PROVE StartInv'
BY DEF St!delete_department, St!Edit, St!history, StartInv, StartPlaces, StepNames, Values

LEMMA EndKeeps == ASSUME StartInv, NEW p \in Procs, St!End(p) PROVE StartInv'
<1>1. St!Off \in StartPlaces /\ St!Off.step = "off"
  BY DEF St!Off, StartPlaces, StepNames, Values
<1>2. QED  BY <1>1, MoveKeeps DEF St!End, St!file

LEMMA NextStartInv == StartInv /\ [St!Next]_(St!svars) => StartInv'
<1>1. CASE UNCHANGED St!svars
  BY <1>1 DEF St!svars, StartInv, StartPlaces, StepNames, Values
<1>2. CASE St!Next
  BY <1>2, ImportKeeps, TablesKeep, InfoKeeps, AddKeeps, IndexKeeps, SeedKeeps, EndKeeps,
     SettingKeeps, AdminsKeep, DepartmentsKeep DEF St!Next
<1>3. QED  BY <1>1, <1>2

LEMMA StartInvSays == StartInv => St!StartsComplete
BY DEF StartInv, St!StartsComplete, St!At, StartPlaces, StepNames, Values

\* Whichever processes start on the same database, in whatever order of their
\* statements, and whatever is edited or stopped meanwhile, a process that is up
\* has every table, column, index and seed that init_db is there to make.
THEOREM StartsAreComplete == MCSpec => []StartsComplete
<1>1. MCInit => StartInv
  BY InitStartInv DEF MCInit
<1>2. StartInv /\ [MCNext]_<<part, vars, console, start, rule>> => StartInv'
  <2>1. [MCNext]_<<part, vars, console, start, rule>> => [St!Next]_(St!svars)
    BY DEF MCNext, console, start, rule, vars, St!svars
  <2>2. QED  BY <2>1, NextStartInv
<1>3. StartInv => StartsComplete
  BY StartInvSays DEF StartsComplete
<1>4. QED  BY <1>1, <1>2, <1>3, PTL DEF MCSpec

-----------------------------------------------------------------------------
(* The 75% rule.  The report counts a subject's sessions once and each     *)
(* person's marks later.  The invariant keeps, for every person still to be *)
(* counted, a moment since the count of the sessions at which the rule was *)
(* broken, or was not, with the numbers the row will have.                 *)

Everyone == Df!ToSet(Students)
Fields == {"step", "pack", "subjects", "held", "people", "rows", "added", "removed", "broken"}

\* A row of a page, as DefaultersAreReal has it.
RowReal(r) ==
    /\ ~r.removed => (r.listed => TRUE \in r.broken)
    /\ ~r.added => (~r.listed => FALSE \in r.broken) /\ r.attended <= r.held

\* Of a person while the subject s is counted, h sessions having been held: the
\* rule as it is now was noted, and as it was with h and no more marks than now,
\* unless marks were taken away; there are h sessions at most, unless some were
\* opened.
PersonSeen(cs, as, s, h, p, more, fewer, seen) ==
    /\ Df!Broken(Df!Attended(cs, as, s, p), Df!HeldIn(cs, s)) \in seen
    /\ ~fewer => \E n \in 0..Df!Attended(cs, as, s, p) : Df!Broken(n, h) \in seen
    /\ ~more => Df!HeldIn(cs, s) <= h

ReportInv ==
    /\ IsFiniteSet(classes)
    /\ report = [f \in Fields |-> report[f]]
    /\ report.people \subseteq Everyone
    /\ report.broken = [p \in Everyone |-> report.broken[p]]
    /\ \A r \in report.rows : RowReal(r)
    /\ Df!At("people") \/ Df!At("person") =>
          /\ report.held \in Nat /\ report.subjects # <<>>
          /\ \A p \in Everyone :
                PersonSeen(classes, attends, Head(report.subjects), report.held, p,
                           report.added, report.removed, report.broken[p])

-----------------------------------------------------------------------------
(* The numbers.                                                            *)
LEMMA DivBelow ==
    ASSUME NEW a \in Nat, NEW b \in Nat, b > 0, NEW m \in Int
    PROVE  a \div b < m <=> a < b * m
BY SMTT(60)

LEMMA BrokenIs ==
    ASSUME NEW n \in Nat, NEW h \in Nat
    PROVE  Df!Broken(n, h) <=> h > 0 /\ 2000 * n + h < (2 * h) * MinPct
<1>1. CASE h = 0
  BY <1>1 DEF Df!Broken
<1>2. CASE h > 0
  <2>1. 2000 * n + h \in Nat /\ 2 * h \in Nat /\ 2 * h > 0
    BY <1>2
  <2>2. (2000 * n + h) \div (2 * h) < MinPct <=> 2000 * n + h < (2 * h) * MinPct
    BY <2>1, DivBelow, PctAssumption
  <2>3. QED  BY <1>2, <2>2 DEF Df!Broken, Df!Pct
<1>3. QED  BY <1>1, <1>2

LEMMA MoreMarks ==
    ASSUME NEW n \in Nat, NEW m \in Nat, NEW h \in Nat, n <= m, Df!Broken(m, h)
    PROVE  Df!Broken(n, h)
BY BrokenIs, PctAssumption

\* With fewer sessions held and the same marks the rule is not broken either.
LEMMA FewerHeld ==
    ASSUME NEW n \in Nat, NEW h \in Nat, NEW g \in Nat, g <= h, ~Df!Broken(n, h)
    PROVE  ~Df!Broken(n, g)
<1>1. CASE g = 0
  BY <1>1 DEF Df!Broken
<1>2. CASE g > 0
  <2>1. h > 0 /\ 2000 * n + h >= (2 * h) * MinPct
    BY <1>2, BrokenIs, PctAssumption
  <2>2. 2000 * n + g >= (2 * g) * MinPct
    <3>1. CASE MinPct <= 0
      <4>1. g * MinPct <= 0
        BY <1>2, <3>1, PctAssumption
      <4>2. (2 * g) * MinPct = 2 * (g * MinPct)
        BY PctAssumption
      <4>3. g * MinPct \in Int
        BY PctAssumption
      <4>4. QED  BY <4>1, <4>2, <4>3
    <3>2. CASE MinPct > 0
      <4>1. PICK k \in Nat : k = 2 * MinPct - 1
        BY <3>2, PctAssumption
      <4>2. g * k <= h * k
        OBVIOUS
      <4>3. h * k = (2 * h) * MinPct - h /\ g * k = (2 * g) * MinPct - g
        BY <4>1, PctAssumption
      <4>4. (2 * h) * MinPct \in Int /\ (2 * g) * MinPct \in Int
        BY PctAssumption
      <4>5. QED  BY <2>1, <4>2, <4>3, <4>4
    <3>3. QED  BY <3>1, <3>2, PctAssumption
  <2>3. QED  BY <2>2, BrokenIs, PctAssumption
<1>3. QED  BY <1>1, <1>2

LEMMA DfCardinality == \A S : Df!Cardinality(S) = Cardinality(S)
BY DEF Df!Cardinality, Cardinality

LEMMA Counts ==
    ASSUME NEW cs, NEW as, NEW s, NEW p, IsFiniteSet(cs)
    PROVE  /\ Df!HeldIn(cs, s) \in Nat /\ Df!Attended(cs, as, s, p) \in Nat
           /\ Df!Attended(cs, as, s, p) <= Df!HeldIn(cs, s)
           /\ IsFiniteSet({c \in cs : c.subject = s})
           /\ IsFiniteSet({c \in cs : c.subject = s /\ <<c.id, p>> \in as})
<1> DEFINE A == {c \in cs : c.subject = s}
           B == {c \in cs : c.subject = s /\ <<c.id, p>> \in as}
<1>1. A \subseteq cs /\ B \subseteq A
  OBVIOUS
<1>2. IsFiniteSet(A) /\ IsFiniteSet(B)
  BY <1>1, FS_Subset
<1>3. Cardinality(A) \in Nat /\ Cardinality(B) \in Nat /\ Cardinality(B) <= Cardinality(A)
  BY <1>1, <1>2, FS_CardinalityType, FS_Subset
<1>4. QED  BY <1>2, <1>3, DfCardinality DEF Df!HeldIn, Df!Attended

\* A write that leaves every mark leaves the sessions they are of.
LEMMA MarksStay ==
    ASSUME NEW cs, NEW as, NEW ds, NEW bs, NEW s, NEW p, IsFiniteSet(cs), IsFiniteSet(ds),
           as \subseteq bs, \A c \in cs : <<c.id, p>> \in as => c \in ds
    PROVE  Df!Attended(cs, as, s, p) <= Df!Attended(ds, bs, s, p)
<1>1. {c \in cs : c.subject = s /\ <<c.id, p>> \in as} \subseteq {c \in ds : c.subject = s /\ <<c.id, p>> \in bs}
  OBVIOUS
<1>2. IsFiniteSet({c \in ds : c.subject = s /\ <<c.id, p>> \in bs})
  BY FS_Subset
<1>3. QED  BY <1>1, <1>2, FS_Subset, DfCardinality DEF Df!Attended

LEMMA NoneOpened ==
    ASSUME NEW cs, NEW ds, NEW s, IsFiniteSet(cs), \A c \in ds \ cs : c.subject # s
    PROVE  Df!HeldIn(ds, s) <= Df!HeldIn(cs, s)
<1>1. {c \in ds : c.subject = s} \subseteq {c \in cs : c.subject = s}
  OBVIOUS
<1>2. IsFiniteSet({c \in cs : c.subject = s})
  BY FS_Subset
<1>3. QED  BY <1>1, <1>2, FS_Subset, DfCardinality DEF Df!HeldIn

-----------------------------------------------------------------------------
(* The steps.                                                              *)
LEMMA InitReportInv == Df!Init => ReportInv
<1> SUFFICES ASSUME Df!Init PROVE ReportInv
  OBVIOUS
<1>1. IsFiniteSet(classes)
  BY FS_EmptySet DEF Df!Init
<1>2. /\ report = [f \in Fields |-> report[f]]
      /\ report.step = "none" /\ report.people = {} /\ report.rows = {}
      /\ report.broken = [p \in Everyone |-> {}]
  BY DEF Df!Init, Df!NoReport, Fields, Everyone
<1>3. QED  BY <1>1, <1>2 DEF ReportInv, Df!At

\* The other requests: a write that leaves every mark keeps the sessions they are of.
LEMMA WriteKeeps ==
    ASSUME ReportInv, NEW cs, NEW as, Df!Write(cs, as), IsFiniteSet(cs),
           attends \subseteq as => \A c \in classes, p \in Everyone : <<c.id, p>> \in attends => c \in cs
    PROVE  ReportInv'
<1>1. classes' = cs /\ attends' = as /\ report' = Df!Watched(cs, as)
  BY DEF Df!Write
<1>2. CASE ~(Df!At("people") \/ Df!At("person"))
  <2>1. report' = report
    BY <1>1, <1>2 DEF Df!Watched
  <2>2. QED  BY <1>1, <1>2, <2>1 DEF ReportInv, Df!At
<1>3. CASE Df!At("people") \/ Df!At("person")
  <2> DEFINE s == Head(report.subjects)
  <2>1. report' = [report EXCEPT
             !.added = report.added \/ \E c \in cs \ classes : c.subject = s,
             !.removed = report.removed \/ ~(attends \subseteq as),
             !.broken = [p \in Df!ToSet(Students) |->
                report.broken[p] \cup {Df!Broken(Df!Attended(cs, as, s, p), Df!HeldIn(cs, s))}]]
    BY <1>1, <1>3 DEF Df!Watched, ReportInv
  <2>2. /\ report' = [f \in Fields |-> report'[f]]
        /\ \A f \in Fields \ {"added", "removed", "broken"} : report'[f] = report[f]
        /\ report'.added = (report.added \/ \E c \in cs \ classes : c.subject = s)
        /\ report'.removed = (report.removed \/ ~(attends \subseteq as))
        /\ report'.broken = [p \in Everyone |->
                report.broken[p] \cup {Df!Broken(Df!Attended(cs, as, s, p), Df!HeldIn(cs, s))}]
    BY <2>1 DEF ReportInv, Fields, Everyone
  <2>3. report'.step = report.step /\ report'.held = report.held /\ report'.subjects = report.subjects
        /\ report'.people = report.people /\ report'.rows = report.rows
    BY <2>2 DEF Fields
  <2> HIDE DEF s
  <2>4. ASSUME NEW p \in Everyone
        PROVE  PersonSeen(cs, as, s, report.held, p, report'.added, report'.removed, report'.broken[p])
    <3>1. PersonSeen(classes, attends, s, report.held, p, report.added, report.removed, report.broken[p])
      BY <1>3 DEF ReportInv, s
    <3>2. report'.broken[p] = report.broken[p] \cup {Df!Broken(Df!Attended(cs, as, s, p), Df!HeldIn(cs, s))}
      BY <2>2
    <3>3. ASSUME ~report'.removed
          PROVE  \E n \in 0..Df!Attended(cs, as, s, p) : Df!Broken(n, report.held) \in report'.broken[p]
      <4>1. attends \subseteq as /\ ~report.removed
        BY <2>2, <3>3
      <4>2. Df!Attended(classes, attends, s, p) <= Df!Attended(cs, as, s, p)
        BY <4>1, MarksStay DEF ReportInv
      <4>3. PICK a, b : a = Df!Attended(classes, attends, s, p) /\ b = Df!Attended(cs, as, s, p)
        OBVIOUS
      <4>4. PICK n \in 0..a : Df!Broken(n, report.held) \in report.broken[p]
        BY <3>1, <4>1, <4>3 DEF PersonSeen
      <4>5. a \in Nat /\ b \in Nat /\ a <= b
        BY <4>2, <4>3, Counts DEF ReportInv
      <4>6. n \in 0..b
        BY <4>4, <4>5
      <4>7. QED  BY <3>2, <4>3, <4>4, <4>6
    <3>4. ASSUME ~report'.added PROVE Df!HeldIn(cs, s) <= report.held
      <4>1. ~report.added /\ \A c \in cs \ classes : c.subject # s
        BY <2>2, <3>4
      <4>2. Df!HeldIn(cs, s) <= Df!HeldIn(classes, s)
        BY <4>1, NoneOpened DEF ReportInv
      <4>3. Df!HeldIn(cs, s) \in Nat /\ Df!HeldIn(classes, s) \in Nat /\ report.held \in Nat
        BY <1>3, Counts DEF ReportInv
      <4>4. QED  BY <3>1, <4>1, <4>2, <4>3 DEF PersonSeen
    <3>5. QED  BY <3>2, <3>3, <3>4 DEF PersonSeen
  <2>5. report'.broken = [p \in Everyone |-> report'.broken[p]]
    BY <2>2
  <2>6. report'.held \in Nat /\ report'.subjects # <<>> /\ s = Head(report'.subjects)
    BY <1>3, <2>3 DEF ReportInv, s
  <2>7. report'.people \subseteq Everyone /\ \A r \in report'.rows : RowReal(r)
    BY <2>3 DEF ReportInv
  <2>8. \A p \in Everyone :
           PersonSeen(cs, as, Head(report'.subjects), report'.held, p,
                           report'.added, report'.removed, report'.broken[p])
    BY <2>3, <2>4, <2>6
  <2>9. QED  BY <1>1, <2>2, <2>5, <2>6, <2>7, <2>8 DEF ReportInv
<1>4. QED  BY <1>2, <1>3

LEMMA SomeGone ==
    ASSUME ReportInv, NEW gone, Df!Without(gone) PROVE ReportInv'
<1> DEFINE cs == classes \ gone
           as == {a \in attends : \A c \in gone : c.id # a[1]}
<1>1. Df!Write(cs, as)
  BY DEF Df!Without
<1>2. IsFiniteSet(cs)
  BY FS_Subset DEF ReportInv
<1>3. ASSUME attends \subseteq as, NEW c \in classes, NEW p, <<c.id, p>> \in attends
      PROVE  c \in cs
  BY <1>3
<1> HIDE DEF cs, as
<1>4. QED  BY <1>1, <1>2, <1>3, WriteKeeps

LEMMA OthersKeep ==
    ASSUME ReportInv,
           \/ \E s \in Df!ToSet(Courses) : Df!create_session(s) \/ Df!delete_subject(s)
           \/ \E c \in classes : Df!delete_session(c) \/ \E p \in Df!ToSet(Students) : Df!mark_session_attendance(c, p)
           \/ \E p \in Df!ToSet(Students) :
                 Df!delete_person(p) \/ Df!fulfil_erasure(p) \/ \E d \in Departments : Df!upsert_person(p, d)
    PROVE  ReportInv'
<1>1. ASSUME NEW s, Df!create_session(s) PROVE ReportInv'
  <2>1. IsFiniteSet(classes \cup {[id |-> opened + 1, subject |-> s]})
    BY FS_AddElement DEF ReportInv
  <2>2. QED  BY <1>1, <2>1, WriteKeeps DEF Df!create_session
<1>2. ASSUME NEW s, Df!delete_subject(s) PROVE ReportInv'
  BY <1>2, SomeGone DEF Df!delete_subject
<1>3. ASSUME NEW c, Df!delete_session(c) PROVE ReportInv'
  BY <1>3, SomeGone DEF Df!delete_session
<1>4. ASSUME NEW as, Df!Write(classes, as) PROVE ReportInv'
  BY <1>4, WriteKeeps DEF ReportInv
<1>5. QED
  BY <1>1, <1>2, <1>3, <1>4 DEF Df!mark_session_attendance, Df!delete_person, Df!upsert_person, Df!fulfil_erasure

\* A step of the report that counts nothing.
LEMMA IdleKeeps ==
    ASSUME ReportInv, UNCHANGED <<classes, attends>>,
           report' = [f \in Fields |-> report'[f]],
           report'.step \notin {"people", "person"},
           report'.people \subseteq Everyone, report'.rows \subseteq report.rows,
           report'.broken = report.broken \/ report'.broken = [p \in Everyone |-> {}]
    PROVE  ReportInv'
BY DEF ReportInv, Df!At

LEMMA BeginKeeps == ASSUME ReportInv, NEW pack, Df!Begin(pack) PROVE ReportInv'
<1> DEFINE todo == SelectSeq(Courses, LAMBDA s : s \in taught)
<1>1. report' = [Df!NoReport EXCEPT !.step = "subject", !.pack = pack, !.subjects = todo]
      /\ UNCHANGED <<classes, attends>>
  BY DEF Df!Begin, Df!Step
<1> HIDE DEF todo
<1>2. /\ report' = [f \in Fields |-> report'[f]]
      /\ report'.step = "subject" /\ report'.people = {} /\ report'.rows = {}
      /\ report'.broken = [p \in Everyone |-> {}]
  BY <1>1 DEF Df!NoReport, Fields, Everyone
<1>3. QED  BY <1>1, <1>2, IdleKeeps

LEMMA AnswerKeeps == ASSUME ReportInv, Df!Answer PROVE ReportInv'
<1>1. report' = Df!NoReport /\ UNCHANGED <<classes, attends>>
  BY DEF Df!Answer, Df!Step
<1>2. /\ report' = [f \in Fields |-> report'[f]]
      /\ report'.step = "none" /\ report'.people = {} /\ report'.rows = {}
      /\ report'.broken = [p \in Everyone |-> {}]
  BY <1>1 DEF Df!NoReport, Fields, Everyone
<1>3. QED  BY <1>1, <1>2, IdleKeeps

LEMMA NextSubjectKeeps == ASSUME ReportInv, Df!Step(Df!NextSubject) PROVE ReportInv'
<1>1. report' = [report EXCEPT !.step = "subject", !.subjects = Tail(report.subjects)]
      /\ UNCHANGED <<classes, attends>>
  BY DEF Df!Step, Df!NextSubject
<1>2. /\ report' = [f \in Fields |-> report'[f]]
      /\ report'.step = "subject" /\ report'.people = report.people /\ report'.rows = report.rows
      /\ report'.broken = report.broken
  BY <1>1 DEF ReportInv, Fields
<1>3. report.people \subseteq Everyone
  BY DEF ReportInv
<1>4. QED  BY <1>1, <1>2, <1>3, IdleKeeps

LEMMA CountHeldKeeps == ASSUME ReportInv, Df!CountHeld PROVE ReportInv'
<1>1. CASE report.subjects = <<>>
  <2>1. report' = [report EXCEPT !.step = "done"] /\ UNCHANGED <<classes, attends>>
    BY <1>1 DEF Df!CountHeld, Df!Step
  <2>2. /\ report' = [f \in Fields |-> report'[f]]
        /\ report'.step = "done" /\ report'.people = report.people /\ report'.rows = report.rows
        /\ report'.broken = report.broken
    BY <2>1 DEF ReportInv, Fields
  <2>3. report.people \subseteq Everyone
    BY DEF ReportInv
  <2>4. QED  BY <2>1, <2>2, <2>3, IdleKeeps
<1>2. CASE report.subjects # <<>> /\ Head(report.subjects) \notin taught
  BY <1>2, NextSubjectKeeps DEF Df!CountHeld
<1>3. CASE report.subjects # <<>> /\ Head(report.subjects) \in taught
  <2> DEFINE s == Head(report.subjects)
  <2>1. report' = [report EXCEPT !.step = "people", !.held = Df!HeldIn(classes, s),
                          !.added = FALSE, !.removed = FALSE,
                          !.broken = [p \in Df!ToSet(Students) |->
                             {Df!Broken(Df!Attended(classes, attends, s, p), Df!HeldIn(classes, s))}]]
        /\ UNCHANGED <<classes, attends>>
    BY <1>3 DEF Df!CountHeld, Df!Step
  <2> HIDE DEF s
  <2>2. /\ report' = [f \in Fields |-> report'[f]]
        /\ report'.subjects = report.subjects /\ report'.people = report.people
        /\ report'.rows = report.rows /\ report'.held = Df!HeldIn(classes, s)
        /\ report'.added = FALSE /\ report'.removed = FALSE
        /\ report'.broken = [p \in Everyone |->
                             {Df!Broken(Df!Attended(classes, attends, s, p), Df!HeldIn(classes, s))}]
    BY <2>1 DEF ReportInv, Fields, Everyone
  <2>3. report'.held \in Nat /\ \A p \in Everyone : Df!Attended(classes, attends, s, p) \in Nat
    <3>1. IsFiniteSet(classes)
      BY DEF ReportInv
    <3>2. Df!HeldIn(classes, s) \in Nat
      BY <3>1, Counts
    <3>3. ASSUME NEW p \in Everyone PROVE Df!Attended(classes, attends, s, p) \in Nat
      BY <3>1, Counts
    <3>4. QED  BY <2>2, <3>2, <3>3
  <2>4. ASSUME NEW p \in Everyone
        PROVE  PersonSeen(classes, attends, s, report'.held, p, FALSE, FALSE, report'.broken[p])
    <3>1. report'.broken[p] = {Df!Broken(Df!Attended(classes, attends, s, p), Df!HeldIn(classes, s))}
      BY <2>2
    <3>2. Df!Attended(classes, attends, s, p) \in 0..Df!Attended(classes, attends, s, p)
      BY <2>3
    <3>3. QED  BY <2>2, <2>3, <3>1, <3>2 DEF PersonSeen
  <2>5. report'.broken = [p \in Everyone |-> report'.broken[p]]
    BY <2>2
  <2>6. \A p \in Everyone : PersonSeen(classes', attends', Head(report'.subjects), report'.held, p,
                                       report'.added, report'.removed, report'.broken[p])
    BY <2>1, <2>2, <2>4 DEF s
  <2>7. report'.people \subseteq Everyone /\ report'.subjects # <<>> /\ \A r \in report'.rows : RowReal(r)
    BY <1>3, <2>2 DEF ReportInv
  <2>8. IsFiniteSet(classes')
    BY <2>1 DEF ReportInv
  <2>9. QED  BY <2>2, <2>3, <2>5, <2>6, <2>7, <2>8 DEF ReportInv
<1>4. QED  BY <1>1, <1>2, <1>3

\* A step of the report that goes on with the same subject.
LEMMA SameSubject ==
    ASSUME ReportInv, UNCHANGED <<classes, attends>>,
           Df!At("people") \/ Df!At("person"),
           report' = [f \in Fields |-> report'[f]],
           \A f \in {"subjects", "held", "added", "removed", "broken"} : report'[f] = report[f],
           report'.people \subseteq Everyone,
           \A r \in report'.rows : RowReal(r)
    PROVE  ReportInv'
<1>1. /\ report'.subjects = report.subjects /\ report'.held = report.held /\ report'.added = report.added
      /\ report'.removed = report.removed /\ report'.broken = report.broken
  OBVIOUS
<1>2. QED  BY <1>1 DEF ReportInv

LEMMA ListKeeps == ASSUME ReportInv, Df!ListPeople PROVE ReportInv'
<1>1. PICK q \in SUBSET Everyone :
        report' = [report EXCEPT !.step = "person", !.people = q] /\ UNCHANGED <<classes, attends>>
  BY DEF Df!ListPeople, Df!Step, Everyone
<1>2. /\ report' = [f \in Fields |-> report'[f]]
      /\ \A f \in {"subjects", "held", "added", "removed", "broken"} : report'[f] = report[f]
      /\ report'.people = q /\ report'.rows = report.rows
  BY <1>1 DEF ReportInv, Fields
<1>3. Df!At("people") /\ \A r \in report'.rows : RowReal(r)
  BY <1>2 DEF Df!ListPeople, ReportInv
<1>4. QED  BY <1>1, <1>2, <1>3, SameSubject

LEMMA CountKeeps ==
    ASSUME ReportInv, NEW i \in DOMAIN Students, Df!CountAttended(i) PROVE ReportInv'
<1>1. PICK p, s, n : p = Students[i] /\ s = Head(report.subjects) /\ n = Df!Attended(classes, attends, s, p)
  OBVIOUS
<1> DEFINE row == [subject |-> s, person |-> p, attended |-> n, held |-> report.held,
                listed |-> Df!Broken(n, report.held), added |-> report.added,
                removed |-> report.removed, broken |-> report.broken[p]]
<1>2. /\ Df!At("person") /\ UNCHANGED <<classes, attends>>
      /\ report' = [report EXCEPT !.people = report.people \ {p},
                    !.rows = report.rows \cup (IF report.pack \in {"", p} THEN {row} ELSE {})]
  BY <1>1 DEF Df!CountAttended, Df!Step
<1>3. p \in Everyone
  BY <1>1 DEF Everyone, Df!ToSet
<1>4. RowReal(row)
  <2>1. PersonSeen(classes, attends, s, report.held, p, report.added, report.removed, report.broken[p])
    BY <1>1, <1>2, <1>3 DEF ReportInv
  <2>2. /\ n \in Nat /\ Df!HeldIn(classes, s) \in Nat /\ report.held \in Nat
        /\ n <= Df!HeldIn(classes, s)
    BY <1>1, <1>2, Counts DEF ReportInv
  <2>3. ASSUME ~report.removed, Df!Broken(n, report.held) PROVE TRUE \in report.broken[p]
    <3>1. PICK m \in 0..n : Df!Broken(m, report.held) \in report.broken[p]
      BY <1>1, <2>1, <2>3 DEF PersonSeen
    <3>2. Df!Broken(m, report.held)
      BY <2>2, <2>3, <3>1, MoreMarks
    <3>3. Df!Broken(m, report.held) = TRUE
      BY <3>2 DEF Df!Broken
    <3>4. QED  BY <3>1, <3>3
  <2>4. ASSUME ~report.added, ~Df!Broken(n, report.held) PROVE FALSE \in report.broken[p]
    <3>1. Df!HeldIn(classes, s) <= report.held
      BY <2>1, <2>4 DEF PersonSeen
    <3>2. ~Df!Broken(n, Df!HeldIn(classes, s))
      BY <2>2, <2>4, <3>1, FewerHeld
    <3>3. Df!Broken(n, Df!HeldIn(classes, s)) = FALSE
      BY <3>2 DEF Df!Broken
    <3>4. QED  BY <1>1, <2>1, <3>3 DEF PersonSeen
  <2>5. ASSUME ~report.added PROVE n <= report.held
    BY <2>1, <2>2, <2>5 DEF PersonSeen
  <2>6. /\ row.removed = report.removed /\ row.added = report.added /\ row.attended = n
        /\ row.held = report.held /\ row.broken = report.broken[p]
        /\ row.listed = Df!Broken(n, report.held)
    OBVIOUS
  <2> HIDE DEF row
  <2>7. QED  BY <2>3, <2>4, <2>5, <2>6 DEF RowReal
<1> HIDE DEF row
<1>5. /\ report' = [f \in Fields |-> report'[f]]
      /\ \A f \in {"subjects", "held", "added", "removed", "broken"} : report'[f] = report[f]
      /\ report'.people = report.people \ {p}
      /\ report'.rows \subseteq report.rows \cup {row}
  BY <1>2 DEF ReportInv, Fields
<1>6. \A r \in report'.rows : RowReal(r)
  BY <1>4, <1>5 DEF ReportInv
<1>7. report'.people \subseteq Everyone
  BY <1>5 DEF ReportInv
<1>8. QED  BY <1>2, <1>5, <1>6, <1>7, SameSubject

LEMMA NextReportInv == ReportInv /\ [Df!Next]_(Df!vars) => ReportInv'
<1>1. CASE UNCHANGED Df!vars
  BY <1>1 DEF Df!vars, ReportInv, Df!At
<1>2. CASE ReportInv /\ Df!Next
  BY <1>2, OthersKeep, BeginKeeps, AnswerKeeps, NextSubjectKeeps, CountHeldKeeps, ListKeeps, CountKeeps
     DEF Df!Next, Df!all_defaulters, Df!parent_pack, Df!Counted
<1>3. QED  BY <1>1, <1>2

LEMMA ReportInvSays == ReportInv => Df!DefaultersAreReal
BY DEF ReportInv, Df!DefaultersAreReal, RowReal

\* Whatever is opened, deleted, marked and unmarked while a report is drawn up, a
\* person it lists was below the threshold at some moment of it unless marks were
\* taken away, and one it leaves out was not unless some were added
\* (subject_attendance_report, all_defaulters, parent_pack).
THEOREM DefaultersWereBelow == MCSpec => []DefaultersAreReal
<1>1. MCInit => ReportInv
  BY InitReportInv DEF MCInit
<1>2. ReportInv /\ [MCNext]_<<part, vars, console, start, rule>> => ReportInv'
  <2>1. [MCNext]_<<part, vars, console, start, rule>> => [Df!Next]_(Df!vars)
    BY DEF MCNext, console, start, rule, vars, Df!vars
  <2>2. QED  BY <2>1, NextReportInv
<1>3. ReportInv => DefaultersAreReal
  BY ReportInvSays DEF DefaultersAreReal
<1>4. QED  BY <1>1, <1>2, <1>3, PTL DEF MCSpec

-----------------------------------------------------------------------------
(* The console.  A row names others by id, through columns of which only   *)
(* some are FOREIGN KEYs.  The invariant gives every row an id below the   *)
(* counter of its table, and to every reference an id that was given out:  *)
(* an id is not given out twice, so a row made later can not take the place *)
(* of one that is gone, whether or not a key clears the reference.  The    *)
(* chains of CASCADE in the schema are two long at most (ColumnOk), which  *)
(* is why two rounds of deletion are all (TwoRounds) and why none of them  *)
(* starts at a place and ends at a record.                                 *)

\* Tables that a CASCADE leads to, places, and what the proofs need of a column
\* of t with clause k: the chains of CASCADE are at most two long and leave the
\* records alone, and nothing refers to the one table that rows are replaced in.
Parents == {"subjects", "class_sessions", "branches", "bus_routes", "exam_sessions", "tenants",
            "rooms", "muster_drills"}
Places == {"departments", "branches", "tenants"}
Answering == {"contractors", "rooms"}
ColumnOk(t, k) ==
    /\ k \in {C!Cascade(k.to), C!SetNull(k.to), C!Bare(k.to)}
    /\ k.to # "person_shift"
    /\ k.on = "CASCADE" =>
          /\ k.to \in Parents
          /\ t \in Parents => t = "class_sessions" /\ k.to = "subjects"
          /\ t \notin Places \cup Answering
          /\ k.to \in Places => t \in C!OwnedByPlace
    /\ k.on = "SET NULL" => t # "rooms"

LEMMA Clauses ==
    /\ \A t, u : u # "person_shift" => ColumnOk(t, C!Bare(u))
    /\ \A t, u : u # "person_shift" /\ t # "rooms" => ColumnOk(t, C!SetNull(u))
    /\ \A t, u : /\ u \in Parents /\ t \notin Parents \cup Places \cup Answering
                 /\ u \in Places => t \in C!OwnedByPlace
                 => ColumnOk(t, C!Cascade(u))
    /\ ColumnOk("class_sessions", C!Cascade("subjects"))
BY DEF C!Bare, C!SetNull, C!Cascade, ColumnOk, Parents, Places, Answering, C!OwnedByPlace

LEMMA AcademicColumns ==
    \A t \in DOMAIN C!AcademicTables : \A c \in DOMAIN C!AcademicTables[t].cols :
       ColumnOk(t, C!AcademicTables[t].cols[c])
BY Clauses DEF C!AcademicTables, C!Table, C!NoCols, Parents, Places, Answering, C!OwnedByPlace
LEMMA PlaceColumns ==
    \A t \in DOMAIN C!PlaceTables : \A c \in DOMAIN C!PlaceTables[t].cols :
       ColumnOk(t, C!PlaceTables[t].cols[c])
BY Clauses DEF C!PlaceTables, C!Table, C!NoCols, Parents, Places, Answering, C!OwnedByPlace
LEMMA SiteColumns ==
    \A t \in DOMAIN C!SiteTables : \A c \in DOMAIN C!SiteTables[t].cols :
       ColumnOk(t, C!SiteTables[t].cols[c])
BY Clauses DEF C!SiteTables, C!Table, C!NoCols, Parents, Places, Answering, C!OwnedByPlace
LEMMA ControlColumns ==
    \A t \in DOMAIN C!ControlTables : \A c \in DOMAIN C!ControlTables[t].cols :
       ColumnOk(t, C!ControlTables[t].cols[c])
BY Clauses DEF C!ControlTables, C!Table, C!NoCols, Parents, Places, Answering, C!OwnedByPlace
LEMMA EnterpriseColumns ==
    \A t \in DOMAIN C!EnterpriseTables : \A c \in DOMAIN C!EnterpriseTables[t].cols :
       ColumnOk(t, C!EnterpriseTables[t].cols[c])
BY Clauses DEF C!EnterpriseTables, C!Table, C!NoCols, Parents, Places, Answering, C!OwnedByPlace

LEMMA Columns == \A t \in C!Tables : \A c \in C!Cols(t) : ColumnOk(t, C!Schema[t].cols[c])
<1> SUFFICES ASSUME NEW t \in C!Tables, NEW c \in C!Cols(t) PROVE ColumnOk(t, C!Schema[t].cols[c])
  OBVIOUS
<1>1. \/ t \in DOMAIN C!AcademicTables /\ C!Schema[t] = C!AcademicTables[t]
      \/ t \in DOMAIN C!PlaceTables /\ C!Schema[t] = C!PlaceTables[t]
      \/ t \in DOMAIN C!SiteTables /\ C!Schema[t] = C!SiteTables[t]
      \/ t \in DOMAIN C!ControlTables /\ C!Schema[t] = C!ControlTables[t]
      \/ t \in DOMAIN C!EnterpriseTables /\ C!Schema[t] = C!EnterpriseTables[t]
  BY DEF C!Schema, C!Tables
<1>2. QED
  BY <1>1, AcademicColumns, PlaceColumns, SiteColumns, ControlColumns, EnterpriseColumns DEF C!Cols

-----------------------------------------------------------------------------
RowFields == {"tbl", "id", "key", "ref", "flag", "about"}
To(t, c) == C!Schema[t].cols[c].to

\* Of a row: its id was given out, so were the ids it refers to, and it says what
\* each of those that are there is called.
RefsOk(r) ==
    \A c \in C!Cols(r.tbl) :
       /\ r.ref[c] \in C!Picked(To(r.tbl, c))
       /\ \A g \in C!WithId(To(r.tbl, c), r.ref[c]) : g.key = r.about[c]
RowOk(r) == DOMAIN r = RowFields /\ r.tbl \in scope /\ r.id \in 1..seq[r.tbl] /\ RefsOk(r)

TablesInv ==
    /\ scope \subseteq C!Tables /\ seq \in [scope -> Nat]
    /\ \A r \in rows : RowOk(r)
    /\ \A r, q \in rows : r.tbl = q.tbl /\ r.id = q.id => r = q
    /\ C!NoDanglingKey

\* What a form may send for the columns of t.
RefKnown(t, ref) == \A c \in C!Cols(t) : ref[c] \in C!Picked(To(t, c))

\* A step leaves the rows that answers are about, and the records when a place goes.
AnswersStay ==
    \A r \in rows : r.tbl \in Answering =>
       \E q \in rows' : /\ q.tbl = r.tbl /\ q.id = r.id /\ q.key = r.key
                        /\ r.tbl = "rooms" => q.ref["branch_id"] = r.ref["branch_id"]
GoneIds == {<<r.tbl, r.id>> : r \in rows} \ {<<r.tbl, r.id>> : r \in rows'}
RecordsStay ==
    (\E g \in GoneIds : g[1] \in Places) => Cardinality({g \in GoneIds : g[1] \notin C!OwnedByPlace}) = 1
\* Ids are not given out twice.
IdsGrow == \A t \in scope : seq[t] <= seq'[t]
StepOk == TablesInv' /\ AnswersStay /\ RecordsStay /\ IdsGrow

LEMMA IdsStay == ASSUME TablesInv, UNCHANGED seq PROVE IdsGrow
BY DEF TablesInv, IdsGrow

LEMMA IdleStep ==
    ASSUME TablesInv, UNCHANGED <<rows, seq, scope>> PROVE StepOk
<1>1. TablesInv'
  <2>1. UNCHANGED C!NoDanglingKey
    BY DEF C!NoDanglingKey, C!Has, C!WithId
  <2>2. \A r : RowOk(r)' <=> RowOk(r)
    BY DEF RowOk, RefsOk, C!Picked, C!Shown, C!WithId
  <2>3. QED  BY <2>1, <2>2 DEF TablesInv
<1>2. AnswersStay
  BY DEF AnswersStay
<1>3. GoneIds = {}
  BY DEF GoneIds
<1>4. QED  BY <1>1, <1>2, <1>3, IdsStay DEF StepOk, RecordsStay

\* No row that a step leaves or writes is called wrong, as the ids it gives out
\* are new to all that refer.
LEMMA RowsOk ==
    ASSUME TablesInv, UNCHANGED scope, seq' \in [scope -> Nat],
           \A t \in scope : seq[t] <= seq'[t],
           \A r \in rows' : DOMAIN r = RowFields /\ r.tbl \in scope /\ r.id \in 1..seq'[r.tbl],
           \A r \in rows' : RefsOk(r),
           \A r \in rows' : \/ \E q \in rows : q.tbl = r.tbl /\ q.id = r.id /\ q.key = r.key
                            \/ r.id > seq[r.tbl]
    PROVE  \A r \in rows' : RowOk(r)'
<1> SUFFICES ASSUME NEW r \in rows' PROVE RowOk(r)'
  OBVIOUS
<1>1. r.tbl \in C!Tables /\ DOMAIN seq = scope /\ DOMAIN seq' = scope
  BY DEF TablesInv
<1>2. ASSUME NEW c \in C!Cols(r.tbl)
      PROVE  /\ r.ref[c] \in C!Picked(To(r.tbl, c))'
             /\ \A g \in C!WithId(To(r.tbl, c), r.ref[c])' : g.key = r.about[c]
  <2>1. PICK u, i : u = To(r.tbl, c) /\ i = r.ref[c]
    OBVIOUS
  <2>2. i = C!Null \/ (u \in scope /\ i \in 1..seq[u])
    BY <1>1, <2>1 DEF RefsOk, C!Picked, C!Shown
  <2>3. i = C!Null \/ (u \in scope /\ i \in 1..seq'[u])
    BY <2>2 DEF TablesInv
  <2>4. ASSUME NEW g \in rows', g.tbl = u, g.id = i PROVE g.key = r.about[c]
    <3>1. ~(g.id > seq[g.tbl])
      BY <2>2, <2>4 DEF C!Null, TablesInv
    <3>2. PICK q \in rows : q.tbl = u /\ q.id = i /\ q.key = g.key
      BY <2>4, <3>1
    <3>3. q \in C!WithId(u, i)
      BY <3>2 DEF C!WithId
    <3>4. QED  BY <2>1, <3>2, <3>3 DEF RefsOk
  <2>5. r.ref[c] \in C!Picked(To(r.tbl, c))'
    BY <1>1, <2>1, <2>3 DEF C!Picked, C!Shown, To
  <2>6. \A g \in C!WithId(To(r.tbl, c), r.ref[c])' : g.key = r.about[c]
    BY <2>1, <2>4 DEF C!WithId, To
  <2>7. QED  BY <2>5, <2>6
<1>3. RefsOk(r)'
  BY <1>2 DEF RefsOk
<1>4. QED  BY <1>3 DEF RowOk

LEMMA NameIs ==
    ASSUME TablesInv, NEW t, NEW c, NEW id, NEW g \in C!WithId(To(t, c), id)
    PROVE  C!NameOf(t, c, id) = g.key
<1>1. C!WithId(To(t, c), id) = {g}
  BY DEF C!WithId, TablesInv
<1>2. QED  BY <1>1 DEF C!NameOf, To

\* INSERT, and INSERT OR REPLACE where nothing refers.
LEMMA CommitStep ==
    ASSUME TablesInv, UNCHANGED scope, NEW t \in scope, NEW key, NEW ref, RefKnown(t, ref),
           C!RefsResolve(t, ref), NEW old \in SUBSET rows,
           \A r \in old : r.tbl = "person_shift", C!Commit(t, C!NewRow(t, key, ref), old)
    PROVE  StepOk
<1>1. PICK n : n = C!NewRow(t, key, ref)
  OBVIOUS
<1>2. /\ DOMAIN n = RowFields /\ n.tbl = t /\ n.id = seq[t] + 1 /\ n.key = key /\ n.ref = ref
      /\ \A c \in C!Cols(t) : n.about[c] = C!NameOf(t, c, ref[c])
  BY <1>1 DEF C!NewRow, RowFields, C!NextId
<1>3. /\ rows' = (rows \ old) \cup {n} /\ t \in C!Tables
      /\ seq' \in [scope -> Nat] /\ seq'[t] = seq[t] + 1
      /\ \A u \in scope : seq[u] \in Nat /\ seq[u] <= seq'[u]
  BY <1>1 DEF C!Commit, C!NextId, TablesInv
<1>4. ASSUME NEW r \in rows
      PROVE  DOMAIN r = RowFields /\ r.tbl \in scope /\ r.id \in 1..seq[r.tbl] /\ RefsOk(r)
  BY DEF TablesInv, RowOk
<1>5. RefsOk(n)
  BY <1>2, NameIs DEF RefsOk, RefKnown
<1>6. \A r \in rows' : RowOk(r)'
  <2>1. ASSUME NEW r \in rows'
        PROVE  DOMAIN r = RowFields /\ r.tbl \in scope /\ r.id \in 1..seq'[r.tbl]
    <3>1. CASE r \in rows
      <4>1. seq[r.tbl] \in Nat /\ seq'[r.tbl] \in Nat /\ seq[r.tbl] <= seq'[r.tbl]
        BY <1>3, <1>4, <3>1
      <4>2. QED  BY <1>4, <3>1, <4>1
    <3>2. CASE r = n
      BY <1>2, <1>3, <3>2
    <3>3. QED  BY <1>3, <3>1, <3>2
  <2>2. \A r \in rows' : RefsOk(r)
    BY <1>3, <1>4, <1>5
  <2>3. \A r \in rows' : \/ \E q \in rows : q.tbl = r.tbl /\ q.id = r.id /\ q.key = r.key
                         \/ r.id > seq[r.tbl]
    BY <1>2, <1>3
  <2>4. QED  BY <1>3, <2>1, <2>2, <2>3, RowsOk
<1>7. \A r, q \in rows' : r.tbl = q.tbl /\ r.id = q.id => r = q
  <2>1. \A r \in rows : ~(r.tbl = n.tbl /\ r.id = n.id)
    BY <1>2, <1>3, <1>4
  <2>2. QED  BY <1>3, <2>1 DEF TablesInv
<1>8. C!NoDanglingKey'
  <2> SUFFICES ASSUME NEW r \in rows', NEW c \in C!ForeignKeys(r.tbl), r.ref[c] # C!Null
               PROVE  \E g \in rows' : g.tbl = To(r.tbl, c) /\ g.id = r.ref[c]
    BY DEF C!NoDanglingKey, C!Has, C!WithId, To
  <2>1. r.tbl \in C!Tables /\ c \in C!Cols(r.tbl)
    BY <1>2, <1>3, <1>4 DEF C!ForeignKeys, TablesInv
  <2>2. \E g \in rows : g.tbl = To(r.tbl, c) /\ g.id = r.ref[c]
    <3>1. CASE r \in rows
      BY <3>1 DEF TablesInv, C!NoDanglingKey, C!Has, C!WithId, To
    <3>2. CASE r = n
      BY <1>2, <3>2 DEF C!RefsResolve, C!foreign_keys, C!Has, C!WithId, To
    <3>3. QED  BY <1>3, <3>1, <3>2
  <2>3. To(r.tbl, c) # "person_shift"
    BY <2>1, Columns DEF ColumnOk, To
  <2>4. QED  BY <1>3, <2>2, <2>3
<1>9. TablesInv'
  BY <1>3, <1>6, <1>7, <1>8 DEF TablesInv
<1>10. AnswersStay
  BY <1>3 DEF AnswersStay, Answering
<1>11. RecordsStay
  <2>1. \A g \in GoneIds : g[1] = "person_shift"
    BY <1>3 DEF GoneIds
  <2>2. QED  BY <2>1 DEF RecordsStay, Places
<1>12. QED  BY <1>3, <1>9, <1>10, <1>11 DEF StepOk, IdsGrow

LEMMA InsertStep ==
    ASSUME TablesInv, UNCHANGED scope, NEW t \in scope, NEW key, NEW ref, RefKnown(t, ref), C!Insert(t, key, ref)
    PROVE  StepOk
<1>1. CASE C!Refused
  BY <1>1, IdleStep DEF C!Refused
<1>2. CASE C!RefsResolve(t, ref) /\ C!Commit(t, C!NewRow(t, key, ref), {})
  BY <1>2, CommitStep
<1>3. QED  BY <1>1, <1>2 DEF C!Insert

LEMMA ReplaceStep ==
    ASSUME TablesInv, UNCHANGED scope, "person_shift" \in scope, NEW key, NEW ref,
           RefKnown("person_shift", ref), C!InsertOrReplace("person_shift", key, ref)
    PROVE  StepOk
<1>1. CASE C!Refused
  BY <1>1, IdleStep DEF C!Refused
<1>2. CASE /\ C!RefsResolve("person_shift", ref)
           /\ C!Commit("person_shift", C!NewRow("person_shift", key, ref), C!Clashes("person_shift", key, ref))
  <2>1. C!Clashes("person_shift", key, ref) \subseteq C!Of("person_shift")
    BY DEF C!Clashes
  <2>2. QED  BY <1>2, <2>1, CommitStep DEF C!Of
<1>3. QED  BY <1>1, <1>2 DEF C!InsertOrReplace

\* UPDATE: each row stays, as it was or with other references.
LEMMA UpdateStep ==
    ASSUME TablesInv, UNCHANGED <<scope, seq>>,
           \A q \in rows' : /\ DOMAIN q = RowFields /\ RefsOk(q)
                            /\ \E r \in rows : r.tbl = q.tbl /\ r.id = q.id /\ r.key = q.key,
           \A r \in rows : \E q \in rows' :
              /\ q.tbl = r.tbl /\ q.id = r.id /\ q.key = r.key
              /\ r.tbl = "rooms" => q.ref["branch_id"] = r.ref["branch_id"],
           \A q, p \in rows' : q.tbl = p.tbl /\ q.id = p.id => q = p,
           \A q \in rows' : \A c \in C!ForeignKeys(q.tbl) :
              q.ref[c] = C!Null \/ C!Has(To(q.tbl, c), q.ref[c])
    PROVE  StepOk
<1>1. \A r \in rows' : RowOk(r)'
  <2>1. \A t \in scope : seq[t] \in Nat
    BY DEF TablesInv
  <2>2. \A r \in rows' : DOMAIN r = RowFields /\ r.tbl \in scope /\ r.id \in 1..seq'[r.tbl]
    BY DEF TablesInv, RowOk
  <2>3. QED  BY <2>1, <2>2, RowsOk DEF TablesInv
<1>2. C!NoDanglingKey'
  BY DEF C!NoDanglingKey, C!Has, C!WithId, To
<1>3. TablesInv'
  BY <1>1, <1>2 DEF TablesInv
<1>4. AnswersStay
  BY DEF AnswersStay
<1>5. GoneIds = {}
  BY DEF GoneIds
<1>6. QED  BY <1>3, <1>4, <1>5, IdsStay DEF StepOk, RecordsStay

LEMMA FlagStep ==
    ASSUME TablesInv, UNCHANGED scope, NEW t, NEW id, NEW flag, C!SetFlag(t, id, flag)
    PROVE  StepOk
<1> DEFINE New(r) == IF r.tbl = t /\ r.id = id THEN [r EXCEPT !.flag = flag] ELSE r
<1>1. rows' = {New(r) : r \in rows} /\ UNCHANGED seq
  BY DEF C!SetFlag
<1>2. ASSUME NEW r \in rows
      PROVE  /\ DOMAIN New(r) = RowFields /\ New(r).tbl = r.tbl /\ New(r).id = r.id
             /\ New(r).key = r.key /\ New(r).ref = r.ref /\ New(r).about = r.about
  <2>1. DOMAIN r = RowFields
    BY DEF TablesInv, RowOk
  <2>2. QED  BY <2>1 DEF RowFields
<1> HIDE DEF New
<1>3. ASSUME NEW q \in rows'
      PROVE  /\ DOMAIN q = RowFields /\ RefsOk(q)
             /\ \E r \in rows : r.tbl = q.tbl /\ r.id = q.id /\ r.key = q.key
             /\ \A c \in C!ForeignKeys(q.tbl) : q.ref[c] = C!Null \/ C!Has(To(q.tbl, c), q.ref[c])
  <2>1. PICK r \in rows : q = New(r)
    BY <1>1
  <2>2. RefsOk(r) /\ \A c \in C!ForeignKeys(r.tbl) : r.ref[c] = C!Null \/ C!Has(To(r.tbl, c), r.ref[c])
    BY DEF TablesInv, RowOk, C!NoDanglingKey, To
  <2>3. RefsOk(q)
    BY <1>2, <2>1, <2>2 DEF RefsOk
  <2>4. QED  BY <1>2, <2>1, <2>2, <2>3
<1>4. \A q, p \in rows' : q.tbl = p.tbl /\ q.id = p.id => q = p
  BY <1>1, <1>2 DEF TablesInv
<1>5. \A r \in rows : \E q \in rows' :
              /\ q.tbl = r.tbl /\ q.id = r.id /\ q.key = r.key
              /\ r.tbl = "rooms" => q.ref["branch_id"] = r.ref["branch_id"]
  BY <1>1, <1>2
<1>6. QED  BY <1>1, <1>3, <1>4, <1>5, UpdateStep

LEMMA RefsStep ==
    ASSUME TablesInv, UNCHANGED scope, NEW t \in scope, t # "rooms", NEW which \in SUBSET C!Of(t), NEW ref,
           RefKnown(t, ref), C!SetRefs(t, which, ref)
    PROVE  StepOk
<1>1. CASE C!Refused
  BY <1>1, IdleStep DEF C!Refused
<1>2. CASE C!RefsResolve(t, ref) /\ ~C!Refused
  <2> DEFINE about == [c \in C!Cols(t) |-> C!NameOf(t, c, ref[c])]
             New(r) == IF r \in which THEN [r EXCEPT !.ref = ref, !.about = about] ELSE r
  <2>1. rows' = {New(r) : r \in rows} /\ UNCHANGED seq
    BY <1>2 DEF C!SetRefs
  <2>2. ASSUME NEW r \in rows
        PROVE  /\ DOMAIN New(r) = RowFields /\ New(r).tbl = r.tbl /\ New(r).id = r.id
               /\ New(r).key = r.key
               /\ r \notin which => New(r) = r
               /\ r \in which => r.tbl = t /\ New(r).ref = ref /\ New(r).about = about
    <3>1. DOMAIN r = RowFields
      BY DEF TablesInv, RowOk
    <3>2. QED  BY <3>1 DEF RowFields, C!Of
  <2>3. \A c \in C!Cols(t) : about[c] = C!NameOf(t, c, ref[c])
    OBVIOUS
  <2> HIDE DEF New, about
  <2>4. ASSUME NEW q \in rows'
        PROVE  /\ DOMAIN q = RowFields /\ RefsOk(q)
               /\ \E r \in rows : r.tbl = q.tbl /\ r.id = q.id /\ r.key = q.key
               /\ \A c \in C!ForeignKeys(q.tbl) : q.ref[c] = C!Null \/ C!Has(To(q.tbl, c), q.ref[c])
    <3>1. PICK r \in rows : q = New(r)
      BY <2>1
    <3>2. CASE r \notin which
      <4>1. RefsOk(r) /\ \A c \in C!ForeignKeys(r.tbl) : r.ref[c] = C!Null \/ C!Has(To(r.tbl, c), r.ref[c])
        BY DEF TablesInv, RowOk, C!NoDanglingKey, To
      <4>2. QED  BY <2>2, <3>1, <3>2, <4>1
    <3>3. CASE r \in which
      <4>1. q.tbl = t /\ q.ref = ref /\ \A c \in C!Cols(t) : q.about[c] = C!NameOf(t, c, ref[c])
        BY <2>2, <2>3, <3>1, <3>3
      <4>2. RefsOk(q)
        BY <4>1, NameIs DEF RefsOk, RefKnown
      <4>3. \A c \in C!ForeignKeys(t) : ref[c] = C!Null \/ C!Has(To(t, c), ref[c])
        BY <1>2 DEF C!RefsResolve, C!foreign_keys, To
      <4>4. QED  BY <2>2, <3>1, <4>1, <4>2, <4>3
    <3>4. QED  BY <3>2, <3>3
  <2>5. \A q, p \in rows' : q.tbl = p.tbl /\ q.id = p.id => q = p
    BY <2>1, <2>2 DEF TablesInv
  <2>6. \A r \in rows : \E q \in rows' :
                /\ q.tbl = r.tbl /\ q.id = r.id /\ q.key = r.key
                /\ r.tbl = "rooms" => q.ref["branch_id"] = r.ref["branch_id"]
    BY <2>1, <2>2
  <2>7. QED  BY <2>1, <2>4, <2>5, <2>6, UpdateStep
<1>3. QED  BY <1>1, <1>2 DEF C!SetRefs

LEMMA UpsertStep ==
    ASSUME TablesInv, UNCHANGED scope, NEW t \in scope, t # "rooms", NEW key, NEW ref,
           RefKnown(t, ref), C!Upsert(t, key, ref)
    PROVE  StepOk
<1>1. C!Clashes(t, key, ref) \in SUBSET C!Of(t)
  BY DEF C!Clashes
<1>2. QED  BY <1>1, InsertStep, RefsStep DEF C!Upsert

-----------------------------------------------------------------------------
(* Deletion.                                                               *)
Gone(asked) == asked \cup C!Hanging(asked) \cup C!Hanging(C!Hanging(asked))
Loses(r, c, gone) ==
    \E g \in gone : C!Schema[r.tbl].cols[c] = C!SetNull(g.tbl) /\ r.ref[c] = g.id

\* A row that hangs from another: both tables, by the clause.
LEMMA HangingFrom ==
    ASSUME TablesInv, NEW gone, NEW r \in C!Hanging(gone)
    PROVE  /\ r \in rows /\ r.tbl \in C!Tables
           /\ \E g \in gone : /\ g.tbl \in Parents
                              /\ r.tbl \in Parents => r.tbl = "class_sessions" /\ g.tbl = "subjects"
                              /\ r.tbl \notin Places \cup Answering
                              /\ g.tbl \in Places => r.tbl \in C!OwnedByPlace
<1>1. r \in rows /\ r.tbl \in C!Tables
  BY DEF C!Hanging, TablesInv, RowOk
<1>2. PICK c \in C!ForeignKeys(r.tbl), g \in gone : C!Schema[r.tbl].cols[c] = C!Cascade(g.tbl)
  BY DEF C!Hanging
<1>3. ColumnOk(r.tbl, C!Cascade(g.tbl))
  BY <1>1, <1>2, Columns DEF C!ForeignKeys
<1>4. C!Cascade(g.tbl).to = g.tbl /\ C!Cascade(g.tbl).on = "CASCADE"
  BY DEF C!Cascade
<1>5. QED  BY <1>1, <1>3, <1>4 DEF ColumnOk

\* Two rounds reach every row that hangs.
LEMMA TwoRounds == ASSUME TablesInv, NEW asked PROVE C!Hanging(Gone(asked)) \subseteq Gone(asked)
<1> SUFFICES ASSUME NEW r \in C!Hanging(Gone(asked)) PROVE r \in Gone(asked)
  OBVIOUS
<1>1. PICK c \in C!ForeignKeys(r.tbl), g \in Gone(asked) :
         C!Schema[r.tbl].cols[c] = C!Cascade(g.tbl) /\ r.ref[c] = g.id
  BY DEF C!Hanging
<1>2. r \in rows
  BY DEF C!Hanging
<1>3. CASE g \in asked \cup C!Hanging(asked)
  BY <1>1, <1>2, <1>3 DEF Gone, C!Hanging
<1>4. CASE g \in C!Hanging(C!Hanging(asked))
  <2>1. g.tbl \in Parents
    <3>1. r \in C!Hanging({g})
      BY <1>1, <1>2 DEF C!Hanging
    <3>2. QED  BY <3>1, HangingFrom
  <2>2. PICK h \in C!Hanging(asked) : g.tbl \in Parents => h.tbl = "subjects"
    BY <1>4, HangingFrom
  <2>3. h.tbl = "subjects"
    BY <2>1, <2>2
  <2>4. "subjects" \in Parents => h.tbl = "class_sessions"
    BY <2>3, HangingFrom
  <2>5. QED  BY <2>3, <2>4 DEF Parents
<1>5. QED  BY <1>1, <1>3, <1>4 DEF Gone

LEMMA DeleteStep ==
    ASSUME TablesInv, UNCHANGED scope, NEW t, t \notin Answering, NEW asked \in SUBSET C!Of(t),
           t \in Places => \E i : asked = C!WithId(t, i),
           C!DeleteRows(asked)
    PROVE  StepOk
<1>1. PICK gone : gone = Gone(asked)
  OBVIOUS
<1> DEFINE Cleared(r) ==
            [r EXCEPT !.ref = [c \in C!Cols(r.tbl) |-> IF Loses(r, c, gone) THEN C!Null ELSE r.ref[c]]]
<1>2. rows' = {Cleared(r) : r \in rows \ gone} /\ UNCHANGED seq
  BY <1>1 DEF C!DeleteRows, C!foreign_keys, Loses, Gone
<1>3. ASSUME NEW r \in rows
      PROVE  /\ DOMAIN Cleared(r) = RowFields /\ Cleared(r).tbl = r.tbl /\ Cleared(r).id = r.id
             /\ Cleared(r).key = r.key /\ Cleared(r).about = r.about
             /\ \A c \in C!Cols(r.tbl) : Cleared(r).ref[c] = IF Loses(r, c, gone) THEN C!Null ELSE r.ref[c]
  <2>1. DOMAIN r = RowFields
    BY DEF TablesInv, RowOk
  <2>2. QED  BY <2>1 DEF RowFields
<1> HIDE DEF Cleared
<1>4. ASSUME NEW r \in rows
      PROVE  r.tbl \in C!Tables /\ RefsOk(r) /\ r.id \in 1..seq[r.tbl]
  BY DEF TablesInv, RowOk
<1>5. ASSUME NEW q \in rows' PROVE RefsOk(q)
  <2>1. PICK r \in rows : q = Cleared(r)
    BY <1>2
  <2>2. ASSUME NEW c \in C!Cols(q.tbl)
        PROVE  /\ q.ref[c] \in C!Picked(To(q.tbl, c))
               /\ \A g \in C!WithId(To(q.tbl, c), q.ref[c]) : g.key = q.about[c]
    <3>1. CASE q.ref[c] = r.ref[c]
      BY <1>3, <1>4, <2>1, <3>1 DEF RefsOk
    <3>2. CASE q.ref[c] = C!Null
      <4>1. \A g \in rows : g.id # C!Null
        BY <1>4 DEF C!Null
      <4>2. QED  BY <3>2, <4>1 DEF C!Picked, C!WithId
    <3>3. QED  BY <1>3, <2>1, <3>1, <3>2
  <2>3. QED  BY <2>2 DEF RefsOk
<1>6. \A r \in rows' : RowOk(r)'
  <2>1. \A u \in scope : seq[u] \in Nat
    BY DEF TablesInv
  <2>2. \A q \in rows' : \E r \in rows : q.tbl = r.tbl /\ q.id = r.id /\ q.key = r.key /\ DOMAIN q = RowFields
    BY <1>2, <1>3
  <2>3. \A r \in rows' : DOMAIN r = RowFields /\ r.tbl \in scope /\ r.id \in 1..seq'[r.tbl]
    BY <1>2, <2>2 DEF TablesInv, RowOk
  <2>4. QED  BY <1>2, <1>5, <2>1, <2>2, <2>3, RowsOk DEF TablesInv
<1>7. \A q, p \in rows' : q.tbl = p.tbl /\ q.id = p.id => q = p
  BY <1>2, <1>3 DEF TablesInv
<1>8. C!NoDanglingKey'
  <2> SUFFICES ASSUME NEW q \in rows', NEW c \in C!ForeignKeys(q.tbl), q.ref[c] # C!Null
               PROVE  \E g \in rows' : g.tbl = To(q.tbl, c) /\ g.id = q.ref[c]
    BY DEF C!NoDanglingKey, C!Has, C!WithId, To
  <2>1. PICK r \in rows \ gone : q = Cleared(r)
    BY <1>2
  <2>2. r.tbl = q.tbl /\ r.tbl \in C!Tables /\ c \in C!Cols(r.tbl) /\ c \in C!ForeignKeys(r.tbl)
    BY <1>3, <1>4, <2>1 DEF C!ForeignKeys
  <2>3. ~Loses(r, c, gone) /\ q.ref[c] = r.ref[c]
    BY <1>3, <2>1, <2>2
  <2>4. PICK g \in rows : g.tbl = To(r.tbl, c) /\ g.id = r.ref[c]
    BY <2>2, <2>3 DEF TablesInv, C!NoDanglingKey, C!Has, C!WithId, To
  <2>5. g \notin gone
    <3> SUFFICES ASSUME g \in gone PROVE FALSE
      OBVIOUS
    <3>1. C!Schema[r.tbl].cols[c] \in {C!Cascade(g.tbl), C!SetNull(g.tbl)}
      <4>1. C!Schema[r.tbl].cols[c] \in {C!Cascade(g.tbl), C!SetNull(g.tbl), C!Bare(g.tbl)}
        BY <2>2, <2>4, Columns DEF ColumnOk, To
      <4>2. C!Schema[r.tbl].cols[c].on # "no foreign key"
        BY <2>2 DEF C!ForeignKeys
      <4>3. C!Bare(g.tbl).on = "no foreign key"
        BY DEF C!Bare
      <4>4. QED  BY <4>1, <4>2, <4>3
    <3>2. CASE C!Schema[r.tbl].cols[c] = C!SetNull(g.tbl)
      BY <2>3, <2>4, <3>2 DEF Loses
    <3>3. CASE C!Schema[r.tbl].cols[c] = C!Cascade(g.tbl)
      <4>1. r \in C!Hanging(gone)
        BY <2>2, <2>4, <3>3 DEF C!Hanging
      <4>2. QED  BY <1>1, <2>1, <4>1, TwoRounds
    <3>4. QED  BY <3>1, <3>2, <3>3
  <2>6. Cleared(g) \in rows'
    BY <1>2, <2>5
  <2>7. QED  BY <1>3, <2>2, <2>3, <2>4, <2>6
<1>9. TablesInv'
  BY <1>2, <1>6, <1>7, <1>8 DEF TablesInv
<1>10. ASSUME NEW r \in gone PROVE r \in rows /\ (r.tbl \in Places \cup Answering => r \in asked /\ r.tbl = t)
  BY <1>1, HangingFrom DEF Gone, C!Of
<1>11. AnswersStay
  <2> SUFFICES ASSUME NEW r \in rows, r.tbl \in Answering
               PROVE  \E q \in rows' :
                         /\ q.tbl = r.tbl /\ q.id = r.id /\ q.key = r.key
                         /\ r.tbl = "rooms" => q.ref["branch_id"] = r.ref["branch_id"]
    BY DEF AnswersStay
  <2>1. r \notin gone
    BY <1>10
  <2>2. Cleared(r) \in rows'
    BY <1>2, <2>1
  <2>3. ASSUME r.tbl = "rooms" PROVE Cleared(r).ref["branch_id"] = r.ref["branch_id"]
    <3>1. "branch_id" \in C!Cols("rooms") /\ C!Schema["rooms"].cols["branch_id"] = C!Bare("branches")
      BY DEF C!Cols, C!Schema, C!Tables, C!AcademicTables, C!PlaceTables, C!SiteTables, C!ControlTables,
             C!EnterpriseTables, C!Table
    <3>2. \A u : C!Bare("branches") # C!SetNull(u)
      <4>1. \A u : C!Bare("branches").on # C!SetNull(u).on
        BY DEF C!Bare, C!SetNull
      <4>2. QED  BY <4>1
    <3>3. QED  BY <1>3, <2>3, <3>1, <3>2 DEF Loses
  <2>4. QED  BY <1>3, <2>2, <2>3
<1>12. RecordsStay
  <2>1. \A g \in GoneIds : \E r \in gone : g = <<r.tbl, r.id>>
    BY <1>2, <1>3 DEF GoneIds
  <2>2. ASSUME NEW r \in gone, r.tbl \in Places
        PROVE  {g \in GoneIds : g[1] \notin C!OwnedByPlace} = {<<r.tbl, r.id>>}
    <3>1. r \in asked /\ r.tbl = t /\ asked = {r}
      <4>1. r \in asked /\ r.tbl = t
        BY <1>10, <2>2
      <4>2. \E i : asked = C!WithId(t, i)
        BY <2>2, <4>1
      <4>3. QED  BY <4>1, <4>2 DEF C!WithId, TablesInv
    <3>2. <<r.tbl, r.id>> \in GoneIds
      <4>1. \A q \in rows \ gone : ~(q.tbl = r.tbl /\ q.id = r.id)
        BY <1>10 DEF TablesInv
      <4>2. \A q \in rows' : <<q.tbl, q.id>> # <<r.tbl, r.id>>
        BY <1>2, <1>3, <4>1
      <4>3. QED  BY <1>10, <4>2 DEF GoneIds
    <3>3. r.tbl \notin C!OwnedByPlace
      BY <2>2 DEF Places, C!OwnedByPlace
    <3>4. ASSUME NEW x \in gone, x.tbl \notin C!OwnedByPlace PROVE x = r
      <4>1. CASE x \in asked
        BY <3>1, <4>1
      <4>2. CASE x \in C!Hanging(asked)
        BY <2>2, <3>1, <3>4, <4>2, HangingFrom
      <4>3. CASE x \in C!Hanging(C!Hanging(asked))
        <5>1. PICK h \in C!Hanging(asked) : h.tbl \in Parents
          BY <4>3, HangingFrom
        <5>2. h.tbl \in C!OwnedByPlace
          BY <2>2, <3>1, <5>1, HangingFrom
        <5>3. QED  BY <5>1, <5>2 DEF Parents, C!OwnedByPlace
      <4>4. QED  BY <1>1, <4>1, <4>2, <4>3 DEF Gone
    <3>5. QED
      BY <2>1, <3>2, <3>3, <3>4
  <2>3. \A a, b : Cardinality({<<a, b>>}) = 1
    BY FS_Singleton
  <2>4. ASSUME NEW g \in GoneIds, g[1] \in Places
        PROVE  Cardinality({x \in GoneIds : x[1] \notin C!OwnedByPlace}) = 1
    <3>1. PICK r \in gone : g = <<r.tbl, r.id>>
      BY <2>1
    <3>2. r.tbl \in Places
      BY <2>4, <3>1
    <3>3. QED  BY <2>2, <2>3, <3>2
  <2>5. QED  BY <2>4 DEF RecordsStay
<1>13. QED  BY <1>2, <1>9, <1>11, <1>12, IdsStay DEF StepOk

-----------------------------------------------------------------------------
(* The forms.                                                              *)
LEMMA Groups ==
    /\ \A t \in DOMAIN C!AcademicTables : t \in C!Tables /\ C!Schema[t] = C!AcademicTables[t]
    /\ \A t \in DOMAIN C!PlaceTables : t \in C!Tables /\ C!Schema[t] = C!PlaceTables[t]
    /\ \A t \in DOMAIN C!SiteTables : t \in C!Tables /\ C!Schema[t] = C!SiteTables[t]
    /\ \A t \in DOMAIN C!ControlTables : t \in C!Tables /\ C!Schema[t] = C!ControlTables[t]
    /\ \A t \in DOMAIN C!EnterpriseTables : t \in C!Tables /\ C!Schema[t] = C!EnterpriseTables[t]
BY DEF C!Schema, C!Tables, C!AcademicTables, C!PlaceTables, C!SiteTables, C!ControlTables, C!EnterpriseTables

LEMMA NoColumns ==
    ASSUME NEW t, C!Schema[t].cols = C!NoCols PROVE RefKnown(t, C!NoRef)
BY DEF RefKnown, C!Cols, C!NoCols
LEMMA ClauseTo == \A u : C!Cascade(u).to = u /\ C!SetNull(u).to = u /\ C!Bare(u).to = u
BY DEF C!Cascade, C!SetNull, C!Bare
Refers(t, c, u) == C!Schema[t].cols[c] \in {C!Cascade(u), C!SetNull(u), C!Bare(u)}
LEMMA OneColumn ==
    ASSUME NEW t, NEW c, NEW u, \A x \in C!Cols(t) : x = c /\ Refers(t, x, u)
    PROVE  \A i \in C!Picked(u) : RefKnown(t, C!Ref1(c, i))
BY ClauseTo DEF RefKnown, C!Ref1, To, Refers
LEMMA TwoColumns ==
    ASSUME NEW t, NEW c, NEW u, NEW d, NEW w, NEW ref, ref[c] \in C!Picked(u), ref[d] \in C!Picked(w),
           \A x \in C!Cols(t) : (x = c /\ Refers(t, x, u)) \/ (x = d /\ Refers(t, x, w))
    PROVE  RefKnown(t, ref)
BY ClauseTo DEF RefKnown, To, Refers
LEMMA NullPicked == \A u : C!Null \in C!Picked(u) /\ C!Shown(u) \subseteq C!Picked(u)
BY DEF C!Picked

\* The columns of the tables that a form or another module writes.
LEMMA AcademicForms ==
    /\ RefKnown("departments", C!NoRef)
    /\ \A i \in C!Picked("departments") : RefKnown("persons", C!Ref1("department_id", i))
    /\ \A i \in C!Picked("departments") : RefKnown("subjects", C!Ref1("department_id", i))
    /\ \A i \in C!Picked("subjects") : RefKnown("class_sessions", C!Ref1("subject_id", i))
    /\ \A i \in C!Picked("class_sessions") : RefKnown("session_attendance", C!Ref1("session_id", i))
    /\ \A i \in C!Picked("branches"), j \in C!Picked("sso_providers") :
          RefKnown("admin_users", [branch_id |-> i, sso_provider |-> j])
<1>1. /\ C!Schema["departments"].cols = C!NoCols
  BY Groups DEF C!AcademicTables, C!Table
<1>2. /\ \A x \in C!Cols("persons") : x = "department_id" /\ Refers("persons", x, "departments")
      /\ \A x \in C!Cols("subjects") : x = "department_id" /\ Refers("subjects", x, "departments")
      /\ \A x \in C!Cols("class_sessions") : x = "subject_id" /\ Refers("class_sessions", x, "subjects")
      /\ \A x \in C!Cols("session_attendance") : x = "session_id" /\ Refers("session_attendance", x, "class_sessions")
  BY Groups DEF C!AcademicTables, C!Table, C!Cols, Refers
<1>3. ASSUME NEW i \in C!Picked("branches"), NEW j \in C!Picked("sso_providers")
      PROVE  RefKnown("admin_users", [branch_id |-> i, sso_provider |-> j])
  <2>1. \A x \in C!Cols("admin_users") :
           \/ x = "branch_id" /\ Refers("admin_users", x, "branches")
           \/ x = "sso_provider" /\ Refers("admin_users", x, "sso_providers")
    BY Groups DEF C!AcademicTables, C!Table, C!Cols, Refers
  <2>2. [branch_id |-> i, sso_provider |-> j].branch_id = i /\ [branch_id |-> i, sso_provider |-> j].sso_provider = j
    OBVIOUS
  <2>3. QED  BY <2>1, <2>2, TwoColumns
<1>4. QED  BY <1>1, <1>2, <1>3, NoColumns, OneColumn

LEMMA PlaceForms ==
    /\ RefKnown("branches", C!NoRef)
    /\ RefKnown("consents", C!NoRef)
    /\ \A i \in C!Picked("shifts") : RefKnown("person_shift", C!Ref1("shift_id", i))
    /\ \A i \in C!Picked("subjects") : RefKnown("timetable", C!Ref1("subject_id", i))
    /\ \A i \in C!Picked("branches") : RefKnown("holidays", C!Ref1("branch_id", i))
    /\ \A i \in C!Picked("branches"), j \in C!Picked("departments") :
          RefKnown("shifts", [branch_id |-> i, department_id |-> j])
<1>1. /\ C!Schema["branches"].cols = C!NoCols
      /\ C!Schema["consents"].cols = C!NoCols
  BY Groups DEF C!PlaceTables, C!Table
<1>2. /\ \A x \in C!Cols("person_shift") : x = "shift_id" /\ Refers("person_shift", x, "shifts")
      /\ \A x \in C!Cols("timetable") : x = "subject_id" /\ Refers("timetable", x, "subjects")
      /\ \A x \in C!Cols("holidays") : x = "branch_id" /\ Refers("holidays", x, "branches")
  BY Groups DEF C!PlaceTables, C!Table, C!Cols, Refers
<1>3. ASSUME NEW i \in C!Picked("branches"), NEW j \in C!Picked("departments")
      PROVE  RefKnown("shifts", [branch_id |-> i, department_id |-> j])
  <2>1. \A x \in C!Cols("shifts") :
           \/ x = "branch_id" /\ Refers("shifts", x, "branches")
           \/ x = "department_id" /\ Refers("shifts", x, "departments")
    BY Groups DEF C!PlaceTables, C!Table, C!Cols, Refers
  <2>2. [branch_id |-> i, department_id |-> j].branch_id = i /\ [branch_id |-> i, department_id |-> j].department_id = j
    OBVIOUS
  <2>3. QED  BY <2>1, <2>2, TwoColumns
<1>4. QED  BY <1>1, <1>2, <1>3, NoColumns, OneColumn

LEMMA SiteForms ==
    /\ RefKnown("api_keys", C!NoRef)
    /\ RefKnown("webhooks", C!NoRef)
    /\ \A i \in C!Picked("branches") : RefKnown("gps_marks", C!Ref1("branch_id", i))
    /\ \A i \in C!Picked("branches") : RefKnown("contractors", C!Ref1("site_id", i))
    /\ \A i \in C!Picked("branches") : RefKnown("ppe_incidents", C!Ref1("branch_id", i))
    /\ \A i \in C!Picked("branches") : RefKnown("cameras", C!Ref1("branch_id", i))
    /\ \A i \in C!Picked("branches") : RefKnown("bus_routes", C!Ref1("branch_id", i))
    /\ \A i \in C!Picked("bus_routes") : RefKnown("bus_stops", C!Ref1("route_id", i))
    /\ \A i \in C!Picked("class_sessions") : RefKnown("substitutions", C!Ref1("session_id", i))
    /\ \A i \in C!Picked("branches"), j \in C!Picked("contractors") :
          RefKnown("site_muster", [branch_id |-> i, contractor_id |-> j])
    /\ \A i \in C!Picked("bus_routes"), j \in C!Picked("bus_stops") :
          RefKnown("bus_boardings", [route_id |-> i, stop_id |-> j])
<1>1. /\ C!Schema["api_keys"].cols = C!NoCols
      /\ C!Schema["webhooks"].cols = C!NoCols
  BY Groups DEF C!SiteTables, C!Table
<1>2. /\ \A x \in C!Cols("gps_marks") : x = "branch_id" /\ Refers("gps_marks", x, "branches")
      /\ \A x \in C!Cols("contractors") : x = "site_id" /\ Refers("contractors", x, "branches")
      /\ \A x \in C!Cols("ppe_incidents") : x = "branch_id" /\ Refers("ppe_incidents", x, "branches")
      /\ \A x \in C!Cols("cameras") : x = "branch_id" /\ Refers("cameras", x, "branches")
      /\ \A x \in C!Cols("bus_routes") : x = "branch_id" /\ Refers("bus_routes", x, "branches")
      /\ \A x \in C!Cols("bus_stops") : x = "route_id" /\ Refers("bus_stops", x, "bus_routes")
      /\ \A x \in C!Cols("substitutions") : x = "session_id" /\ Refers("substitutions", x, "class_sessions")
  BY Groups DEF C!SiteTables, C!Table, C!Cols, Refers
<1>3. ASSUME NEW i \in C!Picked("branches"), NEW j \in C!Picked("contractors")
      PROVE  RefKnown("site_muster", [branch_id |-> i, contractor_id |-> j])
  <2>1. \A x \in C!Cols("site_muster") :
           \/ x = "branch_id" /\ Refers("site_muster", x, "branches")
           \/ x = "contractor_id" /\ Refers("site_muster", x, "contractors")
    BY Groups DEF C!SiteTables, C!Table, C!Cols, Refers
  <2>2. [branch_id |-> i, contractor_id |-> j].branch_id = i /\ [branch_id |-> i, contractor_id |-> j].contractor_id = j
    OBVIOUS
  <2>3. QED  BY <2>1, <2>2, TwoColumns
<1>4. ASSUME NEW i \in C!Picked("bus_routes"), NEW j \in C!Picked("bus_stops")
      PROVE  RefKnown("bus_boardings", [route_id |-> i, stop_id |-> j])
  <2>1. \A x \in C!Cols("bus_boardings") :
           \/ x = "route_id" /\ Refers("bus_boardings", x, "bus_routes")
           \/ x = "stop_id" /\ Refers("bus_boardings", x, "bus_stops")
    BY Groups DEF C!SiteTables, C!Table, C!Cols, Refers
  <2>2. [route_id |-> i, stop_id |-> j].route_id = i /\ [route_id |-> i, stop_id |-> j].stop_id = j
    OBVIOUS
  <2>3. QED  BY <2>1, <2>2, TwoColumns
<1>5. QED  BY <1>1, <1>2, <1>3, <1>4, NoColumns, OneColumn

LEMMA ControlForms ==
    /\ RefKnown("backup_log", C!NoRef)
    /\ RefKnown("siem_sinks", C!NoRef)
    /\ \A i \in C!Picked("branches") : RefKnown("sensor_readings", C!Ref1("branch_id", i))
    /\ \A i \in C!Picked("branches") : RefKnown("door_log", C!Ref1("branch_id", i))
    /\ \A i \in C!Picked("exam_sessions") : RefKnown("exam_alerts", C!Ref1("exam_id", i))
    /\ \A i \in C!Picked("tenants") : RefKnown("tenants", C!Ref1("parent_id", i))
    /\ \A i \in C!Picked("tenants") : RefKnown("sso_providers", C!Ref1("tenant_id", i))
    /\ \A i \in C!Picked("tenants") : RefKnown("scim_clients", C!Ref1("tenant_id", i))
    /\ \A i \in C!Picked("branches"), j \in C!Picked("departments") :
          RefKnown("exam_sessions", [branch_id |-> i, department_id |-> j])
<1>1. /\ C!Schema["backup_log"].cols = C!NoCols
      /\ C!Schema["siem_sinks"].cols = C!NoCols
  BY Groups DEF C!ControlTables, C!Table
<1>2. /\ \A x \in C!Cols("sensor_readings") : x = "branch_id" /\ Refers("sensor_readings", x, "branches")
      /\ \A x \in C!Cols("door_log") : x = "branch_id" /\ Refers("door_log", x, "branches")
      /\ \A x \in C!Cols("exam_alerts") : x = "exam_id" /\ Refers("exam_alerts", x, "exam_sessions")
      /\ \A x \in C!Cols("tenants") : x = "parent_id" /\ Refers("tenants", x, "tenants")
      /\ \A x \in C!Cols("sso_providers") : x = "tenant_id" /\ Refers("sso_providers", x, "tenants")
      /\ \A x \in C!Cols("scim_clients") : x = "tenant_id" /\ Refers("scim_clients", x, "tenants")
  BY Groups DEF C!ControlTables, C!Table, C!Cols, Refers
<1>3. ASSUME NEW i \in C!Picked("branches"), NEW j \in C!Picked("departments")
      PROVE  RefKnown("exam_sessions", [branch_id |-> i, department_id |-> j])
  <2>1. \A x \in C!Cols("exam_sessions") :
           \/ x = "branch_id" /\ Refers("exam_sessions", x, "branches")
           \/ x = "department_id" /\ Refers("exam_sessions", x, "departments")
    BY Groups DEF C!ControlTables, C!Table, C!Cols, Refers
  <2>2. [branch_id |-> i, department_id |-> j].branch_id = i /\ [branch_id |-> i, department_id |-> j].department_id = j
    OBVIOUS
  <2>3. QED  BY <2>1, <2>2, TwoColumns
<1>4. QED  BY <1>1, <1>2, <1>3, NoColumns, OneColumn

LEMMA EnterpriseForms ==
    /\ RefKnown("presence_signals", C!NoRef)
    /\ RefKnown("workflows", C!NoRef)
    /\ RefKnown("copilot_log", C!NoRef)
    /\ RefKnown("connectors", C!NoRef)
    /\ \A i \in C!Picked("tenants") : RefKnown("kms_keys", C!Ref1("tenant_id", i))
    /\ \A i \in C!Picked("branches") : RefKnown("rooms", C!Ref1("branch_id", i))
    /\ \A i \in C!Picked("rooms") : RefKnown("occupancy_samples", C!Ref1("room_id", i))
    /\ \A i \in C!Picked("branches") : RefKnown("muster_drills", C!Ref1("branch_id", i))
    /\ \A i \in C!Picked("muster_drills") : RefKnown("muster_checkins", C!Ref1("drill_id", i))
    /\ \A i \in C!Picked("tenants") : RefKnown("sdk_clients", C!Ref1("tenant_id", i))
<1>1. /\ C!Schema["presence_signals"].cols = C!NoCols
      /\ C!Schema["workflows"].cols = C!NoCols
      /\ C!Schema["copilot_log"].cols = C!NoCols
      /\ C!Schema["connectors"].cols = C!NoCols
  BY Groups DEF C!EnterpriseTables, C!Table
<1>2. /\ \A x \in C!Cols("kms_keys") : x = "tenant_id" /\ Refers("kms_keys", x, "tenants")
      /\ \A x \in C!Cols("rooms") : x = "branch_id" /\ Refers("rooms", x, "branches")
      /\ \A x \in C!Cols("occupancy_samples") : x = "room_id" /\ Refers("occupancy_samples", x, "rooms")
      /\ \A x \in C!Cols("muster_drills") : x = "branch_id" /\ Refers("muster_drills", x, "branches")
      /\ \A x \in C!Cols("muster_checkins") : x = "drill_id" /\ Refers("muster_checkins", x, "muster_drills")
      /\ \A x \in C!Cols("sdk_clients") : x = "tenant_id" /\ Refers("sdk_clients", x, "tenants")
  BY Groups DEF C!EnterpriseTables, C!Table, C!Cols, Refers
<1>3. QED  BY <1>1, <1>2, NoColumns, OneColumn

LEMMA DeleteIdStep ==
    ASSUME TablesInv, UNCHANGED scope, NEW t, t \notin Answering, NEW i, C!Delete(t, i) PROVE StepOk
<1>1. C!WithId(t, i) \in SUBSET C!Of(t)
  BY DEF C!WithId, C!Of
<1>2. QED  BY <1>1, DeleteStep DEF C!Delete

\* The pages with a role that answer with no id.
LEMMA PageStep ==
    ASSUME TablesInv, UNCHANGED scope, NEW role,
           \/ C!subjects(role) \/ C!sessions(role) \/ C!branches(role) \/ C!shifts(role)
           \/ C!shifts_assign(role) \/ C!timetable(role) \/ C!holidays(role) \/ C!privacy_consent(role)
           \/ C!api_keys(role) \/ C!webhooks_admin(role) \/ C!admins(role) \/ C!site_muster(role)
           \/ C!transport(role) \/ C!transport_stops(role) \/ C!substitutions_page(role) \/ C!exams(role)
           \/ C!edit_user(role) \/ C!delete_user(role) \/ C!settings(role) \/ C!sso_add(role)
           \/ C!scim_admin(role) \/ C!siem_admin(role) \/ C!kms_admin(role) \/ C!workflows_admin(role)
           \/ C!connectors_admin(role) \/ C!muster_page(role) \/ C!tenants_admin(role) \/ C!sdk_admin(role)
    PROVE  StepOk /\ UNCHANGED answer
<1>1. CASE C!subjects(role)
  BY <1>1, DeleteIdStep, InsertStep, AcademicForms, NullPicked
     DEF C!subjects, C!add_subject, C!delete_subject, Answering, C!InsertOrIgnore, C!Quiet, C!Writes
<1>2. CASE C!sessions(role)
  BY <1>2, DeleteIdStep, InsertStep, AcademicForms, NullPicked
     DEF C!sessions, C!create_session, C!delete_session, Answering, C!Quiet, C!Writes
<1>3. CASE C!branches(role)
  BY <1>3, DeleteIdStep, InsertStep, PlaceForms, NullPicked
     DEF C!branches, C!add_branch, C!delete_branch, Answering, C!Quiet, C!Writes
<1>4. CASE C!shifts(role)
  BY <1>4, DeleteIdStep, InsertStep, PlaceForms, NullPicked
     DEF C!shifts, C!add_shift, C!delete_shift, Answering, C!Quiet, C!Writes
<1>5. CASE C!shifts_assign(role)
  BY <1>5, ReplaceStep, PlaceForms, NullPicked
     DEF C!shifts_assign, C!assign_shift, Answering, C!Quiet, C!Writes
<1>6. CASE C!timetable(role)
  BY <1>6, DeleteIdStep, InsertStep, PlaceForms, NullPicked
     DEF C!timetable, C!add_timetable_slot, C!delete_timetable_slot, Answering, C!Quiet, C!Writes
<1>7. CASE C!holidays(role)
  BY <1>7, DeleteIdStep, InsertStep, PlaceForms, NullPicked
     DEF C!holidays, C!add_holiday, C!delete_holiday, Answering, C!InsertOrIgnore, C!Quiet, C!Writes
<1>8. CASE C!privacy_consent(role)
  BY <1>8, FlagStep, InsertStep, PlaceForms, NullPicked
     DEF C!privacy_consent, C!record_consent, Answering, C!Quiet, C!Writes
<1>9. CASE C!api_keys(role)
  BY <1>9, FlagStep, InsertStep, SiteForms, NullPicked
     DEF C!api_keys, C!create_api_key, C!revoke_api_key, Answering, C!Quiet, C!Writes
<1>10. CASE C!webhooks_admin(role)
  BY <1>10, DeleteIdStep, InsertStep, SiteForms, NullPicked
     DEF C!webhooks_admin, C!add_webhook, C!delete_webhook, Answering, C!Quiet, C!Writes
<1>11. CASE C!admins(role)
  BY <1>11, DeleteIdStep, InsertStep, AcademicForms, NullPicked
     DEF C!admins, C!create_admin, C!delete_admin, Answering, C!Quiet, C!Writes
<1>12. CASE C!site_muster(role)
  BY <1>12, UpsertStep, SiteForms, NullPicked
     DEF C!site_muster, C!upsert_muster, Answering, C!Quiet, C!Writes
<1>13. CASE C!transport(role)
  BY <1>13, DeleteIdStep, InsertStep, SiteForms, NullPicked
     DEF C!transport, C!add_bus_route, C!delete_bus_route, Answering, C!Quiet, C!Writes
<1>14. CASE C!transport_stops(role)
  BY <1>14, InsertStep, SiteForms, NullPicked
     DEF C!transport_stops, C!add_bus_stop, Answering, C!Quiet, C!Writes
<1>15. CASE C!substitutions_page(role)
  BY <1>15, InsertStep, SiteForms, NullPicked
     DEF C!substitutions_page, C!add_substitution, Answering, C!Quiet, C!Writes
<1>16. CASE C!exams(role)
  BY <1>16, FlagStep, InsertStep, ControlForms, NullPicked
     DEF C!exams, C!create_exam, C!end_exam, Answering, C!Quiet, C!Writes
<1>17. CASE C!edit_user(role)
  <2>1. PICK p \in Names, d \in C!Picked("departments") :
           C!SetRefs("persons", C!WithKey("persons", p), C!Ref1("department_id", d))
    BY <1>17 DEF C!edit_user, C!update_person, C!Quiet
  <2>2. C!WithKey("persons", p) \in SUBSET C!Of("persons")
    BY DEF C!WithKey, C!Of
  <2>3. UNCHANGED answer /\ "persons" \in scope
    BY <1>17 DEF C!edit_user, C!update_person, C!Quiet, C!Writes
  <2>4. QED  BY <2>1, <2>2, <2>3, RefsStep, AcademicForms
<1>18. CASE C!delete_user(role)
  <2>1. PICK p \in Names : C!DeleteRows(C!WithKey("persons", p))
    BY <1>18 DEF C!delete_user, C!delete_person, C!Quiet
  <2>2. C!WithKey("persons", p) \in SUBSET C!Of("persons")
    BY DEF C!WithKey, C!Of
  <2>3. UNCHANGED answer
    BY <1>18 DEF C!delete_user, C!delete_person, C!Quiet
  <2>4. "persons" \notin Places \cup Answering
    BY DEF Places, Answering
  <2>5. QED  BY <2>1, <2>2, <2>3, <2>4, DeleteStep
<1>19. CASE C!settings(role)
  BY <1>19, DeleteIdStep, InsertStep, AcademicForms, NullPicked
     DEF C!settings, C!add_department, C!delete_department, Answering, C!InsertOrIgnore, C!Quiet,
         C!Writes
<1>20. CASE C!sso_add(role)
  BY <1>20, DeleteIdStep, InsertStep, ControlForms, NullPicked
     DEF C!sso_add, C!add_sso_provider, C!delete_sso_provider, Answering, C!Quiet, C!Writes
<1>21. CASE C!scim_admin(role)
  BY <1>21, DeleteIdStep, InsertStep, ControlForms, NullPicked
     DEF C!scim_admin, C!add_scim_client, C!delete_scim_client, Answering, C!Quiet, C!Writes
<1>22. CASE C!siem_admin(role)
  BY <1>22, DeleteIdStep, InsertStep, ControlForms, NullPicked
     DEF C!siem_admin, C!add_siem_sink, C!delete_siem_sink, Answering, C!Quiet, C!Writes
<1>23. CASE C!kms_admin(role)
  BY <1>23, DeleteIdStep, InsertStep, EnterpriseForms, NullPicked
     DEF C!kms_admin, C!add_kms_key, C!delete_kms_key, Answering, C!Quiet, C!Writes
<1>24. CASE C!workflows_admin(role)
  BY <1>24, DeleteIdStep, InsertStep, EnterpriseForms, NullPicked
     DEF C!workflows_admin, C!add_workflow, C!delete_workflow, Answering, C!Quiet, C!Writes
<1>25. CASE C!connectors_admin(role)
  BY <1>25, DeleteIdStep, InsertStep, EnterpriseForms, NullPicked
     DEF C!connectors_admin, C!add_connector, C!delete_connector, Answering, C!Quiet, C!Writes
<1>26. CASE C!muster_page(role)
  BY <1>26, FlagStep, InsertStep, EnterpriseForms, NullPicked
     DEF C!muster_page, C!start_muster, C!end_muster, Answering, C!Quiet, C!Writes
<1>27. CASE C!tenants_admin(role)
  BY <1>27, DeleteIdStep, InsertStep, ControlForms, NullPicked
     DEF C!tenants_admin, C!add_tenant, C!delete_tenant, Answering, C!Quiet, C!Writes
<1>28. CASE C!sdk_admin(role)
  BY <1>28, DeleteIdStep, InsertStep, EnterpriseForms, NullPicked
     DEF C!sdk_admin, C!add_sdk_client, C!delete_sdk_client, Answering, C!Quiet, C!Writes
<1> QED
  BY <1>1, <1>2, <1>3, <1>4, <1>5, <1>6, <1>7, <1>8, <1>9, <1>10, <1>11, <1>12, <1>13,
     <1>14, <1>15, <1>16, <1>17, <1>18, <1>19, <1>20, <1>21, <1>22, <1>23, <1>24, <1>25,
     <1>26, <1>27, <1>28

\* Devices, callbacks and the other modules.
LEMMA OtherStep ==
    ASSUME TablesInv, UNCHANGED scope,
           \/ C!transport_board_api \/ C!sensor_temperature \/ C!sso_callback
           \/ C!occupancy_log \/ C!muster_checkin \/ C!OtherWriters
    PROVE  StepOk /\ UNCHANGED answer
<1>1. CASE C!transport_board_api
  BY <1>1, InsertStep, SiteForms, NullPicked
     DEF C!transport_board_api, C!log_boarding, Answering, C!Quiet, C!Writes
<1>2. CASE C!sensor_temperature
  BY <1>2, InsertStep, ControlForms, NullPicked
     DEF C!sensor_temperature, C!log_sensor, Answering, C!Quiet, C!Writes
<1>3. CASE C!sso_callback
  <2>1. PICK i \in C!Shown("sso_providers"), n \in Names : C!upsert_admin_from_sso(i, n)
    BY <1>3 DEF C!sso_callback
  <2>2. UNCHANGED answer /\ "admin_users" \in scope /\ i \in C!Picked("sso_providers")
    BY <1>3, <2>1, NullPicked DEF C!sso_callback, C!upsert_admin_from_sso, C!Quiet, C!Writes
  <2>3. CASE C!Insert("admin_users", n, [branch_id |-> C!Null, sso_provider |-> i])
    BY <2>2, <2>3, InsertStep, AcademicForms, NullPicked
  <2>4. CASE \E r \in C!WithKey("admin_users", n) :
                C!SetRefs("admin_users", {r}, [branch_id |-> r.ref["branch_id"], sso_provider |-> i])
    <3>1. PICK r \in C!WithKey("admin_users", n) :
             C!SetRefs("admin_users", {r}, [branch_id |-> r.ref["branch_id"], sso_provider |-> i])
      BY <2>4
    <3>2. {r} \in SUBSET C!Of("admin_users") /\ RefsOk(r) /\ r.tbl = "admin_users"
      BY <3>1 DEF C!WithKey, C!Of, TablesInv, RowOk
    <3>3. "branch_id" \in C!Cols("admin_users") /\ To("admin_users", "branch_id") = "branches"
      <4>1. "branch_id" \in C!Cols("admin_users") /\ Refers("admin_users", "branch_id", "branches")
        BY Groups DEF C!AcademicTables, C!Table, C!Cols, Refers
      <4>2. QED  BY <4>1, ClauseTo DEF Refers, To
    <3>4. r.ref["branch_id"] \in C!Picked("branches")
      BY <3>2, <3>3 DEF RefsOk
    <3>5. QED  BY <2>2, <3>1, <3>2, <3>4, RefsStep, AcademicForms
  <2>5. QED
    BY <2>1, <2>3, <2>4 DEF C!upsert_admin_from_sso, C!Quiet
<1>4. CASE C!occupancy_log
  BY <1>4, InsertStep, EnterpriseForms, NullPicked
     DEF C!occupancy_log, C!log_occupancy, Answering, C!Quiet, C!Writes
<1>5. CASE C!muster_checkin
  BY <1>5, InsertStep, EnterpriseForms, NullPicked
     DEF C!muster_checkin, C!muster_check_in, Answering, C!InsertOrIgnore, C!Quiet, C!Writes
<1>6. CASE C!OtherWriters
  BY <1>6, InsertStep, AcademicForms, ControlForms, EnterpriseForms, SiteForms, NullPicked
     DEF C!OtherWriters, C!mark_session_attendance, C!log_gps_mark, C!log_ppe_incident, C!log_door,
         C!log_exam_alert, C!log_backup, C!log_presence, C!log_copilot, Answering, C!InsertOrIgnore,
         C!Quiet, C!Writes
<1> QED
  BY <1>1, <1>2, <1>3, <1>4, <1>5, <1>6

-----------------------------------------------------------------------------
(* The answers of add_contractor and add_room.                             *)

\* The row that the last of them answered with is there, under its name.
AnswerOk ==
    answer.id # C!Null =>
       /\ answer.tbl \in Answering
       /\ \E r \in C!WithId(answer.tbl, answer.id) :
             r.key = answer.key /\ (answer.tbl = "rooms" => r.ref["branch_id"] = answer.site)

LEMMA AnswerStays ==
    ASSUME AnswerOk, AnswersStay, UNCHANGED answer PROVE AnswerOk'
<1> SUFFICES ASSUME answer.id # C!Null
             PROVE  /\ answer.tbl \in Answering
                    /\ \E q \in rows' :
                          /\ q.tbl = answer.tbl /\ q.id = answer.id /\ q.key = answer.key
                          /\ answer.tbl = "rooms" => q.ref["branch_id"] = answer.site
  BY DEF AnswerOk, C!WithId
<1>1. answer.tbl \in Answering
  BY DEF AnswerOk
<1>2. PICK r \in rows : /\ r.tbl = answer.tbl /\ r.id = answer.id /\ r.key = answer.key
                        /\ answer.tbl = "rooms" => r.ref["branch_id"] = answer.site
  BY DEF AnswerOk, C!WithId
<1>3. QED  BY <1>1, <1>2 DEF AnswersStay

\* InsertOrFind answers with the row it made, or with the one in the way.
LEMMA FindStep ==
    ASSUME TablesInv, UNCHANGED scope, NEW t \in Answering, t \in scope, NEW key, NEW ref, NEW site,
           NEW found, RefKnown(t, ref), t = "rooms" => ref["branch_id"] = site,
           C!Clashes(t, key, ref) # {} => found = C!Clashes(t, key, ref),
           \A r \in found : t = "rooms" => r.ref["branch_id"] = site,
           C!InsertOrFind(t, key, ref, site, found)
    PROVE  StepOk /\ AnswerOk'
<1>1. StepOk
  BY InsertStep DEF C!InsertOrFind, C!InsertOrIgnore
<1>2. CASE C!Clashes(t, key, ref) # {}
  <2>1. PICK r : r \in found /\ r = (CHOOSE q \in found : TRUE)
    BY <1>2
  <2>2. answer' = [tbl |-> t, key |-> key, site |-> site, id |-> r.id]
    BY <1>2, <2>1 DEF C!InsertOrFind
  <2>3. r \in rows /\ r.tbl = t /\ r.key = key /\ (t = "rooms" => r.ref["branch_id"] = site)
    <3>1. "key" \in C!Schema[t].unique
      BY Groups DEF Answering, C!SiteTables, C!EnterpriseTables, C!Table
    <3>2. QED  BY <1>2, <2>1, <3>1 DEF C!Clashes, C!Of
  <2>4. rows' = rows
    BY <1>2 DEF C!InsertOrFind, C!InsertOrIgnore, C!Insert, C!Refused
  <2>5. QED  BY <1>1, <2>2, <2>3, <2>4 DEF AnswerOk, C!WithId
<1>3. CASE C!Clashes(t, key, ref) = {} /\ C!RefsResolve(t, ref)
  <2>1. answer' = [tbl |-> t, key |-> key, site |-> site, id |-> C!NextId(t)]
    BY <1>3 DEF C!InsertOrFind
  <2>2. C!NewRow(t, key, ref) \in rows'
    BY <1>3 DEF C!InsertOrFind, C!InsertOrIgnore, C!Insert, C!Commit, C!Refused
  <2>3. PICK n : n = C!NewRow(t, key, ref)
    OBVIOUS
  <2>4. n.tbl = t /\ n.id = C!NextId(t) /\ n.key = key /\ n.ref = ref
    BY <2>3 DEF C!NewRow
  <2>5. QED  BY <1>1, <2>1, <2>2, <2>3, <2>4 DEF AnswerOk, C!WithId
<1>4. CASE C!Clashes(t, key, ref) = {} /\ ~C!RefsResolve(t, ref)
  BY <1>1, <1>4 DEF C!InsertOrFind, C!NoAnswer, AnswerOk
<1>5. QED  BY <1>2, <1>3, <1>4

LEMMA AnsweringStep ==
    ASSUME TablesInv, UNCHANGED scope, NEW role, C!contractors(role) \/ C!occupancy_admin(role)
    PROVE  StepOk /\ AnswerOk'
<1>1. CASE C!contractors(role)
  <2>1. PICK n \in Names, b \in C!Picked("branches") : C!add_contractor(n, b)
    BY <1>1 DEF C!contractors
  <2>2. C!WithKey("contractors", n) = C!Clashes("contractors", n, C!Ref1("site_id", b))
    <3>1. C!Schema["contractors"].unique = {"key"}
      BY Groups DEF C!SiteTables, C!Table
    <3>2. QED  BY <3>1 DEF C!WithKey, C!Clashes, C!Of
  <2>3. RefKnown("contractors", C!Ref1("site_id", b)) /\ "contractors" \in scope
    BY <1>1, SiteForms DEF C!contractors, C!Writes
  <2>4. QED  BY <2>1, <2>2, <2>3, FindStep DEF C!add_contractor, Answering
<1>2. CASE C!occupancy_admin(role)
  <2>1. PICK n \in Names, b \in C!Picked("branches") : C!add_room(n, b)
    BY <1>2 DEF C!occupancy_admin
  <2>2. C!Ref1("branch_id", b)["branch_id"] = b
    BY DEF C!Ref1
  <2>3. C!Schema["rooms"].unique = {"key", "branch_id"}
    BY Groups DEF C!EnterpriseTables, C!Table
  <2> DEFINE found == {r \in C!WithKey("rooms", n) : r.ref["branch_id"] = b}
  <2>4. C!Clashes("rooms", n, C!Ref1("branch_id", b)) # {}
           => found = C!Clashes("rooms", n, C!Ref1("branch_id", b))
    BY <2>2, <2>3 DEF C!WithKey, C!Clashes, C!Of
  <2>5. RefKnown("rooms", C!Ref1("branch_id", b)) /\ "rooms" \in scope
    BY <1>2, EnterpriseForms DEF C!occupancy_admin, C!Writes
  <2>6. C!InsertOrFind("rooms", n, C!Ref1("branch_id", b), b, found)
    BY <2>1 DEF C!add_room
  <2>7. \A r \in found : r.ref["branch_id"] = b
    OBVIOUS
  <2> HIDE DEF found
  <2>8. QED  BY <2>2, <2>4, <2>5, <2>6, <2>7, FindStep DEF Answering
<1>3. QED  BY <1>1, <1>2

-----------------------------------------------------------------------------
(* The handlers of several transactions, and the step.                     *)
FlightFields == {"step", "key", "name", "id", "was"}
FlightOk ==
    /\ DOMAIN flight = FlightFields
    /\ flight.step = "upsert" => "persons" \in scope /\ flight.id \in C!Picked("departments")
    /\ flight.step = "find" => "persons" \in scope /\ "departments" \in scope
ConsoleInv == TablesInv /\ AnswerOk /\ FlightOk

LEMMA OneTransactionStep ==
    ASSUME ConsoleInv, UNCHANGED scope, C!OneTransaction PROVE StepOk /\ AnswerOk'
<1>1. TablesInv /\ AnswerOk
  BY DEF ConsoleInv
<1>2. CASE \E role \in C!ROLE_LEVELS : C!contractors(role) \/ C!occupancy_admin(role)
  BY <1>1, <1>2, AnsweringStep
<1>3. CASE StepOk /\ UNCHANGED answer
  BY <1>1, <1>3, AnswerStays DEF StepOk
<1>4. QED
  BY <1>1, <1>2, <1>3, PageStep, OtherStep DEF C!OneTransaction

\* A handler between transactions; what it holds stays an id of its table.
LEMMA FlightLands ==
    ASSUME flight' = C!Landed PROVE FlightOk'
BY DEF C!Landed, FlightOk, FlightFields

LEMMA PickedGrows ==
    ASSUME TablesInv, StepOk, UNCHANGED scope, NEW t, NEW i \in C!Picked(t) PROVE i \in C!Picked(t)'
<1>1. DOMAIN seq = scope /\ DOMAIN seq' = scope
  BY DEF TablesInv, StepOk
<1>2. \A u \in scope : seq[u] \in Nat /\ seq'[u] \in Nat /\ seq[u] <= seq'[u]
  BY DEF TablesInv, StepOk, IdsGrow
<1>3. QED  BY <1>1, <1>2 DEF C!Picked, C!Shown

LEMMA FlightStays ==
    ASSUME TablesInv, StepOk, FlightOk, UNCHANGED <<scope, flight>> PROVE FlightOk'
BY PickedGrows DEF FlightOk

LEMMA CamerasStep ==
    ASSUME ConsoleInv, UNCHANGED scope, NEW role, C!cameras(role) PROVE StepOk /\ ConsoleInv'
<1>1. TablesInv /\ AnswerOk /\ FlightOk
  BY DEF ConsoleInv
<1>2. StepOk /\ UNCHANGED answer
  BY <1>1, DeleteIdStep, InsertStep, SiteForms, IdleStep
     DEF C!cameras, C!delete_camera, C!add_camera, Answering, C!Quiet, C!Writes
<1>3. FlightOk'
  <2>1. CASE UNCHANGED flight
    BY <1>1, <1>2, <2>1, FlightStays
  <2>2. CASE \E i, w : flight' = [C!Landed EXCEPT !.step = "toggle", !.id = i, !.was = w]
    BY <2>2 DEF C!Landed, FlightOk, FlightFields
  <2>3. QED  BY <2>1, <2>2 DEF C!cameras
<1>4. QED  BY <1>1, <1>2, <1>3, AnswerStays DEF StepOk, ConsoleInv

LEMMA ImportStep ==
    ASSUME ConsoleInv, UNCHANGED scope, NEW role, C!import_users(role) PROVE StepOk /\ ConsoleInv'
<1>1. TablesInv /\ AnswerOk /\ FlightOk
  BY DEF ConsoleInv
<1>2. StepOk /\ UNCHANGED answer
  BY <1>1, InsertStep, AcademicForms DEF C!import_users, C!add_department, C!InsertOrIgnore, C!Quiet, C!Writes
<1>3. FlightOk'
  BY DEF C!import_users, C!Writes, C!Landed, FlightOk, FlightFields
<1>4. QED  BY <1>1, <1>2, <1>3, AnswerStays DEF StepOk, ConsoleInv

LEMMA FindsStep ==
    ASSUME ConsoleInv, UNCHANGED scope, C!ImportFinds PROVE StepOk /\ ConsoleInv'
<1>1. TablesInv /\ AnswerOk /\ FlightOk
  BY DEF ConsoleInv
<1>2. StepOk /\ UNCHANGED answer
  BY <1>1, IdleStep DEF C!ImportFinds
<1> DEFINE found == {e.row : e \in C!list_departments}
           at == IF \E r \in found : r.key = flight.name
                 THEN (CHOOSE r \in found : r.key = flight.name).id ELSE C!Null
<1>3. at \in C!Picked("departments")
  <2>1. \A r \in found : r \in rows /\ r.tbl = "departments"
    BY DEF C!list_departments, C!Listing, C!Of
  <2> HIDE DEF found
  <2>2. \A r \in found : r.id \in C!Picked("departments")
    BY <1>1, <2>1 DEF C!Picked, C!Shown, TablesInv, RowOk
  <2>3. QED  BY <2>2 DEF C!Picked
<1>4. flight' = [flight EXCEPT !.step = "upsert", !.id = at] /\ flight.step = "find"
  BY DEF C!ImportFinds
<1> HIDE DEF at
<1>5. DOMAIN flight' = FlightFields /\ flight'.step = "upsert" /\ flight'.id = at /\ "persons" \in scope
  BY <1>1, <1>4 DEF FlightOk, FlightFields
<1>6. at \in C!Picked("departments")'
  BY <1>1, <1>2, <1>3, PickedGrows
<1>7. FlightOk'
  BY <1>5, <1>6 DEF FlightOk
<1>8. QED  BY <1>1, <1>2, <1>7, AnswerStays DEF StepOk, ConsoleInv

LEMMA LandingStep ==
    ASSUME ConsoleInv, UNCHANGED scope, C!FinishToggle \/ C!ImportWrites PROVE StepOk /\ ConsoleInv'
<1>1. TablesInv /\ AnswerOk /\ FlightOk
  BY DEF ConsoleInv
<1>2. CASE C!FinishToggle
  BY <1>1, <1>2, FlagStep, FlightLands, AnswerStays
     DEF C!FinishToggle, C!toggle_camera, C!Quiet, StepOk, ConsoleInv
<1>3. CASE C!ImportWrites
  <2>1. RefKnown("persons", C!Ref1("department_id", flight.id)) /\ "persons" \in scope
    BY <1>1, <1>3, AcademicForms DEF C!ImportWrites, FlightOk
  <2>2. StepOk /\ UNCHANGED answer
    BY <1>1, <1>3, <2>1, UpsertStep DEF C!ImportWrites, C!upsert_person, C!Quiet
  <2>3. QED
    BY <1>1, <1>3, <2>2, FlightLands, AnswerStays DEF C!ImportWrites, StepOk, ConsoleInv
<1>4. QED  BY <1>2, <1>3

LEMMA ConsoleStep == ASSUME ConsoleInv, C!CNext PROVE StepOk /\ ConsoleInv'
<1>1. CASE C!OneTransaction /\ UNCHANGED <<scope, flight>>
  BY <1>1, OneTransactionStep, FlightStays DEF ConsoleInv, StepOk
<1>2. QED
  BY <1>1, CamerasStep, ImportStep, FindsStep, LandingStep DEF C!CNext

LEMMA ConsoleIdles == ASSUME ConsoleInv, UNCHANGED C!cvars PROVE StepOk /\ ConsoleInv'
<1>1. TablesInv /\ AnswerOk /\ FlightOk
  BY DEF ConsoleInv
<1>2. StepOk /\ UNCHANGED <<answer, scope, flight>>
  BY <1>1, IdleStep DEF C!cvars
<1>3. QED  BY <1>1, <1>2, AnswerStays, FlightStays DEF StepOk, ConsoleInv

LEMMA ConsoleBegins == ASSUME C!CInit PROVE ConsoleInv
<1>1. TablesInv
  BY ViewsAssumption DEF C!CInit, TablesInv, C!NoDanglingKey
<1>2. AnswerOk /\ FlightOk
  BY DEF C!CInit, C!NoAnswer, AnswerOk, C!Landed, FlightOk, FlightFields
<1>3. QED  BY <1>1, <1>2 DEF ConsoleInv

-----------------------------------------------------------------------------
(* What the pages list and answer.                                         *)
LEMMA ListingNames ==
    ASSUME TablesInv, NEW t, NEW cols, cols \subseteq C!Cols(t), NEW e \in C!Listing(t, cols)
    PROVE  \A c \in DOMAIN e.names : e.names[c] \in {Blank, e.row.about[c]}
<1>1. PICK r \in rows : /\ r.tbl = t /\ e.row = r
                        /\ e.names = [c \in cols |-> C!NameOf(t, c, r.ref[c])]
  BY DEF C!Listing, C!Of
<1>2. ASSUME NEW c \in cols PROVE C!NameOf(t, c, r.ref[c]) \in {Blank, r.about[c]}
  <2>1. CASE C!WithId(To(t, c), r.ref[c]) = {}
    BY <2>1 DEF C!NameOf, To
  <2>2. CASE C!WithId(To(t, c), r.ref[c]) # {}
    <3>1. PICK g \in C!WithId(To(t, c), r.ref[c]) : TRUE
      BY <2>2
    <3>2. C!NameOf(t, c, r.ref[c]) = g.key
      BY <3>1, NameIs
    <3>3. g.key = r.about[c]
      BY <1>1, <1>2, <3>1 DEF TablesInv, RowOk, RefsOk
    <3>4. QED  BY <3>2, <3>3
  <2>3. QED  BY <2>1, <2>2
<1>3. QED  BY <1>1, <1>2

LEMMA ListedColumns ==
    /\ {"department_id"} \subseteq C!Cols("persons")
    /\ {"department_id"} \subseteq C!Cols("subjects")
    /\ {"subject_id"} \subseteq C!Cols("class_sessions")
    /\ {"branch_id", "department_id"} \subseteq C!Cols("shifts")
    /\ {"subject_id"} \subseteq C!Cols("timetable")
    /\ {"branch_id"} \subseteq C!Cols("holidays")
    /\ {"site_id"} \subseteq C!Cols("contractors")
    /\ {"branch_id"} \subseteq C!Cols("ppe_incidents")
    /\ {"branch_id", "contractor_id"} \subseteq C!Cols("site_muster")
    /\ {"branch_id"} \subseteq C!Cols("cameras")
    /\ {"branch_id"} \subseteq C!Cols("bus_routes")
    /\ {"route_id", "stop_id"} \subseteq C!Cols("bus_boardings")
    /\ {"branch_id"} \subseteq C!Cols("sensor_readings")
    /\ {"branch_id"} \subseteq C!Cols("door_log")
    /\ {"branch_id", "department_id"} \subseteq C!Cols("exam_sessions")
    /\ {"branch_id"} \subseteq C!Cols("rooms")
    /\ {"branch_id"} \subseteq C!Cols("muster_drills")
    /\ {} \subseteq C!Cols("branches")
    /\ {} \subseteq C!Cols("substitutions")
<1>1. /\ {"department_id"} \subseteq C!Cols("persons")
      /\ {"department_id"} \subseteq C!Cols("subjects")
      /\ {"subject_id"} \subseteq C!Cols("class_sessions")
  BY Groups DEF C!AcademicTables, C!Table, C!Cols
<1>2. /\ {"branch_id", "department_id"} \subseteq C!Cols("shifts")
      /\ {"subject_id"} \subseteq C!Cols("timetable")
      /\ {"branch_id"} \subseteq C!Cols("holidays")
      /\ {} \subseteq C!Cols("branches")
  BY Groups DEF C!PlaceTables, C!Table, C!Cols
<1>3. /\ {"site_id"} \subseteq C!Cols("contractors")
      /\ {"branch_id"} \subseteq C!Cols("ppe_incidents")
      /\ {"branch_id", "contractor_id"} \subseteq C!Cols("site_muster")
      /\ {"branch_id"} \subseteq C!Cols("cameras")
      /\ {"branch_id"} \subseteq C!Cols("bus_routes")
      /\ {"route_id", "stop_id"} \subseteq C!Cols("bus_boardings")
      /\ {} \subseteq C!Cols("substitutions")
  BY Groups DEF C!SiteTables, C!Table, C!Cols
<1>4. /\ {"branch_id"} \subseteq C!Cols("sensor_readings")
      /\ {"branch_id"} \subseteq C!Cols("door_log")
      /\ {"branch_id", "department_id"} \subseteq C!Cols("exam_sessions")
  BY Groups DEF C!ControlTables, C!Table, C!Cols
<1>5. /\ {"branch_id"} \subseteq C!Cols("rooms")
      /\ {"branch_id"} \subseteq C!Cols("muster_drills")
  BY Groups DEF C!EnterpriseTables, C!Table, C!Cols
<1> QED  BY <1>1, <1>2, <1>3, <1>4, <1>5

LEMMA ListsAreRight == ASSUME ConsoleInv PROVE C!ListsNameTheRightRow
<1>1. TablesInv /\ AnswerOk
  BY DEF ConsoleInv
<1>2. ASSUME NEW list \in C!Lists PROVE \E t, cols : cols \subseteq C!Cols(t) /\ list = C!Listing(t, cols)
  BY <1>2, ListedColumns
     DEF C!Lists,
         C!list_persons, C!list_subjects, C!list_sessions, C!list_shifts, C!list_timetable,
         C!list_holidays, C!list_contractors, C!list_ppe_incidents, C!site_muster_for,
         C!list_cameras, C!list_bus_routes, C!list_boardings, C!list_sensor_readings,
         C!list_door_log, C!list_exams, C!list_rooms, C!list_musters, C!list_branches,
         C!list_substitutions
<1>3. QED  BY <1>1, <1>2, ListingNames DEF C!ListsNameTheRightRow, AnswerOk

LEMMA KeysAreRight == ASSUME ConsoleInv PROVE C!NoDanglingKey
BY DEF ConsoleInv, TablesInv
PlacesStep ==
    LET gone == {<<r.tbl, r.id>> : r \in rows} \ {<<r.tbl, r.id>> : r \in rows'}
    IN (\E g \in gone : g[1] \in {"departments", "branches", "tenants"})
          => C!Cardinality({g \in gone : g[1] \notin C!OwnedByPlace}) = 1
LEMMA CCardinality == \A S : C!Cardinality(S) = Cardinality(S)
BY DEF C!Cardinality, Cardinality

LEMMA RecordsAreLeft == ASSUME StepOk PROVE PlacesStep
BY CCardinality DEF StepOk, RecordsStay, GoneIds, Places, PlacesStep

\* Whatever forms are sent by whomever, with ids of pages shown long before, and
\* whatever happens between the transactions of a handler, no FOREIGN KEY column
\* names a row that is gone (PRAGMA foreign_keys, ON DELETE).
THEOREM KeysPointAtRows == MCSpec => []NoDanglingKey
<1>1. MCInit => ConsoleInv
  BY ConsoleBegins DEF MCInit
<1>2. ConsoleInv /\ [MCNext]_<<part, vars, console, start, rule>> => ConsoleInv'
  <2>1. [MCNext]_<<part, vars, console, start, rule>> => [C!CNext]_(C!cvars)
    BY DEF MCNext, console, start, rule, vars, C!cvars
  <2>2. QED  BY <2>1, ConsoleStep, ConsoleIdles
<1>3. ConsoleInv => NoDanglingKey
  BY KeysAreRight DEF NoDanglingKey
<1>4. QED  BY <1>1, <1>2, <1>3, PTL DEF MCSpec

\* A list shows beside a record the name of what the record was written for, or
\* none, and add_contractor and add_room answer with the id of such a row.
THEOREM ListsName == MCSpec => []ListsNameTheRightRow
<1>1. MCInit => ConsoleInv
  BY ConsoleBegins DEF MCInit
<1>2. ConsoleInv /\ [MCNext]_<<part, vars, console, start, rule>> => ConsoleInv'
  <2>1. [MCNext]_<<part, vars, console, start, rule>> => [C!CNext]_(C!cvars)
    BY DEF MCNext, console, start, rule, vars, C!cvars
  <2>2. QED  BY <2>1, ConsoleStep, ConsoleIdles
<1>3. ConsoleInv => ListsNameTheRightRow
  BY ListsAreRight DEF ListsNameTheRightRow
<1>4. QED  BY <1>1, <1>2, <1>3, PTL DEF MCSpec

\* Deleting a department, a branch or a tenant takes no record along, only the
\* holidays of the branch and what a tenant owns (ON DELETE CASCADE).
THEOREM PlacesLeave == MCSpec => PlacesLeaveRecords
<1>1. MCInit => ConsoleInv
  BY ConsoleBegins DEF MCInit
<1>2. [MCNext]_<<part, vars, console, start, rule>> => [C!CNext]_(C!cvars)
  BY DEF MCNext, console, start, rule, vars, C!cvars
<1>3. ConsoleInv /\ [MCNext]_<<part, vars, console, start, rule>> => ConsoleInv' /\ [PlacesStep]_rows
  BY <1>2, ConsoleStep, ConsoleIdles, RecordsAreLeft
<1>4. [][PlacesStep]_rows <=> PlacesLeaveRecords
  BY DEF PlacesLeaveRecords, C!PlacesLeaveRecords, PlacesStep
<1>5. QED
  BY <1>1, <1>3, <1>4, PTL DEF MCSpec
============================================================================
