-------------------------- MODULE NotifyQueueProofs --------------------------
(***************************************************************************)
(* Theorems about NotifyQueue, for any contacts, providers, marks and      *)
(* faults.                                                                 *)
(*                                                                         *)
(* A message is in one place: once in the queue, or in the worker's hands  *)
(* (OnePlace).  As long as it is there, what is known of it is that it was *)
(* delivered no more often than answers got lost (Unsent); the worker lets *)
(* go of one that it knows to be sent, and of one after its fourth round,  *)
(* which the counter in the item tells (Rounds).                           *)
(***************************************************************************)
EXTENDS NotifyQueue, TLAPS, SequenceTheorems

ChannelNames == {"whatsapp", "sms", "email"}
Item == [msg : Messages, tries : Nat]
AnyItem == [msg : Messages \cup {<<1, 1>>}, tries : Nat]
Steps == {"none", "idle", "send", "record", "sleep"}
Answers == {"", "ok", "error", "not-configured"}

Busy == worker.step \in {"send", "record", "sleep"}
Held == worker.item.msg
Known == worker.step = "record" /\ worker.answer = "ok"

\* The thread's record; its timer is of no interest here.
IsWorker(w) ==
    /\ DOMAIN w = {"step", "item", "chans", "answer", "sleep"}
    /\ w.step \in Steps /\ w.item \in AnyItem
    /\ w.chans \in Seq(ChannelNames) /\ w.answer \in Answers

TypeOK ==
    /\ provider \in Providers /\ marks \in 0..MaxMarks
    /\ queue \in Seq(Item) /\ IsWorker(worker)
    /\ Busy => Held \in Messages
    /\ worker.step \in {"send", "record"} => worker.chans # <<>>
    /\ rounds \in [Messages -> Nat] /\ sentRows \in [Messages -> Nat]
    /\ delivered \in [Messages -> Nat]
    /\ lost \in Nat /\ crashes \in Nat

OnePlace ==
    /\ \A i, j \in DOMAIN queue : queue[i].msg = queue[j].msg => i = j
    /\ \A i \in DOMAIN queue : queue[i].msg \in Dispatched
    /\ Busy => Held \in Dispatched /\ \A i \in DOMAIN queue : queue[i].msg # Held

\* How often the worker took a message up, by the counter in its item.
Rounds ==
    /\ \A i \in DOMAIN queue : rounds[queue[i].msg] = queue[i].tries /\ queue[i].tries <= MaxTries
    /\ Busy => worker.item.tries <= MaxTries
    /\ worker.step \in {"send", "record"} => rounds[Held] = worker.item.tries + 1
    /\ worker.step = "sleep" => rounds[Held] = worker.item.tries

Unsent ==
    /\ \A i \in DOMAIN queue : delivered[queue[i].msg] <= lost
    /\ Busy /\ ~Known => delivered[Held] <= lost
    /\ Known => sentRows[Held] < delivered[Held]

Fresh == \A m \in Messages \ Dispatched : delivered[m] = 0 /\ rounds[m] = 0

IInv == TypeOK /\ OnePlace /\ Rounds /\ Unsent /\ Fresh /\ SentOnce /\ NothingForgotten

-----------------------------------------------------------------------------
LEMMA Holding == ASSUME TypeOK PROVE \A m : Holds(m) <=> Busy /\ m = Held
BY DEF TypeOK, IsWorker, Steps, Busy, Held, Holds

LEMMA WaitingIs ==
    /\ IsWorker(Waiting) /\ Waiting.step = "idle"
    /\ IsWorker(Nobody) /\ Nobody.step = "none"
<1>1. IsWorker(Nobody) /\ Nobody.step = "none"
  BY DEF Nobody, IsWorker, Steps, AnyItem, Answers
<1>2. IsWorker(Waiting) /\ Waiting.step = "idle"
  BY <1>1 DEF Waiting, IsWorker, Steps
<1>3. QED  BY <1>1, <1>2

LEMMA InitIInv == Init => IInv
<1> SUFFICES ASSUME Init PROVE IInv  OBVIOUS
<1>1. queue = <<>> /\ queue \in Seq(Item) /\ DOMAIN queue = {}
  BY DEF Init
<1>2. IsWorker(worker) /\ worker.step = "none"
  BY WaitingIs DEF Init
<1>3. ~Busy /\ ~Known
  BY <1>2 DEF Busy, Known
<1>4. TypeOK
  BY <1>1, <1>2, <1>3, MarksAssumption DEF Init, TypeOK
<1>5. OnePlace /\ Rounds /\ Unsent /\ Fresh /\ SentOnce
  BY <1>1, <1>2, <1>3 DEF Init, OnePlace, Rounds, Unsent, Fresh, SentOnce
<1>6. Dispatched = {}
  BY DEF Init, Dispatched, Messages
<1>7. NothingForgotten
  BY <1>6 DEF NothingForgotten
<1>8. QED  BY <1>4, <1>5, <1>7 DEF IInv

-----------------------------------------------------------------------------
(* Steps of the worker with a message in its hands.                        *)

\* It keeps the message.
LEMMA InHand ==
    ASSUME IInv, TypeOK', Busy, Busy', Held' = Held,
           UNCHANGED <<provider, marks, queue, rounds, crashes>>,
           \A m \in Messages \ {Held} :
              delivered'[m] = delivered[m] /\ sentRows'[m] = sentRows[m],
           lost <= lost',
           worker'.item.tries <= MaxTries,
           worker'.step \in {"send", "record"} => rounds[Held] = worker'.item.tries + 1,
           worker'.step = "sleep" => rounds[Held] = worker'.item.tries,
           sentRows'[Held] <= delivered'[Held], delivered'[Held] <= 1 + lost',
           Known' => sentRows'[Held] < delivered'[Held],
           ~Known' => delivered'[Held] <= lost'
    PROVE  IInv'
<1>1. /\ \A i \in DOMAIN queue : queue[i].msg \in Messages \ {Held}
      /\ Held \in Messages
      /\ lost \in Nat /\ lost' \in Nat /\ delivered \in [Messages -> Nat]
  <2>1. Dispatched \subseteq Messages
    BY DEF Dispatched
  <2>2. QED  BY <2>1 DEF IInv, OnePlace, TypeOK
<1>2. OnePlace'
  BY DEF IInv, OnePlace, Dispatched
<1>3. Rounds'
  BY DEF IInv, Rounds
<1>4. Unsent'
  <2>1. ASSUME NEW i \in DOMAIN queue PROVE delivered'[queue[i].msg] <= lost'
    <3>1. delivered'[queue[i].msg] = delivered[queue[i].msg] /\ delivered[queue[i].msg] \in Nat
      BY <1>1
    <3>2. delivered[queue[i].msg] <= lost
      BY DEF IInv, Unsent
    <3>3. QED  BY <1>1, <3>1, <3>2
  <2>2. QED  BY <2>1 DEF Unsent
<1>5. Fresh'
  BY DEF IInv, Fresh, OnePlace, Dispatched
<1>6. SentOnce'
  <2>1. ASSUME NEW m \in Messages \ {Held} PROVE delivered'[m] <= 1 + lost'
    BY <1>1 DEF IInv, SentOnce
  <2>2. QED  BY <2>1 DEF IInv, SentOnce
<1>7. NothingForgotten'
  <2>1. ASSUME NEW m \in Dispatched
        PROVE  delivered'[m] > 0 \/ Settled(m)' \/ Queued(m)' # Holds(m)' \/ crashes' > 0
    <3>1. Queued(m)' = Queued(m) /\ Uncallable' = Uncallable
      BY DEF Queued, Uncallable
    <3>2. CASE m = Held
      <4>1. Holds(m)' = TRUE /\ Queued(m) = FALSE
        BY <3>2, Holding DEF IInv, OnePlace, Queued, Holds, Busy, Held
      <4>2. QED  BY <3>1, <4>1
    <3>3. CASE m # Held
      <4>1. Holds(m)' = FALSE /\ Holds(m) = FALSE
        BY <3>3 DEF Holds, Held
      <4>2. delivered'[m] = delivered[m]
        BY <3>3 DEF Dispatched
      <4>3. Settled(m)' <=> Settled(m)
        BY <3>1, <4>1, <4>2 DEF Settled
      <4>4. QED  BY <3>1, <4>1, <4>2, <4>3 DEF IInv, NothingForgotten
    <3>4. QED  BY <3>2, <3>3
  <2>2. Dispatched' = Dispatched
    BY DEF Dispatched
  <2>3. QED  BY <2>1, <2>2 DEF NothingForgotten
<1>8. QED  BY <1>2, <1>3, <1>4, <1>5, <1>6, <1>7 DEF IInv

\* It lets go of the message, which is settled.
LEMMA LetGo ==
    ASSUME IInv, Busy, worker' = Waiting,
           UNCHANGED <<provider, marks, queue, rounds, crashes, delivered, lost>>,
           sentRows' \in [Messages -> Nat],
           \A m \in Messages \ {Held} : sentRows'[m] = sentRows[m],
           sentRows'[Held] <= delivered[Held],
           delivered[Held] > 0 \/ rounds[Held] = MaxTries + 1 \/ Uncallable
    PROVE  IInv'
<1>1. IsWorker(worker') /\ worker'.step = "idle"
  BY WaitingIs
<1>2. ~Busy' /\ ~Known'
  BY <1>1 DEF Busy, Known
<1>3. TypeOK'
  BY <1>1, <1>2 DEF IInv, TypeOK
<1>4. OnePlace' /\ Rounds' /\ Unsent' /\ Fresh'
  BY <1>1, <1>2 DEF IInv, OnePlace, Rounds, Unsent, Fresh, Dispatched
<1>5. SentOnce'
  BY DEF IInv, SentOnce
<1>6. NothingForgotten'
  <2>1. ASSUME NEW m \in Dispatched
        PROVE  delivered[m] > 0 \/ Settled(m)' \/ Queued(m)' # Holds(m)' \/ crashes' > 0
    <3>1. Queued(m)' = Queued(m) /\ Uncallable' = Uncallable /\ Holds(m)' = FALSE
      BY <1>1 DEF Queued, Uncallable, Holds
    <3>2. CASE m = Held
      <4>1. Queued(m) = FALSE
        BY <3>2 DEF IInv, OnePlace, Queued
      <4>2. Settled(m)'
        BY <3>1, <3>2, <4>1 DEF Settled
      <4>3. QED  BY <4>2
    <3>3. CASE m # Held
      <4>1. Holds(m) = FALSE
        BY <3>3 DEF Holds, Held
      <4>2. Settled(m)' <=> Settled(m)
        BY <3>1, <4>1 DEF Settled
      <4>3. QED  BY <3>1, <4>1, <4>2 DEF IInv, NothingForgotten
    <3>4. QED  BY <3>2, <3>3
  <2>2. Dispatched' = Dispatched
    BY DEF Dispatched
  <2>3. QED  BY <2>1, <2>2 DEF NothingForgotten
<1>7. QED  BY <1>3, <1>4, <1>5, <1>6 DEF IInv

\* The worker writes down an answer.
LEMMA AnsweredIs ==
    ASSUME IsWorker(worker), NEW a \in Answers, Answered(a)
    PROVE  /\ IsWorker(worker') /\ worker'.step = "record" /\ worker'.answer = a
           /\ worker'.item = worker.item /\ worker'.chans = worker.chans
BY DEF Answered, IsWorker, Steps

LEMMA SendKeeps == ASSUME IInv, Send PROVE IInv'
<1> DEFINE chan == Head(worker.chans)
<1>1. /\ worker.step = "send" /\ Busy /\ ~Known /\ IsWorker(worker) /\ Held \in Messages
      /\ UNCHANGED <<provider, marks, queue, rounds, sentRows, crashes>>
      /\ lost \in Nat /\ lost + 1 \in Nat
  BY DEF Send, Busy, Known, IInv, TypeOK, daybook, record
<1>2. chan \in DOMAIN provider
  <2>1. provider \in [ChannelNames -> {"off", "on", "bad"}]
    BY ProvidersAssumption DEF IInv, TypeOK, ChannelNames
  <2>2. worker.chans \in Seq(ChannelNames) /\ worker.chans # <<>>
    BY <1>1 DEF IInv, TypeOK, IsWorker
  <2>3. QED  BY <2>1, <2>2
<1>3. /\ worker.item.tries <= MaxTries /\ rounds[Held] = worker.item.tries + 1
      /\ delivered[Held] <= lost /\ sentRows[Held] <= delivered[Held]
      /\ delivered \in [Messages -> Nat] /\ sentRows \in [Messages -> Nat]
  BY <1>1 DEF IInv, Rounds, Unsent, SentOnce, TypeOK
<1>4. CASE provider[chan] = "bad" /\ Raised /\ UNCHANGED outside
  <2>1. Uncallable
    BY <1>2, <1>4 DEF Uncallable
  <2>2. QED  BY <1>1, <1>3, <1>4, <2>1, LetGo DEF Raised, outside
<1>5. ASSUME NEW a \in Answers, Answered(a),
             \/ a # "ok" /\ UNCHANGED <<delivered, lost>>
             \/ a = "ok" /\ Delivered(Held) /\ UNCHANGED lost
             \/ a # "ok" /\ Delivered(Held) /\ lost' = lost + 1
      PROVE  IInv'
  <2>1. /\ IsWorker(worker') /\ worker'.step = "record" /\ worker'.answer = a
        /\ worker'.item = worker.item /\ worker'.chans = worker.chans
    BY <1>1, <1>5, AnsweredIs
  <2>2. Busy' /\ Held' = Held /\ (Known' <=> a = "ok")
    BY <2>1 DEF Busy, Held, Known
  <2>3. /\ delivered' \in [Messages -> Nat] /\ lost' \in Nat /\ lost <= lost'
        /\ \A m \in Messages \ {Held} : delivered'[m] = delivered[m]
    BY <1>1, <1>3, <1>5 DEF Delivered
  <2>4. /\ sentRows[Held] <= delivered'[Held] /\ delivered'[Held] <= 1 + lost'
        /\ a = "ok" => sentRows[Held] < delivered'[Held]
        /\ a # "ok" => delivered'[Held] <= lost'
    <3>1. delivered[Held] \in Nat /\ sentRows[Held] \in Nat
      BY <1>1, <1>3
    <3>2. Delivered(Held) => delivered'[Held] = delivered[Held] + 1
      BY <1>1, <1>3 DEF Delivered
    <3>3. QED  BY <1>1, <1>3, <1>5, <3>1, <3>2
  <2>5. TypeOK'
    <3>1. worker.chans # <<>>
      BY <1>1 DEF IInv, TypeOK
    <3>2. QED  BY <1>1, <2>1, <2>2, <2>3, <3>1 DEF IInv, TypeOK
  <2>6. QED  BY <1>1, <1>3, <2>1, <2>2, <2>3, <2>4, <2>5, InHand
<1>6. QED
  <2>1. {"ok", "error", "not-configured"} \subseteq Answers
    BY DEF Answers
  <2> HIDE DEF chan
  <2>2. \/ provider[chan] = "bad" /\ Raised /\ UNCHANGED outside
        \/ Answered("not-configured") /\ UNCHANGED outside
        \/ Answered("ok") /\ Delivered(Held) /\ UNCHANGED <<refused, lost>>
        \/ Answered("error") /\ Delivered(Held) /\ lost' = lost + 1
        \/ Answered("error") /\ UNCHANGED <<delivered, lost>>
        \/ Answered("error") /\ UNCHANGED outside
    BY DEF Send, Held, chan
  <2>3. QED  BY <1>4, <1>5, <2>1, <2>2 DEF outside

\* What _record may do to the table.
LEMMA RecordedIs ==
    ASSUME TypeOK, Busy, NEW status, Recorded(status)
    PROVE  /\ sentRows' \in [Messages -> Nat]
           /\ \A m \in Messages \ {Held} : sentRows'[m] = sentRows[m]
           /\ sentRows'[Held] \in {sentRows[Held], sentRows[Held] + 1}
           /\ status # "sent" => sentRows'[Held] = sentRows[Held]
<1>1. Held \in Messages /\ sentRows \in [Messages -> Nat]
  BY DEF TypeOK
<1>2. CASE sentRows' = [sentRows EXCEPT ![Held] = @ + (IF status = "sent" THEN 1 ELSE 0)]
  BY <1>1, <1>2
<1>3. CASE UNCHANGED sentRows
  BY <1>1, <1>3
<1>4. QED  BY <1>2, <1>3 DEF Recorded, Held

\* The message of a failed round.
LEMMA RetryKeeps ==
    ASSUME IInv, worker.step = "record", worker.answer # "ok", Retry,
           UNCHANGED <<provider, marks, queue, rounds, crashes, sentRows, delivered, lost>>
    PROVE  IInv'
<1> DEFINE n == worker.item.tries + 1
<1>1. /\ Busy /\ ~Known /\ IsWorker(worker) /\ Held \in Messages
      /\ worker.item \in AnyItem /\ worker.item.tries \in Nat /\ n \in Nat
      /\ lost \in Nat /\ delivered \in [Messages -> Nat]
  BY DEF Busy, Known, IInv, TypeOK, IsWorker, AnyItem
<1>2. /\ worker.item.tries <= MaxTries /\ rounds[Held] = n
      /\ delivered[Held] <= lost /\ sentRows[Held] <= delivered[Held]
      /\ delivered[Held] <= 1 + lost /\ sentRows \in [Messages -> Nat]
  BY <1>1 DEF IInv, Rounds, Unsent, SentOnce, TypeOK
<1>3. CASE worker.item.tries >= MaxTries
  <2>1. worker' = Waiting
    BY <1>3 DEF Retry
  <2>2. rounds[Held] = MaxTries + 1
    BY <1>1, <1>2, <1>3 DEF MaxTries
  <2>3. QED  BY <1>1, <1>2, <2>1, <2>2, LetGo
<1>4. CASE ~(worker.item.tries >= MaxTries)
  <2>1. worker' = [worker EXCEPT !.step = "sleep", !.item.tries = n, !.sleep = Backoff(n)]
    BY <1>4 DEF Retry
  <2> DEFINE item == [worker.item EXCEPT !.tries = n]
  <2>2. item \in AnyItem /\ item.tries = n /\ item.msg = Held
    BY <1>1 DEF AnyItem, Held
  <2>3. /\ DOMAIN worker' = DOMAIN worker /\ worker'.step = "sleep" /\ worker'.item = item
        /\ worker'.chans = worker.chans /\ worker'.answer = worker.answer
    BY <1>1, <2>1 DEF IsWorker
  <2> HIDE DEF item, n
  <2>4. Busy' /\ ~Known' /\ Held' = Held
    BY <2>2, <2>3 DEF Busy, Known, Held
  <2>5. TypeOK'
    BY <1>1, <2>2, <2>3, <2>4 DEF IInv, TypeOK, IsWorker, Steps
  <2>6. n <= MaxTries
    BY <1>1, <1>4 DEF n, MaxTries
  <2>7. QED  BY <1>1, <1>2, <2>2, <2>3, <2>4, <2>5, <2>6, InHand
<1>5. QED  BY <1>3, <1>4

LEMMA RecordKeeps == ASSUME IInv, Record PROVE IInv'
<1>1. /\ worker.step = "record" /\ Busy /\ IsWorker(worker) /\ Held \in Messages
      /\ UNCHANGED <<provider, marks, queue, rounds, delivered, lost, crashes>>
      /\ delivered \in [Messages -> Nat] /\ sentRows \in [Messages -> Nat] /\ lost \in Nat
  BY DEF Record, Busy, IInv, TypeOK, daybook, outside
<1>2. /\ sentRows' \in [Messages -> Nat]
      /\ \A m \in Messages \ {Held} : sentRows'[m] = sentRows[m]
      /\ sentRows'[Held] \in {sentRows[Held], sentRows[Held] + 1}
      /\ worker.answer # "ok" => sentRows'[Held] = sentRows[Held]
  <2>1. PICK status \in {"sent", "failed"} :
            Recorded(status) /\ (status = "sent" <=> worker.answer = "ok")
    BY DEF Record
  <2>2. QED  BY <1>1, <2>1, RecordedIs DEF IInv
<1>3. CASE worker.answer = "ok" /\ worker' = Waiting
  <2>1. sentRows[Held] < delivered[Held]
    BY <1>1, <1>3 DEF IInv, Unsent, Known
  <2>2. sentRows[Held] \in Nat /\ delivered[Held] \in Nat
    BY <1>1
  <2>3. sentRows'[Held] <= delivered[Held] /\ delivered[Held] > 0
    BY <1>2, <2>1, <2>2
  <2>4. QED  BY <1>1, <1>2, <1>3, <2>3, LetGo
<1>4. CASE /\ worker.answer = "not-configured" /\ Len(worker.chans) > 1
           /\ worker' = [worker EXCEPT !.step = "send", !.chans = Tail(worker.chans)]
  <2>1. worker.chans \in Seq(ChannelNames) /\ Len(worker.chans) \in Nat
    BY <1>1 DEF IsWorker
  <2>2. Tail(worker.chans) \in Seq(ChannelNames) /\ Tail(worker.chans) # <<>>
    <3>1. worker.chans # <<>>
      BY <1>1 DEF IInv, TypeOK
    <3>2. Tail(worker.chans) \in Seq(ChannelNames) /\ Len(Tail(worker.chans)) = Len(worker.chans) - 1
      BY <2>1, <3>1, HeadTailProperties
    <3>3. Len(Tail(worker.chans)) # 0
      <4> DEFINE length == Len(worker.chans)
      <4>1. length \in Nat /\ length > 1
        BY <1>4, <2>1
      <4> HIDE DEF length
      <4>2. length - 1 # 0
        BY <4>1
      <4>3. QED  BY <3>2, <4>2 DEF length
    <3>4. QED  BY <3>2, <3>3, EmptySeq
  <2>3. /\ DOMAIN worker' = DOMAIN worker /\ worker'.step = "send"
        /\ worker'.item = worker.item /\ worker'.answer = worker.answer
        /\ worker'.chans = Tail(worker.chans)
    BY <1>1, <1>4 DEF IsWorker
  <2>4. Busy' /\ ~Known' /\ Held' = Held /\ ~Known
    BY <1>4, <2>3 DEF Busy, Known, Held
  <2>5. TypeOK'
    BY <1>1, <1>2, <2>2, <2>3, <2>4 DEF IInv, TypeOK, IsWorker, Steps
  <2>6. /\ worker.item.tries <= MaxTries /\ rounds[Held] = worker.item.tries + 1
        /\ delivered[Held] <= lost /\ sentRows[Held] <= delivered[Held]
        /\ delivered[Held] <= 1 + lost
    BY <1>1, <2>4 DEF IInv, Rounds, Unsent, SentOnce
  <2>7. sentRows'[Held] = sentRows[Held]
    BY <1>2, <1>4
  <2>8. QED  BY <1>1, <1>2, <2>3, <2>4, <2>5, <2>6, <2>7, InHand
<1>5. CASE worker.answer # "ok" /\ Retry
  <2>1. sentRows' = sentRows
    BY <1>1, <1>2, <1>5
  <2>2. QED  BY <1>1, <1>5, <2>1, RetryKeeps
<1>6. QED  BY <1>3, <1>4, <1>5 DEF Record

-----------------------------------------------------------------------------
(* The queue.                                                              *)

LEMMA DispatchedAre == Dispatched \subseteq Messages
BY DEF Dispatched

\* The message that was first in the queue is in the worker's hands.
LEMMA GetKeeps == ASSUME IInv, Get PROVE IInv'
<1> DEFINE item == Head(queue)
<1>1. /\ worker.step = "idle" /\ queue \in Seq(Item) /\ queue # <<>> /\ IsWorker(worker)
      /\ queue' = Tail(queue)
      /\ UNCHANGED <<provider, marks, sentRows, delivered, lost, crashes>>
      /\ rounds' = [rounds EXCEPT ![item.msg] = @ + 1]
      /\ worker' = [worker EXCEPT !.step = "send", !.item = item, !.chans = Channels(item.msg)]
  BY DEF Get, IInv, TypeOK, daybook, record, outside
<1>2. /\ item = queue[1] /\ 1 \in DOMAIN queue /\ item \in Item
      /\ queue' \in Seq(Item)
      /\ \A i \in DOMAIN queue' : i + 1 \in DOMAIN queue /\ queue'[i] = queue[i + 1]
                                   /\ i + 1 # 1 /\ i \in Nat
      /\ \A i \in DOMAIN queue : i = 1 \/ \E j \in DOMAIN queue' : i = j + 1
  <2>1. /\ item = queue[1] /\ item \in Item /\ Len(queue) \in Nat /\ Len(queue) # 0
        /\ DOMAIN queue = 1..Len(queue)
    BY <1>1, EmptySeq
  <2>2. /\ queue' \in Seq(Item) /\ Len(queue') = Len(queue) - 1
        /\ \A i \in 1..Len(queue') : queue'[i] = queue[i + 1]
    BY <1>1, HeadTailProperties
  <2>3. DOMAIN queue' = 1..Len(queue')
    BY <2>2
  <2> HIDE DEF item
  <2>4. 1 \in DOMAIN queue
    BY <2>1
  <2>5. ASSUME NEW i \in DOMAIN queue'
        PROVE  i + 1 \in DOMAIN queue /\ queue'[i] = queue[i + 1] /\ i + 1 # 1 /\ i \in Nat
    BY <2>1, <2>2, <2>3
  <2>6. ASSUME NEW i \in DOMAIN queue, i # 1 PROVE \E j \in DOMAIN queue' : i = j + 1
    <3>1. i - 1 \in DOMAIN queue' /\ i = (i - 1) + 1
      BY <2>1, <2>2, <2>3, <2>6
    <3>2. QED  BY <3>1
  <2>7. QED  BY <2>1, <2>2, <2>4, <2>5, <2>6
<1>3. Channels(item.msg) \in Seq(ChannelNames) /\ Channels(item.msg) # <<>>
  <2>1. <<"whatsapp", "sms", "email">> \in Seq(ChannelNames)
        /\ <<"whatsapp", "sms", "email">> # <<>>
    BY DEF ChannelNames
  <2>2. <<"email">> \in Seq(ChannelNames) /\ <<"email">> # <<>>
    BY DEF ChannelNames
  <2>3. QED  BY <2>1, <2>2 DEF Channels
<1>4. item \in AnyItem /\ item.msg \in Messages /\ item.tries \in Nat
  BY <1>2 DEF Item, AnyItem
<1> HIDE DEF item
<1>5. /\ DOMAIN worker' = DOMAIN worker /\ worker'.step = "send" /\ worker'.item = item
      /\ worker'.answer = worker.answer /\ worker'.chans = Channels(item.msg)
  BY <1>1 DEF IsWorker
<1>6. Busy' /\ Held' = item.msg /\ ~Known' /\ ~Busy
  BY <1>1, <1>5 DEF Busy, Held, Known
<1>7. /\ rounds' \in [Messages -> Nat] /\ rounds'[item.msg] = rounds[item.msg] + 1
      /\ \A m \in Messages \ {item.msg} : rounds'[m] = rounds[m]
      /\ item.msg \in Dispatched /\ Dispatched' = Dispatched
      /\ \A i \in DOMAIN queue' : queue'[i].msg # item.msg /\ queue'[i].msg \in Messages
  <2>1. \A i \in DOMAIN queue' : queue'[i].msg # item.msg
    BY <1>2 DEF IInv, OnePlace
  <2>2. \A i \in DOMAIN queue : queue[i].msg \in Dispatched
    BY DEF IInv, OnePlace
  <2>3. Dispatched' = Dispatched
    BY <1>1 DEF Dispatched
  <2>4. QED  BY <1>1, <1>2, <1>4, <2>1, <2>2, <2>3, DispatchedAre DEF IInv, TypeOK
<1>8. TypeOK'
  BY <1>1, <1>2, <1>3, <1>4, <1>5, <1>6, <1>7 DEF IInv, TypeOK, IsWorker, Steps
<1>9. OnePlace'
  BY <1>2, <1>6, <1>7 DEF IInv, OnePlace
<1>10. Rounds'
  <2>1. rounds[item.msg] = item.tries /\ item.tries <= MaxTries
    BY <1>2 DEF IInv, Rounds
  <2>2. \A i \in DOMAIN queue' : rounds'[queue'[i].msg] = queue'[i].tries
                                 /\ queue'[i].tries <= MaxTries
    BY <1>2, <1>7 DEF IInv, Rounds
  <2>3. QED  BY <1>5, <1>6, <1>7, <2>1, <2>2 DEF Rounds
<1>11. Unsent'
  BY <1>1, <1>2, <1>6 DEF IInv, Unsent
<1>12. Fresh' /\ SentOnce'
  BY <1>1, <1>7 DEF IInv, Fresh, SentOnce
<1>13. NothingForgotten'
  <2>1. ASSUME NEW m \in Dispatched
        PROVE  delivered[m] > 0 \/ Settled(m)' \/ Queued(m)' # Holds(m)' \/ crashes > 0
    <3>1. Holds(m)' <=> m = item.msg
      BY <1>5 DEF Holds
    <3>2. Holds(m) = FALSE
      BY <1>1 DEF Holds
    <3>3. CASE m = item.msg
      BY <1>7, <3>1, <3>3 DEF Queued
    <3>4. CASE m # item.msg
      <4>1. Queued(m)' <=> Queued(m)
        BY <1>2, <3>4 DEF Queued
      <4>2. Settled(m)' <=> Settled(m)
        BY <1>1, <1>7, <3>1, <3>2, <3>4, <4>1, DispatchedAre DEF Settled, Uncallable
      <4>3. delivered[m] > 0 \/ Settled(m) \/ Queued(m) \/ crashes > 0
        <5>1. delivered[m] > 0 \/ Settled(m) \/ Queued(m) # Holds(m) \/ crashes > 0
          BY DEF IInv, NothingForgotten
        <5>2. Queued(m) # Holds(m) => Queued(m)
          BY <3>2 DEF Queued
        <5>3. QED  BY <5>1, <5>2
      <4>4. CASE Queued(m)
        BY <3>1, <3>4, <4>1, <4>4
      <4>5. QED  BY <4>2, <4>3, <4>4
    <3>5. QED  BY <3>3, <3>4
  <2>2. QED  BY <1>1, <1>7, <2>1 DEF NothingForgotten
<1>14. QED  BY <1>8, <1>9, <1>10, <1>11, <1>12, <1>13 DEF IInv
\* The message is put back, at the tail.
LEMMA RequeueKeeps == ASSUME IInv, Requeue PROVE IInv'
<1> DEFINE item == worker.item
           last == Len(queue) + 1
<1>1. /\ worker.step = "sleep" /\ Busy /\ ~Known /\ Held \in Messages /\ Held = item.msg
      /\ IsWorker(worker) /\ queue \in Seq(Item) /\ queue' = Append(queue, item)
      /\ worker' = Waiting
      /\ UNCHANGED <<provider, marks, rounds, sentRows, delivered, lost, crashes>>
  BY DEF Requeue, Busy, Known, Held, IInv, TypeOK, daybook, record, outside
<1>2. item \in Item
  BY <1>1 DEF IsWorker, AnyItem, Item
<1>3. IsWorker(worker') /\ worker'.step = "idle" /\ ~Busy' /\ ~Known'
  BY <1>1, WaitingIs DEF Busy, Known
<1> HIDE DEF item
<1>4. /\ queue' \in Seq(Item) /\ last \in DOMAIN queue' /\ queue'[last] = item
      /\ \A i \in DOMAIN queue' : i = last \/ i \in DOMAIN queue
      /\ \A i \in DOMAIN queue : i \in DOMAIN queue' /\ queue'[i] = queue[i] /\ i # last
  <2>1. /\ queue' \in Seq(Item) /\ Len(queue') = Len(queue) + 1
        /\ \A i \in 1..Len(queue) : queue'[i] = queue[i]
        /\ queue'[Len(queue) + 1] = item
    BY <1>1, <1>2, AppendProperties
  <2>2. DOMAIN queue' = 1..Len(queue') /\ DOMAIN queue = 1..Len(queue) /\ Len(queue) \in Nat
    BY <1>1, <2>1
  <2>3. QED  BY <2>1, <2>2
<1> HIDE DEF last
<1>5. /\ Held \in Dispatched /\ Dispatched' = Dispatched
      /\ \A i \in DOMAIN queue : queue[i].msg # Held
      /\ rounds[Held] = item.tries /\ item.tries <= MaxTries /\ delivered[Held] <= lost
  BY <1>1 DEF IInv, OnePlace, Rounds, Unsent, Dispatched, item
<1>6. TypeOK'
  BY <1>1, <1>3, <1>4 DEF IInv, TypeOK
<1>7. OnePlace'
  <2>1. ASSUME NEW i \in DOMAIN queue', NEW j \in DOMAIN queue', queue'[i].msg = queue'[j].msg
        PROVE  i = j
    BY <1>1, <1>4, <1>5, <2>1 DEF IInv, OnePlace
  <2>2. \A i \in DOMAIN queue' : queue'[i].msg \in Dispatched
    BY <1>1, <1>4, <1>5 DEF IInv, OnePlace
  <2>3. QED  BY <1>3, <1>5, <2>1, <2>2 DEF OnePlace
<1>8. Rounds'
  <2>1. \A i \in DOMAIN queue' : rounds[queue'[i].msg] = queue'[i].tries
                                 /\ queue'[i].tries <= MaxTries
    BY <1>1, <1>4, <1>5 DEF IInv, Rounds
  <2>2. QED  BY <1>1, <1>3, <2>1 DEF Rounds, Busy
<1>9. Unsent'
  <2>1. \A i \in DOMAIN queue' : delivered[queue'[i].msg] <= lost
    BY <1>1, <1>4, <1>5 DEF IInv, Unsent
  <2>2. QED  BY <1>1, <1>3, <2>1 DEF Unsent
<1>10. Fresh' /\ SentOnce'
  BY <1>1, <1>5 DEF IInv, Fresh, SentOnce
<1>11. NothingForgotten'
  <2>1. ASSUME NEW m \in Dispatched
        PROVE  delivered[m] > 0 \/ Settled(m)' \/ Queued(m)' # Holds(m)' \/ crashes > 0
    <3>1. Holds(m)' = FALSE
      BY <1>3 DEF Holds
    <3>2. CASE m = Held
      <4>1. Queued(m)'
        BY <1>1, <1>4, <3>2 DEF Queued
      <4>2. QED  BY <3>1, <4>1
    <3>3. CASE m # Held
      <4>1. Queued(m)' <=> Queued(m)
        BY <1>1, <1>4, <3>3 DEF Queued
      <4>2. Holds(m) = FALSE
        BY <3>3 DEF Holds, Held
      <4>3. Settled(m)' <=> Settled(m)
        BY <1>1, <3>1, <4>1, <4>2 DEF Settled, Uncallable
      <4>4. delivered[m] > 0 \/ Settled(m) \/ Queued(m) # Holds(m) \/ crashes > 0
        BY DEF IInv, NothingForgotten
      <4>5. Queued(m) # Holds(m) => Queued(m)
        BY <4>2 DEF Queued
      <4>6. Queued(m)' => Queued(m)' # Holds(m)'
        BY <3>1
      <4>7. QED  BY <4>1, <4>3, <4>4, <4>5, <4>6
    <3>4. QED  BY <3>2, <3>3
  <2>2. QED  BY <1>1, <1>5, <2>1 DEF NothingForgotten
<1>12. QED  BY <1>6, <1>7, <1>8, <1>9, <1>10, <1>11 DEF IInv

\* Time passes: only the timers change.
LEMMA TickKeeps == ASSUME IInv, Tick PROVE IInv'
<1>1. /\ UNCHANGED <<provider, marks, queue, rounds, sentRows, delivered, lost, crashes>>
      /\ DOMAIN worker' = DOMAIN worker /\ worker'.step = worker.step
      /\ worker'.item = worker.item /\ worker'.chans = worker.chans
      /\ worker'.answer = worker.answer
  BY DEF Tick, record, IInv, TypeOK, IsWorker
<1>2. Busy' = Busy /\ Held' = Held /\ Known' = Known
  BY <1>1 DEF Busy, Held, Known
<1>3. TypeOK'
  BY <1>1, <1>2 DEF IInv, TypeOK, IsWorker
<1>4. OnePlace' /\ Rounds' /\ Unsent' /\ Fresh' /\ SentOnce'
  BY <1>1, <1>2 DEF IInv, OnePlace, Rounds, Unsent, Fresh, SentOnce, Dispatched
<1>5. NothingForgotten'
  <2>1. Dispatched' = Dispatched /\ Uncallable' = Uncallable
    BY <1>1 DEF Dispatched, Uncallable
  <2>2. ASSUME NEW m PROVE Queued(m)' = Queued(m) /\ Holds(m)' = Holds(m)
    BY <1>1 DEF Queued, Holds
  <2>3. ASSUME NEW m PROVE Settled(m)' = Settled(m)
    BY <1>1, <2>1, <2>2 DEF Settled
  <2>4. QED  BY <1>1, <2>1, <2>2, <2>3 DEF IInv, NothingForgotten
<1>6. QED  BY <1>3, <1>4, <1>5 DEF IInv

\* The process ends, and its queue with it.
LEMMA CrashKeeps == ASSUME IInv, Crash PROVE IInv'
<1>1. /\ queue' = <<>> /\ queue' \in Seq(Item) /\ DOMAIN queue' = {} /\ worker' = Nobody
      /\ crashes' = crashes + 1 /\ crashes \in Nat
      /\ UNCHANGED <<provider, marks, rounds, sentRows, delivered, lost>>
  BY DEF Crash, daybook, record, outside, IInv, TypeOK
<1>2. IsWorker(worker') /\ worker'.step = "none" /\ ~Busy' /\ ~Known'
  BY <1>1, WaitingIs DEF Busy, Known
<1>3. TypeOK'
  BY <1>1, <1>2 DEF IInv, TypeOK
<1>4. OnePlace' /\ Rounds' /\ Unsent'
  BY <1>1, <1>2 DEF OnePlace, Rounds, Unsent, Busy
<1>5. Fresh' /\ SentOnce'
  BY <1>1 DEF IInv, Fresh, SentOnce, Dispatched
<1>6. crashes' > 0
  BY <1>1
<1>7. QED  BY <1>3, <1>4, <1>5, <1>6 DEF IInv, NothingForgotten

\* The messages of a mark are new.
LEMMA MarkKeeps == ASSUME IInv, Mark PROVE IInv'
<1> DEFINE n == Len(queue)
           added == [i \in DOMAIN Targets |-> [msg |-> <<marks', i>>, tries |-> 0]]
           News == {<<marks', i>> : i \in DOMAIN Targets}
<1>1. /\ marks \in Nat /\ marks < MaxMarks /\ marks' = marks + 1 /\ marks' \in 1..MaxMarks
      /\ queue \in Seq(Item) /\ queue' = queue \o added /\ IsWorker(worker)
      /\ worker' = IF worker.step = "none" THEN Waiting ELSE worker
      /\ UNCHANGED <<provider, rounds, sentRows, delivered, lost, crashes>>
  BY MarksAssumption DEF Mark, record, outside, IInv, TypeOK
<1>2. /\ News \subseteq Messages /\ News \cap Dispatched = {}
      /\ Dispatched' = Dispatched \cup News
  <2>1. News \subseteq Messages
    BY <1>1 DEF Messages
  <2>2. \A m \in Dispatched : m[1] \in Nat /\ m[1] <= marks
    BY DEF Dispatched, Messages
  <2>3. News \cap Dispatched = {}
    BY <1>1, <2>2
  <2>4. ASSUME NEW m \in Messages, m[1] <= marks' PROVE m \in Dispatched \cup News
    <3>1. PICK d \in 1..MaxMarks, i \in DOMAIN Targets : m = <<d, i>>
      BY DEF Messages
    <3>2. d <= marks \/ d = marks'
      BY <1>1, <2>4, <3>1
    <3>3. QED  BY <3>1, <3>2 DEF Dispatched
  <2>5. ASSUME NEW m \in Dispatched PROVE m[1] <= marks'
    BY <1>1, <2>2
  <2>6. \A m \in News : m[1] <= marks'
    BY <1>1
  <2>7. QED  BY <2>1, <2>3, <2>4, <2>5, <2>6 DEF Dispatched
<1>3. \A m \in News : delivered[m] = 0 /\ rounds[m] = 0
  BY <1>2 DEF IInv, Fresh
<1>4. /\ queue' \in Seq(Item)
      /\ \A i \in DOMAIN queue : i \in DOMAIN queue' /\ queue'[i] = queue[i]
      /\ \A i \in DOMAIN queue' :
            \/ i \in DOMAIN queue
            \/ i - n \in DOMAIN Targets /\ queue'[i] = added[i - n] /\ i \in Int
      /\ \A k \in DOMAIN Targets : \E i \in DOMAIN queue' : queue'[i] = added[k]
      /\ n \in Nat
  <2>1. /\ n \in Nat /\ DOMAIN queue = 1..n
        /\ Len(Targets) \in Nat /\ DOMAIN Targets = 1..Len(Targets)
    BY <1>1, TargetsAssumption, LenProperties DEF TargetsAssumption
  <2>2. added \in Seq(Item) /\ Len(added) = Len(Targets)
    <3>1. \A i \in 1..Len(Targets) : added[i] \in Item
      BY <1>2, <2>1 DEF Item
    <3>2. added \in [1..Len(Targets) -> Item]
      BY <2>1, <3>1
    <3> HIDE DEF added
    <3>3. QED  BY <2>1, <3>2
  <2> HIDE DEF added
  <2>3. /\ queue' \in Seq(Item) /\ Len(queue') = n + Len(Targets)
        /\ \A i \in 1..(n + Len(Targets)) :
              queue'[i] = IF i <= n THEN queue[i] ELSE added[i - n]
    <3>1. /\ queue \o added \in Seq(Item) /\ Len(queue \o added) = Len(queue) + Len(added)
          /\ \A i \in 1..(Len(queue) + Len(added)) :
                (queue \o added)[i] = IF i <= Len(queue) THEN queue[i] ELSE added[i - Len(queue)]
      BY <1>1, <2>2, ConcatProperties
    <3>2. QED  BY <1>1, <2>2, <3>1
  <2>4. DOMAIN queue' = 1..(n + Len(Targets))
    BY <2>1, <2>3
  <2> HIDE DEF n
  <2>5. ASSUME NEW i \in DOMAIN queue PROVE i \in DOMAIN queue' /\ queue'[i] = queue[i]
    BY <2>1, <2>3, <2>4
  <2>6. ASSUME NEW i \in DOMAIN queue', i \notin DOMAIN queue
        PROVE  i - n \in DOMAIN Targets /\ queue'[i] = added[i - n] /\ i \in Int
    BY <2>1, <2>3, <2>4, <2>6
  <2>7. ASSUME NEW k \in DOMAIN Targets PROVE \E i \in DOMAIN queue' : queue'[i] = added[k]
    <3>1. n + k \in DOMAIN queue' /\ ~(n + k <= n) /\ (n + k) - n = k
      BY <2>1, <2>4
    <3>2. queue'[n + k] = added[k]
      BY <2>3, <2>4, <3>1
    <3>3. QED  BY <3>1, <3>2
  <2>8. QED  BY <2>1, <2>3, <2>5, <2>6, <2>7
<1>5. \A k \in DOMAIN Targets : added[k].msg = <<marks', k>> /\ added[k].msg \in News
                                /\ added[k].tries = 0
  OBVIOUS
<1> HIDE DEF added, n, News
<1>6. /\ IsWorker(worker') /\ Busy' = Busy /\ Known' = Known
      /\ Busy => worker' = worker
      /\ \A m : Holds(m)' = Holds(m)
  <2>1. CASE worker.step = "none"
    BY <1>1, <2>1, WaitingIs DEF Busy, Known, Holds
  <2>2. CASE worker.step # "none"
    BY <1>1, <2>2 DEF Busy, Known, Holds
  <2>3. QED  BY <2>1, <2>2
<1>7. TypeOK'
  BY <1>1, <1>4, <1>6 DEF IInv, TypeOK, Busy, Held
<1>8. OnePlace'
  <2>1. ASSUME NEW i \in DOMAIN queue', NEW j \in DOMAIN queue', queue'[i].msg = queue'[j].msg
        PROVE  i = j
    <3>1. \A k \in DOMAIN queue : queue[k].msg \in Dispatched
      BY DEF IInv, OnePlace
    <3>2. CASE i \in DOMAIN queue /\ j \in DOMAIN queue
      BY <1>4, <2>1, <3>2 DEF IInv, OnePlace
    <3>3. CASE i \in DOMAIN queue /\ j \notin DOMAIN queue
      BY <1>2, <1>4, <1>5, <2>1, <3>1, <3>3
    <3>4. CASE i \notin DOMAIN queue /\ j \in DOMAIN queue
      BY <1>2, <1>4, <1>5, <2>1, <3>1, <3>4
    <3>5. CASE i \notin DOMAIN queue /\ j \notin DOMAIN queue
      <4>1. /\ i - n \in DOMAIN Targets /\ queue'[i].msg = <<marks', i - n>> /\ i \in Int
            /\ j - n \in DOMAIN Targets /\ queue'[j].msg = <<marks', j - n>> /\ j \in Int
        BY <1>4, <1>5, <3>5
      <4>2. <<marks', i - n>> = <<marks', j - n>>
        BY <2>1, <4>1
      <4>3. i - n = j - n
        BY <4>2
      <4>4. QED  BY <1>4, <4>1, <4>3
    <3>6. QED  BY <3>2, <3>3, <3>4, <3>5
  <2>2. \A i \in DOMAIN queue' : queue'[i].msg \in Dispatched'
    BY <1>2, <1>4, <1>5 DEF IInv, OnePlace
  <2>3. Busy' => Held' \in Dispatched' /\ \A i \in DOMAIN queue' : queue'[i].msg # Held'
    <3>1. SUFFICES ASSUME Busy
                   PROVE  Held \in Dispatched' /\ \A i \in DOMAIN queue' : queue'[i].msg # Held
      BY <1>6 DEF Held
    <3>2. Held \in Dispatched /\ \A i \in DOMAIN queue : queue[i].msg # Held
      BY <3>1 DEF IInv, OnePlace
    <3>3. QED  BY <1>2, <1>4, <1>5, <3>2
  <2>4. QED  BY <2>1, <2>2, <2>3 DEF OnePlace
<1>9. Rounds'
  <2>1. \A i \in DOMAIN queue' : rounds[queue'[i].msg] = queue'[i].tries
                                 /\ queue'[i].tries <= MaxTries
    BY <1>3, <1>4, <1>5 DEF IInv, Rounds, MaxTries
  <2>2. QED  BY <1>1, <1>6, <2>1, WaitingIs DEF IInv, Rounds, Held
<1>10. Unsent'
  <2>1. \A i \in DOMAIN queue' : delivered[queue'[i].msg] <= lost
    <3>1. \A i \in DOMAIN queue : delivered[queue[i].msg] <= lost
      BY DEF IInv, Unsent
    <3>2. \A m \in News : delivered[m] = 0
      BY <1>3
    <3>3. lost \in Nat
      BY DEF IInv, TypeOK
    <3>4. ASSUME NEW i \in DOMAIN queue', i \notin DOMAIN queue
          PROVE  delivered[queue'[i].msg] = 0
      BY <1>4, <1>5, <3>2, <3>4
    <3>5. ASSUME NEW i \in DOMAIN queue PROVE queue'[i] = queue[i]
      BY <1>4
    <3>6. ASSUME NEW i \in DOMAIN queue' PROVE delivered[queue'[i].msg] <= lost
      <4>1. CASE i \in DOMAIN queue  BY <3>1, <3>5, <4>1
      <4>2. CASE i \notin DOMAIN queue  BY <3>3, <3>4, <4>2
      <4>3. QED  BY <4>1, <4>2
    <3>7. QED  BY <3>6
  <2>2. Known => Busy
    BY DEF Known, Busy
  <2>3. QED  BY <1>1, <1>6, <2>1, <2>2 DEF IInv, Unsent, Held
<1>11. Fresh' /\ SentOnce'
  BY <1>1, <1>2 DEF IInv, Fresh, SentOnce
<1>12. NothingForgotten'
  <2>1. ASSUME NEW m \in Dispatched
        PROVE  delivered[m] > 0 \/ Settled(m)' \/ Queued(m)' # Holds(m)' \/ crashes > 0
    <3>1. Queued(m)' = Queued(m)
      BY <1>2, <1>4, <1>5 DEF Queued
    <3>2. Holds(m)' = Holds(m)
      BY <1>6
    <3>3. Settled(m)' = Settled(m)
      BY <1>1, <3>1, <3>2 DEF Settled, Uncallable
    <3>4. QED  BY <3>1, <3>2, <3>3 DEF IInv, NothingForgotten
  <2>2. ASSUME NEW m \in News PROVE Queued(m)' # Holds(m)'
    <3>1. Queued(m)'
      <4>1. PICK k \in DOMAIN Targets : m = <<marks', k>>
        BY DEF News
      <4>2. QED  BY <1>4, <1>5, <4>1 DEF Queued
    <3>2. Holds(m)' = FALSE
      BY <1>2, <1>6, Holding DEF IInv, OnePlace
    <3>3. QED  BY <3>1, <3>2
  <2>3. QED  BY <1>1, <1>2, <2>1, <2>2 DEF NothingForgotten
<1>13. QED  BY <1>7, <1>8, <1>9, <1>10, <1>11, <1>12 DEF IInv

-----------------------------------------------------------------------------
LEMMA NextIInv == IInv /\ [Next]_vars => IInv'
<1> SUFFICES ASSUME IInv, [Next]_vars PROVE IInv'  OBVIOUS
<1>1. CASE UNCHANGED vars
  <2>1. /\ TypeOK' = TypeOK /\ OnePlace' = OnePlace /\ Rounds' = Rounds /\ Unsent' = Unsent
        /\ Fresh' = Fresh /\ SentOnce' = SentOnce
    BY <1>1 DEF vars, TypeOK, OnePlace, Rounds, Unsent, Fresh, SentOnce, IsWorker, Busy,
                Held, Known, Dispatched
  <2>2. NothingForgotten' = NothingForgotten
    BY <1>1 DEF vars, NothingForgotten, Dispatched, Settled, Queued, Holds, Uncallable
  <2>3. QED  BY <2>1, <2>2 DEF IInv
<1>2. CASE Tick  BY <1>2, TickKeeps
<1>3. CASE Mark  BY <1>3, MarkKeeps
<1>4. CASE Get  BY <1>4, GetKeeps
<1>5. CASE Send  BY <1>5, SendKeeps
<1>6. CASE Record  BY <1>6, RecordKeeps
<1>7. CASE Requeue  BY <1>7, RequeueKeeps
<1>8. CASE Crash  BY <1>8, CrashKeeps
<1>9. QED  BY <1>1, <1>2, <1>3, <1>4, <1>5, <1>6, <1>7, <1>8 DEF Next, Work

LEMMA IInvHolds == Spec => []IInv
<1>1. QED  BY InitIInv, NextIInv, PTL DEF Spec

\* notify.py's retry repeats no message that is known to have been sent: it is
\* delivered once, and once more for each answer lost, whatever the contacts, the
\* providers and the order of failures.
THEOREM SentAtMostOnce == Spec => []SentOnce
<1>1. IInv => SentOnce
  BY DEF IInv
<1>2. QED  BY <1>1, IInvHolds, PTL

\* A message that did not reach its recipient is queued or in the worker's hands,
\* not both, until its fourth round is over, a setting made a send raise, or the
\* process ended.
THEOREM NothingIsForgotten == Spec => []NothingForgotten
<1>1. IInv => NothingForgotten
  BY DEF IInv
<1>2. QED  BY <1>1, IInvHolds, PTL
============================================================================
