---------------------------- MODULE NotifyQueue ----------------------------
(***************************************************************************)
(* notify.py in one process: attendance marks queue messages, one daemon   *)
(* thread (_worker_loop) takes them from the queue, tries the channels of  *)
(* each (_send_now), writes a row of the table notifications per channel,  *)
(* and puts a failed message back at the tail after 2, 4 and 8 seconds.    *)
(* The queue lives in memory only.                                         *)
(*                                                                         *)
(* A Tick is two seconds.  All timers are relative and stop at the value   *)
(* beyond which the code does not look at them, so time has no bound.      *)
(***************************************************************************)
EXTENDS Integers, Sequences, FiniteSets

CONSTANTS Targets,   \* contacts of the person: a sequence of [channel, to]
          Providers, \* settings: [channel -> "off" | "on" | "bad"]; bad: smtp_port
                     \* is no number
          MarkGap,   \* ticks between two marks of a face (CROWD_MARK_COOLDOWN)
          MaxMarks,   \* bound: marks
          MaxRefused, \* bound: sends a provider turns down
          MaxLost,    \* bound: sends delivered and answered with an error
          MaxLocks,   \* bound: rows that find the database locked
          MaxCrashes  \* bound: process restarts

ASSUME TargetsAssumption ==
    /\ Targets \in Seq({Targets[i] : i \in DOMAIN Targets})
    /\ \A i \in DOMAIN Targets : Targets[i].channel \in {"email", "auto"}
ASSUME ProvidersAssumption ==
    Providers \subseteq [{"whatsapp", "sms", "email"} -> {"off", "on", "bad"}]
ASSUME MarksAssumption == MaxMarks \in Nat

VARIABLES provider,  \* the settings of this installation, one of Providers
          marks,     \* attendance marks of the person so far
          sinceMark, \* ticks since the last one
          queue,     \* _queue: [msg, tries]
          worker,    \* the daemon thread
          rounds,    \* history: times the worker took the message up
          sentRows,  \* notifications: [message -> rows with status 'sent']
          delivered, \* history: [message -> times the recipient got it]
          refused, lost, locks, crashes

vars == <<provider, marks, sinceMark, queue, worker, rounds, sentRows, delivered,
          refused, lost, locks, crashes>>
daybook == <<provider, marks, sinceMark>>
record == <<sentRows, locks>>
outside == <<delivered, refused, lost>>

Messages == (1..MaxMarks) \X DOMAIN Targets
To(m) == Targets[m[2]].to
Dispatched == {m \in Messages : m[1] <= marks}

MaxTries == 3
Backoff(tries) == 2 ^ (tries - 1)

\* seq of _send_now.
Channels(m) ==
    IF Targets[m[2]].channel = "auto" THEN <<"whatsapp", "sms", "email">> ELSE <<"email">>

Nobody == [step |-> "none", item |-> [msg |-> <<1, 1>>, tries |-> 0], chans |-> <<>>,
           answer |-> "", sleep |-> 0]
Waiting == [Nobody EXCEPT !.step = "idle"]
Holds(m) == worker.step \notin {"none", "idle"} /\ worker.item.msg = m
Queued(m) == \E i \in DOMAIN queue : queue[i].msg = m

Later(timer, limit) == IF timer < limit THEN timer + 1 ELSE limit

-----------------------------------------------------------------------------
Init ==
    /\ provider \in Providers
    /\ marks = 0 /\ sinceMark = MarkGap
    /\ queue = <<>> /\ worker = Nobody
    /\ rounds = [m \in Messages |-> 0]
    /\ sentRows = [m \in Messages |-> 0]
    /\ delivered = [m \in Messages |-> 0]
    /\ refused = 0 /\ lost = 0 /\ locks = 0 /\ crashes = 0

Tick ==
    /\ sinceMark' = Later(sinceMark, MarkGap)
    /\ worker' = [worker EXCEPT !.sleep = IF @ > 0 THEN @ - 1 ELSE 0]
    /\ UNCHANGED <<provider, marks, queue, rounds, record, delivered, refused, lost, crashes>>

\* process_frame: mark, then notify_attendance (of any event, wording aside),
\* whose dispatch starts the worker if need be and queues one message per contact.
Mark ==
    /\ sinceMark = MarkGap /\ marks < MaxMarks
    /\ marks' = marks + 1 /\ sinceMark' = 0
    /\ queue' = queue \o [i \in DOMAIN Targets |-> [msg |-> <<marks', i>>, tries |-> 0]]
    /\ worker' = IF worker.step = "none" THEN Waiting ELSE worker
    /\ UNCHANGED <<provider, rounds, record, outside, crashes>>

\* _queue.get.
Get ==
    /\ worker.step = "idle" /\ queue # <<>>
    /\ LET item == Head(queue) IN
       /\ worker' = [worker EXCEPT !.step = "send", !.item = item, !.chans = Channels(item.msg)]
       /\ rounds' = [rounds EXCEPT ![item.msg] = @ + 1]
    /\ queue' = Tail(queue)
    /\ UNCHANGED <<daybook, record, outside, crashes>>

Answered(a) == worker' = [worker EXCEPT !.step = "record", !.answer = a]
Delivered(m) == delivered' = [delivered EXCEPT ![m] = @ + 1]

\* The except of _worker_loop: the message is dropped, the worker goes on.
Raised == worker' = Waiting

\* send_email, send_sms, send_whatsapp for the first channel left.  No mail
\* server takes a telephone number for an address.
Send ==
    LET m == worker.item.msg
        chan == Head(worker.chans)
        takes == chan # "email" \/ To(m) \in {"email", "guardian_email"} IN
    /\ worker.step = "send"
    /\ \/ /\ provider[chan] = "bad"             \* int(...) raises, above the try
          /\ Raised
          /\ UNCHANGED outside
       \/ /\ provider[chan] = "off"
          /\ Answered("not-configured")
          /\ UNCHANGED outside
       \/ /\ provider[chan] = "on" /\ takes
          /\ Answered("ok") /\ Delivered(m)
          /\ UNCHANGED <<refused, lost>>
       \/ /\ provider[chan] = "on" /\ takes
          /\ lost < MaxLost /\ lost' = lost + 1
          /\ Answered("error") /\ Delivered(m)
          /\ UNCHANGED refused
       \/ /\ provider[chan] = "on" /\ takes
          /\ refused < MaxRefused /\ refused' = refused + 1
          /\ Answered("error")
          /\ UNCHANGED <<delivered, lost>>
       \/ /\ provider[chan] = "on" /\ ~takes
          /\ Answered("error")
          /\ UNCHANGED outside
    /\ UNCHANGED <<daybook, queue, rounds, record, crashes>>

\* _record, which swallows a locked database.
Recorded(status) ==
    LET m == worker.item.msg IN
    \/ /\ sentRows' = [sentRows EXCEPT ![m] = @ + (IF status = "sent" THEN 1 ELSE 0)]
       /\ UNCHANGED locks
    \/ /\ locks < MaxLocks /\ locks' = locks + 1
       /\ UNCHANGED sentRows

\* The message has failed: try again later, at most three times.
\* (Mutant of Retry: the message is dropped.)
RetryNot == worker' = Waiting
Retry ==
    worker' = IF worker.item.tries >= MaxTries THEN Waiting
              ELSE LET n == worker.item.tries + 1 IN
                   [worker EXCEPT !.step = "sleep", !.item.tries = n, !.sleep = Backoff(n)]

\* (Mutant of Record: a sent message is tried again.)
RecordAndRetry ==
    /\ worker.step = "record"
    /\ Recorded(IF worker.answer = "ok" THEN "sent" ELSE "failed")
    /\ Retry
    /\ UNCHANGED <<daybook, queue, rounds, outside, crashes>>
\* The rest of a turn of _send_now's loop, and of the worker's: the next
\* channel only after 'not-configured'.
Record ==
    /\ worker.step = "record"
    /\ Recorded(IF worker.answer = "ok" THEN "sent" ELSE "failed")
    /\ \/ /\ worker.answer = "ok"
          /\ worker' = Waiting
       \/ /\ worker.answer = "not-configured" /\ Len(worker.chans) > 1
          /\ worker' = [worker EXCEPT !.step = "send", !.chans = Tail(@)]
       \/ /\ worker.answer # "ok"
          /\ worker.answer = "error" \/ Len(worker.chans) = 1
          /\ Retry
    /\ UNCHANGED <<daybook, queue, rounds, outside, crashes>>

\* (Mutant of Requeue: put on a bounded queue waits for room, and for itself.)
RequeueBounded ==
    /\ worker.step = "sleep" /\ worker.sleep = 0 /\ queue = <<>>
    /\ queue' = Append(queue, worker.item)
    /\ worker' = Waiting
    /\ UNCHANGED <<daybook, rounds, record, outside, crashes>>

\* time.sleep is over: the message goes to the tail.
Requeue ==
    /\ worker.step = "sleep" /\ worker.sleep = 0
    /\ queue' = Append(queue, worker.item)
    /\ worker' = Waiting
    /\ UNCHANGED <<daybook, rounds, record, outside, crashes>>

\* The process ends; so does its daemon thread.
Crash ==
    /\ crashes < MaxCrashes /\ crashes' = crashes + 1
    /\ worker' = Nobody /\ queue' = <<>>
    /\ UNCHANGED <<daybook, rounds, record, outside>>

Work == Get \/ Send \/ Record \/ Requeue
Next == Tick \/ Mark \/ Work \/ Crash

Spec == Init /\ [][Next]_vars

\* The worker is a running thread and time passes.
FairSpec == Spec /\ WF_vars(Work) /\ WF_vars(Tick)

-----------------------------------------------------------------------------
(* Properties.                                                             *)

\* A person gets a message once, and once more at most for each answer that got
\* lost on its way: the retry never repeats what is known to have been sent.  Nor
\* does the table claim more than was delivered.
SentOnce == \A m \in Messages : sentRows[m] <= delivered[m] /\ delivered[m] <= 1 + lost

\* A setting that makes the send of a channel raise.
Uncallable == \E c \in DOMAIN provider : provider[c] = "bad"

\* Sent, or given up after the fourth round; an exception may end it before.
Settled(m) ==
    /\ ~Queued(m) /\ ~Holds(m)
    /\ delivered[m] > 0 \/ rounds[m] = MaxTries + 1 \/ Uncallable

\* A message that has not reached its recipient is in one place until it is
\* settled: it leaves the queue for no other reason than a restart.
NothingForgotten ==
    \A m \in Dispatched :
       delivered[m] > 0 \/ Settled(m) \/ Queued(m) # Holds(m) \/ crashes > 0

\* Unless the process ends, every message is settled, however the queue and its one
\* worker are shared with messages that fail, sleep and raise.
AllSettle == [](crashes = 0) => \A m \in Messages : m \in Dispatched ~> Settled(m)
=============================================================================
