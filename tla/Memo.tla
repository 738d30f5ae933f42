-------------------------------- MODULE Memo --------------------------------
(***************************************************************************)
(* infra/cache.memoize(ttl), as enterprise/analytics.py puts it around     *)
(* attrition_scores and burnout_signals: what the threads of a worker that *)
(* open the analytics page are shown, for one key of _store.               *)
(***************************************************************************)
EXTENDS Integers

CONSTANTS Readers,  \* threads that open the page
          Ttl,      \* seconds an entry is good for
          MaxTime   \* bound: seconds

VARIABLES clock,    \* time.monotonic()
          entry,    \* the key's entry of _store: [expires, read]
          reader    \* [Readers -> where each is in wrap]

mvars == <<clock, entry, reader>>

\* read is the moment the value's function read the attendance table.
NoEntry == [expires |-> 0, read |-> 0]
Idle == [step |-> "idle", began |-> 0, read |-> 0]
At(t, step) == reader[t].step = step
Go(t, to) == reader' = [reader EXCEPT ![t] = to] /\ UNCHANGED clock

Init ==
    /\ clock = 0 /\ entry = NoEntry
    /\ reader = [t \in Readers |-> Idle]

Second ==
    /\ clock < MaxTime
    /\ clock' = clock + 1
    /\ UNCHANGED <<entry, reader>>

\* now = time.monotonic(), before the lock is taken.
analytics_page(t) ==
    /\ At(t, "idle")
    /\ Go(t, [Idle EXCEPT !.step = "look", !.began = clock])
    /\ UNCHANGED entry

\* with _lock: an entry that has not expired is the answer.
Hit(t) ==
    /\ At(t, "look") /\ entry.expires > reader[t].began
    /\ Go(t, [reader[t] EXCEPT !.step = "shown", !.read = entry.read])
    /\ UNCHANGED entry
Miss(t) ==
    /\ At(t, "look") /\ ~(entry.expires > reader[t].began)
    /\ Go(t, [reader[t] EXCEPT !.step = "compute"])
    /\ UNCHANGED entry

\* val = fn(...), without the lock: several threads may be at it.
attrition_scores(t) ==
    /\ At(t, "compute")
    /\ Go(t, [reader[t] EXCEPT !.step = "store", !.read = clock])
    /\ UNCHANGED entry

\* (Mutant of Expires: the clock is read again when the value is stored.)
ExpiresFromStore(t) == clock + Ttl
Expires(t) == reader[t].began + Ttl

\* The collection of expired entries starts at 4000 keys; these two functions
\* have two.
Store(t) ==
    /\ At(t, "store")
    /\ entry' = [expires |-> Expires(t), read |-> reader[t].read]
    /\ Go(t, [reader[t] EXCEPT !.step = "shown"])

Answer(t) == At(t, "shown") /\ Go(t, Idle) /\ UNCHANGED entry

Next ==
    \/ Second
    \/ \E t \in Readers :
          \/ analytics_page(t) \/ Hit(t) \/ Miss(t) \/ attrition_scores(t)
          \/ Store(t) \/ Answer(t)

MSpec == Init /\ [][Next]_mvars

-----------------------------------------------------------------------------
\* However long the computation takes and however many threads do it at once
\* and overwrite each other's result, nobody is shown analytics of a table read
\* Ttl seconds or more before the page was asked for.
AnalyticsAreRecent ==
    \A t \in Readers : At(t, "shown") => reader[t].read > reader[t].began - Ttl
=============================================================================
