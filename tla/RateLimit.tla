----------------------------- MODULE RateLimit -----------------------------
(***************************************************************************)
(* infra/ratelimit.py in one process: _hit keeps, for each key (client and *)
(* route), a deque of the times of the hits it let through.  The clock is  *)
(* read before the lock is taken, so hits may enter a deque out of order.  *)
(***************************************************************************)
EXTENDS Integers, Sequences, FiniteSets

CONSTANTS Keys, Threads,
          Capacity, Window,  \* of each key: hits let through per seconds
          GcAfter,           \* _GC_AFTER: seconds after which a bucket is idle
          GcAt, GcScan,      \* 2000 buckets start a collection, which looks at 500
          MaxDelay,          \* longest time from reading the clock to the lock
          MaxTime            \* bound: the clock

ASSUME LimitsAssumption ==
    /\ Capacity \in [Keys -> Nat \ {0}] /\ Window \in [Keys -> Nat \ {0}]
    /\ GcAfter \in Nat /\ GcAt \in Nat /\ GcScan \in Nat
    /\ MaxDelay \in Nat /\ MaxTime \in Nat

\* 20 minutes are more than a window (a minute for every route) and twice the
\* time a thread may wait for the lock.
ASSUME GcAssumption == \A k \in Keys : Window[k] + 2 * MaxDelay <= GcAfter

VARIABLES now,
          known,    \* the keys of _buckets
          bucket,   \* [Keys -> the deque]; <<>> for a key that is not there
          calls,    \* the _hits that have read the clock: [thread, key, at]
          granted,  \* history: [Keys -> the clock readings of all hits let through]
          latest    \* history: [Keys -> the latest clock reading of a hit]

vars == <<now, known, bucket, calls, granted, latest>>

Call == [thread : Threads, key : Keys, at : Nat]

-----------------------------------------------------------------------------
Init ==
    /\ now = 0 /\ known = {}
    /\ bucket = [k \in Keys |-> <<>>]
    /\ calls = {}
    /\ granted = [k \in Keys |-> <<>>]
    /\ latest = [k \in Keys |-> 0]

Tick ==
    /\ now < MaxTime
    /\ \A c \in calls : now + 1 <= c.at + MaxDelay
    /\ now' = now + 1
    /\ UNCHANGED <<known, bucket, calls, granted, latest>>

\* time.monotonic(), before the lock.
ReadClock(t, k) ==
    /\ \A c \in calls : c.thread # t
    /\ calls' = calls \cup {[thread |-> t, key |-> k, at |-> now]}
    /\ UNCHANGED <<now, known, bucket, granted, latest>>

\* (Mutants of Expired: `<=` for `<`; nothing is dropped.)
ExpiredAt(dq, cutoff) == {i \in DOMAIN dq : \A j \in 1..i : dq[j] <= cutoff}
ExpiredNone(dq, cutoff) == {}

\* while dq and dq[0] < cutoff: dq.popleft() stops at the first live hit, even
\* if one behind it has expired.
Expired(dq, cutoff) == {i \in DOMAIN dq : \A j \in 1..i : dq[j] < cutoff}
Unexpired(dq, cutoff) == SubSeq(dq, Cardinality(Expired(dq, cutoff)) + 1, Len(dq))

Full(k, dq) == Len(dq) >= Capacity[k]

\* A bucket that a collection throws away.
IsIdle(dq, at) == dq = <<>> \/ dq[Len(dq)] < at - GcAfter

\* What the key's deque holds after the expired hits are dropped.
Left(c) == Unexpired(bucket[c.key], c.at - Window[c.key])

Return(c) ==
    /\ latest' = [latest EXCEPT ![c.key] = IF @ < c.at THEN c.at ELSE @]
    /\ calls' = calls \ {c}
    /\ UNCHANGED now

\* _hit answers False.
Refuse(c) ==
    /\ Full(c.key, Left(c))
    /\ bucket' = [bucket EXCEPT ![c.key] = Left(c)]
    /\ known' = known \cup {c.key}
    /\ UNCHANGED granted
    /\ Return(c)

\* _hit answers True; with too many buckets, some that are idle go.  (Which of
\* them come first in the dictionary is left open.)
Grant(c) ==
    LET after == [bucket EXCEPT ![c.key] = Append(Left(c), c.at)] IN
    /\ ~Full(c.key, Left(c))
    /\ granted' = [granted EXCEPT ![c.key] = Append(@, c.at)]
    /\ \E idle \in SUBSET (known \cup {c.key}) :
          /\ \A x \in idle : IsIdle(after[x], c.at)
          /\ Cardinality(idle) <= GcScan
          /\ Cardinality(known \cup {c.key}) <= GcAt => idle = {}
          /\ bucket' = [x \in Keys |-> IF x \in idle THEN <<>> ELSE after[x]]
          /\ known' = (known \cup {c.key}) \ idle
    /\ Return(c)

Next ==
    \/ Tick
    \/ \E t \in Threads, k \in Keys : ReadClock(t, k)
    \/ \E c \in calls : Refuse(c) \/ Grant(c)

Spec == Init /\ [][Next]_vars

-----------------------------------------------------------------------------
(* Properties.                                                             *)

TypeOK ==
    /\ now \in 0..MaxTime /\ known \subseteq Keys
    /\ bucket \in [Keys -> Seq(Nat)] /\ granted \in [Keys -> Seq(Nat)]
    /\ \A k \in Keys : Len(bucket[k]) <= Capacity[k]
    /\ calls \subseteq Call /\ latest \in [Keys -> Nat]

\* The hits let through in the window that ends with the latest hit.
InWindow(k) == {i \in DOMAIN granted[k] : granted[k][i] >= latest[k] - Window[k]}

\* The limit: never more than Capacity hits in a window, for threads that read
\* the clock in one order and take the lock in another, and across collections.
WithinLimit == \A k \in Keys : Cardinality(InWindow(k)) <= Capacity[k]

\* Nobody is refused who is within the limit: a refusal means that Capacity hits
\* were let through in the window before it (or in the delay of the lock before
\* that, since an expired hit may sit behind a later one).
RefusedWhenFull ==
    [][\A c \in calls :
         Refuse(c) =>
            Cardinality({i \in DOMAIN granted[c.key] :
                            granted[c.key][i] >= c.at - Window[c.key] - MaxDelay})
               >= Capacity[c.key]]_vars
=============================================================================
