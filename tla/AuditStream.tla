---------------------------- MODULE AuditStream ----------------------------
(***************************************************************************)
(* enterprise/siem.py: the rows of audit_extended go in batches to the     *)
(* sinks an admin has set up.  drain_once is run by the thread of each     *)
(* process of `python app.py` and by a button of the SIEM page.            *)
(***************************************************************************)
EXTENDS Integers, Sequences, FiniteSets, FiniteSetsExt

CONSTANTS Sinks,       \* sinks an admin may add, in the order of their names
          Drainers,    \* threads that run drain_once
          Limit,       \* rows of a batch (200)
          MaxRows,     \* bound: audit rows
          MaxFaults    \* bound: refusals, lost answers, drains cut short and
                       \* sinks deleted

ASSUME SinksAssumption ==
    Sinks \subseteq Nat /\ Limit \in Nat \ {0} /\ IsFiniteSet(Drainers)

VARIABLES rows,      \* audit_extended: ids 1..rows
          streamed,  \* ids with streamed = 1
          sinks,     \* rows of siem_sinks
          gone,      \* sinks deleted
          status,    \* last_status of a sink: "never", "ok" or "error"
          drain,     \* [Drainers -> the state of its drain_once]
          received,  \* history: [Sinks -> [id -> times it arrived there]]
          refused,   \* batches a sink turned down or that never arrived
          lost,      \* batches that arrived and whose answer was lost
          crashes    \* drains cut short

vars == <<rows, streamed, sinks, gone, status, drain, received,
          refused, lost, crashes>>
table == <<rows, streamed>>
admin == <<sinks, gone>>
network == <<received, refused, lost>>
Fault == refused + lost + crashes + Cardinality(gone) < MaxFaults

Ids == 1..MaxRows
Pending == (1..rows) \ streamed

\* The first n ids of a set (ORDER BY id LIMIT n).
FirstOf(ids, n) == {i \in ids : Cardinality({k \in ids : k <= i}) <= n}

Idle == [step |-> "idle", todo |-> {}, batch |-> {}, ok |-> FALSE, any_ok |-> FALSE]
At(t, step) == drain[t].step = step
Sink(t) == Min(drain[t].todo)   \* ORDER BY name

-----------------------------------------------------------------------------
Init ==
    /\ rows = 0 /\ streamed = {} /\ sinks = {} /\ gone = {}
    /\ status = [s \in Sinks |-> "never"]
    /\ drain = [t \in Drainers |-> Idle]
    /\ received = [s \in Sinks |-> [i \in Ids |-> 0]]
    /\ refused = 0 /\ lost = 0 /\ crashes = 0

\* audit_ext.
Audit ==
    /\ rows < MaxRows /\ rows' = rows + 1
    /\ UNCHANGED <<streamed, admin, status, drain, network, crashes>>

\* The forms of the SIEM page.
AddSink(s) ==
    /\ s \notin sinks \cup gone
    /\ sinks' = sinks \cup {s}
    /\ UNCHANGED <<table, gone, status, drain, network, crashes>>

DeleteSink(s) ==
    /\ s \in sinks /\ Fault
    /\ sinks' = sinks \ {s} /\ gone' = gone \cup {s}
    /\ UNCHANGED <<table, status, drain, network, crashes>>

\* (Mutant of ListSinks: a sink in error is not tried again.)
ListGoodSinks(t) ==
    /\ At(t, "idle")
    /\ drain' = [drain EXCEPT ![t] = [Idle EXCEPT !.step = "rows",
                    !.todo = {s \in sinks : status[s] # "error"}]]
    /\ UNCHANGED <<table, admin, status, network, crashes>>

\* list_siem_sinks.
ListSinks(t) ==
    /\ At(t, "idle")
    /\ drain' = [drain EXCEPT ![t] = [Idle EXCEPT !.step = "rows", !.todo = sinks]]
    /\ UNCHANGED <<table, admin, status, network, crashes>>

\* pending_audit_for_siem.
Batch == FirstOf(Pending, Limit)

ReadRows(t) ==
    /\ At(t, "rows")
    /\ drain' = [drain EXCEPT ![t] =
                    IF Batch = {} \/ drain[t].todo = {} THEN Idle
                    ELSE [@ EXCEPT !.step = "push", !.batch = Batch]]
    /\ UNCHANGED <<table, admin, status, network, crashes>>

Arrives(t) ==
    received' = [received EXCEPT ![Sink(t)] =
                    [i \in Ids |-> @[i] + (IF i \in drain[t].batch THEN 1 ELSE 0)]]
Answered(t, ok) == drain' = [drain EXCEPT ![t] = [@ EXCEPT !.step = "status", !.ok = ok]]

\* push_to_sink: the batch arrives and is confirmed, arrives and is not, or
\* never arrives.
Push(t) ==
    /\ At(t, "push") /\ drain[t].todo # {}
    /\ \/ /\ Arrives(t) /\ Answered(t, TRUE)
          /\ UNCHANGED <<refused, lost>>
       \/ /\ Fault /\ lost' = lost + 1
          /\ Arrives(t) /\ Answered(t, FALSE)
          /\ UNCHANGED refused
       \/ /\ Fault /\ refused' = refused + 1
          /\ Answered(t, FALSE)
          /\ UNCHANGED <<received, lost>>
    /\ UNCHANGED <<table, admin, status, crashes>>

\* (Mutant of AnyOk: the last sink decides.)
AnyOkLast(t) == drain[t].ok
AnyOk(t) == drain[t].any_ok \/ drain[t].ok

\* update_siem_sink_status (of a sink that may be gone), then the next sink.
SetStatus(t) ==
    /\ At(t, "status")
    /\ status' = [status EXCEPT ![Sink(t)] =
                    IF Sink(t) \in gone THEN @ ELSE IF drain[t].ok THEN "ok" ELSE "error"]
    /\ drain' = [drain EXCEPT ![t] = [@ EXCEPT
                    !.step = "push", !.todo = drain[t].todo \ {Sink(t)}, !.any_ok = AnyOk(t)]]
    /\ UNCHANGED <<table, admin, network, crashes>>

\* mark_audit_streamed, if any sink answered.
MarkStreamed(t) ==
    /\ At(t, "push") /\ drain[t].todo = {}
    /\ streamed' = IF drain[t].any_ok THEN streamed \cup drain[t].batch ELSE streamed
    /\ drain' = [drain EXCEPT ![t] = Idle]
    /\ UNCHANGED <<rows, admin, status, network, crashes>>

\* The process dies, or the database is locked: the drain is over.
Abort(t) ==
    /\ ~At(t, "idle")
    /\ Fault /\ crashes' = crashes + 1
    /\ drain' = [drain EXCEPT ![t] = Idle]
    /\ UNCHANGED <<table, admin, status, network>>

Drain(t) == ListSinks(t) \/ ReadRows(t) \/ Push(t) \/ SetStatus(t) \/ MarkStreamed(t)

Next ==
    \/ Audit
    \/ \E s \in Sinks : AddSink(s) \/ DeleteSink(s)
    \/ \E t \in Drainers : Drain(t) \/ Abort(t)

Spec == Init /\ [][Next]_vars

\* The threads drain every 15 seconds.
FairSpec == Spec /\ \A t \in Drainers : WF_vars(Drain(t))

-----------------------------------------------------------------------------
(* Properties.                                                             *)

\* The trail leaves without a gap: no row counts as streamed while an older one
\* is pending, however the drains overlap and fail.  And a sink gets a row once
\* for each drainer, and again only for an answer that was lost or a drain that
\* was cut short: a failing sink does not make the others get everything twice.
StreamedInOrder ==
    /\ \A i \in streamed : 1..i \subseteq streamed
    /\ \A s \in Sinks, i \in Ids : received[s][i] <= Cardinality(Drainers) + lost + crashes

\* Every row leaves as long as there is a sink that answers in the end.
EveryRowLeaves ==
    \A i \in Ids : i <= rows /\ sinks # {} ~> i \in streamed \/ sinks = {}
=============================================================================
