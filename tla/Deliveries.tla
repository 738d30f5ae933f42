----------------------------- MODULE Deliveries -----------------------------
(***************************************************************************)
(* What leaves for other systems: webhooks (restapi.dispatch_event and the *)
(* thread of each delivery) and connectors (connectors.sync_all).  Both    *)
(* read the list of receivers first, then POST to one at a time or all at  *)
(* once, and note the outcome in the receiver's row by its id, whatever    *)
(* became of that row while the other side took its time to answer.  One   *)
(* administrator synchronises the connectors at a time.                    *)
(***************************************************************************)
EXTENDS Integers, FiniteSets, FiniteSetsExt

CONSTANTS MaxRows,   \* bound: receivers ever added to a table
          MaxSent    \* bound: POSTs begun

Receivers == {"webhooks", "connectors"}

VARIABLES table,    \* both tables: [tbl, id, born, takes, status]
          seq,      \* [Receivers -> sqlite_sequence]
          flights,  \* deliveries under way: [tbl, id, born, no]
          syncing,  \* the connectors sync_all has listed and not tried yet
          born, sent,  \* history: receivers added, POSTs begun
          posted    \* history: <<receiver, no, outcome>> of the POSTs that ended

dvars == <<table, seq, flights, syncing, born, sent, posted>>

Outcomes == {"ok", "error"}
NoStatus == [no |-> 0, outcome |-> "none"]
RowsOf(t) == {r \in table : r.tbl = t}
Ids(t) == {r.id : r \in RowsOf(t)}

Init ==
    /\ table = {} /\ flights = {} /\ syncing = {} /\ posted = {}
    /\ seq = [t \in Receivers |-> 0] /\ born = 0 /\ sent = 0

\* (Mutant of NextId: INTEGER PRIMARY KEY without AUTOINCREMENT.)
NextIdReused(t) == Max(Ids(t) \cup {0}) + 1
NextId(t) == seq[t] + 1

\* takes: a webhook that subscribes to the event, a connector with an endpoint.
Add(t, takes) ==
    /\ born < MaxRows
    /\ born' = born + 1
    /\ table' = table \cup {[tbl |-> t, id |-> NextId(t), born |-> born + 1,
                           takes |-> takes, status |-> NoStatus]}
    /\ seq' = [seq EXCEPT ![t] = NextId(t)]
    /\ UNCHANGED <<flights, syncing, sent, posted>>
Delete(r) ==
    /\ r \in table
    /\ table' = table \ {r}
    /\ UNCHANGED <<seq, flights, syncing, born, sent, posted>>

\* UPDATE ... SET last_status WHERE id = ?
Note(f, status) ==
    table' = {IF r.tbl = f.tbl /\ r.id = f.id THEN [r EXCEPT !.status = status] ELSE r : r \in table}

-----------------------------------------------------------------------------
(* Webhooks.                                                               *)

webhooks_admin(takes) == Add("webhooks", takes) \/ \E r \in RowsOf("webhooks") : Delete(r)

\* A thread for each hook that takes the event; nothing can disable a hook.
dispatch_event ==
    LET hooks == {r \in RowsOf("webhooks") : r.takes} IN
    /\ hooks # {} /\ sent + Cardinality(hooks) <= MaxSent
    /\ flights' = flights \cup {[tbl |-> "webhooks", id |-> r.id, born |-> r.born,
                                 no |-> sent + Cardinality({h \in hooks : h.id <= r.id})]
                                : r \in hooks}
    /\ sent' = sent + Cardinality(hooks)
    /\ UNCHANGED <<table, seq, syncing, born, posted>>

\* The POST ends, and the UPDATE that tells of it is next.
Post(f, outcome) ==
    /\ f \in flights /\ \A p \in posted : p.no # f.no
    /\ posted' = posted \cup {[born |-> f.born, no |-> f.no, outcome |-> outcome]}
    /\ UNCHANGED <<table, seq, flights, syncing, born, sent>>
update_status(f) ==
    /\ f \in flights
    /\ \E p \in posted : p.no = f.no /\ Note(f, [no |-> f.no, outcome |-> p.outcome])
    /\ flights' = flights \ {f}
    /\ UNCHANGED <<seq, syncing, born, sent, posted>>

-----------------------------------------------------------------------------
(* Connectors.                                                             *)

connectors_admin(takes) ==
    Add("connectors", takes) \/ \E r \in RowsOf("connectors") : Delete(r)

sync_all ==
    /\ syncing = {} /\ RowsOf("connectors") # {}
    /\ \A f \in flights : f.tbl # "connectors"
    /\ syncing' = RowsOf("connectors")
    /\ UNCHANGED <<table, seq, flights, born, sent, posted>>
\* In the order of their names, which is any order; without an endpoint, or when
\* payroll.compute raises, the status stays what it was.
sync_one(r) ==
    /\ r \in syncing /\ \A f \in flights : f.tbl # "connectors"
    /\ syncing' = syncing \ {r}
    /\ \/ /\ r.takes /\ sent < MaxSent
          /\ flights' = flights \cup {[tbl |-> "connectors", id |-> r.id, born |-> r.born,
                                       no |-> sent + 1]}
          /\ sent' = sent + 1
       \/ UNCHANGED <<flights, sent>>
    /\ UNCHANGED <<table, seq, born, posted>>

\* The process ends: daemon threads and requests with it.
Crash ==
    /\ flights # {} \/ syncing # {}
    /\ flights' = {} /\ syncing' = {}
    /\ UNCHANGED <<table, seq, born, sent, posted>>

Next ==
    \/ \E takes \in BOOLEAN : webhooks_admin(takes) \/ connectors_admin(takes)
    \/ dispatch_event \/ sync_all \/ Crash
    \/ \E f \in flights : update_status(f) \/ \E outcome \in Outcomes : Post(f, outcome)
    \/ \E r \in syncing : sync_one(r)

DSpec == Init /\ [][Next]_dvars

-----------------------------------------------------------------------------
\* The status a page shows next to a webhook or a connector is the outcome of a
\* POST that was made to that receiver, although answers arrive in any order and
\* receivers are deleted and added while others are still answering.
StatusesAreOwn ==
    \A r \in table :
        r.status # NoStatus =>
            [born |-> r.born, no |-> r.status.no, outcome |-> r.status.outcome] \in posted
=============================================================================
