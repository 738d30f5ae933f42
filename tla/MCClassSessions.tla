-------------------------- MODULE MCClassSessions --------------------------
(***************************************************************************)
(* ClassSessions, Defaulters, Console and Startup for TLC.  A behaviour is *)
(* one of four parts: a day with two slots of two subjects                 *)
(* (ClassSessions), the report over the sessions of two subjects           *)
(* (Defaulters), the pages of the administration console over one family   *)
(* of tables that refer to each other (Console), or processes that start   *)
(* on an empty, an older or a shared database (Startup).  The other parts  *)
(* stay as they began.                                                     *)
(***************************************************************************)
EXTENDS ClassSessions, TLC

CONSTANTS maths, art,             \* subjects of the day
          Names, Blank, MaxRows,  \* of Console
          Views,
          Procs, Added, Keys, MaxEdits, MaxEnds,  \* of Startup
          Courses, HomeOf, Students, Departments, MinPct, MaxClasses, MaxWrites  \* of Defaulters

VARIABLES part,
          rows, seq, left, answer, scope, flight, \* of Console
          tables, columns, indexed, settings, admins, departments, proc,
          chosen, founded, removed, edits, ends,  \* of Startup
          taught, roll, classes, attends, opened, report, writes  \* of Defaulters

C == INSTANCE Console
St == INSTANCE Startup
Df == INSTANCE Defaulters

Day == <<[subject |-> maths, start |-> 9], [subject |-> art, start |-> 10]>>
Symmetry == Permutations(Threads) \cup Permutations(Procs)

\* The tables that refer to one another, in families small enough to check.
\* The part that is a day of classes uses none of them.
Families == {
    {},
    {"departments", "persons", "subjects", "class_sessions", "session_attendance",
     "timetable", "substitutions"},
    {"departments", "branches", "shifts", "person_shift", "exam_sessions",
     "exam_alerts", "holidays"},
    {"branches", "contractors", "site_muster", "rooms", "occupancy_samples",
     "muster_drills", "muster_checkins"},
    {"branches", "cameras", "bus_routes", "bus_stops", "bus_boardings", "gps_marks",
     "sensor_readings"},
    {"branches", "admin_users", "sso_providers", "tenants", "scim_clients",
     "kms_keys", "sdk_clients"},
    {"api_keys", "webhooks", "siem_sinks", "connectors", "workflows", "consents",
     "backup_log"},
    {"ppe_incidents", "door_log", "presence_signals", "copilot_log"}}

\* In the order of the code; of the columns, those that an index needs.
AddedColumns == [persons |-> <<"branch_id", "rfid_uid">>, admin_users |-> <<"email">>]

\* Two subjects, of which one is a department's, and two persons.
InOrder == <<"art", "maths">>
Home == [art |-> "", maths |-> "science"]
People == <<"p1", "p2">>

ASSUME ViewsAssumption == \A v \in Views : v \subseteq C!Tables
ASSUME PctAssumption == MinPct \in Int

console == <<rows, seq, left, answer, scope, flight>>
start == <<tables, columns, indexed, settings, admins, departments, proc,
           chosen, founded, removed, edits, ends>>
rule == <<taught, roll, classes, attends, opened, report, writes>>
MCInit ==
    /\ part \in {"day", "rule", "console", "start"}
    /\ Init /\ C!CInit /\ St!Init /\ Df!Init
    /\ scope # {} <=> part = "console"
    /\ part # "start" => tables = {}
    /\ part # "rule" => \A p \in DOMAIN roll : roll[p] = ""
MCNext ==
    /\ UNCHANGED part
    /\ \/ part = "day" /\ Next /\ UNCHANGED <<console, start, rule>>
       \/ part = "rule" /\ Df!Next /\ UNCHANGED <<vars, console, start>>
       \/ part = "console" /\ C!CNext /\ UNCHANGED <<vars, start, rule>>
       \/ part = "start" /\ St!Next /\ UNCHANGED <<vars, console, rule>>
MCSpec == MCInit /\ [][MCNext]_<<part, vars, console, start, rule>>

NoDanglingKey == C!NoDanglingKey
ListsNameTheRightRow == C!ListsNameTheRightRow
PlacesLeaveRecords == C!PlacesLeaveRecords
StartsComplete == part = "start" => St!StartsComplete
DefaultersAreReal == Df!DefaultersAreReal
============================================================================
