------------------------------- MODULE Tables -------------------------------
(***************************************************************************)
(* The SQLite schema of db.py and the statements its functions execute.    *)
(*                                                                         *)
(* A row is abstracted to what relates it to other rows: its id, the one   *)
(* text column that names it or names the person it is about (key), the    *)
(* columns that hold the id of another row (ref), and one status column    *)
(* (flag: enabled, active, granted, not ended).  Columns that only carry   *)
(* data are left out.  about is a history value: what each referenced row  *)
(* was called when the reference was written.                              *)
(***************************************************************************)
EXTENDS Integers, FiniteSets, FiniteSetsExt, TLC

CONSTANTS Names,     \* names, and ids of persons
          Blank,     \* what a LEFT JOIN shows when no row matches
          MaxRows    \* bound: rows that a behaviour inserts

VARIABLES rows,      \* every row of every table
          seq,       \* sqlite_sequence: the last id each table gave out
          left       \* bound: insertions left, from MaxRows to 0

Null == 0

-----------------------------------------------------------------------------
(* The schema.  A column that refers to a table does so with a FOREIGN KEY *)
(* and its ON DELETE clause, or holds a bare id (Bare).  unique is a set   *)
(* of columns of which no two rows agree, {} when there is none.           *)

Cascade(t) == [to |-> t, on |-> "CASCADE"]

\* (Mutant of SetNull: a department or a branch takes what refers to it along.)
SetNullCascades(t) == [to |-> t, on |-> "CASCADE"]
SetNull(t) == [to |-> t, on |-> "SET NULL"]
Bare(t) == [to |-> t, on |-> "no foreign key"]
Table(cols, unique) == [cols |-> cols, unique |-> unique]
NoCols == [c \in {} |-> Null]

AcademicTables == [
    admin_users |-> Table([branch_id |-> Bare("branches"),
                           sso_provider |-> Bare("sso_providers")], {"key"}),
    departments |-> Table(NoCols, {"key"}),
    persons |-> Table([department_id |-> SetNull("departments")], {"key"}),
    subjects |-> Table([department_id |-> SetNull("departments")],
                       {"key", "department_id"}),
    class_sessions |-> Table([subject_id |-> Cascade("subjects")], {}),
    session_attendance |-> Table([session_id |-> Cascade("class_sessions")],
                                 {"key", "session_id"})]

PlaceTables == [
    branches |-> Table(NoCols, {"key"}),
    shifts |-> Table([branch_id |-> SetNull("branches"),
                      department_id |-> SetNull("departments")], {}),
    person_shift |-> Table([shift_id |-> Bare("shifts")], {"key", "shift_id"}),
    timetable |-> Table([subject_id |-> Cascade("subjects")], {}),
    holidays |-> Table([branch_id |-> Cascade("branches")], {"key", "branch_id"}),
    consents |-> Table(NoCols, {"key"})]

SiteTables == [
    api_keys |-> Table(NoCols, {}),
    webhooks |-> Table(NoCols, {}),
    gps_marks |-> Table([branch_id |-> Bare("branches")], {}),
    contractors |-> Table([site_id |-> SetNull("branches")], {"key"}),
    ppe_incidents |-> Table([branch_id |-> Bare("branches")], {}),
    site_muster |-> Table([branch_id |-> Bare("branches"),
                           contractor_id |-> Bare("contractors")], {"key"}),
    cameras |-> Table([branch_id |-> SetNull("branches")], {"key"}),
    bus_routes |-> Table([branch_id |-> SetNull("branches")], {}),
    bus_stops |-> Table([route_id |-> Cascade("bus_routes")], {}),
    bus_boardings |-> Table([route_id |-> Bare("bus_routes"),
                             stop_id |-> Bare("bus_stops")], {}),
    substitutions |-> Table([session_id |-> Cascade("class_sessions")], {})]

ControlTables == [
    sensor_readings |-> Table([branch_id |-> Bare("branches")], {}),
    door_log |-> Table([branch_id |-> Bare("branches")], {}),
    exam_sessions |-> Table([branch_id |-> Bare("branches"),
                             department_id |-> Bare("departments")], {}),
    exam_alerts |-> Table([exam_id |-> Cascade("exam_sessions")], {}),
    backup_log |-> Table(NoCols, {}),
    tenants |-> Table([parent_id |-> SetNull("tenants")], {"key"}),
    sso_providers |-> Table([tenant_id |-> Cascade("tenants")], {}),
    scim_clients |-> Table([tenant_id |-> Cascade("tenants")], {}),
    siem_sinks |-> Table(NoCols, {})]

EnterpriseTables == [
    spoof_events |-> Table(NoCols, {}),
    access_events |-> Table([branch_id |-> Bare("branches")], {}),
    kms_keys |-> Table([tenant_id |-> Cascade("tenants")], {}),
    presence_signals |-> Table(NoCols, {}),
    workflows |-> Table(NoCols, {}),
    copilot_log |-> Table(NoCols, {}),
    connectors |-> Table(NoCols, {}),
    rooms |-> Table([branch_id |-> Bare("branches")], {"key", "branch_id"}),
    occupancy_samples |-> Table([room_id |-> Cascade("rooms")], {}),
    muster_drills |-> Table([branch_id |-> Bare("branches")], {}),
    muster_checkins |-> Table([drill_id |-> Cascade("muster_drills")],
                              {"key", "drill_id"}),
    sdk_clients |-> Table([tenant_id |-> Cascade("tenants")], {})]

Tables ==
    DOMAIN AcademicTables \cup DOMAIN PlaceTables \cup DOMAIN SiteTables
    \cup DOMAIN ControlTables \cup DOMAIN EnterpriseTables
Schema == [t \in Tables |->
    CASE t \in DOMAIN AcademicTables -> AcademicTables[t]
      [] t \in DOMAIN PlaceTables -> PlaceTables[t]
      [] t \in DOMAIN SiteTables -> SiteTables[t]
      [] t \in DOMAIN ControlTables -> ControlTables[t]
      [] t \in DOMAIN EnterpriseTables -> EnterpriseTables[t]]
Cols(t) == DOMAIN Schema[t].cols
ForeignKeys(t) == {c \in Cols(t) : Schema[t].cols[c].on # "no foreign key"}

-----------------------------------------------------------------------------
(* Reading.                                                                *)

Of(t) == {r \in rows : r.tbl = t}
WithId(t, id) == {r \in rows : r.tbl = t /\ r.id = id}
WithKey(t, key) == {r \in rows : r.tbl = t /\ r.key = key}
Has(t, id) == WithId(t, id) # {}

\* Ids a page may have shown and a form may send: every id given out so far,
\* of rows that are still there or not.
Shown(t) == IF t \in DOMAIN seq THEN 1..seq[t] ELSE {}
Picked(t) == {Null} \cup Shown(t)

\* LEFT JOIN: the name of the row that column c of r refers to.
NameOf(t, c, id) ==
    LET found == WithId(Schema[t].cols[c].to, id) IN
    IF found = {} THEN Blank ELSE (CHOOSE r \in found : TRUE).key
Listing(t, cols) ==
    {[row |-> r, names |-> [c \in cols |-> NameOf(t, c, r.ref[c])]] : r \in Of(t)}

-----------------------------------------------------------------------------
(* Writing.  Every statement runs on a connection of get_conn.             *)

\* (Mutant of foreign_keys: SQLite's default.)
ForeignKeysOff == FALSE
\* PRAGMA foreign_keys = ON, on every connection.
foreign_keys == TRUE

\* (Mutant of NextId: INTEGER PRIMARY KEY alone, one more than the largest id.)
MaxPlusOne(t) == Max({r.id : r \in Of(t)} \cup {0}) + 1
\* INTEGER PRIMARY KEY AUTOINCREMENT: never an id that was given out before.
NextId(t) == seq[t] + 1

RefsResolve(t, ref) ==
    foreign_keys =>
        \A c \in ForeignKeys(t) :
            ref[c] = Null \/ Has(Schema[t].cols[c].to, ref[c])

\* Rows that a UNIQUE constraint sets against (key, ref); NULL equals nothing.
Clashes(t, key, ref) ==
    LET u == Schema[t].unique IN
    {r \in Of(t) : /\ u # {}
                   /\ "key" \in u => r.key = key
                   /\ \A c \in u \ {"key"} : ref[c] # Null /\ r.ref[c] = ref[c]}

NewRow(t, key, ref) ==
    [tbl |-> t, id |-> NextId(t), key |-> key, ref |-> ref, flag |-> TRUE,
     about |-> [c \in Cols(t) |-> NameOf(t, c, ref[c])]]

Commit(t, new, old) ==
    /\ left > 0
    /\ rows' = (rows \ old) \cup {new}
    /\ seq' = [seq EXCEPT ![t] = NextId(t)]
    /\ left' = left - 1
Refused == UNCHANGED <<rows, seq, left>>

\* INSERT: raises IntegrityError on a clash or on a reference to nothing.
Insert(t, key, ref) ==
    IF Clashes(t, key, ref) = {} /\ RefsResolve(t, ref)
    THEN Commit(t, NewRow(t, key, ref), {}) ELSE Refused

\* INSERT OR IGNORE: a clash is passed over; a reference to nothing still raises.
InsertOrIgnore(t, key, ref) == Insert(t, key, ref)

\* INSERT OR REPLACE.
InsertOrReplace(t, key, ref) ==
    IF RefsResolve(t, ref)
    THEN Commit(t, NewRow(t, key, ref), Clashes(t, key, ref)) ELSE Refused

\* UPDATE of the status column.
SetFlag(t, id, flag) ==
    /\ rows' = {IF r.tbl = t /\ r.id = id THEN [r EXCEPT !.flag = flag] ELSE r :
                   r \in rows}
    /\ UNCHANGED <<seq, left>>

\* UPDATE of the references of the rows `which`.
SetRefs(t, which, ref) ==
    IF RefsResolve(t, ref)
    THEN /\ rows' = {IF r \in which
                     THEN [r EXCEPT !.ref = ref,
                              !.about = [c \in Cols(t) |-> NameOf(t, c, ref[c])]]
                     ELSE r : r \in rows}
         /\ UNCHANGED <<seq, left>>
    ELSE Refused

\* INSERT ... ON CONFLICT DO UPDATE.
Upsert(t, key, ref) ==
    IF Clashes(t, key, ref) = {} THEN Insert(t, key, ref)
    ELSE SetRefs(t, Clashes(t, key, ref), ref)

\* DELETE: the rows that hang from `gone` by ON DELETE CASCADE go too (the
\* longest chain is subject, session, attendance), ON DELETE SET NULL clears.
Hanging(gone) ==
    {r \in rows : \E c \in ForeignKeys(r.tbl), g \in gone :
        /\ Schema[r.tbl].cols[c] = Cascade(g.tbl)
        /\ r.ref[c] = g.id}
DeleteRows(asked) ==
    LET gone == IF foreign_keys
                THEN asked \cup Hanging(asked) \cup Hanging(Hanging(asked))
                ELSE asked
        Cleared(r) ==
            [r EXCEPT !.ref = [c \in Cols(r.tbl) |->
                IF /\ foreign_keys
                   /\ \E g \in gone : /\ Schema[r.tbl].cols[c] = SetNull(g.tbl)
                                      /\ r.ref[c] = g.id
                THEN Null ELSE r.ref[c]]]
    IN /\ rows' = {Cleared(r) : r \in rows \ gone}
       /\ UNCHANGED <<seq, left>>
Delete(t, id) == DeleteRows(WithId(t, id))
=============================================================================
