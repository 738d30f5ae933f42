------------------------------ MODULE Registry ------------------------------
(***************************************************************************)
(* The functions of db.py that write or list the tables of Tables, one     *)
(* operator each.  Each runs in one transaction (db.tx): a function that   *)
(* raises leaves the tables as they were.                                  *)
(*                                                                         *)
(* Functions that answer with the id of the row they made or found set     *)
(* answer.  Ids that a caller passes are ids some page has shown; the row  *)
(* may have been deleted since.                                            *)
(***************************************************************************)
EXTENDS Tables

VARIABLE answer  \* what add_contractor or add_room last returned, and for what

NoAnswer == [tbl |-> "", id |-> Null, key |-> Blank, site |-> Null]
Quiet(write) == write /\ UNCHANGED answer

Ref1(c, v) == [x \in {c} |-> v]
NoRef == NoCols

-----------------------------------------------------------------------------
(* Departments, persons, subjects, sessions.                               *)

add_department(n) == Quiet(InsertOrIgnore("departments", n, NoRef))
delete_department(i) == Quiet(Delete("departments", i))

upsert_person(p, d) == Quiet(Upsert("persons", p, Ref1("department_id", d)))
\* department_id = 0 from the form is written as NULL; edit_user never omits it.
update_person(p, d) ==
    Quiet(SetRefs("persons", WithKey("persons", p), Ref1("department_id", d)))
delete_person(p) == Quiet(DeleteRows(WithKey("persons", p)))

add_subject(n, d) == Quiet(InsertOrIgnore("subjects", n, Ref1("department_id", d)))
delete_subject(i) == Quiet(Delete("subjects", i))
create_session(s) == Quiet(Insert("class_sessions", Blank, Ref1("subject_id", s)))
delete_session(i) == Quiet(Delete("class_sessions", i))
mark_session_attendance(s, p) ==
    Quiet(InsertOrIgnore("session_attendance", p, Ref1("session_id", s)))

list_departments == Listing("departments", {})
list_persons == Listing("persons", {"department_id"})
list_subjects == Listing("subjects", {"department_id"})
list_sessions == Listing("class_sessions", {"subject_id"})

-----------------------------------------------------------------------------
(* Branches, shifts, timetable, holidays, consents.                        *)

add_branch(n) == Quiet(Insert("branches", n, NoRef))
delete_branch(i) == Quiet(Delete("branches", i))
add_shift(n, b, d) ==
    Quiet(Insert("shifts", n, [branch_id |-> b, department_id |-> d]))
delete_shift(i) == Quiet(Delete("shifts", i))
assign_shift(p, s) == Quiet(InsertOrReplace("person_shift", p, Ref1("shift_id", s)))
add_timetable_slot(s) == Quiet(Insert("timetable", Blank, Ref1("subject_id", s)))
delete_timetable_slot(i) == Quiet(Delete("timetable", i))
add_holiday(n, b) == Quiet(InsertOrIgnore("holidays", n, Ref1("branch_id", b)))
delete_holiday(i) == Quiet(Delete("holidays", i))
\* record_consent: an upsert; granting clears revoked_at, revoking sets it.
record_consent(p, granted) ==
    Quiet(IF WithKey("consents", p) = {} THEN granted /\ Insert("consents", p, NoRef)
          ELSE \E r \in WithKey("consents", p) : SetFlag("consents", r.id, granted))

list_branches == Listing("branches", {})
list_shifts == Listing("shifts", {"branch_id", "department_id"})
list_timetable == Listing("timetable", {"subject_id"})
list_holidays == Listing("holidays", {"branch_id"})

-----------------------------------------------------------------------------
(* API keys, webhooks, contractors, site muster, PPE, GPS.                 *)

create_api_key(n) == Quiet(Insert("api_keys", n, NoRef))
revoke_api_key(i) == Quiet(SetFlag("api_keys", i, FALSE))
add_webhook(n) == Quiet(Insert("webhooks", n, NoRef))
delete_webhook(i) == Quiet(Delete("webhooks", i))
log_gps_mark(p, b) == Quiet(Insert("gps_marks", p, Ref1("branch_id", b)))
\* No code gives a person a branch, so these two logs carry none.
log_ppe_incident(p) == Quiet(Insert("ppe_incidents", p, Ref1("branch_id", Null)))
log_door(p) == Quiet(Insert("door_log", p, Ref1("branch_id", Null)))
upsert_muster(p, b, k) ==
    Quiet(Upsert("site_muster", p, [branch_id |-> b, contractor_id |-> k]))

\* INSERT OR IGNORE; an insertion that was passed over leaves lastrowid 0, and
\* then the id is looked up by the columns of the UNIQUE constraint.
InsertOrFind(t, key, ref, site, found) ==
    /\ InsertOrIgnore(t, key, ref)
    /\ answer' = IF RefsResolve(t, ref) \/ Clashes(t, key, ref) # {}
                 THEN [tbl |-> t, key |-> key, site |-> site,
                       id |-> IF Clashes(t, key, ref) = {} THEN NextId(t)
                              ELSE (CHOOSE r \in found : TRUE).id]
                 ELSE NoAnswer
add_contractor(n, b) ==
    InsertOrFind("contractors", n, Ref1("site_id", b), Null, WithKey("contractors", n))
add_room(n, b) ==
    InsertOrFind("rooms", n, Ref1("branch_id", b), b,
                 {r \in WithKey("rooms", n) : r.ref["branch_id"] = b})

list_contractors == Listing("contractors", {"site_id"})
list_ppe_incidents == Listing("ppe_incidents", {"branch_id"})
site_muster_for == Listing("site_muster", {"branch_id", "contractor_id"})

-----------------------------------------------------------------------------
(* Accounts, cameras, transport, substitutions, sensors, exams, backups.   *)

create_admin(n, b) ==
    Quiet(Insert("admin_users", n, [branch_id |-> b, sso_provider |-> Null]))
delete_admin(i) == Quiet(Delete("admin_users", i))
\* An account that has signed in before, or has the address, is linked to the
\* provider; otherwise one is made.
upsert_admin_from_sso(i, n) ==
    Quiet(IF WithKey("admin_users", n) = {}
          THEN Insert("admin_users", n, [branch_id |-> Null, sso_provider |-> i])
          ELSE \E r \in WithKey("admin_users", n) :
                  SetRefs("admin_users", {r},
                          [branch_id |-> r.ref["branch_id"], sso_provider |-> i]))

add_camera(n, b) == Quiet(Insert("cameras", n, Ref1("branch_id", b)))
delete_camera(i) == Quiet(Delete("cameras", i))
toggle_camera(i, enabled) == Quiet(SetFlag("cameras", i, enabled))
get_camera(i) == WithId("cameras", i)

add_bus_route(n, b) == Quiet(Insert("bus_routes", n, Ref1("branch_id", b)))
delete_bus_route(i) == Quiet(Delete("bus_routes", i))
add_bus_stop(r, n) == Quiet(Insert("bus_stops", n, Ref1("route_id", r)))
log_boarding(p, r, s) ==
    Quiet(Insert("bus_boardings", p, [route_id |-> r, stop_id |-> s]))
add_substitution(s, n) == Quiet(Insert("substitutions", n, Ref1("session_id", s)))
log_sensor(p, b) == Quiet(Insert("sensor_readings", p, Ref1("branch_id", b)))
create_exam(n, b, d) ==
    Quiet(Insert("exam_sessions", n, [branch_id |-> b, department_id |-> d]))
end_exam(i) == Quiet(SetFlag("exam_sessions", i, FALSE))
log_exam_alert(i, p) == Quiet(Insert("exam_alerts", p, Ref1("exam_id", i)))
log_backup == Quiet(Insert("backup_log", Blank, NoRef))

list_cameras == Listing("cameras", {"branch_id"})
list_bus_routes == Listing("bus_routes", {"branch_id"})
list_boardings == Listing("bus_boardings", {"route_id", "stop_id"})
list_substitutions == Listing("substitutions", {})
list_sensor_readings == Listing("sensor_readings", {"branch_id"})
list_door_log == Listing("door_log", {"branch_id"})
list_exams == Listing("exam_sessions", {"branch_id", "department_id"})

-----------------------------------------------------------------------------
(* Enterprise edition.                                                     *)

add_tenant(n, parent) == Quiet(Insert("tenants", n, Ref1("parent_id", parent)))
delete_tenant(i) == Quiet(Delete("tenants", i))
\* The routes below never pass a tenant: tenant_id is NULL.
add_sso_provider(n) == Quiet(Insert("sso_providers", n, Ref1("tenant_id", Null)))
delete_sso_provider(i) == Quiet(Delete("sso_providers", i))
add_scim_client(n) == Quiet(Insert("scim_clients", n, Ref1("tenant_id", Null)))
delete_scim_client(i) == Quiet(Delete("scim_clients", i))
add_siem_sink(n) == Quiet(Insert("siem_sinks", n, NoRef))
delete_siem_sink(i) == Quiet(Delete("siem_sinks", i))
add_kms_key(n) == Quiet(Insert("kms_keys", n, Ref1("tenant_id", Null)))
delete_kms_key(i) == Quiet(Delete("kms_keys", i))
add_sdk_client(n) == Quiet(Insert("sdk_clients", n, Ref1("tenant_id", Null)))
delete_sdk_client(i) == Quiet(Delete("sdk_clients", i))
add_connector(n) == Quiet(Insert("connectors", n, NoRef))
delete_connector(i) == Quiet(Delete("connectors", i))
add_workflow(n) == Quiet(Insert("workflows", n, NoRef))
delete_workflow(i) == Quiet(Delete("workflows", i))

log_presence(p) == Quiet(Insert("presence_signals", p, NoRef))
log_copilot == Quiet(Insert("copilot_log", Blank, NoRef))
log_occupancy(i) == Quiet(Insert("occupancy_samples", Blank, Ref1("room_id", i)))

start_muster(n, b) == Quiet(Insert("muster_drills", n, Ref1("branch_id", b)))
end_muster(i) == Quiet(SetFlag("muster_drills", i, FALSE))
muster_check_in(i, p) ==
    Quiet(InsertOrIgnore("muster_checkins", p, Ref1("drill_id", i)))

list_rooms == Listing("rooms", {"branch_id"})
list_musters == Listing("muster_drills", {"branch_id"})
=============================================================================
