------------------------------- MODULE Console -------------------------------
(***************************************************************************)
(* The pages of the administration console (routes of app.py and           *)
(* enterprise/routes.py) over the tables of Registry, used by several      *)
(* people at once.  A POST handler is guarded by a role, picks one branch  *)
(* by the form's fields and calls one function; the ids and names it gets  *)
(* come from a page rendered earlier.  Three handlers use several          *)
(* transactions, and other requests come between them: the camera toggle   *)
(* (read, then write), the CSV import and the settings page.               *)
(***************************************************************************)
EXTENDS Registry

CONSTANTS Views  \* sets of tables: a behaviour writes the tables of one

VARIABLES scope, \* the set of tables of this behaviour
          flight \* the handler that is between two transactions, if any

cvars == <<rows, seq, left, answer, scope, flight>>

ROLE_LEVELS == {"staff", "teacher", "hr", "admin"}

Landed == [step |-> "none", key |-> Blank, name |-> Blank, id |-> Null, was |-> FALSE]

CInit ==
    /\ scope \in Views
    /\ rows = {} /\ seq = [t \in scope |-> 0] /\ left = MaxRows
    /\ answer = NoAnswer
    /\ flight = Landed

\* login_required: any role of a signed-in session.  role_required: the
\* session's role is admin or one of the allowed.
login_required(role) == role \in ROLE_LEVELS
role_required(role, allowed) == role = "admin" \/ role \in allowed
Hr == {"admin", "hr"}
Staff == {"admin", "hr", "teacher"}

Writes(t) == t \in scope

-----------------------------------------------------------------------------
(* app.py                                                                  *)

subjects(role) ==
    /\ login_required(role) /\ Writes("subjects")
    /\ \/ \E i \in Shown("subjects") : delete_subject(i)
       \/ \E n \in Names, d \in Picked("departments") : add_subject(n, d)

\* The active-session setting that this page also clears is in ClassSessions.
sessions(role) ==
    /\ login_required(role) /\ Writes("class_sessions")
    /\ \/ \E i \in Shown("class_sessions") : delete_session(i)
       \/ \E s \in Shown("subjects") : create_session(s)

branches(role) ==
    /\ role_required(role, Hr) /\ Writes("branches")
    /\ \/ \E i \in Shown("branches") : delete_branch(i)
       \/ \E n \in Names : add_branch(n)

shifts(role) ==
    /\ role_required(role, Hr) /\ Writes("shifts")
    /\ \/ \E i \in Shown("shifts") : delete_shift(i)
       \/ \E n \in Names, b \in Picked("branches"), d \in Picked("departments") :
             add_shift(n, b, d)
shifts_assign(role) ==
    /\ role_required(role, Hr) /\ Writes("person_shift")
    /\ \E p \in Names, s \in Shown("shifts") : assign_shift(p, s)

timetable(role) ==
    /\ role_required(role, Staff) /\ Writes("timetable")
    /\ \/ \E i \in Shown("timetable") : delete_timetable_slot(i)
       \/ \E s \in Shown("subjects") : add_timetable_slot(s)
holidays(role) ==
    /\ role_required(role, Hr) /\ Writes("holidays")
    /\ \/ \E i \in Shown("holidays") : delete_holiday(i)
       \/ \E n \in Names, b \in Picked("branches") : add_holiday(n, b)

privacy_consent(role) ==
    /\ login_required(role) /\ Writes("consents")
    /\ \E p \in Names, granted \in BOOLEAN : record_consent(p, granted)

api_keys(role) ==
    /\ role_required(role, {"admin"}) /\ Writes("api_keys")
    /\ \/ \E i \in Shown("api_keys") : revoke_api_key(i)
       \/ \E n \in Names : create_api_key(n)
webhooks_admin(role) ==
    /\ role_required(role, {"admin"}) /\ Writes("webhooks")
    /\ \/ \E i \in Shown("webhooks") : delete_webhook(i)
       \/ \E n \in Names : add_webhook(n)
admins(role) ==
    /\ role_required(role, {"admin"}) /\ Writes("admin_users")
    /\ \/ \E i \in Shown("admin_users") : delete_admin(i)
       \/ \E n \in Names, b \in Picked("branches") : create_admin(n, b)

contractors(role) ==
    /\ role_required(role, Hr) /\ Writes("contractors")
    /\ \E n \in Names, b \in Picked("branches") : add_contractor(n, b)
site_muster(role) ==
    /\ role_required(role, Hr) /\ Writes("site_muster")
    /\ \E p \in Names, b \in Picked("branches"), k \in Picked("contractors") :
          upsert_muster(p, b, k)

\* The toggle reads the camera, then writes the opposite of what it read; when
\* the camera is gone by the time it is read the handler raises.
cameras(role) ==
    /\ role_required(role, Hr) /\ Writes("cameras")
    /\ \/ \E i \in Shown("cameras") : delete_camera(i) /\ UNCHANGED flight
       \/ \E n \in Names, b \in Picked("branches") :
             add_camera(n, b) /\ UNCHANGED flight
       \/ \E i \in Shown("cameras") : \E cam \in get_camera(i) :
             /\ flight.step = "none"
             /\ flight' = [Landed EXCEPT !.step = "toggle", !.id = i, !.was = cam.flag]
             /\ UNCHANGED <<rows, seq, left, answer>>
FinishToggle ==
    /\ flight.step = "toggle"
    /\ toggle_camera(flight.id, ~flight.was)
    /\ flight' = Landed

transport(role) ==
    /\ role_required(role, Staff) /\ Writes("bus_routes")
    /\ \/ \E i \in Shown("bus_routes") : delete_bus_route(i)
       \/ \E n \in Names, b \in Picked("branches") : add_bus_route(n, b)
transport_stops(role) ==
    /\ role_required(role, Staff) /\ Writes("bus_stops")
    /\ \E r \in Shown("bus_routes"), n \in Names : add_bus_stop(r, n)
\* No session: a tablet at the bus door.  What it notifies is in NotifyQueue.
transport_board_api ==
    /\ Writes("bus_boardings")
    /\ \E p \in Names, r \in Picked("bus_routes"), s \in Picked("bus_stops") :
          log_boarding(p, r, s)
substitutions_page(role) ==
    /\ role_required(role, Staff) /\ Writes("substitutions")
    /\ \E s \in Shown("class_sessions"), n \in Names : add_substitution(s, n)
sensor_temperature ==
    /\ Writes("sensor_readings")
    /\ \E p \in Names, b \in Picked("branches") : log_sensor(p, b)
exams(role) ==
    /\ role_required(role, Staff) /\ Writes("exam_sessions")
    /\ \/ \E i \in Shown("exam_sessions") : end_exam(i)
       \/ \E n \in Names, b \in Picked("branches"), d \in Picked("departments") :
             create_exam(n, b, d)

-----------------------------------------------------------------------------
(* People: the edit form, the settings page and the CSV import.            *)

edit_user(role) ==
    /\ login_required(role) /\ Writes("persons")
    /\ \E p \in Names, d \in Picked("departments") : update_person(p, d)
delete_user(role) ==
    /\ login_required(role) /\ Writes("persons")
    /\ \E p \in Names : delete_person(p)
\* The two fields of the settings page that are rows: new_dept and del_dept.
settings(role) ==
    /\ login_required(role) /\ Writes("departments")
    /\ \/ \E n \in Names : add_department(n)
       \/ \E i \in Shown("departments") : delete_department(i)

\* A line of the CSV: the department is added, then looked up by its name in
\* the list, then the person is written with the id found.
import_users(role) ==
    /\ login_required(role) /\ Writes("persons") /\ Writes("departments")
    /\ flight.step = "none"
    /\ \E p \in Names, n \in Names :
          /\ add_department(n)
          /\ flight' = [Landed EXCEPT !.step = "find", !.key = p, !.name = n]
ImportFinds ==
    /\ flight.step = "find"
    /\ flight' = [flight EXCEPT !.step = "upsert",
                     !.id = LET found == {e.row : e \in list_departments} IN
                            IF \E r \in found : r.key = flight.name
                            THEN (CHOOSE r \in found : r.key = flight.name).id
                            ELSE Null]
    /\ UNCHANGED <<rows, seq, left, answer>>
ImportWrites ==
    /\ flight.step = "upsert"
    /\ upsert_person(flight.key, flight.id)
    /\ flight' = Landed

-----------------------------------------------------------------------------
(* enterprise/routes.py                                                    *)

sso_add(role) ==
    /\ role_required(role, {"admin"}) /\ Writes("sso_providers")
    /\ \/ \E i \in Shown("sso_providers") : delete_sso_provider(i)
       \/ \E n \in Names : add_sso_provider(n)
\* The provider may be deleted while the visitor is at the identity provider;
\* the callback reads it again before it writes.
sso_callback ==
    /\ Writes("sso_providers") /\ Writes("admin_users")
    /\ \E i \in Shown("sso_providers"), n \in Names :
          Has("sso_providers", i) /\ upsert_admin_from_sso(i, n)
scim_admin(role) ==
    /\ role_required(role, {"admin"}) /\ Writes("scim_clients")
    /\ \/ \E i \in Shown("scim_clients") : delete_scim_client(i)
       \/ \E n \in Names : add_scim_client(n)
siem_admin(role) ==
    /\ role_required(role, {"admin"}) /\ Writes("siem_sinks")
    /\ \/ \E i \in Shown("siem_sinks") : delete_siem_sink(i)
       \/ \E n \in Names : add_siem_sink(n)
kms_admin(role) ==
    /\ role_required(role, {"admin"}) /\ Writes("kms_keys")
    /\ \/ \E i \in Shown("kms_keys") : delete_kms_key(i)
       \/ \E n \in Names : add_kms_key(n)
workflows_admin(role) ==
    /\ role_required(role, Hr) /\ Writes("workflows")
    /\ \/ \E i \in Shown("workflows") : delete_workflow(i)
       \/ \E n \in Names : add_workflow(n)
connectors_admin(role) ==
    /\ role_required(role, Hr) /\ Writes("connectors")
    /\ \/ \E i \in Shown("connectors") : delete_connector(i)
       \/ \E n \in Names : add_connector(n)
occupancy_admin(role) ==
    /\ role_required(role, Hr) /\ Writes("rooms")
    /\ \E n \in Names, b \in Picked("branches") : add_room(n, b)
occupancy_log ==
    /\ Writes("occupancy_samples")
    /\ \E i \in Shown("rooms") : log_occupancy(i)
muster_page(role) ==
    /\ role_required(role, Hr) /\ Writes("muster_drills")
    /\ \/ \E i \in Shown("muster_drills") : end_muster(i)
       \/ \E n \in Names, b \in Picked("branches") : start_muster(n, b)
muster_checkin ==
    /\ Writes("muster_checkins")
    /\ \E i \in Shown("muster_drills"), p \in Names : muster_check_in(i, p)
tenants_admin(role) ==
    /\ role_required(role, {"admin"}) /\ Writes("tenants")
    /\ \/ \E i \in Shown("tenants") : delete_tenant(i)
       \/ \E n \in Names, parent \in Picked("tenants") : add_tenant(n, parent)
sdk_admin(role) ==
    /\ role_required(role, {"admin"}) /\ Writes("sdk_clients")
    /\ \/ \E i \in Shown("sdk_clients") : delete_sdk_client(i)
       \/ \E n \in Names : add_sdk_client(n)

-----------------------------------------------------------------------------
(* Rows written by the camera, the exam monitor, the phone and the         *)
(* copilot, each where its own module has the decision.                    *)
OtherWriters ==
    \/ Writes("session_attendance") /\ \E s \in Shown("class_sessions"), p \in Names :
          mark_session_attendance(s, p)
    \/ Writes("exam_alerts") /\ \E i \in Shown("exam_sessions"), p \in Names :
          log_exam_alert(i, p)
    \/ Writes("gps_marks") /\ \E p \in Names, b \in Picked("branches") :
          log_gps_mark(p, b)
    \/ Writes("ppe_incidents") /\ \E p \in Names : log_ppe_incident(p)
    \/ Writes("door_log") /\ \E p \in Names : log_door(p)
    \/ Writes("presence_signals") /\ \E p \in Names : log_presence(p)
    \/ Writes("copilot_log") /\ log_copilot
    \/ Writes("backup_log") /\ log_backup

OneTransaction ==
    \/ \E role \in ROLE_LEVELS :
          \/ subjects(role) \/ sessions(role) \/ branches(role) \/ shifts(role)
          \/ shifts_assign(role) \/ timetable(role) \/ holidays(role)
          \/ privacy_consent(role) \/ api_keys(role) \/ webhooks_admin(role)
          \/ admins(role) \/ contractors(role) \/ site_muster(role)
          \/ transport(role) \/ transport_stops(role) \/ substitutions_page(role)
          \/ exams(role) \/ edit_user(role) \/ delete_user(role) \/ settings(role)
          \/ sso_add(role) \/ scim_admin(role) \/ siem_admin(role) \/ kms_admin(role)
          \/ workflows_admin(role) \/ connectors_admin(role) \/ occupancy_admin(role)
          \/ muster_page(role) \/ tenants_admin(role) \/ sdk_admin(role)
    \/ transport_board_api \/ sensor_temperature \/ sso_callback \/ occupancy_log
    \/ muster_checkin \/ OtherWriters

CNext ==
    /\ UNCHANGED scope
    /\ \/ OneTransaction /\ UNCHANGED flight
       \/ \E role \in ROLE_LEVELS : cameras(role) \/ import_users(role)
       \/ FinishToggle \/ ImportFinds \/ ImportWrites

CSpec == CInit /\ [][CNext]_cvars

-----------------------------------------------------------------------------
(* Properties.                                                             *)

\* A row never refers, through a FOREIGN KEY column, to a row that is gone:
\* not after a delete whose ON DELETE clause had to reach it, and not when a
\* form, an import or an SSO callback carries an id deleted in the meantime
\* (db.get_conn switches the keys on for each connection it opens).
NoDanglingKey ==
    \A r \in rows : \A c \in ForeignKeys(r.tbl) :
        r.ref[c] = Null \/ Has(Schema[r.tbl].cols[c].to, r.ref[c])

Lists == {list_persons, list_subjects, list_sessions, list_shifts, list_timetable,
          list_holidays, list_contractors, list_ppe_incidents, site_muster_for,
          list_cameras, list_bus_routes, list_boardings, list_sensor_readings,
          list_door_log, list_exams, list_rooms, list_musters, list_branches,
          list_substitutions}

\* A list shows beside a record the name of the site, route, stop, contractor,
\* department or subject that the record was written for, or no name once that
\* row is deleted: never the name of a row made later, although many of these
\* columns hold an id that no FOREIGN KEY clears.  And the id that add_contractor
\* and add_room answer with is that of a row of that name on that site, also when
\* the INSERT was passed over because it is there already.
ListsNameTheRightRow ==
    /\ \A list \in Lists : \A e \in list : \A c \in DOMAIN e.names :
          e.names[c] \in {Blank, e.row.about[c]}
    /\ answer.id # Null =>
          \E r \in WithId(answer.tbl, answer.id) :
             /\ r.key = answer.key
             /\ answer.tbl = "rooms" => r.ref["branch_id"] = answer.site

\* Deleting a department, a branch or a tenant takes along the holidays of the
\* branch and what a tenant owns, and no row that is about a person, a room, a
\* shift or a subject.
OwnedByPlace == {"holidays", "sso_providers", "scim_clients", "kms_keys", "sdk_clients"}
PlacesLeaveRecords ==
    [][LET gone == {<<r.tbl, r.id>> : r \in rows} \ {<<r.tbl, r.id>> : r \in rows'}
       IN (\E g \in gone : g[1] \in {"departments", "branches", "tenants"})
             => Cardinality({g \in gone : g[1] \notin OwnedByPlace}) = 1]_rows
=============================================================================
