------------------------------ MODULE Startup ------------------------------
(***************************************************************************)
(* db.init_db, which every process runs when it imports app.py, on an      *)
(* empty file, on the database of an older version, or on one that another *)
(* process is using or migrating.  DDL is outside any transaction: each    *)
(* statement stands when the next one fails.  The seeds are one            *)
(* transaction, which takes the write lock with its first INSERT.          *)
(***************************************************************************)
EXTENDS Integers, Sequences, SequencesExt

CONSTANTS Procs,     \* processes
          Added,     \* [table -> columns that later versions add, in their order]
          Keys,      \* keys of DEFAULT_SETTINGS
          MaxEdits,  \* bound: changes made through the pages
          MaxEnds    \* bound: processes that end, or find the database locked

VARIABLES tables, columns, \* of the file: <<table, column>>
          indexed,         \* SCHEMA_INDEXES have been created
          settings,        \* [Keys -> value]
          admins, departments,
          proc,            \* [Procs -> where it is]
          chosen,          \* history: [Keys -> the value an administrator gave last]
          founded,         \* history: there was a time without administrators
          removed,         \* history: an administrator was deleted
          edits, ends

svars == <<tables, columns, indexed, settings, admins, departments, proc,
           chosen, founded, removed, edits, ends>>
file == <<tables, columns, indexed, settings, admins, departments>>
history == <<chosen, founded, removed>>

\* The migrations, in the order of the code.
Migrations == <<"persons", "admin_users">>
Tables == ToSet(Migrations)
AllColumns == UNION {{<<t, c>> : c \in ToSet(Added[t])} : t \in Tables}
Of(t, cols) == {x \in cols : x[1] = t}

Off == [step |-> "off", at |-> 1, seen |-> {}]
At(p, step) == proc[p].step = step
Table(p) == Migrations[proc[p].at]
Go(p, to) == proc' = [proc EXCEPT ![p] = to]
Step(p, step) == Go(p, [proc[p] EXCEPT !.step = step])

Empty ==
    /\ tables = {} /\ columns = {} /\ indexed = FALSE
    /\ settings = [k \in Keys |-> "none"] /\ admins = {} /\ departments = {}
\* An older version, or a migration that was interrupted.
Older ==
    /\ tables = Tables /\ columns \in SUBSET AllColumns /\ indexed = FALSE
    /\ settings \in [Keys -> {"none", "default", "set"}]
    /\ admins \in {{}, {"root"}} /\ departments = {}
Init ==
    /\ Empty \/ Older
    /\ proc = [p \in Procs |-> Off]
    /\ chosen = [k \in Keys |-> IF settings[k] = "set" THEN "set" ELSE "none"]
    /\ founded = (admins = {}) /\ removed = FALSE
    /\ edits = 0 /\ ends = 0

-----------------------------------------------------------------------------
Import(p) ==
    /\ At(p, "off")
    /\ Step(p, "schema")
    /\ UNCHANGED <<file, history, edits, ends>>

\* executescript(SCHEMA): CREATE TABLE IF NOT EXISTS, one after the other, where
\* admin_users comes before persons.
CreateTables(p) ==
    /\ At(p, "schema")
    /\ \/ /\ tables = Tables
          /\ Step(p, "info") /\ UNCHANGED tables
       \/ \E i \in DOMAIN Migrations :
          /\ Migrations[i] \notin tables /\ \A j \in (i + 1)..Len(Migrations) : Migrations[j] \in tables
          /\ tables' = tables \cup {Migrations[i]} /\ UNCHANGED proc
    /\ UNCHANGED <<columns, indexed, settings, admins, departments, history, edits, ends>>

TableInfo(p) ==
    /\ At(p, "info")
    /\ Go(p, [proc[p] EXCEPT !.step = "alter", !.seen = Of(Table(p), columns)])
    /\ UNCHANGED <<file, history, edits, ends>>

\* ALTER TABLE ... ADD COLUMN for what was not there when the columns were
\* listed.  A column that another process added since is a duplicate: the import
\* fails, and with it the process.
AddColumn(p) ==
    /\ At(p, "alter")
    /\ LET cols == Added[Table(p)]
           todo == {i \in DOMAIN cols : <<Table(p), cols[i]>> \notin proc[p].seen}
       IN  \/ /\ todo = {}
              /\ Go(p, IF proc[p].at < Len(Migrations)
                       THEN [step |-> "info", at |-> proc[p].at + 1, seen |-> {}]
                       ELSE [Off EXCEPT !.step = "index"])
              /\ UNCHANGED columns
           \/ \E i \in todo :
              LET next == <<Table(p), cols[i]>>
              IN  /\ \A j \in todo : i <= j
                  /\ IF next \in columns THEN Go(p, Off) /\ UNCHANGED columns
                     ELSE /\ columns' = columns \cup {next}
                          /\ Go(p, [proc[p] EXCEPT !.seen = @ \cup {next}])
    /\ UNCHANGED <<tables, indexed, settings, admins, departments, history, edits, ends>>

\* executescript(SCHEMA_INDEXES) needs the columns.
CreateIndexes(p) ==
    /\ At(p, "index")
    /\ IF columns = AllColumns THEN indexed' = TRUE /\ Step(p, "seed")
       ELSE Go(p, Off) /\ UNCHANGED indexed
    /\ UNCHANGED <<tables, columns, settings, admins, departments, history, edits, ends>>

\* (Mutant of Seeded: INSERT OR REPLACE.)
SeededAnew(values) == [k \in Keys |-> "default"]
\* INSERT OR IGNORE INTO settings
Seeded(values) == [k \in Keys |-> IF values[k] = "none" THEN "default" ELSE values[k]]

Seed(p) ==
    /\ At(p, "seed")
    /\ settings' = Seeded(settings)
    /\ admins' = IF admins = {} THEN {"admin"} ELSE admins
    /\ departments' = departments \cup {"General"}
    /\ Step(p, "up")
    /\ UNCHANGED <<tables, columns, indexed, history, edits, ends>>

-----------------------------------------------------------------------------
\* What a process that is up does with these tables.
Edit(p) == At(p, "up") /\ edits < MaxEdits /\ edits' = edits + 1 /\ UNCHANGED <<proc, ends>>

set_setting(p, k) ==
    /\ Edit(p)
    /\ settings' = [settings EXCEPT ![k] = "set"] /\ chosen' = [chosen EXCEPT ![k] = "set"]
    /\ UNCHANGED <<tables, columns, indexed, admins, departments, founded, removed>>
create_admin(p, name) ==
    /\ Edit(p) /\ name \notin admins
    /\ admins' = admins \cup {name}
    /\ founded' = (founded \/ name = "admin")
    /\ UNCHANGED <<tables, columns, indexed, settings, departments, chosen, removed>>
delete_admin(p, name) ==
    /\ Edit(p) /\ name \in admins
    /\ admins' = admins \ {name}
    /\ founded' = (founded \/ admins = {name}) /\ removed' = TRUE
    /\ UNCHANGED <<tables, columns, indexed, settings, departments, chosen>>
delete_department(p, name) ==
    /\ Edit(p) /\ name \in departments
    /\ departments' = departments \ {name}
    /\ UNCHANGED <<tables, columns, indexed, settings, admins, history>>

\* A crash, a restart, "database is locked" in the middle of a start.
End(p) ==
    /\ ~At(p, "off") /\ ends < MaxEnds
    /\ ends' = ends + 1
    /\ Go(p, Off)
    /\ UNCHANGED <<file, history, edits>>

Next ==
    \E p \in Procs :
       \/ Import(p) \/ CreateTables(p) \/ TableInfo(p) \/ AddColumn(p)
       \/ CreateIndexes(p) \/ Seed(p) \/ End(p)
       \/ \E k \in Keys : set_setting(p, k)
       \/ \E name \in {"admin", "root"} : create_admin(p, name) \/ delete_admin(p, name)
       \/ \E name \in departments : delete_department(p, name)

Spec == Init /\ [][Next]_svars

-----------------------------------------------------------------------------
\* "Safe to call repeatedly" (init_db), also for two processes at once, after a
\* crash in the middle and on an older database: a process that is up has every
\* column and every index, a value for each setting and, unless one was deleted,
\* an administrator; no start takes back what an administrator has set; and the
\* default account is there only if somebody made it or there was a time without
\* any.
StartsComplete ==
    /\ \A p \in Procs : At(p, "up") =>
          /\ columns = AllColumns /\ indexed
          /\ \A k \in Keys : settings[k] # "none"
          /\ admins = {} => removed
    /\ \A k \in Keys : chosen[k] # "none" => settings[k] = chosen[k]
    /\ "admin" \in admins => founded
=============================================================================
