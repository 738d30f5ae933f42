------------------------------- MODULE Backup -------------------------------
(***************************************************************************)
(* cloud_backup.run_backup_once, run by the scheduler of each worker       *)
(* process and by the administrator's button: the archive goes to up to    *)
(* three destinations in a row, and one row of backup_log tells of the     *)
(* last one.  Each destination is a setting that is read when its turn     *)
(* comes, and backup_view may change any of them before: whether one is    *)
(* set is open each time.  Archives of the same second share their name.   *)
(***************************************************************************)
EXTENDS Integers, FiniteSetsExt

CONSTANTS Runners,    \* threads that may run a backup
          MaxSecond,  \* bound: seconds
          MaxRuns,    \* bound: backups begun
          MaxCut  \* bound: runs cut short by the end of their process

VARIABLES second,
          file,     \* [backup_local_dir, the bucket, /tmp, where the command
                    \* copies to -> [name -> the file]]
          log,      \* table backup_log: [run, name, dest, status]
          runner,   \* [Runners -> where run_backup_once is]
          named,    \* history: [name -> runs that chose it]
          cut

bvars == <<second, file, log, runner, named, cut>>

Names == 0..MaxSecond
\* In the order of the code.
Stores == {"local", "url", "command"}
After == [local |-> "url", url |-> "command", command |-> "log"]

\* A file, by the runs that opened it (and so emptied it) and those that wrote
\* their archive to it since.
NoFile == [opened |-> {}, written |-> {}]
Whole(run) == [opened |-> {run}, written |-> {run}]
Off == [step |-> "off", run |-> 0, name |-> 0, dest |-> "none", status |-> "skipped"]
At(r, step) == runner[r].step = step
Go(r, to) == runner' = [runner EXCEPT ![r] = to]
Name(r) == runner[r].name
Run(r) == runner[r].run
runs == MapThenSumSet(LAMBDA n : named[n], Names)

Init ==
    /\ second = 0
    /\ file = [f \in {"dir", "bucket", "tmp", "remote"} |-> [n \in Names |-> NoFile]]
    /\ log = {} /\ cut = 0 /\ named = [n \in Names |-> 0]
    /\ runner = [r \in Runners |-> Off]

Second ==
    /\ second < MaxSecond
    /\ second' = second + 1
    /\ UNCHANGED <<file, log, runner, named, cut>>

\* _build_archive, and the name.
run_backup_once(r) ==
    /\ At(r, "off") /\ runs < MaxRuns
    /\ named' = [named EXCEPT ![second] = @ + 1]
    /\ Go(r, [Off EXCEPT !.step = "local", !.run = runs + 1, !.name = second])
    /\ UNCHANGED <<second, file, log, cut>>

\* The setting is empty.
Skip(r, s) ==
    /\ At(r, s)
    /\ Go(r, [runner[r] EXCEPT !.step = After[s]])
    /\ UNCHANGED <<second, file, log, named, cut>>

\* A destination has been tried: what is known of it replaces what was known of
\* the one before.
\* (Mutant of Tried: the status of a failure is not taken over.)
TriedKeeping(r, s, status) ==
    Go(r, [runner[r] EXCEPT !.step = After[s], !.dest = s,
                            !.status = IF status = "ok" THEN "ok" ELSE @])
Tried(r, s, status) ==
    Go(r, [runner[r] EXCEPT !.step = After[s], !.dest = s, !.status = status])

\* open(..., 'wb') leaves an empty file and f.write fills it: in backup_local_dir,
\* and in /tmp for the command.
Opens(r, s, f) ==
    /\ At(r, s)
    /\ file' = [file EXCEPT ![f][Name(r)].opened = @ \cup {Run(r)}]
    /\ Go(r, [runner[r] EXCEPT !.step = f])
    /\ UNCHANGED <<second, log, named, cut>>
\* A file that was removed since it was opened is written where nobody finds it.
Written(r, f) ==
    file' = [file EXCEPT ![f][Name(r)].written =
                IF Run(r) \in file[f][Name(r)].opened THEN @ \cup {Run(r)} ELSE @]

LocalOpen(r) == Opens(r, "local", "dir")
LocalWrite(r) ==
    /\ At(r, "dir")
    /\ Written(r, "dir") /\ Tried(r, "local", "ok")
    /\ UNCHANGED <<second, log, named, cut>>

\* The PUT: stored and acknowledged, stored with the answer lost, refused.
Put(r) ==
    /\ At(r, "url")
    /\ \/ /\ file' = [file EXCEPT !["bucket"][Name(r)] = Whole(Run(r))]
          /\ \E status \in {"ok", "error"} : Tried(r, "url", status)
       \/ Tried(r, "url", "error") /\ UNCHANGED file
    /\ UNCHANGED <<second, log, named, cut>>

CommandOpen(r) == Opens(r, "command", "tmp")
CommandWrite(r) ==
    /\ At(r, "tmp")
    /\ Written(r, "tmp") /\ Go(r, [runner[r] EXCEPT !.step = "run"])
    /\ UNCHANGED <<second, log, named, cut>>
\* The command copies the file it is handed; without one it fails.
CommandRuns(r) ==
    /\ At(r, "run")
    /\ \/ /\ file["tmp"][Name(r)] # NoFile
          /\ file' = [file EXCEPT !["remote"][Name(r)] = file["tmp"][Name(r)]]
          /\ Go(r, [runner[r] EXCEPT !.step = "remove", !.status = "ok"])
       \/ Go(r, [runner[r] EXCEPT !.step = "remove", !.status = "error"]) /\ UNCHANGED file
    /\ UNCHANGED <<second, log, named, cut>>
\* os.remove raises when another run of the same second has removed the file.
CommandRemoves(r) ==
    /\ At(r, "remove")
    /\ file' = [file EXCEPT !["tmp"][Name(r)] = NoFile]
    /\ Tried(r, "command", IF file["tmp"][Name(r)] = NoFile THEN "error" ELSE runner[r].status)
    /\ UNCHANGED <<second, log, named, cut>>

\* A full disk, a directory that cannot be made, a command that takes more than
\* two minutes: what was opened stays as it is.
Raises(r) ==
    /\ \/ At(r, "local") /\ Tried(r, "local", "error")
       \/ At(r, "dir") /\ Tried(r, "local", "error")
       \/ At(r, "command") /\ Tried(r, "command", "error")
       \/ (At(r, "tmp") \/ At(r, "run")) /\ Tried(r, "command", "error")
    /\ UNCHANGED <<second, file, log, named, cut>>

log_backup(r) ==
    /\ At(r, "log")
    /\ log' = log \cup {[run |-> Run(r), name |-> Name(r), dest |-> runner[r].dest,
                         status |-> runner[r].status]}
    /\ Go(r, Off)
    /\ UNCHANGED <<second, file, named, cut>>

Crash(r) ==
    /\ ~At(r, "off") /\ cut < MaxCut
    /\ cut' = cut + 1
    /\ Go(r, Off)
    /\ UNCHANGED <<second, file, log, named>>

Next ==
    \/ Second
    \/ \E r \in Runners :
          \/ run_backup_once(r) \/ LocalOpen(r) \/ LocalWrite(r) \/ Put(r)
          \/ CommandOpen(r) \/ CommandWrite(r) \/ CommandRuns(r) \/ CommandRemoves(r)
          \/ Raises(r) \/ log_backup(r) \/ Crash(r)
          \/ \E s \in Stores : Skip(r, s)

BSpec == Init /\ [][Next]_bvars

-----------------------------------------------------------------------------
(* Properties.                                                             *)

Place == [local |-> "dir", url |-> "bucket", command |-> "remote"]

\* A row of the log that says "ok" vouches for a copy: the destination it names
\* has the whole archive of that run, whatever failed at the destinations before
\* it, was changed in the settings meanwhile, or is written by other runs; unless
\* another run took its name.
LoggedOkHasACopy ==
    \A row \in log :
        row.status = "ok" /\ named[row.name] = 1 =>
            file[Place[row.dest]][row.name] = Whole(row.run)
=============================================================================
