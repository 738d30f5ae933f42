----------------------------- MODULE MCPayroll -----------------------------
(***************************************************************************)
(* What reads the tables, and what leaves the system, for TLC.  A          *)
(* behaviour is one of six parts: the payroll report of one person         *)
(* (Payroll), the reports over a table that changes (Reports without its   *)
(* page), the dashboard (Reports, on one day), the memoised analytics      *)
(* (Memo), webhooks and connectors (Deliveries), or backups (Backup).  The *)
(* other parts stay as they began.                                         *)
(***************************************************************************)
EXTENDS Payroll, TLC

CONSTANTS People, Zones, LastDay, Week, MinPrev, RiskWindow, RecentLimit,
          Readers, Ttl, MaxTime, MaxRows, MaxSent,
          Runners, MaxSecond, MaxRuns, MaxCut

VARIABLES part,
          today, zone, registered, rows, page, disturbed,  \* of Reports
          clock, entry, reader,                            \* of Memo
          table, seq, flights, syncing, born, sent, posted, \* of Deliveries
          second, file, log, runner, named, cut            \* of Backup

R == INSTANCE Reports
M == INSTANCE Memo
D == INSTANCE Deliveries
B == INSTANCE Backup

EveryZone == -1..1
Symmetry == Permutations(People) \cup Permutations(Readers) \cup Permutations(Runners)
reports == <<today, zone, registered, rows, page, disturbed>>
memo == <<clock, entry, reader>>
deliveries == <<table, seq, flights, syncing, born, sent, posted>>
backup == <<second, file, log, runner, named, cut>>

ASSUME PageAssumption == IsFiniteSet(People) /\ RecentLimit \in Nat
ASSUME ReportsAssumption ==
    /\ Zones \subseteq -1..1
    /\ {Week, MinPrev, RiskWindow} \subseteq Nat /\ LastDay \in Nat \ {0}
ASSUME MemoAssumption == Ttl \in Nat \ {0}
ASSUME BackupAssumption == MaxSecond \in Nat

MCInit ==
    /\ part \in {"payroll", "reports", "dashboard", "memo", "deliveries", "backup"}
    /\ Init /\ R!Init /\ M!Init /\ D!Init /\ B!Init
    /\ part # "reports" => zone = 0
MCNext ==
    /\ UNCHANGED part
    /\ \/ part = "payroll" /\ Next
          /\ UNCHANGED <<reports, memo, deliveries, backup>>
       \/ part = "reports" /\ R!Writes
          /\ UNCHANGED <<vars, memo, deliveries, backup>>
       \/ part = "dashboard" /\ R!Next /\ today' = today
          /\ UNCHANGED <<vars, memo, deliveries, backup>>
       \/ part = "memo" /\ M!Next
          /\ UNCHANGED <<vars, reports, deliveries, backup>>
       \/ part = "deliveries" /\ D!Next
          /\ UNCHANGED <<vars, reports, memo, backup>>
       \/ part = "backup" /\ B!Next
          /\ UNCHANGED <<vars, reports, memo, deliveries>>
MCSpec == MCInit /\ [][MCNext]_<<part, vars, reports, memo, deliveries, backup>>

PageMovesForward == part = "dashboard" => R!PageMovesForward
ReportsMatchTheTable == part = "reports" => R!ReportsMatchTheTable
AnalyticsAreRecent == M!AnalyticsAreRecent
StatusesAreOwn == D!StatusesAreOwn
LoggedOkHasACopy == B!LoggedOkHasACopy
=============================================================================
