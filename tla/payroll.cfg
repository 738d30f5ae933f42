SPECIFICATION MCSpec
CONSTANTS
    Persons = {p1}
    Branches = {"b1"}
    MaxDay = 2
    MaxLeaves = 2
    People = {p1, p2}
    Zones <- EveryZone
    LastDay = 4
    Week = 2
    MinPrev = 2
    RiskWindow = 2
    RecentLimit = 1
    Readers = {r1, r2}
    Ttl = 2
    MaxTime = 5
    MaxRows = 2
    MaxSent = 3
    Runners = {b1, b2}
    MaxSecond = 1
    MaxRuns = 2
    MaxCut = 1
SYMMETRY Symmetry
INVARIANT NoAbsenceHidden
INVARIANT PageMovesForward
INVARIANT ReportsMatchTheTable
INVARIANT AnalyticsAreRecent
 
INVARIANT LoggedOkHasACopy
CHECK_DEADLOCK FALSE
