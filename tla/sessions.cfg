SPECIFICATION MCSpec
CONSTANTS
    maths = maths
    art = art
    Slots <- Day
    Threads = {t1, t2}
    MaxSessions = 4
    MaxSubjectDeletes = 1
    MaxCrashes = 1
    Names = {n1, n2}
    Blank = Blank
    MaxRows = 3
    Views <- Families
    Procs = {q1, q2}
    Added <- AddedColumns
    Keys = {"work_start_time"}
    MaxEdits = 2
    MaxEnds = 2
    Courses <- InOrder
    HomeOf <- Home
    Students <- People
    Departments = {"", "science"}
    MinPct = 750
    MaxClasses = 2
    MaxWrites = 4
SYMMETRY Symmetry
INVARIANT AllSlotsOrNone
INVARIANT ActiveSessionExists
INVARIANT NoDanglingKey
INVARIANT ListsNameTheRightRow
INVARIANT StartsComplete
INVARIANT DefaultersAreReal
PROPERTY OneDuplicateEach
PROPERTY PlacesLeaveRecords
CHECK_DEADLOCK FALSE
