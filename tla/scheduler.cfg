SPECIFICATION Spec
CONSTANTS
    Processes = {p1, p2}
    Sundays <- LastDay
    BackupOn = TRUE
    MaxDays = 1
    FirstSlot = 6
    MaxSlow = 1
    MaxFaults = 2
SYMMETRY Symmetry
INVARIANT TickCatchesUp
INVARIANT ExtraRunsAccounted
CHECK_DEADLOCK FALSE
