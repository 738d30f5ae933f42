SPECIFICATION Spec
CONSTANTS
    Processes = {p1}
    Sundays <- LastDay
    BackupOn = TRUE
    MaxDays = 1
    FirstSlot = 6
    MaxSlow = 0
    MaxFaults = 1
INVARIANT RestartNeverReruns
CHECK_DEADLOCK FALSE
