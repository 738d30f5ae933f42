SPECIFICATION MCSpec
CONSTANTS
    Keys = {k1, k2}
    Threads = {t1, t2}
    Capacity <- Two
    Window <- Two
    GcAfter = 4
    GcAt = 1
    GcScan = 1
    MaxDelay = 1
    MaxTime = 6
    People = {p1}
    Zones <- EveryZone
    Threshold = 15
    LastDay = 2
    MaxSignals = 3
    MaxCrashes = 1
    Phones = {f1}
    Points <- Grid
    Names <- NamesInOrder
    Fence <- Fences
    Speed = 2
    MaxFixes = 1
    MaxEdits = 2
    MaxTicks = 1
    w1 = w1
    c1 = c1
    Persons = {p1}
    Workers = {w1}
    Cameras = {c1}
    Exams = {1}
    Hours <- AllAlong
    CheckEvery = 2
    Grace = 1
    ImposterGap = 2
    LastTick = 11
    MaxFaults = 1
SYMMETRY Symmetry
 
INVARIANT SignalsMarkTheDay
INVARIANT GeofenceHolds
 
PROPERTY RefusedWhenFull
 
CHECK_DEADLOCK FALSE
