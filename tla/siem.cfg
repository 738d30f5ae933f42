SPECIFICATION FairSpec
CONSTANTS
    t1 = t1
    t2 = t2
    Sinks = {1, 2}
    Drainers = {t1, t2}
    Limit = 1
    MaxRows = 2
    MaxFaults = 2
INVARIANT StreamedInOrder
PROPERTY EveryRowLeaves
CHECK_DEADLOCK FALSE
