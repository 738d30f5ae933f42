SPECIFICATION FairSpec
CONSTANTS
    Targets <- Both
    Providers <- AllThree
    MarkGap = 1
    MaxMarks = 2
    MaxRefused = 5
    MaxLost = 1
    MaxLocks = 1
    MaxCrashes = 1
INVARIANT SentOnce
INVARIANT NothingForgotten
PROPERTY AllSettle
CHECK_DEADLOCK FALSE
