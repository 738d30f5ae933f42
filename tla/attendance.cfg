SPECIFICATION Spec
CONSTANTS
    Persons = {p1}
    Threads = {t1, t2}
    MaxDay = 1
    MaxTime = 2
    HourLen = 4
    StartHour = 0
    StartMin = 0
    LateMin = 1
    GapMin = 1
SYMMETRY Symmetry
INVARIANT AtMostOneCheckIn
PROPERTY CheckInIsSettled
PROPERTY ImplementsRegister
CHECK_DEADLOCK FALSE
