SPECIFICATION FramesSpec
CONSTANTS
    w1 = w1
    w2 = w2
    t1 = t1
    t2 = t2
    Persons = {p1}
    Workers = {w1}
    Threads = {t1}
    WorkerOf <- OneThread
    Window = 1
    VotesNeeded = 2
    MaxVotes = 3
    Cooldown = 2
    MaxFaces = 2
    MaxTime = 5
    MaxRestarts = 1
    Viewers = {v1, v2}
    Faces = {f1, f2}
    BlinkWindow = 1
    MotionWindow = 1
    Ttl = 1
    LastSecond = 2
    MaxFrames = 3
    Folders = {a}
    Concurrency = 1
    NIMGS = 1
    MaxEncrypts = 0
    FolderCount = 0
    Crops = {}
    MaxRequests = 0
    MaxDeletes = 0
    MaxFaults = 0
    MaxPerson = 0
    MaxChanges = 0
    MaxCrashes = 0
SYMMETRY Symmetry
 
INVARIANT LiveIsEarned
PROPERTY MarksHaveVotes
CHECK_DEADLOCK FALSE
