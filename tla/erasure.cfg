SPECIFICATION ErasureSpec
CONSTANTS
    w1 = w1
    w2 = w2
    t1 = t1
    t2 = t2
    Persons = {p1}
    Workers = {w1, w2}
    Threads = {t1, t2}
    WorkerOf <- OneThreadEach
    Window = 1
    VotesNeeded = 1
    MaxVotes = 1
    Cooldown = 1
    MaxFaces = 1
    MaxTime = 0
    MaxRestarts = 0
    Viewers = {}
    Faces = {}
    BlinkWindow = 1
    MotionWindow = 1
    Ttl = 1
    LastSecond = 0
    MaxFrames = 0
    Folders = {a}
    Concurrency = 1
    NIMGS = 1
    MaxEncrypts = 0
    FolderCount = 2
    Crops = {c1}
    MaxRequests = 2
    MaxDeletes = 1
    MaxFaults = 1
    MaxPerson = 0
    MaxChanges = 0
    MaxCrashes = 0
INVARIANT RequestsSettle
 
 
CHECK_DEADLOCK FALSE
