SPECIFICATION EnrolmentSpec
CONSTANTS
    w1 = w1
    w2 = w2
    t1 = t1
    t2 = t2
    Persons = {p1}
    Workers = {w1, w2}
    Threads = {t1}
    WorkerOf <- OneThread
    Window = 1
    VotesNeeded = 1
    MaxVotes = 1
    Cooldown = 1
    MaxFaces = 1
    MaxTime = 0
    MaxRestarts = 0
    Viewers = {}
    Faces = {}
    BlinkWindow = 1
    MotionWindow = 1
    Ttl = 1
    LastSecond = 0
    MaxFrames = 0
    Folders = {a, b}
    Concurrency = 2
    NIMGS = 2
    MaxEncrypts = 1
    FolderCount = 0
    Crops = {}
    MaxRequests = 0
    MaxDeletes = 1
    MaxFaults = 0
    MaxPerson = 0
    MaxChanges = 0
    MaxCrashes = 0
 
PROPERTY EnrolmentCompletes
CHECK_DEADLOCK FALSE
