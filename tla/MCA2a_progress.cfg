CONSTANTS
    Part = {"snapshot", "task", "events"}
    s1 = s1
    s2 = s2
    a = a
    b = b
    d = d
    m1 = m1
    h1 = h1
    h2 = h2
    Server = {s1}
    Call = {a, b}
    Home <- AloneHome
    Asks <- AloneAsks
    Mortal = {s1}
    Op = {o1}
    NoVersion = NoVersion
    NoCall = NoCall
    MaxRevision = 2
    Message = {m1}
    Sender = {h1}
    Sends <- SentOnce
    Canceller = {k1}
    Driver = driver
    MaxAttempts = 1
    Artifact = {x1}
    Flusher = {f1}
    Stream = {}
    MaxEvents = 2
    LiveCapacity = 1
    Process = {p1, p2}
    Interval = 1
    MaxFaults = 1

SPECIFICATION A2aFairSpec
CHECK_DEADLOCK FALSE
INVARIANT PublishedOnce
PROPERTY LockIsReleased
PROPERTY CancelIsTaken
PROPERTY MessageIsTaken
PROPERTY IntentsAreResolved
