CONSTANTS
    Part = {"events"}
    s1 = s1
    s2 = s2
    a = a
    b = b
    d = d
    m1 = m1
    h1 = h1
    h2 = h2
    Server = {s1, s2}
    Call = {a, b, d}
    Home <- MCHome
    Asks <- MCAsks
    Mortal = {s1}
    Op = {o1, o2}
    NoVersion = NoVersion
    NoCall = NoCall
    MaxRevision = 1
    Message = {m1}
    Sender = {h1}
    Sends <- SentOnce
    Canceller = {k1}
    Driver = driver
    MaxAttempts = 2
    Artifact = {x1}
    Flusher = {f1}
    Stream = {z1}
    MaxEvents = 2
    LiveCapacity = 1
    Process = {p1, p2}
    Interval = 1
    MaxFaults = 0

SPECIFICATION A2aSpec
CHECK_DEADLOCK FALSE
INVARIANT ArtifactsPrecedeFinal
