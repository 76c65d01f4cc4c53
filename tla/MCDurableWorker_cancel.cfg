CONSTANTS
    Worker = {w1, w2}
    Operator = {}
    Nobody = nobody
    Cancellable = {w1}
    Mortal = {w1}
    LeaseTtl = 2
    MaxPollAttempts = 1
    Setting <- QuietOnly

SPECIFICATION FairSpec
CHECK_DEADLOCK FALSE
INVARIANT OverlapOnlyAfterExpiry
PROPERTY CancelledCallReturns
