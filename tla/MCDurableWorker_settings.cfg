CONSTANTS
    Worker = {w1, w2}
    Operator = {o1}
    Nobody = nobody
    Cancellable = {}
    Mortal = {}
    LeaseTtl = 2
    MaxPollAttempts = 1
    Setting <- SupervisedOrFaulty

SPECIFICATION Spec
SYMMETRY WorkerSymmetry
CHECK_DEADLOCK FALSE
INVARIANT EffectHappensOnce
INVARIANT NoStrandedLease
INVARIANT DriverIsBehindStore
