CONSTANTS
    PureStep = {}
    KeyedStep = {}
    UnsafeStep = {u1}
    ApprovalKey = {}
    CheckpointKey = {c1}
    Command = {m1}
    Origin = origin
    MaxEvents = 10
    MaxForks = 1
    MaxFlying = 2
    CheckpointWhenSettled = TRUE

SPECIFICATION Spec
CHECK_DEADLOCK FALSE
INVARIANT NoDoubleEffect
INVARIANT ExecutionIsRecorded
INVARIANT CheckpointsForkable
INVARIANT CompletedRunShowsItsEffects
INVARIANT AmbiguityStopsTheRun
