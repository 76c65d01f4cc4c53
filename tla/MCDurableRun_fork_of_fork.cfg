CONSTANTS
    PureStep = {}
    KeyedStep = {k1}
    UnsafeStep = {}
    ApprovalKey = {}
    CheckpointKey = {c1}
    Command = {m1}
    Origin = origin
    MaxEvents = 8
    MaxForks = 1
    MaxFlying = 2
    CheckpointWhenSettled = FALSE

SPECIFICATION Spec
CHECK_DEADLOCK FALSE
INVARIANT CheckpointsForkable
