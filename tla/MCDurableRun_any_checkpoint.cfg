CONSTANTS
    PureStep = {p1}
    KeyedStep = {}
    UnsafeStep = {u1}
    ApprovalKey = {a1}
    CheckpointKey = {c1}
    Command = {m1}
    Origin = origin
    MaxEvents = 6
    MaxForks = 1
    MaxFlying = 1
    CheckpointWhenSettled = FALSE

SPECIFICATION Spec
CHECK_DEADLOCK FALSE
INVARIANT TypeOK
INVARIANT StatusTellsTheTruth
PROPERTY StoppedIsFinal
