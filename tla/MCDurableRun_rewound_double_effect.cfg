CONSTANTS
    PureStep = {}
    KeyedStep = {}
    UnsafeStep = {u1}
    ApprovalKey = {}
    CheckpointKey = {c1}
    Command = {m1, m2}
    Origin = origin
    MaxEvents = 10
    MaxForks = 0
    MaxFlying = 2
    CheckpointWhenSettled = FALSE

SPECIFICATION Spec
SYMMETRY CommandSymmetry
CHECK_DEADLOCK FALSE
CONSTRAINT NeverPaused
INVARIANT NoDoubleEffect
