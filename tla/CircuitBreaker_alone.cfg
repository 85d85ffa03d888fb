\* One caller at a time, Redis always answers: the documented behaviour.
CONSTANTS
    Callers = {c1}
    None = None
    Threshold = 2
    Window = 2
    OpenFor = 2
    SuccessThreshold = 2
    RedisMayFail = FALSE
    MaxClock = 14
    MaxCalls = 9
SPECIFICATION Spec
CHECK_DEADLOCK FALSE
INVARIANT HalfGoThrough
INVARIANT TrackedOpensAtThreshold
PROPERTY CooldownBlocks
