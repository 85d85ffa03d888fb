\* Two callers, Redis always answers, a recovery takes one success.
CONSTANTS
    Callers = {c1, c2}
    None = None
    Threshold = 1
    Window = 1
    OpenFor = 2
    SuccessThreshold = 1
    RedisMayFail = FALSE
    MaxClock = 6
    MaxCalls = 5
SPECIFICATION Spec
CHECK_DEADLOCK FALSE
PROPERTY CooldownBlocks
