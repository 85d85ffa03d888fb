\* One caller, a breaker never used before: nothing fails but the provider.
CONSTANTS
    Callers = {c1}
    None = None
    Threshold = 2
    Window = 1
    OpenFor = 2
    SuccessThreshold = 2
    RedisMayFail = FALSE
    MaxClock = 6
    MaxCalls = 5
SPECIFICATION Spec
CHECK_DEADLOCK FALSE
INVARIANT OpensAtThreshold
