\* Two callers racing, Redis commands may raise; the cooldown is longer than the window.
CONSTANTS
    Callers = {c1, c2}
    None = None
    Threshold = 2
    Window = 1
    OpenFor = 2
    SuccessThreshold = 1
    RedisMayFail = TRUE
    MaxClock = 6
    MaxCalls = 5
SPECIFICATION Spec
CHECK_DEADLOCK FALSE
SYMMETRY Symmetry
INVARIANT TypeOK
INVARIANT NoSpuriousOpen
INVARIANT NoPhantomFailures
INVARIANT CooldownIsBounded
