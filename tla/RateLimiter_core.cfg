\* Two requests of one IP with two attempts each, one slot, a window of four
\* ticks (two seconds).
CONSTANTS
    r1 = r1
    r2 = r2
    r3 = r3
    k1 = k1
    k2 = k2
    Requests = {r1, r2}
    Keys = {k1}
    NoKey = NoKey
    IpKey <- OneIp
    AuthKey <- NoAuth
    LimitOf <- One
    WindowSecondsOf <- Two
    TicksPerSecond = 2
    WatchRetries = 2
    MaxClock = 9
SPECIFICATION Spec
SYMMETRY Symmetry
CHECK_DEADLOCK FALSE
INVARIANT TypeOK
INVARIANT NeverOverLimit
INVARIANT NoEarlyEviction
INVARIANT SlidingWindow
INVARIANT RetryAfterIsEnough
INVARIANT LoopNeverFallsThrough
