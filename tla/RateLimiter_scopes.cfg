\* An IP and an identifier shared with a second client, one slot per key and a
\* window of one tick, up to two attempts.
CONSTANTS
    r1 = r1
    r2 = r2
    r3 = r3
    k1 = k1
    k2 = k2
    Requests = {r1, r3}
    Keys = {k1, k2}
    NoKey = NoKey
    IpKey <- MixedIp
    AuthKey <- MixedAuth
    LimitOf <- One
    WindowSecondsOf <- One
    TicksPerSecond = 1
    WatchRetries = 2
    MaxClock = 2
SPECIFICATION FairSpec
CHECK_DEADLOCK FALSE
INVARIANT AdmittedIsCounted
PROPERTY HitTerminates
PROPERTY Implements
