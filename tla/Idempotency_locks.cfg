\* Three requests, two bodies, a lock of two ticks; nothing else is bounded.
CONSTANTS
    r1 = r1
    r2 = r2
    r3 = r3
    b1 = b1
    b2 = b2
    NoBody = NoBody
    Ttl = 2
    Requests = {r1, r2, r3}
    Bodies = {b1, b2}
SPECIFICATION FairSpec
INVARIANT TypeOK
INVARIANT ExclusiveUnlessOverrun
PROPERTY LockGoesAway
