\* Three requests of one body are enough for a lock to be deleted by a stranger.
CONSTANTS
    r1 = r1
    r2 = r2
    r3 = r3
    b1 = b1
    b2 = b2
    NoBody = NoBody
    Ttl = 2
    Requests = {r1, r2, r3}
    Bodies = {b1}
SPECIFICATION Spec
INVARIANT NoDuplicateInTime
