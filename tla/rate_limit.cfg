SPECIFICATION FairSpec
CONSTANTS
    r1 = r1
    r2 = r2
    r3 = r3
    Requests = {r1, r2, r3}
    Limit = 1
    Ttl = 1
    BlockDuration = 1
    Steps = {250}
    MaxDelay = 500
INVARIANTS
    TypeOK
    AdmittedWithinLimit
    BoundedWindow
    BlockOutlivesCounter
PROPERTY
    Forgiven
