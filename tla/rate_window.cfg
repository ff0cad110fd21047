SPECIFICATION Spec
CONSTANTS
    r1 = r1
    r2 = r2
    r3 = r3
    Requests = {r1, r2, r3}
    Limit = 1
    Ttl = 1000
    BlockDuration = 1000
    Steps = {1000}
    MaxDelay = 0
INVARIANT
    WindowAsConfigured
