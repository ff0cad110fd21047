SPECIFICATION FairSpec
CONSTANTS
    Keys = {k1, k2}
    Readers = {r1, r2}
    Writers = {w1}
    Reviews = {v1}
    TTL = 2
    MaxDelay = 1
INVARIANTS
    TypeOK
    BoundedStaleness
    InvalidationReaches
PROPERTY
    SettlesOnLastVersion
