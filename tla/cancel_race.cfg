SPECIFICATION FairSpec
CONSTANTS
    t1 = t1
    t2 = t2
    c1 = c1
    c2 = c2
    c3 = c3
    u1 = u1
    u2 = u2
    Treks = {t1}
    Users = {u1, u2}
    Creates = {c1, c2}
    Cancels = {k1, k2}
    Updates = {p1}
    Removes = {d1}
    Seats <- OneSeat
    NewTotals = {2}
    Caller <- TwoCallers
    Organizer <- OneOrganizer
    MaxRetries = 1
INVARIANTS
    SurplusBounded
PROPERTY
    ImplementsLedger
    EveryCallEnds
