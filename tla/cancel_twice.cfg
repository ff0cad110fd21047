SPECIFICATION Spec
CONSTANTS
    t1 = t1
    t2 = t2
    c1 = c1
    c2 = c2
    c3 = c3
    u1 = u1
    u2 = u2
    Treks = {t1}
    Users = {u1, u2}
    Creates = {c1, c2, c3}
    Cancels = {k1, k2}
    Updates = {}
    Removes = {}
    Seats <- OneSeat
    NewTotals = {1, 2}
    Caller <- OneCaller
    Organizer <- OneOrganizer
    MaxRetries = 0
INVARIANT
    NeverOverbooked
