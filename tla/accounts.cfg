SPECIFICATION Spec
CONSTANTS
    Signups = {g1}
    Logins = {l1, l2, l3}
    Seeds = {d1}
    Emails = {e1, e2}
    SeedEmail = e1
    Identities = {i1, i2}
    Password = Password
    Nothing = Nothing
    Publishes = {p1}
    Removals = {k1}
    Reviewers = {v1, v2, v3}
    MaxStarted = 4
SYMMETRY Symmetric
INVARIANTS
    TypeOK
    OneAccountEach
    AnswersStand
    TreksCounted
    RatingsSettle
CHECK_DEADLOCK FALSE
