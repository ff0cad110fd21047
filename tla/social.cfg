SPECIFICATION Spec
CONSTANTS
    r1 = r1
    s1 = s1
    s2 = s2
    e1 = e1
    e2 = e2
    Runs = {s1, s2}
    Emails <- TwoEmails
    Real = {r1}
    RealPosts <- RealP
    Modes = {"seed", "reset", "wipe"}
    Persons <- AllPersons
    Posts <- AllPosts
    Author <- OfPost
    Edges <- Named
    Adds = {a1, a2}
    Removes = {b1}
    MaxStarted = 3
SYMMETRY Symmetric
INVARIANTS
    TypeOK
    RealCountsMatch
    DemoCountsMatch
    SeedOnce
CHECK_DEADLOCK FALSE
