SPECIFICATION Spec
CONSTANTS
    Logins = {l1, l2}
    Refreshes = {r1, r2, r3}
    Logouts = {o1}
    NoToken = NoToken
SYMMETRY Symmetric
INVARIANTS
    TypeOK
    OneUsableToken
    EndedStaysEnded
    NoFalseAlarm
