SPECIFICATION Spec
CONSTANTS
    t1 = t1
    organizer = organizer
    hiker = hiker
    c1 = c1
    Treks = {t1}
    Users = {organizer, hiker}
    Organizer <- ByO
    Asks = {q1}
    Answers = {a1, a2}
    About <- OfU
    Caller <- OAnswers
    Sends = {m1, m2}
    Clients = {c1}
    Sender <- USends
    Owner <- OWatches
    PageSize = 1
    MaxCalls = 4
INVARIANTS
    TypeOK
    ChatOnlyAfterAccept
    AcceptedCanChat
    NoticeTellsStatus
    NothingMissed
    LiveIsStored
    ThreadDated
CHECK_DEADLOCK FALSE
PROPERTIES
    EveryoneCatchesUp
    ChatImplemented
