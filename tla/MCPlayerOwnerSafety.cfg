SPECIFICATION Spec
CONSTANTS
    A = A
    B = B
    c1 = c1
    c2 = c2
    c3 = c3
    p = p
    None = None
    Node = {A, B}
    Uid = {p}
    Conn = {c1, c2, c3}
    NodeOf <- ReturnNodeOf
    UidOf <- OnePlayer
    Operated = {}
    Playing = {c1, c3}
INVARIANTS
    TypeOK
    SessionsNameLiveHandlers
    OfflineMeansGone
PROPERTIES
    OnlyLateWorkIsTakenUp
    KickNoticeSparesOwner
CHECK_DEADLOCK FALSE
SYMMETRY SameServer
CONSTRAINT OneRound
