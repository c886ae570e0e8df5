SPECIFICATION FairSpec
CONSTANTS
    A = A
    B = B
    c1 = c1
    c2 = c2
    c3 = c3
    p = p
    None = None
    Node = {A, B}
    Uid = {p}
    Conn = {c1, c2}
    NodeOf <- MoveNodeOf
    UidOf <- OnePlayer
    Operated = {A, B}
    Playing = {c1}
PROPERTIES
    OldServersLetGo
CHECK_DEADLOCK FALSE
