SPECIFICATION Spec
CONSTANTS
    A = A
    B = B
    a1 = a1
    a2 = a2
    b1 = b1
    grant = grant
    reuse = reuse
    spend = spend
    None = None
    Node = {A, B}
    Conn = {a1, a2, b1}
    On <- Place
    Command = {grant, reuse, spend}
    ReqId <- Ids
    Delta <- Changes
    CacheSize = 1
    Start = 1
    MaxBooked = 2
SYMMETRY SameServer
INVARIANTS
    KnownIsNotExecuted
    BooksBalance
