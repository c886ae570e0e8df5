CONSTANTS
    Conn = {c1, c2}
    Ticket = {t1}
    None = None
    Expiry <- MCExpiry
    MaxConnections = 2
    SendQueueSize = 1
    MaxRequests = 2
    MaxTime = 2
SPECIFICATION Spec
INVARIANTS SlotsAreHeld TicketAdmitsOnce
PROPERTIES NoAnswerIsSkipped HandlersEnd
CHECK_DEADLOCK FALSE
