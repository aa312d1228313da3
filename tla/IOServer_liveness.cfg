\* Clients that close after a last shift, and may stay after a query.
CONSTANTS
    ann = ann
    bob = bob
    cal = cal
    Client <- TwoClients
    MaxFd = 2
    Sock = 1
    Free = Free
    Listener = Listener
    VectorLength = 2
    Requests <- QueriesAndShifts
    MaxRequests = 2
    Backlog = 2
    OobClient <- Nobody
    SockMayFail = FALSE
SPECIFICATION PoliteSpec
PROPERTIES
    EveryRequestSettled
    BackToSelect
CHECK_DEADLOCK FALSE
