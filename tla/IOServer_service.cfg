\* Two clients and every kind of request, at the boundaries of the length check.
CONSTANTS
    ann = ann
    bob = bob
    cal = cal
    Client <- TwoClients
    MaxFd = 2
    Sock = 0
    Free = Free
    Listener = Listener
    VectorLength = 2
    Requests <- AllRequests
    MaxRequests = 2
    Backlog = 2
    OobClient <- Nobody
    SockMayFail = FALSE
SYMMETRY SwapClients
SPECIFICATION Spec
INVARIANTS
    TypeOK
    InStep
    ExecutedInOrder
    BurstsUnbroken
PROPERTIES
    ImplementsService
CHECK_DEADLOCK FALSE
