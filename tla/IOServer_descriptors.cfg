\* Three clients for two descriptors, one of them below the listening socket's;
\* a connection and the listening socket may fail.
CONSTANTS
    ann = ann
    bob = bob
    cal = cal
    Client <- ThreeClients
    MaxFd = 2
    Sock = 1
    Free = Free
    Listener = Listener
    VectorLength = 2
    Requests <- Queries
    MaxRequests = 1
    Backlog = 2
    OobClient <- JustAnn
    SockMayFail = TRUE
SPECIFICATION Spec
INVARIANTS
    DescriptorsWatched
    SnapshotValid
CHECK_DEADLOCK FALSE
