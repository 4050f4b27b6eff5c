\* All three servers; clients come, leave at any time, and use a descriptor
\* again.  The streams are so small that a client and the server can stand off.
CONSTANTS
    Programs <- MCEchoes
    Clients = {1, 2, 3}
    Once = {2, 3}
    Message <- MCMessage
    Bound = 5
    ServerSocket = 3
    Fds = {4, 5}
    MaxBuf = 2
    Cap = 1
SPECIFICATION FairSpec
INVARIANTS
    EchoExact
PROPERTIES
    ClientsGoOn
CHECK_DEADLOCK FALSE
