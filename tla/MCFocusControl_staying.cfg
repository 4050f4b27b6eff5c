\* Clients only come, and name each other in requests.
CONSTANTS
    ServerSocket = 3
    FirstFd = 4
    MaxClientNum = 7
    Unknown <- MCNone
    Departures = FALSE
SPECIFICATION FairSpec
INVARIANTS
    NeverKilled
    FocusConnected
PROPERTIES
    FocusGranted
    SomeoneHosts
