\* A client leaves between the test and the write.
CONSTANTS
    ServerSocket = 3
    FirstFd = 4
    MaxClientNum = 6
    Unknown <- MCNone
    Departures = TRUE
SPECIFICATION FairSpec
PROPERTIES
    HandoverEnds
CHECK_DEADLOCK FALSE
