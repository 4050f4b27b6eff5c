\* Clients come and go while the list is made; the process may die.
CONSTANTS
    ServerSocket = 3
    FirstFd = 4
    MaxClientNum = 6
    Strays <- MCNobody
    NameLengths <- MCNames
    PictureLengths <- MCPictures
    Departures = TRUE
SPECIFICATION FairListSpec
INVARIANTS
    ListTypeOK
    ListExact
PROPERTIES
    ListComes
CHECK_DEADLOCK FALSE
