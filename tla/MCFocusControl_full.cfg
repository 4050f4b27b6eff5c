\* Clients come and go; the process may die of a signal.
CONSTANTS
    ServerSocket = 3
    FirstFd = 4
    MaxClientNum = 6
    Unknown <- MCStrangers
    Departures = TRUE
SPECIFICATION Spec
INVARIANTS
    TypeOK
    SelectServes
    TableServes
    CountMatches
PROPERTIES
    KeepsRoster
CHECK_DEADLOCK FALSE
