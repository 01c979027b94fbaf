SPECIFICATION FairSpec
CONSTANTS
    Requests <- HostRequests
    MaxCommands = 6
    MaxFaults = 2
INVARIANTS
    TypeOK
    StopsClean
    Truthful
    Stoppable
PROPERTIES
    Streams
CHECK_DEADLOCK FALSE
