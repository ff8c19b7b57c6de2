\* A patient and a hasty client connect, ask twice, enter the map, disconnect.
CONSTANTS
    Clients <- TwoClients
    Patient <- OnePatient
    MaxSent <- Packets
    Rows <- FirstRow
    IOThreads = 2
    Failing = TRUE
SPECIFICATION FairSpec
CHECK_DEADLOCK FALSE
INVARIANTS
    HandlersFindUser
    TablesAgree
    NoGhosts
    CodesDistinct
PROPERTIES
    Forgotten
    Answered
