SPECIFICATION FairSpec
CONSTANTS
    c1 = c1
    c2 = c2
    Client <- MCClients
    NoSocket = NoSocket
    PrivateOnly <- MCSecond
    MaxSockets = 4
    MaxSends = 1
    MaxBreaks = 0
    MaxCrashes = 1
CHECK_DEADLOCK FALSE
INVARIANT
    Roster
PROPERTIES
    QueuedAreSent
    AtMostOnce
