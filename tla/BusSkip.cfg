SPECIFICATION Spec
CONSTANTS
    c1 = c1
    c2 = c2
    Client <- MCClients
    NoSocket = NoSocket
    PrivateOnly <- MCNobody
    MaxSockets = 2
    MaxSends = 0
    MaxBreaks = 1
    MaxCrashes = 0
CHECK_DEADLOCK FALSE
INVARIANT
    NobodySkipped
