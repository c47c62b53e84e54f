SPECIFICATION Spec
CONSTANTS
    c1 = c1
    c2 = c2
    Client <- MCClients
    NoSocket = NoSocket
    PrivateOnly <- MCNobody
    MaxSockets = 3
    MaxSends = 2
    MaxBreaks = 1
    MaxCrashes = 0
CHECK_DEADLOCK FALSE
INVARIANTS
    TypeOK
    Roster
    Announced
SYMMETRY MCSymmetry
