\* Two clients race to launch a server, which may fail once.
SPECIFICATION FairSpec
CONSTANTS
    c1 = c1
    c2 = c2
    Nobody = Nobody
    None = None
    Blank = Blank
    Client = {c1, c2}
    MaxServers = 4
    Server <- Launches
    MaxAccidents = 1
INVARIANTS
    TypeOK
    OneServer
PROPERTIES
    RegistrySpec
    ConnectedOrStranded
CHECK_DEADLOCK FALSE
