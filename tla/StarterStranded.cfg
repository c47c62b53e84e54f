\* One client; the server ends once, at any moment.
SPECIFICATION FairSpec
CONSTANTS
    c1 = c1
    c2 = c2
    Nobody = Nobody
    None = None
    Blank = Blank
    Client = {c1}
    MaxServers = 3
    Server <- Launches
    MaxAccidents = 1
PROPERTIES
    Connected
CHECK_DEADLOCK FALSE
