\* The console server: two clients, sockets that take some, none or all.
SPECIFICATION FairSpec
CONSTANTS
    CLIENTS = 2
    RAW = 2
    CHUNK = 2
    PEND = 2
    SOCK = 1
    MAX_DROPPED = 1
    MAX_LOST = 1
INVARIANTS
    OutputAccounted
PROPERTIES
    ClientsServed
