SPECIFICATION DirSpec
CONSTANTS
    p1 = p1
    p2 = p2
    c1 = c1
    NoBody = NoBody
    Peer <- Peers
    Lower <- P1Lower
    Client <- Clients
    Home <- AtP2
    Hosts <- EachOther
    Removable <- Nobody
    Persistent <- Nobody
    Body <- Bodies
    MaxLinks = 1
    MaxEvents = 0
    MaxAdd = 2
    MaxSend = 0
    MaxLoss = 1
INVARIANTS DirTypeOK Synced ConnectionsMatch
CHECK_DEADLOCK FALSE
