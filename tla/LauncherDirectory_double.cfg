SPECIFICATION DirSpec
CONSTANTS
    p1 = p1
    p2 = p2
    c1 = c1
    NoBody = NoBody
    Peer <- Peers
    Lower <- P1Lower
    Client <- NoClients
    Home <- AtNone
    Hosts <- EachOther
    Removable <- Nobody
    Persistent <- Nobody
    Body <- Peers
    MaxLinks = 2
    MaxEvents = 4
    MaxAdd = 2
    MaxSend = 0
    MaxLoss = 0
INVARIANT Synced
CHECK_DEADLOCK FALSE
