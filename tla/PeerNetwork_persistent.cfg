SPECIFICATION FairSpec
CONSTANTS
    p1 = p1
    p2 = p2
    b1 = b1
    NoBody = NoBody
    Peer <- Peers
    Lower <- P1Lower
    Hosts <- Nobody
    Removable <- Nobody
    Persistent <- EachOther
    Body <- NoBodies
    MaxLinks = 2
    MaxEvents = 1
    MaxAdd = 0
    MaxSend = 0
    MaxLoss = 1
INVARIANTS TypeOK SessionsAgree SameLinkKept
PROPERTY PersistentConnected
CHECK_DEADLOCK FALSE
