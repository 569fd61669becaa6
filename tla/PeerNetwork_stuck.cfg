SPECIFICATION FairSpec
CONSTANTS
    p1 = p1
    p2 = p2
    b1 = b1
    NoBody = NoBody
    Peer <- Peers
    Lower <- P1Lower
    Hosts <- P1ToP2
    Removable <- P1ToP2
    Persistent <- Nobody
    Body <- OneBody
    MaxLinks = 2
    MaxEvents = 1
    MaxAdd = 1
    MaxSend = 1
    MaxLoss = 0
PROPERTY RemovedIsPruned
CHECK_DEADLOCK FALSE
