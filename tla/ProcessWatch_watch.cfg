SPECIFICATION FairSpec
CONSTANTS
    Pid = {p1, p2}
    NoPid = NoPid
    Watched = {p1}
    Slow = {p1}
    Other = {p2}
    Retries = 1
    MaxWait = 2
    MaxStart = 2
    MaxQueue = 0
INVARIANTS TypeOK IdsFollow HandlesHeld
PROPERTIES LateInjected 
CHECK_DEADLOCK FALSE
