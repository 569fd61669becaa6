SPECIFICATION FairSpec
CONSTANTS
    p1 = p1
    p2 = p2
    NoOne = NoOne
    Producer <- Producers
    MaxPost = 2
INVARIANTS TypeOK RunInOrder NoLostWakeup
PROPERTY PostedRuns
CHECK_DEADLOCK FALSE
