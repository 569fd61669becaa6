SPECIFICATION FairSpec
CONSTANTS
    MaxConn = 2
    MaxPost = 2
    Busy <- First
    Modes <- OnlyCalls
    MaxFault = 1
INVARIANTS TypeOK InOrder ClosedIsLast CallAccounted
PROPERTIES LinkKeepsPromise CallsSettle ErasedFromList
CHECK_DEADLOCK FALSE
