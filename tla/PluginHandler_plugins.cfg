SPECIFICATION FairSpec
CONSTANTS
    Names = {A, B}
    Callers = {A}
    Commands = {cmd}
    Untidy = {}
    MaxPlugin = 3
    MaxDepth = 1
    MaxKept = 2
INVARIANTS TypeOK EachOnce CodeMapped MailboxesMapped ListsAgree ToldOfGoing
PROPERTY ShutdownEnds
CHECK_DEADLOCK FALSE
