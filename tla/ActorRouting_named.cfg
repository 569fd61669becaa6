SPECIFICATION FairSpec
CONSTANTS
    None = None
    c1 = c1
    c2 = c2
    L = L
    acct1 = acct1
    acct2 = acct2
    char1 = char1
    char2 = char2
    Client <- Clients
    Launcher = L
    Fact <- Facts
    CharacterFact <- Characters
    Box <- OneBox
    Ends <- OneEnds
    InitBoxes <- EchoBoxes
    Churn <- NoChurn
    Profiles <- NamedProfiles
    Targets <- NamedTargets
    Posters <- Clients
    Modes <- OnlyCalls
    MaxPost = 1
    MaxPosters = 2
    MaxChange = 1
    CanCrash = TRUE
INVARIANTS TypeOK AnswersAreOwn
PROPERTIES KeepsPromise CallsAnswered
CHECK_DEADLOCK FALSE
