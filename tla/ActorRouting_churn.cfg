SPECIFICATION Spec
CONSTANTS
    None = None
    c1 = c1
    c2 = c2
    L = L
    acct1 = acct1
    acct2 = acct2
    char1 = char1
    char2 = char2
    Client <- Clients
    Launcher = L
    Fact <- Facts
    CharacterFact <- Characters
    Box <- TwoBoxes
    Ends <- TwoEnds
    InitBoxes <- LuaBoxes
    Churn <- BothChurn
    Profiles <- LoginScreenProfiles
    Targets <- LoginTargets
    Posters <- Everyone
    Modes <- AllModes
    MaxPost = 1
    MaxPosters = 2
    MaxChange = 0
    CanCrash = FALSE
INVARIANTS CallbackOnce ExecutedOnce
CHECK_DEADLOCK FALSE
