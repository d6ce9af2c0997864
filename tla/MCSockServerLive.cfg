SPECIFICATION FairSpec
CONSTANTS
    Clients = {c1, c2}
    NSessions = 1
    NRouters = 1
    None = None
    ConnectLimit = 2
    ActiveLimit = 1
    Batch = 1
    MaxMade = 2
    MaxAsked = 3
    Asked <- MCAsked
INVARIANTS
    NothingSkipped
PROPERTIES
    Answered
    ChildrenEnd
CHECK_DEADLOCK FALSE
