SPECIFICATION Spec
CONSTANTS
    Clients = {c1, c2}
    NSessions = 2
    NRouters = 2
    None = None
    ConnectLimit = 2
    ActiveLimit = 1
    Batch = 1
    MaxMade = 1
    MaxAsked = 3
    Asked <- MCFewAsked
SYMMETRY Symmetry
INVARIANTS
    WaitersPaired
PROPERTIES
    UndefinedExplained
CHECK_DEADLOCK FALSE
