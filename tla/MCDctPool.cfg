SPECIFICATION FairSpec
CONSTANTS
    NPoints = 6
    Kind <- MCKind
    NWorkers = 2
    Limit = 0
INVARIANTS
    EachOnce
    AllDone
PROPERTIES
    Returns
CHECK_DEADLOCK FALSE
