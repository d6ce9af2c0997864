\* Three calls and two aborts, in any order.
SPECIFICATION FairSpec
CONSTANTS
    MaxRequests = 3
    MaxAborts = 2
    Nothing = Nothing
INVARIANTS
    GivenAll
    WaitsOnlyForAborted
PROPERTIES
    SilentAfterAbort
    EveryoneAnswered
CHECK_DEADLOCK FALSE
