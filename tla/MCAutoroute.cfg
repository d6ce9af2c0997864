SPECIFICATION FairSpec
CONSTANTS
    MaxLocal = 1
    MaxRemote = 1
    MaxTimeouts = 1
    MaxAsked = 2
    MaxNested = 2
INVARIANTS
    SuccessIsJudged
    OneChain
PROPERTIES
    RunEnds
CHECK_DEADLOCK FALSE
