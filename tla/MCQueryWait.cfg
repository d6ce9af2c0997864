\* A caller of any of the three kinds, and three queries.
CONSTANTS
    q1 = q1
    q2 = q2
    q3 = q3
    NoTask = NoTask
    Tasks <- ThreeQueries
    Batches <- BatchesOfStyle
SPECIFICATION WaitSpec
INVARIANTS
    StrandedOnlyInGap
    QuietWhenOut
    OnlyTheLastIsTold
PROPERTIES
    GetsOut
