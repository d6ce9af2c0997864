\* Two lookups in a row; a paired kind, the airways, the graph.
SPECIFICATION FindSpec
CONSTANTS
    Paired = {"airports"}
    Single = {"airways", "airwaygraph"}
    Alone = {"airwaygraph"}
    Kept = {"airways"}
    MaxFinds = 2
    NoQuery = NoQuery
CHECK_DEADLOCK FALSE
INVARIANTS
    LookupRight
    OnlyCurrentCallOutstanding
PROPERTIES
    LookupEnds
