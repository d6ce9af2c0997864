\* Two views that share a tile, two changes of the view, another cache over
\* the same directory, and a file an earlier run may have left unfinished.
CONSTANTS
    t1 = t1
    t2 = t2
    east = east
    west = west
    NoTile = NoTile
    Empty = Empty
    Partial = Partial
    Tiles = {t1, t2}
    Views = {east, west}
    TilesOf <- Overlapping
    Shared = {t2}
    Leftovers = {t1}
    MaxChanges = 2
SPECIFICATION FairSpec
INVARIANTS
    OwnPictures
    CrashExplained
PROPERTIES
    Drains
    Refreshed
CHECK_DEADLOCK FALSE
