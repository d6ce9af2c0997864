\* DrawThreadVMap: the terrain and, in the close view, an overlay.
SPECIFICATION Spec
CONSTANTS
    Views = {"a", "o"}
    Usable <- UsableSelf
    Covers <- CoversOverview
    Layers = {"topo", "airports"}
    Listed = {"airports"}
    Kinds <- VMapOnly
    Editable = {"airports"}
    NoView = NoView
    NoLayer = NoLayer
    MaxChanges = 3
    MaxVersion = 1
CHECK_DEADLOCK FALSE
INVARIANTS
    ReadyIsAtRest
    ReadyIsSound
    ReadyIsComplete
    OrphansAreLate
