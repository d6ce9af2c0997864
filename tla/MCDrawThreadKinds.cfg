\* The two kinds with a weakness: two close views, an overview, one layer.
SPECIFICATION Spec
CONSTANTS
    Views = {"a", "b", "o"}
    Usable <- UsableSelf
    Covers <- CoversOverview
    Layers = {"airports"}
    Listed = {"airports"}
    Kinds <- BitmapAndDiagram
    Editable = {"airports"}
    NoView = NoView
    NoLayer = NoLayer
    MaxChanges = 2
    MaxVersion = 1
CHECK_DEADLOCK FALSE
INVARIANTS
    ReadyIsSound
PROPERTIES
    Settles
    StopReturns
