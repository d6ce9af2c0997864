---------------------------- MODULE MCDrawThread ----------------------------
(* Small instances of DrawThread for TLC: two close views, "a" and "b",    *)
(* and an overview, "o", of both.                                          *)
EXTENDS DrawThread

UsableSelf == [v \in Views |-> {v}]
CoversOverview == [v \in Views |-> IF v = "o" THEN Views ELSE {v}]

Everywhere == [l \in Layers |-> Views]
CloseOnly == [l \in Layers |-> IF l = "topo" THEN Views ELSE Views \ {"o"}]
OnlyB == [l \in Layers |-> {"b"}]

(* the terrain, and overlays in a close view *)
VMap == [query |-> CloseOnly, flag |-> CloseOnly, gate |-> Views,
         late |-> {"airports"}]
(* overlays over a bitmap, in a close view *)
Bitmap == [query |-> Everywhere, flag |-> Everywhere, gate |-> Views \ {"o"},
           late |-> {"airports"}]
(* queries the airports whatever the flags, restarts in "b" only *)
AirportDiagram == [query |-> Everywhere, flag |-> OnlyB, gate |-> Views,
                   late |-> {}]

VMapOnly == {VMap}
BitmapAndDiagram == {Bitmap, AirportDiagram}
=============================================================================
