---------------------------- MODULE MCTileCache ----------------------------
EXTENDS TileCache
CONSTANTS t1, t2, east, west

(* A view of two tiles, and a view with one of the two. *)
Overlapping == [v \in {east, west} |-> IF v = east THEN <<t1, t2>> ELSE <<t2>>]
=============================================================================
