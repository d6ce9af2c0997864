----------------------------- MODULE MCFindCoord -----------------------------
(* Small instances of FindCoord for TLC. *)
EXTENDS FindCoord
=============================================================================
