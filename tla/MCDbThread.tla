----------------------------- MODULE MCDbThread -----------------------------
(* A small instance of DbThread for TLC. *)
EXTENDS DbThread
=============================================================================
