----------------------------- MODULE MCDctPool -----------------------------
EXTENDS DctPool

(* Two airports, a null and points: nine of the fifteen pairs may be      *)
(* flown, and every branch of the loops is taken.                          *)
MCKind == [i \in Points |-> CASE i \in {1, 4} -> "airport"
                              [] i = 2 -> "null"
                              [] OTHER -> "point"]

=============================================================================
