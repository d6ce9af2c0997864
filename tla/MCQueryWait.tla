---------------------------- MODULE MCQueryWait ----------------------------
(* Three queries: two waypoints, two legs, or three kinds of points; two   *)
(* queries in one batch make the caller sleep for one while the other ends.*)
EXTENDS QueryWait

CONSTANTS q1, q2, q3

ThreeQueries == {q1, q2, q3}
BatchesOfStyle == [s \in Styles |-> IF s = "altitudes"
                                    THEN <<<<q1, q2>>, <<q3>>>>
                                    ELSE <<<<q1>>, <<q2>>, <<q3>>>>]
=============================================================================
