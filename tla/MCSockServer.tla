--------------------------- MODULE MCSockServer ---------------------------
EXTENDS SockServer

Request(cmds, log, mode) == [cmds |-> cmds, log |-> log, mode |-> mode]

(* One of each mode and each treatment of the logs; the second set is for  *)
(* the run with two sessions.                                              *)
MCAsked == {Request(0, "take", "poll"), Request(1, "keep", "poll"),
            Request(0, "take", "noreply"),
            Request(0, "drop", "quit"), Request(0, "take", "clear")}
MCFewAsked == {Request(0, "take", "poll"), Request(1, "keep", "poll"),
               Request(0, "drop", "clear")}

Symmetry == Permutations(Clients)

=============================================================================
