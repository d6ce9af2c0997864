----------------------------- MODULE AsyncQuery -----------------------------
(***************************************************************************)
(* What Engine promises the owner of an asynchronous query, without the    *)
(* worker thread, its list and its mutexes: a query that has been accepted *)
(* becomes ready or failed once and for all, its listener is told at most  *)
(* once, after that, and never once the owner has dropped the query.       *)
(***************************************************************************)
EXTENDS Naturals

CONSTANT Queries

VARIABLES
    status,         \* what the owner sees of a query
    listening,      \* the queries to which a slot has been connected
    told            \* how often the slot of a query has run

vars == <<status, listening, told>>

Statuses == {"none", "pending", "ready", "failed", "dropped"}

TypeOK == /\ status \in [Queries -> Statuses]
          /\ listening \in SUBSET Queries
          /\ told \in [Queries -> Nat]

Init == /\ status = [q \in Queries |-> "none"]
        /\ listening = {}
        /\ told = [q \in Queries |-> 0]

(* A query made while the Engine goes away fails at once. *)
Submit(q) ==
    /\ status[q] = "none"
    /\ \E s \in {"pending", "failed"} : status' = [status EXCEPT ![q] = s]
    /\ UNCHANGED <<listening, told>>

Listen(q) ==
    /\ status[q] \in {"pending", "ready", "failed"}
    /\ q \notin listening
    /\ listening' = listening \cup {q}
    /\ UNCHANGED <<status, told>>

Finish(q) ==
    /\ status[q] = "pending"
    /\ \E s \in {"ready", "failed"} : status' = [status EXCEPT ![q] = s]
    /\ UNCHANGED <<listening, told>>

Tell(q) ==
    /\ status[q] \in {"ready", "failed"}
    /\ q \in listening
    /\ told[q] = 0
    /\ told' = [told EXCEPT ![q] = @ + 1]
    /\ UNCHANGED <<status, listening>>

Drop(q) ==
    /\ status[q] \in {"pending", "ready", "failed"}
    /\ status' = [status EXCEPT ![q] = "dropped"]
    /\ UNCHANGED <<listening, told>>

Next == \E q \in Queries :
            Submit(q) \/ Listen(q) \/ Finish(q) \/ Tell(q) \/ Drop(q)

Spec == Init /\ [][Next]_vars
=============================================================================
