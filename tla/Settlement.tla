------------------------------ MODULE Settlement ------------------------------
(***************************************************************************)
(* What the proxy promises about the reservation of a request, whatever    *)
(* queue, retry, reroute, cancellation or shutdown it goes through: once   *)
(* held, it is charged or refunded, exactly once; only a process crash     *)
(* may take a held reservation away, and then as an orphan for the next    *)
(* start to reclaim.                                                       *)
(***************************************************************************)
CONSTANT Requests

VARIABLE fate    \* what became of each request's reservation

Fates == {"none", "held", "charged", "refunded", "orphaned"}

TypeOK == fate \in [Requests -> Fates]

Init == fate = [r \in Requests |-> "none"]

\* What one request may do.
Moves == {<<"none", "held">>, <<"held", "charged">>, <<"held", "refunded">>}

\* One step of the program may settle several requests (a disabled upstream, a
\* shutdown), each on its own.
Advance ==
    /\ fate' \in [Requests -> Fates]
    /\ \A r \in Requests : fate'[r] # fate[r] => <<fate[r], fate'[r]>> \in Moves

\* The process dies: every reservation still held becomes an orphan.
Orphan ==
    fate' = [r \in Requests |-> IF fate[r] = "held" THEN "orphaned" ELSE fate[r]]

Next == Advance \/ Orphan

Spec == Init /\ [][Next]_fate
===============================================================================
