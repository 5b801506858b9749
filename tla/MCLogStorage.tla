----------------------------- MODULE MCLogStorage -----------------------------
(***************************************************************************)
(* A small instance of LogStorage: two requests of which one is dear.      *)
(***************************************************************************)
EXTENDS LogStorage

CONSTANTS small, large

MCCost == [r \in Requests |-> IF r = large THEN 3 ELSE 1]
MCFilters == {Statuses \ {"running"}}
MCHours == 0..1
ThreadSymmetry == Permutations(Threads)
===============================================================================
