------------------------- MODULE MCRequestAccounting -------------------------
(***************************************************************************)
(* Small instances of RequestAccounting.  One user and three requests: a   *)
(* paid one, a free small one that only a daily pool can grant, and a paid *)
(* one that also counts as a daily image.                                  *)
(***************************************************************************)
EXTENDS RequestAccounting

CONSTANTS u1, paid, small, both

MCUserOf == [r \in Requests |-> u1]
MCCost == [r \in Requests |-> CASE r = paid -> 2 [] r = small -> 0 [] r = both -> 1]
MCCount == [r \in Requests |-> IF r = paid THEN 0 ELSE 1]

\* The daily limit starts at one image and may be raised to what the others have.
MCInitialLimit == [k \in LimitKeys |-> IF k[1] = "daily" THEN 1 ELSE 2]
==============================================================================
