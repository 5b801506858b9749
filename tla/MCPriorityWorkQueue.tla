------------------------- MODULE MCPriorityWorkQueue -------------------------
(***************************************************************************)
(* A small instance of PriorityWorkQueue: three consumers on a bounded     *)
(* queue, and items one of which may overflow it.                          *)
(***************************************************************************)
EXTENDS PriorityWorkQueue

CONSTANTS i1, i2, i3, i4

MCRank == [i \in Items |-> CASE i = i1 -> 0 [] i = i2 -> 10 [] i = i3 -> 11 [] i = i4 -> 12]
==============================================================================
