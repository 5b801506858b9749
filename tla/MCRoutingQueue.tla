---------------------------- MODULE MCRoutingQueue ----------------------------
(***************************************************************************)
(* Small instances of RoutingQueue: a normal request, a VIP and an idle    *)
(* free-small one, on upstreams each of them may or may not use.           *)
(***************************************************************************)
EXTENDS RoutingQueue

CONSTANTS normal, vip, idle, second, opus_a, opus_b

MCTier == [r \in Requests |-> IF r = vip THEN "vip" ELSE "normal"]

\* Everybody may use any upstream.
AnyUpstream == [r \in Requests |-> {}]

\* The VIP is tied to one upstream, the others may use any.
VipOnA == [r \in Requests |-> IF r = vip THEN {opus_a} ELSE {}]
===============================================================================
