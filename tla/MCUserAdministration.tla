------------------------- MODULE MCUserAdministration -------------------------
(***************************************************************************)
(* A small instance: a Discord user and an account of the administrators,  *)
(* one group, two settings per field.                                      *)
(***************************************************************************)
EXTENDS UserAdministration, TLC

Patch(given, active, group, apply) == [given |-> given, active |-> active, group |-> group, apply |-> apply]
MCRequests ==
    {Patch(<<>>, active, "keep", FALSE) : active \in {"on", "off"}}
    \cup {Patch("quota" :> v, "keep", "keep", FALSE) : v \in Values}
    \cup {Patch(<<>>, "keep", g, apply) : g \in Groups \cup {NoGroup}, apply \in BOOLEAN}
    \cup {Patch("columns" :> v, "off", "keep", TRUE) : v \in Values}
MCGroupRequests ==
    {[given |-> given, on |-> TRUE, scope |-> scope] :
        given \in {("columns" :> v @@ "quota" :> v) : v \in Values} \cup {("rules" :> v) : v \in Values},
        scope \in {"unmodified", "all", "none"}}
ValueSymmetry == Permutations(Values)
===============================================================================
