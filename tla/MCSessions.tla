----------------------------- MODULE MCSessions -----------------------------
(* Instances of Sessions for TLC.                                          *)
EXTENDS Sessions, TLC

CONSTANTS c1, c2, s1

MCTenantOf  == [p \in Projects |-> IF p = 3 THEN 2 ELSE 1]
MCProjectOf == [e \in Environments |-> e]
MCLevelOf   == [r \in Roles |-> CASE r = "admin" -> "tenant" [] r = "member" -> "project"
                                  [] OTHER -> "environment"]

Bound(t, p, e, r) ==
  [tenant |-> t, project |-> p, environment |-> e, role |-> r, scope |-> MCLevelOf[r], active |-> TRUE]

(* One user, bound at some levels of two tenants; everything is active or  *)
(* one thing is not.                                                       *)
MCWorlds ==
  LET everywhere == {Bound(1, 0, 0, "admin"), Bound(1, 2, 0, "member"), Bound(2, 3, 3, "guest")}
      all == [tenants |-> Tenants, projects |-> Projects, environments |-> Environments,
              roles |-> Roles, bindings |-> everywhere]
  IN  {[all EXCEPT !.bindings = B] : B \in {{b} : b \in everywhere}}
      \cup {all, [all EXCEPT !.projects = {1, 3}], [all EXCEPT !.environments = {2, 3}],
            [all EXCEPT !.roles = {"member", "guest"}], [all EXCEPT !.tenants = {2}],
            [all EXCEPT !.bindings = {[b EXCEPT !.active = b.role = "guest"] : b \in everywhere}]}

MCSelections == {[tenant |-> 0, project |-> 0, environment |-> 0],
                 [tenant |-> 1, project |-> 2, environment |-> 2],
                 [tenant |-> 2, project |-> 0, environment |-> 0]}

CallerSymmetry == Permutations(Callers)
=============================================================================
