----------------------------- MODULE MCRoleCall -----------------------------
(* Small strategies for model checking RoleCall: two cheap models, two      *)
(* expensive ones, and one name that no configuration knows.                *)
EXTENDS RoleCall

CONSTANTS c1, c2, e1, e2, unknown

Cheap == {c1, c2}
Costly == {e1, e2}
Known == Cheap \cup Costly

MCModels == Known \cup {unknown}
MCRequests == {None, c1, e1, unknown}

Lists == {<<>>, <<c1>>, <<e1>>, <<c1, c2>>, <<c1, e1>>, <<e1, c1>>, <<e1, e2>>,
          <<c1, c1>>, <<c2, e1, c1>>, <<e1, e2, c2>>}

StrategyOf(fallbacks, def, planner, max) ==
    [ registered |-> Known, expensive |-> Costly,
      regDefault |-> c1, default |-> def,
      overrides  |-> [r \in Roles |-> IF r = "critic" THEN e2 ELSE None],
      roleModel  |-> [r \in Roles |-> IF r = "planner" THEN planner ELSE None],
      fallbacks  |-> fallbacks, maxExp |-> max ]

(* Every list with and without a default and a budget.                      *)
MCStrategies ==
    { StrategyOf(l, d, p, m) :
        l \in Lists, d \in {None, c1, e2}, p \in {None, e1}, m \in {0, 2} }
=============================================================================
