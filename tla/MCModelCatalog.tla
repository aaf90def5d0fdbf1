--------------------------- MODULE MCModelCatalog --------------------------
(* An OAuth account that is synchronised and an API key that is added, two *)
(* models, the first of which may come back, and an operator who makes the *)
(* name of the second an alias of a model or gives it to a model.          *)
EXTENDS ModelCatalog

CONSTANTS oauth, key, m1, m2, o1

MCAccounts == {oauth, key}
MCJobs == {<<oauth, "sync">>, <<key, "add">>}
MCModels == {m1, m2}
MCPolicies == {[public |-> m1, aliases |-> {m2}], [public |-> m2, aliases |-> {}]}
MCAnswers == {{m1}, {m1, m2}}
MCOperators == {o1}
MCMaxRows == [m \in MCModels |-> IF m = m1 THEN 2 ELSE 1]
=============================================================================
