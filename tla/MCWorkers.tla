------------------------------ MODULE MCWorkers ------------------------------
(* Instances of WorkPlan and MultiWorkerBudget for TLC. *)
EXTENDS MultiWorkerBudget, TLC

CONSTANTS t1, t2, t3, s1, s2

MCOrder == <<t1, t2, t3>>
MCTwoSchedulers == {s1, s2}

MCPaths == {<<"src", "api">>, <<"src", "ui">>, <<"docs">>}
Owner   == (t1 :> <<"src", "api">>) @@ (t2 :> <<"src", "ui">>) @@ (t3 :> <<"docs">>)

\* Three tasks of disjoint scopes that depend on each other as d says.
MCPlan(d) == [dependsOn  |-> d,
              fileScopes |-> [t \in {t1, t2, t3} |-> <<[kind |-> "directory", path |-> Owner[t]]>>]]

\* Every graph over three tasks is proposed, cyclic ones included.
MCGraphs == {MCPlan(d) : d \in [{t1, t2, t3} -> SUBSET {t1, t2, t3}]}

\* One of them is carried out: a join, declared before what it waits for.
MCShapes == {MCPlan((t1 :> {t2, t3}) @@ (t2 :> {}) @@ (t3 :> {}))}

\* A budgetPolicy under which a plan can finish with a retry, and one that is short of calls.
MCPolicies == {[maxWorkerAttempts |-> 4, maxConcurrentWorkers |-> 2, calls |-> 3],
               [maxWorkerAttempts |-> 3, maxConcurrentWorkers |-> 1, calls |-> 2]}

MCSymmetry == Permutations({s1, s2})
=============================================================================
