------------------------------ MODULE MCWorkPlan ------------------------------
(* Instances of WorkPlan for TLC: two tasks with one scope each. *)
EXTENDS WorkPlan, TLC

CONSTANTS t1, t2

MCOrder == <<t1, t2>>

\* A directory, two directories in it, and a file in the first of them.
MCPaths == {<<"src">>, <<"src", "api">>, <<"src", "ui">>, <<"src", "api", "a">>}

Directory(path) == [kind |-> "directory", path |-> path]

MCScopes == {[kind |-> "repository", path |-> <<>>], [kind |-> "file", path |-> <<"src", "api", "a">>],
             Directory(<<"src">>), Directory(<<"src", "api">>), Directory(<<"src", "ui">>)}

MCScoped == {[dependsOn |-> (t1 :> {}) @@ (t2 :> d), fileScopes |-> (t1 :> <<a>>) @@ (t2 :> <<b>>)] :
               d \in {{}, {t1}}, a \in MCScopes, b \in MCScopes}
=============================================================================
