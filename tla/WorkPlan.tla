------------------------------- MODULE WorkPlan -------------------------------
(***************************************************************************)
(* A multi-worker plan, version 2: tasks in declared order, what each      *)
(* depends on and the paths each owns.  A plan is recorded once, after the *)
(* checks of MultiWorkerPlanV2Schema; it is immutable from then on.  A     *)
(* path is the sequence of its segments.                                   *)
(***************************************************************************)
EXTENDS DependencyGraph, Integers

CONSTANTS
  TaskOrder,       \* the declared tasks, a sequence without repetition
  Paths,           \* repository-relative paths
  Proposals,       \* plans a planner may propose: [dependsOn, fileScopes]
  NoPlan           \* no plan is recorded

Tasks == {TaskOrder[i] : i \in DOMAIN TaskOrder}

ASSUME PlanAssumption ==
  /\ TaskOrder \in Seq(Tasks) /\ Cardinality(Tasks) = Len(TaskOrder)
  /\ NoPlan \notin Proposals
  /\ \A p \in Proposals : p.dependsOn \in [Tasks -> SUBSET Tasks]

VARIABLE plan      \* the recorded plan

IsWithin(path, directory) ==
  Len(path) > Len(directory) /\ SubSeq(path, 1, Len(directory)) = directory

\* The scope kinds: the whole repository, a directory and what is in it, a file.
OwnsPath(scope, path) ==
  \/ scope.kind = "repository"
  \/ path = scope.path
  \/ scope.kind = "directory" /\ IsWithin(path, scope.path)

\* A directory is compared with what lies inside it; of two directories, only the
\* left one is taken for the directory.
ScopesOverlap(left, right) ==
  IF left.kind = "repository" \/ right.kind = "repository" THEN TRUE
  ELSE LET directory == IF left.kind = "directory" THEN left ELSE right
           candidate == IF left.kind = "directory" THEN right ELSE left
       IN  \/ candidate.path = directory.path
           \/ directory.kind = "directory" /\ IsWithin(candidate.path, directory.path)

\* Scopes are lists: the earlier one is always the left operand.
ScopesAreMinimal(p) ==
  \A t \in Tasks : LET scopes == p.fileScopes[t] IN
    \A i, j \in DOMAIN scopes : i < j => ~ScopesOverlap(scopes[i], scopes[j])

UnorderedScopesAreDisjoint(p) ==
  LET before == Ancestors(p.dependsOn) IN
    \A i, j \in DOMAIN TaskOrder :
      LET left == TaskOrder[i]  right == TaskOrder[j] IN
      (i < j /\ left \notin before[right] /\ right \notin before[left]) =>
        \A a \in DOMAIN p.fileScopes[left], b \in DOMAIN p.fileScopes[right] :
          ~ScopesOverlap(p.fileScopes[left][a], p.fileScopes[right][b])

\* One plan is kept for a job and a digest; the others are other plans.
RecordPlan(p) ==
  /\ IsDependencyGraph(p.dependsOn)
  /\ ScopesAreMinimal(p) /\ UnorderedScopesAreDisjoint(p)
  /\ plan' = p

PlanInit == plan = NoPlan

PlanNext == plan = NoPlan /\ \E p \in Proposals : RecordPlan(p)

PlanSpec == PlanInit /\ [][PlanNext]_plan
-----------------------------------------------------------------------------
Owned(p, t) == {path \in Paths : \E i \in DOMAIN p.fileScopes[t] :
                                   OwnsPath(p.fileScopes[t][i], path)}

(* The layers a recorded plan is shown in hold every task once, after       *)
(* everything the task waits for, so that no accepted plan can stall.       *)
LayersFollowDependencies ==
  plan # NoPlan =>
    LET layers == Layers(plan.dependsOn)  before == Ancestors(plan.dependsOn) IN
    /\ UNION {layers[i] : i \in DOMAIN layers} = Tasks
    /\ \A i, j \in DOMAIN layers : i # j => layers[i] \cap layers[j] = {}
    /\ \A i \in DOMAIN layers : \A t \in layers[i] :
         before[t] \subseteq UNION {layers[j] : j \in 1..(i - 1)}

(* Two tasks that can become ready independently never own the same path:  *)
(* docs/architecture.md, of the file scopes of a version 2 plan.           *)
IndependentTasksOwnDisjointPaths ==
  plan # NoPlan =>
    LET before == Ancestors(plan.dependsOn) IN
    \A s, t \in Tasks :
      (s # t /\ s \notin before[t] /\ t \notin before[s]) =>
        Owned(plan, s) \cap Owned(plan, t) = {}
=============================================================================
