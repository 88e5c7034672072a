--------------------------- MODULE MultiWorkerProofs ---------------------------
(***************************************************************************)
(* Theorems of the workers of a plan.  MultiWorkerBudget, for every set of *)
(* tasks, plans, schedulers and policies and any number of retries.        *)
(* Integration and IntegrationConflict, for any number of attempts,        *)
(* callers, crashes and recoveries.                                        *)
(***************************************************************************)
EXTENDS MultiWorkerBudget, Integration, DependencyGraphProofs

(***************************************************************************)
(* The budget                                                              *)
(*                                                                         *)
(* A scheduler works from attempts it read some time ago.  What it can     *)
(* rely on is that attempts are numbered without a gap and that an ended   *)
(* one stays what it is; a verdict is final because a blocked plan has a   *)
(* task that nothing will make succeed.                                    *)
(***************************************************************************)
CellsIn(V) == [Tasks -> [Numbers -> V]]
Grid   == CellsIn(Statuses)
Passes == [view : Grid, next : 0..(Len(TaskOrder) + 1), blocks : SUBSET Tasks]

\* An attempt that has ended stays what it is.
Ended == {"succeeded", "blocked", "failed_after_dispatch", "failed_pre_dispatch",
          "blocked_pre_dispatch"}

\* Attempts are numbered from one, without a gap.
Numbered(a, t) ==
  /\ Recorded(a, t) \in 0..(MaxRetries + 1)
  /\ \A n \in Numbers : n <= Recorded(a, t) => a[t][n] # "none"
  /\ \A n \in Numbers : n > Recorded(a, t) => a[t][n] = "none"

\* What a scheduler read: attempts that exist, ended ones as they are now.
ViewFits(v) ==
  /\ \A t \in Tasks : Numbered(v, t)
  /\ \A t \in Tasks, n \in Numbers : v[t][n] # "none" => attempt[t][n] # "none"
  /\ \A t \in Tasks, n \in Numbers : v[t][n] \in Ended => attempt[t][n] = v[t][n]

Used == Statuses \ {"none"}

\* Nothing will make the task succeed: it ended otherwise, or it waits for an
\* attempt that the budget or the retries refuse from now on.
Doomed(t) ==
  \/ Latest(attempt, t) \in DeadEnds
  \/ /\ Latest(attempt, t) \in {"none", "failed_pre_dispatch"}
     /\ \/ budget = "expired"
        \/ budgetPolicy.maxWorkerAttempts <= Cardinality(Having(attempt, Used))
        \/ Recorded(attempt, t) = MaxRetries + 1

ClaimStates == {"none", "active", "released", "ambiguous"}

BudgetTyped ==
  /\ plan = NoPlan \/ (plan \in Proposals /\ IsDependencyGraph(plan.dependsOn))
  /\ budgetPolicy \in BudgetPolicies
  /\ budget \in {"none", "disabled", "open", "expired"}
  /\ attempt \in Grid
  /\ workerClaim \in CellsIn(ClaimStates)
  /\ granted \in CellsIn(Nat)
  /\ pass \in [Schedulers -> Passes]
  /\ reported \subseteq {"blocked", "complete"}

\* An attempt, its claim and the times it was handed out.
CellFits(t, n) ==
  /\ attempt[t][n] = "running" => workerClaim[t][n] \in {"active", "ambiguous"}
  /\ attempt[t][n] \in Called \ {"running"} => workerClaim[t][n] = "released"
  /\ attempt[t][n] \notin Called => workerClaim[t][n] = "none"
  /\ granted[t][n] <= 1
  /\ attempt[t][n] = "none" => granted[t][n] = 0

\* The attempts of a task: a retry follows a failed preparation, and the first one
\* the tasks it waits for.
TaskFits(t) ==
  /\ Numbered(attempt, t)
  /\ \A n \in Numbers : n < Recorded(attempt, t) => attempt[t][n] = "failed_pre_dispatch"
  /\ Recorded(attempt, t) > 0 =>
       plan # NoPlan /\ \A d \in plan.dependsOn[t] : Latest(attempt, d) = "succeeded"

PassFits(s) ==
  /\ ViewFits(pass[s].view)
  /\ \A t \in pass[s].blocks : Doomed(t)
  /\ pass[s].next # 0 => plan # NoPlan /\ budget \in {"open", "expired"}

ReportFits ==
  /\ "complete" \in reported =>
       budget \in {"open", "expired"} /\ \A t \in Tasks : Latest(attempt, t) = "succeeded"
  /\ "blocked" \in reported => budget = "disabled" \/ \E t \in Tasks : Doomed(t)

BudgetInv ==
  /\ BudgetTyped
  /\ \A t \in Tasks : TaskFits(t)
  /\ \A t \in Tasks, n \in Numbers : CellFits(t, n)
  /\ \A s \in Schedulers : PassFits(s)
  /\ ReportFits
  /\ BudgetHolds

(***************************************************************************)
(* Counting                                                                *)
(***************************************************************************)
LEMMA TasksAreFinite == IsFiniteSet(Tasks)
<1>1. TaskOrder \in Seq(Tasks) /\ Len(TaskOrder) \in Nat /\ DOMAIN TaskOrder = 1..Len(TaskOrder)
  BY PlanAssumption
<1>2. IsFiniteSet(1..Len(TaskOrder))
  BY <1>1, FS_Interval
<1>3. TaskOrder \in Surjection(1..Len(TaskOrder), Tasks)
  BY <1>1 DEF Surjection, Tasks
<1> QED BY <1>2, <1>3, FS_Surjection

LEMMA NumbersAreFinite == IsFiniteSet(Numbers) /\ \A n \in Numbers : n \in Nat /\ n >= 1
<1>1. MaxRetries + 1 \in Int
  BY BudgetAssumption
<1> QED BY <1>1, FS_Interval DEF Numbers

LEMMA CellsAreFinite ==
  /\ IsFiniteSet(Tasks \X Numbers)
  /\ \A a, S : /\ IsFiniteSet(Having(a, S)) /\ Cardinality(Having(a, S)) \in Nat
               /\ Having(a, S) \subseteq Tasks \X Numbers
<1>1. IsFiniteSet(Tasks \X Numbers)
  BY TasksAreFinite, NumbersAreFinite, FS_Product
<1>2. ASSUME NEW a, NEW S
      PROVE  Having(a, S) \subseteq Tasks \X Numbers
  BY DEF Having
<1>3. ASSUME NEW C, C \subseteq Tasks \X Numbers
      PROVE  IsFiniteSet(C) /\ Cardinality(C) \in Nat
  BY <1>1, <1>3, FS_Subset, FS_CardinalityType
<1> QED BY <1>1, <1>2, <1>3

\* Numbers 1 to k are in use.
LEMMA Counted ==
  ASSUME NEW a, NEW t \in Tasks, NEW k \in 0..(MaxRetries + 1),
         \A n \in Numbers : n <= k => a[t][n] # "none",
         \A n \in Numbers : n > k => a[t][n] = "none"
  PROVE  /\ Recorded(a, t) = k /\ Numbered(a, t)
         /\ Latest(a, t) = IF k = 0 THEN "none" ELSE a[t][k]
<1> USE BudgetAssumption
<1>1. {n \in Numbers : a[t][n] # "none"} = 1..k
  BY DEF Numbers
<1>2. Cardinality(1..k) = k
  BY FS_Interval
<1>3. Recorded(a, t) = k
  BY <1>1, <1>2 DEF Recorded
<1> QED BY <1>3 DEF Numbered, Latest

\* The last attempt, when there is one.
LEMMA LatestOf ==
  ASSUME NEW a, NEW t, Numbered(a, t)
  PROVE  /\ Recorded(a, t) = 0 => Latest(a, t) = "none"
         /\ Recorded(a, t) > 0 =>
              /\ Recorded(a, t) \in Numbers
              /\ Latest(a, t) = a[t][Recorded(a, t)]
              /\ Latest(a, t) # "none"
<1> USE BudgetAssumption
<1>1. Recorded(a, t) > 0 => Recorded(a, t) \in Numbers /\ Latest(a, t) = a[t][Recorded(a, t)]
  BY DEF Numbered, Numbers, Latest
<1>2. Recorded(a, t) > 0 => a[t][Recorded(a, t)] # "none"
  BY <1>1 DEF Numbered
<1> QED BY <1>1, <1>2 DEF Latest

(***************************************************************************)
(* What a scheduler read and what is                                       *)
(***************************************************************************)
LEMMA ViewCounts ==
  ASSUME NEW v, ViewFits(v), NEW t \in Tasks, TaskFits(t)
  PROVE  /\ Recorded(v, t) <= Recorded(attempt, t)
         /\ Recorded(v, t) \in 0..(MaxRetries + 1) /\ Recorded(attempt, t) \in 0..(MaxRetries + 1)
<1> USE BudgetAssumption
<1>1. Numbered(v, t) /\ Numbered(attempt, t)
  BY DEF ViewFits, TaskFits
<1>2. /\ Recorded(v, t) \in 0..(MaxRetries + 1) /\ Recorded(attempt, t) \in 0..(MaxRetries + 1)
  BY <1>1 DEF Numbered
<1>3. CASE Recorded(v, t) > 0
  <2>1. Recorded(v, t) \in Numbers /\ v[t][Recorded(v, t)] # "none"
    BY <1>1, <1>3, LatestOf
  <2>2. attempt[t][Recorded(v, t)] # "none"
    BY <2>1 DEF ViewFits
  <2> QED BY <1>1, <1>2, <2>1, <2>2 DEF Numbered
<1> QED BY <1>2, <1>3

\* A last attempt that has ended, other than by a failed preparation, is the last one.
LEMMA LatestStays ==
  ASSUME NEW v, ViewFits(v), NEW t \in Tasks, TaskFits(t),
         Latest(v, t) \in Ended, Latest(v, t) # "failed_pre_dispatch"
  PROVE  Latest(attempt, t) = Latest(v, t)
<1> USE BudgetAssumption
<1> DEFINE k == Recorded(v, t)  m == Recorded(attempt, t)
<1>1. Numbered(v, t) /\ Numbered(attempt, t)
  BY DEF ViewFits, TaskFits
<1>2. k \in 0..(MaxRetries + 1) /\ m \in 0..(MaxRetries + 1) /\ k <= m
  BY ViewCounts
<1>3. k # 0
  BY <1>1, LatestOf DEF Ended
<1>4. k \in Numbers /\ Latest(v, t) = v[t][k]
  BY <1>1, <1>2, <1>3, LatestOf
<1>5. attempt[t][k] = v[t][k]
  BY <1>4 DEF ViewFits
<1>6. ~(k < m)
  BY <1>4, <1>5 DEF TaskFits
<1>7. k = m
  BY <1>2, <1>6
<1>8. Latest(attempt, t) = attempt[t][m]
  BY <1>1, <1>2, <1>3, <1>7, LatestOf
<1> QED BY <1>4, <1>5, <1>7, <1>8

\* A task the scheduler wants, whose next number is not in use, is as it was read.
LEMMA WantedIsCurrent ==
  ASSUME NEW v, ViewFits(v), NEW t \in Tasks, TaskFits(t),
         Latest(v, t) \in {"none", "failed_pre_dispatch"},
         ~(Recorded(v, t) + 1 \in Numbers /\ attempt[t][Recorded(v, t) + 1] # "none")
  PROVE  Recorded(attempt, t) = Recorded(v, t) /\ Latest(attempt, t) = Latest(v, t)
<1> USE BudgetAssumption
<1> DEFINE k == Recorded(v, t)  m == Recorded(attempt, t)
<1>1. Numbered(v, t) /\ Numbered(attempt, t)
  BY DEF ViewFits, TaskFits
<1>2. k \in 0..(MaxRetries + 1) /\ m \in 0..(MaxRetries + 1) /\ k <= m
  BY ViewCounts
<1>3. k = m
  <2>1. CASE k + 1 \in Numbers
    <3>1. attempt[t][k + 1] = "none"
      BY <2>1
    <3>2. ~(k + 1 <= m)
      BY <1>1, <2>1, <3>1 DEF Numbered
    <3> QED BY <1>2, <3>2
  <2>2. CASE k + 1 \notin Numbers
    BY <1>2, <2>2 DEF Numbers
  <2> QED BY <2>1, <2>2
<1>4. CASE k = 0
  BY <1>1, <1>3, <1>4, LatestOf
<1>5. CASE k # 0
  <2>1. k \in Numbers /\ Latest(v, t) = v[t][k] /\ Latest(v, t) # "none" /\ Latest(attempt, t) = attempt[t][k]
    BY <1>1, <1>2, <1>3, <1>5, LatestOf
  <2>2. attempt[t][k] = v[t][k]
    BY <2>1 DEF ViewFits, Ended
  <2> QED BY <1>3, <2>1, <2>2
<1> QED BY <1>3, <1>4, <1>5

(***************************************************************************)
(* One cell changes                                                        *)
(***************************************************************************)
\* Outside the n-th attempt of t, b is a.
Differs(a, b, t, n) == \A u \in Tasks, m \in Numbers : u # t \/ m # n => b[u][m] = a[u][m]

Put(a, t, n, x) == [a EXCEPT ![t][n] = x]

LEMMA CellSet ==
  ASSUME NEW V, NEW a \in CellsIn(V), NEW t \in Tasks, NEW n \in Numbers, NEW x \in V
  PROVE  /\ Put(a, t, n, x) \in CellsIn(V) /\ Put(a, t, n, x)[t][n] = x
         /\ Differs(a, Put(a, t, n, x), t, n)
BY DEF Differs, Put, CellsIn

LEMMA OtherTask ==
  ASSUME NEW a, NEW b, NEW t, NEW n, Differs(a, b, t, n), NEW u \in Tasks, u # t, Numbered(a, u)
  PROVE  Recorded(b, u) = Recorded(a, u) /\ Latest(b, u) = Latest(a, u) /\ Numbered(b, u)
<1>1. \A m \in Numbers : b[u][m] = a[u][m]
  BY DEF Differs
<1>2. Recorded(a, u) \in 0..(MaxRetries + 1)
  BY DEF Numbered
<1>3. /\ \A m \in Numbers : m <= Recorded(a, u) => b[u][m] # "none"
      /\ \A m \in Numbers : m > Recorded(a, u) => b[u][m] = "none"
  BY <1>1 DEF Numbered
<1>4. /\ Recorded(b, u) = Recorded(a, u) /\ Numbered(b, u)
      /\ Latest(b, u) = IF Recorded(a, u) = 0 THEN "none" ELSE b[u][Recorded(a, u)]
  BY <1>2, <1>3, Counted
<1>5. Recorded(a, u) # 0 => Recorded(a, u) \in Numbers
  BY <1>2, BudgetAssumption DEF Numbers
<1> QED BY <1>1, <1>4, <1>5 DEF Latest

\* A task gets its next attempt.
LEMMA NextAttempt ==
  ASSUME NEW a, NEW b, NEW t \in Tasks, NEW n \in Numbers, Differs(a, b, t, n),
         Numbered(a, t), n = Recorded(a, t) + 1, b[t][n] # "none"
  PROVE  Recorded(b, t) = n /\ Latest(b, t) = b[t][n] /\ Numbered(b, t)
<1> USE BudgetAssumption
<1>1. n \in 0..(MaxRetries + 1) /\ n # 0
  BY DEF Numbers
<1>2. \A m \in Numbers : m # n => b[t][m] = a[t][m]
  BY DEF Differs
<1>3. Recorded(a, t) \in Int /\ \A m \in Numbers : m \in Int
  BY DEF Numbered, Numbers
<1>4. \A m \in Numbers : m <= n => b[t][m] # "none"
  <2> SUFFICES ASSUME NEW m \in Numbers, m <= n, m # n PROVE b[t][m] # "none"
    OBVIOUS
  <2>1. m <= Recorded(a, t)
    BY <1>3
  <2> QED BY <1>2, <2>1 DEF Numbered
<1>5. \A m \in Numbers : m > n => b[t][m] = "none"
  <2> SUFFICES ASSUME NEW m \in Numbers, m > n PROVE b[t][m] = "none"
    OBVIOUS
  <2>1. m > Recorded(a, t) /\ m # n
    BY <1>3
  <2> QED BY <1>2, <2>1 DEF Numbered
<1> QED BY <1>1, <1>4, <1>5, Counted

\* An attempt that is there changes.
LEMMA SameAttempts ==
  ASSUME NEW a, NEW b, NEW t \in Tasks, NEW n \in Numbers, Differs(a, b, t, n),
         Numbered(a, t), a[t][n] # "none", b[t][n] # "none"
  PROVE  Recorded(b, t) = Recorded(a, t) /\ Numbered(b, t) /\ n <= Recorded(a, t)
<1> USE BudgetAssumption
<1>1. \A m \in Numbers : m # n => b[t][m] = a[t][m]
  BY DEF Differs
<1>2. Recorded(a, t) \in 0..(MaxRetries + 1)
  BY DEF Numbered
<1>3. n <= Recorded(a, t)
  BY <1>2 DEF Numbered, Numbers
<1>4. /\ \A m \in Numbers : m <= Recorded(a, t) => b[t][m] # "none"
      /\ \A m \in Numbers : m > Recorded(a, t) => b[t][m] = "none"
  BY <1>1, <1>2, <1>3 DEF Numbered, Numbers
<1> QED BY <1>2, <1>3, <1>4, Counted

LEMMA HavingFewer ==
  ASSUME NEW a, NEW b, NEW t \in Tasks, NEW n \in Numbers, Differs(a, b, t, n),
         NEW S, b[t][n] \in S => a[t][n] \in S
  PROVE  Cardinality(Having(b, S)) <= Cardinality(Having(a, S))
<1>1. ASSUME NEW k \in Having(b, S) PROVE k \in Having(a, S)
  <2>1. k \in Tasks \X Numbers /\ b[k[1]][k[2]] \in S
    BY DEF Having
  <2>2. k[1] \in Tasks /\ k[2] \in Numbers
    BY <2>1
  <2>3. a[k[1]][k[2]] \in S
    BY <2>1, <2>2 DEF Differs
  <2> QED BY <2>1, <2>3 DEF Having
<1>2. Having(b, S) \subseteq Having(a, S)
  BY <1>1
<1> QED BY <1>2, CellsAreFinite, FS_Subset

LEMMA HavingOneMore ==
  ASSUME NEW a, NEW b, NEW t \in Tasks, NEW n \in Numbers, Differs(a, b, t, n), NEW S
  PROVE  Cardinality(Having(b, S)) <= Cardinality(Having(a, S)) + 1
<1> DEFINE C == Having(a, S) \cup {<<t, n>>}
<1>1. ASSUME NEW k \in Having(b, S) PROVE k \in C
  <2>1. k \in Tasks \X Numbers /\ b[k[1]][k[2]] \in S
    BY DEF Having
  <2>2. k[1] \in Tasks /\ k[2] \in Numbers /\ k = <<k[1], k[2]>>
    BY <2>1
  <2>3. CASE k[1] # t \/ k[2] # n
    <3>1. a[k[1]][k[2]] \in S
      BY <2>1, <2>2, <2>3 DEF Differs
    <3> QED BY <2>1, <3>1 DEF Having
  <2>4. CASE k[1] = t /\ k[2] = n
    BY <2>2, <2>4
  <2> QED BY <2>3, <2>4
<1>2. Having(b, S) \subseteq C
  BY <1>1
<1> HIDE DEF C
<1>3. IsFiniteSet(Having(a, S)) /\ Cardinality(Having(a, S)) \in Nat
  BY CellsAreFinite
<1>4. /\ IsFiniteSet(C)
      /\ \/ Cardinality(C) = Cardinality(Having(a, S))
         \/ Cardinality(C) = Cardinality(Having(a, S)) + 1
  BY <1>3, FS_AddElement DEF C
<1>5. Cardinality(Having(b, S)) <= Cardinality(C)
  BY <1>2, <1>4, FS_Subset
<1>6. Cardinality(Having(b, S)) \in Nat /\ Cardinality(C) \in Nat
  BY <1>3, <1>4, CellsAreFinite
<1> QED BY <1>3, <1>4, <1>5, <1>6

LEMMA HavingStill ==
  ASSUME NEW a, NEW b, NEW t \in Tasks, NEW n \in Numbers, Differs(a, b, t, n),
         NEW S, a[t][n] \in S => b[t][n] \in S
  PROVE  Cardinality(Having(a, S)) <= Cardinality(Having(b, S))
<1>1. Differs(b, a, t, n)
  BY DEF Differs
<1> QED BY <1>1, HavingFewer

(***************************************************************************)
(* What a step does to the attempts                                        *)
(***************************************************************************)
Differ(t, n) == Differs(attempt, attempt', t, n)

\* The next attempt of a task that may have one.
Starts(t, n) ==
  /\ Differ(t, n) /\ attempt[t][n] = "none" /\ attempt'[t][n] = "preparing"
  /\ n = Recorded(attempt, t) + 1
  /\ Latest(attempt, t) \in {"none", "failed_pre_dispatch"}
  /\ plan # NoPlan /\ \A d \in plan.dependsOn[t] : Latest(attempt, d) = "succeeded"
  /\ budget # "expired"
  /\ Cardinality(Having(attempt, Used)) < budgetPolicy.maxWorkerAttempts
  /\ Cardinality(Having(attempt, Active)) < budgetPolicy.maxConcurrentWorkers

\* An attempt under way goes on or ends; the end of a call follows the call.
Goes(t, n) ==
  /\ Differ(t, n) /\ attempt[t][n] \in Active /\ attempt'[t][n] \in Used \ {"preparing"}
  /\ attempt[t][n] = "running" <=> attempt'[t][n] \in Called \ {"running"}
  /\ attempt[t][n] = "preparing" /\ attempt'[t][n] \in Called =>
       Cardinality(Having(attempt, Called)) < budgetPolicy.calls

Effect ==
  /\ attempt' \in Grid
  /\ budgetPolicy' = budgetPolicy
  /\ plan # NoPlan => plan' = plan
  /\ \/ attempt' = attempt
     \/ /\ plan' = plan /\ budget' = budget
        /\ \E t \in Tasks, n \in Numbers : Starts(t, n) \/ Goes(t, n)
  /\ budget = "expired" => budget' = "expired"
  /\ budget = "disabled" => budget' = "disabled"
  /\ budget \in {"open", "expired"} => budget' \in {"open", "expired"}

\* The invariant of the attempts and the budget.
AttemptsInv ==
  /\ BudgetTyped
  /\ \A t \in Tasks : TaskFits(t)
  /\ BudgetHolds

LEMMA PlanTyped ==
  ASSUME BudgetTyped, plan # NoPlan
  PROVE  Graph(plan.dependsOn, Tasks) /\ IsAcyclic(plan.dependsOn)
<1>1. plan \in Proposals /\ IsDependencyGraph(plan.dependsOn)
  BY DEF BudgetTyped
<1> QED BY <1>1, PlanAssumption DEF Graph, IsDependencyGraph

LEMMA StatusSets ==
  /\ Active \subseteq Used /\ Called \subseteq Used /\ DeadEnds \subseteq Used
  /\ "preparing" \notin Called /\ "none" \notin Active /\ "none" \notin Called
  /\ "failed_pre_dispatch" \notin Active /\ "failed_pre_dispatch" \notin Called
  /\ "none" \in Statuses /\ "preparing" \in Used /\ "failed_pre_dispatch" \in Used
  /\ Used \subseteq Statuses /\ "none" \notin Used
  /\ Ended \subseteq Used /\ Active \cap Ended = {} /\ DeadEnds \subseteq Ended
  /\ "succeeded" \in Ended /\ "succeeded" \notin DeadEnds /\ "failed_pre_dispatch" \notin DeadEnds
BY DEF Used, Statuses, Active, Called, DeadEnds, Ended

\* An active attempt is the last one of its task.
LEMMA ActiveIsLatest ==
  ASSUME NEW t \in Tasks, TaskFits(t), NEW n \in Numbers, attempt[t][n] \in Active
  PROVE  Recorded(attempt, t) = n /\ Latest(attempt, t) = attempt[t][n]
<1> USE BudgetAssumption
<1>1. Numbered(attempt, t) /\ Recorded(attempt, t) \in 0..(MaxRetries + 1)
  BY DEF TaskFits, Numbered
<1>2. ~(n > Recorded(attempt, t)) /\ ~(n < Recorded(attempt, t))
  BY <1>1, StatusSets DEF TaskFits, Numbered
<1>3. n = Recorded(attempt, t) /\ n > 0
  BY <1>1, <1>2 DEF Numbers
<1> QED BY <1>1, <1>3, LatestOf

(***************************************************************************)
(* A step changes the last attempt of one task                             *)
(***************************************************************************)
LEMMA StartedTask ==
  ASSUME NEW t \in Tasks, NEW n \in Numbers, TaskFits(t), Starts(t, n)
  PROVE  /\ Recorded(attempt', t) = n /\ Latest(attempt', t) = "preparing" /\ Numbered(attempt', t)
         /\ \A m \in Numbers : m < n => attempt'[t][m] = "failed_pre_dispatch"
<1> USE BudgetAssumption
<1>1. Numbered(attempt, t) /\ attempt'[t][n] # "none"
  BY DEF TaskFits, Starts
<1>2. Recorded(attempt', t) = n /\ Latest(attempt', t) = attempt'[t][n] /\ Numbered(attempt', t)
  BY <1>1, NextAttempt DEF Starts, Differ
<1>3. ASSUME NEW m \in Numbers, m < n PROVE attempt'[t][m] = "failed_pre_dispatch"
  <2>1. Recorded(attempt, t) \in 0..(MaxRetries + 1) /\ m \in Int /\ m >= 1
    BY <1>1 DEF Numbered, Numbers
  <2>2. m <= Recorded(attempt, t) /\ m # n /\ Recorded(attempt, t) > 0
    BY <2>1, <1>3 DEF Starts
  <2>3. attempt'[t][m] = attempt[t][m]
    BY <2>2 DEF Starts, Differ, Differs
  <2>4. CASE m = Recorded(attempt, t)
    <3>1. Latest(attempt, t) = attempt[t][m] /\ Latest(attempt, t) # "none"
      BY <1>1, <2>2, <2>4, LatestOf
    <3> QED BY <3>1, <2>3 DEF Starts
  <2>5. CASE m < Recorded(attempt, t)
    BY <2>3, <2>5 DEF TaskFits
  <2> QED BY <2>1, <2>2, <2>4, <2>5
<1> QED BY <1>2, <1>3 DEF Starts

LEMMA GoneTask ==
  ASSUME NEW t \in Tasks, NEW n \in Numbers, TaskFits(t), Goes(t, n)
  PROVE  /\ Recorded(attempt, t) = n /\ Latest(attempt, t) \in Active
         /\ Recorded(attempt', t) = n /\ Latest(attempt', t) = attempt'[t][n]
         /\ Numbered(attempt', t)
         /\ \A m \in Numbers : m < n => attempt'[t][m] = "failed_pre_dispatch"
<1> USE BudgetAssumption
<1>1. Numbered(attempt, t) /\ attempt[t][n] # "none" /\ attempt'[t][n] # "none"
  BY StatusSets DEF TaskFits, Goes
<1>2. Recorded(attempt, t) = n /\ Latest(attempt, t) \in Active
  BY ActiveIsLatest DEF Goes
<1>3. Recorded(attempt', t) = n /\ Numbered(attempt', t)
  BY <1>1, <1>2, SameAttempts DEF Goes, Differ
<1>4. n > 0
  BY DEF Numbers
<1>5. Latest(attempt', t) = attempt'[t][n]
  BY <1>3, <1>4, LatestOf
<1>6. ASSUME NEW m \in Numbers, m < n PROVE attempt'[t][m] = "failed_pre_dispatch"
  <2>1. attempt'[t][m] = attempt[t][m]
    <3>1. m # n
      BY <1>6 DEF Numbers
    <3> QED BY <3>1 DEF Goes, Differ, Differs
  <2> QED BY <2>1, <1>2, <1>6 DEF TaskFits
<1> QED BY <1>2, <1>3, <1>5, <1>6

\* Which attempts a step leaves as they are.
LEMMA AttemptsStay ==
  ASSUME Effect, NEW t \in Tasks, NEW n \in Numbers
  PROVE  /\ attempt[t][n] \in Ended => attempt'[t][n] = attempt[t][n]
         /\ attempt[t][n] # "none" => attempt'[t][n] # "none"
<1>1. CASE attempt' = attempt
  BY <1>1
<1>2. ASSUME NEW u \in Tasks, NEW m \in Numbers, Starts(u, m) \/ Goes(u, m)
      PROVE  /\ attempt[t][n] \in Ended => attempt'[t][n] = attempt[t][n]
             /\ attempt[t][n] # "none" => attempt'[t][n] # "none"
  <2>1. CASE t # u \/ n # m
    BY <1>2, <2>1 DEF Starts, Goes, Differ, Differs
  <2>2. CASE t = u /\ n = m
    BY <1>2, <2>2, StatusSets DEF Starts, Goes
  <2> QED BY <2>1, <2>2
<1> QED BY <1>1, <1>2 DEF Effect

LEMMA LatestMoves ==
  ASSUME AttemptsInv, Effect, NEW t \in Tasks
  PROVE  /\ Numbered(attempt', t)
         /\ Latest(attempt, t) \in Ended /\ Latest(attempt, t) # "failed_pre_dispatch" =>
              Latest(attempt', t) = Latest(attempt, t)
<1>n. Numbered(attempt, t)
  BY DEF AttemptsInv, TaskFits
<1>1. CASE attempt' = attempt
  BY <1>1, <1>n
<1>2. ASSUME NEW u \in Tasks, NEW m \in Numbers, Starts(u, m) \/ Goes(u, m)
      PROVE  /\ Numbered(attempt', t)
             /\ Latest(attempt, t) \in Ended /\ Latest(attempt, t) # "failed_pre_dispatch" =>
                  Latest(attempt', t) = Latest(attempt, t)
  <2>1. CASE t # u
    <3>1. Differs(attempt, attempt', u, m)
      BY <1>2 DEF Starts, Goes, Differ
    <3> QED BY <2>1, <3>1, <1>n, OtherTask
  <2>2. CASE t = u
    <3>1. TaskFits(t)
      BY DEF AttemptsInv
    <3>2. CASE Starts(u, m)
      BY <2>2, <3>1, <3>2, StartedTask, StatusSets DEF Starts
    <3>3. CASE Goes(u, m)
      BY <2>2, <3>1, <3>3, GoneTask, StatusSets
    <3> QED BY <1>2, <3>2, <3>3
  <2> QED BY <2>1, <2>2
<1> QED BY <1>1, <1>2 DEF Effect

LEMMA NoAttemptYet ==
  ASSUME NEW t \in Tasks, TaskFits(t), Latest(attempt, t) # "none"
  PROVE  Recorded(attempt, t) > 0
<1>1. Numbered(attempt, t) /\ Recorded(attempt, t) \in 0..(MaxRetries + 1)
  BY DEF TaskFits, Numbered
<1> QED BY <1>1, LatestOf, BudgetAssumption

LEMMA TaskFitsStep ==
  ASSUME AttemptsInv, Effect, NEW t \in Tasks
  PROVE  TaskFits(t)'
<1> USE BudgetAssumption
<1>f. TaskFits(t)
  BY DEF AttemptsInv
<1>n. Numbered(attempt, t) /\ Numbered(attempt', t) /\ Recorded(attempt, t) \in 0..(MaxRetries + 1)
  BY <1>f, LatestMoves DEF TaskFits, Numbered
\* What a started task waits for still stands.
<1>1. ASSUME Recorded(attempt, t) > 0 \/ \E n \in Numbers : Starts(t, n)
      PROVE  plan' # NoPlan /\ \A d \in plan'.dependsOn[t] : Latest(attempt', d) = "succeeded"
  <2>1. plan # NoPlan /\ \A d \in plan.dependsOn[t] : Latest(attempt, d) = "succeeded"
    BY <1>1, <1>f DEF TaskFits, Starts
  <2>2. plan' = plan
    BY <2>1 DEF Effect
  <2>3. plan.dependsOn[t] \subseteq Tasks
    BY <2>1, PlanTyped DEF AttemptsInv, Graph
  <2>4. ASSUME NEW d \in plan.dependsOn[t] PROVE Latest(attempt', d) = "succeeded"
    BY <2>1, <2>3, LatestMoves, StatusSets
  <2> QED BY <2>1, <2>2, <2>4
<1>2. CASE attempt' = attempt
  BY <1>1, <1>2, <1>f DEF TaskFits
<1>3. ASSUME NEW u \in Tasks, NEW m \in Numbers, Starts(u, m) \/ Goes(u, m)
      PROVE  TaskFits(t)'
  <2>d. Differs(attempt, attempt', u, m)
    BY <1>3 DEF Starts, Goes, Differ
  <2>1. CASE t # u
    <3>1. Recorded(attempt', t) = Recorded(attempt, t)
      BY <2>1, <2>d, <1>n, OtherTask
    <3>2. \A n \in Numbers : attempt'[t][n] = attempt[t][n]
      BY <2>1, <2>d DEF Differs
    <3>3. \A n \in Numbers : n < Recorded(attempt', t) => attempt'[t][n] = "failed_pre_dispatch"
      BY <3>1, <3>2, <1>f DEF TaskFits
    <3> QED BY <3>1, <3>3, <1>n, <1>1 DEF TaskFits
  <2>2. CASE t = u /\ Starts(u, m)
    <3>1. /\ Recorded(attempt', t) = m
          /\ \A n \in Numbers : n < m => attempt'[t][n] = "failed_pre_dispatch"
      BY <2>2, <1>f, StartedTask
    <3> QED BY <3>1, <2>2, <1>n, <1>1 DEF TaskFits
  <2>3. CASE t = u /\ Goes(u, m)
    <3>1. /\ Recorded(attempt', t) = m /\ Recorded(attempt, t) = m /\ m > 0
          /\ \A n \in Numbers : n < m => attempt'[t][n] = "failed_pre_dispatch"
      BY <2>3, <1>f, GoneTask, NumbersAreFinite
    <3> QED BY <3>1, <1>n, <1>1 DEF TaskFits
  <2> QED BY <1>3, <2>1, <2>2, <2>3
<1> QED BY <1>2, <1>3 DEF Effect

(***************************************************************************)
(* The budget holds, and a doomed task stays doomed                        *)
(***************************************************************************)
LEMMA PolicyTyped ==
  ASSUME BudgetTyped
  PROVE  {budgetPolicy.maxWorkerAttempts, budgetPolicy.maxConcurrentWorkers, budgetPolicy.calls} \subseteq Nat
BY BudgetAssumption DEF BudgetTyped

LEMMA BudgetHoldsStep ==
  ASSUME AttemptsInv, Effect
  PROVE  BudgetHolds'
<1>p. /\ {budgetPolicy.maxWorkerAttempts, budgetPolicy.maxConcurrentWorkers, budgetPolicy.calls} \subseteq Nat
      /\ budgetPolicy' = budgetPolicy
  BY PolicyTyped DEF AttemptsInv, Effect
<1>c. \A a, S : Cardinality(Having(a, S)) \in Nat
  BY CellsAreFinite
<1>h. /\ Cardinality(Having(attempt, Used)) <= budgetPolicy.maxWorkerAttempts
      /\ Cardinality(Having(attempt, Active)) <= budgetPolicy.maxConcurrentWorkers
      /\ Cardinality(Having(attempt, Called)) <= budgetPolicy.calls
  BY DEF AttemptsInv, BudgetHolds, Used
<1>g. ASSUME Cardinality(Having(attempt', Used)) <= budgetPolicy.maxWorkerAttempts,
             Cardinality(Having(attempt', Active)) <= budgetPolicy.maxConcurrentWorkers,
             Cardinality(Having(attempt', Called)) <= budgetPolicy.calls
      PROVE  BudgetHolds'
  BY <1>g, <1>p DEF BudgetHolds, Used
<1>1. CASE attempt' = attempt
  BY <1>1, <1>h, <1>g
<1>2. ASSUME NEW t \in Tasks, NEW n \in Numbers, Starts(t, n)
      PROVE  BudgetHolds'
  <2>1. Differs(attempt, attempt', t, n) /\ attempt'[t][n] \notin Called
    BY <1>2, StatusSets DEF Starts, Differ
  <2>2. Cardinality(Having(attempt', Used)) <= Cardinality(Having(attempt, Used)) + 1
    BY <2>1, HavingOneMore
  <2>3. Cardinality(Having(attempt', Active)) <= Cardinality(Having(attempt, Active)) + 1
    BY <2>1, HavingOneMore
  <2>4. Cardinality(Having(attempt', Called)) <= Cardinality(Having(attempt, Called))
    BY <2>1, HavingFewer
  <2>5. /\ Cardinality(Having(attempt, Used)) < budgetPolicy.maxWorkerAttempts
        /\ Cardinality(Having(attempt, Active)) < budgetPolicy.maxConcurrentWorkers
    BY <1>2 DEF Starts
  <2>6. Cardinality(Having(attempt', Used)) <= budgetPolicy.maxWorkerAttempts
    BY <2>2, <2>5, <1>c, <1>p
  <2>7. Cardinality(Having(attempt', Active)) <= budgetPolicy.maxConcurrentWorkers
    BY <2>3, <2>5, <1>c, <1>p
  <2>8. Cardinality(Having(attempt', Called)) <= budgetPolicy.calls
    BY <2>4, <1>h, <1>c, <1>p
  <2> QED BY <2>6, <2>7, <2>8, <1>g
<1>3. ASSUME NEW t \in Tasks, NEW n \in Numbers, Goes(t, n)
      PROVE  BudgetHolds'
  <2>1. Differs(attempt, attempt', t, n) /\ attempt[t][n] \in Active /\ attempt[t][n] \in Used
    BY <1>3, StatusSets DEF Goes, Differ
  <2>2. Cardinality(Having(attempt', Used)) <= Cardinality(Having(attempt, Used))
    BY <2>1, HavingFewer
  <2>3. Cardinality(Having(attempt', Active)) <= Cardinality(Having(attempt, Active))
    BY <2>1, HavingFewer
  <2>4. Cardinality(Having(attempt', Called)) <= budgetPolicy.calls
    <3>1. CASE attempt[t][n] = "preparing" /\ attempt'[t][n] \in Called
      <4>1. Cardinality(Having(attempt', Called)) <= Cardinality(Having(attempt, Called)) + 1
        BY <2>1, HavingOneMore
      <4>2. Cardinality(Having(attempt, Called)) < budgetPolicy.calls
        BY <1>3, <3>1 DEF Goes
      <4> QED BY <4>1, <4>2, <1>c, <1>p
    <3>2. CASE ~(attempt[t][n] = "preparing" /\ attempt'[t][n] \in Called)
      <4>1. attempt'[t][n] \in Called => attempt[t][n] \in Called
        BY <2>1, <3>2 DEF Active, Called
      <4>2. Cardinality(Having(attempt', Called)) <= Cardinality(Having(attempt, Called))
        BY <2>1, <4>1, HavingFewer
      <4> QED BY <4>2, <1>h, <1>c, <1>p
    <3> QED BY <3>1, <3>2
  <2>5. Cardinality(Having(attempt', Used)) <= budgetPolicy.maxWorkerAttempts
    BY <2>2, <1>h, <1>c, <1>p
  <2>6. Cardinality(Having(attempt', Active)) <= budgetPolicy.maxConcurrentWorkers
    BY <2>3, <1>h, <1>c, <1>p
  <2> QED BY <2>4, <2>5, <2>6, <1>g
<1> QED BY <1>1, <1>2, <1>3 DEF Effect

LEMMA DoomedStays ==
  ASSUME AttemptsInv, Effect, NEW t \in Tasks, Doomed(t)
  PROVE  Doomed(t)'
<1>n. Numbered(attempt, t) /\ TaskFits(t)
  BY DEF AttemptsInv, TaskFits
<1>c. \A a, S : Cardinality(Having(a, S)) \in Nat
  BY CellsAreFinite
<1>p. budgetPolicy.maxWorkerAttempts \in Nat /\ budgetPolicy' = budgetPolicy
  BY PolicyTyped DEF AttemptsInv, Effect
<1>g. ASSUME Latest(attempt', t) = Latest(attempt, t), Recorded(attempt', t) = Recorded(attempt, t),
             Cardinality(Having(attempt, Used)) <= Cardinality(Having(attempt', Used))
      PROVE  Doomed(t)'
  <2>1. CASE Latest(attempt, t) \in DeadEnds
    BY <2>1, <1>g DEF Doomed
  <2>2. CASE Latest(attempt, t) \in {"none", "failed_pre_dispatch"} /\ budget = "expired"
    BY <2>2, <1>g DEF Doomed, Effect
  <2>3. CASE /\ Latest(attempt, t) \in {"none", "failed_pre_dispatch"}
             /\ budgetPolicy.maxWorkerAttempts <= Cardinality(Having(attempt, Used))
    <3>1. budgetPolicy'.maxWorkerAttempts <= Cardinality(Having(attempt', Used))
      BY <2>3, <1>g, <1>c, <1>p
    <3> QED BY <3>1, <2>3, <1>g DEF Doomed
  <2>4. CASE /\ Latest(attempt, t) \in {"none", "failed_pre_dispatch"}
             /\ Recorded(attempt, t) = MaxRetries + 1
    BY <2>4, <1>g DEF Doomed
  <2> QED BY <2>1, <2>2, <2>3, <2>4 DEF Doomed
<1>1. CASE attempt' = attempt
  BY <1>1, <1>g, <1>c
<1>2. ASSUME NEW u \in Tasks, NEW m \in Numbers, Starts(u, m) \/ Goes(u, m)
      PROVE  Doomed(t)'
  <2>d. Differs(attempt, attempt', u, m)
    BY <1>2 DEF Starts, Goes, Differ
  <2>1. t # u
    <3>1. ASSUME t = u, Starts(u, m) PROVE FALSE
      <4>1. /\ Latest(attempt, t) \in {"none", "failed_pre_dispatch"}
            /\ budget # "expired" /\ Recorded(attempt, t) + 1 \in Numbers
            /\ Cardinality(Having(attempt, Used)) < budgetPolicy.maxWorkerAttempts
        BY <3>1 DEF Starts
      <4>2. Recorded(attempt, t) # MaxRetries + 1
        BY <4>1, BudgetAssumption DEF Numbers
      <4>3. ~(budgetPolicy.maxWorkerAttempts <= Cardinality(Having(attempt, Used)))
        BY <4>1, <1>c, <1>p
      <4> QED BY <4>1, <4>2, <4>3, StatusSets DEF Doomed
    <3>2. ASSUME t = u, Goes(u, m) PROVE FALSE
      <4>1. Latest(attempt, t) \in Active
        BY <3>2, <1>n, GoneTask
      <4> QED BY <4>1, StatusSets DEF Doomed
    <3> QED BY <3>1, <3>2, <1>2
  <2>2. Recorded(attempt', t) = Recorded(attempt, t) /\ Latest(attempt', t) = Latest(attempt, t)
    BY <2>1, <2>d, <1>n, OtherTask
  <2>3. attempt'[u][m] \in Used
    BY <1>2, StatusSets DEF Starts, Goes
  <2>4. Cardinality(Having(attempt, Used)) <= Cardinality(Having(attempt', Used))
    BY <2>3, <2>d, HavingStill
  <2> QED BY <2>2, <2>4, <1>g
<1> QED BY <1>1, <1>2 DEF Effect

(***************************************************************************)
(* The steps                                                               *)
(***************************************************************************)
\* A pass works from the attempts as the step leaves them, or is over.
PassMoves(s) ==
  \/ pass' = [pass EXCEPT ![s] = AtRest]
  \/ /\ plan # NoPlan /\ budget' \in {"open", "expired"}
     /\ \E next \in 0..(Len(TaskOrder) + 1), blocks \in SUBSET Tasks :
          /\ \A t \in blocks : Doomed(t)
          /\ pass' = [pass EXCEPT ![s] = [view |-> attempt', next |-> next, blocks |-> blocks]]

PassesMove == pass' = pass \/ \E s \in Schedulers : PassMoves(s)

\* A new verdict has its reason.
ReportsMove ==
  /\ reported' \subseteq {"blocked", "complete"}
  /\ "complete" \in reported' /\ "complete" \notin reported =>
       budget \in {"open", "expired"} /\ \A t \in Tasks : Latest(attempt, t) = "succeeded"
  /\ "blocked" \in reported' /\ "blocked" \notin reported =>
       budget = "disabled" \/ \E t \in Tasks : Doomed(t)

\* What a step does to the cells of the plan.
CellsMove ==
  /\ workerClaim' \in CellsIn(ClaimStates)
  /\ granted' \in CellsIn(Nat)
  /\ \A t \in Tasks, n \in Numbers : CellFits(t, n)'

PlanMoves == plan' = NoPlan \/ (plan' \in Proposals /\ IsDependencyGraph(plan'.dependsOn))

BudgetMoves ==
  /\ Effect /\ PlanMoves /\ CellsMove /\ PassesMove /\ ReportsMove
  /\ budget' \in {"none", "disabled", "open", "expired"}

\* What is left alone moves well.
LEMMA StillMoves ==
  ASSUME BudgetInv
  PROVE  /\ plan' = plan => PlanMoves
         /\ attempt' = attempt /\ workerClaim' = workerClaim /\ granted' = granted => CellsMove
         /\ pass' = pass => PassesMove
         /\ reported' = reported => ReportsMove
<1>1. plan' = plan => PlanMoves
  BY DEF BudgetInv, BudgetTyped, PlanMoves
<1>2. attempt' = attempt /\ workerClaim' = workerClaim /\ granted' = granted => CellsMove
  BY DEF BudgetInv, BudgetTyped, CellsMove, CellFits, ClaimStates
<1>3. reported' = reported => ReportsMove
  BY DEF BudgetInv, BudgetTyped, ReportsMove
<1> QED BY <1>1, <1>2, <1>3 DEF PassesMove

LEMMA StillEffect ==
  ASSUME BudgetInv, attempt' = attempt, budgetPolicy' = budgetPolicy, plan # NoPlan => plan' = plan,
         budget' = budget
  PROVE  Effect /\ budget' \in {"none", "disabled", "open", "expired"}
<1>1. attempt \in Grid /\ budget \in {"none", "disabled", "open", "expired"}
  BY DEF BudgetInv, BudgetTyped
<1> QED BY <1>1 DEF Effect

LEMMA AdmitMoves ==
  ASSUME BudgetInv, Admit
  PROVE  BudgetMoves
<1>1. /\ UNCHANGED <<budgetPolicy, budget, attempt, workerClaim, pass, granted, reported>>
      /\ plan = NoPlan /\ \E p \in Proposals : RecordPlan(p)
  BY DEF Admit, PlanNext
<1>2. PlanMoves
  BY <1>1 DEF RecordPlan, PlanMoves
<1> QED BY <1>1, <1>2, StillMoves, StillEffect DEF BudgetMoves

LEMMA ExpireMoves ==
  ASSUME BudgetInv, Expire
  PROVE  BudgetMoves
<1>1. /\ budget = "open" /\ budget' = "expired" /\ attempt' = attempt
      /\ UNCHANGED <<plan, budgetPolicy, workerClaim, pass, granted, reported>>
  BY DEF Expire
<1>2. Effect
  BY <1>1 DEF Effect, BudgetInv, BudgetTyped
<1> QED BY <1>1, <1>2, StillMoves DEF BudgetMoves

LEMMA PassTyped ==
  ASSUME BudgetTyped, NEW s \in Schedulers
  PROVE  /\ pass[s] \in Passes
         /\ pass[s].view \in Grid /\ pass[s].next \in 0..(Len(TaskOrder) + 1)
         /\ pass[s].blocks \in SUBSET Tasks
<1>1. pass[s] \in Passes
  BY DEF BudgetTyped
<1> QED BY <1>1 DEF Passes

LEMMA OrderTyped ==
  /\ Len(TaskOrder) \in Nat
  /\ \A i \in 1..Len(TaskOrder) : TaskOrder[i] \in Tasks
<1>1. TaskOrder \in Seq(Tasks)
  BY PlanAssumption
<1> QED BY <1>1

LEMMA PassSet ==
  ASSUME pass \in [Schedulers -> Passes], NEW s \in Schedulers, NEW a, NEW k
  PROVE  [pass EXCEPT ![s].view = a, ![s].next = k] =
           [pass EXCEPT ![s] = [view |-> a, next |-> k, blocks |-> pass[s].blocks]]
<1> DEFINE r == pass[s]
           q == [pass EXCEPT ![s].view = a]
           R == [view |-> a, next |-> r.next, blocks |-> r.blocks]
<1>1. r \in Passes
  OBVIOUS
<1> HIDE DEF r
<1>2. [r EXCEPT !.view = a] = R
  BY <1>1 DEF Passes
<1>3. [R EXCEPT !.next = k] = [view |-> a, next |-> k, blocks |-> r.blocks]
  OBVIOUS
<1> HIDE DEF R
<1>4. [r EXCEPT !.view = a, !.next = k] = [view |-> a, next |-> k, blocks |-> r.blocks]
  <2>1. [r EXCEPT !.view = a, !.next = k] = [[r EXCEPT !.view = a] EXCEPT !.next = k]
    OBVIOUS
  <2> QED BY <1>2, <1>3, <2>1
<1>5. q = [pass EXCEPT ![s] = [pass[s] EXCEPT !.view = a]]
  OBVIOUS
<1>6. q[s] = [pass[s] EXCEPT !.view = a] /\ DOMAIN q = Schedulers
  OBVIOUS
<1>7. [pass EXCEPT ![s].view = a, ![s].next = k] =
        [pass EXCEPT ![s] = [pass[s] EXCEPT !.view = a, !.next = k]]
  BY <1>5, <1>6
<1> QED BY <1>4, <1>7 DEF r

LEMMA BeginPassMoves ==
  ASSUME BudgetInv, NEW s \in Schedulers, BeginPass(s)
  PROVE  BudgetMoves
<1>1. /\ plan \in Scheduled /\ UNCHANGED <<plan, budgetPolicy, attempt, workerClaim, granted>>
  BY DEF BeginPass
<1>2. plan # NoPlan
  BY <1>1, PlanAssumption, BudgetAssumption
<1>3. budget \in {"none", "disabled", "open", "expired"} /\ attempt \in Grid
      /\ reported \subseteq {"blocked", "complete"}
  BY DEF BudgetInv, BudgetTyped
<1>4. CASE budget = "disabled"
  <2>1. reported' = reported \cup {"blocked"} /\ budget' = budget /\ pass' = pass
    BY <1>4 DEF BeginPass
  <2>2. ReportsMove
    BY <2>1, <1>3, <1>4 DEF ReportsMove
  <2> QED BY <2>1, <2>2, <1>1, StillMoves, StillEffect DEF BudgetMoves
<1>5. CASE budget # "disabled"
  <2>1. /\ budget' = IF budget = "none" THEN "open" ELSE budget
        /\ pass' = [pass EXCEPT ![s] = [view |-> attempt, next |-> 1, blocks |-> {}]]
        /\ reported' = reported
    BY <1>5 DEF BeginPass
  <2>2. budget' \in {"open", "expired"} /\ (budget = "expired" => budget' = "expired")
    BY <2>1, <1>3, <1>5
  <2>3. 1 \in 0..(Len(TaskOrder) + 1)
    BY OrderTyped
  <2>4. PassMoves(s)
    BY <2>1, <2>2, <2>3, <1>1, <1>2 DEF PassMoves
  <2>5. Effect
    BY <2>2, <1>1, <1>3, <1>5 DEF Effect
  <2> QED BY <2>1, <2>2, <2>4, <2>5, <1>1, StillMoves DEF BudgetMoves, PassesMove
<1> QED BY <1>4, <1>5

LEMMA LosePassMoves ==
  ASSUME BudgetInv, NEW s \in Schedulers, LosePass(s)
  PROVE  BudgetMoves
<1>1. /\ pass' = [pass EXCEPT ![s] = AtRest]
      /\ UNCHANGED <<plan, budgetPolicy, budget, attempt, workerClaim, granted, reported>>
  BY DEF LosePass
<1>2. PassesMove
  BY <1>1 DEF PassesMove, PassMoves
<1> QED BY <1>1, <1>2, StillMoves, StillEffect DEF BudgetMoves

\* A pass ends on what it read: a success it saw is one, and so is a dead end.
LEMMA EndPassMoves ==
  ASSUME BudgetInv, NEW s \in Schedulers, EndPass(s)
  PROVE  BudgetMoves
<1> DEFINE p == pass[s]
<1>1. /\ pass' = [pass EXCEPT ![s] = AtRest] /\ p.next # 0
      /\ reported' = reported \cup ({PlanStatus(p)} \ {"waiting"})
      /\ UNCHANGED <<plan, budgetPolicy, budget, attempt, workerClaim, granted>>
  BY DEF EndPass
<1>2. PassesMove
  BY <1>1 DEF PassesMove, PassMoves
<1>3. ViewFits(p.view) /\ budget \in {"open", "expired"} /\ \A t \in p.blocks : Doomed(t)
  BY <1>1 DEF BudgetInv, PassFits
<1>t. \A t \in Tasks : TaskFits(t)
  BY DEF BudgetInv
<1>b. p.blocks \in SUBSET Tasks
  BY PassTyped DEF BudgetInv
<1> HIDE DEF p
<1>4. PlanStatus(p) \in {"complete", "blocked", "waiting"}
  BY DEF PlanStatus
<1>5. ASSUME PlanStatus(p) = "complete" PROVE \A t \in Tasks : Latest(attempt, t) = "succeeded"
  <2>1. \A t \in Tasks : Latest(p.view, t) = "succeeded"
    BY <1>5 DEF PlanStatus
  <2> QED BY <2>1, <1>3, <1>t, LatestStays, StatusSets
<1>6. ASSUME PlanStatus(p) = "blocked" PROVE \E t \in Tasks : Doomed(t)
  <2>1. Blocked(p) # {}
    BY <1>6 DEF PlanStatus
  <2>2. Stopped(p) # {}
    BY <2>1 DEF Blocked
  <2>3. PICK t \in Stopped(p) : TRUE
    BY <2>2
  <2>4. CASE t \in p.blocks
    BY <2>4, <1>3, <1>b
  <2>5. CASE t \in Tasks /\ Latest(p.view, t) \in DeadEnds
    <3>1. Latest(attempt, t) = Latest(p.view, t)
      BY <2>5, <1>3, <1>t, LatestStays, StatusSets
    <3> QED BY <3>1, <2>5 DEF Doomed
  <2> QED BY <2>3, <2>4, <2>5 DEF Stopped
<1>7. ReportsMove
  <2>1. reported \subseteq {"blocked", "complete"}
    BY DEF BudgetInv, BudgetTyped
  <2>2. "complete" \in reported' /\ "complete" \notin reported => PlanStatus(p) = "complete"
    BY <1>1
  <2>3. "blocked" \in reported' /\ "blocked" \notin reported => PlanStatus(p) = "blocked"
    BY <1>1
  <2>4. reported' \subseteq {"blocked", "complete"}
    BY <2>1, <1>1, <1>4
  <2> QED BY <2>2, <2>3, <2>4, <1>3, <1>5, <1>6 DEF ReportsMove
<1> QED BY <1>1, <1>2, <1>7, StillMoves, StillEffect DEF BudgetMoves

\* A scheduler that reserves with what it read is told of the attempt another one
\* made, is refused for a reason that stands, or starts a task that may start.
LEMMA ReserveMoves ==
  ASSUME BudgetInv, NEW s \in Schedulers, ReserveNext(s)
  PROVE  BudgetMoves
<1> USE BudgetAssumption
<1> DEFINE v == pass[s].view
<1>1. /\ pass[s].next # 0 /\ UNCHANGED <<plan, budgetPolicy, budget, workerClaim, reported>>
      /\ \E i \in Upcoming(pass[s]) : ReserveAttempt(s, i, TaskOrder[i], Recorded(v, TaskOrder[i]) + 1)
  BY DEF ReserveNext
<1>2. PICK i \in Upcoming(pass[s]) : ReserveAttempt(s, i, TaskOrder[i], Recorded(v, TaskOrder[i]) + 1)
  BY <1>1
<1>t. PICK t, n : t = TaskOrder[i] /\ n = Recorded(v, t) + 1
  OBVIOUS
<1>y. /\ pass[s] \in Passes /\ v \in Grid /\ pass[s].next \in 0..(Len(TaskOrder) + 1)
      /\ pass[s].blocks \in SUBSET Tasks
  BY PassTyped DEF BudgetInv
<1>3. i \in pass[s].next..Len(TaskOrder) /\ Wants(v, t)
  BY <1>2, <1>t DEF Upcoming
<1>4. i \in 1..Len(TaskOrder) /\ t \in Tasks /\ i + 1 \in 0..(Len(TaskOrder) + 1)
      /\ Len(TaskOrder) + 1 \in 0..(Len(TaskOrder) + 1)
  <2>1. i \in 1..Len(TaskOrder)
    BY <1>1, <1>3, <1>y, OrderTyped
  <2> QED BY <2>1, <1>t, OrderTyped
<1>5. /\ ViewFits(v) /\ plan # NoPlan /\ budget \in {"open", "expired"}
      /\ \A u \in pass[s].blocks : Doomed(u)
  BY <1>1 DEF BudgetInv, PassFits
<1>6. TaskFits(t) /\ \A u \in Tasks : TaskFits(u)
  BY <1>4 DEF BudgetInv
<1>7. Latest(v, t) \in {"none", "failed_pre_dispatch"}
  BY <1>3 DEF Wants
<1>r. ReserveAttempt(s, i, t, n)
  BY <1>2, <1>t
<1>a. /\ attempt \in Grid /\ budget \in {"none", "disabled", "open", "expired"}
      /\ pass \in [Schedulers -> Passes]
  BY DEF BudgetInv, BudgetTyped
<1>v. Recorded(v, t) \in 0..(MaxRetries + 1) /\ Recorded(attempt, t) \in 0..(MaxRetries + 1)
  BY <1>4, <1>5, <1>6, ViewCounts
<1>f. PlanMoves /\ ReportsMove
  BY <1>1, StillMoves
<1> HIDE DEF v
<1>8. ASSUME n \in Numbers, attempt[t][n] # "none"
      PROVE  BudgetMoves
  <2>1. /\ pass' = [pass EXCEPT ![s].view = attempt, ![s].next = i + 1]
        /\ attempt' = attempt /\ granted' = granted
    BY <1>8, <1>r DEF ReserveAttempt
  <2>2. pass' = [pass EXCEPT ![s] = [view |-> attempt', next |-> i + 1, blocks |-> pass[s].blocks]]
    BY <2>1, <1>a, PassSet
  <2>3. PassMoves(s)
    BY <2>2, <1>1, <1>4, <1>5, <1>y DEF PassMoves
  <2> QED BY <2>1, <2>3, <1>1, <1>f, StillMoves, StillEffect DEF BudgetMoves, PassesMove
<1>9. ASSUME ~(n \in Numbers /\ attempt[t][n] # "none")
      PROVE  BudgetMoves
  <2>1. Recorded(attempt, t) = Recorded(v, t) /\ Latest(attempt, t) = Latest(v, t)
    BY <1>4, <1>5, <1>6, <1>7, <1>9, <1>t, WantedIsCurrent
  <2>2. CASE Refusal(t, n) # "none"
    <3> DEFINE blocks == IF Refusal(t, n) = "concurrency" THEN {} ELSE {t}
    <3>1. /\ pass' = [pass EXCEPT ![s] = [view |-> attempt, next |-> Len(TaskOrder) + 1, blocks |-> blocks]]
          /\ attempt' = attempt /\ granted' = granted
      BY <1>9, <1>r, <2>2 DEF ReserveAttempt
    <3>2. ASSUME Refusal(t, n) # "concurrency" PROVE Doomed(t)
      <4>1. CASE budget = "expired"
        BY <4>1, <2>1, <1>7 DEF Doomed
      <4>2. CASE Cardinality(Having(attempt, Used)) >= budgetPolicy.maxWorkerAttempts
        <5>1. budgetPolicy.maxWorkerAttempts <= Cardinality(Having(attempt, Used))
          BY <4>2
        <5> QED BY <5>1, <2>1, <1>7 DEF Doomed
      <4>3. CASE n > MaxRetries + 1
        <5>1. Recorded(attempt, t) = MaxRetries + 1
          BY <4>3, <2>1, <1>v, <1>t
        <5> QED BY <5>1, <2>1, <1>7 DEF Doomed
      <4> QED BY <4>1, <4>2, <4>3, <3>2, <2>1, <2>2, <1>7 DEF Refusal, Used
    <3>3. blocks \in SUBSET Tasks /\ \A u \in blocks : Doomed(u)
      BY <3>2, <1>4
    <3> HIDE DEF blocks
    <3>4. PassMoves(s)
      BY <3>1, <3>3, <1>1, <1>4, <1>5 DEF PassMoves
    <3> QED BY <3>1, <3>4, <1>1, <1>f, StillMoves, StillEffect DEF BudgetMoves, PassesMove
  <2>3. CASE Refusal(t, n) = "none"
    <3>1. /\ attempt' = [attempt EXCEPT ![t][n] = "preparing"]
          /\ granted' = [granted EXCEPT ![t][n] = granted[t][n] + 1]
          /\ pass' = [pass EXCEPT ![s].view = attempt', ![s].next = i + 1]
      BY <1>9, <1>r, <2>3 DEF ReserveAttempt
    <3>2. /\ budget # "expired"
          /\ ~(Cardinality(Having(attempt, Used)) >= budgetPolicy.maxWorkerAttempts)
          /\ ~(Cardinality(Having(attempt, Active)) >= budgetPolicy.maxConcurrentWorkers)
          /\ ~(n > MaxRetries + 1)
      BY <2>3 DEF Refusal, Used
    <3>3. n \in Numbers /\ n = Recorded(attempt, t) + 1
      BY <3>2, <2>1, <1>v, <1>t DEF Numbers
    <3>4. attempt[t][n] = "none"
      BY <3>3, <1>9
    <3>5. attempt' \in Grid /\ attempt'[t][n] = "preparing" /\ Differs(attempt, attempt', t, n)
      <4>1. attempt' = Put(attempt, t, n, "preparing") /\ "preparing" \in Statuses
        BY <3>1, StatusSets DEF Put
      <4> QED BY <4>1, <3>3, <1>4, <1>a, CellSet DEF Grid
    <3>6. ASSUME NEW d \in plan.dependsOn[t] PROVE Latest(attempt, d) = "succeeded"
      <4>1. d \in Tasks
        BY <1>4, <1>5, PlanTyped DEF BudgetInv, Graph
      <4>2. Latest(v, d) = "succeeded"
        BY <1>3 DEF Wants
      <4> QED BY <4>1, <4>2, <1>5, <1>6, LatestStays, StatusSets
    <3>c. /\ Cardinality(Having(attempt, Used)) < budgetPolicy.maxWorkerAttempts
          /\ Cardinality(Having(attempt, Active)) < budgetPolicy.maxConcurrentWorkers
      <4>1. /\ Cardinality(Having(attempt, Used)) \in Nat /\ Cardinality(Having(attempt, Active)) \in Nat
        BY CellsAreFinite
      <4>2. budgetPolicy.maxWorkerAttempts \in Nat /\ budgetPolicy.maxConcurrentWorkers \in Nat
        BY PolicyTyped DEF BudgetInv
      <4> QED BY <4>1, <4>2, <3>2
    <3>7. Starts(t, n)
      BY <3>2, <3>3, <3>4, <3>5, <3>6, <3>c, <2>1, <1>5, <1>7 DEF Starts, Differ
    <3>8. Effect
      BY <3>3, <3>5, <3>7, <1>1, <1>4, <1>5 DEF Effect
    <3>9. CellFits(t, n) /\ granted \in CellsIn(Nat)
          /\ workerClaim \in CellsIn(ClaimStates)
      BY <3>3, <1>4 DEF BudgetInv, BudgetTyped, ClaimStates
    <3>10. granted[t][n] = 0 /\ workerClaim[t][n] = "none"
      BY <3>4, <3>9, StatusSets DEF CellFits
    <3>11. granted' \in CellsIn(Nat) /\ granted'[t][n] = 1 /\ Differs(granted, granted', t, n)
      <4>1. granted' = Put(granted, t, n, 1) /\ 1 \in Nat
        BY <3>1, <3>10 DEF Put
      <4> QED BY <4>1, <3>3, <3>9, <1>4, CellSet
    <3>12. CellsMove
      <4>1. CellFits(t, n)'
        <5>1. workerClaim'[t][n] = "none" /\ attempt'[t][n] \notin Called /\ attempt'[t][n] = "preparing"
          BY <3>5, <3>10, <1>1, StatusSets
        <5>2. granted'[t][n] <= 1
          BY <3>11
        <5> QED BY <5>1, <5>2 DEF CellFits, Called
      <4>2. ASSUME NEW u \in Tasks, NEW m \in Numbers, u # t \/ m # n PROVE CellFits(u, m)'
        <5>1. /\ attempt'[u][m] = attempt[u][m] /\ granted'[u][m] = granted[u][m]
              /\ workerClaim'[u][m] = workerClaim[u][m]
          BY <4>2, <3>5, <3>11, <1>1 DEF Differs
        <5>2. CellFits(u, m)
          BY DEF BudgetInv
        <5> QED BY <5>1, <5>2 DEF CellFits
      <4>3. \A u \in Tasks, m \in Numbers : CellFits(u, m)'
        BY <4>1, <4>2
      <4>4. workerClaim' \in CellsIn(ClaimStates)
        BY <3>9, <1>1
      <4> QED BY <4>3, <4>4, <3>11 DEF CellsMove
    <3>13. pass' = [pass EXCEPT ![s] = [view |-> attempt', next |-> i + 1, blocks |-> pass[s].blocks]]
      BY <3>1, <1>a, PassSet
    <3>14. PassMoves(s)
      BY <3>13, <1>1, <1>4, <1>5, <1>y DEF PassMoves
    <3> QED BY <3>8, <3>12, <3>14, <1>1, <1>a, <1>f DEF BudgetMoves, PassesMove
  <2> QED BY <2>2, <2>3
<1> QED BY <1>8, <1>9

LEMMA AttemptSet ==
  ASSUME attempt \in Grid, NEW t \in Tasks, NEW n \in Numbers, NEW x \in Used,
         attempt' = Put(attempt, t, n, x)
  PROVE  attempt' \in Grid /\ attempt'[t][n] = x /\ Differs(attempt, attempt', t, n)
<1>1. attempt \in CellsIn(Statuses) /\ x \in Statuses
  BY StatusSets DEF Grid
<1> QED BY <1>1, CellSet DEF Grid

\* One attempt goes on, its claim with it.
LEMMA CellMoves ==
  ASSUME BudgetInv, NEW t \in Tasks, NEW n \in Numbers, NEW x \in Used \ {"preparing"}, NEW c \in ClaimStates,
         attempt[t][n] \in Active, attempt[t][n] = "running" <=> x \in Called \ {"running"},
         attempt[t][n] = "preparing" /\ x \in Called =>
           Cardinality(Having(attempt, Called)) < budgetPolicy.calls,
         x = "running" => c \in {"active", "ambiguous"},
         x \in Called \ {"running"} => c = "released",
         x \notin Called => c = "none",
         attempt' = [attempt EXCEPT ![t][n] = x],
         \/ workerClaim' = [workerClaim EXCEPT ![t][n] = c]
         \/ workerClaim' = workerClaim /\ c = workerClaim[t][n],
         UNCHANGED <<plan, budgetPolicy, budget, pass, granted, reported>>
  PROVE  BudgetMoves
<1>1. /\ attempt \in Grid /\ workerClaim \in CellsIn(ClaimStates)
      /\ granted \in CellsIn(Nat)
      /\ budget \in {"none", "disabled", "open", "expired"}
  BY DEF BudgetInv, BudgetTyped, ClaimStates
<1>2. attempt' \in Grid /\ attempt'[t][n] = x /\ Differs(attempt, attempt', t, n)
  <2>1. attempt' = Put(attempt, t, n, x)
    BY DEF Put
  <2> QED BY <2>1, <1>1, AttemptSet
<1>3. /\ workerClaim' \in CellsIn(ClaimStates) /\ workerClaim'[t][n] = c
      /\ Differs(workerClaim, workerClaim', t, n)
  <2>1. CASE workerClaim' = [workerClaim EXCEPT ![t][n] = c]
    <3>1. workerClaim' = Put(workerClaim, t, n, c)
      BY <2>1 DEF Put
    <3> QED BY <3>1, <1>1, CellSet
  <2>2. CASE workerClaim' = workerClaim /\ c = workerClaim[t][n]
    BY <2>2, <1>1 DEF Differs
  <2> QED BY <2>1, <2>2
<1>4. Goes(t, n)
  <2>1. attempt'[t][n] \in Used \ {"preparing"}
    BY <1>2
  <2> QED BY <2>1, <1>2 DEF Goes, Differ
<1>5. Effect
  BY <1>1, <1>2, <1>4 DEF Effect
<1>6. CellFits(t, n)'
  <2>1. CellFits(t, n) /\ x # "none" /\ attempt[t][n] # "none"
    BY StatusSets DEF BudgetInv
  <2> QED BY <2>1, <1>2, <1>3 DEF CellFits
<1>7. ASSUME NEW u \in Tasks, NEW m \in Numbers, u # t \/ m # n PROVE CellFits(u, m)'
  <2>1. attempt'[u][m] = attempt[u][m] /\ workerClaim'[u][m] = workerClaim[u][m]
    BY <1>7, <1>2, <1>3 DEF Differs
  <2>2. CellFits(u, m)
    BY DEF BudgetInv
  <2> QED BY <2>1, <2>2 DEF CellFits
<1>8. CellsMove
  BY <1>1, <1>3, <1>6, <1>7 DEF CellsMove
<1> QED BY <1>1, <1>5, <1>8, StillMoves DEF BudgetMoves

LEMMA ClaimDispatchMoves ==
  ASSUME BudgetInv, NEW t \in Tasks, NEW n \in Numbers, ClaimDispatch(t, n)
  PROVE  BudgetMoves
<1>1. attempt[t][n] = "preparing" /\ UNCHANGED <<plan, budgetPolicy, budget, pass, granted, reported>>
  BY DEF ClaimDispatch
<1>2. CellFits(t, n) /\ attempt[t][n] \in Active
  BY <1>1 DEF BudgetInv, Active
<1>3. CASE Cardinality(Having(attempt, Called)) >= budgetPolicy.calls
  <2>1. attempt' = [attempt EXCEPT ![t][n] = "blocked_pre_dispatch"] /\ workerClaim' = workerClaim
    BY <1>3 DEF ClaimDispatch
  <2>2. "blocked_pre_dispatch" \in Used \ {"preparing"} /\ "blocked_pre_dispatch" \notin Called
    BY DEF Used, Statuses, DeadEnds, Called
  <2>3. workerClaim[t][n] = "none" /\ "none" \in ClaimStates
    BY <1>1, <1>2, StatusSets DEF CellFits, ClaimStates
  <2> QED BY <2>1, <2>2, <2>3, <1>1, <1>2, CellMoves
<1>4. CASE ~(Cardinality(Having(attempt, Called)) >= budgetPolicy.calls)
  <2>1. /\ attempt' = [attempt EXCEPT ![t][n] = "running"]
        /\ workerClaim' = [workerClaim EXCEPT ![t][n] = "active"]
    BY <1>4 DEF ClaimDispatch
  <2>2. "running" \in Used \ {"preparing"} /\ "running" \in Called
    BY DEF Used, Statuses, Active, Called
  <2>3. Cardinality(Having(attempt, Called)) < budgetPolicy.calls
    <3>1. Cardinality(Having(attempt, Called)) \in Nat
      BY CellsAreFinite
    <3>2. budgetPolicy.calls \in Nat
      BY PolicyTyped DEF BudgetInv
    <3> QED BY <3>1, <3>2, <1>4
  <2> QED BY <2>1, <2>2, <2>3, <1>1, <1>2, CellMoves DEF ClaimStates
<1> QED BY <1>3, <1>4

LEMMA SettlePreDispatchFailureMoves ==
  ASSUME BudgetInv, NEW t \in Tasks, NEW n \in Numbers, SettlePreDispatchFailure(t, n)
  PROVE  BudgetMoves
<1>1. /\ attempt[t][n] = "preparing" /\ attempt' = [attempt EXCEPT ![t][n] = "failed_pre_dispatch"]
      /\ UNCHANGED <<plan, budgetPolicy, budget, workerClaim, pass, granted, reported>>
  BY DEF SettlePreDispatchFailure
<1>2. CellFits(t, n) /\ attempt[t][n] \in Active
  BY <1>1 DEF BudgetInv, Active
<1>3. "failed_pre_dispatch" \in Used \ {"preparing"} /\ "failed_pre_dispatch" \notin Called
  BY StatusSets
<1>4. workerClaim[t][n] = "none" /\ "none" \in ClaimStates
  BY <1>1, <1>2, StatusSets DEF CellFits, ClaimStates
<1> QED BY <1>1, <1>2, <1>3, <1>4, CellMoves

LEMMA SettleAfterDispatchMoves ==
  ASSUME BudgetInv, NEW t \in Tasks, NEW n \in Numbers,
         NEW status \in {"succeeded", "blocked", "failed_after_dispatch"}, SettleAfterDispatch(t, n, status)
  PROVE  BudgetMoves
<1>1. /\ attempt[t][n] = "running" /\ attempt' = [attempt EXCEPT ![t][n] = status]
      /\ workerClaim' = [workerClaim EXCEPT ![t][n] = "released"]
      /\ UNCHANGED <<plan, budgetPolicy, budget, pass, granted, reported>>
  BY DEF SettleAfterDispatch
<1>2. attempt[t][n] \in Active /\ attempt[t][n] # "preparing"
  BY <1>1 DEF Active
<1>3. status \in Used \ {"preparing"} /\ status \in Called \ {"running"}
  BY DEF Used, Statuses, Called
<1> QED BY <1>1, <1>2, <1>3, CellMoves DEF ClaimStates

LEMMA RecoverWorkerClaimMoves ==
  ASSUME BudgetInv, NEW t \in Tasks, NEW n \in Numbers, RecoverWorkerClaim(t, n)
  PROVE  BudgetMoves
<1>1. /\ workerClaim[t][n] = "active" /\ workerClaim' = [workerClaim EXCEPT ![t][n] = "ambiguous"]
      /\ UNCHANGED <<plan, budgetPolicy, budget, attempt, pass, granted, reported>>
  BY DEF RecoverWorkerClaim
<1>2. /\ workerClaim \in CellsIn(ClaimStates) /\ granted \in CellsIn(Nat)
  BY DEF BudgetInv, BudgetTyped, ClaimStates
<1>3. /\ workerClaim' \in CellsIn(ClaimStates) /\ workerClaim'[t][n] = "ambiguous"
      /\ Differs(workerClaim, workerClaim', t, n)
  <2>1. workerClaim' = Put(workerClaim, t, n, "ambiguous") /\ "ambiguous" \in ClaimStates
    BY <1>1 DEF Put, ClaimStates
  <2> QED BY <2>1, <1>2, CellSet
<1>4. ASSUME NEW u \in Tasks, NEW m \in Numbers PROVE CellFits(u, m)'
  <2>1. CellFits(u, m)
    BY DEF BudgetInv
  <2>2. CASE u = t /\ m = n
    BY <2>1, <2>2, <1>1, <1>3 DEF CellFits
  <2>3. CASE u # t \/ m # n
    <3>1. workerClaim'[u][m] = workerClaim[u][m]
      BY <2>3, <1>3 DEF Differs
    <3> QED BY <3>1, <2>1, <1>1 DEF CellFits
  <2> QED BY <2>2, <2>3
<1>5. CellsMove
  BY <1>1, <1>2, <1>3, <1>4 DEF CellsMove
<1> QED BY <1>1, <1>5, StillMoves, StillEffect DEF BudgetMoves

LEMMA BudgetStepMoves ==
  ASSUME BudgetInv, BudgetNext
  PROVE  BudgetMoves
<1>1. CASE Admit
  BY <1>1, AdmitMoves
<1>2. CASE Expire
  BY <1>2, ExpireMoves
<1>3. ASSUME NEW s \in Schedulers, BeginPass(s) \/ ReserveNext(s) \/ EndPass(s) \/ LosePass(s)
      PROVE  BudgetMoves
  BY <1>3, BeginPassMoves, ReserveMoves, EndPassMoves, LosePassMoves
<1>4. ASSUME NEW t \in Tasks, NEW n \in Numbers,
             \/ ClaimDispatch(t, n) \/ SettlePreDispatchFailure(t, n) \/ RecoverWorkerClaim(t, n)
             \/ \E status \in {"succeeded", "blocked", "failed_after_dispatch"} :
                  SettleAfterDispatch(t, n, status)
      PROVE  BudgetMoves
  BY <1>4, ClaimDispatchMoves, SettlePreDispatchFailureMoves, RecoverWorkerClaimMoves,
     SettleAfterDispatchMoves
<1> QED BY <1>1, <1>2, <1>3, <1>4 DEF BudgetNext

(***************************************************************************)
(* The invariant is kept                                                   *)
(***************************************************************************)
LEMMA ViewStays ==
  ASSUME Effect, NEW v, ViewFits(v)
  PROVE  ViewFits(v)'
<1>1. \A t \in Tasks : Numbered(v, t)
  BY DEF ViewFits
<1>2. ASSUME NEW t \in Tasks, NEW n \in Numbers
      PROVE  /\ v[t][n] # "none" => attempt'[t][n] # "none"
             /\ v[t][n] \in Ended => attempt'[t][n] = v[t][n]
  BY AttemptsStay DEF ViewFits
<1> QED BY <1>1, <1>2 DEF ViewFits

LEMMA PassFitsStep ==
  ASSUME BudgetInv, BudgetMoves, NEW s \in Schedulers
  PROVE  pass' \in [Schedulers -> Passes] /\ PassFits(s)'
<1>a. AttemptsInv /\ Effect /\ PassesMove /\ attempt' \in Grid
  BY DEF BudgetInv, AttemptsInv, BudgetMoves, Effect
<1>p. pass \in [Schedulers -> Passes]
  BY DEF BudgetInv, BudgetTyped
<1>v. \A t \in Tasks : Numbered(attempt', t)
  BY <1>a, LatestMoves
<1>r. AtRest \in Passes /\ \A t \in Tasks : Numbered(AtRest.view, t)
  <2>1. [t \in Tasks |-> [n \in Numbers |-> "none"]] \in Grid
    BY StatusSets DEF Grid, CellsIn
  <2>2. 0 \in 0..(Len(TaskOrder) + 1)
    BY OrderTyped
  <2>3. AtRest \in Passes
    BY <2>1, <2>2 DEF AtRest, Passes
  <2>4. ASSUME NEW t \in Tasks PROVE Numbered(AtRest.view, t)
    <3>1. 0 \in 0..(MaxRetries + 1) /\ \A n \in Numbers : n > 0 /\ ~(n <= 0)
      BY BudgetAssumption, NumbersAreFinite
    <3>2. \A n \in Numbers : AtRest.view[t][n] = "none"
      BY DEF AtRest
    <3> QED BY <3>1, <3>2, Counted
  <2> QED BY <2>3, <2>4
\* A pass that is left alone.
<1>1. ASSUME NEW u \in Schedulers, pass'[u] = pass[u]
      PROVE  PassFits(u)'
  <2>1. PassFits(u)
    BY DEF BudgetInv
  <2>2. PICK p : p = pass[u]
    OBVIOUS
  <2>3. ViewFits(p.view) /\ \A t \in p.blocks : Doomed(t)
    BY <2>1, <2>2 DEF PassFits
  <2>4. ViewFits(p.view)'
    BY <2>3, <1>a, ViewStays
  <2>5. p.blocks \subseteq Tasks
    BY <2>2, PassTyped DEF BudgetInv
  <2>6. \A t \in p.blocks : Doomed(t)'
    BY <2>3, <2>5, <1>a, DoomedStays
  <2>7. p.next # 0 => plan' # NoPlan /\ budget' \in {"open", "expired"}
    BY <2>1, <2>2, <1>a DEF PassFits, Effect
  <2>8. pass'[u] = p
    BY <1>1, <2>2
  <2> QED BY <2>4, <2>6, <2>7, <2>8 DEF PassFits
<1>2. CASE pass' = pass
  BY <1>1, <1>2, <1>p
<1>3. ASSUME NEW u \in Schedulers, PassMoves(u)
      PROVE  pass' \in [Schedulers -> Passes] /\ PassFits(s)'
  <2>1. CASE pass' = [pass EXCEPT ![u] = AtRest]
    <3>1. pass' \in [Schedulers -> Passes] /\ pass'[u] = AtRest /\ (s # u => pass'[s] = pass[s])
      BY <2>1, <1>p, <1>r
    <3>2. AtRest.next = 0 /\ AtRest.blocks = {}
      BY DEF AtRest
    <3>3. ViewFits(AtRest.view)'
      <4>1. \A t \in Tasks, n \in Numbers : AtRest.view[t][n] = "none" /\ "none" \notin Ended
        BY StatusSets DEF AtRest
      <4> QED BY <4>1, <1>r DEF ViewFits
    <3>4. PassFits(u)'
      BY <3>1, <3>2, <3>3 DEF PassFits
    <3> QED BY <3>1, <3>4, <1>1
  <2>2. CASE pass' # [pass EXCEPT ![u] = AtRest]
    <3>1. PICK next \in 0..(Len(TaskOrder) + 1), blocks \in SUBSET Tasks :
             /\ \A t \in blocks : Doomed(t)
             /\ pass' = [pass EXCEPT ![u] = [view |-> attempt', next |-> next, blocks |-> blocks]]
      BY <1>3, <2>2 DEF PassMoves
    <3>2. PICK p : p = [view |-> attempt', next |-> next, blocks |-> blocks]
      OBVIOUS
    <3>3. p \in Passes /\ p.view = attempt' /\ p.blocks = blocks
      BY <3>2, <1>a DEF Passes
    <3>4. pass' \in [Schedulers -> Passes] /\ pass'[u] = p /\ (s # u => pass'[s] = pass[s])
      BY <3>1, <3>2, <3>3, <1>p
    <3>5. \A t \in blocks : Doomed(t)'
      BY <3>1, <1>a, DoomedStays
    <3>6. plan' # NoPlan /\ budget' \in {"open", "expired"}
      BY <1>3, <2>2, <1>a DEF PassMoves, Effect
    <3>7. ViewFits(p.view)'
      BY <3>3, <1>v DEF ViewFits
    <3>8. PassFits(u)'
      BY <3>3, <3>4, <3>5, <3>6, <3>7 DEF PassFits
    <3> QED BY <3>4, <3>8, <1>1
  <2> QED BY <2>1, <2>2
<1> QED BY <1>2, <1>3, <1>a DEF PassesMove

LEMMA ReportFitsStep ==
  ASSUME BudgetInv, BudgetMoves
  PROVE  ReportFits'
<1>a. AttemptsInv /\ Effect /\ ReportsMove /\ ReportFits
  BY DEF BudgetInv, AttemptsInv, BudgetMoves
<1>1. ASSUME "complete" \in reported'
      PROVE  budget' \in {"open", "expired"} /\ \A t \in Tasks : Latest(attempt', t) = "succeeded"
  <2>1. budget \in {"open", "expired"} /\ \A t \in Tasks : Latest(attempt, t) = "succeeded"
    BY <1>1, <1>a DEF ReportsMove, ReportFits
  <2>2. budget' \in {"open", "expired"}
    BY <2>1, <1>a DEF Effect
  <2>3. ASSUME NEW t \in Tasks PROVE Latest(attempt', t) = "succeeded"
    BY <2>1, <1>a, LatestMoves, StatusSets
  <2> QED BY <2>2, <2>3
<1>2. ASSUME "blocked" \in reported'
      PROVE  budget' = "disabled" \/ \E t \in Tasks : Doomed(t)'
  <2>1. budget = "disabled" \/ \E t \in Tasks : Doomed(t)
    BY <1>2, <1>a DEF ReportsMove, ReportFits
  <2>2. CASE budget = "disabled"
    BY <2>2, <1>a DEF Effect
  <2>3. ASSUME NEW t \in Tasks, Doomed(t) PROVE Doomed(t)'
    BY <2>3, <1>a, DoomedStays
  <2> QED BY <2>1, <2>2, <2>3
<1> QED BY <1>1, <1>2 DEF ReportFits

LEMMA BudgetInvStep ==
  ASSUME BudgetInv, [BudgetNext]_budgetVars
  PROVE  BudgetInv' /\ Effect
<1>1. ASSUME BudgetMoves PROVE BudgetInv'
  <2>a. AttemptsInv /\ Effect /\ PlanMoves /\ CellsMove /\ ReportsMove
        /\ budget' \in {"none", "disabled", "open", "expired"}
    BY <1>1 DEF BudgetInv, AttemptsInv, BudgetMoves
  <2>1. \A t \in Tasks : TaskFits(t)'
    BY <2>a, TaskFitsStep
  <2>2. \A s \in Schedulers : PassFits(s)'
    BY <1>1, PassFitsStep
  <2>3. pass' \in [Schedulers -> Passes]
    <3>1. ASSUME NEW s \in Schedulers PROVE pass' \in [Schedulers -> Passes]
      BY <1>1, PassFitsStep
    <3>2. CASE Schedulers = {}
      BY <3>2, <1>1 DEF BudgetInv, BudgetTyped, BudgetMoves, PassesMove
    <3> QED BY <3>1, <3>2
  <2>4. budgetPolicy' \in BudgetPolicies /\ attempt' \in Grid
    BY <2>a DEF Effect, BudgetInv, BudgetTyped
  <2>5. BudgetTyped'
    BY <2>3, <2>4, <2>a DEF BudgetTyped, PlanMoves, CellsMove, ReportsMove
  <2>6. \A t \in Tasks, n \in Numbers : CellFits(t, n)'
    BY <2>a DEF CellsMove
  <2>7. ReportFits' /\ BudgetHolds'
    BY <1>1, <2>a, ReportFitsStep, BudgetHoldsStep
  <2> QED BY <2>1, <2>2, <2>5, <2>6, <2>7 DEF BudgetInv
<1>2. CASE BudgetNext
  BY <1>1, <1>2, BudgetStepMoves DEF BudgetMoves
<1>3. CASE UNCHANGED budgetVars
  <2>1. UNCHANGED <<plan, budgetPolicy, budget, attempt, workerClaim, pass, granted, reported>>
    BY <1>3 DEF budgetVars
  <2>2. BudgetMoves
    BY <2>1, StillMoves, StillEffect DEF BudgetMoves
  <2> QED BY <1>1, <2>2 DEF BudgetMoves
<1> QED BY <1>2, <1>3

LEMMA BudgetInvInit == BudgetInit => BudgetInv
<1> SUFFICES ASSUME BudgetInit PROVE BudgetInv
  OBVIOUS
<1> USE BudgetAssumption
<1>1. /\ plan = NoPlan /\ budgetPolicy \in BudgetPolicies /\ budget \in {"none", "disabled"}
      /\ attempt = [t \in Tasks |-> [n \in Numbers |-> "none"]]
      /\ workerClaim = [t \in Tasks |-> [n \in Numbers |-> "none"]]
      /\ pass = [s \in Schedulers |-> AtRest]
      /\ granted = [t \in Tasks |-> [n \in Numbers |-> 0]]
      /\ reported = {}
  BY DEF BudgetInit, PlanInit
<1>2. attempt \in Grid /\ workerClaim \in CellsIn(ClaimStates) /\ granted \in CellsIn(Nat)
  BY <1>1, StatusSets DEF Grid, CellsIn, ClaimStates
<1>3. AtRest \in Passes
  <2>1. 0 \in 0..(Len(TaskOrder) + 1)
    BY OrderTyped
  <2>2. attempt \in Grid /\ {} \in SUBSET Tasks
    BY <1>2
  <2> QED BY <1>1, <2>1, <2>2 DEF AtRest, Passes
<1>4. BudgetTyped
  BY <1>1, <1>2, <1>3 DEF BudgetTyped
<1>5. ASSUME NEW t \in Tasks PROVE Numbered(attempt, t) /\ Recorded(attempt, t) = 0
  <2>1. 0 \in 0..(MaxRetries + 1) /\ \A n \in Numbers : n > 0 /\ ~(n <= 0)
    BY NumbersAreFinite
  <2>2. \A n \in Numbers : attempt[t][n] = "none"
    BY <1>1
  <2> QED BY <2>1, <2>2, Counted
<1>6. \A t \in Tasks : TaskFits(t)
  <2>1. \A n \in Numbers : ~(n < 0)
    BY NumbersAreFinite
  <2> QED BY <2>1, <1>5 DEF TaskFits
<1>7. ASSUME NEW t \in Tasks, NEW n \in Numbers PROVE CellFits(t, n)
  <2>1. attempt[t][n] = "none" /\ workerClaim[t][n] = "none" /\ granted[t][n] = 0
    BY <1>1
  <2> QED BY <2>1, StatusSets DEF CellFits
<1>8. ASSUME NEW s \in Schedulers PROVE PassFits(s)
  <2>1. pass[s].view = attempt /\ pass[s].next = 0 /\ pass[s].blocks = {}
    BY <1>1 DEF AtRest
  <2> QED BY <2>1, <1>5 DEF PassFits, ViewFits
<1>9. ReportFits
  BY <1>1 DEF ReportFits
<1>10. ASSUME NEW S, "none" \notin S PROVE Cardinality(Having(attempt, S)) = 0
  <2>1. ASSUME NEW k \in Having(attempt, S) PROVE FALSE
    <3>1. k \in Tasks \X Numbers /\ attempt[k[1]][k[2]] \in S
      BY DEF Having
    <3>2. attempt[k[1]][k[2]] = "none"
      BY <3>1, <1>1
    <3> QED BY <3>1, <3>2, <1>10
  <2>2. Having(attempt, S) = {}
    BY <2>1
  <2> QED BY <2>2, FS_EmptySet
<1>11. BudgetHolds
  <2>1. budgetPolicy.maxWorkerAttempts \in Nat /\ budgetPolicy.maxConcurrentWorkers \in Nat
        /\ budgetPolicy.calls \in Nat
    BY <1>4, PolicyTyped
  <2>2. /\ Cardinality(Having(attempt, Used)) = 0
        /\ Cardinality(Having(attempt, Active)) = 0
        /\ Cardinality(Having(attempt, Called)) = 0
    BY <1>10, StatusSets
  <2> QED BY <2>1, <2>2 DEF BudgetHolds, Used
<1> QED BY <1>4, <1>6, <1>7, <1>8, <1>9, <1>11 DEF BudgetInv

LEMMA BudgetInvariant == BudgetSpec => []BudgetInv
<1>1. BudgetInv /\ [BudgetNext]_budgetVars => BudgetInv'
  BY BudgetInvStep
<1> QED BY <1>1, BudgetInvInit, PTL DEF BudgetSpec

LEMMA BudgetInvIsSound == BudgetInv => SchedulingIsSound
<1> SUFFICES ASSUME BudgetInv PROVE SchedulingIsSound
  OBVIOUS
<1>1. BudgetTypeOK
  <2>1. \A s \in Schedulers : /\ pass[s].view \in [Tasks -> [Numbers -> Statuses]]
                              /\ pass[s].next \in 0..(Len(TaskOrder) + 1)
                              /\ pass[s].blocks \subseteq Tasks
    BY PassTyped DEF BudgetInv, Grid, CellsIn
  <2>2. plan = NoPlan \/ DOMAIN plan.dependsOn = Tasks
    BY PlanTyped DEF BudgetInv, Graph
  <2> QED BY <2>1, <2>2 DEF BudgetTypeOK, BudgetInv, BudgetTyped, Grid, CellsIn, ClaimStates
<1>2. LayersFollowDependencies
  <2>1. SUFFICES ASSUME plan # NoPlan PROVE LayersFollowDependencies
    BY DEF LayersFollowDependencies
  <2>2. Graph(plan.dependsOn, Tasks) /\ IsAcyclic(plan.dependsOn)
    BY <2>1, PlanTyped DEF BudgetInv
  <2> QED BY <2>2, TasksAreFinite, LayersFollow DEF LayersFollowDependencies
<1>3. AttemptsFollowDependencies
  <2> DEFINE S == {u \in Tasks : Latest(attempt, u) = "succeeded"}
  <2>1. SUFFICES ASSUME NEW t \in Tasks, Recorded(attempt, t) > 0
                 PROVE  \A d \in Ancestors(plan.dependsOn)[t] : Latest(attempt, d) = "succeeded"
    BY DEF AttemptsFollowDependencies
  <2>2. plan # NoPlan
    BY <2>1 DEF BudgetInv, TaskFits
  <2>3. Graph(plan.dependsOn, Tasks)
    BY <2>2, PlanTyped DEF BudgetInv
  <2>4. ASSUME NEW u \in Tasks, Recorded(attempt, u) > 0 PROVE plan.dependsOn[u] \subseteq S
    <3>1. plan.dependsOn[u] \subseteq Tasks
      BY <2>3 DEF Graph
    <3> QED BY <3>1, <2>4 DEF BudgetInv, TaskFits
  <2>5. ASSUME NEW u \in S PROVE Recorded(attempt, u) > 0
    BY NoAttemptYet DEF BudgetInv
  <2>6. Closed(plan.dependsOn, S)
    BY <2>4, <2>5 DEF Closed
  <2>7. Ancestors(plan.dependsOn)[t] \subseteq S
    BY <2>1, <2>3, <2>4, <2>6, AncestorsAreLeast
  <2> QED BY <2>7
<1>4. ASSUME NEW t \in Tasks, NEW n \in Numbers
      PROVE  CellFits(t, n) /\ TaskFits(t)
  BY DEF BudgetInv
<1>5. OnlyFreeFailuresRetry
  BY <1>4, StatusSets DEF OnlyFreeFailuresRetry, TaskFits, CellFits
<1>6. WorkspaceGrantedOnce
  BY <1>4 DEF WorkspaceGrantedOnce, CellFits
<1>7. ClaimFollowsAttempt
  BY <1>4 DEF ClaimFollowsAttempt, CellFits
<1>8. VerdictIsFinal
  <2>1. SUFFICES ASSUME "complete" \in reported, "blocked" \in reported PROVE FALSE
    BY DEF VerdictIsFinal
  <2>2. budget \in {"open", "expired"} /\ \A t \in Tasks : Latest(attempt, t) = "succeeded"
    BY <2>1 DEF BudgetInv, ReportFits
  <2>3. PICK t \in Tasks : Doomed(t)
    BY <2>1, <2>2 DEF BudgetInv, ReportFits
  <2> QED BY <2>2, <2>3, StatusSets DEF Doomed
<1>9. BudgetHolds
  BY DEF BudgetInv
<1> QED BY <1>1, <1>2, <1>3, <1>5, <1>6, <1>7, <1>8, <1>9 DEF SchedulingIsSound

\* A plan is carried out in the order of its dependencies and within its budget, for
\* every set of plans, schedulers, policies and retries: reserveAttemptClaim, the
\* dispatch and the settlements of multi-worker-budget-store.ts under any interleaving
\* of scheduler passes, workers, stops and recovered claims.
THEOREM SchedulingSound == BudgetSpec => []SchedulingIsSound
BY BudgetInvariant, BudgetInvIsSound, PTL

(***************************************************************************)
(* The one-use calls of the budget                                         *)
(***************************************************************************)
LEMMA SameCount == ASSUME NEW S PROVE OneUse!Cardinality(S) = Cardinality(S)
BY DEF OneUse!Cardinality, Cardinality

\* Where the call of an attempt stands.
CallAt(status) ==
  CASE status \in {"none", "preparing"} -> "open"
    [] status = "running" -> "made"
    [] status \in Called \ {"running"} -> "settled"
    [] OTHER -> "withdrawn"

LEMMA CallOf ==
  /\ Call = [k \in AttemptIds |-> CallAt(attempt[k[1]][k[2]])]
  /\ \A t \in Tasks, n \in Numbers : <<t, n>> \in AttemptIds /\ Call[<<t, n>>] = CallAt(attempt[t][n])
BY DEF Call, CallAt, AttemptIds

LEMMA CallAtIs ==
  /\ CallAt("none") = "open" /\ CallAt("preparing") = "open" /\ CallAt("running") = "made"
  /\ \A x \in Called \ {"running"} : CallAt(x) = "settled"
  /\ CallAt("failed_pre_dispatch") = "withdrawn" /\ CallAt("blocked_pre_dispatch") = "withdrawn"
BY DEF CallAt, Called

LEMMA CallsStep ==
  ASSUME Effect
  PROVE  [OneUse!Next]_Call
<1>1. CASE attempt' = attempt
  BY <1>1 DEF Call
<1>2. ASSUME NEW t \in Tasks, NEW n \in Numbers, Starts(t, n) \/ Goes(t, n)
      PROVE  [OneUse!Next]_Call
  <2> DEFINE k == <<t, n>>
             x == CallAt(attempt[t][n])
             y == CallAt(attempt'[t][n])
  <2>d. Differs(attempt, attempt', t, n)
    BY <1>2 DEF Starts, Goes, Differ
  <2>1. k \in AttemptIds /\ Call[k] = x
    BY CallOf
  <2>2. Call' = [j \in AttemptIds |-> CallAt(attempt'[j[1]][j[2]])]
    BY DEF Call, CallAt
  <2>3. Call' = [Call EXCEPT ![k] = y]
    <3>1. ASSUME NEW j \in AttemptIds PROVE Call'[j] = [Call EXCEPT ![k] = y][j]
      <4>1. j[1] \in Tasks /\ j[2] \in Numbers /\ j = <<j[1], j[2]>>
        BY DEF AttemptIds
      <4>2. Call'[j] = CallAt(attempt'[j[1]][j[2]]) /\ Call[j] = CallAt(attempt[j[1]][j[2]])
        BY <2>2, CallOf
      <4>3. CASE j = k
        <5>1. j[1] = t /\ j[2] = n
          BY <4>3
        <5>2. [Call EXCEPT ![k] = y][j] = y
          BY <4>3, CallOf
        <5> QED BY <5>1, <5>2, <4>2
      <4>4. CASE j # k
        <5>1. j[1] # t \/ j[2] # n
          BY <4>1, <4>4
        <5>2. attempt'[j[1]][j[2]] = attempt[j[1]][j[2]]
          BY <5>1, <4>1, <2>d DEF Differs
        <5>3. [Call EXCEPT ![k] = y][j] = Call[j]
          BY <4>4, CallOf
        <5> QED BY <5>2, <5>3, <4>2
      <4> QED BY <4>3, <4>4
    <3>2. Call' = [j \in AttemptIds |-> Call'[j]]
      BY <2>2
    <3>3. [Call EXCEPT ![k] = y] = [j \in AttemptIds |-> [Call EXCEPT ![k] = y][j]]
      BY CallOf
    <3> QED BY <3>1, <3>2, <3>3
  <2>4. Call'[k] = y
    BY <2>1, <2>2
  <2> HIDE DEF k, x, y
  <2>m. ASSUME NEW from, NEW to, x = from, y = to PROVE OneUse!Moves(k, from, to)
    BY <2>m, <2>1, <2>3, <2>4 DEF OneUse!Moves
  <2>5. CASE x = y
    <3>1. Call' = Call
      BY <2>1, <2>3, <2>5, CallOf
    <3> QED BY <3>1
  <2>6. CASE x = "open" /\ y = "made"
    <3>1. OneUse!Moves(k, "open", "made")
      BY <2>6, <2>m
    <3>2. OneUse!Spent \subseteq AttemptIds /\ k \notin OneUse!Spent
      BY <2>1, <2>6 DEF OneUse!Spent
    <3>3. IsFiniteSet(AttemptIds)
      BY CellsAreFinite DEF AttemptIds
    <3>4. Cardinality(OneUse!Spent) < Cardinality(AttemptIds)
      <4>1. OneUse!Spent # AttemptIds
        BY <3>2, <2>1
      <4>2. /\ IsFiniteSet(OneUse!Spent) /\ Cardinality(OneUse!Spent) <= Cardinality(AttemptIds)
            /\ Cardinality(OneUse!Spent) = Cardinality(AttemptIds) => OneUse!Spent = AttemptIds
        BY <3>2, <3>3, FS_Subset
      <4>3. Cardinality(OneUse!Spent) \in Nat /\ Cardinality(AttemptIds) \in Nat
        BY <4>2, <3>3, FS_CardinalityType
      <4> QED BY <4>1, <4>2, <4>3
    <3>5. OneUse!Make(k)
      BY <3>1, <3>4, SameCount DEF OneUse!Make
    <3> QED BY <3>5, <2>1 DEF OneUse!Next
  <2>7. CASE x = "open" /\ y = "withdrawn"
    <3>1. OneUse!Withdraw(k)
      BY <2>7, <2>m DEF OneUse!Withdraw
    <3> QED BY <3>1, <2>1 DEF OneUse!Next
  <2>8. CASE x = "made" /\ y = "settled"
    <3>1. OneUse!Settle(k)
      BY <2>8, <2>m DEF OneUse!Settle
    <3> QED BY <3>1, <2>1 DEF OneUse!Next
  <2>9. CASE Starts(t, n)
    <3>1. x = y
      BY <2>9, CallAtIs DEF Starts, x, y
    <3> QED BY <3>1, <2>5
  <2>10. CASE Goes(t, n)
    <3>1. CASE attempt[t][n] = "running"
      <4>1. x = "made" /\ y = "settled"
        BY <2>10, <3>1, CallAtIs DEF Goes, x, y
      <4> QED BY <4>1, <2>8
    <3>2. CASE attempt[t][n] = "preparing"
      <4>1. attempt'[t][n] \in {"running", "failed_pre_dispatch", "blocked_pre_dispatch"}
        BY <2>10, <3>2 DEF Goes, Used, Statuses, Active, Called, DeadEnds
      <4>2. x = "open" /\ (y = "made" \/ y = "withdrawn")
        BY <3>2, <4>1, CallAtIs DEF x, y
      <4> QED BY <4>2, <2>6, <2>7
    <3> QED BY <2>10, <3>1, <3>2 DEF Goes, Active
  <2> QED BY <1>2, <2>9, <2>10
<1> QED BY <1>1, <1>2 DEF Effect

LEMMA CallsInit == BudgetInit => OneUse!Init
<1> SUFFICES ASSUME BudgetInit PROVE OneUse!Init
  OBVIOUS
<1>1. attempt = [t \in Tasks |-> [n \in Numbers |-> "none"]]
  BY DEF BudgetInit
<1>2. \A k \in AttemptIds : attempt[k[1]][k[2]] = "none"
  BY <1>1 DEF AttemptIds
<1>3. Call = [k \in AttemptIds |-> "open"]
  BY <1>2, CallOf, CallAtIs
<1> QED BY <1>3 DEF OneUse!Init

\* The attempts of a plan are one-use calls: claimAttemptDispatch makes the call of an
\* attempt once, whichever schedulers and workers ask for it.
THEOREM BudgetMakesOneUseCalls == BudgetSpec => CallsAreOneUse
<1>1. BudgetInv /\ [BudgetNext]_budgetVars => [OneUse!Next]_Call
  BY BudgetInvStep, CallsStep
<1> QED BY <1>1, BudgetInvariant, CallsInit, PTL DEF BudgetSpec, CallsAreOneUse, OneUse!Spec

(***************************************************************************)
(* The inductive invariant of the conflict                                 *)
(***************************************************************************)
\* The steps of a caller that serves an attempt, and what is left of a patch that was applied.
AttemptSteps == {"preflight", "replay", "revalidate", "claim", "work", "evaluate", "complete", "fail"}
Kept == {"resolved", "worked", "other"}

\* What a caller holds is what its step needs.
CallersRefer ==
  \A c \in Callers :
    /\ caller[c].step \in AttemptSteps => caller[c].on \in Attempts
    /\ At(c, "complete") => caller[c].saw \in {"resolved", "blocked"}
    /\ At(c, "complete") /\ caller[c].saw = "resolved" => workspace[caller[c].on] \in Kept
    /\ At(c, "promote")  => /\ caller[c].on \in Resolutions /\ resolution[caller[c].on] = "resolved"
                            /\ caller[c].saw \in {"promoted", "blocked"}

\* A call of the model that was made or may still be made is held by one caller.
Holds(c) == caller[c].step \in {"work", "evaluate", "complete"}
CallsAreOwned ==
  /\ \A c \in Callers : Holds(c) => agent[caller[c].on] \in {"running", "failed"}
  /\ \A c, d \in Callers : Holds(c) /\ Holds(d) /\ caller[c].on = caller[d].on => c = d

\* A claimed preflight is replayed by the caller that claimed it.
ReplaysAreOwned ==
  /\ \A c \in Callers : At(c, "replay") => agent[caller[c].on] = "preparing"
  /\ \A c, d \in Callers : At(c, "replay") /\ At(d, "replay") /\ caller[c].on = caller[d].on => c = d

\* No attempt makes a second call, and one attempt of a conflict makes any.
CallsAreCounted ==
  /\ \A c \in Callers : At(c, "work") => answers[caller[c].on] = 0
  /\ \A a \in Attempts : answers[a] <= 1 /\ (answers[a] > 0 => agent[a] \in Spent)
  /\ \A a, b \in Attempts : agent[a] \in Spent /\ agent[b] \in Spent => a = b

\* Each part of the history rests on the one before it.
HistoryFits ==
  /\ resolution["three_way"] # "none" => assembly = "rejected"
  /\ \A a \in Attempts : agent[a] # "absent" => resolution["three_way"] = "unresolved"
  /\ \A q \in Promoted : promotion[q].of \in Resolutions /\ resolution[promotion[q].of] = "resolved"
  /\ \A p, q \in Promoted : promotion[p].of = promotion[q].of => p = q
  /\ assembly = "assembled" => workspace["direct"] \in Kept
  /\ \A r \in Resolutions : resolution[r] = "resolved" => workspace[r] \in Kept

ConflictInv ==
  /\ ConflictTypeOK
  /\ CallersRefer
  /\ CallsAreOwned
  /\ ReplaysAreOwned
  /\ CallsAreCounted
  /\ HistoryFits
  /\ LateAnswerIsDropped

CallerState == [on : Workspaces, saw : {"none", "resolved", "blocked", "promoted"},
                step : AttemptSteps \cup {"idle", "promote"}]
AgentStates == {"absent", "reserved", "preparing", "ready"} \cup Spent \cup Final

(***************************************************************************)
(* Moves of the callers                                                    *)
(***************************************************************************)
LEMMA Shapes ==
  ASSUME ConflictTypeOK
  PROVE  /\ caller \in [Callers -> CallerState]
         /\ agent \in [Attempts -> AgentStates]
  BY DEF ConflictTypeOK, CallerState, AttemptSteps, AgentStates

\* Where a caller goes, and that it goes alone.
LEMMA Gone ==
  ASSUME caller \in [Callers -> CallerState], NEW c \in Callers, NEW step, NEW on, NEW saw,
         [step |-> step, on |-> on, saw |-> saw] \in CallerState, Goto(c, step, on, saw)
  PROVE  /\ caller' \in [Callers -> CallerState]
         /\ caller'[c] = [step |-> step, on |-> on, saw |-> saw]
         /\ \A d \in Callers : d # c => caller'[d] = caller[d]
  BY DEF Goto

LEMMA Left ==
  ASSUME caller \in [Callers -> CallerState], NEW c \in Callers, Return(c)
  PROVE  /\ caller' \in [Callers -> CallerState]
         /\ caller'[c] = Idle
         /\ \A d \in Callers : d # c => caller'[d] = caller[d]
<1>1. Idle \in CallerState
  BY DEF Idle, CallerState, Workspaces
<1> QED BY <1>1 DEF Return

LEMMA Typed ==
  ASSUME ConflictTypeOK,
         caller' \in [Callers -> CallerState],
         agent' \in [Attempts -> AgentStates],
         resolution' \in [Resolutions -> {"none", "resolved", "unresolved", "blocked"}],
         workspace' \in [Workspaces -> {"none", "conflict", "resolved", "worked", "other"}],
         claim' \in [Attempts -> {"none", "active", "released", "ambiguous"}],
         answers' \in [Attempts -> Nat], crashes' \in 0..MaxCrashes,
         UNCHANGED <<assembly, stale, promotion>>
  PROVE  ConflictTypeOK'
<1>1. AttemptSteps \cup {"idle", "promote"} =
       {"idle", "preflight", "replay", "revalidate", "claim", "work", "evaluate",
               "complete", "fail", "promote"}
  BY DEF AttemptSteps
<1> QED BY <1>1 DEF ConflictTypeOK, CallerState, AgentStates

(***************************************************************************)
(* Types                                                                   *)
(***************************************************************************)
LEMMA TypesStep ==
  ASSUME ConflictTypeOK, CallersRefer, ConflictNext
  PROVE  ConflictTypeOK'
<1> USE ConflictAssumption DEF ConflictAssumption
<1>s. /\ caller \in [Callers -> CallerState]
      /\ agent \in [Attempts -> AgentStates]
      /\ resolution \in [Resolutions -> {"none", "resolved", "unresolved", "blocked"}]
      /\ workspace \in [Workspaces -> {"none", "conflict", "resolved", "worked", "other"}]
      /\ claim \in [Attempts -> {"none", "active", "released", "ambiguous"}]
      /\ answers \in [Attempts -> Nat] /\ crashes \in 0..MaxCrashes
      /\ stale \subseteq Attempts
  BY Shapes DEF ConflictTypeOK
<1>a. Attempts \subseteq Resolutions /\ Resolutions \subseteq Workspaces /\ "three_way" \in Resolutions
      /\ "direct" \in Workspaces
  BY DEF Resolutions, Workspaces
<1>b. \A c \in Callers : caller[c].step \in AttemptSteps => caller[c].on \in Attempts
  BY DEF CallersRefer
<1>1. ASSUME NEW status \in {"assembled", "rejected", "blocked"}, RecordAssembly(status) PROVE ConflictTypeOK'
  BY <1>1 DEF RecordAssembly, ConflictTypeOK
<1>2. ASSUME NEW status \in {"resolved", "unresolved", "blocked"}, RecordThreeWay(status) PROVE ConflictTypeOK'
  BY <1>2, <1>a DEF RecordThreeWay, ConflictTypeOK
<1>3. ASSUME NEW a \in Attempts, Reserve(a) \/ OutliveTimeout(a) \/ RecoverClaim(a) PROVE ConflictTypeOK'
  BY <1>3 DEF Reserve, OutliveTimeout, RecoverClaim, ConflictTypeOK
<1>4. ASSUME NEW w \in Workspaces, Drift(w) PROVE ConflictTypeOK'
  BY <1>4 DEF Drift, ConflictTypeOK
<1>5. ASSUME NEW c \in Callers, NEW a \in Attempts, Execute(c, a) PROVE ConflictTypeOK'
  <2>1. caller' \in [Callers -> CallerState]
    BY <1>5, <1>s, <1>a, Gone DEF Execute, CallerState, AttemptSteps
  <2> QED BY <1>5, <1>s, <2>1, Typed DEF Execute
<1>6. ASSUME NEW c \in Callers, ClaimPreflight(c) PROVE ConflictTypeOK'
  <2>0. caller[c].on \in Attempts
    BY <1>6, <1>b DEF ClaimPreflight, At, AttemptSteps
  <2>1. caller' \in [Callers -> CallerState]
    BY <1>6, <1>s, <1>a, <2>0, Gone, Left DEF ClaimPreflight, CallerState, AttemptSteps
  <2>2. agent' \in [Attempts -> AgentStates]
    BY <1>6, <1>s DEF ClaimPreflight, AgentStates
  <2> QED BY <1>6, <1>s, <2>1, <2>2, Typed DEF ClaimPreflight
<1>7. ASSUME NEW c \in Callers, NEW yes \in BOOLEAN, Replay(c, yes) PROVE ConflictTypeOK'
  <2>0. caller[c].on \in Attempts
    BY <1>7, <1>b DEF Replay, At, AttemptSteps
  <2>1. caller' \in [Callers -> CallerState]
    BY <1>7, <1>s, <1>a, <2>0, Gone, Left DEF Replay, CallerState, AttemptSteps
  <2>2. agent' \in [Attempts -> AgentStates]
    BY <1>7, <1>s DEF Replay, AgentStates, Final
  <2>3. workspace' \in [Workspaces -> {"none", "conflict", "resolved", "worked", "other"}]
    BY <1>7, <1>s DEF Replay
  <2> QED BY <1>7, <1>s, <2>1, <2>2, <2>3, Typed DEF Replay
<1>8. ASSUME NEW c \in Callers, Revalidate(c) PROVE ConflictTypeOK'
  <2>0. caller[c].on \in Attempts
    BY <1>8, <1>b DEF Revalidate, At, AttemptSteps
  <2>1. caller' \in [Callers -> CallerState]
    BY <1>8, <1>s, <1>a, <2>0, Gone, Left DEF Revalidate, CallerState, AttemptSteps
  <2>2. agent' \in [Attempts -> AgentStates]
    BY <1>8, <1>s DEF Revalidate, AgentStates, Final
  <2> QED BY <1>8, <1>s, <2>1, <2>2, Typed DEF Revalidate
<1>9. ASSUME NEW c \in Callers, ClaimCall(c) PROVE ConflictTypeOK'
  <2>0. caller[c].on \in Attempts
    BY <1>9, <1>b DEF ClaimCall, At, AttemptSteps
  <2>1. caller' \in [Callers -> CallerState]
    BY <1>9, <1>s, <1>a, <2>0, Gone, Left DEF ClaimCall, CallerState, AttemptSteps
  <2>2. agent' \in [Attempts -> AgentStates] /\ claim' \in [Attempts -> {"none", "active", "released", "ambiguous"}]
    BY <1>9, <1>s DEF ClaimCall, AgentStates, Spent
  <2> QED BY <1>9, <1>s, <2>1, <2>2, Typed DEF ClaimCall
<1>10. ASSUME NEW c \in Callers, ClaimRefused(c) \/ Crash(c) PROVE ConflictTypeOK'
  <2>1. caller' \in [Callers -> CallerState]
    BY <1>10, <1>s, Left DEF ClaimRefused, Crash
  <2>2. crashes' \in 0..MaxCrashes
    BY <1>10, <1>s DEF ClaimRefused, Crash
  <2> QED BY <1>10, <1>s, <2>1, <2>2, Typed DEF ClaimRefused, Crash
<1>11. ASSUME NEW c \in Callers, NEW left \in {"conflict", "resolved", "other"}, NEW answered \in BOOLEAN,
              Work(c, left, answered) PROVE ConflictTypeOK'
  <2>0. caller[c].on \in Attempts
    BY <1>11, <1>b DEF Work, At, AttemptSteps
  <2>1. caller' \in [Callers -> CallerState]
    BY <1>11, <1>s, <1>a, <2>0, Gone DEF Work, CallerState, AttemptSteps
  <2>2. /\ workspace' \in [Workspaces -> {"none", "conflict", "resolved", "worked", "other"}]
        /\ answers' \in [Attempts -> Nat]
    <3>1. answers[caller[c].on] + 1 \in Nat
      BY <1>s, <2>0
    <3>2. answers' = [answers EXCEPT ![caller[c].on] = answers[caller[c].on] + 1]
      BY <1>11 DEF Work
    <3>3. workspace' = [workspace EXCEPT ![caller[c].on] = IF workspace[caller[c].on] = "other" THEN "other" ELSE left]
      BY <1>11 DEF Work
    <3> QED BY <3>1, <3>2, <3>3, <1>s
  <2> QED BY <1>11, <1>s, <2>1, <2>2, Typed DEF Work
<1>12. ASSUME NEW c \in Callers, NEW yes \in BOOLEAN, Evaluate(c, yes) PROVE ConflictTypeOK'
  <2>0. caller[c].on \in Attempts
    BY <1>12, <1>b DEF Evaluate, At, AttemptSteps
  <2>1. caller' \in [Callers -> CallerState]
    BY <1>12, <1>s, <1>a, <2>0, Gone DEF Evaluate, CallerState, AttemptSteps
  <2> QED BY <1>12, <1>s, <2>1, Typed DEF Evaluate
<1>13. ASSUME NEW c \in Callers, Complete(c) \/ FailClaimed(c) PROVE ConflictTypeOK'
  <2>0. caller[c].on \in Attempts
    BY <1>13, <1>b DEF Complete, FailClaimed, At, AttemptSteps
  <2>1. caller' \in [Callers -> CallerState]
    BY <1>13, <1>s, Left DEF Complete, FailClaimed
  <2>2. At(c, "complete") => caller[c].saw \in {"resolved", "blocked"}
    BY DEF CallersRefer
  <2>3. agent' \in [Attempts -> AgentStates]
    BY <1>13, <1>s, <2>2 DEF Complete, FailClaimed, AgentStates, Final
  <2>4. claim' \in [Attempts -> {"none", "active", "released", "ambiguous"}]
    BY <1>13, <1>s DEF Complete, FailClaimed
  <2>5. resolution' \in [Resolutions -> {"none", "resolved", "unresolved", "blocked"}]
    BY <1>13, <1>s, <2>2 DEF Complete, FailClaimed
  <2> QED BY <1>13, <1>s, <2>1, <2>3, <2>4, <2>5, Typed DEF Complete, FailClaimed
<1>14. ASSUME NEW c \in Callers, NEW r \in Resolutions, Inspect(c, r) PROVE ConflictTypeOK'
  <2>1. caller' \in [Callers -> CallerState]
    BY <1>14, <1>s, <1>a, Gone DEF Inspect, CallerState
  <2> QED BY <1>14, <1>s, <2>1, Typed DEF Inspect
<1>15. ASSUME NEW c \in Callers, NEW q \in Promotions, RecordPromotion(c, q) PROVE ConflictTypeOK'
  <2>1. caller' \in [Callers -> CallerState]
    BY <1>15, <1>s, Left DEF RecordPromotion
  <2>2. caller[c].on \in Workspaces /\ caller[c].saw \in {"promoted", "blocked"}
    BY <1>15, <1>a DEF RecordPromotion, CallersRefer
  <2>3. promotion' \in [Promotions -> [of : Workspaces, status : {"none", "promoted", "blocked"}]]
    BY <1>15, <2>2 DEF RecordPromotion, ConflictTypeOK
  <2>4. ASSUME promotion' = promotion PROVE ConflictTypeOK'
    BY <1>15, <1>s, <2>1, <2>4, Typed DEF RecordPromotion
  <2> QED BY <1>15, <2>1, <2>3, <1>s DEF RecordPromotion, ConflictTypeOK, CallerState, AttemptSteps
<1> QED BY <1>1, <1>2, <1>3, <1>4, <1>5, <1>6, <1>7, <1>8, <1>9, <1>10, <1>11, <1>12, <1>13, <1>14, <1>15
        DEF ConflictNext

\* What a move of a caller leaves.
LEMMA Moved ==
  ASSUME ConflictTypeOK, NEW c \in Callers,
         \/ Return(c)
         \/ \E step, on, saw : Goto(c, step, on, saw)
  PROVE  /\ Return(c) => caller'[c] = Idle
         /\ \A step, on, saw : Goto(c, step, on, saw) =>
              caller'[c].step = step /\ caller'[c].on = on /\ caller'[c].saw = saw
         /\ \A d \in Callers : d # c => caller'[d] = caller[d]
<1>1. DOMAIN caller = Callers
  BY DEF ConflictTypeOK
<1> QED BY <1>1 DEF Return, Goto

\* Nobody comes to hold a call, and the calls that are held are as they were.
LEMMA OwnersStay ==
  ASSUME CallsAreOwned,
         \A d \in Callers : Holds(d)' => /\ Holds(d) /\ caller'[d].on = caller[d].on
                                         /\ agent'[caller[d].on] \in {"running", "failed"}
  PROVE  CallsAreOwned'
  BY DEF CallsAreOwned

LEMMA ReplaysStay ==
  ASSUME ReplaysAreOwned,
         \A d \in Callers : At(d, "replay")' => /\ At(d, "replay") /\ caller'[d].on = caller[d].on
                                                /\ agent'[caller[d].on] = "preparing"
  PROVE  ReplaysAreOwned'
  BY DEF ReplaysAreOwned

(***************************************************************************)
(* The steps of the conflict                                               *)
(***************************************************************************)
LEMMA CallsAreOwnedStep ==
  ASSUME ConflictInv, ConflictNext
  PROVE  CallsAreOwned'
<1> USE ConflictAssumption DEF ConflictAssumption
<1>i. /\ ConflictTypeOK /\ CallsAreOwned
      /\ \A d \in Callers : Holds(d) => /\ agent[caller[d].on] \in {"running", "failed"}
                                        /\ caller[d].on \in Attempts
  BY DEF ConflictInv, CallsAreOwned, CallersRefer, Holds, AttemptSteps
<1>t. agent \in [Attempts -> AgentStates] /\ DOMAIN caller = Callers
  BY <1>i, Shapes
<1>1. ASSUME UNCHANGED <<agent, caller>> PROVE CallsAreOwned'
  BY <1>1, <1>i DEF CallsAreOwned, Holds
<1>2. ASSUME NEW a \in Attempts, Reserve(a) PROVE CallsAreOwned'
  BY <1>2, <1>i, <1>t, OwnersStay DEF Reserve, Holds
<1>3. ASSUME NEW c \in Callers, UNCHANGED agent, ~Holds(c)', \A d \in Callers \ {c} : caller'[d] = caller[d]
      PROVE  CallsAreOwned'
  BY <1>3, <1>i, OwnersStay DEF Holds
<1>4. ASSUME NEW c \in Callers, NEW a \in Attempts, Execute(c, a) PROVE CallsAreOwned'
  BY <1>4, <1>3, <1>i, Moved DEF Execute, Holds
<1>5. ASSUME NEW c \in Callers, ClaimPreflight(c) PROVE CallsAreOwned'
  <2>1. CASE UNCHANGED agent
    BY <1>5, <2>1, <1>3, <1>i, Moved DEF ClaimPreflight, Holds, Idle
  <2>2. CASE agent[caller[c].on] = "reserved"
    <3>1. Goto(c, "replay", caller[c].on, "none") /\ agent' = [agent EXCEPT ![caller[c].on] = "preparing"]
      BY <1>5, <2>2 DEF ClaimPreflight
    <3> QED BY <3>1, <2>2, <1>i, <1>t, Moved, OwnersStay DEF Holds
  <2> QED BY <1>5, <2>1, <2>2 DEF ClaimPreflight
<1>6. ASSUME NEW c \in Callers, NEW yes \in BOOLEAN, Replay(c, yes) PROVE CallsAreOwned'
  <2>1. agent[caller[c].on] = "preparing"
    BY <1>6 DEF Replay, ConflictInv, ReplaysAreOwned
  <2>2. ~Holds(c)' /\ \A d \in Callers : d # c => caller'[d] = caller[d]
    BY <1>6, <1>i, Moved DEF Replay, Holds, Idle
  <2> QED BY <1>6, <2>1, <2>2, <1>i, <1>t, OwnersStay DEF Replay, Holds
<1>7. ASSUME NEW c \in Callers, Revalidate(c) PROVE CallsAreOwned'
  <2>2. ~Holds(c)' /\ \A d \in Callers : d # c => caller'[d] = caller[d]
    BY <1>7, <1>i, Moved DEF Revalidate, Holds, Idle
  <2>3. \A a \in Attempts : agent[a] # "ready" => agent'[a] = agent[a]
    BY <1>7, <1>t DEF Revalidate
  <2> QED BY <2>2, <2>3, <1>i, OwnersStay DEF Holds
<1>8. ASSUME NEW c \in Callers, ClaimCall(c) PROVE CallsAreOwned'
  <2>1. CASE agent[caller[c].on] = "ready" /\ ~CallConsumed
    <3>1. /\ Goto(c, "work", caller[c].on, "none")
          /\ agent' = [agent EXCEPT ![caller[c].on] = "running"]
      BY <1>8, <2>1 DEF ClaimCall
    <3>2. /\ caller'[c].step = "work" /\ caller'[c].on = caller[c].on
          /\ \A d \in Callers : d # c => caller'[d] = caller[d]
      BY <3>1, <1>i, Moved
    <3>3. caller[c].on \in Attempts
      BY <1>8 DEF ConflictInv, CallersRefer, ClaimCall, At, AttemptSteps
    <3>4. \A d \in Callers : Holds(d) => caller[d].on # caller[c].on
      BY <1>i, <2>1
    <3>5. agent'[caller[c].on] = "running"
      BY <3>1, <3>3, <1>t
    <3>6. \A a \in Attempts : a # caller[c].on => agent'[a] = agent[a]
      BY <3>1, <1>t
    <3> QED BY <3>2, <3>4, <3>5, <3>6, <1>i DEF CallsAreOwned, Holds
  <2>2. CASE ~(agent[caller[c].on] = "ready" /\ ~CallConsumed)
    BY <1>8, <2>2, <1>3, <1>i, Moved DEF ClaimCall, Holds, Idle
  <2> QED BY <2>1, <2>2
<1>9. ASSUME NEW c \in Callers, ClaimRefused(c) \/ Crash(c) PROVE CallsAreOwned'
  BY <1>9, <1>3, <1>i, Moved DEF ClaimRefused, Crash, Holds, Idle
<1>10. ASSUME NEW c \in Callers, NEW left \in {"conflict", "resolved", "other"}, NEW answered \in BOOLEAN,
              Work(c, left, answered) PROVE CallsAreOwned'
  BY <1>10, <1>i, Moved, OwnersStay DEF Work, Holds, At
<1>11. ASSUME NEW c \in Callers, NEW yes \in BOOLEAN, Evaluate(c, yes) PROVE CallsAreOwned'
  BY <1>11, <1>i, Moved, OwnersStay DEF Evaluate, Holds, At
<1>12. ASSUME NEW c \in Callers, Complete(c) PROVE CallsAreOwned'
  <2>1. caller'[c] = Idle /\ \A d \in Callers : d # c => caller'[d] = caller[d]
    BY <1>12, <1>i, Moved DEF Complete
  <2>2. \A d \in Callers : d # c /\ Holds(d) => caller[d].on # caller[c].on
    BY <1>12, <1>i DEF Complete, Holds, At, CallsAreOwned
  <2>3. \A a \in Attempts : a # caller[c].on => agent'[a] = agent[a]
    BY <1>12, <1>t DEF Complete
  <2> QED BY <2>1, <2>2, <2>3, <1>i, OwnersStay DEF Holds, Idle
<1>13. ASSUME NEW c \in Callers, FailClaimed(c) PROVE CallsAreOwned'
  <2>1. caller'[c] = Idle /\ \A d \in Callers : d # c => caller'[d] = caller[d]
    BY <1>13, <1>i, Moved DEF FailClaimed
  <2>2. \A a \in Attempts : agent'[a] = agent[a] \/ agent'[a] = "failed"
    BY <1>13, <1>t DEF FailClaimed
  <2> QED BY <2>1, <2>2, <1>i, OwnersStay DEF Holds, Idle
<1>14. ASSUME NEW c \in Callers, NEW r \in Resolutions, Inspect(c, r) PROVE CallsAreOwned'
  BY <1>14, <1>3, <1>i, Moved DEF Inspect, Holds
<1>15. ASSUME NEW c \in Callers, NEW q \in Promotions, RecordPromotion(c, q) PROVE CallsAreOwned'
  BY <1>15, <1>3, <1>i, Moved DEF RecordPromotion, Holds, Idle
<1> QED BY <1>1, <1>2, <1>4, <1>5, <1>6, <1>7, <1>8, <1>9, <1>10, <1>11, <1>12, <1>13, <1>14, <1>15
        DEF ConflictNext, RecordAssembly, RecordThreeWay, OutliveTimeout, RecoverClaim, Drift

LEMMA ReplaysAreOwnedStep ==
  ASSUME ConflictInv, ConflictNext
  PROVE  ReplaysAreOwned'
<1> USE ConflictAssumption DEF ConflictAssumption
<1>i. /\ ConflictTypeOK /\ ReplaysAreOwned
      /\ \A d \in Callers : At(d, "replay") => /\ agent[caller[d].on] = "preparing"
                                               /\ caller[d].on \in Attempts
  BY DEF ConflictInv, ReplaysAreOwned, CallersRefer, At, AttemptSteps
<1>t. agent \in [Attempts -> AgentStates] /\ DOMAIN caller = Callers
  BY <1>i, Shapes
<1>1. ASSUME NEW c \in Callers, ~At(c, "replay")', \A d \in Callers \ {c} : caller'[d] = caller[d],
             \A a \in Attempts : agent[a] = "preparing" => agent'[a] = "preparing"
      PROVE  ReplaysAreOwned'
  BY <1>1, <1>i, ReplaysStay DEF At
<1>2. ASSUME UNCHANGED <<agent, caller>> PROVE ReplaysAreOwned'
  BY <1>2, <1>i DEF ReplaysAreOwned, At
<1>3. ASSUME NEW a \in Attempts, Reserve(a) PROVE ReplaysAreOwned'
  BY <1>3, <1>i, <1>t, ReplaysStay DEF Reserve, At
<1>4. ASSUME NEW c \in Callers, NEW a \in Attempts, Execute(c, a) PROVE ReplaysAreOwned'
  BY <1>4, <1>1, <1>i, Moved DEF Execute, At
<1>5. ASSUME NEW c \in Callers, ClaimPreflight(c) PROVE ReplaysAreOwned'
  <2>2. CASE agent[caller[c].on] = "reserved"
    <3>1. Goto(c, "replay", caller[c].on, "none") /\ agent' = [agent EXCEPT ![caller[c].on] = "preparing"]
      BY <1>5, <2>2 DEF ClaimPreflight
    <3>2. /\ caller'[c].step = "replay" /\ caller'[c].on = caller[c].on
          /\ \A d \in Callers : d # c => caller'[d] = caller[d]
      BY <3>1, <1>i, Moved
    <3>3. caller[c].on \in Attempts
      BY <1>5 DEF ConflictInv, CallersRefer, ClaimPreflight, At, AttemptSteps
    <3>4. \A d \in Callers : At(d, "replay") => caller[d].on # caller[c].on
      BY <1>i, <2>2
    <3>5. agent'[caller[c].on] = "preparing"
      BY <3>1, <3>3, <1>t
    <3>6. \A a \in Attempts : a # caller[c].on => agent'[a] = agent[a]
      BY <3>1, <1>t
    <3> QED BY <3>2, <3>4, <3>5, <3>6, <1>i DEF ReplaysAreOwned, At
  <2>3. CASE UNCHANGED agent /\ agent[caller[c].on] # "reserved"
    BY <1>5, <2>3, <1>1, <1>i, Moved DEF ClaimPreflight, At, Idle
  <2> QED BY <1>5, <2>2, <2>3 DEF ClaimPreflight
<1>6. ASSUME NEW c \in Callers, NEW yes \in BOOLEAN, Replay(c, yes) PROVE ReplaysAreOwned'
  <2>1. \A d \in Callers : d # c /\ At(d, "replay") => caller[d].on # caller[c].on
    BY <1>6 DEF Replay, ConflictInv, ReplaysAreOwned
  <2>2. ~At(c, "replay")' /\ \A d \in Callers : d # c => caller'[d] = caller[d]
    BY <1>6, <1>i, Moved DEF Replay, At, Idle
  <2>3. \A a \in Attempts : a # caller[c].on => agent'[a] = agent[a]
    BY <1>6, <1>t DEF Replay
  <2> QED BY <2>1, <2>2, <2>3, <1>i, ReplaysStay DEF At
<1>7. ASSUME NEW c \in Callers, Revalidate(c) PROVE ReplaysAreOwned'
  <2>1. ~At(c, "replay")' /\ \A d \in Callers : d # c => caller'[d] = caller[d]
    BY <1>7, <1>i, Moved DEF Revalidate, At, Idle
  <2>2. \A a \in Attempts : agent[a] # "ready" => agent'[a] = agent[a]
    BY <1>7, <1>t DEF Revalidate
  <2> QED BY <2>1, <2>2, <1>1
<1>8. ASSUME NEW c \in Callers, ClaimCall(c) PROVE ReplaysAreOwned'
  <2>1. ~At(c, "replay")' /\ \A d \in Callers : d # c => caller'[d] = caller[d]
    BY <1>8, <1>i, Moved DEF ClaimCall, At, Idle
  <2>2. \A a \in Attempts : agent[a] # "ready" => agent'[a] = agent[a]
    BY <1>8, <1>t DEF ClaimCall
  <2> QED BY <2>1, <2>2, <1>1
<1>9. ASSUME NEW c \in Callers, ClaimRefused(c) \/ Crash(c) PROVE ReplaysAreOwned'
  BY <1>9, <1>1, <1>i, Moved DEF ClaimRefused, Crash, At, Idle
<1>10. ASSUME NEW c \in Callers, NEW left \in {"conflict", "resolved", "other"}, NEW answered \in BOOLEAN,
              Work(c, left, answered) PROVE ReplaysAreOwned'
  BY <1>10, <1>1, <1>i, Moved DEF Work, At
<1>11. ASSUME NEW c \in Callers, NEW yes \in BOOLEAN, Evaluate(c, yes) PROVE ReplaysAreOwned'
  BY <1>11, <1>1, <1>i, Moved DEF Evaluate, At
<1>12. ASSUME NEW c \in Callers, Complete(c) \/ FailClaimed(c) PROVE ReplaysAreOwned'
  <2>1. ~At(c, "replay")' /\ \A d \in Callers : d # c => caller'[d] = caller[d]
    BY <1>12, <1>i, Moved DEF Complete, FailClaimed, At, Idle
  <2>2. \A a \in Attempts : agent[a] # "running" => agent'[a] = agent[a]
    BY <1>12, <1>t DEF Complete, FailClaimed, Settles
  <2> QED BY <2>1, <2>2, <1>1
<1>13. ASSUME NEW c \in Callers, NEW r \in Resolutions, Inspect(c, r) PROVE ReplaysAreOwned'
  BY <1>13, <1>1, <1>i, Moved DEF Inspect, At
<1>14. ASSUME NEW c \in Callers, NEW q \in Promotions, RecordPromotion(c, q) PROVE ReplaysAreOwned'
  BY <1>14, <1>1, <1>i, Moved DEF RecordPromotion, At, Idle
<1> QED BY <1>2, <1>3, <1>4, <1>5, <1>6, <1>7, <1>8, <1>9, <1>10, <1>11, <1>12, <1>13, <1>14
        DEF ConflictNext, RecordAssembly, RecordThreeWay, OutliveTimeout, RecoverClaim, Drift

\* No new spent attempt, and nobody comes to work.
LEMMA CountsStay ==
  ASSUME CallsAreCounted, answers' = answers,
         \A a \in Attempts : agent'[a] \in Spent <=> agent[a] \in Spent,
         \A d \in Callers : At(d, "work")' => At(d, "work") /\ caller'[d].on = caller[d].on
  PROVE  CallsAreCounted'
  BY DEF CallsAreCounted

LEMMA CallsAreCountedStep ==
  ASSUME ConflictInv, ConflictNext
  PROVE  CallsAreCounted'
<1> USE ConflictAssumption DEF ConflictAssumption
<1>i. /\ ConflictTypeOK /\ CallsAreCounted
      /\ \A d \in Callers : caller[d].step \in AttemptSteps => caller[d].on \in Attempts
  BY DEF ConflictInv, CallersRefer
<1>t. agent \in [Attempts -> AgentStates] /\ DOMAIN caller = Callers /\ answers \in [Attempts -> Nat]
  BY <1>i, Shapes DEF ConflictTypeOK
<1>1. ASSUME NEW c \in Callers, ~At(c, "work")', \A d \in Callers \ {c} : caller'[d] = caller[d],
             \A a \in Attempts : agent'[a] \in Spent <=> agent[a] \in Spent, answers' = answers
      PROVE  CallsAreCounted'
  BY <1>1, <1>i, CountsStay DEF At
<1>2. ASSUME UNCHANGED <<agent, caller, answers>> PROVE CallsAreCounted'
  BY <1>2, <1>i DEF CallsAreCounted, At
<1>3. ASSUME NEW a \in Attempts, Reserve(a) PROVE CallsAreCounted'
  BY <1>3, <1>i, <1>t, CountsStay DEF Reserve, At, Spent
<1>4. ASSUME NEW c \in Callers, NEW a \in Attempts, Execute(c, a) PROVE CallsAreCounted'
  BY <1>4, <1>1, <1>i, Moved DEF Execute, At
<1>5. ASSUME NEW c \in Callers, ClaimPreflight(c) PROVE CallsAreCounted'
  <2>1. ~At(c, "work")' /\ \A d \in Callers : d # c => caller'[d] = caller[d]
    BY <1>5, <1>i, Moved DEF ClaimPreflight, At, Idle
  <2>2. \A a \in Attempts : /\ agent[a] # "reserved" => agent'[a] = agent[a]
                            /\ agent[a] = "reserved" => agent'[a] \in {"reserved", "preparing"}
    BY <1>5, <1>t DEF ClaimPreflight
  <2>4. /\ \A a \in Attempts : agent'[a] \in Spent => agent[a] \in Spent
        /\ \A a \in Attempts : agent[a] \in Spent => agent'[a] \in Spent
    BY <2>2 DEF Spent
  <2>5. answers' = answers
    BY <1>5 DEF ClaimPreflight
  <2> QED BY <2>1, <2>4, <2>5, <1>1
<1>6. ASSUME NEW c \in Callers, NEW yes \in BOOLEAN, Replay(c, yes) PROVE CallsAreCounted'
  <2>1. ~At(c, "work")' /\ \A d \in Callers : d # c => caller'[d] = caller[d]
    BY <1>6, <1>i, Moved DEF Replay, At, Idle
  <2>2. agent[caller[c].on] = "preparing"
    BY <1>6 DEF Replay, ConflictInv, ReplaysAreOwned
  <2>3. \A a \in Attempts : /\ agent[a] # "preparing" => agent'[a] = agent[a]
                            /\ agent[a] = "preparing" => agent'[a] \in {"preparing", "ready", "refused"}
    BY <1>6, <2>2, <1>t DEF Replay
  <2>4. /\ \A a \in Attempts : agent'[a] \in Spent => agent[a] \in Spent
        /\ \A a \in Attempts : agent[a] \in Spent => agent'[a] \in Spent
    BY <2>3 DEF Spent
  <2>5. answers' = answers
    BY <1>6 DEF Replay
  <2> QED BY <2>1, <2>4, <2>5, <1>1
<1>7. ASSUME NEW c \in Callers, Revalidate(c) PROVE CallsAreCounted'
  <2>1. ~At(c, "work")' /\ \A d \in Callers : d # c => caller'[d] = caller[d]
    BY <1>7, <1>i, Moved DEF Revalidate, At, Idle
  <2>2. \A a \in Attempts : /\ agent[a] # "ready" => agent'[a] = agent[a]
                            /\ agent[a] = "ready" => agent'[a] \in {"ready", "refused"}
    BY <1>7, <1>t DEF Revalidate
  <2>4. /\ \A a \in Attempts : agent'[a] \in Spent => agent[a] \in Spent
        /\ \A a \in Attempts : agent[a] \in Spent => agent'[a] \in Spent
    BY <2>2 DEF Spent
  <2>5. answers' = answers
    BY <1>7 DEF Revalidate
  <2> QED BY <2>1, <2>4, <2>5, <1>1
<1>8. ASSUME NEW c \in Callers, ClaimCall(c) PROVE CallsAreCounted'
  <2>1. CASE agent[caller[c].on] = "ready" /\ ~CallConsumed
    <3>1. /\ Goto(c, "work", caller[c].on, "none")
          /\ agent' = [agent EXCEPT ![caller[c].on] = "running"] /\ answers' = answers
      BY <1>8, <2>1 DEF ClaimCall
    <3>2. /\ caller'[c].step = "work" /\ caller'[c].on = caller[c].on
          /\ \A d \in Callers : d # c => caller'[d] = caller[d]
      BY <3>1, <1>i, Moved
    <3>3. caller[c].on \in Attempts
      BY <1>8, <1>i DEF ClaimCall, At, AttemptSteps
    <3>4. \A a \in Attempts : agent[a] \notin Spent /\ answers[a] = 0
      <4>1. \A a \in Attempts : agent[a] \notin Spent
        BY <2>1 DEF CallConsumed
      <4> QED BY <4>1, <1>i, <1>t DEF CallsAreCounted
    <3>5. \A a \in Attempts : agent'[a] \in Spent => a = caller[c].on
      BY <3>1, <3>3, <3>4, <1>t
    <3>6. \A d \in Callers : At(d, "work")' => caller'[d].on \in Attempts
      BY <3>2, <3>3, <1>i DEF At, AttemptSteps
    <3> QED BY <3>1, <3>4, <3>5, <3>6 DEF CallsAreCounted
  <2>2. CASE ~(agent[caller[c].on] = "ready" /\ ~CallConsumed)
    BY <1>8, <2>2, <1>1, <1>i, Moved DEF ClaimCall, At, Idle
  <2> QED BY <2>1, <2>2
<1>9. ASSUME NEW c \in Callers, ClaimRefused(c) \/ Crash(c) PROVE CallsAreCounted'
  BY <1>9, <1>1, <1>i, Moved DEF ClaimRefused, Crash, At, Idle
<1>10. ASSUME NEW c \in Callers, NEW left \in {"conflict", "resolved", "other"}, NEW answered \in BOOLEAN,
              Work(c, left, answered) PROVE CallsAreCounted'
  <2>1. caller[c].on \in Attempts /\ answers[caller[c].on] = 0 /\ agent[caller[c].on] \in Spent
    BY <1>10, <1>i DEF Work, At, AttemptSteps, CallsAreCounted, ConflictInv, CallsAreOwned, Holds, Spent
  <2>2. ~At(c, "work")' /\ \A d \in Callers : d # c => caller'[d] = caller[d]
    BY <1>10, <1>i, Moved DEF Work, At
  <2>3. \A d \in Callers : d # c /\ At(d, "work") => caller[d].on # caller[c].on
    BY <1>10 DEF Work, At, ConflictInv, CallsAreOwned, Holds
  <2>4. agent' = agent /\ answers' = [answers EXCEPT ![caller[c].on] = answers[caller[c].on] + 1]
    BY <1>10 DEF Work
  <2>5. answers'[caller[c].on] = 1 /\ \A a \in Attempts : a # caller[c].on => answers'[a] = answers[a]
    BY <2>1, <2>4, <1>t
  <2>6. \A d \in Callers : At(d, "work")' => answers'[caller'[d].on] = 0
    BY <2>2, <2>3, <2>5, <1>i DEF At, AttemptSteps, CallsAreCounted
  <2>7. \A a \in Attempts : answers'[a] <= 1 /\ (answers'[a] > 0 => agent[a] \in Spent)
    BY <2>1, <2>5, <1>i DEF CallsAreCounted
  <2> QED BY <2>4, <2>6, <2>7, <1>i DEF CallsAreCounted
<1>11. ASSUME NEW c \in Callers, NEW yes \in BOOLEAN, Evaluate(c, yes) PROVE CallsAreCounted'
  BY <1>11, <1>1, <1>i, Moved DEF Evaluate, At
<1>12. ASSUME NEW c \in Callers, Complete(c) \/ FailClaimed(c) PROVE CallsAreCounted'
  <2>1. ~At(c, "work")' /\ \A d \in Callers : d # c => caller'[d] = caller[d]
    BY <1>12, <1>i, Moved DEF Complete, FailClaimed, At, Idle
  <2>2. At(c, "complete") => caller[c].saw \in {"resolved", "blocked"}
    BY DEF ConflictInv, CallersRefer
  <2>3. \A a \in Attempts : /\ agent[a] # "running" => agent'[a] = agent[a]
                            /\ agent[a] = "running" => agent'[a] \in {"running", "resolved", "blocked", "failed"}
    BY <1>12, <2>2, <1>t DEF Complete, FailClaimed, Settles
  <2>4. /\ \A a \in Attempts : agent'[a] \in Spent => agent[a] \in Spent
        /\ \A a \in Attempts : agent[a] \in Spent => agent'[a] \in Spent
    BY <2>3 DEF Spent
  <2>5. answers' = answers
    BY <1>12 DEF Complete, FailClaimed
  <2> QED BY <2>1, <2>4, <2>5, <1>1
<1>13. ASSUME NEW c \in Callers, NEW r \in Resolutions, Inspect(c, r) PROVE CallsAreCounted'
  BY <1>13, <1>1, <1>i, Moved DEF Inspect, At
<1>14. ASSUME NEW c \in Callers, NEW q \in Promotions, RecordPromotion(c, q) PROVE CallsAreCounted'
  BY <1>14, <1>1, <1>i, Moved DEF RecordPromotion, At, Idle
<1> QED BY <1>2, <1>3, <1>4, <1>5, <1>6, <1>7, <1>8, <1>9, <1>10, <1>11, <1>12, <1>13, <1>14
        DEF ConflictNext, RecordAssembly, RecordThreeWay, OutliveTimeout, RecoverClaim, Drift

LEMMA CallersReferStep ==
  ASSUME ConflictInv, ConflictNext
  PROVE  CallersRefer'
<1> USE ConflictAssumption DEF ConflictAssumption, ConflictTypeOK, CallersRefer, At, Goto, Return, Idle,
        AttemptSteps, Resolutions
<1>i. ConflictTypeOK /\ CallersRefer
  BY DEF ConflictInv
<1>1. ASSUME NEW status \in {"assembled", "rejected", "blocked"}, RecordAssembly(status) PROVE CallersRefer'
  BY <1>1, <1>i DEF RecordAssembly
<1>2. ASSUME NEW status \in {"resolved", "unresolved", "blocked"}, RecordThreeWay(status) PROVE CallersRefer'
  BY <1>2, <1>i DEF RecordThreeWay
<1>3. ASSUME NEW a \in Attempts, Reserve(a) \/ OutliveTimeout(a) \/ RecoverClaim(a) PROVE CallersRefer'
  BY <1>3, <1>i DEF Reserve, OutliveTimeout, RecoverClaim
<1>4. ASSUME NEW w \in Workspaces, Drift(w) PROVE CallersRefer'
  BY <1>4, <1>i DEF Drift, Kept, Workspaces
<1>5. ASSUME NEW c \in Callers, NEW a \in Attempts, Execute(c, a) PROVE CallersRefer'
  <2>1. caller'[c].step \in {"preflight", "revalidate", "claim"} /\ caller'[c].on = a
    BY <1>5, <1>i, Moved DEF Execute
  <2>2. \A d \in Callers : d # c => caller'[d] = caller[d]
    BY <1>5, <1>i, Moved DEF Execute
  <2> QED BY <1>5, <1>i, <2>1, <2>2 DEF Execute
<1>6. ASSUME NEW c \in Callers, ClaimPreflight(c) \/ Revalidate(c) \/ ClaimCall(c) PROVE CallersRefer'
  BY <1>6, <1>i DEF ClaimPreflight, Revalidate, ClaimCall
<1>7. ASSUME NEW c \in Callers, ClaimRefused(c) \/ Crash(c) PROVE CallersRefer'
  BY <1>7, <1>i DEF ClaimRefused, Crash
<1>8. ASSUME NEW c \in Callers, NEW yes \in BOOLEAN, Replay(c, yes) PROVE CallersRefer'
  BY <1>8, <1>i DEF Replay, ConflictInv, CallsAreOwned, ReplaysAreOwned, Holds
<1>9. ASSUME NEW c \in Callers, NEW yes \in BOOLEAN, Evaluate(c, yes) PROVE CallersRefer'
  BY <1>9, <1>i DEF Evaluate, Kept
<1>10. ASSUME NEW c \in Callers, NEW left \in {"conflict", "resolved", "other"}, NEW answered \in BOOLEAN,
              Work(c, left, answered) PROVE CallersRefer'
  BY <1>10, <1>i DEF Work, ConflictInv, CallsAreOwned, Holds
<1>11. ASSUME NEW c \in Callers, Complete(c) PROVE CallersRefer'
  BY <1>11, <1>i DEF Complete, Settles, ConflictInv, LateAnswerIsDropped
<1>12. ASSUME NEW c \in Callers, FailClaimed(c) PROVE CallersRefer'
  BY <1>12, <1>i DEF FailClaimed
<1>13. ASSUME NEW c \in Callers, NEW r \in Resolutions, Inspect(c, r) PROVE CallersRefer'
  BY <1>13, <1>i DEF Inspect
<1>14. ASSUME NEW c \in Callers, NEW q \in Promotions, RecordPromotion(c, q) PROVE CallersRefer'
  BY <1>14, <1>i DEF RecordPromotion
<1> QED BY <1>1, <1>2, <1>3, <1>4, <1>5, <1>6, <1>7, <1>8, <1>9, <1>10, <1>11, <1>12, <1>13, <1>14
        DEF ConflictNext

LEMMA LateAnswerStep ==
  ASSUME ConflictInv, ConflictNext
  PROVE  LateAnswerIsDropped'
<1> USE ConflictAssumption DEF ConflictAssumption, ConflictTypeOK, LateAnswerIsDropped, At, Resolutions
<1>i. ConflictTypeOK /\ LateAnswerIsDropped /\ CallersRefer
  BY DEF ConflictInv
<1>1. ASSUME UNCHANGED <<resolution, agent>> PROVE LateAnswerIsDropped'
  BY <1>1, <1>i
<1>2. ASSUME NEW status \in {"resolved", "unresolved", "blocked"}, RecordThreeWay(status)
      PROVE  LateAnswerIsDropped'
  BY <1>2, <1>i DEF RecordThreeWay
<1>3. ASSUME NEW a \in Attempts, Reserve(a) PROVE LateAnswerIsDropped'
  BY <1>3, <1>i DEF Reserve
<1>4. ASSUME NEW c \in Callers, ClaimPreflight(c) \/ Revalidate(c) \/ ClaimCall(c) PROVE LateAnswerIsDropped'
  BY <1>4, <1>i DEF ClaimPreflight, Revalidate, ClaimCall
<1>5. ASSUME NEW c \in Callers, NEW yes \in BOOLEAN, Replay(c, yes) PROVE LateAnswerIsDropped'
  BY <1>5, <1>i DEF Replay, ConflictInv, ReplaysAreOwned
<1>6. ASSUME NEW c \in Callers, Complete(c) PROVE LateAnswerIsDropped'
  BY <1>6, <1>i DEF Complete, Settles, CallersRefer, AttemptSteps
<1>7. ASSUME NEW c \in Callers, FailClaimed(c) PROVE LateAnswerIsDropped'
  BY <1>7, <1>i DEF FailClaimed, Settles
<1> QED BY <1>1, <1>2, <1>3, <1>4, <1>5, <1>6, <1>7
        DEF ConflictNext, RecordAssembly, OutliveTimeout, RecoverClaim, Drift, Execute, ClaimRefused,
            Evaluate, Work, Crash, Inspect, RecordPromotion

LEMMA HistoryFitsStep ==
  ASSUME ConflictInv, ConflictNext
  PROVE  HistoryFits'
<1> USE ConflictAssumption DEF ConflictAssumption, ConflictTypeOK, HistoryFits, Promoted, At, Kept,
        Resolutions, Workspaces
<1>i. ConflictTypeOK /\ HistoryFits /\ CallersRefer
  BY DEF ConflictInv
<1>1. ASSUME UNCHANGED <<assembly, resolution, workspace, agent, promotion>> PROVE HistoryFits'
  BY <1>1, <1>i
<1>2. ASSUME NEW status \in {"assembled", "rejected", "blocked"}, RecordAssembly(status) PROVE HistoryFits'
  BY <1>2, <1>i DEF RecordAssembly
<1>3. ASSUME NEW status \in {"resolved", "unresolved", "blocked"}, RecordThreeWay(status) PROVE HistoryFits'
  BY <1>3, <1>i DEF RecordThreeWay
<1>4. ASSUME NEW a \in Attempts, Reserve(a) PROVE HistoryFits'
  BY <1>4, <1>i DEF Reserve, EligibleParent
<1>5. ASSUME NEW w \in Workspaces, Drift(w) PROVE HistoryFits'
  BY <1>5, <1>i DEF Drift
<1>6. ASSUME NEW c \in Callers, ClaimPreflight(c) PROVE HistoryFits'
  BY <1>6, <1>i DEF ClaimPreflight
<1>7. ASSUME NEW c \in Callers, Revalidate(c) PROVE HistoryFits'
  BY <1>7, <1>i DEF Revalidate
<1>8. ASSUME NEW c \in Callers, ClaimCall(c) PROVE HistoryFits'
  BY <1>8, <1>i DEF ClaimCall
<1>9. ASSUME NEW c \in Callers, NEW yes \in BOOLEAN, Replay(c, yes) PROVE HistoryFits'
  BY <1>9, <1>i DEF Replay, ConflictInv, ReplaysAreOwned, LateAnswerIsDropped, CallersRefer, AttemptSteps
<1>10. ASSUME NEW c \in Callers, NEW left \in {"conflict", "resolved", "other"}, NEW answered \in BOOLEAN,
              Work(c, left, answered) PROVE HistoryFits'
  BY <1>10, <1>i DEF Work, ConflictInv, CallsAreOwned, Holds, LateAnswerIsDropped, CallersRefer, AttemptSteps
<1>11. ASSUME NEW c \in Callers, Complete(c) PROVE HistoryFits'
  BY <1>11, <1>i DEF Complete, Settles, CallersRefer, AttemptSteps, ConflictInv, LateAnswerIsDropped
<1>12. ASSUME NEW c \in Callers, FailClaimed(c) PROVE HistoryFits'
  BY <1>12, <1>i DEF FailClaimed, Settles
<1>13. ASSUME NEW c \in Callers, NEW q \in Promotions, RecordPromotion(c, q) PROVE HistoryFits'
  BY <1>13, <1>i DEF RecordPromotion, CallersRefer, Unused
<1> QED BY <1>1, <1>2, <1>3, <1>4, <1>5, <1>6, <1>7, <1>8, <1>9, <1>10, <1>11, <1>12, <1>13
        DEF ConflictNext, OutliveTimeout, RecoverClaim, Execute, ClaimRefused, Evaluate, Crash, Inspect

LEMMA ConflictStep ==
  ASSUME ConflictInv, [ConflictNext]_conflictVars
  PROVE  ConflictInv'
<1>1. CASE ConflictNext
  <2>1. ConflictTypeOK'
    BY <1>1, TypesStep DEF ConflictInv
  <2> QED BY <1>1, <2>1, CallersReferStep, CallsAreOwnedStep, ReplaysAreOwnedStep, CallsAreCountedStep,
             HistoryFitsStep, LateAnswerStep DEF ConflictInv
<1>2. CASE UNCHANGED conflictVars
  BY <1>2 DEF conflictVars, ConflictInv, ConflictTypeOK, CallersRefer, CallsAreOwned, ReplaysAreOwned,
              CallsAreCounted, HistoryFits, LateAnswerIsDropped, Holds, At, Promoted
<1> QED BY <1>1, <1>2

LEMMA ConflictStart == ConflictInit => ConflictInv
<1> SUFFICES ASSUME ConflictInit PROVE ConflictInv
  OBVIOUS
<1> USE ConflictAssumption DEF ConflictAssumption, ConflictInit
<1>1. ConflictTypeOK
  BY DEF ConflictTypeOK, Idle, Unused, Resolutions, Workspaces
<1>2. CallersRefer /\ CallsAreOwned /\ ReplaysAreOwned
  BY DEF CallersRefer, CallsAreOwned, ReplaysAreOwned, Holds, At, Idle, AttemptSteps
<1>3. CallsAreCounted
  BY DEF CallsAreCounted, At, Idle, Spent
<1>4. HistoryFits /\ LateAnswerIsDropped
  BY DEF HistoryFits, LateAnswerIsDropped, Promoted, Unused, Resolutions
<1> QED BY <1>1, <1>2, <1>3, <1>4 DEF ConflictInv

\* The bound of one call is part of the invariant.
LEMMA SoleCall == ConflictInv => OneModelCall
  BY DEF ConflictInv, CallsAreCounted, OneModelCall

\* A resolution is resolved for one reason: by Git, when no attempt exists, or by
\* the one attempt whose call was made.
LEMMA SoleResolution ==
  ASSUME ConflictInv, NEW r \in Resolutions, NEW s \in Resolutions,
         resolution[r] = "resolved", resolution[s] = "resolved"
  PROVE  r = s
<1>1. \A a \in Attempts : resolution[a] = "resolved" => agent[a] = "resolved"
  BY DEF ConflictInv, LateAnswerIsDropped
<1>2. \A a \in Attempts : resolution[a] = "resolved" => resolution["three_way"] = "unresolved"
  BY <1>1 DEF ConflictInv, HistoryFits
<1>3. \A a, b \in Attempts : resolution[a] = "resolved" /\ resolution[b] = "resolved" => a = b
  BY <1>1 DEF ConflictInv, CallsAreCounted, Spent
<1> QED BY <1>2, <1>3 DEF Resolutions

LEMMA SoleCandidateHolds == ConflictInv => SoleCandidate
<1> SUFFICES ASSUME ConflictInv PROVE SoleCandidate
  OBVIOUS
<1>1. \A p, q \in Promoted : p = q
  BY SoleResolution DEF ConflictInv, HistoryFits
<1>2. assembly = "assembled" => Promoted = {}
  <2>1. assembly = "assembled" => resolution["three_way"] = "none"
    BY DEF ConflictInv, HistoryFits
  <2>2. assembly = "assembled" => \A r \in Resolutions : resolution[r] # "resolved"
    BY <2>1 DEF ConflictInv, HistoryFits, LateAnswerIsDropped, Resolutions
  <2> QED BY <2>2 DEF ConflictInv, HistoryFits
<1>3. \A x, y \in Candidates : x = y
  BY <1>1, <1>2 DEF Candidates
<1>4. CASE Candidates = {}
  BY <1>4, FS_EmptySet DEF SoleCandidate
<1>5. CASE Candidates # {}
  <2>1. PICK x : Candidates = {x}
    BY <1>3, <1>5
  <2>2. Cardinality({x}) = 1
    BY FS_Singleton
  <2> QED BY <2>1, <2>2 DEF SoleCandidate
<1> QED BY <1>4, <1>5

\* The module of the budget counts as this one does.
LEMMA SameCountOfConflict == ASSUME NEW S PROVE ConflictBudget!Cardinality(S) = Cardinality(S)
  BY DEF ConflictBudget!Cardinality, Cardinality

\* Every step of the conflict is a step of the budget of one call, or none of it.
LEMMA ConflictCallStep ==
  ASSUME ConflictInv, [ConflictNext]_conflictVars
  PROVE  [ConflictBudget!Next]_ConflictCall
<1> USE ConflictAssumption DEF ConflictAssumption
<1>i. ConflictTypeOK /\ agent \in [Attempts -> AgentStates]
  BY Shapes DEF ConflictInv
<1>1. ASSUME NEW a \in Attempts, NEW to,
             agent' = [agent EXCEPT ![a] = to], agent[a] = "ready", to = "running", ~CallConsumed
      PROVE  ConflictBudget!Make(a)
  <2>1. ConflictBudget!Spent = {}
    BY <1>1 DEF ConflictBudget!Spent, ConflictCall, CallConsumed, Spent, Final
  <2>2. ConflictBudget!Cardinality(ConflictBudget!Spent) < 1
    BY <2>1, SameCountOfConflict, FS_EmptySet
  <2>3. ConflictBudget!Moves(a, "open", "made")
    BY <1>1, <1>i DEF ConflictBudget!Moves, ConflictCall, Final
  <2> QED BY <2>2, <2>3 DEF ConflictBudget!Make
<1>2. ASSUME NEW a \in Attempts, agent' = [agent EXCEPT ![a] = "refused"], agent[a] \in {"ready", "preparing"}
      PROVE  ConflictBudget!Withdraw(a)
  BY <1>2, <1>i DEF ConflictBudget!Withdraw, ConflictBudget!Moves, ConflictCall, Final
<1>3. ASSUME NEW a \in Attempts, NEW to \in {"resolved", "blocked", "failed"},
             agent' = [agent EXCEPT ![a] = to], agent[a] = "running"
      PROVE  ConflictBudget!Settle(a)
  BY <1>3, <1>i DEF ConflictBudget!Settle, ConflictBudget!Moves, ConflictCall, Final
<1>4. ASSUME NEW a \in Attempts, NEW to \in {"reserved", "preparing", "ready"},
             agent' = [agent EXCEPT ![a] = to], agent[a] \in {"absent", "reserved", "preparing"}
      PROVE  UNCHANGED ConflictCall
  BY <1>4, <1>i DEF ConflictCall, Final
<1>5. ASSUME UNCHANGED agent PROVE UNCHANGED ConflictCall
  BY <1>5 DEF ConflictCall
<1>6. ASSUME NEW a \in Attempts, Reserve(a) PROVE UNCHANGED ConflictCall
  BY <1>6, <1>4 DEF Reserve
<1>7. ASSUME NEW c \in Callers, ClaimPreflight(c) PROVE UNCHANGED ConflictCall
  <2>1. caller[c].on \in Attempts
    BY <1>7 DEF ConflictInv, CallersRefer, ClaimPreflight, At, AttemptSteps
  <2>2. \/ agent[caller[c].on] = "reserved" /\ agent' = [agent EXCEPT ![caller[c].on] = "preparing"]
        \/ UNCHANGED agent
    BY <1>7 DEF ClaimPreflight
  <2> QED BY <2>1, <2>2, <1>4, <1>5
<1>8. ASSUME NEW c \in Callers, NEW yes \in BOOLEAN, Replay(c, yes)
      PROVE  ConflictBudget!Next \/ UNCHANGED ConflictCall
  <2>1. caller[c].on \in Attempts /\ agent[caller[c].on] = "preparing"
    BY <1>8 DEF ConflictInv, CallersRefer, ReplaysAreOwned, Replay, At, AttemptSteps
  <2>2. CASE yes
    <3>1. agent' = [agent EXCEPT ![caller[c].on] = "ready"]
      BY <1>8, <2>2 DEF Replay
    <3> QED BY <2>1, <3>1, <1>4
  <2>3. CASE ~yes
    <3>1. agent' = [agent EXCEPT ![caller[c].on] = "refused"]
      BY <1>8, <2>3 DEF Replay
    <3> QED BY <2>1, <3>1, <1>2 DEF ConflictBudget!Next
  <2> QED BY <2>2, <2>3
<1>9. ASSUME NEW c \in Callers, Revalidate(c) PROVE ConflictBudget!Next \/ UNCHANGED ConflictCall
  <2>1. caller[c].on \in Attempts
    BY <1>9 DEF ConflictInv, CallersRefer, Revalidate, At, AttemptSteps
  <2>2. \/ agent[caller[c].on] = "ready" /\ agent' = [agent EXCEPT ![caller[c].on] = "refused"]
        \/ UNCHANGED agent
    BY <1>9, <1>i, <2>1 DEF Revalidate
  <2> QED BY <2>1, <2>2, <1>2, <1>5 DEF ConflictBudget!Next
<1>10. ASSUME NEW c \in Callers, ClaimCall(c) PROVE ConflictBudget!Next \/ UNCHANGED ConflictCall
  <2>1. caller[c].on \in Attempts
    BY <1>10 DEF ConflictInv, CallersRefer, ClaimCall, At, AttemptSteps
  <2>2. \/ /\ agent[caller[c].on] = "ready" /\ ~CallConsumed
           /\ agent' = [agent EXCEPT ![caller[c].on] = "running"]
        \/ UNCHANGED agent
    BY <1>10 DEF ClaimCall
  <2> QED BY <2>1, <2>2, <1>1, <1>5 DEF ConflictBudget!Next
<1>11. ASSUME NEW c \in Callers, Complete(c) \/ FailClaimed(c)
       PROVE  ConflictBudget!Next \/ UNCHANGED ConflictCall
  <2>1. caller[c].on \in Attempts
    BY <1>11 DEF ConflictInv, CallersRefer, Complete, FailClaimed, At, AttemptSteps
  <2>2. Complete(c) => caller[c].saw \in {"resolved", "blocked", "failed"}
    BY DEF ConflictInv, CallersRefer, Complete
  <2>3. \/ \E to \in {"resolved", "blocked", "failed"} :
             agent[caller[c].on] = "running" /\ agent' = [agent EXCEPT ![caller[c].on] = to]
        \/ UNCHANGED agent
    BY <1>11, <2>2 DEF Complete, FailClaimed, Settles
  <2> QED BY <2>1, <2>3, <1>3, <1>5 DEF ConflictBudget!Next
<1> QED BY <1>5, <1>6, <1>7, <1>8, <1>9, <1>10, <1>11
        DEF ConflictNext, conflictVars, RecordAssembly, RecordThreeWay, OutliveTimeout, RecoverClaim, Drift,
            Execute, ClaimRefused, Evaluate, Work, Crash, Inspect, RecordPromotion

LEMMA ConflictCallStart == ConflictInit => ConflictBudget!Init
  BY DEF ConflictInit, ConflictBudget!Init, ConflictCall, Final

(***************************************************************************)
(* The invocation                                                          *)
(***************************************************************************)
Steps == {"idle", "prepare", "command", "expire", "inspect", "record", "resume", "work", "evaluate",
          "complete", "fail", "gates", "integrity", "settle"}
Sights == {"none", "passed", "blocked", "resolved", "worked", "succeeded"}
RequestState == [saw : Sights, seen : {"none", "resolved", "worked", "other"}, step : Steps]
InvocationOf(P) ==
  [on : {"none", "direct"} \cup P,
   status : {"absent", "reserved", "preparing", "running", "awaiting_gates"} \cup Settled,
   prep : {"none", "passed", "failed"}, preflight : {"none", "passed", "blocked"},
   outcome : {"none", "resolved", "worked", "blocked"}, verdict : {"none", "succeeded", "blocked"}]

\* What a request sees and what the worktree is, as far as a proof needs them.
LEMMA Requested ==
  ASSUME IntegrationTypeOK, NEW c \in Requests
  PROVE  /\ request \in [Requests -> RequestState]
         /\ Answer(c) => /\ request' \in [Requests -> RequestState] /\ request'[c] = Waiting
                         /\ \A d \in Requests : d # c => request'[d] = request[d]
         /\ \A step \in Steps, saw \in Sights, seen \in {"none", "resolved", "worked", "other"} :
              Moves(c, step, saw, seen) =>
                /\ request' \in [Requests -> RequestState]
                /\ request'[c].step = step /\ request'[c].saw = saw /\ request'[c].seen = seen
                /\ \A d \in Requests : d # c => request'[d] = request[d]
<1>1. request \in [Requests -> RequestState]
  BY DEF IntegrationTypeOK, RequestState, Steps, Sights
<1>2. Waiting \in RequestState
  BY DEF Waiting, RequestState, Steps, Sights
<1>3. \A step \in Steps, saw \in Sights, seen \in {"none", "resolved", "worked", "other"} :
        [step |-> step, saw |-> saw, seen |-> seen] \in RequestState
  BY DEF RequestState
<1>4. \A x \in RequestState : request' = [request EXCEPT ![c] = x] =>
        /\ request' \in [Requests -> RequestState] /\ request'[c] = x
        /\ \A d \in Requests : d # c => request'[d] = request[d]
  BY <1>1
<1>5. ASSUME NEW step \in Steps, NEW saw \in Sights, NEW seen \in {"none", "resolved", "worked", "other"},
             Moves(c, step, saw, seen)
      PROVE  /\ request' \in [Requests -> RequestState]
             /\ request'[c].step = step /\ request'[c].saw = saw /\ request'[c].seen = seen
             /\ \A d \in Requests : d # c => request'[d] = request[d]
  BY <1>3, <1>4, <1>5 DEF Moves
<1> QED BY <1>1, <1>2, <1>4, <1>5 DEF Answer

\* An invocation is written one or two fields at a time.
LEMMA Written ==
  ASSUME NEW On, NEW St, NEW Pr, NEW Pf, NEW Oc, NEW Ve,
         NEW r \in [on : On, status : St, prep : Pr, preflight : Pf, outcome : Oc, verdict : Ve]
  PROVE  /\ \A on \in On, st \in St : [r EXCEPT !.on = on, !.status = st] \in
              [on : On, status : St, prep : Pr, preflight : Pf, outcome : Oc, verdict : Ve]
         /\ \A st \in St : [r EXCEPT !.status = st] \in
              [on : On, status : St, prep : Pr, preflight : Pf, outcome : Oc, verdict : Ve]
         /\ \A st \in St, x \in Pr : [r EXCEPT !.prep = x, !.status = st] \in
              [on : On, status : St, prep : Pr, preflight : Pf, outcome : Oc, verdict : Ve]
         /\ \A st \in St, x \in Pf : [r EXCEPT !.preflight = x, !.status = st] \in
              [on : On, status : St, prep : Pr, preflight : Pf, outcome : Oc, verdict : Ve]
         /\ \A st \in St, x \in Pf : [r EXCEPT !.status = st, !.preflight = x] \in
              [on : On, status : St, prep : Pr, preflight : Pf, outcome : Oc, verdict : Ve]
         /\ \A st \in St, x \in Oc : [r EXCEPT !.outcome = x, !.status = st] \in
              [on : On, status : St, prep : Pr, preflight : Pf, outcome : Oc, verdict : Ve]
         /\ \A st \in St, x \in Ve : [r EXCEPT !.status = st, !.verdict = x] \in
              [on : On, status : St, prep : Pr, preflight : Pf, outcome : Oc, verdict : Ve]
  OBVIOUS

Early == {"absent", "reserved", "preparing"}

\* What the invocation has recorded fits its status.
InvocationFits ==
  /\ inv.status \in Early <=> (inv.preflight = "none" /\ inv.prep # "failed")
  /\ inv.status = "preparing" => inv.prep = "none"
  /\ inv.status = "absent" => inv = NoInvocation
  /\ inv.status # "absent" => inv.on \in Candidates
  /\ inv.prep = "failed" => inv.status = "blocked"
  /\ inv.preflight = "passed" => inv.prep = "passed"
  /\ inv.status \in {"running", "awaiting_gates"} => inv.preflight = "passed"
  /\ inv.status \in Early \cup {"running"} => inv.outcome = "none"
  /\ inv.status \in Early \cup {"running", "awaiting_gates"} => inv.verdict = "none"
  /\ inv.status = "awaiting_gates" => inv.outcome \in {"resolved", "worked"} /\ invClaim = "released"

\* What a request holds is what its step needs.
RequestFits(c) ==
  /\ ~Stands(c, "idle") => inv.status # "absent"
  /\ request[c].step \in {"inspect", "record"} => inv.prep = "passed"
  /\ Stands(c, "record") => request[c].saw \in {"passed", "blocked"}
  /\ Stands(c, "work") => workerAnswers = 0 /\ inv.preflight = "passed"
  /\ Stands(c, "complete") => request[c].saw \in {"blocked", "resolved", "worked"}
  /\ request[c].step \in {"integrity", "settle"} =>
       inv.outcome \in {"resolved", "worked"} /\ request[c].saw \in {"succeeded", "blocked"}
  /\ Stands(c, "settle") /\ request[c].saw = "succeeded" => request[c].seen = inv.outcome

RequestsFit ==
  /\ \A c \in Requests : RequestFits(c)
  /\ \A c, d \in Requests : Stands(c, "work") /\ Stands(d, "work") => c = d
  /\ inv.preflight = "none" => workerAnswers = 0

IntegrationInv ==
  /\ ConflictInv
  /\ IntegrationTypeOK
  /\ InvocationFits
  /\ RequestsFit
  /\ WorkerRunsOnce
  /\ InvocationHoldsClaim

\* The worktree of a reserved invocation holds what was assembled, or something else.
LEMMA WorktreeIsKept ==
  ASSUME IntegrationInv
  PROVE  /\ Worktree \in Workspaces
         /\ inv.status # "absent" => workspace[Worktree] \in Kept
<1>1. Worktree \in Workspaces
  BY DEF IntegrationInv, ConflictInv, ConflictTypeOK, Worktree, Workspaces
<1>2. inv.on \in Promoted => workspace[Worktree] \in Kept
  BY DEF IntegrationInv, ConflictInv, HistoryFits, Worktree, Promoted
<1>3. inv.on = "direct" /\ assembly = "assembled" => workspace[Worktree] \in Kept
  BY IntegrationAssumption DEF IntegrationAssumption, IntegrationInv, ConflictInv, HistoryFits, Worktree
<1>4. inv.status # "absent" => inv.on \in Promoted \/ (inv.on = "direct" /\ assembly = "assembled")
  BY DEF IntegrationInv, InvocationFits, Candidates
<1> QED BY <1>1, <1>2, <1>3, <1>4

\* Nothing that was assembled or promoted is taken back.
LEMMA CandidatesStay ==
  ASSUME ConflictInv, ConflictNext
  PROVE  Candidates \subseteq Candidates'
<1>1. assembly = "assembled" => assembly' = "assembled"
  BY DEF ConflictNext, RecordAssembly, RecordThreeWay, Reserve, OutliveTimeout, RecoverClaim, Drift, Execute,
         ClaimPreflight, Revalidate, ClaimCall, ClaimRefused, Replay, Evaluate, Work, Complete, FailClaimed,
         Crash, Inspect, RecordPromotion
<1>2. ASSUME NEW c \in Callers, NEW q \in Promotions, RecordPromotion(c, q)
      PROVE  Promoted \subseteq Promoted'
  BY <1>2 DEF RecordPromotion, Promoted, Unused, ConflictInv, ConflictTypeOK
<1>3. promotion' = promotion => Promoted' = Promoted
  BY DEF Promoted
<1>4. Promoted \subseteq Promoted'
  BY <1>2, <1>3
     DEF ConflictNext, RecordAssembly, RecordThreeWay, Reserve, OutliveTimeout, RecoverClaim, Drift, Execute,
         ClaimPreflight, Revalidate, ClaimCall, ClaimRefused, Replay, Evaluate, Work, Complete, FailClaimed,
         Crash, Inspect
<1> QED BY <1>1, <1>4 DEF Candidates

\* Something writes to a worktree and leaves what may be left there.
LEMMA WorktreeIsWritten ==
  ASSUME ConflictInv, NEW w \in Workspaces, NEW content \in Kept,
         workspace' = [workspace EXCEPT ![w] = content],
         UNCHANGED <<assembly, resolution, agent, claim, stale, promotion, caller, answers, crashes>>
  PROVE  ConflictInv' /\ Candidates' = Candidates
<1>t. ConflictTypeOK
  BY DEF ConflictInv
<1>1. workspace' \in [Workspaces -> {"none", "conflict", "resolved", "worked", "other"}]
  BY <1>t DEF ConflictTypeOK, Kept
<1>2. \A v \in Workspaces : workspace[v] \in Kept => workspace'[v] \in Kept
  BY <1>t DEF ConflictTypeOK
<1>3. ConflictTypeOK'
  BY <1>1, <1>t DEF ConflictTypeOK
<1>4. CallersRefer'
  <2>1. \A c \in Callers : caller[c].on \in Workspaces
    BY <1>t DEF ConflictTypeOK
  <2> QED BY <1>2, <2>1 DEF ConflictInv, CallersRefer, At
<1>5. HistoryFits'
  BY <1>2 DEF ConflictInv, HistoryFits, Promoted, Resolutions, Workspaces
<1>6. CallsAreOwned' /\ ReplaysAreOwned' /\ CallsAreCounted' /\ LateAnswerIsDropped'
  BY DEF ConflictInv, CallsAreOwned, ReplaysAreOwned, CallsAreCounted, LateAnswerIsDropped, Holds, At
<1>7. Candidates' = Candidates
  BY DEF Candidates, Promoted
<1> QED BY <1>3, <1>4, <1>5, <1>6, <1>7 DEF ConflictInv

\* The conflict under the steps of the invocation.
LEMMA ConflictStands ==
  ASSUME IntegrationInv, IntegrationNext
  PROVE  /\ ConflictInv'
         /\ inv.status # "absent" => Candidates \subseteq Candidates'
<1>i. ConflictInv /\ ConflictTypeOK
  BY DEF IntegrationInv, ConflictInv
<1>w. /\ Worktree \in Workspaces
      /\ inv.status # "absent" => workspace[Worktree] \in Kept
  BY WorktreeIsKept
<1>1. CASE ConflictNext /\ UNCHANGED integrationVars
  BY <1>1, <1>i, ConflictStep, CandidatesStay
<1>2. ASSUME UNCHANGED conflictVars PROVE ConflictInv' /\ Candidates' = Candidates
  <2>1. ConflictInv'
    BY <1>2, <1>i, ConflictStep
  <2> QED BY <1>2, <2>1 DEF conflictVars, Candidates, Promoted
<1>3. ASSUME NEW c \in Requests, Stop(c) PROVE ConflictInv' /\ Candidates' = Candidates
  <2>1. crashes' \in 0..MaxCrashes
    BY <1>3, <1>i, ConflictAssumption DEF ConflictAssumption, Stop, ConflictTypeOK
  <2>2. UNCHANGED <<assembly, resolution, workspace, agent, claim, stale, promotion, caller, answers>>
    BY <1>3 DEF Stop
  <2> QED BY <2>1, <2>2, <1>i DEF ConflictInv, ConflictTypeOK, CallersRefer, CallsAreOwned, ReplaysAreOwned,
             CallsAreCounted, HistoryFits, LateAnswerIsDropped, Holds, At, Promoted, Candidates
<1>4. ASSUME NEW content \in Kept, Leaves(content) PROVE ConflictInv' /\ Candidates' = Candidates
  BY <1>4, <1>i, <1>w, WorktreeIsWritten DEF Leaves
<1>5. ASSUME NEW c \in Requests, ~Stands(c, "idle") PROVE workspace[Worktree] \in Kept
  BY <1>5, <1>w DEF IntegrationInv, RequestsFit, RequestFits
<1>6. ASSUME NEW c \in Requests, NEW yes \in BOOLEAN, NEW left \in {workspace[Worktree], "other"},
             Prepare(c, yes, left) \/ RunGates(c, yes, left)
      PROVE  ConflictInv' /\ Candidates' = Candidates
  <2>1. left \in Kept
    BY <1>6, <1>5 DEF Prepare, RunGates, Stands, Kept
  <2> QED BY <1>6, <2>1, <1>2, <1>4 DEF Prepare, RunGates
<1>7. ASSUME NEW c \in Requests, NEW left \in {"resolved", "worked", "other"}, NEW yes \in BOOLEAN,
             WorkerReturns(c, left, yes)
      PROVE  ConflictInv' /\ Candidates' = Candidates
  <2>1. Untouched(left) \in Kept
    BY DEF Untouched, Kept
  <2> QED BY <1>7, <2>1, <1>4 DEF WorkerReturns
<1> QED BY <1>1, <1>2, <1>3, <1>6, <1>7
        DEF IntegrationNext, Serve, ReserveInvocation, DenyByPolicy, OutlivePhase, RecoverInvocationClaim,
            Begin, ClaimPreparation, ExpirePreparation, InspectStack, RecordPreflight, Resume, EvaluateWorker,
            CompleteWorker, FailInvocation, CheckIntegrity, SettleGates, CapacityRefused

(***************************************************************************)
(* What a step writes                                                      *)
(***************************************************************************)
\* A request that serves moves alone, or answers.
LEMMA RequestMoves ==
  ASSUME IntegrationInv, NEW c \in Requests, Serve(c) \/ CapacityRefused(c) \/ Stop(c)
  PROVE  /\ request' \in [Requests -> RequestState]
         /\ \A d \in Requests : d # c => request'[d] = request[d]
<1>t. IntegrationTypeOK /\ request[c] \in RequestState
  BY Requested DEF IntegrationInv
<1>g. \A step \in Steps, saw \in Sights : GoOn(c, step, saw) =>
        /\ request' \in [Requests -> RequestState]
        /\ \A d \in Requests : d # c => request'[d] = request[d]
  BY <1>t, Requested DEF GoOn
<1>a. Answer(c) => /\ request' \in [Requests -> RequestState]
                   /\ \A d \in Requests : d # c => request'[d] = request[d]
  BY <1>t, Requested
<1>k. ~Stands(c, "idle") => workspace[Worktree] \in Kept
  BY WorktreeIsKept DEF IntegrationInv, RequestsFit, RequestFits
<1> USE <1>g, <1>a DEF Steps, Sights
<1>1. CASE Begin(c) \/ ClaimPreparation(c) \/ ExpirePreparation(c) \/ InspectStack(c) \/ Resume(c)
  BY <1>1 DEF Begin, ClaimPreparation, ExpirePreparation, InspectStack, Resume
<1>2. CASE RecordPreflight(c) \/ CapacityRefused(c) \/ Stop(c)
  BY <1>2 DEF RecordPreflight, CapacityRefused, Stop
<1>3. ASSUME NEW yes \in BOOLEAN, NEW left, Prepare(c, yes, left) \/ RunGates(c, yes, left)
      PROVE  /\ request' \in [Requests -> RequestState]
             /\ \A d \in Requests : d # c => request'[d] = request[d]
  BY <1>3 DEF Prepare, RunGates
<1>4. ASSUME NEW left, NEW yes \in BOOLEAN, WorkerReturns(c, left, yes)
      PROVE  /\ request' \in [Requests -> RequestState]
             /\ \A d \in Requests : d # c => request'[d] = request[d]
  BY <1>4 DEF WorkerReturns
<1>5. ASSUME NEW readable \in BOOLEAN, NEW blocks \in BOOLEAN, EvaluateWorker(c, readable, blocks)
      PROVE  /\ request' \in [Requests -> RequestState]
             /\ \A d \in Requests : d # c => request'[d] = request[d]
  BY <1>5, <1>k DEF EvaluateWorker, Stands, Kept
<1>6. CASE CompleteWorker(c) \/ FailInvocation(c) \/ SettleGates(c)
  BY <1>6 DEF CompleteWorker, FailInvocation, SettleGates
<1>7. CASE CheckIntegrity(c)
  <2>1. workspace[Worktree] \in {"none", "resolved", "worked", "other"}
    BY <1>7, <1>k DEF CheckIntegrity, Stands, Kept
  <2>2. (IF workspace[Worktree] = inv.outcome THEN request[c].saw ELSE "blocked") \in Sights
    BY <1>t DEF RequestState
  <2>3. "settle" \in Steps
    OBVIOUS
  <2> QED BY <1>7, <1>t, <2>1, <2>2, <2>3, Requested DEF CheckIntegrity
<1> QED BY <1>1, <1>2, <1>3, <1>4, <1>5, <1>6, <1>7 DEF Serve

\* Of what it has recorded, an invocation only ever adds what was missing.
EvidenceStays ==
  /\ inv.status # "absent" => inv'.status # "absent" /\ inv'.on = inv.on
  /\ inv.status \in Settled => inv' = inv
  /\ inv.prep # "none" => inv'.prep = inv.prep
  /\ inv.preflight # "none" => inv'.preflight = inv.preflight
  /\ inv.outcome # "none" => inv'.outcome = inv.outcome
  /\ inv.verdict # "none" => inv'.verdict = inv.verdict

\* What the steps that write the invocation may write, and what it then fits.
LEMMA InvocationStep ==
  ASSUME IntegrationInv, IntegrationNext
  PROVE  /\ inv' \in InvocationOf(Promotions)
         /\ EvidenceStays
         /\ InvocationFits'
         /\ invClaim' \in {"none", "active", "released", "ambiguous"}
         /\ InvocationHoldsClaim'
<1> DEFINE Good == /\ inv' \in InvocationOf(Promotions)
                   /\ EvidenceStays
                   /\ InvocationFits'
                   /\ invClaim' \in {"none", "active", "released", "ambiguous"}
                   /\ InvocationHoldsClaim'
<1>i. /\ inv \in InvocationOf(Promotions) /\ InvocationFits /\ InvocationHoldsClaim
      /\ invClaim \in {"none", "active", "released", "ambiguous"}
  BY DEF IntegrationInv, IntegrationTypeOK, InvocationOf
<1>c. inv.status # "absent" => Candidates \subseteq Candidates'
  BY ConflictStands
<1>r. \A c \in Requests : RequestFits(c) /\ request[c] \in RequestState
  BY Requested DEF IntegrationInv, RequestsFit
<1>1. ASSUME UNCHANGED <<inv, invClaim>> PROVE Good
  BY <1>1, <1>i, <1>c DEF InvocationFits, InvocationHoldsClaim, EvidenceStays, InvocationOf
<1>2. ASSUME NEW q, ReserveInvocation(q), q \in {"direct"} \cup Promotions PROVE Good
  <2>1. /\ inv = NoInvocation /\ inv' = [NoInvocation EXCEPT !.on = q, !.status = "reserved"]
        /\ q \in Candidates' /\ UNCHANGED invClaim
    BY <1>2 DEF ReserveInvocation, conflictVars, Candidates, Promoted
  <2>2. inv' = [on |-> q, status |-> "reserved", prep |-> "none", preflight |-> "none",
                outcome |-> "none", verdict |-> "none"]
    BY <2>1 DEF NoInvocation
  <2> QED BY <1>2, <2>1, <2>2, <1>i
          DEF InvocationOf, EvidenceStays, InvocationFits, InvocationHoldsClaim, NoInvocation, Early, Settled
<1>3. ASSUME DenyByPolicy PROVE Good
  <2>1. inv.status = "reserved" /\ inv.preflight = "none" /\ UNCHANGED <<invClaim, Candidates>>
    BY <1>3 DEF DenyByPolicy, conflictVars, Candidates, Promoted
  <2>2. inv' = [inv EXCEPT !.status = "blocked", !.preflight = "blocked"]
    BY <1>3 DEF DenyByPolicy
  <2>3. inv' \in InvocationOf(Promotions)
    BY <2>2, <1>i, Written DEF InvocationOf, Settled
  <2>4. /\ inv'.status = "blocked" /\ inv'.preflight = "blocked" /\ inv'.prep = inv.prep
        /\ inv'.outcome = inv.outcome /\ inv'.verdict = inv.verdict /\ inv'.on = inv.on
    BY <2>2, <1>i DEF InvocationOf
  <2> QED BY <2>1, <2>3, <2>4, <1>i
          DEF EvidenceStays, InvocationFits, InvocationHoldsClaim, Early, Settled
<1>4. ASSUME RecoverInvocationClaim PROVE Good
  <2>1. UNCHANGED <<inv, Candidates>> /\ invClaim = "active" /\ invClaim' = "ambiguous"
    BY <1>4 DEF RecoverInvocationClaim, conflictVars, Candidates, Promoted
  <2> QED BY <2>1, <1>i DEF InvocationFits, InvocationHoldsClaim, EvidenceStays, InvocationOf
<1>5. ASSUME NEW c \in Requests, ClaimPreparation(c) PROVE Good
  <2>1. CASE UNCHANGED inv
    BY <1>5, <2>1, <1>1 DEF ClaimPreparation
  <2>2. CASE inv.prep = "none" /\ inv.status = "reserved" /\ inv' = [inv EXCEPT !.status = "preparing"]
    <3>1. inv' \in InvocationOf(Promotions) /\ UNCHANGED <<invClaim, Candidates>>
      BY <1>5, <2>2, <1>i, Written DEF InvocationOf, ClaimPreparation, conflictVars, Candidates, Promoted
    <3>2. /\ inv'.status = "preparing" /\ inv'.preflight = inv.preflight /\ inv'.prep = inv.prep
          /\ inv'.outcome = inv.outcome /\ inv'.verdict = inv.verdict /\ inv'.on = inv.on
      BY <2>2, <1>i DEF InvocationOf
    <3> QED BY <2>2, <3>1, <3>2, <1>i
            DEF EvidenceStays, InvocationFits, InvocationHoldsClaim, Early, Settled
  <2> QED BY <1>5, <2>1, <2>2 DEF ClaimPreparation
<1>6. ASSUME NEW passed \in BOOLEAN, inv.prep = "none", inv.status = "preparing", UNCHANGED <<invClaim, Candidates>>,
             inv' = [inv EXCEPT !.prep = IF passed THEN "passed" ELSE "failed",
                                !.status = IF passed THEN "reserved" ELSE "blocked"]
      PROVE  Good
  <2>1. inv' \in InvocationOf(Promotions)
    BY <1>6, <1>i, Written DEF InvocationOf, Settled
  <2>2. /\ inv'.status = (IF passed THEN "reserved" ELSE "blocked") /\ inv'.preflight = inv.preflight
        /\ inv'.prep = (IF passed THEN "passed" ELSE "failed")
        /\ inv'.outcome = inv.outcome /\ inv'.verdict = inv.verdict /\ inv'.on = inv.on
    BY <1>6, <1>i DEF InvocationOf
  <2> QED BY <1>6, <2>1, <2>2, <1>i
          DEF EvidenceStays, InvocationFits, InvocationHoldsClaim, Early, Settled
<1>7. ASSUME NEW c \in Requests, NEW yes \in BOOLEAN, NEW left, Prepare(c, yes, left) PROVE Good
  <2>1. UNCHANGED <<invClaim, Candidates>>
    BY <1>7 DEF Prepare, Leaves, Candidates, Promoted
  <2> QED BY <1>7, <2>1, <1>1, <1>6 DEF Prepare
<1>8. ASSUME NEW c \in Requests, ExpirePreparation(c) PROVE Good
  <2>1. UNCHANGED <<invClaim, Candidates>>
    BY <1>8 DEF ExpirePreparation, conflictVars, Candidates, Promoted
  <2>2. \/ UNCHANGED inv
        \/ /\ inv.prep = "none" /\ inv.status = "preparing"
           /\ inv' = [inv EXCEPT !.prep = IF FALSE THEN "passed" ELSE "failed",
                                 !.status = IF FALSE THEN "reserved" ELSE "blocked"]
    BY <1>8 DEF ExpirePreparation
  <2> QED BY <2>1, <2>2, <1>1, <1>6
<1>9. ASSUME NEW c \in Requests, RecordPreflight(c) PROVE Good
  <2>1. CASE UNCHANGED <<inv, invClaim>>
    BY <2>1, <1>1
  <2>2. CASE inv.preflight = "none" /\ inv.status = "reserved"
    <3>1. request[c].saw \in {"passed", "blocked"} /\ inv.prep = "passed"
      BY <1>9, <1>r DEF RecordPreflight, RequestFits, Stands
    <3>2. /\ inv' = [inv EXCEPT !.preflight = request[c].saw,
                                !.status = IF request[c].saw = "passed" THEN "running" ELSE "blocked"]
          /\ invClaim' = (IF request[c].saw = "passed" THEN "active" ELSE invClaim)
          /\ UNCHANGED Candidates
      BY <1>9, <2>2 DEF RecordPreflight, conflictVars, Candidates, Promoted
    <3>3. inv' \in InvocationOf(Promotions)
      BY <3>1, <3>2, <1>i, Written DEF InvocationOf, Settled
    <3>4. /\ inv'.status = (IF request[c].saw = "passed" THEN "running" ELSE "blocked")
          /\ inv'.preflight = request[c].saw /\ inv'.prep = inv.prep
          /\ inv'.outcome = inv.outcome /\ inv'.verdict = inv.verdict /\ inv'.on = inv.on
      BY <3>2, <1>i DEF InvocationOf
    <3> QED BY <2>2, <3>1, <3>2, <3>3, <3>4, <1>i
            DEF EvidenceStays, InvocationFits, InvocationHoldsClaim, Early, Settled
  <2> QED BY <1>9, <2>1, <2>2 DEF RecordPreflight
<1>10. ASSUME NEW c \in Requests, CompleteWorker(c) PROVE Good
  <2>1. CASE UNCHANGED <<inv, invClaim>>
    BY <2>1, <1>1
  <2>2. CASE InvocationSettles
    <3>1. request[c].saw \in {"blocked", "resolved", "worked"}
      BY <1>10, <1>r DEF CompleteWorker, RequestFits, Stands
    <3>2. /\ inv' = [inv EXCEPT !.outcome = request[c].saw,
                                !.status = IF request[c].saw = "blocked" THEN "blocked" ELSE "awaiting_gates"]
          /\ invClaim' = "released" /\ inv.status = "running" /\ UNCHANGED Candidates
      BY <1>10, <2>2 DEF CompleteWorker, InvocationSettles, conflictVars, Candidates, Promoted
    <3>3. inv' \in InvocationOf(Promotions)
      BY <3>1, <3>2, <1>i, Written DEF InvocationOf, Settled
    <3>4. /\ inv'.status = (IF request[c].saw = "blocked" THEN "blocked" ELSE "awaiting_gates")
          /\ inv'.outcome = request[c].saw /\ inv'.prep = inv.prep
          /\ inv'.preflight = inv.preflight /\ inv'.verdict = inv.verdict /\ inv'.on = inv.on
      BY <3>2, <1>i DEF InvocationOf
    <3> QED BY <3>1, <3>2, <3>3, <3>4, <1>i
            DEF EvidenceStays, InvocationFits, InvocationHoldsClaim, Early, Settled
  <2> QED BY <1>10, <2>1, <2>2 DEF CompleteWorker
<1>11. ASSUME NEW c \in Requests, FailInvocation(c) PROVE Good
  <2>1. CASE UNCHANGED <<inv, invClaim>>
    BY <2>1, <1>1
  <2>2. CASE InvocationSettles
    <3>1. /\ inv' = [inv EXCEPT !.status = "failed"] /\ invClaim' = "released"
          /\ inv.status = "running" /\ UNCHANGED Candidates
      BY <1>11, <2>2 DEF FailInvocation, InvocationSettles, conflictVars, Candidates, Promoted
    <3>2. inv' \in InvocationOf(Promotions)
      BY <3>1, <1>i, Written DEF InvocationOf, Settled
    <3>3. /\ inv'.status = "failed" /\ inv'.outcome = inv.outcome /\ inv'.prep = inv.prep
          /\ inv'.preflight = inv.preflight /\ inv'.verdict = inv.verdict /\ inv'.on = inv.on
      BY <3>1, <1>i DEF InvocationOf
    <3> QED BY <3>1, <3>2, <3>3, <1>i
            DEF EvidenceStays, InvocationFits, InvocationHoldsClaim, Early, Settled
  <2> QED BY <1>11, <2>1, <2>2 DEF FailInvocation
<1>12. ASSUME NEW c \in Requests, SettleGates(c) PROVE Good
  <2>1. UNCHANGED <<invClaim, Candidates>>
    BY <1>12 DEF SettleGates, conflictVars, Candidates, Promoted
  <2>2. CASE UNCHANGED inv
    BY <2>1, <2>2, <1>1
  <2>3. CASE inv.status = "awaiting_gates"
    <3>1. request[c].saw \in {"succeeded", "blocked"}
      BY <1>12, <1>r DEF SettleGates, RequestFits, Stands
    <3>2. inv' = [inv EXCEPT !.status = request[c].saw, !.verdict = request[c].saw]
      BY <1>12, <2>3 DEF SettleGates
    <3>3. inv' \in InvocationOf(Promotions)
      BY <3>1, <3>2, <1>i, Written DEF InvocationOf, Settled
    <3>4. /\ inv'.status = request[c].saw /\ inv'.verdict = request[c].saw /\ inv'.prep = inv.prep
          /\ inv'.preflight = inv.preflight /\ inv'.outcome = inv.outcome /\ inv'.on = inv.on
      BY <3>2, <1>i DEF InvocationOf
    <3> QED BY <2>1, <2>3, <3>1, <3>3, <3>4, <1>i
            DEF EvidenceStays, InvocationFits, InvocationHoldsClaim, Early, Settled
  <2> QED BY <1>12, <2>2, <2>3 DEF SettleGates
<1>13. ASSUME NEW c \in Requests, CapacityRefused(c) \/ Stop(c) \/ Begin(c) \/ InspectStack(c) \/ Resume(c)
                                  \/ CheckIntegrity(c) PROVE Good
  BY <1>13, <1>1 DEF CapacityRefused, Stop, Begin, InspectStack, Resume, CheckIntegrity, Unmoved
<1>14. ASSUME NEW c \in Requests, NEW yes \in BOOLEAN, NEW left, RunGates(c, yes, left) PROVE Good
  BY <1>14, <1>1 DEF RunGates, Unmoved
<1>15. ASSUME NEW c \in Requests, NEW left, NEW yes \in BOOLEAN, WorkerReturns(c, left, yes) PROVE Good
  BY <1>15, <1>1 DEF WorkerReturns
<1>16. ASSUME NEW c \in Requests, NEW readable \in BOOLEAN, NEW blocks \in BOOLEAN,
              EvaluateWorker(c, readable, blocks) PROVE Good
  BY <1>16, <1>1 DEF EvaluateWorker, Unmoved
<1>17. ASSUME OutlivePhase \/ (ConflictNext /\ UNCHANGED integrationVars) PROVE Good
  BY <1>17, <1>1 DEF OutlivePhase, integrationVars
<1> HIDE DEF Good
<1>18. ASSUME NEW c \in Requests, Serve(c) PROVE Good
  <2>1. CASE \E yes \in BOOLEAN, left \in {workspace[Worktree], "other"} :
               Prepare(c, yes, left) \/ RunGates(c, yes, left)
    BY <2>1, <1>7, <1>14
  <2>2. CASE \E left \in {"resolved", "worked", "other"}, yes \in BOOLEAN : WorkerReturns(c, left, yes)
    BY <2>2, <1>15
  <2>3. CASE \E readable, blocks \in BOOLEAN : EvaluateWorker(c, readable, blocks)
    BY <2>3, <1>16
  <2> QED BY <1>18, <2>1, <2>2, <2>3, <1>5, <1>8, <1>9, <1>10, <1>11, <1>12, <1>13 DEF Serve
<1>19. Good
  <2>1. CASE \E q \in {"direct"} \cup Promotions : ReserveInvocation(q)
    BY <2>1, <1>2
  <2>2. CASE \E c \in Requests : Serve(c) \/ CapacityRefused(c) \/ Stop(c)
    BY <2>2, <1>13, <1>18
  <2> QED BY <2>1, <2>2, <1>3, <1>4, <1>17 DEF IntegrationNext
<1> QED BY <1>19 DEF Good

\* A request that does not move keeps what its step needs.
LEMMA OthersFit ==
  ASSUME IntegrationInv, EvidenceStays, NEW c \in Requests, request'[c] = request[c],
         Stands(c, "work") => workerAnswers' = workerAnswers
  PROVE  RequestFits(c)'
<1>1. RequestFits(c)
  BY DEF IntegrationInv, RequestsFit
<1> QED BY <1>1 DEF RequestFits, EvidenceStays, Stands

\* What the request that moves holds next.
LEMMA MoverFits ==
  ASSUME IntegrationInv, EvidenceStays, InvocationFits', NEW c \in Requests,
         Serve(c) \/ CapacityRefused(c) \/ Stop(c)
  PROVE  RequestFits(c)'
<1>t. IntegrationTypeOK /\ request[c] \in RequestState /\ RequestFits(c) /\ InvocationFits
  BY Requested DEF IntegrationInv, RequestsFit
<1>g. \A step \in Steps, saw \in Sights : GoOn(c, step, saw) => request'[c].step = step /\ request'[c].saw = saw
  BY <1>t, Requested DEF GoOn
<1>a. ASSUME Answer(c) PROVE RequestFits(c)'
  BY <1>a, <1>t, Requested DEF RequestFits, Stands, Waiting
<1>k. ~Stands(c, "idle") => workspace[Worktree] \in Kept /\ inv.status # "absent"
  BY <1>t, WorktreeIsKept DEF RequestFits
<1>1. ASSUME Begin(c) PROVE RequestFits(c)'
  <2>1. inv' = inv /\ inv.status # "absent"
    BY <1>1, <1>t DEF Begin, Unmoved, InvocationFits, Early
  <2>2. \/ request'[c].step \in {"prepare", "resume"}
        \/ request'[c].step = "inspect" /\ inv.prep = "passed"
    BY <1>1, <1>g DEF Begin, Steps, Sights
  <2> QED BY <2>1, <2>2 DEF RequestFits, Stands
<1>2. ASSUME NEW step \in {"command", "expire", "resume", "evaluate", "fail", "gates"}, GoOn(c, step, "none"),
             ~Stands(c, "idle")
      PROVE  RequestFits(c)'
  BY <1>2, <1>g, <1>k DEF Steps, Sights, RequestFits, Stands, EvidenceStays
<1>3. ASSUME GoOn(c, "inspect", "none"), ~Stands(c, "idle"), inv'.prep = "passed" PROVE RequestFits(c)'
  BY <1>3, <1>g, <1>k DEF Steps, Sights, RequestFits, Stands, EvidenceStays
<1>4. ASSUME ClaimPreparation(c) PROVE RequestFits(c)'
  <2>1. ~Stands(c, "idle")
    BY <1>4 DEF ClaimPreparation, Stands
  <2>2. CASE inv.prep = "none" /\ inv.status = "reserved"
    BY <1>4, <2>1, <2>2, <1>2 DEF ClaimPreparation
  <2>3. CASE ~(inv.prep = "none" /\ inv.status = "reserved")
    <3>1. inv' = inv
      BY <1>4, <2>3 DEF ClaimPreparation
    <3>2. inv.status = "reserved" => inv.prep = "passed"
      BY <2>3, <1>t DEF InvocationFits, Early, IntegrationTypeOK
    <3> QED BY <1>4, <2>1, <2>3, <3>1, <3>2, <1>2, <1>3, <1>a DEF ClaimPreparation
  <2> QED BY <2>2, <2>3
<1>5. ASSUME NEW yes \in BOOLEAN, NEW left, Prepare(c, yes, left) PROVE RequestFits(c)'
  <2>1. CASE inv.prep = "none" /\ inv.status = "preparing" /\ yes
    <3>1. GoOn(c, "inspect", "none") /\ ~Stands(c, "idle") /\ inv' = [inv EXCEPT !.prep = "passed", !.status = "reserved"]
      BY <1>5, <2>1 DEF Prepare, Stands
    <3>2. inv'.prep = "passed"
      BY <3>1, <1>t DEF IntegrationTypeOK
    <3> QED BY <3>1, <3>2, <1>3
  <2>2. CASE ~(inv.prep = "none" /\ inv.status = "preparing" /\ yes)
    BY <1>5, <2>2, <1>a DEF Prepare
  <2> QED BY <2>1, <2>2
<1>6. ASSUME InspectStack(c) PROVE RequestFits(c)'
  <2>1. inv' = inv /\ ~Stands(c, "idle") /\ inv.prep = "passed"
    BY <1>6, <1>t DEF InspectStack, Unmoved, Stands, RequestFits
  <2>2. CASE GoOn(c, "record", IF workspace[Worktree] = "resolved" THEN "passed" ELSE "blocked")
    <3>1. request'[c].step = "record" /\ request'[c].saw \in {"passed", "blocked"}
      BY <2>2, <1>g DEF Steps, Sights
    <3> QED BY <2>1, <3>1, <1>k DEF RequestFits, Stands
  <2> QED BY <1>6, <2>1, <2>2, <1>2, <1>a DEF InspectStack
<1>7. ASSUME RecordPreflight(c) PROVE RequestFits(c)'
  <2>1. ~Stands(c, "idle")
    BY <1>7 DEF RecordPreflight, Stands
  <2>2. CASE inv.preflight = "none" /\ inv.status = "reserved" /\ request[c].saw = "passed"
    <3>1. /\ inv' = [inv EXCEPT !.preflight = "passed", !.status = "running"]
          /\ GoOn(c, "work", "none") /\ workerAnswers' = workerAnswers
      BY <1>7, <2>2 DEF RecordPreflight
    <3>2. inv'.preflight = "passed" /\ inv'.status # "absent"
      BY <3>1, <1>t DEF IntegrationTypeOK
    <3>3. request'[c].step = "work" /\ workerAnswers' = 0
      BY <2>2, <3>1, <1>g DEF Steps, Sights, IntegrationInv, RequestsFit
    <3> QED BY <3>2, <3>3 DEF RequestFits, Stands
  <2>3. CASE ~(inv.preflight = "none" /\ inv.status = "reserved" /\ request[c].saw = "passed")
    BY <1>7, <2>1, <2>3, <1>2, <1>a DEF RecordPreflight
  <2> QED BY <2>2, <2>3
<1>8. ASSUME Resume(c) PROVE RequestFits(c)'
  BY <1>8, <1>2, <1>a DEF Resume, Stands
<1>9. ASSUME NEW left, NEW yes \in BOOLEAN, WorkerReturns(c, left, yes) PROVE RequestFits(c)'
  BY <1>9, <1>2 DEF WorkerReturns, Stands
<1>10. ASSUME NEW readable \in BOOLEAN, NEW blocks \in BOOLEAN, EvaluateWorker(c, readable, blocks)
       PROVE  RequestFits(c)'
  <2>1. ~Stands(c, "idle")
    BY <1>10 DEF EvaluateWorker, Stands
  <2>2. CASE readable
    <3>1. request'[c].step = "complete" /\ request'[c].saw \in {"blocked", "resolved", "worked"}
      BY <1>10, <2>1, <2>2, <1>g, <1>k DEF EvaluateWorker, Steps, Sights, Kept
    <3> QED BY <2>1, <3>1, <1>k DEF RequestFits, Stands, EvidenceStays
  <2>3. CASE ~readable
    BY <1>10, <2>1, <2>3, <1>2 DEF EvaluateWorker
  <2> QED BY <2>2, <2>3
<1>11. ASSUME CompleteWorker(c) PROVE RequestFits(c)'
  BY <1>11, <1>2, <1>a DEF CompleteWorker, Stands
<1>12. ASSUME FailInvocation(c) \/ ExpirePreparation(c) \/ SettleGates(c) \/ CapacityRefused(c) \/ Stop(c)
       PROVE  RequestFits(c)'
  BY <1>12, <1>a DEF FailInvocation, ExpirePreparation, SettleGates, CapacityRefused, Stop
<1>13. ASSUME NEW yes \in BOOLEAN, NEW left, RunGates(c, yes, left) PROVE RequestFits(c)'
  <2>1. CASE inv.status = "awaiting_gates"
    <3>1. request'[c].step = "integrity" /\ request'[c].saw \in {"succeeded", "blocked"}
      BY <1>13, <2>1, <1>g DEF RunGates, Steps, Sights
    <3>2. inv' = inv /\ inv.outcome \in {"resolved", "worked"}
      BY <1>13, <2>1, <1>t DEF RunGates, Unmoved, InvocationFits
    <3> QED BY <2>1, <3>1, <3>2 DEF RequestFits, Stands
  <2>2. CASE inv.status # "awaiting_gates"
    BY <1>13, <2>2, <1>a DEF RunGates
  <2> QED BY <2>1, <2>2
<1>14. ASSUME CheckIntegrity(c) PROVE RequestFits(c)'
  <2>1. /\ inv' = inv /\ inv.status # "absent" /\ inv.outcome \in {"resolved", "worked"}
        /\ request[c].saw \in {"succeeded", "blocked"}
    BY <1>14, <1>k, <1>t DEF CheckIntegrity, Unmoved, Stands, RequestFits
  <2>2. workspace[Worktree] \in {"none", "resolved", "worked", "other"}
    BY <1>14, <1>k DEF CheckIntegrity, Stands, Kept
  <2>3. (IF workspace[Worktree] = inv.outcome THEN request[c].saw ELSE "blocked") \in Sights
    BY <2>1 DEF Sights
  <2>4. /\ request'[c].step = "settle"
        /\ request'[c].saw = IF workspace[Worktree] = inv.outcome THEN request[c].saw ELSE "blocked"
        /\ request'[c].seen = workspace[Worktree]
    BY <1>14, <1>t, <2>2, <2>3, Requested DEF CheckIntegrity, Steps
  <2> QED BY <2>1, <2>4 DEF RequestFits, Stands
<1> QED BY <1>1, <1>4, <1>5, <1>6, <1>7, <1>8, <1>9, <1>10, <1>11, <1>12, <1>13, <1>14 DEF Serve

\* To the call of the worker leads one step.
LEMMA WorkIsClaimed ==
  ASSUME IntegrationInv, NEW c \in Requests, Serve(c) \/ CapacityRefused(c) \/ Stop(c), Stands(c, "work")'
  PROVE  inv.preflight = "none"
<1>t. IntegrationTypeOK
  BY DEF IntegrationInv
<1>g. \A step \in Steps, saw \in Sights : GoOn(c, step, saw) => request'[c].step = step
  BY <1>t, Requested DEF GoOn
<1>n. \A step \in Steps \ {"work"}, saw \in Sights : ~GoOn(c, step, saw)
  BY <1>g DEF Stands
<1>a. ~Answer(c)
  BY <1>t, Requested DEF Stands, Waiting
<1>k. ~Stands(c, "idle") => workspace[Worktree] \in Kept
  BY WorktreeIsKept DEF IntegrationInv, RequestsFit, RequestFits
<1> USE <1>n, <1>a DEF Steps, Sights
<1>1. ~Begin(c) /\ ~ClaimPreparation(c) /\ ~ExpirePreparation(c) /\ ~InspectStack(c) /\ ~Resume(c)
  BY DEF Begin, ClaimPreparation, ExpirePreparation, InspectStack, Resume
<1>2. ~CompleteWorker(c) /\ ~FailInvocation(c) /\ ~SettleGates(c) /\ ~CapacityRefused(c) /\ ~Stop(c)
  BY DEF CompleteWorker, FailInvocation, SettleGates, CapacityRefused, Stop
<1>3. \A yes \in BOOLEAN : \A left : ~Prepare(c, yes, left) /\ ~RunGates(c, yes, left)
  BY DEF Prepare, RunGates
<1>4. \A left, yes : ~WorkerReturns(c, left, yes)
  BY DEF WorkerReturns
<1>5. \A readable, blocks \in BOOLEAN : ~EvaluateWorker(c, readable, blocks)
  BY <1>k DEF EvaluateWorker, Stands, Kept
<1>6. ~CheckIntegrity(c)
  <2>1. ASSUME CheckIntegrity(c) PROVE request'[c].step = "settle"
    BY <2>1, <1>t DEF CheckIntegrity, Moves, IntegrationTypeOK
  <2> QED BY <2>1 DEF Stands
<1>7. RecordPreflight(c) => inv.preflight = "none"
  BY DEF RecordPreflight
<1> QED BY <1>1, <1>2, <1>3, <1>4, <1>5, <1>6, <1>7 DEF Serve

\* A call is made by the one request that recorded the preflight.
LEMMA RequestsStep ==
  ASSUME IntegrationInv, IntegrationNext
  PROVE  /\ request' \in [Requests -> RequestState]
         /\ RequestsFit'
         /\ workerAnswers' \in Nat /\ WorkerRunsOnce'
<1>i. /\ RequestsFit /\ WorkerRunsOnce /\ workerAnswers \in Nat
      /\ request \in [Requests -> RequestState] /\ IntegrationTypeOK
  BY Requested DEF IntegrationInv, IntegrationTypeOK, RequestState, Steps, Sights
<1>e. EvidenceStays /\ InvocationFits' /\ inv' \in InvocationOf(Promotions)
  BY InvocationStep
<1>1. ASSUME UNCHANGED <<request, workerAnswers>>
      PROVE  RequestsFit' /\ WorkerRunsOnce'
  <2>1. \A c \in Requests : RequestFits(c)'
    BY <1>1, <1>e, OthersFit
  <2>2. inv'.preflight = "none" => inv.preflight = "none"
    BY <1>e DEF EvidenceStays
  <2> QED BY <1>1, <1>i, <2>1, <2>2 DEF RequestsFit, WorkerRunsOnce, Stands
<1>2. ASSUME NEW c \in Requests, Serve(c) \/ CapacityRefused(c) \/ Stop(c)
      PROVE  /\ request' \in [Requests -> RequestState]
             /\ RequestsFit' /\ workerAnswers' \in Nat /\ WorkerRunsOnce'
  <2>r. /\ request' \in [Requests -> RequestState]
        /\ \A d \in Requests : d # c => request'[d] = request[d]
    BY <1>2, RequestMoves
  <2>c. RequestFits(c)'
    BY <1>2, <1>e, MoverFits
  <2>1. CASE \E left \in {"resolved", "worked", "other"}, yes \in BOOLEAN : WorkerReturns(c, left, yes)
    <3>1. /\ Stands(c, "work") /\ workerAnswers' = workerAnswers + 1 /\ inv' = inv
          /\ request'[c].step \in {"evaluate", "fail"}
      BY <2>1, <1>i, Requested DEF WorkerReturns, GoOn, Steps, Sights
    <3>2. workerAnswers = 0 /\ inv.preflight = "passed"
      BY <3>1, <1>i DEF RequestsFit, RequestFits
    <3>3. \A d \in Requests : ~Stands(d, "work")'
      BY <3>1, <2>r, <1>i DEF RequestsFit, Stands
    <3>4. \A d \in Requests : d # c => RequestFits(d)'
      BY <3>1, <2>r, <1>i, <1>e, OthersFit DEF RequestsFit
    <3> QED BY <3>1, <3>2, <3>3, <3>4, <2>r, <2>c DEF RequestsFit, WorkerRunsOnce
  <2>2. CASE workerAnswers' = workerAnswers
    <3>1. \A d \in Requests : RequestFits(d)'
      BY <2>2, <2>c, <2>r, <1>e, OthersFit
    <3>2. inv'.preflight = "none" => workerAnswers' = 0
      BY <2>2, <1>e, <1>i DEF EvidenceStays, RequestsFit
    <3>3. Stands(c, "work")' => inv.preflight = "none"
      BY <1>2, WorkIsClaimed
    <3>4. \A d, e \in Requests : Stands(d, "work")' /\ Stands(e, "work")' => d = e
      <4>1. \A d \in Requests : Stands(d, "work") => inv.preflight # "none"
        BY <1>i DEF RequestsFit, RequestFits
      <4> QED BY <3>3, <4>1, <2>r, <1>i DEF RequestsFit, Stands
    <3> QED BY <3>1, <3>2, <3>4, <2>2, <2>r, <1>i DEF RequestsFit, WorkerRunsOnce
  <2> QED BY <1>2, <2>1, <2>2
          DEF Serve, CapacityRefused, Stop, Begin, ClaimPreparation, Prepare, ExpirePreparation, InspectStack,
              RecordPreflight, Resume, EvaluateWorker, CompleteWorker, FailInvocation, RunGates, CheckIntegrity,
              SettleGates, Unmoved
<1> QED BY <1>1, <1>2, <1>i
        DEF IntegrationNext, ReserveInvocation, DenyByPolicy, OutlivePhase, RecoverInvocationClaim,
            integrationVars

(***************************************************************************)
(* Theorems                                                                *)
(***************************************************************************)
LEMMA IntegrationStart == IntegrationInit => IntegrationInv
<1> SUFFICES ASSUME IntegrationInit PROVE IntegrationInv
  OBVIOUS
<1>1. ConflictInv
  BY ConflictStart DEF IntegrationInit
<1>2. IntegrationTypeOK
  <2>1. inv \in InvocationOf(Promotions) /\ request \in [Requests -> RequestState]
    BY DEF IntegrationInit, NoInvocation, InvocationOf, Waiting, RequestState, Steps, Sights
  <2>2. recoveries \in 0..MaxRecoveries /\ workerAnswers \in Nat
    BY IntegrationAssumption DEF IntegrationAssumption, IntegrationInit
  <2>3. policy \in Policies /\ invStale \in BOOLEAN /\ invClaim \in {"none", "active", "released", "ambiguous"}
    BY DEF IntegrationInit
  <2> QED BY <1>1, <2>1, <2>2, <2>3
          DEF IntegrationTypeOK, ConflictInv, InvocationOf, RequestState, Steps, Sights
<1>3. InvocationFits /\ RequestsFit /\ WorkerRunsOnce /\ InvocationHoldsClaim
  BY DEF IntegrationInit, InvocationFits, RequestsFit, RequestFits, WorkerRunsOnce, InvocationHoldsClaim,
         NoInvocation, Waiting, Stands, Early
<1> QED BY <1>1, <1>2, <1>3 DEF IntegrationInv

LEMMA IntegrationStep ==
  ASSUME IntegrationInv, [IntegrationNext]_allVars
  PROVE  IntegrationInv'
<1>1. CASE IntegrationNext
  <2>1. ConflictInv' /\ ConflictTypeOK'
    BY <1>1, ConflictStands DEF ConflictInv
  <2>2. policy' \in Policies /\ invStale' \in BOOLEAN /\ recoveries' \in 0..MaxRecoveries
    <3>1. policy \in Policies /\ invStale \in BOOLEAN /\ recoveries \in 0..MaxRecoveries
      BY DEF IntegrationInv, IntegrationTypeOK
    <3>2. policy' = policy /\ (invStale' = invStale \/ invStale' = TRUE \/ invStale' = FALSE)
      BY <1>1 DEF IntegrationNext, ReserveInvocation, DenyByPolicy, OutlivePhase, RecoverInvocationClaim,
            Serve, Begin, ClaimPreparation, Prepare, ExpirePreparation, InspectStack, RecordPreflight, Resume,
            WorkerReturns, EvaluateWorker, CompleteWorker, FailInvocation, RunGates, CheckIntegrity,
            SettleGates, CapacityRefused, Stop, Unmoved, integrationVars
    <3>3. recoveries' = recoveries \/ (recoveries < MaxRecoveries /\ recoveries' = recoveries + 1)
      BY <1>1 DEF IntegrationNext, ReserveInvocation, DenyByPolicy, OutlivePhase, RecoverInvocationClaim,
            Serve, Begin, ClaimPreparation, Prepare, ExpirePreparation, InspectStack, RecordPreflight, Resume,
            WorkerReturns, EvaluateWorker, CompleteWorker, FailInvocation, RunGates, CheckIntegrity,
            SettleGates, CapacityRefused, Stop, Unmoved, integrationVars
    <3>4. recoveries' \in 0..MaxRecoveries
      BY <3>1, <3>3, IntegrationAssumption DEF IntegrationAssumption
    <3> QED BY <3>1, <3>2, <3>4
  <2>3. IntegrationTypeOK'
    BY <1>1, <2>1, <2>2, InvocationStep, RequestsStep
       DEF IntegrationTypeOK, InvocationOf, RequestState, Steps, Sights
  <2> QED BY <1>1, <2>1, <2>3, InvocationStep, RequestsStep DEF IntegrationInv
<1>2. CASE UNCHANGED allVars
  <2>1. ConflictInv' /\ Candidates' = Candidates
    BY <1>2, ConflictStep DEF allVars, conflictVars, IntegrationInv, Candidates, Promoted
  <2>2. ConflictTypeOK'
    BY <2>1 DEF ConflictInv
  <2> QED BY <1>2, <2>1, <2>2
          DEF allVars, integrationVars, IntegrationInv, IntegrationTypeOK, InvocationFits, RequestsFit,
              RequestFits, WorkerRunsOnce, InvocationHoldsClaim, Stands
<1> QED BY <1>1, <1>2

LEMMA IntegrationInvariant == IntegrationSpec => []IntegrationInv
<1> QED BY IntegrationStart, IntegrationStep, PTL DEF IntegrationSpec

\* One model call per conflict and one worker call per integration, whoever executes, stops
\* and executes again; one assembly to integrate from; no late answer; capacity held exactly
\* while the worker runs.
THEOREM IntegrationSound == IntegrationSpec => []IntegrationIsSound
<1>1. IntegrationInv => IntegrationIsSound
  BY SoleCall, SoleCandidateHolds DEF IntegrationInv, ConflictInv, IntegrationIsSound
<1> QED BY <1>1, IntegrationInvariant, PTL

LEMMA ConflictPart ==
  ASSUME IntegrationInv, [IntegrationNext]_allVars
  PROVE  [ConflictBudget!Next]_ConflictCall
<1>1. CASE ConflictNext
  BY <1>1, ConflictCallStep DEF IntegrationInv
<1>2. CASE UNCHANGED agent
  BY <1>2 DEF ConflictCall
<1> QED BY <1>1, <1>2
        DEF IntegrationNext, ReserveInvocation, DenyByPolicy, OutlivePhase, RecoverInvocationClaim,
            Serve, Begin, ClaimPreparation, Prepare, ExpirePreparation, InspectStack, RecordPreflight, Resume,
            WorkerReturns, EvaluateWorker, CompleteWorker, FailInvocation, RunGates, CheckIntegrity,
            SettleGates, CapacityRefused, Stop, Leaves, conflictVars, allVars

LEMMA EvidencePart ==
  ASSUME IntegrationInv, [IntegrationNext]_allVars
  PROVE  /\ inv.status \in Settled => inv' = inv
         /\ \A e \in {"prep", "preflight", "outcome", "verdict"} : inv[e] # "none" => inv'[e] = inv[e]
<1>1. CASE IntegrationNext
  BY <1>1, InvocationStep DEF EvidenceStays
<1>2. CASE UNCHANGED allVars
  BY <1>2 DEF allVars, integrationVars
<1> QED BY <1>1, <1>2

LEMMA SuccessPart ==
  ASSUME IntegrationInv, [IntegrationNext]_allVars, inv.status # "succeeded", inv'.status = "succeeded"
  PROVE  /\ \E c \in Requests : Stands(c, "settle") /\ request[c].seen = inv.outcome
         /\ inv.prep = "passed" /\ inv.preflight = "passed" /\ inv.outcome \in {"resolved", "worked"}
         /\ invClaim = "released"
<1>t. inv \in InvocationOf(Promotions)
  BY DEF IntegrationInv, IntegrationTypeOK, InvocationOf
<1>1. \E c \in Requests : SettleGates(c)
  <2>1. IntegrationNext /\ inv' # inv
    BY DEF allVars, integrationVars
  <2>2. \A q : ~ReserveInvocation(q)
    BY DEF ReserveInvocation, NoInvocation
  <2>3. ~DenyByPolicy
    BY <1>t DEF DenyByPolicy, InvocationOf
  <2>4. ASSUME NEW c \in Requests PROVE ~ClaimPreparation(c) /\ ~ExpirePreparation(c)
    BY <1>t DEF ClaimPreparation, ExpirePreparation, InvocationOf
  <2>5. ASSUME NEW c \in Requests PROVE ~RecordPreflight(c)
    BY <1>t DEF RecordPreflight, InvocationOf
  <2>6. ASSUME NEW c \in Requests PROVE ~CompleteWorker(c) /\ ~FailInvocation(c)
    BY <1>t DEF CompleteWorker, FailInvocation, InvocationOf
  <2>7. ASSUME NEW c \in Requests, NEW yes, NEW left PROVE ~Prepare(c, yes, left)
    BY <1>t DEF Prepare, InvocationOf
  <2> QED BY <2>1, <2>2, <2>3, <2>4, <2>5, <2>6, <2>7
          DEF IntegrationNext, Serve, OutlivePhase, RecoverInvocationClaim, Begin, InspectStack, Resume,
              WorkerReturns, EvaluateWorker, RunGates, CheckIntegrity, CapacityRefused, Stop, Unmoved,
              integrationVars
<1>2. PICK c \in Requests : SettleGates(c)
  BY <1>1
<1>3. inv.status = "awaiting_gates" /\ request[c].saw = "succeeded"
  BY <1>2, <1>t DEF SettleGates, InvocationOf
<1>4. Stands(c, "settle") /\ request[c].seen = inv.outcome
  BY <1>2, <1>3 DEF SettleGates, IntegrationInv, RequestsFit, RequestFits
<1>5. /\ inv.prep = "passed" /\ inv.preflight = "passed" /\ inv.outcome \in {"resolved", "worked"}
      /\ invClaim = "released"
  BY <1>3 DEF IntegrationInv, InvocationFits, InvocationHoldsClaim
<1> QED BY <1>4, <1>5

\* The conflict agent implements a budget of one call, the evidence of an invocation is never
\* replaced, and a success was verified after the last gate.
THEOREM IntegrationStandsHolds == IntegrationSpec => IntegrationStands
<1>1. IntegrationInit => ConflictBudget!Init
  BY ConflictCallStart DEF IntegrationInit
<1>2. ConflictCallIsOneUse <=> ConflictBudget!Init /\ [][ConflictBudget!Next]_ConflictCall
  BY DEF ConflictCallIsOneUse, ConflictBudget!Spec
<1>3. IntegrationSpec => ConflictCallIsOneUse
  BY <1>1, <1>2, ConflictPart, IntegrationInvariant, PTL DEF IntegrationSpec
<1>4. IntegrationSpec => EvidenceIsImmutable
  BY EvidencePart, IntegrationInvariant, PTL DEF IntegrationSpec, EvidenceIsImmutable
<1>5. IntegrationSpec => SuccessIsVerified
  BY SuccessPart, IntegrationInvariant, PTL DEF IntegrationSpec, SuccessIsVerified
<1> QED BY <1>3, <1>4, <1>5 DEF IntegrationStands
================================================================================
