-------------------------- MODULE MultiWorkerBudget --------------------------
(***************************************************************************)
(* The plan-scoped budget ledger and the scheduler that reserves worker    *)
(* attempts against it.  A store transaction is one step.  A scheduler     *)
(* pass is several: it reads the attempts, then reserves task after task   *)
(* with what it read, while schedulers in other processes and the workers  *)
(* move on.  The workers are whoever holds an attempt; the capacity claim  *)
(* of an attempt is taken and released in its own transactions and may be  *)
(* recovered as ambiguous by an operator.                                  *)
(***************************************************************************)
EXTENDS WorkPlan

CONSTANTS
  Schedulers,      \* processes that run a scheduler pass
  BudgetPolicies,        \* snapshots: [maxWorkerAttempts, maxConcurrentWorkers, calls]
  MaxRetries,      \* policy.maxPreDispatchRetriesPerTask
  Scheduled        \* the recorded plans whose scheduling an instance follows

ASSUME BudgetAssumption ==
  /\ MaxRetries \in Nat
  /\ Scheduled \subseteq Proposals
  /\ \A p \in BudgetPolicies : {p.maxWorkerAttempts, p.maxConcurrentWorkers, p.calls} \subseteq Nat

VARIABLES
  budgetPolicy,    \* the immutable snapshot the plan was admitted with
  budget,          \* "none", "disabled" by policy, "open", "expired"
  attempt,         \* attempt[t][n]: status of the n-th attempt of task t
  workerClaim,     \* workerClaim[t][n]: its organization capacity claim
  pass,            \* pass[s]: what scheduler s works from
  granted,         \* granted[t][n]: times it was handed out as newly reserved
  reported         \* the final plan statuses some pass has returned

budgetVars == <<plan, budgetPolicy, budget, attempt, workerClaim, pass, granted, reported>>

Numbers == 1..(MaxRetries + 1)

Active    == {"preparing", "running"}
Called    == {"running", "succeeded", "blocked", "failed_after_dispatch"}
DeadEnds  == {"blocked", "blocked_pre_dispatch", "failed_after_dispatch"}
Statuses  == {"none", "failed_pre_dispatch"} \cup Active \cup Called \cup DeadEnds

Having(a, S)   == {k \in Tasks \X Numbers : a[k[1]][k[2]] \in S}
Recorded(a, t) == Cardinality({n \in Numbers : a[t][n] # "none"})
Latest(a, t)   == IF Recorded(a, t) = 0 THEN "none" ELSE a[t][Recorded(a, t)]

AtRest == [view |-> [t \in Tasks |-> [n \in Numbers |-> "none"]], next |-> 0, blocks |-> {}]

\* A pass initializes the budget, once, unless the policy snapshot disables it.
BeginPass(s) ==
  /\ plan \in Scheduled /\ pass[s].next = 0
  /\ IF budget = "disabled"
       THEN reported' = reported \cup {"blocked"} /\ UNCHANGED <<budget, pass>>
       ELSE /\ budget' = IF budget = "none" THEN "open" ELSE budget
            /\ pass' = [pass EXCEPT ![s] = [view |-> attempt, next |-> 1, blocks |-> {}]]
            /\ UNCHANGED reported
  /\ UNCHANGED <<plan, budgetPolicy, attempt, workerClaim, granted>>

\* The tasks a pass tries to reserve: never started or retryable, all of it ready.
Wants(view, t) ==
  /\ Latest(view, t) \in {"none", "failed_pre_dispatch"}
  /\ \A d \in plan.dependsOn[t] : Latest(view, d) = "succeeded"

\* Where the pass goes on: the next task it wants, if a worker slot is free.
Upcoming(p) ==
  IF Cardinality(Having(p.view, Active)) >= budgetPolicy.maxConcurrentWorkers THEN {}
  ELSE {i \in p.next..Len(TaskOrder) : Wants(p.view, TaskOrder[i])}

\* The refusals of reserveAttemptClaim, in their order.
Refusal(t, n) ==
  IF budget = "expired" THEN "deadline"
  ELSE IF Cardinality(Having(attempt, Statuses \ {"none"})) >= budgetPolicy.maxWorkerAttempts THEN "attempts"
  ELSE IF Cardinality(Having(attempt, Active)) >= budgetPolicy.maxConcurrentWorkers THEN "concurrency"
  ELSE IF n > MaxRetries + 1 THEN "retries"
  ELSE IF Latest(attempt, t) \notin {"none", "failed_pre_dispatch"} THEN "outcome"
  ELSE "none"

\* Fault: a replayed reservation is taken for a new one.
ReserveReplayedAsNew(s, i, t, n) ==
  IF n \in Numbers /\ attempt[t][n] # "none"
  THEN /\ pass' = [pass EXCEPT ![s].view = attempt, ![s].next = i + 1]
       /\ granted' = [granted EXCEPT ![t][n] = @ + 1]
       /\ UNCHANGED attempt
  ELSE IF Refusal(t, n) # "none"
  THEN /\ pass' = [pass EXCEPT ![s] = [view |-> attempt, next |-> Len(TaskOrder) + 1,
                    blocks |-> IF Refusal(t, n) = "concurrency" THEN {} ELSE {t}]]
       /\ UNCHANGED <<attempt, granted>>
  ELSE /\ attempt' = [attempt EXCEPT ![t][n] = "preparing"]
       /\ granted' = [granted EXCEPT ![t][n] = @ + 1]
       /\ pass' = [pass EXCEPT ![s].view = attempt', ![s].next = i + 1]

\* The key of a reservation is derived from plan, task and number: a second
\* scheduler gets the first one's attempt, and does not get to run it.
ReserveAttempt(s, i, t, n) ==
  IF n \in Numbers /\ attempt[t][n] # "none"
  THEN /\ pass' = [pass EXCEPT ![s].view = attempt, ![s].next = i + 1]
       /\ UNCHANGED <<attempt, granted>>
  ELSE IF Refusal(t, n) # "none"
  THEN /\ pass' = [pass EXCEPT ![s] = [view |-> attempt, next |-> Len(TaskOrder) + 1,
                    blocks |-> IF Refusal(t, n) = "concurrency" THEN {} ELSE {t}]]
       /\ UNCHANGED <<attempt, granted>>
  ELSE /\ attempt' = [attempt EXCEPT ![t][n] = "preparing"]
       /\ granted' = [granted EXCEPT ![t][n] = @ + 1]
       /\ pass' = [pass EXCEPT ![s].view = attempt', ![s].next = i + 1]

ReserveNext(s) ==
  /\ pass[s].next # 0
  /\ \E i \in Upcoming(pass[s]) :
       /\ \A j \in Upcoming(pass[s]) : i <= j
       /\ ReserveAttempt(s, i, TaskOrder[i], Recorded(pass[s].view, TaskOrder[i]) + 1)
  /\ UNCHANGED <<plan, budgetPolicy, budget, workerClaim, reported>>

\* The projection a pass returns, from the attempts it read last.
Stopped(p) == {t \in Tasks : Latest(p.view, t) \in DeadEnds} \cup p.blocks
Blocked(p) == Stopped(p) \cup {t \in Tasks : Ancestors(plan.dependsOn)[t] \cap Stopped(p) # {}}

PlanStatus(p) ==
  IF \A t \in Tasks : Latest(p.view, t) = "succeeded" /\ t \notin Blocked(p) THEN "complete"
  ELSE IF Blocked(p) # {} /\ \A t \in Tasks \ Blocked(p) : Latest(p.view, t) \notin Active
    THEN "blocked"
  ELSE "waiting"

EndPass(s) ==
  /\ pass[s].next # 0 /\ Upcoming(pass[s]) = {}
  /\ reported' = reported \cup ({PlanStatus(pass[s])} \ {"waiting"})
  /\ pass' = [pass EXCEPT ![s] = AtRest]
  /\ UNCHANGED <<plan, budgetPolicy, budget, attempt, workerClaim, granted>>

\* The sole model call of an attempt; a refused capacity claim changes nothing.
ClaimDispatch(t, n) ==
  /\ attempt[t][n] = "preparing" /\ budget # "expired"
  /\ IF Cardinality(Having(attempt, Called)) >= budgetPolicy.calls
       THEN attempt' = [attempt EXCEPT ![t][n] = "blocked_pre_dispatch"] /\ UNCHANGED workerClaim
       ELSE /\ attempt' = [attempt EXCEPT ![t][n] = "running"]
            /\ workerClaim' = [workerClaim EXCEPT ![t][n] = "active"]
  /\ UNCHANGED <<plan, budgetPolicy, budget, pass, granted, reported>>

SettlePreDispatchFailure(t, n) ==
  /\ attempt[t][n] = "preparing"
  /\ attempt' = [attempt EXCEPT ![t][n] = "failed_pre_dispatch"]
  /\ UNCHANGED <<plan, budgetPolicy, budget, workerClaim, pass, granted, reported>>

\* Fault: a failed call is recorded as a failed preparation.
SettleAsRetryable(t, n, status) ==
  /\ attempt[t][n] = "running" /\ workerClaim[t][n] = "active"
  /\ attempt' = [attempt EXCEPT ![t][n] =
       IF status = "failed_after_dispatch" THEN "failed_pre_dispatch" ELSE status]
  /\ workerClaim' = [workerClaim EXCEPT ![t][n] = "released"]
  /\ UNCHANGED <<plan, budgetPolicy, budget, pass, granted, reported>>

\* Settling releases the claim in the same transaction: an ambiguous claim cannot be
\* released, and the settlement is rolled back with it.
SettleAfterDispatch(t, n, status) ==
  /\ attempt[t][n] = "running" /\ workerClaim[t][n] = "active"
  /\ attempt' = [attempt EXCEPT ![t][n] = status]
  /\ workerClaim' = [workerClaim EXCEPT ![t][n] = "released"]
  /\ UNCHANGED <<plan, budgetPolicy, budget, pass, granted, reported>>

\* An operator recovers a claim that has outlived its lease.
RecoverWorkerClaim(t, n) ==
  /\ workerClaim[t][n] = "active"
  /\ workerClaim' = [workerClaim EXCEPT ![t][n] = "ambiguous"]
  /\ UNCHANGED <<plan, budgetPolicy, budget, attempt, pass, granted, reported>>

\* The runtime of the budget is over.
Expire ==
  /\ budget = "open" /\ budget' = "expired"
  /\ UNCHANGED <<plan, budgetPolicy, attempt, workerClaim, pass, granted, reported>>

Admit == PlanNext /\ UNCHANGED <<budgetPolicy, budget, attempt, workerClaim, pass, granted, reported>>

\* A scheduler or a worker process stops; what it held in memory is gone.
LosePass(s) ==
  /\ pass[s].next # 0 /\ pass' = [pass EXCEPT ![s] = AtRest]
  /\ UNCHANGED <<plan, budgetPolicy, budget, attempt, workerClaim, granted, reported>>

BudgetInit ==
  /\ PlanInit /\ budgetPolicy \in BudgetPolicies
  /\ budget \in {"none", "disabled"}
  /\ attempt = [t \in Tasks |-> [n \in Numbers |-> "none"]]
  /\ workerClaim = [t \in Tasks |-> [n \in Numbers |-> "none"]]
  /\ pass = [s \in Schedulers |-> AtRest]
  /\ granted = [t \in Tasks |-> [n \in Numbers |-> 0]]
  /\ reported = {}

BudgetNext ==
  \/ Admit \/ Expire
  \/ \E s \in Schedulers : BeginPass(s) \/ ReserveNext(s) \/ EndPass(s) \/ LosePass(s)
  \/ \E t \in Tasks, n \in Numbers :
       \/ ClaimDispatch(t, n) \/ SettlePreDispatchFailure(t, n) \/ RecoverWorkerClaim(t, n)
       \/ \E status \in {"succeeded", "blocked", "failed_after_dispatch"} :
            SettleAfterDispatch(t, n, status)

BudgetSpec == BudgetInit /\ [][BudgetNext]_budgetVars
-----------------------------------------------------------------------------
BudgetTypeOK ==
  /\ plan = NoPlan \/ DOMAIN plan.dependsOn = Tasks
  /\ budget \in {"none", "disabled", "open", "expired"}
  /\ attempt \in [Tasks -> [Numbers -> Statuses]]
  /\ workerClaim \in [Tasks -> [Numbers -> {"none", "active", "released", "ambiguous"}]]
  /\ granted \in [Tasks -> [Numbers -> Nat]]
  /\ \A s \in Schedulers : /\ pass[s].view \in [Tasks -> [Numbers -> Statuses]]
                           /\ pass[s].next \in 0..(Len(TaskOrder) + 1)
                           /\ pass[s].blocks \subseteq Tasks
  /\ reported \subseteq {"blocked", "complete"}

(* The policy snapshot bounds the plan whatever schedulers and workers      *)
(* interleave: attempts, concurrent workers and model calls.                *)
BudgetHolds ==
  /\ Cardinality(Having(attempt, Statuses \ {"none"})) <= budgetPolicy.maxWorkerAttempts
  /\ Cardinality(Having(attempt, Active)) <= budgetPolicy.maxConcurrentWorkers
  /\ Cardinality(Having(attempt, Called)) <= budgetPolicy.calls

(* A worker runs only on finished ground: no attempt of a task exists       *)
(* before everything the task waits for, directly or not, has succeeded.    *)
AttemptsFollowDependencies ==
  \A t \in Tasks : Recorded(attempt, t) > 0 =>
    \A d \in Ancestors(plan.dependsOn)[t] : Latest(attempt, d) = "succeeded"

(* Only a preparation that failed before any model call is tried again, and *)
(* a task never has two attempts under way.                                 *)
OnlyFreeFailuresRetry ==
  \A t \in Tasks, n \in Numbers :
    n < Recorded(attempt, t) => attempt[t][n] = "failed_pre_dispatch" /\ workerClaim[t][n] = "none"

(* Of all the schedulers that ask for an attempt one is told that it is     *)
(* new: the others cannot take it for fresh workspace authority.            *)
WorkspaceGrantedOnce == \A t \in Tasks, n \in Numbers : granted[t][n] <= 1

(* A slot of the organization is held exactly while an attempt runs, unless *)
(* an operator gave it up.                                                  *)
ClaimFollowsAttempt ==
  \A t \in Tasks, n \in Numbers :
    /\ attempt[t][n] = "running" => workerClaim[t][n] \in {"active", "ambiguous"}
    /\ attempt[t][n] # "running" => workerClaim[t][n] \in {"none", "released"}

(* What a pass says of a plan as a whole is final: a plan reported blocked  *)
(* never completes, and a completed one is never reported blocked.          *)
VerdictIsFinal == ~({"blocked", "complete"} \subseteq reported)

AttemptIds == Tasks \X Numbers

Call == [k \in AttemptIds |->
  LET status == attempt[k[1]][k[2]] IN
  CASE status \in {"none", "preparing"} -> "open"
    [] status = "running" -> "made"
    [] status \in Called \ {"running"} -> "settled"
    [] OTHER -> "withdrawn"]

\* The budget implements the one-use calls of its plan; their number is BudgetHolds.
OneUse == INSTANCE OneUseCalls WITH Calls <- AttemptIds, Limit <- Cardinality(AttemptIds), call <- Call
CallsAreOneUse == OneUse!Spec

\* A plan is carried out in the order of its dependencies and within its budget,
\* whatever schedulers, workers, stops and recoveries interleave.
SchedulingIsSound ==
  /\ BudgetTypeOK
  /\ LayersFollowDependencies
  /\ BudgetHolds
  /\ AttemptsFollowDependencies
  /\ OnlyFreeFailuresRetry
  /\ WorkspaceGrantedOnce
  /\ ClaimFollowsAttempt
  /\ VerdictIsFinal
=============================================================================
