------------------------------ MODULE ChangeSet ------------------------------
(***************************************************************************)
(* A change set over several repositories until its members are scheduled: *)
(* admission (one blocked ledger run per repository, then one transaction  *)
(* that binds them), coordinated authorization and the dependency          *)
(* schedule.  Admission is not one transaction: a process may stop, or     *)
(* another one act on a run, before the runs are bound.                    *)
(***************************************************************************)
EXTENDS Naturals, FiniteSets

CONSTANTS
  Repos,           \* the repositories of the plan
  Plans,           \* dependency graphs of the plan: functions Repos -> SUBSET Repos
  Admitters,       \* processes that admit the plan, each with its own key
  Policies,        \* repository contracts
  Coordinating,    \* those that enroll the repository and list all the others
  Executing,       \* those that allow local execution
  Reviewing,       \* those that require an adversarial review
  Outcomes,        \* how an attempt may end
  MaxDeploys,      \* bound: deployments of a changed repository policy
  MaxCrashes       \* bound: processes that stop half-way

ASSUME ChangeSetAssumption ==
  /\ IsFiniteSet(Repos)
  /\ Coordinating \subseteq Policies /\ Executing \subseteq Policies /\ Reviewing \subseteq Policies
  /\ "none" \notin Policies
  /\ Plans \subseteq [Repos -> SUBSET Repos]
  /\ Outcomes \subseteq {"succeeded", "blocked", "failed"}
  /\ MaxDeploys \in Nat /\ MaxCrashes \in Nat

VARIABLES
  policy,          \* the repository contracts of the running deployment
  needs,           \* the plan's dependencies
  run,             \* run[r]: the member's ledger run [status, attempt, review, reviewable]
  admitter,        \* admitter[k]: [step, seen]; seen[r] is the run it was answered
  parent,          \* who bound the members, or "none"
  authorized,      \* the coordinated authorization exists
  schedule,        \* schedule[r]: the policy snapshot it was scheduled with, or "none"
  deploys, crashes

changeSetVars == <<policy, needs, run, admitter, parent, authorized, schedule, deploys, crashes>>

NoRun    == [status |-> "none", attempt |-> "none", review |-> "none", reviewable |-> FALSE]
Unasked  == [step |-> "idle", seen |-> [r \in Repos |-> "none"]]
Linked   == parent # "none"
Scheduled == \A r \in Repos : schedule[r] # "none"

\* A run no attempt, review or artifact has touched.
Pristine(r) == run[r].status = "blocked" /\ run[r].attempt = "none" /\ run[r].review = "none"

\* Every repository is enrolled and every pair lists the other.
CoordinationAllowed == \A r \in Repos : policy[r] \in Coordinating
MayExecute(r)       == policy[r] \in Executing

ChangeSetInit ==
  /\ policy \in [Repos -> Coordinating \cap Executing]
  /\ needs \in Plans
  /\ run = [r \in Repos |-> NoRun]
  /\ admitter = [k \in Admitters |-> Unasked]
  /\ parent = "none" /\ authorized = FALSE
  /\ schedule = [r \in Repos |-> "none"]
  /\ deploys = 0 /\ crashes = 0

Deploy(r, p) ==
  /\ deploys < MaxDeploys /\ p # policy[r]
  /\ deploys' = deploys + 1 /\ policy' = [policy EXCEPT ![r] = p]
  /\ UNCHANGED <<needs, run, admitter, parent, authorized, schedule, crashes>>

StartAdmission(k) ==
  /\ admitter[k].step = "idle" /\ parent = "none" /\ CoordinationAllowed
  /\ admitter' = [admitter EXCEPT ![k].step = "admitting"]
  /\ UNCHANGED <<policy, needs, run, parent, authorized, schedule, deploys, crashes>>

\* The ledger answers the run of an earlier admission of the same plan when there is one.
AdmitMember(k, r) ==
  /\ admitter[k].step = "admitting" /\ admitter[k].seen[r] = "none"
  /\ run' = IF run[r] # NoRun THEN run
            ELSE [run EXCEPT ![r] = [NoRun EXCEPT !.status = "blocked", !.reviewable = (policy[r] \in Reviewing)]]
  /\ admitter' = [admitter EXCEPT ![k].seen[r] = IF Pristine(r)' THEN "pristine" ELSE "touched"]
  /\ UNCHANGED <<policy, needs, parent, authorized, schedule, deploys, crashes>>

\* The runs are judged as they were answered, not as they are now.
BindMembers(k) ==
  /\ admitter[k].step = "admitting" /\ \A r \in Repos : admitter[k].seen[r] # "none"
  /\ admitter' = [admitter EXCEPT ![k] = Unasked]
  /\ parent' = IF parent = "none" /\ \A r \in Repos : admitter[k].seen[r] = "pristine" THEN k ELSE parent
  /\ UNCHANGED <<policy, needs, run, authorized, schedule, deploys, crashes>>

StopAdmission(k) ==
  /\ admitter[k].step # "idle" /\ crashes < MaxCrashes
  /\ crashes' = crashes + 1 /\ admitter' = [admitter EXCEPT ![k] = Unasked]
  /\ UNCHANGED <<policy, needs, run, parent, authorized, schedule, deploys>>

\* An operator overrides or cancels a blocked run; members are refused.
Unblock(r, s) ==
  /\ run[r].status = "blocked" /\ ~Linked
  /\ run' = [run EXCEPT ![r].status = s]
  /\ UNCHANGED <<policy, needs, admitter, parent, authorized, schedule, deploys, crashes>>

\* An overridden run executes on its own; the ledger does not ask here.
ExecuteAlone(r) ==
  /\ run[r].status = "pending"
  /\ run' = [run EXCEPT ![r].status = "active", ![r].attempt = "running"]
  /\ UNCHANGED <<policy, needs, admitter, parent, authorized, schedule, deploys, crashes>>

CompleteAttempt(r, o) ==
  /\ run[r].attempt = "running"
  /\ run' = [run EXCEPT ![r].attempt = o, ![r].status = o]

Authorize ==
  /\ Linked /\ ~authorized /\ CoordinationAllowed
  /\ \A r \in Repos : Pristine(r)
  /\ authorized' = TRUE
  /\ UNCHANGED <<policy, needs, run, admitter, parent, schedule, deploys, crashes>>

\* The current contract of every repository is snapshotted.
ScheduleMembers ==
  /\ authorized /\ ~Scheduled /\ CoordinationAllowed
  /\ \A r \in Repos : MayExecute(r) /\ Pristine(r)
  /\ schedule' = policy
  /\ UNCHANGED <<policy, needs, run, admitter, parent, authorized, deploys, crashes>>

\* One review per attempt, allowed by the contract the run was admitted with.
Review(r, verdict) ==
  /\ run[r].status = "succeeded" /\ run[r].attempt = "succeeded"
  /\ run[r].reviewable /\ run[r].review = "none"
  /\ run' = [run EXCEPT ![r].review = verdict]
  /\ UNCHANGED <<policy, needs, admitter, parent, authorized, schedule, deploys, crashes>>

ChangeSetNext ==
  \/ \E k \in Admitters : StartAdmission(k) \/ BindMembers(k) \/ StopAdmission(k)
  \/ \E k \in Admitters, r \in Repos : AdmitMember(k, r)
  \/ \E r \in Repos, p \in Policies : Deploy(r, p)
  \/ \E r \in Repos, s \in {"pending", "cancelled"} : Unblock(r, s)
  \/ \E r \in Repos : ExecuteAlone(r)
  \/ \E r \in Repos, verdict \in {"approved", "declined"} : Review(r, verdict)
  \/ Authorize \/ ScheduleMembers

ChangeSetTypeOK ==
  /\ policy \in [Repos -> Policies] /\ needs \in Plans
  /\ run \in [Repos -> [status : {"none", "blocked", "pending", "cancelled", "active", "succeeded", "failed"},
                        attempt : {"none", "running"} \cup Outcomes,
                        review : {"none", "approved", "declined"}, reviewable : BOOLEAN]]
  /\ admitter \in [Admitters -> [step : {"idle", "admitting"},
                                 seen : [Repos -> {"none", "pristine", "touched"}]]]
  /\ parent \in Admitters \cup {"none"} /\ authorized \in BOOLEAN
  /\ schedule \in [Repos -> Policies \cup {"none"}]
  /\ deploys \in 0..MaxDeploys /\ crashes \in 0..MaxCrashes
=============================================================================
