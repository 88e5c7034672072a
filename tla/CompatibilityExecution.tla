------------------------ MODULE CompatibilityExecution ------------------------
(***************************************************************************)
(* From completed members to the publication barrier: the verification     *)
(* plan, the authorization of its compatibility gates, the one-use gate    *)
(* execution over the members' worktrees and the linked-publication        *)
(* authorization.  The worktrees are plain directories: anyone may write   *)
(* to one, or put it back, between two inspections.                        *)
(***************************************************************************)
EXTENDS Naturals, Sequences

CONSTANTS
  Members,         \* scheduled repositories
  Schedules,       \* schedules [reviewed, checks]: who needs a review, and the ordered
                   \* compatibility checks, each the pair of repositories it is about
  Runners,         \* processes that run the compatibility service
  MaxDeploys,      \* bound: deployments that change consent or a gate
  MaxTampers,      \* bound: times a checkout is changed
  MaxRestores,     \* bound: times it is put back
  MaxCrashes       \* bound: runner processes that stop half-way

ASSUME CompatibilityAssumption ==
  /\ Schedules \subseteq [reviewed : SUBSET Members, checks : Seq(SUBSET Members) \ {<<>>}]
  /\ MaxDeploys \in Nat /\ MaxTampers \in Nat /\ MaxRestores \in Nat /\ MaxCrashes \in Nat

VARIABLES
  schedule,        \* the change set's schedule
  record,        \* record[r]: what the member's ledger run holds
  contract,        \* "scheduled", "regated" (other gates since) or "withdrawn" (no consent)
  plan,            \* plan[r]: the record the verification plan bound, or "none"
  authorized,      \* the gates are authorized
  execution,       \* [status, commands, violation, gates]
  barrier,         \* the linked publication is authorized
  checkout,        \* checkout[r]: "patch" (as verified) or "changed"
  runner,          \* runner[p]: [step, index, results, saw]
  started,         \* started[i]: processes created for gate i
  noticed,         \* an inspection after a gate found a checkout changed
  deploys, tampers, restores, crashes

compatibilityVars == <<schedule, record, contract, plan, authorized, execution, barrier, checkout, runner,
          started, noticed, deploys, tampers, restores, crashes>>

Checks    == schedule.checks
Manifest  == UNION {Checks[i] : i \in DOMAIN Checks}
Terminal  == {"succeeded", "blocked", "failed"}
Results   == {"passed", "blocked", "error"}
Waiting   == [step |-> "idle", results |-> <<>>, saw |-> TRUE]
NotReserved == [status |-> "none", commands |-> 0, violation |-> FALSE, gates |-> <<>>]

Planned   == \A r \in Members : plan[r] # "none"
Authentic == \A r \in Manifest : checkout[r] = "patch"
At(p, step) == runner[p].step = step
Move(p, step) == runner' = [runner EXCEPT ![p].step = step]
AllPassed(gates) == Len(gates) = Len(Checks) /\ \A i \in DOMAIN gates : gates[i] = "passed"

CompatibilityInit ==
  /\ schedule \in Schedules
  /\ record = [r \in Members |-> "none"] /\ plan = [r \in Members |-> "none"]
  /\ contract = "scheduled" /\ authorized = FALSE /\ barrier = FALSE
  /\ execution = NotReserved
  /\ checkout = [r \in Members |-> "patch"]
  /\ runner = [p \in Runners |-> Waiting]
  /\ started = [i \in DOMAIN schedule.checks |-> 0]
  /\ noticed = FALSE
  /\ deploys = 0 /\ tampers = 0 /\ restores = 0 /\ crashes = 0

\* The member's implementation ends, with or without a change, and may be reviewed.
Advance(r, e) ==
  /\ <<record[r], e>> \in {<<"none", "unchanged">>, <<"none", "draft">>, <<"draft", "approved">>}
  /\ record' = [record EXCEPT ![r] = e]
  /\ UNCHANGED <<schedule, contract, plan, authorized, execution, barrier, checkout, runner, started, noticed,
                 deploys, tampers, restores, crashes>>

Deploy(c) ==
  /\ deploys < MaxDeploys /\ c # contract
  /\ contract' = c /\ deploys' = deploys + 1
  /\ UNCHANGED <<schedule, record, plan, authorized, execution, barrier, checkout, runner, started, noticed,
                 tampers, restores, crashes>>

Tamper(r) ==
  /\ checkout[r] = "patch" /\ tampers < MaxTampers
  /\ checkout' = [checkout EXCEPT ![r] = "changed"] /\ tampers' = tampers + 1
  /\ UNCHANGED <<schedule, record, contract, plan, authorized, execution, barrier, runner, started, noticed,
                 deploys, restores, crashes>>

Restore(r) ==
  /\ checkout[r] = "changed" /\ restores < MaxRestores
  /\ checkout' = [checkout EXCEPT ![r] = "patch"] /\ restores' = restores + 1
  /\ UNCHANGED <<schedule, record, contract, plan, authorized, execution, barrier, runner, started, noticed,
                 deploys, tampers, crashes>>

\* What the plan binds of a completed member: a draft is approved only where the schedule asks for it.
Bound(r) == IF r \in schedule.reviewed \/ record[r] = "unchanged" THEN record[r] ELSE "draft"
Completed(r) == record[r] \in {"unchanged", "draft", "approved"}
                /\ (r \in schedule.reviewed => record[r] # "draft")

AdmitPlan ==
  /\ ~Planned /\ \A r \in Members : Completed(r)
  /\ plan' = [r \in Members |-> Bound(r)]
  /\ UNCHANGED <<schedule, record, contract, authorized, execution, barrier, checkout, runner, started, noticed,
                 deploys, tampers, restores, crashes>>

AuthorizeGates ==
  /\ Planned /\ ~authorized /\ contract = "scheduled"
  /\ authorized' = TRUE
  /\ UNCHANGED <<schedule, record, contract, plan, execution, barrier, checkout, runner, started, noticed,
                 deploys, tampers, restores, crashes>>

ReserveExecution ==
  /\ authorized /\ execution.status = "none"
  /\ execution' = [execution EXCEPT !.status = "reserved"]
  /\ UNCHANGED <<schedule, record, contract, plan, authorized, barrier, checkout, runner, started, noticed,
                 deploys, tampers, restores, crashes>>

\* The service compares every checkout with the bound patch; what it cannot
\* authenticate is an error, unless an earlier preflight was recorded.
Prepare(p) ==
  /\ At(p, "idle") /\ execution.status \in {"reserved", "prepared"}
  /\ \/ Authentic /\ Move(p, "record")
     \/ ~Authentic /\ execution.status = "prepared" /\ Move(p, "claim")
  /\ UNCHANGED <<schedule, record, contract, plan, authorized, execution, barrier, checkout, started, noticed,
                 deploys, tampers, restores, crashes>>

\* The same manifest may be recorded twice.
RecordPreflight(p) ==
  /\ At(p, "record") /\ Move(p, "claim")
  /\ execution' = [execution EXCEPT !.status = IF @ = "reserved" THEN "prepared" ELSE @]
  /\ UNCHANGED <<schedule, record, contract, plan, authorized, barrier, checkout, started, noticed,
                 deploys, tampers, restores, crashes>>

\* Fault: an execution found running is started over.
ClaimOver(p) ==
  LET claims == execution.status \in {"prepared", "running"} IN
  /\ At(p, "claim") /\ Move(p, IF claims THEN "start" ELSE "idle")
  /\ execution' = IF claims THEN [execution EXCEPT !.status = "running", !.commands = 0] ELSE execution
  /\ UNCHANGED <<schedule, record, contract, plan, authorized, barrier, checkout, started, noticed,
                 deploys, tampers, restores, crashes>>

Claim(p) ==
  /\ At(p, "claim")
  /\ Move(p, IF execution.status = "prepared" THEN "start" ELSE "idle")
  /\ execution' = [execution EXCEPT !.status = IF @ = "prepared" THEN "running" ELSE @]
  /\ UNCHANGED <<schedule, record, contract, plan, authorized, barrier, checkout, started, noticed,
                 deploys, tampers, restores, crashes>>

\* The start is counted before the process exists, by whoever's index is next.
StartGate(p) ==
  /\ At(p, "start")
  /\ IF execution.status = "running" /\ execution.commands = Len(runner[p].results)
       THEN /\ Move(p, "gate")
            /\ execution' = [execution EXCEPT !.commands = @ + 1]
            /\ started' = [started EXCEPT ![execution.commands + 1] = @ + 1]
       ELSE Move(p, "idle") /\ UNCHANGED <<execution, started>>
  /\ UNCHANGED <<schedule, record, contract, plan, authorized, barrier, checkout, noticed,
                 deploys, tampers, restores, crashes>>

\* A failing or timed-out command blocks; one that could not be run is an error.
EndGate(p, result) ==
  /\ At(p, "gate")
  /\ runner' = [runner EXCEPT ![p].step = "inspect", ![p].results = Append(@, result)]
  /\ UNCHANGED <<schedule, record, contract, plan, authorized, execution, barrier, checkout, started, noticed,
                 deploys, tampers, restores, crashes>>

\* The loop stops at a change or a gate that did not pass, and forgets which.
InspectAfterGate(p) ==
  LET results == runner[p].results IN
  /\ At(p, "inspect")
  /\ noticed' = (noticed \/ ~Authentic)
  /\ Move(p, IF Authentic /\ results[Len(results)] = "passed" /\ Len(results) < Len(Checks) THEN "start" ELSE "final")
  /\ UNCHANGED <<schedule, record, contract, plan, authorized, execution, barrier, checkout, started,
                 deploys, tampers, restores, crashes>>

\* Only this second look is recorded.
InspectAtEnd(p) ==
  /\ At(p, "final")
  /\ runner' = [runner EXCEPT ![p].step = "settle", ![p].saw = Authentic]
  /\ UNCHANGED <<schedule, record, contract, plan, authorized, execution, barrier, checkout, started, noticed,
                 deploys, tampers, restores, crashes>>

Verdict(results, preserved) ==
  IF preserved /\ AllPassed(results) THEN "succeeded"
  ELSE IF \E i \in DOMAIN results : results[i] = "error" THEN "failed" ELSE "blocked"

\* The store refuses a verdict its gates do not explain: the execution stays running.
Explained(status, results, preserved) ==
  /\ (status = "succeeded") = (AllPassed(results) /\ preserved)
  /\ ~(status = "blocked" /\ preserved /\ \A i \in DOMAIN results : results[i] = "passed")

\* Fault: a result with a violation is refused as well.
SettleUnviolated(p) ==
  LET results == runner[p].results
      saw     == runner[p].saw
      status  == Verdict(results, saw) IN
  /\ At(p, "settle") /\ runner' = [runner EXCEPT ![p] = Waiting]
  /\ execution' = IF execution.status = "running" /\ saw /\ Explained(status, results, saw)
                  THEN [execution EXCEPT !.status = status, !.gates = results]
                  ELSE execution
  /\ UNCHANGED <<schedule, record, contract, plan, authorized, barrier, checkout, started, noticed,
                 deploys, tampers, restores, crashes>>

SettleExecution(p) ==
  LET results == runner[p].results
      saw     == runner[p].saw
      status  == Verdict(results, saw) IN
  /\ At(p, "settle") /\ runner' = [runner EXCEPT ![p] = Waiting]
  /\ execution' = IF execution.status = "running" /\ Explained(status, results, saw)
                  THEN [execution EXCEPT !.status = status, !.violation = ~saw, !.gates = results]
                  ELSE execution
  /\ UNCHANGED <<schedule, record, contract, plan, authorized, barrier, checkout, started, noticed,
                 deploys, tampers, restores, crashes>>

Crash(p) ==
  /\ ~At(p, "idle") /\ crashes < MaxCrashes
  /\ crashes' = crashes + 1 /\ runner' = [runner EXCEPT ![p] = Waiting]
  /\ UNCHANGED <<schedule, record, contract, plan, authorized, execution, barrier, checkout, started, noticed,
                 deploys, tampers, restores>>

\* Every member is an approved change the gates ran over, under current consent.
OpenBarrier ==
  /\ execution.status = "succeeded" /\ ~execution.violation /\ ~barrier /\ contract # "withdrawn"
  /\ \A r \in Members : r \in Manifest /\ plan[r] = "approved"
  /\ barrier' = TRUE
  /\ UNCHANGED <<schedule, record, contract, plan, authorized, execution, checkout, runner, started, noticed,
                 deploys, tampers, restores, crashes>>

RunnerStep(p) ==
  \/ Prepare(p) \/ RecordPreflight(p) \/ Claim(p) \/ StartGate(p)
  \/ InspectAfterGate(p) \/ InspectAtEnd(p) \/ SettleExecution(p)
  \/ \E result \in Results : EndGate(p, result)

CompatibilityNext ==
  \/ \E r \in Members, e \in {"unchanged", "draft", "approved"} : Advance(r, e)
  \/ \E c \in {"scheduled", "regated", "withdrawn"} : Deploy(c)
  \/ \E r \in Members : Tamper(r) \/ Restore(r)
  \/ AdmitPlan \/ AuthorizeGates \/ ReserveExecution \/ OpenBarrier
  \/ \E p \in Runners : RunnerStep(p) \/ Crash(p)

CompatibilitySpec == CompatibilityInit /\ [][CompatibilityNext]_compatibilityVars

\* A service that was called goes on; nothing makes anyone call it again.
FairCompatibilitySpec == CompatibilitySpec /\ \A p \in Runners : WF_compatibilityVars(~At(p, "idle") /\ RunnerStep(p))

CompatibilityTypeOK ==
  /\ schedule \in Schedules
  /\ record \in [Members -> {"none", "unchanged", "draft", "approved"}]
  /\ plan \in [Members -> {"none", "unchanged", "draft", "approved"}]
  /\ contract \in {"scheduled", "regated", "withdrawn"}
  /\ authorized \in BOOLEAN /\ barrier \in BOOLEAN /\ noticed \in BOOLEAN
  /\ execution \in [status : {"none", "reserved", "prepared", "running"} \cup Terminal,
                     commands : 0..Len(Checks), violation : BOOLEAN, gates : Seq(Results)]
  /\ checkout \in [Members -> {"patch", "changed"}]
  /\ runner \in [Runners -> [step : {"idle", "record", "claim", "start", "gate", "inspect", "final", "settle"},
                             results : Seq(Results), saw : BOOLEAN]]
  /\ started \in [DOMAIN Checks -> Nat]
  /\ deploys \in 0..MaxDeploys /\ tampers \in 0..MaxTampers
  /\ restores \in 0..MaxRestores /\ crashes \in 0..MaxCrashes

(***************************************************************************)
(* One command per gate over every caller, retry and crash: the claim and  *)
(* the counter of started commands are what a second runner meets.         *)
(***************************************************************************)
GatesRunOnce == \A i \in DOMAIN Checks : started[i] <= 1

(***************************************************************************)
(* A gate starts only when all before it passed, also when the results are *)
(* still in the memory of the runner that will report them.                *)
(***************************************************************************)
GatesStopAtFirstFailure ==
  \A p \in Runners : \A i \in 1..Len(runner[p].results) :
    i < Len(runner[p].results) => runner[p].results[i] = "passed"

(***************************************************************************)
(* The barrier stands on everything it was meant to wait for: every member *)
(* of the schedule is an approved change and every gate passed, whatever   *)
(* reviews, deployments or executions happened in between.                 *)
(***************************************************************************)
BarrierHasItsEvidence ==
  barrier => /\ \A r \in Members : record[r] = "approved" /\ r \in Manifest
             /\ execution.status = "succeeded" /\ AllPassed(execution.gates) /\ ~execution.violation
             /\ \A i \in DOMAIN Checks : started[i] = 1

(***************************************************************************)
(* The verification plan is derived again on every read and refused when   *)
(* it differs: what happens to a member after the plan (a review nobody    *)
(* scheduled) leaves it readable.                                          *)
(***************************************************************************)
PlanStaysReadable == Planned => \A r \in Members : Completed(r) /\ plan[r] = Bound(r)

(***************************************************************************)
(* A terminal execution is never written again, by the runner that claimed *)
(* it or by one that prepared at the same time.                            *)
(***************************************************************************)
VerdictStands == [][execution.status \in Terminal => execution' = execution]_compatibilityVars

(***************************************************************************)
(* A claimed execution ends unless its process stopped, or a change that   *)
(* was noticed was gone at the second look: the store then refuses the     *)
(* verdict and nobody may run the gates again.                             *)
(***************************************************************************)
ClaimedExecutionSettles ==
  execution.status = "running" ~> (execution.status \in Terminal \/ crashes > 0 \/ (noticed /\ restores > 0))

\* The publication barrier opens on gates that ran once, in order, over the members
\* the plan bound.
BarrierIsEarned ==
  /\ CompatibilityTypeOK
  /\ GatesRunOnce
  /\ GatesStopAtFirstFailure
  /\ BarrierHasItsEvidence
  /\ PlanStaysReadable
=============================================================================
