---------------------------- MODULE ServicesProofs ----------------------------
(***************************************************************************)
(* Theorems of the two services that end in a verdict.  DraftReview, for   *)
(* every set of patches, any number of gates, whichever of them rewrite    *)
(* the worktree, and any limit of remediation rounds.                      *)
(* CompatibilityExecution, for every set of members and schedules, any     *)
(* number of checks and runners, and any number of crashes, deployments    *)
(* and changes to a checkout.                                              *)
(***************************************************************************)
EXTENDS DraftReview, CompatibilityExecution, TLAPS

(***************************************************************************)
(* A review: what each of its steps starts from                            *)
(***************************************************************************)
\* A review runs until it settles.
RunningUntilSettled == status = "running" <=> step # "settled"

\* Nothing but a remediation or a rewriting gate changes the worktree.
WorktreeIsOriginal == ~remediated /\ Rewriting = {} => worktree = original

\* The initial reviewer has not been asked.
StartOfReview ==
  step = "initial" =>
    /\ calls.reviewer = 0 /\ calls.remediator = 0
    /\ ~remediated /\ passed = 0

\* It has asked for changes.
StartOfRemediation ==
  step = "remediate" =>
    /\ calls.reviewer = 1 /\ calls.remediator = 0
    /\ ~remediated /\ passed = 0

\* It saw the draft as it came; what it did not approve was remediated.
DuringGates ==
  step = "gates" =>
    /\ calls.reviewer = 1
    /\ ~remediated => verdict = "approve" /\ seen = original

\* A second reviewer is asked about a remediated patch that passed every gate.
StartOfFinal ==
  step = "final" =>
    /\ calls.reviewer = 1
    /\ remediated /\ passed = GateCount
    /\ evidence = worktree /\ evidence # EmptyPatch

ReviewInv ==
  /\ ApprovalIsEarned
  /\ RunningUntilSettled
  /\ WorktreeIsOriginal
  /\ StartOfReview
  /\ StartOfRemediation
  /\ DuringGates
  /\ StartOfFinal

USE DEF Settle

LEMMA ReviewStarts == Init => ReviewInv
<1> SUFFICES ASSUME Init PROVE ReviewInv
  OBVIOUS
<1> USE ReviewAssumption DEF ReviewAssumption, Init
<1>1. TypeOK
  <2>1. calls \in [reviewer : 0..2, remediator : 0..1]
    BY DEF Spent
  <2>2. passed \in 0..GateCount
    OBVIOUS
  <2>3. remediated \in BOOLEAN
    OBVIOUS
  <2> QED BY <2>1, <2>2, <2>3 DEF TypeOK, Steps
<1>2. ApprovalIsVerified /\ FinalReviewIsEarned /\ ApprovedPatchWasReviewed
  BY DEF ApprovalIsVerified, FinalReviewIsEarned, ApprovedPatchWasReviewed, Spent
<1>3. RunningUntilSettled /\ WorktreeIsOriginal /\ StartOfReview
  BY DEF RunningUntilSettled, WorktreeIsOriginal, StartOfReview, Spent
<1>4. StartOfRemediation /\ DuringGates /\ StartOfFinal
  BY DEF StartOfRemediation, DuringGates, StartOfFinal
<1> QED BY <1>1, <1>2, <1>3, <1>4 DEF ReviewInv, ApprovalIsEarned

\* Counting a call adds one to its kind and leaves the other.
LEMMA CallCounted ==
  ASSUME calls \in [reviewer : 0..2, remediator : 0..1]
  PROVE  /\ calls.reviewer \in 0..2 /\ calls.remediator \in 0..1
         /\ calls.reviewer <= 1 =>
              LET c == [calls EXCEPT !.reviewer = @ + 1]
              IN  /\ c \in [reviewer : 0..2, remediator : 0..1]
                  /\ c.reviewer = calls.reviewer + 1 /\ c.remediator = calls.remediator
         /\ calls.remediator = 0 =>
              LET c == [calls EXCEPT !.remediator = @ + 1]
              IN  /\ c \in [reviewer : 0..2, remediator : 0..1]
                  /\ c.remediator = 1 /\ c.reviewer = calls.reviewer
  OBVIOUS

\* What the first verdict leads to.
LEMMA FirstVerdict ==
  ASSUME NEW v \in Verdicts, InitialVerdict(v)
  PROVE  \/ step' = "settled" /\ status' = "blocked"
         \/ step' = "remediate" /\ status' = status
         \/ step' = "gates" /\ status' = status /\ verdict' = "approve" /\ seen' = original
<1>1. CASE v = "reject"
  BY <1>1 DEF InitialVerdict
<1>2. CASE v = "changes_requested"
  <2>1. MaxRemediationRounds < 1 \/ MaxRemediationRounds >= 1
    BY ReviewAssumption DEF ReviewAssumption
  <2>2. CASE MaxRemediationRounds < 1
    BY <1>2, <2>2 DEF InitialVerdict
  <2>3. CASE MaxRemediationRounds >= 1
    BY <1>2, <2>3 DEF InitialVerdict
  <2> QED BY <2>1, <2>2, <2>3
<1>3. CASE v = "approve"
  BY <1>3 DEF InitialVerdict
<1> QED BY <1>1, <1>2, <1>3 DEF Verdicts

LEMMA ReviewTypesKept == ReviewInv /\ [Next]_vars => TypeOK'
<1> SUFFICES ASSUME ReviewInv, [Next]_vars PROVE TypeOK'
  OBVIOUS
<1> USE ReviewAssumption DEF ReviewAssumption
<1>0. TypeOK /\ StartOfReview /\ StartOfRemediation /\ StartOfFinal
  BY DEF ReviewInv, ApprovalIsEarned
<1>1. calls.reviewer \in 0..2 /\ calls.remediator \in 0..1
  BY <1>0 DEF TypeOK
<1>2. CASE \E v \in Verdicts : InitialVerdict(v)
  <2>1. calls' \in [reviewer : 0..2, remediator : 0..1]
    BY <1>0, <1>2, CallCounted DEF TypeOK, StartOfReview, InitialVerdict
  <2>2. step' \in Steps /\ status' \in {"running", "approved", "blocked", "failed"}
    BY <1>0, <1>2, FirstVerdict DEF TypeOK, Steps
  <2> QED BY <1>0, <1>2, <2>1, <2>2 DEF TypeOK, InitialVerdict
<1>3. CASE \E v \in Verdicts : FinalVerdict(v)
  <2>1. calls' \in [reviewer : 0..2, remediator : 0..1]
    BY <1>0, <1>3, CallCounted DEF TypeOK, StartOfFinal, FinalVerdict
  <2> QED BY <1>0, <1>3, <2>1 DEF TypeOK, FinalVerdict, Steps
<1>4. CASE \E p \in Patches : Remediate(p)
  <2>1. calls' \in [reviewer : 0..2, remediator : 0..1]
    BY <1>0, <1>4, CallCounted DEF TypeOK, StartOfRemediation, Remediate
  <2> QED BY <1>0, <1>4, <2>1 DEF TypeOK, Remediate, Steps
<1>5. CASE \E p \in Patches : GatePasses(p)
  BY <1>0, <1>5 DEF TypeOK, GatePasses
<1>6. CASE \E p \in Patches : GateFails(p)
  BY <1>0, <1>6 DEF TypeOK, GateFails, Steps
<1>7. CASE \E withinPolicy \in BOOLEAN : CollectEvidence(withinPolicy)
  BY <1>0, <1>7 DEF TypeOK, CollectEvidence, Steps
<1>8. CASE Fail
  BY <1>0, <1>8 DEF TypeOK, Fail, Steps
<1>9. CASE UNCHANGED vars
  BY <1>0, <1>9 DEF TypeOK, vars
<1> QED BY <1>2, <1>3, <1>4, <1>5, <1>6, <1>7, <1>8, <1>9 DEF Next

LEMMA StepsFollowOn ==
  ReviewInv /\ [Next]_vars =>
    /\ RunningUntilSettled' /\ WorktreeIsOriginal'
    /\ StartOfReview' /\ StartOfRemediation' /\ DuringGates' /\ StartOfFinal'
<1> SUFFICES ASSUME ReviewInv, [Next]_vars
             PROVE  /\ RunningUntilSettled' /\ WorktreeIsOriginal'
                    /\ StartOfReview' /\ StartOfRemediation' /\ DuringGates' /\ StartOfFinal'
  OBVIOUS
<1> USE ReviewAssumption DEF ReviewAssumption, ReviewInv, RunningUntilSettled, WorktreeIsOriginal, StartOfReview,
        StartOfRemediation, DuringGates, StartOfFinal
<1>0. TypeOK
  BY DEF ApprovalIsEarned
<1>1. CASE \E v \in Verdicts : InitialVerdict(v)
  <2>1. step = "initial" => calls'.reviewer = 1 /\ calls'.remediator = 0
    BY <1>0, <1>1, CallCounted DEF TypeOK, InitialVerdict
  <2>2. step = "initial" /\ ~remediated' /\ passed' = 0 /\ worktree' = worktree
        /\ original' = original
    BY <1>1 DEF InitialVerdict
  <2> QED BY <1>1, <2>1, <2>2, FirstVerdict
<1>2. CASE \E v \in Verdicts : FinalVerdict(v)
  BY <1>2 DEF FinalVerdict
<1>3. CASE \E p \in Patches : Remediate(p)
  <2>1. calls'.reviewer = 1
    BY <1>0, <1>3, CallCounted DEF TypeOK, Remediate
  <2> QED BY <1>3, <2>1 DEF Remediate
<1>4. CASE \E p \in Patches : GatePasses(p)
  BY <1>0, <1>4 DEF TypeOK, GatePasses
<1>5. CASE \E p \in Patches : GateFails(p)
  BY <1>0, <1>5 DEF TypeOK, GateFails
<1>6. CASE \E withinPolicy \in BOOLEAN : CollectEvidence(withinPolicy)
  BY <1>0, <1>6 DEF TypeOK, CollectEvidence
<1>7. CASE Fail
  BY <1>7 DEF Fail
<1>8. CASE UNCHANGED vars
  BY <1>8 DEF vars
<1> QED BY <1>1, <1>2, <1>3, <1>4, <1>5, <1>6, <1>7, <1>8 DEF Next

LEMMA ApprovalKept ==
  ReviewInv /\ [Next]_vars =>
    ApprovalIsVerified' /\ FinalReviewIsEarned' /\ ApprovedPatchWasReviewed'
<1> SUFFICES ASSUME ReviewInv, [Next]_vars
             PROVE  ApprovalIsVerified' /\ FinalReviewIsEarned' /\ ApprovedPatchWasReviewed'
  OBVIOUS
<1> USE ReviewAssumption DEF ReviewAssumption, ReviewInv, ApprovalIsEarned, RunningUntilSettled,
        WorktreeIsOriginal, StartOfReview, StartOfRemediation, DuringGates, StartOfFinal,
        ApprovalIsVerified, FinalReviewIsEarned, ApprovedPatchWasReviewed
<1>0. TypeOK
  OBVIOUS
<1>1. CASE \E v \in Verdicts : InitialVerdict(v)
  \* The first verdict never settles as an approval, and spends the first call.
  <2>1. calls'.reviewer = 1
    BY <1>0, <1>1, CallCounted DEF TypeOK, InitialVerdict
  <2>2. status' # "approved"
    BY <1>1, FirstVerdict DEF InitialVerdict
  <2> QED BY <2>1, <2>2
<1>2. CASE \E v \in Verdicts : FinalVerdict(v)
  <2>1. calls'.reviewer = 2
    BY <1>0, <1>2, CallCounted DEF TypeOK, FinalVerdict
  <2> QED BY <1>2, <2>1 DEF FinalVerdict
<1>3. CASE \E p \in Patches : Remediate(p)
  <2>1. calls'.reviewer = 1
    BY <1>0, <1>3, CallCounted DEF TypeOK, Remediate
  <2> QED BY <1>3, <2>1 DEF Remediate
<1>4. CASE \E p \in Patches : GatePasses(p)
  BY <1>4 DEF GatePasses
<1>5. CASE \E p \in Patches : GateFails(p)
  BY <1>5 DEF GateFails
<1>6. CASE \E withinPolicy \in BOOLEAN : CollectEvidence(withinPolicy)
  \* Only an unremediated patch is approved here: the initial reviewer's approval.
  BY <1>0, <1>6 DEF TypeOK, CollectEvidence
<1>7. CASE Fail
  BY <1>7 DEF Fail
<1>8. CASE UNCHANGED vars
  BY <1>8 DEF vars
<1> QED BY <1>1, <1>2, <1>3, <1>4, <1>5, <1>6, <1>7, <1>8 DEF Next

\* In every reachable state of every review an approval is earned: complete
\* verification of a non-empty patch that is still in the worktree, a reviewer who
\* approved after any remediation, and who saw the approved bytes unless a gate rewrote
\* them; a second reviewer call is only spent on a remediated patch that passed
\* every gate (ReviewService.#review).
THEOREM EveryApprovalIsEarned == Spec => []ApprovalIsEarned
<1>1. Init => ReviewInv
  BY ReviewStarts
<1>2. ReviewInv /\ [Next]_vars => ReviewInv'
  BY ReviewTypesKept, StepsFollowOn, ApprovalKept DEF ReviewInv, ApprovalIsEarned
<1>3. ReviewInv => ApprovalIsEarned
  BY DEF ReviewInv
<1> QED BY <1>1, <1>2, <1>3, PTL DEF Spec

(***************************************************************************)
(* The compatibility checks: the inductive invariant                       *)
(***************************************************************************)
\* The steps of a runner that has claimed the execution.
Claimed == {"start", "gate", "inspect", "final", "settle"}
Late(p) == runner[p].step \in Claimed

\* One runner has claimed the execution, and it stays running until that one settles it.
OneRunner ==
  /\ \A p \in Runners : Late(p) => execution.status = "running"
  /\ \A p, q \in Runners : Late(p) /\ Late(q) => p = q

\* The counter of started commands is the number of results the runner holds, and one
\* more while a gate runs; nobody else holds any.
ResultsAreCounted ==
  \A p \in Runners :
    /\ ~Late(p) => runner[p].results = <<>>
    /\ Late(p) /\ ~At(p, "gate") => Len(runner[p].results) = execution.commands
    /\ At(p, "gate") => Len(runner[p].results) + 1 = execution.commands
    /\ At(p, "start") => Len(runner[p].results) < Len(Checks)
    /\ At(p, "start") \/ At(p, "gate") =>
         \A i \in 1..Len(runner[p].results) : runner[p].results[i] = "passed"

\* Gates are started in order, none before the claim.
StartsAreCounted ==
  /\ \A i \in DOMAIN Checks : started[i] = IF i <= execution.commands THEN 1 ELSE 0
  /\ execution.status \in {"none", "reserved", "prepared"} => execution.commands = 0

\* A success is a verdict over every gate.
SuccessIsComplete ==
  execution.status = "succeeded" =>
    AllPassed(execution.gates) /\ ~execution.violation /\ execution.commands = Len(Checks)

\* The execution rests on a plan, and the barrier on what that plan bound.
RestsOnPlan ==
  /\ authorized => Planned
  /\ execution.status # "none" => authorized
  /\ barrier => /\ execution.status = "succeeded"
                /\ \A r \in Members : r \in Manifest /\ plan[r] = "approved"

BarrierInv ==
  /\ CompatibilityTypeOK
  /\ OneRunner
  /\ ResultsAreCounted
  /\ StartsAreCounted
  /\ SuccessIsComplete
  /\ RestsOnPlan
  /\ GatesStopAtFirstFailure
  /\ PlanStaysReadable
\* What the runners and the execution owe each other.
RunnersInv ==
  /\ OneRunner
  /\ ResultsAreCounted
  /\ StartsAreCounted
  /\ SuccessIsComplete
  /\ GatesStopAtFirstFailure

\* What the execution and the barrier rest on.
PlanInv == RestsOnPlan /\ PlanStaysReadable

RunnerSteps == {"idle", "record", "claim"} \cup Claimed
RunnerState == [step : RunnerSteps, results : Seq(Results), saw : BOOLEAN]
Execution   == [status : {"none", "reserved", "prepared", "running"} \cup Terminal,
                commands : 0..Len(Checks), violation : BOOLEAN, gates : Seq(Results)]

(***************************************************************************)
(* The shapes of the data                                                  *)
(***************************************************************************)
LEMMA Extended ==
  ASSUME NEW S, NEW s \in Seq(S), NEW x \in S
  PROVE  /\ Append(s, x) \in Seq(S)
         /\ Len(Append(s, x)) = Len(s) + 1
         /\ \A i \in 1..Len(s) : Append(s, x)[i] = s[i]
         /\ Len(s) \in Nat
  OBVIOUS

LEMMA Shapes ==
  ASSUME CompatibilityTypeOK
  PROVE  /\ Len(Checks) \in Nat /\ Len(Checks) >= 1 /\ DOMAIN Checks = 1..Len(Checks)
         /\ runner \in [Runners -> RunnerState]
         /\ execution \in Execution
         /\ \A p \in Runners : /\ runner[p].results \in Seq(Results)
                               /\ Len(runner[p].results) \in Nat
                               /\ DOMAIN runner[p].results = 1..Len(runner[p].results)
<1>1. Checks \in Seq(SUBSET Members) /\ Checks # <<>>
  BY CompatibilityAssumption DEF CompatibilityAssumption, CompatibilityTypeOK, Checks
<1>2. Len(Checks) \in Nat /\ DOMAIN Checks = 1..Len(Checks)
  BY <1>1
<1>3. Len(Checks) >= 1
  BY <1>1, <1>2
<1>4. runner \in [Runners -> RunnerState]
  BY DEF CompatibilityTypeOK, RunnerState, RunnerSteps, Claimed
<1>5. execution \in Execution
  BY DEF CompatibilityTypeOK, Execution
<1> QED BY <1>2, <1>3, <1>4, <1>5 DEF RunnerState

\* Moving a runner changes its step.
LEMMA Moved ==
  ASSUME NEW p \in Runners, NEW s \in RunnerSteps, Move(p, s),
         runner \in [Runners -> RunnerState]
  PROVE  /\ runner' \in [Runners -> RunnerState]
         /\ runner'[p].step = s /\ runner'[p].results = runner[p].results
         /\ runner'[p].saw = runner[p].saw
         /\ \A q \in Runners : q # p => runner'[q] = runner[q]
  BY DEF Move, RunnerState

\* A runner that returns or stops forgets everything.
LEMMA Forgotten ==
  ASSUME NEW p \in Runners, runner' = [runner EXCEPT ![p] = Waiting],
         runner \in [Runners -> RunnerState]
  PROVE  /\ runner' \in [Runners -> RunnerState]
         /\ runner'[p].step = "idle" /\ runner'[p].results = <<>>
         /\ \A q \in Runners : q # p => runner'[q] = runner[q]
<1>1. Waiting \in RunnerState
  BY DEF Waiting, RunnerState, RunnerSteps
<1> QED BY <1>1 DEF Waiting

(***************************************************************************)
(* Types                                                                   *)
(***************************************************************************)
\* The parts of the type invariant that runners do not write.
LEMMA RunnersKeepTypes ==
  ASSUME CompatibilityTypeOK,
         runner' \in [Runners -> RunnerState], execution' \in Execution,
         started' \in [DOMAIN Checks -> Nat], noticed' \in BOOLEAN, crashes' \in 0..MaxCrashes,
         UNCHANGED <<schedule, record, contract, plan, authorized, barrier, checkout, deploys,
                     tampers, restores>>
  PROVE  CompatibilityTypeOK'
<1>1. /\ schedule' \in Schedules
      /\ record' \in [Members -> {"none", "unchanged", "draft", "approved"}]
      /\ plan' \in [Members -> {"none", "unchanged", "draft", "approved"}]
      /\ contract' \in {"scheduled", "regated", "withdrawn"}
      /\ checkout' \in [Members -> {"patch", "changed"}]
  BY DEF CompatibilityTypeOK
<1>2. authorized' \in BOOLEAN /\ barrier' \in BOOLEAN
  BY DEF CompatibilityTypeOK
<1>3. deploys' \in 0..MaxDeploys /\ tampers' \in 0..MaxTampers /\ restores' \in 0..MaxRestores
  BY DEF CompatibilityTypeOK
<1>4. Checks' = Checks
  BY DEF Checks
<1> QED BY <1>1, <1>2, <1>3, <1>4 DEF CompatibilityTypeOK, RunnerState, RunnerSteps, Claimed, Execution

LEMMA RunnerStepKeepsTypes ==
  ASSUME CompatibilityTypeOK, ResultsAreCounted, NEW p \in Runners, RunnerStep(p)
  PROVE  CompatibilityTypeOK'
<1>0. /\ runner \in [Runners -> RunnerState] /\ execution \in Execution
      /\ started \in [DOMAIN Checks -> Nat] /\ noticed \in BOOLEAN /\ crashes \in 0..MaxCrashes
      /\ Len(Checks) \in Nat /\ DOMAIN Checks = 1..Len(Checks)
      /\ runner[p].results \in Seq(Results) /\ Len(runner[p].results) \in Nat
  BY Shapes DEF CompatibilityTypeOK
<1>1. CASE Prepare(p)
  <2>1. runner' \in [Runners -> RunnerState]
    BY <1>0, <1>1, Moved DEF Prepare, RunnerSteps
  <2> QED BY <1>0, <1>1, <2>1, RunnersKeepTypes DEF Prepare
<1>2. CASE RecordPreflight(p)
  <2>1. runner' \in [Runners -> RunnerState]
    BY <1>0, <1>2, Moved DEF RecordPreflight, RunnerSteps
  <2>2. execution' \in Execution
    BY <1>0, <1>2 DEF RecordPreflight, Execution
  <2> QED BY <1>0, <1>2, <2>1, <2>2, RunnersKeepTypes DEF RecordPreflight
<1>3. CASE Claim(p)
  <2>1. runner' \in [Runners -> RunnerState]
    BY <1>0, <1>3, Moved DEF Claim, RunnerSteps, Claimed
  <2>2. execution' \in Execution
    BY <1>0, <1>3 DEF Claim, Execution
  <2> QED BY <1>0, <1>3, <2>1, <2>2, RunnersKeepTypes DEF Claim
<1>4. CASE StartGate(p)
  <2>1. runner' \in [Runners -> RunnerState]
    BY <1>0, <1>4, Moved DEF StartGate, RunnerSteps, Claimed
  <2>2. CASE execution.status = "running" /\ execution.commands = Len(runner[p].results)
    <3>1. execution.commands < Len(Checks)
      BY <1>4, <2>2 DEF StartGate, ResultsAreCounted
    <3>2. execution' \in Execution
      BY <1>0, <1>4, <2>2, <3>1 DEF StartGate, Execution
    <3>3. started' \in [DOMAIN Checks -> Nat]
      BY <1>0, <1>4, <2>2, <3>1 DEF StartGate, Execution
    <3> QED BY <1>0, <1>4, <2>1, <3>2, <3>3, RunnersKeepTypes DEF StartGate
  <2>3. CASE ~(execution.status = "running" /\ execution.commands = Len(runner[p].results))
    BY <1>0, <1>4, <2>1, <2>3, RunnersKeepTypes DEF StartGate
  <2> QED BY <2>2, <2>3
<1>5. CASE \E result \in Results : EndGate(p, result)
  <2>1. PICK result \in Results : EndGate(p, result)
    BY <1>5
  <2>2. Append(runner[p].results, result) \in Seq(Results)
    BY <1>0, Extended
  <2>3. runner' \in [Runners -> RunnerState]
    BY <1>0, <2>1, <2>2 DEF EndGate, RunnerState, RunnerSteps, Claimed
  <2> QED BY <1>0, <2>1, <2>3, RunnersKeepTypes DEF EndGate
<1>6. CASE InspectAfterGate(p)
  <2>1. runner' \in [Runners -> RunnerState]
    BY <1>0, <1>6, Moved DEF InspectAfterGate, RunnerSteps, Claimed
  <2>2. noticed' \in BOOLEAN
    BY <1>6 DEF InspectAfterGate
  <2> QED BY <1>0, <1>6, <2>1, <2>2, RunnersKeepTypes DEF InspectAfterGate
<1>7. CASE InspectAtEnd(p)
  <2>1. Authentic \in BOOLEAN
    BY DEF Authentic
  <2>2. runner' \in [Runners -> RunnerState]
    BY <1>0, <1>7, <2>1 DEF InspectAtEnd, RunnerState, RunnerSteps, Claimed
  <2> QED BY <1>0, <1>7, <2>2, RunnersKeepTypes DEF InspectAtEnd
<1>8. CASE SettleExecution(p)
  <2>1. runner' \in [Runners -> RunnerState]
    BY <1>0, <1>8, Forgotten DEF SettleExecution
  <2>2. execution' \in Execution
    BY <1>0, <1>8 DEF SettleExecution, Execution, RunnerState, Verdict, Terminal
  <2> QED BY <1>0, <1>8, <2>1, <2>2, RunnersKeepTypes DEF SettleExecution
<1> QED BY <1>1, <1>2, <1>3, <1>4, <1>5, <1>6, <1>7, <1>8 DEF RunnerStep

LEMMA TypesKept ==
  ASSUME CompatibilityTypeOK, ResultsAreCounted, [CompatibilityNext]_compatibilityVars
  PROVE  CompatibilityTypeOK'
<1>1. ASSUME NEW r \in Members, NEW e \in {"unchanged", "draft", "approved"}, Advance(r, e)
      PROVE  CompatibilityTypeOK'
  <2>1. Checks' = Checks
    BY <1>1 DEF Advance, Checks
  <2> QED BY <1>1, <2>1 DEF Advance, CompatibilityTypeOK
<1>2. ASSUME NEW c \in {"scheduled", "regated", "withdrawn"}, Deploy(c)
      PROVE  CompatibilityTypeOK'
  <2>1. Checks' = Checks
    BY <1>2 DEF Deploy, Checks
  <2>2. deploys' \in 0..MaxDeploys
    BY <1>2, CompatibilityAssumption DEF Deploy, CompatibilityTypeOK, CompatibilityAssumption
  <2> QED BY <1>2, <2>1, <2>2 DEF Deploy, CompatibilityTypeOK
<1>3. ASSUME NEW r \in Members, Tamper(r)
      PROVE  CompatibilityTypeOK'
  <2>1. Checks' = Checks
    BY <1>3 DEF Tamper, Checks
  <2>2. tampers' \in 0..MaxTampers
    BY <1>3, CompatibilityAssumption DEF Tamper, CompatibilityTypeOK, CompatibilityAssumption
  <2> QED BY <1>3, <2>1, <2>2 DEF Tamper, CompatibilityTypeOK
<1>4. ASSUME NEW r \in Members, Restore(r)
      PROVE  CompatibilityTypeOK'
  <2>1. Checks' = Checks
    BY <1>4 DEF Restore, Checks
  <2>2. restores' \in 0..MaxRestores
    BY <1>4, CompatibilityAssumption DEF Restore, CompatibilityTypeOK, CompatibilityAssumption
  <2> QED BY <1>4, <2>1, <2>2 DEF Restore, CompatibilityTypeOK
<1>5. CASE AdmitPlan
  <2>1. Checks' = Checks
    BY <1>5 DEF AdmitPlan, Checks
  <2>2. \A r \in Members : Bound(r) \in {"none", "unchanged", "draft", "approved"}
    BY DEF Bound, CompatibilityTypeOK
  <2>3. plan' \in [Members -> {"none", "unchanged", "draft", "approved"}]
    BY <1>5, <2>2 DEF AdmitPlan
  <2> QED BY <1>5, <2>1, <2>3 DEF AdmitPlan, CompatibilityTypeOK
<1>6. CASE AuthorizeGates
  <2>1. Checks' = Checks
    BY <1>6 DEF AuthorizeGates, Checks
  <2> QED BY <1>6, <2>1 DEF AuthorizeGates, CompatibilityTypeOK
<1>7. CASE ReserveExecution
  <2>1. Checks' = Checks
    BY <1>7 DEF ReserveExecution, Checks
  <2> QED BY <1>7, <2>1 DEF ReserveExecution, CompatibilityTypeOK
<1>8. CASE OpenBarrier
  <2>1. Checks' = Checks
    BY <1>8 DEF OpenBarrier, Checks
  <2> QED BY <1>8, <2>1 DEF OpenBarrier, CompatibilityTypeOK
<1>9. ASSUME NEW p \in Runners, Crash(p)
      PROVE  CompatibilityTypeOK'
  <2>1. Checks' = Checks
    BY <1>9 DEF Crash, Checks
  <2>2. runner' \in [Runners -> RunnerState]
    BY <1>9, Shapes, Forgotten DEF Crash
  <2>3. crashes' \in 0..MaxCrashes
    BY <1>9, CompatibilityAssumption DEF Crash, CompatibilityTypeOK, CompatibilityAssumption
  <2> QED BY <1>9, <2>1, <2>2, <2>3 DEF Crash, CompatibilityTypeOK, RunnerState, RunnerSteps, Claimed
<1>10. CASE UNCHANGED compatibilityVars
  <2>1. Checks' = Checks
    BY <1>10 DEF compatibilityVars, Checks
  <2> QED BY <1>10, <2>1 DEF compatibilityVars, CompatibilityTypeOK
<1> QED BY <1>1, <1>2, <1>3, <1>4, <1>5, <1>6, <1>7, <1>8, <1>9, <1>10, RunnerStepKeepsTypes
        DEF CompatibilityNext

(***************************************************************************)
(* Runners and the execution                                               *)
(***************************************************************************)
\* A step that leaves runners, execution and starts alone keeps what they owe each other.
LEMMA OthersKeepRunners ==
  ASSUME RunnersInv, UNCHANGED <<schedule, runner, execution, started>>
  PROVE  RunnersInv'
  BY DEF RunnersInv, OneRunner, ResultsAreCounted, StartsAreCounted, SuccessIsComplete,
         GatesStopAtFirstFailure, Late, At, Checks, AllPassed

\* So does one that leaves the claim where it is: nobody claims, nobody returns.
LEMMA UnclaimedKeepRunners ==
  ASSUME CompatibilityTypeOK, RunnersInv, NEW p \in Runners, ~Late(p),
         NEW s \in {"idle", "record", "claim"}, Move(p, s),
         \/ execution' = execution
         \/ /\ execution.status \in {"none", "reserved"}
            /\ execution' = [execution EXCEPT !.status = "prepared"],
         UNCHANGED <<schedule, started>>
  PROVE  RunnersInv'
<1>0. Checks' = Checks /\ runner \in [Runners -> RunnerState] /\ execution \in Execution
  BY Shapes DEF Checks
<1>1. /\ runner'[p].step = s /\ runner'[p].results = <<>>
      /\ \A q \in Runners : q # p => runner'[q] = runner[q]
  BY <1>0, Moved DEF RunnerSteps, RunnersInv, ResultsAreCounted
<1>2. ~Late(p)' /\ \A q \in Runners : q # p => (Late(q)' <=> Late(q))
  BY <1>1 DEF Late, Claimed
<1>3. \/ execution' = execution
      \/ /\ execution.status \in {"none", "reserved"}
         /\ execution'.status = "prepared"
         /\ execution'.commands = execution.commands
  BY <1>0 DEF Execution
<1>4. OneRunner'
  BY <1>2, <1>3 DEF RunnersInv, OneRunner
<1>5. ASSUME NEW q \in Runners, Late(q) PROVE execution' = execution
  BY <1>3, <1>5 DEF RunnersInv, OneRunner
<1>6. ResultsAreCounted'
  <2> SUFFICES ASSUME NEW q \in Runners
      PROVE  /\ ~Late(q)' => runner'[q].results = <<>>
             /\ Late(q)' /\ ~At(q, "gate")' => Len(runner'[q].results) = execution'.commands
             /\ At(q, "gate")' => Len(runner'[q].results) + 1 = execution'.commands
             /\ At(q, "start")' => Len(runner'[q].results) < Len(Checks)
             /\ At(q, "start")' \/ At(q, "gate")' =>
                  \A i \in 1..Len(runner'[q].results) : runner'[q].results[i] = "passed"
    BY <1>0 DEF ResultsAreCounted
  <2>1. CASE q = p
    BY <2>1, <1>1, <1>2 DEF At
  <2>2. CASE q # p
    BY <2>2, <1>1, <1>2, <1>5 DEF At, RunnersInv, ResultsAreCounted, Late, Claimed
  <2> QED BY <2>1, <2>2
<1>7. StartsAreCounted'
  BY <1>0, <1>3 DEF RunnersInv, StartsAreCounted
<1>8. SuccessIsComplete'
  BY <1>0, <1>3 DEF RunnersInv, SuccessIsComplete, AllPassed
<1>9. GatesStopAtFirstFailure'
  BY <1>0, <1>1 DEF RunnersInv, GatesStopAtFirstFailure
<1> QED BY <1>4, <1>6, <1>7, <1>8, <1>9 DEF RunnersInv

LEMMA ReserveKeepsRunners ==
  ASSUME CompatibilityTypeOK, RunnersInv, ReserveExecution
  PROVE  RunnersInv'
<1>0. /\ Checks' = Checks /\ runner' = runner /\ started' = started
      /\ execution.status = "none" /\ execution'.status = "reserved"
      /\ execution'.commands = execution.commands
  BY Shapes DEF Checks, ReserveExecution, Execution
<1>1. \A p \in Runners : ~Late(p)
  BY <1>0 DEF RunnersInv, OneRunner
<1>2. OneRunner' /\ ResultsAreCounted'
  BY <1>0, <1>1 DEF RunnersInv, OneRunner, ResultsAreCounted, Late, Claimed, At
<1>3. StartsAreCounted' /\ SuccessIsComplete' /\ GatesStopAtFirstFailure'
  BY <1>0 DEF RunnersInv, StartsAreCounted, SuccessIsComplete, GatesStopAtFirstFailure
<1> QED BY <1>2, <1>3 DEF RunnersInv

\* The claim: no runner had it, and no gate was started.
LEMMA ClaimKeepsRunners ==
  ASSUME CompatibilityTypeOK, RunnersInv, NEW p \in Runners, Claim(p)
  PROVE  RunnersInv'
<1>0. /\ Checks' = Checks /\ runner \in [Runners -> RunnerState] /\ execution \in Execution
      /\ Len(Checks) \in Nat /\ Len(Checks) >= 1
  BY Shapes DEF Checks, Claim
<1>1. ~Late(p)
  BY DEF Claim, At, Late, Claimed
<1>2. CASE execution.status # "prepared"
  <2>1. Move(p, "idle") /\ execution' = execution
    BY <1>0, <1>2 DEF Claim, Execution
  <2> QED BY <1>1, <2>1, UnclaimedKeepRunners DEF Claim
<1>3. CASE execution.status = "prepared"
  <2>1. /\ Move(p, "start") /\ started' = started
        /\ execution'.status = "running" /\ execution'.commands = execution.commands
    BY <1>0, <1>3 DEF Claim, Execution
  <2>2. execution.commands = 0 /\ \A q \in Runners : ~Late(q)
    BY <1>3 DEF RunnersInv, OneRunner, StartsAreCounted
  <2>3. /\ runner'[p].step = "start" /\ runner'[p].results = <<>>
        /\ \A q \in Runners : q # p => runner'[q] = runner[q]
    BY <1>0, <1>1, <2>1, Moved DEF RunnersInv, ResultsAreCounted, RunnerSteps, Claimed
  <2>4. Late(p)' /\ \A q \in Runners : q # p => ~Late(q)'
    BY <2>2, <2>3 DEF Late, Claimed
  <2>5. OneRunner'
    BY <2>1, <2>4 DEF OneRunner
  <2>6. ResultsAreCounted'
    <3> SUFFICES ASSUME NEW q \in Runners
        PROVE  /\ ~Late(q)' => runner'[q].results = <<>>
               /\ Late(q)' /\ ~At(q, "gate")' => Len(runner'[q].results) = execution'.commands
               /\ At(q, "gate")' => Len(runner'[q].results) + 1 = execution'.commands
               /\ At(q, "start")' => Len(runner'[q].results) < Len(Checks)
               /\ At(q, "start")' \/ At(q, "gate")' =>
                    \A i \in 1..Len(runner'[q].results) : runner'[q].results[i] = "passed"
      BY <1>0 DEF ResultsAreCounted
    <3>1. CASE q = p
      BY <3>1, <1>0, <2>1, <2>2, <2>3, <2>4 DEF At
    <3>2. CASE q # p
      BY <3>2, <2>2, <2>3, <2>4 DEF At, Late, Claimed, RunnersInv, ResultsAreCounted
    <3> QED BY <3>1, <3>2
  <2>7. StartsAreCounted' /\ SuccessIsComplete'
    BY <1>0, <2>1 DEF RunnersInv, StartsAreCounted, SuccessIsComplete
  <2>8. GatesStopAtFirstFailure'
    BY <1>0, <2>3 DEF RunnersInv, GatesStopAtFirstFailure
  <2> QED BY <2>5, <2>6, <2>7, <2>8 DEF RunnersInv
<1> QED BY <1>2, <1>3

\* A step of the runner that has claimed the execution, which goes on running: the
\* others hold nothing, and what the runner and the counter show is all there is.
LEMMA ClaimantKeepsRunners ==
  ASSUME CompatibilityTypeOK, RunnersInv, NEW p \in Runners, Late(p), Late(p)',
         execution'.status = "running", schedule' = schedule,
         \A q \in Runners : q # p => runner'[q] = runner[q],
         ~At(p, "gate")' => Len(runner'[p].results) = execution'.commands,
         At(p, "gate")' => Len(runner'[p].results) + 1 = execution'.commands,
         At(p, "start")' => Len(runner'[p].results) < Len(Checks),
         At(p, "start")' \/ At(p, "gate")' =>
           \A i \in 1..Len(runner'[p].results) : runner'[p].results[i] = "passed",
         \A i \in 1..Len(runner'[p].results) :
           i < Len(runner'[p].results) => runner'[p].results[i] = "passed",
         \A i \in DOMAIN Checks : started'[i] = IF i <= execution'.commands THEN 1 ELSE 0
  PROVE  RunnersInv'
<1>0. Checks' = Checks
  BY DEF Checks
<1>1. \A q \in Runners : q # p => ~Late(q) /\ ~Late(q)'
  BY DEF RunnersInv, OneRunner, Late
<1>2. OneRunner'
  BY <1>1 DEF OneRunner
<1>3. ResultsAreCounted'
  <2> SUFFICES ASSUME NEW q \in Runners
      PROVE  /\ ~Late(q)' => runner'[q].results = <<>>
             /\ Late(q)' /\ ~At(q, "gate")' => Len(runner'[q].results) = execution'.commands
             /\ At(q, "gate")' => Len(runner'[q].results) + 1 = execution'.commands
             /\ At(q, "start")' => Len(runner'[q].results) < Len(Checks)
             /\ At(q, "start")' \/ At(q, "gate")' =>
                  \A i \in 1..Len(runner'[q].results) : runner'[q].results[i] = "passed"
    BY <1>0 DEF ResultsAreCounted
  <2>1. CASE q = p
    BY <2>1
  <2>2. CASE q # p
    BY <2>2, <1>1 DEF At, Late, Claimed, RunnersInv, ResultsAreCounted
  <2> QED BY <2>1, <2>2
<1>4. StartsAreCounted' /\ SuccessIsComplete'
  BY <1>0 DEF StartsAreCounted, SuccessIsComplete
<1>5. GatesStopAtFirstFailure'
  BY DEF RunnersInv, GatesStopAtFirstFailure
<1> QED BY <1>2, <1>3, <1>4, <1>5 DEF RunnersInv

LEMMA StartKeepsRunners ==
  ASSUME CompatibilityTypeOK, RunnersInv, NEW p \in Runners, StartGate(p)
  PROVE  RunnersInv'
<1>0. /\ runner \in [Runners -> RunnerState] /\ execution \in Execution
      /\ started \in [DOMAIN Checks -> Nat] /\ DOMAIN Checks = 1..Len(Checks)
      /\ Len(Checks) \in Nat /\ Len(runner[p].results) \in Nat
      /\ At(p, "start") /\ schedule' = schedule
  BY Shapes DEF StartGate, CompatibilityTypeOK
<1>1. Late(p)
  BY <1>0 DEF At, Late, Claimed
<1>2. /\ execution.status = "running" /\ execution.commands = Len(runner[p].results)
      /\ execution.commands < Len(Checks)
      /\ \A i \in 1..Len(runner[p].results) : runner[p].results[i] = "passed"
  BY <1>0, <1>1 DEF RunnersInv, OneRunner, ResultsAreCounted, At
<1>3. /\ Move(p, "gate")
      /\ execution' = [execution EXCEPT !.commands = @ + 1]
      /\ started' = [started EXCEPT ![execution.commands + 1] = @ + 1]
  BY <1>2 DEF StartGate
<1>4. /\ runner'[p].step = "gate" /\ runner'[p].results = runner[p].results
      /\ \A q \in Runners : q # p => runner'[q] = runner[q]
  BY <1>0, <1>3, Moved DEF RunnerSteps, Claimed
<1>5. execution'.status = "running" /\ execution'.commands = execution.commands + 1
  BY <1>0, <1>2, <1>3 DEF Execution
<1>6. execution.commands \in Nat
  BY <1>0 DEF Execution
<1>7. \A i \in DOMAIN Checks : started'[i] = IF i <= execution'.commands THEN 1 ELSE 0
  <2> TAKE i \in DOMAIN Checks
  <2>1. started[i] = IF i <= execution.commands THEN 1 ELSE 0
    BY DEF RunnersInv, StartsAreCounted
  <2>2. CASE i = execution.commands + 1
    BY <1>0, <1>3, <1>5, <1>6, <2>1, <2>2
  <2>3. CASE i # execution.commands + 1
    BY <1>0, <1>3, <1>5, <1>6, <2>1, <2>3
  <2> QED BY <2>2, <2>3
<1>8. Late(p)' /\ At(p, "gate")' /\ ~At(p, "start")'
  BY <1>4 DEF Late, At, Claimed
<1>9. Len(runner'[p].results) + 1 = execution'.commands
  BY <1>2, <1>4, <1>5
<1>10. \A i \in 1..Len(runner'[p].results) : runner'[p].results[i] = "passed"
  BY <1>2, <1>4
<1> QED BY <1>0, <1>1, <1>4, <1>5, <1>7, <1>8, <1>9, <1>10, ClaimantKeepsRunners

LEMMA EndKeepsRunners ==
  ASSUME CompatibilityTypeOK, RunnersInv, NEW p \in Runners, NEW result \in Results,
         EndGate(p, result)
  PROVE  RunnersInv'
<1> DEFINE results == runner[p].results
<1>0. /\ runner \in [Runners -> RunnerState] /\ results \in Seq(Results) /\ Len(results) \in Nat
      /\ At(p, "gate") /\ UNCHANGED <<schedule, execution, started>>
  BY Shapes DEF EndGate
<1>1. Late(p)
  BY <1>0 DEF At, Late, Claimed
<1>2. /\ execution.status = "running" /\ Len(results) + 1 = execution.commands
      /\ \A i \in 1..Len(results) : results[i] = "passed"
  BY <1>0, <1>1 DEF RunnersInv, OneRunner, ResultsAreCounted, At
<1>3. /\ runner'[p].step = "inspect" /\ runner'[p].results = Append(results, result)
      /\ \A q \in Runners : q # p => runner'[q] = runner[q]
  BY <1>0 DEF EndGate, RunnerState
<1>4. /\ Len(runner'[p].results) = Len(results) + 1
      /\ \A i \in 1..Len(results) : runner'[p].results[i] = results[i]
  BY <1>0, <1>3, Extended
<1>5. Late(p)' /\ ~At(p, "gate")' /\ ~At(p, "start")'
  BY <1>3 DEF Late, At, Claimed
<1>6. \A i \in 1..Len(runner'[p].results) :
        i < Len(runner'[p].results) => runner'[p].results[i] = "passed"
  BY <1>0, <1>2, <1>4
<1>7. \A i \in DOMAIN Checks : started'[i] = IF i <= execution'.commands THEN 1 ELSE 0
  BY <1>0 DEF RunnersInv, StartsAreCounted
<1>8. execution'.status = "running" /\ Len(runner'[p].results) = execution'.commands
  BY <1>0, <1>2, <1>4
<1> QED BY <1>0, <1>1, <1>3, <1>5, <1>6, <1>7, <1>8, ClaimantKeepsRunners

LEMMA InspectionKeepsRunners ==
  ASSUME CompatibilityTypeOK, RunnersInv, NEW p \in Runners, InspectAfterGate(p)
  PROVE  RunnersInv'
<1> DEFINE results == runner[p].results
<1>0. /\ runner \in [Runners -> RunnerState] /\ results \in Seq(Results) /\ Len(results) \in Nat
      /\ At(p, "inspect") /\ UNCHANGED <<schedule, execution, started>>
  BY Shapes DEF InspectAfterGate
<1>1. Late(p)
  BY <1>0 DEF At, Late, Claimed
<1>2. /\ execution.status = "running" /\ Len(results) = execution.commands
      /\ \A i \in 1..Len(results) : i < Len(results) => results[i] = "passed"
  BY <1>0, <1>1 DEF RunnersInv, OneRunner, ResultsAreCounted, GatesStopAtFirstFailure, At
<1>3. PICK s \in {"start", "final"} :
        /\ Move(p, s)
        /\ s = "start" => results[Len(results)] = "passed" /\ Len(results) < Len(Checks)
  BY DEF InspectAfterGate
<1>4. /\ runner'[p].step = s /\ runner'[p].results = results
      /\ \A q \in Runners : q # p => runner'[q] = runner[q]
  BY <1>0, <1>3, Moved DEF RunnerSteps, Claimed
<1>5. Late(p)' /\ ~At(p, "gate")' /\ (At(p, "start")' => s = "start")
  BY <1>3, <1>4 DEF Late, At, Claimed
<1>6. s = "start" => \A i \in 1..Len(results) : results[i] = "passed"
  BY <1>0, <1>2, <1>3
<1>7. \A i \in DOMAIN Checks : started'[i] = IF i <= execution'.commands THEN 1 ELSE 0
  BY <1>0 DEF RunnersInv, StartsAreCounted
<1> QED BY <1>0, <1>1, <1>2, <1>3, <1>4, <1>5, <1>6, <1>7, ClaimantKeepsRunners

LEMMA LastInspectionKeepsRunners ==
  ASSUME CompatibilityTypeOK, RunnersInv, NEW p \in Runners, InspectAtEnd(p)
  PROVE  RunnersInv'
<1>0. /\ runner \in [Runners -> RunnerState] /\ At(p, "final")
      /\ UNCHANGED <<schedule, execution, started>>
  BY Shapes DEF InspectAtEnd
<1>1. Late(p)
  BY <1>0 DEF At, Late, Claimed
<1>2. /\ runner'[p].step = "settle" /\ runner'[p].results = runner[p].results
      /\ \A q \in Runners : q # p => runner'[q] = runner[q]
  BY <1>0 DEF InspectAtEnd, RunnerState
<1>3. Late(p)' /\ ~At(p, "gate")' /\ ~At(p, "start")'
  BY <1>2 DEF Late, At, Claimed
<1>4. /\ execution'.status = "running" /\ Len(runner'[p].results) = execution'.commands
      /\ \A i \in 1..Len(runner'[p].results) :
           i < Len(runner'[p].results) => runner'[p].results[i] = "passed"
  BY <1>0, <1>1, <1>2
     DEF RunnersInv, OneRunner, ResultsAreCounted, GatesStopAtFirstFailure, At
<1>5. \A i \in DOMAIN Checks : started'[i] = IF i <= execution'.commands THEN 1 ELSE 0
  BY <1>0 DEF RunnersInv, StartsAreCounted
<1> QED BY <1>0, <1>1, <1>2, <1>3, <1>4, <1>5, ClaimantKeepsRunners

\* A runner returns, or stops: it leaves the execution as it is, or with a verdict.
LEMMA ReturnKeepsRunners ==
  ASSUME CompatibilityTypeOK, RunnersInv, NEW p \in Runners,
         runner' = [runner EXCEPT ![p] = Waiting], UNCHANGED <<schedule, started>>,
         execution'.commands = execution.commands,
         \/ execution' = execution
         \/ Late(p) /\ execution'.status \in Terminal,
         SuccessIsComplete'
  PROVE  RunnersInv'
<1>0. runner \in [Runners -> RunnerState] /\ Checks' = Checks
  BY Shapes DEF Checks
<1>1. /\ runner'[p].step = "idle" /\ runner'[p].results = <<>>
      /\ \A q \in Runners : q # p => runner'[q] = runner[q]
  BY <1>0, Forgotten
<1>2. ~Late(p)' /\ \A q \in Runners : q # p => (Late(q)' <=> Late(q))
  BY <1>1 DEF Late, Claimed
<1>3. ASSUME NEW q \in Runners, q # p, Late(q) PROVE execution' = execution
  BY <1>3 DEF RunnersInv, OneRunner
<1>4. OneRunner'
  BY <1>2, <1>3 DEF RunnersInv, OneRunner
<1>5. ResultsAreCounted'
  <2> SUFFICES ASSUME NEW q \in Runners
      PROVE  /\ ~Late(q)' => runner'[q].results = <<>>
             /\ Late(q)' /\ ~At(q, "gate")' => Len(runner'[q].results) = execution'.commands
             /\ At(q, "gate")' => Len(runner'[q].results) + 1 = execution'.commands
             /\ At(q, "start")' => Len(runner'[q].results) < Len(Checks)
             /\ At(q, "start")' \/ At(q, "gate")' =>
                  \A i \in 1..Len(runner'[q].results) : runner'[q].results[i] = "passed"
    BY <1>0 DEF ResultsAreCounted
  <2>1. CASE q = p
    BY <2>1, <1>1, <1>2 DEF At
  <2>2. CASE q # p
    BY <2>2, <1>1, <1>2, <1>3 DEF At, RunnersInv, ResultsAreCounted, Late, Claimed
  <2> QED BY <2>1, <2>2
<1>6. StartsAreCounted'
  BY <1>0 DEF RunnersInv, StartsAreCounted, Terminal
<1>7. GatesStopAtFirstFailure'
  BY <1>1 DEF RunnersInv, GatesStopAtFirstFailure
<1> QED BY <1>4, <1>5, <1>6, <1>7 DEF RunnersInv

LEMMA SettlementKeepsRunners ==
  ASSUME CompatibilityTypeOK, RunnersInv, NEW p \in Runners, SettleExecution(p)
  PROVE  RunnersInv'
<1> DEFINE results == runner[p].results
           saw == runner[p].saw
           ends == Verdict(results, saw)
<1>0. /\ runner' = [runner EXCEPT ![p] = Waiting] /\ UNCHANGED <<schedule, started>>
      /\ execution \in Execution /\ Checks' = Checks /\ At(p, "settle")
  BY Shapes DEF SettleExecution, Checks
<1>1. Late(p)
  BY <1>0 DEF Late, At, Claimed
<1>2. Len(results) = execution.commands
  BY <1>0, <1>1 DEF RunnersInv, ResultsAreCounted, At
<1>3. CASE execution' = execution
  <2>1. SuccessIsComplete'
    BY <1>0, <1>3 DEF RunnersInv, SuccessIsComplete, AllPassed
  <2> QED BY <1>0, <1>3, <2>1, ReturnKeepsRunners
<1>4. CASE execution' = [execution EXCEPT !.status = ends, !.violation = ~saw, !.gates = results]
  <2>1. /\ execution'.status = ends /\ execution'.violation = ~saw
        /\ execution'.gates = results /\ execution'.commands = execution.commands
    BY <1>0, <1>4 DEF Execution
  <2>2. ends \in Terminal /\ (ends = "succeeded" => saw /\ AllPassed(results))
    BY DEF Verdict, Terminal
  <2>3. SuccessIsComplete'
    BY <1>0, <1>2, <2>1, <2>2 DEF SuccessIsComplete, AllPassed
  <2> QED BY <1>0, <1>1, <2>1, <2>2, <2>3, ReturnKeepsRunners
<1> QED BY <1>3, <1>4 DEF SettleExecution

LEMMA RunnersKept ==
  ASSUME CompatibilityTypeOK, RunnersInv, [CompatibilityNext]_compatibilityVars
  PROVE  RunnersInv'
<1>1. CASE \/ \E r \in Members, e \in {"unchanged", "draft", "approved"} : Advance(r, e)
           \/ \E c \in {"scheduled", "regated", "withdrawn"} : Deploy(c)
           \/ \E r \in Members : Tamper(r) \/ Restore(r)
           \/ AdmitPlan \/ AuthorizeGates \/ OpenBarrier \/ UNCHANGED compatibilityVars
  <2>1. UNCHANGED <<schedule, runner, execution, started>>
    BY <1>1 DEF Advance, Deploy, Tamper, Restore, AdmitPlan, AuthorizeGates, OpenBarrier,
                compatibilityVars
  <2> QED BY <2>1, OthersKeepRunners
<1>2. CASE ReserveExecution
  BY <1>2, ReserveKeepsRunners
<1>3. ASSUME NEW p \in Runners, Prepare(p) PROVE RunnersInv'
  <2>1. ~Late(p)
    BY <1>3 DEF Prepare, At, Late, Claimed
  <2>2. /\ Move(p, "record") \/ Move(p, "claim")
        /\ UNCHANGED <<schedule, execution, started>>
    BY <1>3 DEF Prepare
  <2> QED BY <2>1, <2>2, UnclaimedKeepRunners
<1>4. ASSUME NEW p \in Runners, RecordPreflight(p) PROVE RunnersInv'
  <2>1. ~Late(p)
    BY <1>4 DEF RecordPreflight, At, Late, Claimed
  <2>2. execution \in Execution
    BY Shapes
  <2>3. /\ Move(p, "claim") /\ UNCHANGED <<schedule, started>>
        /\ \/ execution' = execution
           \/ /\ execution.status \in {"none", "reserved"}
              /\ execution' = [execution EXCEPT !.status = "prepared"]
    BY <1>4, <2>2 DEF RecordPreflight, Execution
  <2> QED BY <2>1, <2>3, UnclaimedKeepRunners
<1>5. ASSUME NEW p \in Runners, Crash(p) PROVE RunnersInv'
  <2>1. /\ runner' = [runner EXCEPT ![p] = Waiting]
        /\ UNCHANGED <<schedule, execution, started>>
    BY <1>5 DEF Crash
  <2>2. SuccessIsComplete'
    BY <2>1 DEF RunnersInv, SuccessIsComplete, AllPassed, Checks
  <2> QED BY <2>1, <2>2, ReturnKeepsRunners
<1> QED BY <1>1, <1>2, <1>3, <1>4, <1>5, ClaimKeepsRunners, StartKeepsRunners, EndKeepsRunners,
           InspectionKeepsRunners, LastInspectionKeepsRunners, SettlementKeepsRunners
        DEF CompatibilityNext, RunnerStep

(***************************************************************************)
(* The plan and the barrier                                                *)
(***************************************************************************)
\* Runners neither begin an execution nor touch a verdict.
LEMMA VerdictUntouched ==
  ASSUME execution \in Execution, NEW p \in Runners, RunnerStep(p) \/ Crash(p)
  PROVE  /\ execution.status = "none" => execution'.status = "none"
         /\ execution.status \in Terminal => execution' = execution
         /\ UNCHANGED <<schedule, record, plan, authorized, barrier>>
<1> USE DEF Terminal
<1>1. CASE Prepare(p) \/ InspectAfterGate(p) \/ InspectAtEnd(p) \/ Crash(p)
           \/ \E result \in Results : EndGate(p, result)
  BY <1>1 DEF Prepare, InspectAfterGate, InspectAtEnd, Crash, EndGate
<1>2. CASE RecordPreflight(p) \/ Claim(p)
  BY <1>2 DEF RecordPreflight, Claim, Execution
<1>3. CASE StartGate(p)
  BY <1>3 DEF StartGate
<1>4. CASE SettleExecution(p)
  BY <1>4 DEF SettleExecution
<1> QED BY <1>1, <1>2, <1>3, <1>4 DEF RunnerStep

LEMMA PlanKept ==
  ASSUME CompatibilityTypeOK, PlanInv, [CompatibilityNext]_compatibilityVars
  PROVE  PlanInv'
<1> USE DEF PlanInv, RestsOnPlan, PlanStaysReadable, Planned, Completed, Bound, Manifest, Checks
<1>1. ASSUME NEW r \in Members, NEW e \in {"unchanged", "draft", "approved"}, Advance(r, e)
      PROVE  PlanInv'
  <2>1. UNCHANGED <<schedule, plan, authorized, execution, barrier>>
    BY <1>1 DEF Advance
  <2>2. RestsOnPlan'
    BY <2>1
  <2>3. record' = [record EXCEPT ![r] = e] /\ record \in [Members -> {"none", "unchanged", "draft", "approved"}]
    BY <1>1 DEF Advance, CompatibilityTypeOK
  <2>4. ASSUME Planned, NEW q \in Members PROVE Completed(q)' /\ plan'[q] = Bound(q)'
    <3>1. CASE q # r
      BY <2>1, <2>3, <2>4, <3>1
    <3>2. CASE q = r
      \* The member had completed: what is new is a review nobody scheduled.
      <4>1. record[r] = "draft" /\ e = "approved"
        BY <1>1, <2>4 DEF Advance
      <4> QED BY <2>1, <2>3, <2>4, <3>2, <4>1
    <3> QED BY <3>1, <3>2
  <2> QED BY <2>1, <2>2, <2>4
<1>2. CASE AdmitPlan
  <2>1. /\ plan' = [r \in Members |-> Bound(r)] /\ ~Planned
        /\ UNCHANGED <<schedule, record, authorized, execution, barrier>>
        /\ \A r \in Members : Completed(r)
    BY <1>2 DEF AdmitPlan
  <2>2. ~authorized /\ execution.status = "none" /\ ~barrier
    BY <2>1
  <2>3. \A r \in Members : Completed(r)' /\ plan'[r] = Bound(r)'
    BY <2>1
  <2> QED BY <2>1, <2>2, <2>3
<1>3. CASE AuthorizeGates
  BY <1>3 DEF AuthorizeGates
<1>4. CASE ReserveExecution
  BY <1>4 DEF ReserveExecution
<1>5. CASE OpenBarrier
  BY <1>5 DEF OpenBarrier
<1>6. CASE \/ \E c \in {"scheduled", "regated", "withdrawn"} : Deploy(c)
           \/ \E r \in Members : Tamper(r) \/ Restore(r)
           \/ UNCHANGED compatibilityVars
  <2>1. UNCHANGED <<schedule, record, plan, authorized, execution, barrier>>
    BY <1>6 DEF Deploy, Tamper, Restore, compatibilityVars
  <2> QED BY <2>1
<1>7. ASSUME NEW p \in Runners, RunnerStep(p) \/ Crash(p) PROVE PlanInv'
  <2>1. /\ execution.status = "none" => execution'.status = "none"
        /\ execution.status = "succeeded" => execution' = execution
        /\ UNCHANGED <<schedule, record, plan, authorized, barrier>>
    BY <1>7, Shapes, VerdictUntouched DEF Terminal
  <2> QED BY <2>1
<1> QED BY <1>1, <1>2, <1>3, <1>4, <1>5, <1>6, <1>7 DEF CompatibilityNext

(***************************************************************************)
(* The theorems of the checks                                              *)
(***************************************************************************)
LEMMA BarrierStarts == CompatibilityInit => BarrierInv
<1> SUFFICES ASSUME CompatibilityInit PROVE BarrierInv
  OBVIOUS
<1> USE DEF CompatibilityInit
<1>1. Checks \in Seq(SUBSET Members) /\ Len(Checks) \in Nat
  BY CompatibilityAssumption DEF CompatibilityAssumption, Checks
<1>2. /\ execution = NotReserved /\ NotReserved.status = "none" /\ NotReserved.commands = 0
      /\ NotReserved \in Execution
  BY <1>1 DEF NotReserved, Execution
<1>3. Waiting \in RunnerState /\ Waiting.step = "idle" /\ Waiting.results = <<>>
  BY DEF Waiting, RunnerState, RunnerSteps
<1>4. runner \in [Runners -> RunnerState] /\ \A p \in Runners : runner[p] = Waiting
  BY <1>3
<1>5. CompatibilityTypeOK
  <2>1. started \in [DOMAIN Checks -> Nat] /\ \A i \in DOMAIN Checks : started[i] = 0
    BY DEF Checks
  <2>2. authorized \in BOOLEAN /\ barrier \in BOOLEAN /\ noticed \in BOOLEAN
    OBVIOUS
  <2>3. /\ deploys \in 0..MaxDeploys /\ tampers \in 0..MaxTampers
        /\ restores \in 0..MaxRestores /\ crashes \in 0..MaxCrashes
    BY CompatibilityAssumption DEF CompatibilityAssumption
  <2>4. execution \in Execution
    BY <1>2
  <2>5. /\ record \in [Members -> {"none", "unchanged", "draft", "approved"}]
        /\ plan \in [Members -> {"none", "unchanged", "draft", "approved"}]
        /\ contract \in {"scheduled", "regated", "withdrawn"}
        /\ checkout \in [Members -> {"patch", "changed"}] /\ schedule \in Schedules
    OBVIOUS
  <2> QED BY <1>4, <2>1, <2>2, <2>3, <2>4, <2>5
          DEF CompatibilityTypeOK, Execution, RunnerState, RunnerSteps, Claimed
<1>6. \A p \in Runners : ~Late(p) /\ runner[p].results = <<>> /\ runner[p].step = "idle"
  BY <1>3, <1>4 DEF Late, Claimed
<1>7. OneRunner /\ ResultsAreCounted /\ GatesStopAtFirstFailure
  BY <1>6 DEF OneRunner, ResultsAreCounted, GatesStopAtFirstFailure, At
<1>8. StartsAreCounted
  BY <1>1, <1>2 DEF StartsAreCounted, Checks
<1>9. SuccessIsComplete /\ RestsOnPlan
  BY <1>2 DEF SuccessIsComplete, RestsOnPlan
<1>10. PlanStaysReadable
  BY DEF PlanStaysReadable, Planned, Completed, Bound
<1> QED BY <1>5, <1>7, <1>8, <1>9, <1>10 DEF BarrierInv

LEMMA BarrierInvMeansEarned == BarrierInv => BarrierIsEarned
<1> SUFFICES ASSUME BarrierInv PROVE BarrierIsEarned
  OBVIOUS
<1> USE DEF BarrierInv
<1>0. Len(Checks) \in Nat /\ DOMAIN Checks = 1..Len(Checks)
  BY Shapes
<1>1. GatesRunOnce
  BY DEF GatesRunOnce, StartsAreCounted
<1>2. BarrierHasItsEvidence
  <2> SUFFICES ASSUME barrier PROVE BarrierHasItsEvidence
    BY DEF BarrierHasItsEvidence
  <2>1. /\ execution.status = "succeeded" /\ Planned
        /\ \A r \in Members : r \in Manifest /\ plan[r] = "approved"
    BY DEF RestsOnPlan
  <2>2. \A r \in Members : record[r] = "approved"
    BY <2>1 DEF PlanStaysReadable, Completed, Bound
  <2>3. AllPassed(execution.gates) /\ ~execution.violation
    BY <2>1 DEF SuccessIsComplete
  <2>4. \A i \in DOMAIN Checks : started[i] = 1
    BY <1>0, <2>1 DEF SuccessIsComplete, StartsAreCounted
  <2> QED BY <2>1, <2>2, <2>3, <2>4 DEF BarrierHasItsEvidence
<1> QED BY <1>1, <1>2 DEF BarrierIsEarned

\* In every reachable state, whatever runners crash, checkouts change and contracts are
\* redeployed: each gate was started at most once and only after all before it passed,
\* the verification plan is still the one its members give, and an open barrier has a
\* success of every gate behind it, over members that are all approved
\* (MultiRepositoryCompatibilityStore and the linked-publication authorization).
THEOREM EveryBarrierIsEarned == CompatibilitySpec => []BarrierIsEarned
<1>1. CompatibilityInit => BarrierInv
  BY BarrierStarts
<1>2. BarrierInv /\ [CompatibilityNext]_compatibilityVars => BarrierInv'
  <2> SUFFICES ASSUME BarrierInv, [CompatibilityNext]_compatibilityVars PROVE BarrierInv'
    OBVIOUS
  <2>1. CompatibilityTypeOK'
    BY TypesKept DEF BarrierInv
  <2>2. RunnersInv'
    BY RunnersKept DEF BarrierInv, RunnersInv
  <2>3. PlanInv'
    BY PlanKept DEF BarrierInv, PlanInv
  <2> QED BY <2>1, <2>2, <2>3 DEF BarrierInv, RunnersInv, PlanInv
<1>3. BarrierInv => BarrierIsEarned
  BY BarrierInvMeansEarned
<1> QED BY <1>1, <1>2, <1>3, PTL DEF CompatibilitySpec

\* No step writes a verdict again: neither the runner that settled it, nor one that
\* prepared at the same time, nor a reservation.
THEOREM VerdictsStand == CompatibilitySpec => VerdictStands
<1>1. CompatibilitySpec => []CompatibilityTypeOK
  BY EveryBarrierIsEarned, PTL DEF BarrierIsEarned
<1>2. CompatibilityTypeOK /\ [CompatibilityNext]_compatibilityVars
        => [execution.status \in Terminal => execution' = execution]_compatibilityVars
  <2> SUFFICES ASSUME CompatibilityTypeOK, CompatibilityNext, execution.status \in Terminal
               PROVE  execution' = execution
    OBVIOUS
  <2>1. CASE \E p \in Runners : RunnerStep(p) \/ Crash(p)
    BY <2>1, Shapes, VerdictUntouched
  <2>2. CASE ~\E p \in Runners : RunnerStep(p) \/ Crash(p)
    BY <2>2 DEF CompatibilityNext, Advance, Deploy, Tamper, Restore, AdmitPlan, AuthorizeGates,
                ReserveExecution, OpenBarrier, Terminal
  <2> QED BY <2>1, <2>2
<1> QED BY <1>1, <1>2, PTL DEF CompatibilitySpec, VerdictStands
===============================================================================
