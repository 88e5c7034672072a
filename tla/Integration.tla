----------------------------- MODULE Integration -----------------------------
(***************************************************************************)
(* The invocation that integrates one assembled task: preparation of the   *)
(* worktree, clean-stack preflight, the sole worker call, the trusted      *)
(* evaluation of what it left, the repository gates and the final          *)
(* integrity check.  Requests to execute it overlap, stop anywhere and are *)
(* made again; each transaction of the invocation store is one step.       *)
(***************************************************************************)
EXTENDS IntegrationConflict

CONSTANTS
  Requests,        \* requests to execute the invocation
  Policies,        \* "allowed", "denied": may the repository snapshot run workers
  MaxRecoveries    \* bound: claims an operator recovers

ASSUME IntegrationAssumption ==
  /\ Policies \subseteq {"allowed", "denied"} /\ MaxRecoveries \in Nat
  /\ "direct" \notin Promotions

VARIABLES
  policy,          \* the policy snapshot of the parent job
  inv,             \* the invocation: [on, status, prep, preflight, outcome, verdict]
  invClaim,        \* its organization capacity claim
  invStale,        \* the phase it is in has run past its timeout and grace minute
  request,         \* request[c]: [step, saw, seen]; seen is the worktree it found
                   \* after the gates it ran, kept to state SuccessIsVerified
  workerAnswers,   \* worker calls really made
  recoveries

integrationVars == <<policy, inv, invClaim, invStale, request, workerAnswers, recoveries>>
allVars == <<conflictVars, integrationVars>>

NoInvocation == [on |-> "none", status |-> "absent", prep |-> "none", preflight |-> "none",
                 outcome |-> "none", verdict |-> "none"]
Waiting == [step |-> "idle", saw |-> "none", seen |-> "none"]
Settled == {"succeeded", "blocked", "failed"}

\* The worktree of the assembly the invocation was reserved for.
Worktree == IF inv.on \in Promotions THEN promotion[inv.on].of ELSE "direct"

Stands(c, step)      == request[c].step = step
Moves(c, step, saw, seen) ==
  request' = [request EXCEPT ![c] = [step |-> step, saw |-> saw, seen |-> seen]]
GoOn(c, step, saw)   == Moves(c, step, saw, "none")
Answer(c)            == request' = [request EXCEPT ![c] = Waiting]
Unmoved              == UNCHANGED <<policy, inv, invClaim, invStale, workerAnswers, recoveries>>
Leaves(content) ==
  /\ workspace' = [workspace EXCEPT ![Worktree] = content]
  /\ UNCHANGED <<assembly, resolution, agent, claim, stale, promotion, caller, answers, crashes>>

\* One invocation per assembly.
ReserveInvocation(q) ==
  /\ inv = NoInvocation /\ q \in Candidates
  /\ inv' = [NoInvocation EXCEPT !.on = q, !.status = "reserved"]
  /\ UNCHANGED <<policy, invClaim, invStale, request, workerAnswers, recoveries, conflictVars>>

\* A policy that forbids workers ends the invocation before anything is run.
DenyByPolicy ==
  /\ policy = "denied" /\ inv.status = "reserved" /\ inv.preflight = "none"
  /\ inv' = [inv EXCEPT !.status = "blocked", !.preflight = "blocked"]
  /\ UNCHANGED <<policy, invClaim, invStale, request, workerAnswers, recoveries, conflictVars>>

Begin(c) ==
  /\ Stands(c, "idle") /\ policy = "allowed"
  /\ \/ inv.prep = "none" /\ inv.status \in {"reserved", "preparing"} /\ GoOn(c, "prepare", "none")
     \/ inv.prep = "passed" /\ inv.status = "reserved" /\ GoOn(c, "inspect", "none")
     \/ inv.preflight # "none" /\ inv.status \notin Settled /\ GoOn(c, "resume", "none")
  /\ Unmoved /\ UNCHANGED conflictVars

\* One request prepares; another one settles a preparation that never ended.
ClaimPreparation(c) ==
  /\ Stands(c, "prepare")
  /\ IF inv.prep = "none" /\ inv.status = "reserved"
       THEN inv' = [inv EXCEPT !.status = "preparing"] /\ invStale' = FALSE /\ GoOn(c, "command", "none")
       ELSE /\ IF inv.status = "preparing" /\ invStale THEN GoOn(c, "expire", "none")
               ELSE IF inv.status = "reserved" THEN GoOn(c, "inspect", "none") ELSE Answer(c)
            /\ UNCHANGED <<inv, invStale>>
  /\ UNCHANGED <<policy, invClaim, workerAnswers, recoveries, conflictVars>>

\* The repository's preparation command has run in the worktree.  Its result is
\* refused when the preparation was settled by somebody else.
Prepare(c, passed, left) ==
  /\ Stands(c, "command") /\ Leaves(left)
  /\ IF inv.prep = "none" /\ inv.status = "preparing"
       THEN /\ inv' = [inv EXCEPT !.prep = IF passed THEN "passed" ELSE "failed",
                                  !.status = IF passed THEN "reserved" ELSE "blocked"]
            /\ IF passed THEN GoOn(c, "inspect", "none") ELSE Answer(c)
       ELSE Answer(c) /\ UNCHANGED inv
  /\ UNCHANGED <<policy, invClaim, invStale, workerAnswers, recoveries>>

ExpirePreparation(c) ==
  /\ Stands(c, "expire") /\ Answer(c)
  /\ inv' = IF inv.prep = "none" /\ inv.status = "preparing"
            THEN [inv EXCEPT !.prep = "failed", !.status = "blocked"] ELSE inv
  /\ UNCHANGED <<policy, invClaim, invStale, workerAnswers, recoveries, conflictVars>>

\* The stack must be exactly the assembled patch.
InspectStack(c) ==
  /\ Stands(c, "inspect")
  /\ IF inv.preflight # "none" THEN GoOn(c, "resume", "none")
     ELSE IF inv.status # "reserved" THEN Answer(c)
     ELSE GoOn(c, "record", IF workspace[Worktree] = "resolved" THEN "passed" ELSE "blocked")
  /\ Unmoved /\ UNCHANGED conflictVars

\* Recording a passed preflight claims the sole worker call and its capacity.  The
\* same evidence again claims nothing; other evidence is refused.
RecordPreflight(c) ==
  LET seen == request[c].saw IN
  /\ Stands(c, "record")
  /\ IF inv.preflight = "none" /\ inv.status = "reserved"
       THEN /\ inv' = [inv EXCEPT !.preflight = seen, !.status = IF seen = "passed" THEN "running" ELSE "blocked"]
            /\ invClaim' = IF seen = "passed" THEN "active" ELSE invClaim
            /\ invStale' = FALSE
            /\ IF seen = "passed" THEN GoOn(c, "work", "none") ELSE Answer(c)
       ELSE /\ IF inv.preflight = seen THEN GoOn(c, "resume", "none") ELSE Answer(c)
            /\ UNCHANGED <<inv, invClaim, invStale>>
  /\ UNCHANGED <<policy, workerAnswers, recoveries, conflictVars>>

\* The organization has no slot: the preflight is not recorded either.
CapacityRefused(c) ==
  /\ Stands(c, "record") /\ request[c].saw = "passed" /\ inv.preflight = "none" /\ Answer(c)
  /\ Unmoved /\ UNCHANGED conflictVars

\* What a request does that claimed nothing.
Resume(c) ==
  /\ Stands(c, "resume")
  /\ IF inv.status = "awaiting_gates" THEN GoOn(c, "gates", "none")
     ELSE IF inv.status = "running" /\ invStale THEN GoOn(c, "fail", "none")
     ELSE Answer(c)
  /\ Unmoved /\ UNCHANGED conflictVars

Untouched(content) == IF workspace[Worktree] = "other" THEN "other" ELSE content

WorkerReturns(c, left, answered) ==
  /\ Stands(c, "work") /\ Leaves(Untouched(left))
  /\ workerAnswers' = workerAnswers + 1
  /\ GoOn(c, IF answered THEN "evaluate" ELSE "fail", "none")
  /\ UNCHANGED <<policy, inv, invClaim, invStale, recoveries>>

\* evaluateIntegrationWorker: the worktree decides, and the worker may block itself.
EvaluateWorker(c, readable, blocks) ==
  /\ Stands(c, "evaluate")
  /\ IF ~readable THEN GoOn(c, "fail", "none")
     ELSE GoOn(c, "complete", IF blocks \/ workspace[Worktree] = "other" THEN "blocked" ELSE workspace[Worktree])
  /\ Unmoved /\ UNCHANGED conflictVars

InvocationSettles == inv.status = "running" /\ invClaim = "active"

CompleteWorker(c) ==
  LET seen == request[c].saw IN
  /\ Stands(c, "complete")
  /\ IF InvocationSettles
       THEN /\ inv' = [inv EXCEPT !.outcome = seen,
                                  !.status = IF seen = "blocked" THEN "blocked" ELSE "awaiting_gates"]
            /\ invClaim' = "released"
            /\ IF seen = "blocked" THEN Answer(c) ELSE GoOn(c, "gates", "none")
       ELSE Answer(c) /\ UNCHANGED <<inv, invClaim>>
  /\ UNCHANGED <<policy, invStale, workerAnswers, recoveries, conflictVars>>

\* The failure releases the claim or is not recorded at all.
FailInvocation(c) ==
  /\ Stands(c, "fail") /\ Answer(c)
  /\ IF InvocationSettles THEN inv' = [inv EXCEPT !.status = "failed"] /\ invClaim' = "released"
                          ELSE UNCHANGED <<inv, invClaim>>
  /\ UNCHANGED <<policy, invStale, workerAnswers, recoveries, conflictVars>>

\* Commands of the repository run in the worktree and may change it.
RunGates(c, passed, left) ==
  /\ Stands(c, "gates")
  /\ IF inv.status = "awaiting_gates"
       THEN GoOn(c, "integrity", IF passed THEN "succeeded" ELSE "blocked") /\ Leaves(left)
       ELSE Answer(c) /\ UNCHANGED conflictVars
  /\ Unmoved

\* Fault: the worktree is not looked at again after the gates.
SkipIntegrity(c) ==
  /\ Stands(c, "integrity") /\ GoOn(c, "settle", request[c].saw)
  /\ Unmoved /\ UNCHANGED conflictVars

\* After the gates the worktree must still be what the worker's outcome says.
CheckIntegrity(c) ==
  /\ Stands(c, "integrity")
  /\ Moves(c, "settle", IF workspace[Worktree] = inv.outcome THEN request[c].saw ELSE "blocked",
            workspace[Worktree])
  /\ Unmoved /\ UNCHANGED conflictVars

SettleGates(c) ==
  /\ Stands(c, "settle") /\ Answer(c)
  /\ inv' = IF inv.status = "awaiting_gates"
            THEN [inv EXCEPT !.status = request[c].saw, !.verdict = request[c].saw] ELSE inv
  /\ UNCHANGED <<policy, invClaim, invStale, workerAnswers, recoveries, conflictVars>>

Stop(c) ==
  /\ ~Stands(c, "idle") /\ crashes < MaxCrashes
  /\ Answer(c) /\ crashes' = crashes + 1
  /\ Unmoved
  /\ UNCHANGED <<assembly, resolution, workspace, agent, claim, stale, promotion, caller, answers>>

OutlivePhase ==
  /\ inv.status \in {"preparing", "running"} /\ ~invStale /\ invStale' = TRUE
  /\ UNCHANGED <<policy, inv, invClaim, request, workerAnswers, recoveries, conflictVars>>

RecoverInvocationClaim ==
  /\ invClaim = "active" /\ recoveries < MaxRecoveries
  /\ invClaim' = "ambiguous" /\ recoveries' = recoveries + 1
  /\ UNCHANGED <<policy, inv, invStale, request, workerAnswers, conflictVars>>

IntegrationInit ==
  /\ ConflictInit
  /\ policy \in Policies /\ inv = NoInvocation /\ invClaim = "none" /\ invStale = FALSE
  /\ request = [c \in Requests |-> Waiting] /\ workerAnswers = 0 /\ recoveries = 0

Serve(c) ==
  \/ Begin(c) \/ ClaimPreparation(c) \/ ExpirePreparation(c) \/ InspectStack(c)
  \/ RecordPreflight(c) \/ Resume(c)
  \/ \E yes \in BOOLEAN, left \in {workspace[Worktree], "other"} :
       Prepare(c, yes, left) \/ RunGates(c, yes, left)
  \/ \E left \in {"resolved", "worked", "other"}, yes \in BOOLEAN : WorkerReturns(c, left, yes)
  \/ \E readable, blocks \in BOOLEAN : EvaluateWorker(c, readable, blocks)
  \/ CompleteWorker(c) \/ FailInvocation(c) \/ CheckIntegrity(c) \/ SettleGates(c)

IntegrationNext ==
  \/ ConflictNext /\ UNCHANGED integrationVars
  \/ \E q \in {"direct"} \cup Promotions : ReserveInvocation(q)
  \/ DenyByPolicy \/ OutlivePhase \/ RecoverInvocationClaim
  \/ \E c \in Requests : Serve(c) \/ CapacityRefused(c) \/ Stop(c)

IntegrationSpec == IntegrationInit /\ [][IntegrationNext]_allVars

-----------------------------------------------------------------------------
IntegrationTypeOK ==
  /\ ConflictTypeOK
  /\ policy \in Policies
  /\ inv \in [on : {"none", "direct"} \cup Promotions,
              status : {"absent", "reserved", "preparing", "running", "awaiting_gates"} \cup Settled,
              prep : {"none", "passed", "failed"}, preflight : {"none", "passed", "blocked"},
              outcome : {"none", "resolved", "worked", "blocked"}, verdict : {"none", "succeeded", "blocked"}]
  /\ invClaim \in {"none", "active", "released", "ambiguous"}
  /\ invStale \in BOOLEAN /\ workerAnswers \in Nat /\ recoveries \in 0..MaxRecoveries
  /\ request \in [Requests -> [saw : {"none", "passed", "blocked", "resolved", "worked", "succeeded"},
       seen : {"none", "resolved", "worked", "other"},
       step : {"idle", "prepare", "command", "expire", "inspect", "record", "resume", "work", "evaluate",
               "complete", "fail", "gates", "integrity", "settle"}]]

(* The worker of an integration is called once, however many requests       *)
(* execute the invocation, stop and execute it again.                       *)
WorkerRunsOnce == workerAnswers <= 1

(* What an invocation has recorded stays: requests that overlap, a          *)
(* preparation or a call that outlived its timeout and answers late, never  *)
(* replace evidence, and a settled invocation is settled for good.          *)
EvidenceIsImmutable ==
  [][/\ inv.status \in Settled => inv' = inv
     /\ \A e \in {"prep", "preflight", "outcome", "verdict"} : inv[e] # "none" => inv'[e] = inv[e]]_allVars

(* Nothing that writes to the worktree goes unnoticed: the request that     *)
(* settles an invocation as succeeded has looked at it after its own gates  *)
(* and found the outcome of the worker, the whole chain before it passed,   *)
(* and the capacity is free again.                                          *)
SuccessIsVerified ==
  [][(inv.status # "succeeded" /\ inv'.status = "succeeded") =>
       /\ \E c \in Requests : Stands(c, "settle") /\ request[c].seen = inv.outcome
       /\ inv.prep = "passed" /\ inv.preflight = "passed" /\ inv.outcome \in {"resolved", "worked"}
       /\ invClaim = "released"]_allVars

(* Capacity is held exactly while the worker call is under way, until an    *)
(* operator gives it up.                                                    *)
InvocationHoldsClaim ==
  /\ inv.status = "running" => invClaim \in {"active", "ambiguous"}
  /\ inv.status # "running" => invClaim \in {"none", "released"}

\* A task is integrated from one assembly by one worker call, after at most one call
\* for its conflict, and late answers count for nothing.
IntegrationIsSound ==
  /\ IntegrationTypeOK
  /\ OneModelCall
  /\ SoleCandidate
  /\ LateAnswerIsDropped
  /\ WorkerRunsOnce
  /\ InvocationHoldsClaim

\* What was called, decided or recorded once is never called, decided or written again.
IntegrationStands ==
  /\ ConflictCallIsOneUse
  /\ EvidenceIsImmutable
  /\ SuccessIsVerified
=============================================================================
