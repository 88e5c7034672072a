------------------------------ MODULE JobLedger ------------------------------
(***************************************************************************)
(* The job ledger and the services that drive it.  A run has one job; a    *)
(* job has implementation attempts, and an attempt has adversarial         *)
(* reviews.  Each ledger method is one SQLite transaction and so one       *)
(* action here.  ExecutionService, ReviewService and RunOrchestration-     *)
(* Service call those methods between awaits (worktrees, commands, model   *)
(* calls): such a call in progress is a member of executing, deciding or   *)
(* reviewing, and every other action may run between two of its steps.  A  *)
(* process may stop at any await, and nothing resumes its calls.           *)
(*                                                                         *)
(* Operators send the version they saw, and a stale version changes        *)
(* nothing; the version is therefore explicit only for the call that       *)
(* carries one across an await, the automatic review.  Runs belong to one  *)
(* principal and their policy snapshot permits execution.                  *)
(***************************************************************************)
EXTENDS Integers, Sequences, FiniteSets

CONSTANTS
  Runs,            \* admissions, one per (owner, idempotency key)
  Members,         \* the runs linked to a multi-repository change set
  NoRun,           \* the absent superseded run
  ReviewEnabled,   \* reviewPolicy.enabled of the policy snapshots
  Ceiling,         \* workflows the enforced capacity policy allows at once
  MaxAttempts,     \* bound on the attempts of a job
  MaxVersion,      \* bound on the version an archive or a restore writes
  MaxCrashes       \* bound on the calls that stop half-way

ASSUME LedgerAssumption ==
  /\ Members \subseteq Runs /\ NoRun \notin Runs
  /\ ReviewEnabled \in BOOLEAN
  /\ Ceiling \in Nat /\ MaxAttempts \in Nat /\ MaxVersion \in Nat /\ MaxCrashes \in Nat

VARIABLES
  runStatus,     \* runs.status, "none" before admission
  jobStatus,     \* jobs.status
  version,       \* runs.version
  supersedes,    \* runs.supersedes_run_id
  archived,      \* the archive overlay, from the last archive or restore event
  attempts,      \* attempts of the job, by number, each with its capacity claim
  reviews,       \* reviews of the job, in order, each with its capacity claim
  executing,     \* ExecutionService.execute calls in progress
  deciding,      \* orchestrated runs about to ask for the automatic review
  reviewing,     \* ReviewService.review calls in progress
  crashes        \* calls lost so far

ledger == <<runStatus, jobStatus, version, supersedes, archived, attempts, reviews>>
calls  == <<executing, deciding, reviewing, crashes>>
vars   == <<ledger, calls>>

RunStatuses     == {"none", "pending", "active", "blocked", "succeeded", "failed", "cancelled"}
JobStatuses     == {"none", "admitted", "queued", "running", "blocked", "succeeded", "failed",
                    "cancelled"}
AttemptStatuses == {"queued", "running", "succeeded", "blocked", "failed"}
ReviewStatuses  == {"queued", "running", "approved", "blocked", "failed"}
ClaimStates     == {"none", "active", "released", "ambiguous"}

\* changed: the attempt's outcome records at least one changed file.
Attempt == [status : AttemptStatuses, changed : BOOLEAN, claim : ClaimStates]
Review  == [attempt : Nat, trigger : {"operator", "policy"}, status : ReviewStatuses,
            claim : ClaimStates]

Live(item) == item.status \in {"queued", "running"}

(***************************************************************************)
(* Capacity, as the ledger uses it                                         *)
(***************************************************************************)
Works == {<<"execution_attempt", r, n>> : r \in Runs, n \in 1..MaxAttempts}
         \cup {<<"review", r, n>> : r \in Runs, n \in 1..MaxAttempts}

ClaimOf(w) ==
  LET items == IF w[1] = "review" THEN reviews[w[2]] ELSE attempts[w[2]]
  IN  IF w[3] \in DOMAIN items THEN items[w[3]].claim ELSE "none"

CapacityIsFree == Cardinality({w \in Works : ClaimOf(w) = "active"}) < Ceiling

\* Fault: settlement releases whatever there is.
AlwaysReleased(claim) == "released"

\* Settlement releases a claim only when it is still active.
Released(claim) == IF claim = "active" THEN "released" ELSE claim

(***************************************************************************)
(* Operator commands                                                       *)
(***************************************************************************)
\* A triage decision that is not eligible admits the run as blocked; change-set
\* admission always sends such a decision, so that its members start blocked.
Admit(r, eligible, prior) ==
  /\ runStatus[r] = "none"
  /\ r \in Members => ~eligible /\ prior = NoRun
  /\ prior # NoRun => /\ runStatus[prior] \in {"blocked", "cancelled", "failed"}
                      /\ prior \notin Members
  /\ runStatus'  = [runStatus  EXCEPT ![r] = IF eligible THEN "pending" ELSE "blocked"]
  /\ jobStatus'  = [jobStatus  EXCEPT ![r] = IF eligible THEN "admitted" ELSE "blocked"]
  /\ version'    = [version    EXCEPT ![r] = 1]
  /\ supersedes' = [supersedes EXCEPT ![r] = prior]
  /\ UNCHANGED <<archived, attempts, reviews, calls>>

\* Fault: a cancelled run may be overridden too.
OverrideStopped(r) ==
  /\ runStatus[r] \in {"blocked", "cancelled"} /\ jobStatus[r] # "none"
  /\ r \notin Members
  /\ runStatus' = [runStatus EXCEPT ![r] = "pending"]
  /\ jobStatus' = [jobStatus EXCEPT ![r] = "admitted"]
  /\ version'   = [version   EXCEPT ![r] = @ + 1]
  /\ UNCHANGED <<supersedes, archived, attempts, reviews, calls>>

OverrideBlocked(r) ==
  /\ runStatus[r] = "blocked" /\ jobStatus[r] = "blocked"
  /\ r \notin Members
  /\ runStatus' = [runStatus EXCEPT ![r] = "pending"]
  /\ jobStatus' = [jobStatus EXCEPT ![r] = "admitted"]
  /\ version'   = [version   EXCEPT ![r] = @ + 1]
  /\ UNCHANGED <<supersedes, archived, attempts, reviews, calls>>

\* Fault: only the run is cancelled.
CancelRunOnly(r) ==
  /\ runStatus[r] \in {"pending", "active", "blocked"}
  /\ r \notin Members
  /\ runStatus' = [runStatus EXCEPT ![r] = "cancelled"]
  /\ version'   = [version   EXCEPT ![r] = @ + 1]
  /\ UNCHANGED <<jobStatus, supersedes, archived, attempts, reviews, calls>>

\* Fault: a finished run may be cancelled.
CancelFinished(r) ==
  /\ runStatus[r] \in {"pending", "active", "blocked", "succeeded", "failed"}
  /\ r \notin Members
  /\ runStatus' = [runStatus EXCEPT ![r] = "cancelled"]
  /\ jobStatus' = [jobStatus EXCEPT ![r] = IF @ \in {"succeeded", "failed"} THEN @ ELSE "cancelled"]
  /\ version'   = [version   EXCEPT ![r] = @ + 1]
  /\ UNCHANGED <<supersedes, archived, attempts, reviews, calls>>

\* Attempts and reviews in progress are left as they are.
Cancel(r) ==
  /\ runStatus[r] \in {"pending", "active", "blocked"}
  /\ r \notin Members
  /\ runStatus' = [runStatus EXCEPT ![r] = "cancelled"]
  /\ jobStatus' = [jobStatus EXCEPT ![r] = IF @ \in {"succeeded", "failed"} THEN @ ELSE "cancelled"]
  /\ version'   = [version   EXCEPT ![r] = @ + 1]
  /\ UNCHANGED <<supersedes, archived, attempts, reviews, calls>>

HasLiveWork(r) == \/ \E n \in DOMAIN attempts[r] : Live(attempts[r][n])
                  \/ \E n \in DOMAIN reviews[r]  : Live(reviews[r][n])

Archive(r) ==
  /\ ~archived[r]
  /\ runStatus[r] \in {"blocked", "succeeded", "failed", "cancelled"}
  /\ ~HasLiveWork(r)
  /\ r \notin Members
  /\ version[r] < MaxVersion
  /\ archived' = [archived EXCEPT ![r] = TRUE]
  /\ version'  = [version  EXCEPT ![r] = @ + 1]
  /\ UNCHANGED <<runStatus, jobStatus, supersedes, attempts, reviews, calls>>

Restore(r) ==
  /\ archived[r]
  /\ r \notin Members
  /\ version[r] < MaxVersion
  /\ archived' = [archived EXCEPT ![r] = FALSE]
  /\ version'  = [version  EXCEPT ![r] = @ + 1]
  /\ UNCHANGED <<runStatus, jobStatus, supersedes, attempts, reviews, calls>>

\* The organization's recovery batch, on claims whose lease has passed while
\* their work was still running or its process was gone.
RecoverClaims ==
  \E S \in SUBSET {w \in Works : ClaimOf(w) = "active"} :
    /\ S # {}
    /\ attempts' = [r \in Runs |-> [n \in DOMAIN attempts[r] |->
         IF <<"execution_attempt", r, n>> \in S THEN [attempts[r][n] EXCEPT !.claim = "ambiguous"]
                                                ELSE attempts[r][n]]]
    /\ reviews' = [r \in Runs |-> [n \in DOMAIN reviews[r] |->
         IF <<"review", r, n>> \in S THEN [reviews[r][n] EXCEPT !.claim = "ambiguous"]
                                     ELSE reviews[r][n]]]
    /\ UNCHANGED <<runStatus, jobStatus, version, supersedes, archived, calls>>

(***************************************************************************)
(* ExecutionService.execute and RunOrchestrationService.execute            *)
(***************************************************************************)
\* authorizeExecution: a fresh queued attempt, whose workspace is created next.
AuthorizeExecution(r) ==
  /\ runStatus[r] = "pending" /\ jobStatus[r] = "admitted"
  /\ Len(attempts[r]) < MaxAttempts
  /\ attempts'  = [attempts  EXCEPT ![r] =
                     Append(@, [status |-> "queued", changed |-> FALSE, claim |-> "none"])]
  /\ runStatus' = [runStatus EXCEPT ![r] = "active"]
  /\ jobStatus' = [jobStatus EXCEPT ![r] = "queued"]
  /\ version'   = [version   EXCEPT ![r] = @ + 1]
  /\ executing' = executing \cup {[run |-> r, attempt |-> Len(attempts[r]) + 1, step |-> "workspace"]}
  /\ UNCHANGED <<supersedes, archived, reviews, deciding, reviewing, crashes>>

\* markExecutionRunning: claims capacity and starts the attempt, whatever has
\* become of the run meanwhile.
MarkExecutionRunning(e) ==
  /\ e.step = "workspace"
  /\ CapacityIsFree
  /\ attempts[e.run][e.attempt].status = "queued"
  /\ attempts'  = [attempts  EXCEPT ![e.run][e.attempt].status = "running",
                                    ![e.run][e.attempt].claim  = "active"]
  /\ jobStatus' = [jobStatus EXCEPT ![e.run] = "running"]
  /\ executing' = (executing \ {e}) \cup {[e EXCEPT !.step = "working"]}
  /\ UNCHANGED <<runStatus, version, supersedes, archived, reviews, deciding, reviewing, crashes>>

\* Fault: eligibility of the record read before the settlement.
EligibleBeforeSettlement(r, status, changed) ==
  jobStatus[r] = "succeeded" /\ changed /\ ReviewEnabled /\ reviews[r] = <<>>

\* isAutomaticReviewEligible, of the record the settlement returned.
AutomaticReviewEligible(r, status, changed) ==
  status = "succeeded" /\ changed /\ ReviewEnabled /\ reviews[r] = <<>>

\* completeExecution, and what the orchestrator concludes from its result.
CompleteExecution(e, status, changed) ==
  /\ Live(attempts[e.run][e.attempt])
  /\ attempts'  = [attempts  EXCEPT ![e.run][e.attempt] =
                     [status |-> status, changed |-> changed, claim |-> Released(@.claim)]]
  /\ jobStatus' = [jobStatus EXCEPT ![e.run] = status]
  /\ runStatus' = [runStatus EXCEPT ![e.run] = status]
  /\ version'   = [version   EXCEPT ![e.run] = @ + 1]
  /\ executing' = executing \ {e}
  /\ deciding'  = IF AutomaticReviewEligible(e.run, status, changed)
                    THEN deciding \cup {[run |-> e.run, version |-> version[e.run] + 1]}
                    ELSE deciding
  /\ UNCHANGED <<supersedes, archived, reviews, reviewing, crashes>>

\* Evidence without violations and passing gates succeed, with or without a
\* patch; anything else blocks.
FinishExecution(e) ==
  /\ e.step = "working"
  /\ \E status \in {"succeeded", "blocked"}, changed \in BOOLEAN :
       CompleteExecution(e, status, changed)

\* Preparation did not pass, capacity was refused, or a step threw.
FailExecution(e) == CompleteExecution(e, "failed", FALSE)

(***************************************************************************)
(* ReviewService                                                           *)
(***************************************************************************)
MayAuthorizeReview(r) ==
  /\ runStatus[r] = "succeeded" /\ jobStatus[r] = "succeeded"
  /\ ReviewEnabled
  /\ LET n == Len(attempts[r]) IN
       /\ n > 0 /\ attempts[r][n].status = "succeeded" /\ attempts[r][n].changed
       /\ \A m \in DOMAIN reviews[r] : reviews[r][m].attempt # n

AuthorizeReview(r, trigger) ==
  /\ MayAuthorizeReview(r)
  /\ reviews'   = [reviews EXCEPT ![r] =
                     Append(@, [attempt |-> Len(attempts[r]), trigger |-> trigger,
                                status |-> "queued", claim |-> "none"])]
  /\ version'   = [version EXCEPT ![r] = @ + 1]
  /\ reviewing' = reviewing \cup {[run |-> r, review |-> Len(reviews[r]) + 1, step |-> "paths"]}
  /\ UNCHANGED <<runStatus, jobStatus, supersedes, archived, attempts, executing, crashes>>

ManualReview(r) == AuthorizeReview(r, "operator") /\ UNCHANGED deciding

\* reviewAutomatically carries the version its execution settled with.
AutomaticReview(d) ==
  /\ version[d.run] = d.version
  /\ AuthorizeReview(d.run, "policy")
  /\ deciding' = deciding \ {d}

AutomaticReviewRefused(d) ==
  /\ version[d.run] # d.version \/ ~MayAuthorizeReview(d.run)
  /\ deciding' = deciding \ {d}
  /\ UNCHANGED <<ledger, executing, reviewing, crashes>>

MarkReviewRunning(v) ==
  /\ v.step = "paths"
  /\ CapacityIsFree
  /\ reviews[v.run][v.review].status = "queued"
  /\ reviews'   = [reviews EXCEPT ![v.run][v.review].status = "running",
                                  ![v.run][v.review].claim  = "active"]
  /\ reviewing' = (reviewing \ {v}) \cup {[v EXCEPT !.step = "reviewing"]}
  /\ UNCHANGED <<runStatus, jobStatus, version, supersedes, archived, attempts, executing, deciding,
                 crashes>>

CompleteReview(v, status) ==
  /\ Live(reviews[v.run][v.review])
  /\ reviews'   = [reviews EXCEPT ![v.run][v.review].status = status,
                                  ![v.run][v.review].claim  = Released(@)]
  /\ version'   = [version EXCEPT ![v.run] = @ + 1]
  /\ reviewing' = reviewing \ {v}
  /\ UNCHANGED <<runStatus, jobStatus, supersedes, archived, attempts, executing, deciding, crashes>>

\* Fault: a review settles with the statuses of an attempt.
FinishReviewAsAttempt(v) ==
  /\ v.step = "reviewing"
  /\ \E status \in {"succeeded", "blocked"} : CompleteReview(v, status)

\* DraftReview says how the verdicts, the remediation round and the gates decide.
FinishReview(v) ==
  /\ v.step = "reviewing"
  /\ \E status \in {"approved", "blocked"} : CompleteReview(v, status)

\* Capacity was refused or a step threw.
FailReview(v) == CompleteReview(v, "failed")

(***************************************************************************)
(* A process stops: the calls it ran end where they were.                  *)
(***************************************************************************)
Crash ==
  /\ crashes < MaxCrashes
  /\ crashes' = crashes + 1
  /\ \E lost \in SUBSET (executing \cup deciding \cup reviewing) :
       /\ lost # {}
       /\ executing' = executing \ lost
       /\ deciding'  = deciding \ lost
       /\ reviewing' = reviewing \ lost
  /\ UNCHANGED ledger

(***************************************************************************)
(* Specification                                                           *)
(***************************************************************************)
Init ==
  /\ runStatus  = [r \in Runs |-> "none"]
  /\ jobStatus  = [r \in Runs |-> "none"]
  /\ version    = [r \in Runs |-> 0]
  /\ supersedes = [r \in Runs |-> NoRun]
  /\ archived   = [r \in Runs |-> FALSE]
  /\ attempts   = [r \in Runs |-> <<>>]
  /\ reviews    = [r \in Runs |-> <<>>]
  /\ executing = {} /\ deciding = {} /\ reviewing = {}
  /\ crashes = 0

OperatorCommand(r) ==
  \/ \E eligible \in BOOLEAN, prior \in (Runs \ {r}) \cup {NoRun} : Admit(r, eligible, prior)
  \/ OverrideBlocked(r) \/ Cancel(r) \/ Archive(r) \/ Restore(r)
  \/ AuthorizeExecution(r) \/ ManualReview(r)

ExecutionStep(e)  == MarkExecutionRunning(e) \/ FinishExecution(e) \/ FailExecution(e)
DecisionStep(d)   == AutomaticReview(d) \/ AutomaticReviewRefused(d)
ReviewStep(v)     == MarkReviewRunning(v) \/ FinishReview(v) \/ FailReview(v)

Next ==
  \/ \E r \in Runs : OperatorCommand(r)
  \/ \E e \in executing : ExecutionStep(e)
  \/ \E d \in deciding : DecisionStep(d)
  \/ \E v \in reviewing : ReviewStep(v)
  \/ RecoverClaims
  \/ Crash

Spec == Init /\ [][Next]_vars

\* Every await of a call is bounded by a timeout of the policy snapshot, and what
\* it throws is settled as a failure, so a call that is not lost goes on.
Fairness ==
  \A r \in Runs :
    /\ WF_vars(\E e \in executing : e.run = r /\ ExecutionStep(e))
    /\ WF_vars(\E d \in deciding  : d.run = r /\ DecisionStep(d))
    /\ WF_vars(\E v \in reviewing : v.run = r /\ ReviewStep(v))

FairSpec == Spec /\ Fairness

(***************************************************************************)
(* Properties                                                              *)
(***************************************************************************)
Executions == [run : Runs, attempt : 1..MaxAttempts, step : {"workspace", "working"}]
Decisions  == [run : Runs, version : Nat]
ReviewCalls == [run : Runs, review : Nat \ {0}, step : {"paths", "reviewing"}]

TypeOK ==
  /\ runStatus \in [Runs -> RunStatuses] /\ jobStatus \in [Runs -> JobStatuses]
  /\ version \in [Runs -> Nat] /\ archived \in [Runs -> BOOLEAN]
  /\ supersedes \in [Runs -> Runs \cup {NoRun}]
  /\ attempts \in [Runs -> Seq(Attempt)] /\ \A r \in Runs : Len(attempts[r]) <= MaxAttempts
  /\ reviews \in [Runs -> Seq(Review)]
  /\ executing \subseteq Executions /\ deciding \subseteq Decisions /\ reviewing \subseteq ReviewCalls
  /\ crashes \in Nat

\* Attempts never overlap and never restart: all but the last attempt of a job
\* are blocked ones, and while the last is live its run is active or was
\* cancelled under it.  A retry (override, then a second authorization) can
\* only follow a settled attempt.
AttemptsAreSerial ==
  \A r \in Runs : \A n \in DOMAIN attempts[r] :
    /\ n < Len(attempts[r]) => attempts[r][n].status = "blocked"
    /\ Live(attempts[r][n]) => runStatus[r] \in {"active", "cancelled"}

\* Run and job tell the same story, except under a cancellation: a call that was
\* starting may still mark the cancelled job running (markExecutionRunning does
\* not look at it).
JobStatusOf(status) ==
  CASE status = "pending" -> {"admitted"}
    [] status = "active"  -> {"queued", "running"}
    [] OTHER              -> {status}

RunAndJobAgree ==
  \A r \in Runs :
    \/ jobStatus[r] \in JobStatusOf(runStatus[r])
    \/ runStatus[r] = "cancelled" /\ jobStatus[r] = "running"

\* An attempt is reviewed at most once, whichever of the operator and the policy
\* asked first, and only a changed, succeeded attempt that no later attempt can
\* replace: what a review approves is the job's final draft.
ReviewedDraftIsFinal ==
  \A r \in Runs : \A m \in DOMAIN reviews[r] :
    /\ reviews[r][m].attempt = Len(attempts[r])
    /\ attempts[r][Len(attempts[r])].status = "succeeded" /\ attempts[r][Len(attempts[r])].changed
    /\ runStatus[r] = "succeeded"
    /\ m = 1

\* An attempt or review holds capacity exactly while it runs: a settled one never
\* keeps a slot, a running one has lost it only to a recovery.
ClaimFollowsWork ==
  \A r \in Runs :
    \A item \in {attempts[r][n] : n \in DOMAIN attempts[r]} \cup {reviews[r][n] : n \in DOMAIN reviews[r]} :
      /\ item.status = "queued"  => item.claim = "none"
      /\ item.status = "running" => item.claim \in {"active", "ambiguous"}
      /\ ~Live(item)             => item.claim # "active"

\* Work that is running never exceeds the enforced ceiling, except for work whose
\* slot a recovery gave away.
CeilingHolds == Cardinality({w \in Works : ClaimOf(w) = "active"}) <= Ceiling

\* Run, job, attempts, reviews and the slots they hold agree with each other.
LedgerAgrees ==
  /\ RunAndJobAgree
  /\ ReviewedDraftIsFinal
  /\ ClaimFollowsWork
  /\ CeilingHolds

\* Completed runs are immutable: no late settlement, override or cancellation
\* moves a succeeded or failed run, and its attempts stay what they were.
CompletedIsImmutable ==
  [][\A r \in Runs : runStatus[r] \in {"succeeded", "failed"} =>
       /\ runStatus'[r] = runStatus[r] /\ jobStatus'[r] = jobStatus[r]
       /\ Len(attempts'[r]) = Len(attempts[r])
       /\ \A n \in DOMAIN attempts[r] : attempts'[r][n].status = attempts[r][n].status]_vars

\* The claims of attempts and reviews live as the organization ledger promises.
Claims == INSTANCE CapacityClaims WITH claim <- [w \in Works |-> ClaimOf(w)]
ClaimLifecycle == Claims!Spec

\* If no call is lost, all authorized work settles.
WorkSettles ==
  [](crashes = 0) => \A r \in Runs : HasLiveWork(r) ~> ~HasLiveWork(r)

\* If no call is lost and nobody archives the run meanwhile, a successful changed
\* draft is reviewed without anyone asking.
ChangedDraft(r) == /\ runStatus[r] = "succeeded" /\ ReviewEnabled
                   /\ attempts[r][Len(attempts[r])].changed

ChangedDraftIsReviewed ==
  \A r \in Runs : [](crashes = 0 /\ ~archived[r]) => (ChangedDraft(r) ~> reviews[r] # <<>>)

\* Authorized work ends, and a changed draft goes on to its review.
WorkGoesOn ==
  /\ WorkSettles
  /\ ChangedDraftIsReviewed

\* "Cancellation is terminal for that historical run" (docs/architecture.md:161).
CancellationIsTerminal ==
  [][\A r \in Runs : runStatus[r] = "cancelled" => runStatus'[r] = "cancelled"]_vars
===============================================================================
