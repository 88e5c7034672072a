------------------------ MODULE OrganizationCapacity ------------------------
(***************************************************************************)
(* The organization-wide capacity control of the control plane:            *)
(*   - an append-only stream of capacity policies,                         *)
(*   - an append-only stream of enforcement decisions, each bound to one   *)
(*     exact policy version,                                               *)
(*   - one claim per dispatched source lifecycle, with a lease, and        *)
(*   - operator-run recovery batches for claims whose lease has passed.    *)
(*                                                                         *)
(* Every handler is one immediate SQLite transaction, so it is one action. *)
(* A call that replays an idempotency key, or that the code rejects,       *)
(* changes nothing and is a stuttering step.  Digests, actor names and     *)
(* reasons are left out: no property depends on their values.              *)
(***************************************************************************)
EXTENDS Integers, Sequences, FiniteSets, FiniteSetsExt

CONSTANTS
  Works,           \* source lifecycles that need provider capacity
  Demand,          \* Demand[w]: the provider slots the lifecycle w asks for
  Runtime,         \* Runtime[w]: the most ticks w's calls can take, by their timeouts
  Policies,        \* the capacity policies an operator may record
  BatchKeys,       \* idempotency keys of recovery requests
  Lease,           \* ORGANIZATION_CAPACITY_CLAIM_LEASE_MS, in ticks
  RecoveryLimit,   \* the LIMIT of one recovery batch
  MaxTime,         \* bound on the clock
  MaxEvents        \* bound on the length of each event stream

Providers == {"openaiCodex", "githubCopilot"}
Never     == -1

ASSUME CapacityAssumption ==
  /\ IsFiniteSet(Works)
  /\ Demand  \in [Works -> [Providers -> Nat]]
  /\ Runtime \in [Works -> Nat]
  /\ Policies \subseteq [workflows : Nat, calls : [Providers -> Nat]]
  /\ Lease \in Nat \ {0} /\ RecoveryLimit \in Nat \ {0}
  /\ MaxTime \in Nat /\ MaxEvents \in Nat

VARIABLES
  policies,      \* organization_capacity_policy_events; version = position
  enforcement,   \* organization_capacity_enforcement_events
  claims,        \* organization_capacity_claims, by source identity
  batches,       \* organization_capacity_recovery_batches: the claims each key recovered
  running,       \* running[w]: when w's calls must have ended, or Never
  now            \* the clock the stores are given

vars == <<policies, enforcement, claims, batches, running, now>>

NoClaim == [status |-> "none", policyVersion |-> 0, wouldExceed |-> FALSE,
            expiresAt |-> 0]

ClaimRecords == [status        : {"none", "active", "released", "ambiguous"},
                 policyVersion : Nat,
                 wouldExceed   : BOOLEAN,
                 expiresAt     : Nat]

(***************************************************************************)
(* Reads                                                                   *)
(***************************************************************************)
Active  == {w \in Works : claims[w].status = "active"}

\* Fault: expiry measured from the claim instead of its lease.
ExpiredSinceClaim == {w \in Active : claims[w].expiresAt - Lease <= now}

Expired == {w \in Active : claims[w].expiresAt <= now}
Slots(p) == MapThenSumSet(LAMBDA w : Demand[w][p], Active)

PolicyVersion == Len(policies)
Policy        == policies[PolicyVersion]

\* Fault: expired claims no longer count.
WouldExceedUnexpired(w) ==
  /\ PolicyVersion > 0
  /\ \/ Cardinality(Active \ Expired) + 1 > Policy.workflows
     \/ \E p \in Providers : Slots(p) + Demand[w][p] > Policy.calls[p]

\* Fault: the request itself is not counted against the provider's limit.
WouldExceedByOne(w) ==
  /\ PolicyVersion > 0
  /\ \/ Cardinality(Active) + 1 > Policy.workflows
     \/ \E p \in Providers : Slots(p) > Policy.calls[p]

\* Fault: the first policy is kept in memory and never read again.
WouldExceedFirstPolicy(w) ==
  /\ PolicyVersion > 0
  /\ \/ Cardinality(Active) + 1 > policies[1].workflows
     \/ \E p \in Providers : Slots(p) + Demand[w][p] > policies[1].calls[p]

\* The observed counts of active claims plus the request, against the current
\* policy.  An expired claim still counts: only recovery ends its occupancy.
WouldExceed(w) ==
  /\ PolicyVersion > 0
  /\ \/ Cardinality(Active) + 1 > Policy.workflows
     \/ \E p \in Providers : Slots(p) + Demand[w][p] > Policy.calls[p]

\* Fault: enforcement is not bound to a policy version.
ModeOfLastDecision == IF enforcement = <<>> THEN "disabled" ELSE enforcement[Len(enforcement)].mode

\* readCurrentOrganizationCapacityEnforcement: an enabled record whose policy is
\* no longer the current one blocks every new claim.
Mode ==
  IF enforcement = <<>> THEN "disabled"
  ELSE LET last == enforcement[Len(enforcement)] IN
       CASE last.mode = "disabled"               -> "disabled"
         [] last.mode = "enabled"
            /\ last.policyVersion = PolicyVersion -> "enabled"
         [] OTHER                                -> "blocked_policy_drift"

(***************************************************************************)
(* Operator commands                                                       *)
(***************************************************************************)
\* The operator saw the current version; anything else is a version conflict.
RecordPolicy(p) ==
  /\ PolicyVersion < MaxEvents
  /\ policies' = Append(policies, p)
  /\ UNCHANGED <<enforcement, claims, batches, running, now>>

\* Fault: enforcement may be recorded before any policy.
RecordEnforcementUnbound(mode) ==
  /\ mode = "enabled" => Expired = {}
  /\ Len(enforcement) < MaxEvents
  /\ enforcement' = Append(enforcement, [mode |-> mode, policyVersion |-> PolicyVersion])
  /\ UNCHANGED <<policies, claims, batches, running, now>>

\* expectedPolicyVersion must be current; enabling needs every expired claim
\* reconciled first.
RecordEnforcement(mode) ==
  /\ PolicyVersion > 0
  /\ mode = "enabled" => Expired = {}
  /\ Len(enforcement) < MaxEvents
  /\ enforcement' = Append(enforcement, [mode |-> mode, policyVersion |-> PolicyVersion])
  /\ UNCHANGED <<policies, claims, batches, running, now>>

\* The rows one batch takes: the oldest expired claims, at most RecoveryLimit.
RecoverySelection(S) ==
  /\ Cardinality(S) = Min({RecoveryLimit, Cardinality(Expired)})
  /\ \A w \in S, u \in Expired \ S : claims[w].expiresAt <= claims[u].expiresAt

\* Fault: a retried key recovers again and overwrites its batch.
RecoverExpiredAgain(k) ==
  /\ \E S \in SUBSET Expired :
       /\ RecoverySelection(S)
       /\ claims' = [w \in Works |-> IF w \in S THEN [claims[w] EXCEPT !.status = "ambiguous"]
                                                ELSE claims[w]]
       /\ batches' = [b \in DOMAIN batches \cup {k} |-> IF b = k THEN S ELSE batches[b]]
  /\ UNCHANGED <<policies, enforcement, running, now>>

RecoverExpired(k) ==
  /\ k \notin DOMAIN batches
  /\ \E S \in SUBSET Expired :
       /\ RecoverySelection(S)
       /\ claims' = [w \in Works |-> IF w \in S THEN [claims[w] EXCEPT !.status = "ambiguous"]
                                                ELSE claims[w]]
       /\ batches' = [b \in DOMAIN batches \cup {k} |-> IF b = k THEN S ELSE batches[b]]
  /\ UNCHANGED <<policies, enforcement, running, now>>

(***************************************************************************)
(* Source workflows                                                        *)
(***************************************************************************)
\* Fault: a released identity may claim again.
ClaimReleased(w) ==
  /\ claims[w].status \in {"none", "released"}
  /\ Mode # "blocked_policy_drift"
  /\ Mode = "enabled" => ~WouldExceed(w)
  /\ claims' = [claims EXCEPT ![w] =
                  [status |-> "active", policyVersion |-> PolicyVersion,
                   wouldExceed |-> WouldExceed(w), expiresAt |-> now + Lease]]
  /\ running' = [running EXCEPT ![w] = now + Runtime[w]]
  /\ UNCHANGED <<policies, enforcement, batches, now>>

\* claimOrganizationCapacity inside the source's own transition to running.  The
\* identity is used for the first time, and enforcement admits it.
Claim(w) ==
  /\ claims[w].status = "none"
  /\ Mode # "blocked_policy_drift"
  /\ Mode = "enabled" => ~WouldExceed(w)
  /\ claims' = [claims EXCEPT ![w] =
                  [status |-> "active", policyVersion |-> PolicyVersion,
                   wouldExceed |-> WouldExceed(w), expiresAt |-> now + Lease]]
  /\ running' = [running EXCEPT ![w] = now + Runtime[w]]
  /\ UNCHANGED <<policies, enforcement, batches, now>>

\* The source lifecycle ends and settles: the slot is released in the same
\* transaction, unless recovery has already taken the claim.
Settle(w) ==
  /\ running[w] # Never
  /\ running' = [running EXCEPT ![w] = Never]
  /\ claims' = IF claims[w].status = "active"
                 THEN [claims EXCEPT ![w].status = "released"]
                 ELSE claims
  /\ UNCHANGED <<policies, enforcement, batches, now>>

\* The process that ran w stops; its claim stays active until it is recovered.
Crash(w) ==
  /\ running[w] # Never
  /\ running' = [running EXCEPT ![w] = Never]
  /\ UNCHANGED <<policies, enforcement, claims, batches, now>>

\* Time passes, never beyond the timeouts of a lifecycle that still runs.
Tick ==
  /\ now < MaxTime
  /\ \A w \in Works : running[w] # Never => now < running[w]
  /\ now' = now + 1
  /\ UNCHANGED <<policies, enforcement, claims, batches, running>>

Init ==
  /\ policies = <<>> /\ enforcement = <<>>
  /\ claims = [w \in Works |-> NoClaim]
  /\ batches = [k \in {} |-> {}]
  /\ running = [w \in Works |-> Never]
  /\ now = 0

Next ==
  \/ \E p \in Policies : RecordPolicy(p)
  \/ \E mode \in {"enabled", "disabled"} : RecordEnforcement(mode)
  \/ \E k \in BatchKeys : RecoverExpired(k)
  \/ \E w \in Works : Claim(w) \/ Settle(w) \/ Crash(w)
  \/ Tick

Spec == Init /\ [][Next]_vars

(***************************************************************************)
(* Properties                                                              *)
(***************************************************************************)
\* Every row has the shape its reader accepts, and every policy version that is
\* referred to has been recorded.
TypeOK ==
  /\ policies \in Seq(Policies)
  /\ enforcement \in Seq([mode : {"enabled", "disabled"}, policyVersion : 1..PolicyVersion])
  /\ claims \in [Works -> ClaimRecords]
  /\ \A w \in Works : claims[w].policyVersion <= PolicyVersion
  /\ DOMAIN batches \subseteq BatchKeys /\ \A k \in DOMAIN batches : batches[k] \subseteq Works
  /\ running \in [Works -> Nat \cup {Never}]
  /\ now \in Nat

\* The claims that were found to fit policy version v never exceed it together,
\* whatever was recorded, recovered, rebound or disabled since: the observation
\* and the insert of claimOrganizationCapacity are one transaction, and it counts
\* every active claim, the expired ones included.
FittingUnder(v) == {w \in Active : claims[w].policyVersion = v /\ ~claims[w].wouldExceed}

WorkflowsWithinPolicy ==
  \A v \in 1..PolicyVersion : Cardinality(FittingUnder(v)) <= policies[v].workflows

CallsWithinPolicy ==
  \A v \in 1..PolicyVersion, p \in Providers :
    MapThenSumSet(LAMBDA w : Demand[w][p], FittingUnder(v)) <= policies[v].calls[p]

\* Each ambiguous claim was taken by exactly one recovery batch and each claim of
\* a batch is ambiguous: a retried batch recovers nothing more, and no
\* settlement undoes or doubles what a batch recorded.
RecoveryAccounted ==
  /\ UNION {batches[k] : k \in DOMAIN batches} = {w \in Works : claims[w].status = "ambiguous"}
  /\ \A j, k \in DOMAIN batches : j # k => batches[j] \cap batches[k] = {}

\* A lifecycle whose provider calls are still running holds its slots, so that
\* the occupancy enforcement compares with the policy is the real one.
RunningHoldsItsSlots ==
  \A w \in Works : running[w] # Never => claims[w].status = "active"

\* Drift fails closed: changing the policy under enabled enforcement blocks
\* every new claim, and only another enforcement decision ends the block.
DriftFailsClosed ==
  [][/\ Mode = "enabled" /\ policies' # policies => Mode' = "blocked_policy_drift"
     /\ Mode = "blocked_policy_drift" =>
          Active' \subseteq Active /\ (Mode' # Mode => enforcement' # enforcement)]_vars

\* Under enabled enforcement an occupancy that fits the policy keeps fitting
\* until an operator records a policy or an enforcement decision.
Fits == /\ Cardinality(Active) <= Policy.workflows
        /\ \A p \in Providers : Slots(p) <= Policy.calls[p]

EnforcedFitIsKept ==
  [][Mode = "enabled" /\ Fits /\ UNCHANGED <<policies, enforcement>> => Fits']_vars

Claims == INSTANCE CapacityClaims WITH claim <- [w \in Works |-> claims[w].status]

\* Every claim follows the life the abstract ledger promises: claimed once,
\* ended once, and immutable after that.
ClaimLifecycle == Claims!Spec
=============================================================================
