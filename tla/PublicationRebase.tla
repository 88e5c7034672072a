-------------------------- MODULE PublicationRebase --------------------------
(***************************************************************************)
(* The recovery of a draft publication that is blocked because its base    *)
(* branch moved: zero-model replays of the approved patch on the new base, *)
(* one fresh review of a validated replay, the recovered publication that  *)
(* an approval allows, and the operator's decision that a merged           *)
(* publication supersedes the blocked one.                                 *)
(*                                                                         *)
(* One process serves every request.  A handler runs alone up to its next  *)
(* await, so such a stretch is one action; executions of one replay or     *)
(* review may overlap once the lease of the first has ended.  A blocked    *)
(* publication is never changed, so the source is a constant of the model. *)
(***************************************************************************)
EXTENDS Naturals, Sequences, FiniteSets

CONSTANTS
  MaxReplays,        \* bound: replays admitted for the source publication
  MaxFreshReviews,   \* bound: fresh reviews admitted
  MaxPolicyChanges,  \* bound: times the repository's policy is switched
  MaxStops           \* bound: times the process stops and starts again

ASSUME RebaseAssumption ==
  /\ MaxReplays \in Nat /\ MaxFreshReviews \in Nat
  /\ MaxPolicyChanges \in Nat /\ MaxStops \in Nat

VARIABLES
  sourceIntact,   \* the run version, the review and the artifact still match the source
  permitted,      \* the current policy permits replay, review and publication
  superseder,     \* a later publication of the same task is merged
  resolution,     \* publication_recovery_resolutions holds the source
  replay,         \* publication_rebases, in the order of created_at
  replaying,      \* where the execution of each replay stands, in memory
  fresh,          \* publication_rebase_reviews
  reviewing,      \* where the execution of each review stands, in memory
  recovered,      \* draft_publications by source_rebase_review_id
  changes, stops

rebaseVars == <<sourceIntact, permitted, superseder, resolution, replay, replaying, fresh,
                reviewing, recovered, changes, stops>>

Replays      == 1..MaxReplays
FreshReviews == 1..MaxFreshReviews

ReplayPhases == <<"snapshot", "base", "prepare", "apply", "gates">>

\* What may block a replay in each phase; "refused" stands for the named reasons
\* that nothing else reads, and any command may throw.
ReplayReasons(phase) ==
  {"refused", "unexpected_failure"} \cup (IF phase = "apply" THEN {"patch_conflict"} ELSE {})

NoReplay == [status |-> "none", reason |-> "none", lease |-> "none"]
NoFresh  == [status |-> "none", replay |-> 0, calls |-> 0, lease |-> "none", claim |-> "none"]

ActiveReview  == {"pending", "preparing", "running"}
SettledReview == {"approved", "blocked", "failed"}

RebaseInit ==
  /\ sourceIntact = TRUE /\ permitted = TRUE /\ superseder = FALSE /\ resolution = FALSE
  /\ replay = [r \in Replays |-> NoReplay] /\ replaying = [r \in Replays |-> "idle"]
  /\ fresh = [v \in FreshReviews |-> NoFresh] /\ reviewing = [v \in FreshReviews |-> "idle"]
  /\ recovered = [v \in FreshReviews |-> "none"]
  /\ changes = 0 /\ stops = 0

(***************************************************************************)
(* What the rest of the system does                                        *)
(***************************************************************************)
SourceChanges ==
  /\ sourceIntact /\ sourceIntact' = FALSE
  /\ UNCHANGED <<permitted, superseder, resolution, replay, replaying, fresh, reviewing, recovered,
                 changes, stops>>

PolicyChanges ==
  /\ changes < MaxPolicyChanges
  /\ permitted' = ~permitted /\ changes' = changes + 1
  /\ UNCHANGED <<sourceIntact, superseder, resolution, replay, replaying, fresh, reviewing, recovered,
                 stops>>

SupersederMerges ==
  /\ ~superseder /\ superseder' = TRUE
  /\ UNCHANGED <<sourceIntact, permitted, resolution, replay, replaying, fresh, reviewing, recovered,
                 changes, stops>>

\* The process stops: rows stay, executions are gone.
ProcessStops ==
  /\ stops < MaxStops /\ stops' = stops + 1
  /\ replaying' = [r \in Replays |-> "idle"] /\ reviewing' = [v \in FreshReviews |-> "idle"]
  /\ UNCHANGED <<sourceIntact, permitted, superseder, resolution, replay, fresh, recovered, changes>>

ReplayLeaseEnds(r) ==
  /\ replay[r].lease = "held"
  /\ replay' = [replay EXCEPT ![r].lease = "ended"]
  /\ UNCHANGED <<sourceIntact, permitted, superseder, resolution, replaying, fresh, reviewing,
                 recovered, changes, stops>>

FreshLeaseEnds(v) ==
  /\ fresh[v].lease = "held"
  /\ fresh' = [fresh EXCEPT ![v].lease = "ended"]
  /\ UNCHANGED <<sourceIntact, permitted, superseder, resolution, replay, replaying, reviewing,
                 recovered, changes, stops>>

(***************************************************************************)
(* Zero-model replays                                                      *)
(***************************************************************************)
LatestReplay == Cardinality({r \in Replays : replay[r].status # "none"})

Occupied == \E r \in Replays : replay[r].status \in {"pending", "running", "validated"}

AdmitReplay(r) ==
  /\ r = LatestReplay + 1
  /\ sourceIntact /\ permitted /\ ~Occupied
  /\ replay' = [replay EXCEPT ![r].status = "pending"]
  /\ UNCHANGED <<sourceIntact, permitted, superseder, resolution, replaying, fresh, reviewing,
                 recovered, changes, stops>>

\* #block names the row by id and owner, whatever its status.
BlockReplay(r, reason) ==
  replay' = [replay EXCEPT ![r] = [status |-> "blocked", reason |-> reason, lease |-> "none"]]

\* The claim and the source checks up to the first await.
ExecuteReplay(r) ==
  /\ replay[r].status = "pending"
  /\ IF sourceIntact
       THEN /\ replay' = [replay EXCEPT ![r].status = "running", ![r].lease = "held"]
            /\ replaying' = [replaying EXCEPT ![r] = ReplayPhases[1]]
       ELSE BlockReplay(r, "refused") /\ UNCHANGED replaying
  /\ UNCHANGED <<sourceIntact, permitted, superseder, resolution, fresh, reviewing, recovered,
                 changes, stops>>

\* A later execute of a running replay whose lease has ended.
ExpireReplay(r) ==
  /\ replay[r].status = "running" /\ replay[r].lease = "ended"
  /\ BlockReplay(r, "unexpected_failure")
  /\ UNCHANGED <<sourceIntact, permitted, superseder, resolution, replaying, fresh, reviewing,
                 recovered, changes, stops>>

ReplayAdvances(r) ==
  /\ \E i \in 1..(Len(ReplayPhases) - 1) :
       /\ replaying[r] = ReplayPhases[i]
       /\ replaying' = [replaying EXCEPT ![r] = ReplayPhases[i + 1]]
  /\ UNCHANGED <<sourceIntact, permitted, superseder, resolution, replay, fresh, reviewing, recovered,
                 changes, stops>>

ReplayStops(r) ==
  /\ replaying[r] # "idle"
  /\ \E reason \in ReplayReasons(replaying[r]) : BlockReplay(r, reason)
  /\ replaying' = [replaying EXCEPT ![r] = "idle"]
  /\ UNCHANGED <<sourceIntact, permitted, superseder, resolution, fresh, reviewing, recovered,
                 changes, stops>>

\* Fault: the validated replay is written whatever became of the row meanwhile.
SettleReplayLate(r) ==
  /\ replaying[r] = "gates" /\ replaying' = [replaying EXCEPT ![r] = "idle"]
  /\ replay' = [replay EXCEPT ![r] = [status |-> "validated", reason |-> "none", lease |-> "none"]]
  /\ UNCHANGED <<sourceIntact, permitted, superseder, resolution, fresh, reviewing, recovered,
                 changes, stops>>

\* The guarded update; when the row is no longer running the execution throws,
\* and its own handler blocks the row again.
SettleReplay(r) ==
  /\ replaying[r] = "gates" /\ replaying' = [replaying EXCEPT ![r] = "idle"]
  /\ IF replay[r].status = "running"
       THEN replay' = [replay EXCEPT ![r] = [status |-> "validated", reason |-> "none",
                                             lease |-> "none"]]
       ELSE BlockReplay(r, "unexpected_failure")
  /\ UNCHANGED <<sourceIntact, permitted, superseder, resolution, fresh, reviewing, recovered,
                 changes, stops>>

(***************************************************************************)
(* Fresh reviews                                                           *)
(***************************************************************************)
\* No other review of the replay is active, approved or has made its call.
MayReview(r) ==
  ~\E v \in FreshReviews : /\ fresh[v].replay = r
                           /\ \/ fresh[v].status \in ActiveReview \cup {"approved"}
                              \/ fresh[v].calls = 1

AdmitFresh(v, r) ==
  /\ v = Cardinality({u \in FreshReviews : fresh[u].status # "none"}) + 1
  /\ replay[r].status = "validated" /\ permitted /\ sourceIntact /\ MayReview(r)
  /\ fresh' = [fresh EXCEPT ![v].status = "pending", ![v].replay = r]
  /\ UNCHANGED <<sourceIntact, permitted, superseder, resolution, replay, replaying, reviewing,
                 recovered, changes, stops>>

\* #settle: an active row only, with its capacity.
SettleFresh(v, s) ==
  /\ fresh[v].status \in ActiveReview
  /\ fresh' = [fresh EXCEPT ![v].status = s, ![v].lease = "none",
                            ![v].claim = IF @ = "active" THEN "released" ELSE @]

\* A settlement that comes too late throws and changes nothing.
SettleOrThrow(v, s) ==
  SettleFresh(v, s) \/ (fresh[v].status \notin ActiveReview /\ UNCHANGED fresh)

\* The claim of the preflight and its checks up to the first await.
StartFresh(v) ==
  /\ fresh[v].status = "pending"
  /\ IF replay[fresh[v].replay].status = "validated" /\ sourceIntact /\ permitted
       THEN /\ fresh' = [fresh EXCEPT ![v].status = "preparing", ![v].lease = "held"]
            /\ reviewing' = [reviewing EXCEPT ![v] = "preflight"]
       ELSE SettleFresh(v, "blocked") /\ UNCHANGED reviewing
  /\ UNCHANGED <<sourceIntact, permitted, superseder, resolution, replay, replaying, recovered,
                 changes, stops>>

FailPreflight(v) ==
  /\ reviewing[v] = "preflight" /\ reviewing' = [reviewing EXCEPT ![v] = "idle"]
  /\ SettleOrThrow(v, "blocked")
  /\ UNCHANGED <<sourceIntact, permitted, superseder, resolution, replay, replaying, recovered,
                 changes, stops>>

\* One transaction claims the capacity and makes the row running.  It commits
\* even when no row was preparing any more: then the claim stays, and the
\* execution throws.
ClaimFresh(v) ==
  /\ reviewing[v] = "preflight"
  /\ IF fresh[v].status = "preparing"
       THEN /\ fresh' = [fresh EXCEPT ![v].status = "running", ![v].calls = 1,
                                      ![v].lease = "held", ![v].claim = "active"]
            /\ reviewing' = [reviewing EXCEPT ![v] = "reviewer"]
       ELSE /\ fresh' = [fresh EXCEPT ![v].claim = "active"]
            /\ reviewing' = [reviewing EXCEPT ![v] = "idle"]
  /\ UNCHANGED <<sourceIntact, permitted, superseder, resolution, replay, replaying, recovered,
                 changes, stops>>

\* The organization has no free capacity: the execution throws, the row stays.
CapacityRefused(v) ==
  /\ reviewing[v] = "preflight" /\ reviewing' = [reviewing EXCEPT ![v] = "idle"]
  /\ UNCHANGED <<sourceIntact, permitted, superseder, resolution, replay, replaying, fresh, recovered,
                 changes, stops>>

\* Fault: the capacity is kept when the review settles.
EndFreshKeepingClaim(v, answer) ==
  /\ reviewing[v] = "reviewer" /\ reviewing' = [reviewing EXCEPT ![v] = "idle"]
  /\ fresh[v].status \in ActiveReview
  /\ fresh' = [fresh EXCEPT ![v].status = answer, ![v].lease = "none"]
  /\ UNCHANGED <<sourceIntact, permitted, superseder, resolution, replay, replaying, recovered,
                 changes, stops>>

\* The reviewer fails or answers; after an answer the policy and the workspace are
\* checked again.
EndFresh(v, answer) ==
  /\ reviewing[v] = "reviewer" /\ reviewing' = [reviewing EXCEPT ![v] = "idle"]
  /\ answer = "approved" => permitted
  /\ SettleOrThrow(v, answer)
  /\ UNCHANGED <<sourceIntact, permitted, superseder, resolution, replay, replaying, recovered,
                 changes, stops>>

\* A later execute of a row whose lease has ended.
ExpireFresh(v) ==
  /\ fresh[v].lease = "ended"
  /\ \/ fresh[v].status = "running" /\ SettleFresh(v, "failed")
     \/ fresh[v].status = "preparing" /\ SettleFresh(v, "blocked")
  /\ UNCHANGED <<sourceIntact, permitted, superseder, resolution, replay, replaying, reviewing,
                 recovered, changes, stops>>

(***************************************************************************)
(* The two ways a blocked publication ends                                 *)
(***************************************************************************)
\* The chain is read, and then the workspace inspected across an await.
StartRecovery(v) ==
  /\ fresh[v].status = "approved" /\ fresh[v].calls = 1 /\ replay[fresh[v].replay].status = "validated"
  /\ sourceIntact /\ permitted
  /\ reviewing[v] = "idle" /\ reviewing' = [reviewing EXCEPT ![v] = "promotion"]
  /\ UNCHANGED <<sourceIntact, permitted, superseder, resolution, replay, replaying, fresh, recovered,
                 changes, stops>>

\* The row is inserted, blocked when the workspace or the policy changed; the
\* unique index on the review refuses a second one.
InsertRecovered(v) ==
  /\ reviewing[v] = "promotion" /\ reviewing' = [reviewing EXCEPT ![v] = "idle"]
  /\ \E s \in {"pending", "blocked"} :
       /\ s = "pending" => permitted
       /\ recovered' = [recovered EXCEPT ![v] = IF @ = "none" THEN s ELSE @]
  /\ UNCHANGED <<sourceIntact, permitted, superseder, resolution, replay, replaying, fresh,
                 changes, stops>>

\* The latest replay must hold an exact conflict; the source has one resolution.
Resolve ==
  /\ ~resolution /\ superseder
  /\ LatestReplay > 0 /\ replay[LatestReplay].status = "blocked"
  /\ replay[LatestReplay].reason = "patch_conflict"
  /\ resolution' = TRUE
  /\ UNCHANGED <<sourceIntact, permitted, superseder, replay, replaying, fresh, reviewing, recovered,
                 changes, stops>>

RebaseNext ==
  \/ SourceChanges \/ PolicyChanges \/ SupersederMerges \/ ProcessStops \/ Resolve
  \/ \E r \in Replays : \/ AdmitReplay(r) \/ ExecuteReplay(r) \/ ExpireReplay(r) \/ ReplayAdvances(r)
                        \/ ReplayStops(r) \/ SettleReplay(r) \/ ReplayLeaseEnds(r)
  \/ \E v \in FreshReviews :
       \/ \E r \in Replays : AdmitFresh(v, r)
       \/ \E answer \in SettledReview : EndFresh(v, answer)
       \/ StartFresh(v) \/ FailPreflight(v) \/ ClaimFresh(v) \/ CapacityRefused(v)
       \/ ExpireFresh(v) \/ FreshLeaseEnds(v) \/ StartRecovery(v) \/ InsertRecovered(v)

RebaseSpec == RebaseInit /\ [][RebaseNext]_rebaseVars

(***************************************************************************)
(* Properties                                                              *)
(***************************************************************************)
\* The rows, leases and executions are of the kinds the schemas allow, and an
\* approved review made its call.
RebaseTypeOK ==
  /\ replay \in [Replays -> [status : {"none", "pending", "running", "validated", "blocked"},
                             reason : {"none", "refused", "unexpected_failure", "patch_conflict"},
                             lease  : {"none", "held", "ended"}]]
  /\ replaying \in [Replays -> {"idle"} \cup {ReplayPhases[i] : i \in DOMAIN ReplayPhases}]
  /\ fresh \in [FreshReviews -> [status : {"none"} \cup ActiveReview \cup SettledReview,
                                 replay : 0..MaxReplays, calls : {0, 1},
                                 lease  : {"none", "held", "ended"},
                                 claim  : {"none", "active", "released"}]]
  /\ reviewing \in [FreshReviews -> {"idle", "preflight", "reviewer", "promotion"}]
  /\ recovered \in [FreshReviews -> {"none", "pending", "blocked"}]
  /\ {sourceIntact, permitted, superseder, resolution} \subseteq BOOLEAN
  /\ \A v \in FreshReviews : fresh[v].status = "approved" => fresh[v].calls = 1

\* A blocked publication is recovered at most once, however many replays and
\* reviews were tried, and what recovers it is an approved review of the
\* validated replay: neither row can change once the publication exists.
RecoveredOnce ==
  /\ Cardinality({v \in FreshReviews : recovered[v] # "none"}) <= 1
  /\ \A v \in FreshReviews : recovered[v] # "none" =>
       fresh[v].status = "approved" /\ replay[fresh[v].replay].status = "validated"

\* A replay has one model-bearing review: an expired, failed or rejected call, one
\* still in flight included, is never followed by another, by any number of reviews.
OneFreshCall ==
  \A r \in Replays :
    Cardinality({v \in FreshReviews :
      fresh[v].replay = r /\ (fresh[v].calls = 1 \/ reviewing[v] = "reviewer")}) <= 1

\* A review that is running, or whose reviewer was called, holds its capacity
\* until it settles, and gives it back when it does.
FreshCallsAreCounted ==
  \A v \in FreshReviews : fresh[v].calls = 1 =>
    fresh[v].claim = IF fresh[v].status = "running" THEN "active" ELSE "released"

\* Executions that go on after their lease do not overturn a verdict: a replay
\* that was validated or blocked stays so, and a settled review stays settled.
RecoveryVerdictsStand ==
  [][/\ \A r \in Replays : replay[r].status \in {"validated", "blocked"} =>
          replay'[r].status = replay[r].status
     /\ \A v \in FreshReviews : fresh[v].status \in SettledReview =>
          fresh'[v].status = fresh[v].status]_rebaseVars

\* A publication is resolved as superseded only while no replay of it has been
\* validated: a patch that did replay is not written off.
ResolutionWritesOffNothing ==
  [][resolution' # resolution => \A r \in Replays : replay[r].status # "validated"]_rebaseVars

\* A blocked publication is recovered once, from one replay and one fresh review call,
\* whose capacity is accounted for.
RecoveryIsSound ==
  /\ RebaseTypeOK
  /\ RecoveredOnce
  /\ OneFreshCall
  /\ FreshCallsAreCounted
=============================================================================
