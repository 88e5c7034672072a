--------------------------- MODULE DraftPublication ---------------------------
(***************************************************************************)
(* One draft publication, DraftPublicationService: a durable record, the   *)
(* calls that publish it, the refreshes that follow the pull request       *)
(* (an operator's or a webhook's, both through refreshChecks), and what    *)
(* they meet: GitHub's branch and pull requests, the default branch, the   *)
(* preserved workspace, the current policy and the version of the run.     *)
(*                                                                         *)
(* Every SQLite statement is one step and so is every GitHub request that  *)
(* reads or writes something another party can change; blobs, trees and    *)
(* commits are content-addressed, and every call builds the same commit,   *)
(* "approved".  A call may fail or be lost at any await.                   *)
(***************************************************************************)
EXTENDS Integers, Sequences, FiniteSets

CONSTANTS
  Executors,      \* calls of execute
  Refreshers,     \* calls of refreshChecks
  MaxAttempts,    \* publicationPolicy.maxAttempts
  Lease,          \* PUBLICATION_LEASE_MS, in ticks
  Humans,         \* what people do meanwhile: a subset of HumanActs
  MaxPulls,       \* bound on the pull requests opened from the branch
  MaxLosses,      \* bound on the calls and answers of execute that are lost
  MaxRunVersion   \* bound on the run's version

HumanActs == {"archive", "branch", "pull", "policy", "workspace", "default branch"}

ASSUME PublicationAssumption ==
  /\ IsFiniteSet(Executors)
  /\ MaxAttempts \in Nat \ {0} /\ Lease \in Nat \ {0}
  /\ Humans \subseteq HumanActs
  /\ MaxPulls \in Nat /\ MaxLosses \in Nat /\ MaxRunVersion \in Nat

VARIABLES
  record,       \* the draft_publications row
  admitting,    \* run versions carried by admissions that inspect the workspace
  execs,        \* execute calls
  refreshes,    \* refreshChecks calls
  losses,       \* calls and answers of execute lost so far
  \* the rest of the world
  run,          \* the source run: its version and its archive overlay
  workspace,    \* the preserved workspace still holds the approved patch
  policyOpen,   \* the current policy permits publication
  baseMoved,    \* the default branch left the approved base
  branch,       \* the generated branch: absent, or at which commit
  pulls         \* the pull requests opened from the branch

service == <<record, admitting, execs, refreshes, losses>>
world   == <<run, workspace, policyOpen, baseMoved, branch, pulls>>
vars    == <<service, world>>

Commits   == {"base", "approved", "other"}
Delivered == {"published", "checks_pending", "checks_failed", "ready_for_human", "merged", "closed"}
Statuses  == Delivered \cup {"none", "pending", "running", "failed", "blocked"}
\* Fault: closed pull requests are not followed any more.
RefreshableOpen == Delivered \ {"merged", "closed"}
Refreshable == Delivered \ {"merged"}
CheckStatuses == {"checks_failed", "checks_pending", "ready_for_human"}

\* marked: the body still holds the durable marker and the base is unchanged.
Pull == [state : {"open", "closed", "merged"}, draft : BOOLEAN, head : Commits, marked : BOOLEAN]
NoPull == 0
OpenPulls == {n \in DOMAIN pulls : pulls[n].state = "open"}

Idle == [step |-> "idle", result |-> "none", pull |-> NoPull]
NoRefresh == [step |-> "idle", pull |-> NoPull, seen |-> <<>>]

\* #block overwrites whatever the row says.
Blocked == [record EXCEPT !.status = "blocked", !.lease = 0]

(***************************************************************************)
(* Admission                                                               *)
(***************************************************************************)
\* The candidate is resolved from the ledger, then the workspace is inspected.
ResolveCandidate ==
  /\ record.status = "none"
  /\ admitting' = admitting \cup {run.version}
  /\ UNCHANGED <<record, execs, refreshes, losses, world>>

\* One record per approved review: the run and review are unique.
Admit(version) ==
  /\ version \in admitting
  /\ admitting' = admitting \ {version}
  /\ record' = IF record.status # "none" THEN record
               ELSE [record EXCEPT !.status = IF workspace /\ policyOpen THEN "pending" ELSE "blocked",
                                   !.runVersion = version]
  /\ UNCHANGED <<execs, refreshes, losses, world>>

(***************************************************************************)
(* execute                                                                 *)
(***************************************************************************)
At(e, step) == execs[e].step = step
Goto(e, step) == execs' = [execs EXCEPT ![e].step = step]
Conclude(e, result) == execs' = [execs EXCEPT ![e] = [step |-> "settle", result |-> result, pull |-> NoPull]]
Recover(e, n) == execs' = [execs EXCEPT ![e] = [step |-> "settle", result |-> "published", pull |-> n]]

\* A call, or the answer to a write that took effect, is lost.
Lost == losses < MaxLosses /\ losses' = losses + 1
Answered(e, next) == (next /\ UNCHANGED losses) \/ (Lost /\ Conclude(e, "failed"))

\* Fault: the attempt limit is not looked at.
BeginUnlimited(e) ==
  /\ At(e, "idle")
  /\ record.status \notin Delivered \cup {"none"}
  /\ record.runVersion = run.version
  /\ IF policyOpen THEN Goto(e, "inspect") /\ UNCHANGED record
                   ELSE record' = Blocked /\ UNCHANGED execs
  /\ UNCHANGED <<admitting, refreshes, losses, world>>

\* A delivered record is returned as it is; a changed run is refused.
Begin(e) ==
  /\ At(e, "idle")
  /\ record.status \notin Delivered \cup {"none"}
  /\ record.runVersion = run.version
  /\ IF policyOpen /\ record.attempts < MaxAttempts
       THEN Goto(e, "inspect") /\ UNCHANGED record
       ELSE record' = Blocked /\ UNCHANGED execs
  /\ UNCHANGED <<admitting, refreshes, losses, world>>

Claimable == \/ record.status \in {"pending", "failed", "blocked"}
             \/ record.status = "running" /\ record.lease = 0

\* The inspection is over: drift blocks the record, a record that is not claimable
\* is a conflict, and otherwise the call takes the lease.
Claim(e) ==
  /\ At(e, "inspect")
  /\ CASE ~workspace -> record' = Blocked /\ execs' = [execs EXCEPT ![e] = Idle]
       [] workspace /\ ~Claimable -> execs' = [execs EXCEPT ![e] = Idle] /\ UNCHANGED record
       [] workspace /\ Claimable ->
            /\ record' = [record EXCEPT !.status = "running", !.attempts = @ + 1, !.lease = Lease]
            /\ Goto(e, "base")
  /\ UNCHANGED <<admitting, refreshes, losses, world>>

\* The default branch must still be the approved base.
ReadBase(e) ==
  /\ At(e, "base")
  /\ IF baseMoved THEN Conclude(e, "blocked") ELSE Goto(e, "find")
  /\ UNCHANGED <<record, admitting, refreshes, losses, world>>

\* Fault: nothing is reconciled.
FindNoPull(e) == At(e, "find") /\ Goto(e, "branch") /\ UNCHANGED <<record, admitting, refreshes, losses, world>>

\* #findPull: an open pull request with the marker is recovered if it is still a
\* draft of the deterministic commit.
FindPull(e) ==
  /\ At(e, "find")
  /\ \/ \E n \in OpenPulls : /\ pulls[n].marked
                             /\ IF pulls[n].draft /\ pulls[n].head = "approved"
                                  THEN Recover(e, n) ELSE Conclude(e, "blocked")
     \/ ~(\E n \in OpenPulls : pulls[n].marked) /\ Goto(e, "branch")
  /\ UNCHANGED <<record, admitting, refreshes, losses, world>>

ReadBranch(e) ==
  /\ At(e, "branch")
  /\ CASE branch = "absent"   -> Goto(e, "create")
       [] branch = "base"     -> Goto(e, "advance")
       [] branch = "approved" -> Goto(e, "open")
       [] branch = "other"    -> Conclude(e, "blocked")
  /\ UNCHANGED <<record, admitting, refreshes, losses, world>>

\* A branch moves the head of its open pull request.
MoveBranch(to) ==
  /\ branch' = to
  /\ pulls' = [n \in DOMAIN pulls |-> IF n \in OpenPulls THEN [pulls[n] EXCEPT !.head = to]
                                                        ELSE pulls[n]]

\* Fault: the branch is advanced with force.
WritableByForce(step) == IF step = "create" THEN {"absent"} ELSE {"base", "approved", "other"}

\* GitHub creates only an absent branch, and moves one only forward.
WritableFrom(step) == IF step = "create" THEN {"absent"} ELSE {"base", "approved"}

WriteBranch(e) ==
  /\ execs[e].step \in {"create", "advance"}
  /\ IF branch \in WritableFrom(execs[e].step)
       THEN MoveBranch("approved") /\ (Answered(e, Goto(e, "open")))
       ELSE UNCHANGED <<branch, pulls, losses>> /\ Conclude(e, "failed")
  /\ UNCHANGED <<record, admitting, refreshes, run, workspace, policyOpen, baseMoved>>

\* GitHub refuses a second open pull request of a branch, and an empty one.  The
\* answer may be lost.
OpenPull(e) ==
  /\ At(e, "open")
  /\ IF branch \in {"approved", "other"} /\ OpenPulls = {}
       THEN /\ Len(pulls) < MaxPulls
            /\ pulls' = Append(pulls, [state |-> "open", draft |-> TRUE, head |-> branch,
                                       marked |-> TRUE])
            /\ Answered(e, Recover(e, Len(pulls) + 1))
       ELSE UNCHANGED <<pulls, losses>> /\ Conclude(e, "failed")
  /\ UNCHANGED <<record, admitting, refreshes, run, workspace, policyOpen, baseMoved, branch>>

\* A request fails, or GitHub authority is missing.
RequestFails(e) ==
  /\ execs[e].step \in {"base", "find", "branch", "create", "advance", "open"}
  /\ Lost
  /\ Conclude(e, "failed") \/ (At(e, "base") /\ Conclude(e, "blocked"))
  /\ UNCHANGED <<record, admitting, refreshes, world>>

\* The row is updated by its id alone.
Settle(e) ==
  /\ At(e, "settle")
  /\ record' = IF execs[e].result = "published"
                 THEN [record EXCEPT !.status = "published", !.pull = execs[e].pull, !.lease = 0]
                 ELSE [record EXCEPT !.status = execs[e].result, !.lease = 0]
  /\ execs' = [execs EXCEPT ![e] = Idle]
  /\ UNCHANGED <<admitting, refreshes, losses, world>>

\* The workspace cannot be read, or the process stops.
Abandon(e) ==
  /\ ~At(e, "idle")
  /\ Lost
  /\ execs' = [execs EXCEPT ![e] = Idle]
  /\ UNCHANGED <<record, admitting, refreshes, world>>

(***************************************************************************)
(* refreshChecks and refreshMatchingWebhook                                *)
(***************************************************************************)
ReadPull(f) ==
  /\ refreshes[f].step = "idle"
  /\ record.status \in Refreshable /\ record.pull # NoPull
  /\ refreshes' = [refreshes EXCEPT ![f] =
                     [step |-> "pull", pull |-> record.pull, seen |-> pulls[record.pull]]]
  /\ UNCHANGED <<record, admitting, execs, losses, world>>

Matches(seen) == seen.marked /\ seen.head = "approved"

\* Fault: whatever is no longer open counts as merged.
SettledAsMerged(seen) == IF Matches(seen) THEN [record EXCEPT !.status = "merged"] ELSE Blocked

\* A closed or merged pull request gives the record its state; one that no longer
\* matches the evidence blocks it.
Settled(seen) == IF Matches(seen) THEN [record EXCEPT !.status = seen.state] ELSE Blocked

\* What was seen settles the record, or the checks are read next.
ApplyPull(f) ==
  /\ refreshes[f].step = "pull"
  /\ LET seen == refreshes[f].seen IN
       IF Matches(seen) /\ seen.state = "open"
         THEN refreshes' = [refreshes EXCEPT ![f].step = "checks"] /\ UNCHANGED record
         ELSE refreshes' = [refreshes EXCEPT ![f] = NoRefresh] /\ record' = Settled(seen)
  /\ UNCHANGED <<admitting, execs, losses, world>>

\* Required checks are failed, missing or running, or all passed.
ApplyChecks(f, status) ==
  /\ refreshes[f].step = "checks"
  /\ record' = [record EXCEPT !.status = status]
  /\ refreshes' = [refreshes EXCEPT ![f] = NoRefresh]
  /\ UNCHANGED <<admitting, execs, losses, world>>

\* A lookup fails, or the process stops.
RefreshEnds(f) ==
  /\ refreshes[f].step # "idle"
  /\ refreshes' = [refreshes EXCEPT ![f] = NoRefresh]
  /\ UNCHANGED <<record, admitting, execs, losses, world>>

(***************************************************************************)
(* The world                                                               *)
(***************************************************************************)
\* JobLedger!Archive and JobLedger!Restore of the source run.
ArchiveOrRestore ==
  /\ "archive" \in Humans /\ run.version < MaxRunVersion
  /\ run' = [version |-> run.version + 1, archived |-> ~run.archived]
  /\ UNCHANGED <<service, workspace, policyOpen, baseMoved, branch, pulls>>

WorkspaceChanges ==
  /\ "workspace" \in Humans /\ workspace /\ workspace' = FALSE
  /\ UNCHANGED <<service, run, policyOpen, baseMoved, branch, pulls>>

PolicyChanges ==
  /\ "policy" \in Humans /\ policyOpen' = ~policyOpen
  /\ UNCHANGED <<service, run, workspace, baseMoved, branch, pulls>>

DefaultBranchMoves ==
  /\ "default branch" \in Humans /\ ~baseMoved /\ baseMoved' = TRUE
  /\ UNCHANGED <<service, run, workspace, policyOpen, branch, pulls>>

\* Anyone with write access pushes to the branch, or deletes it.
PushBranch(to) ==
  /\ "branch" \in Humans /\ to # branch
  /\ to = "base" => OpenPulls = {}
  /\ MoveBranch(to)
  /\ UNCHANGED <<service, run, workspace, policyOpen, baseMoved>>

DeleteBranch ==
  /\ "branch" \in Humans /\ branch # "absent"
  /\ branch' = "absent"
  /\ pulls' = [n \in DOMAIN pulls |-> IF n \in OpenPulls THEN [pulls[n] EXCEPT !.state = "closed"]
                                                        ELSE pulls[n]]
  /\ UNCHANGED <<service, run, workspace, policyOpen, baseMoved>>

\* A pull request is edited, made ready, closed, reopened or merged.
ChangePull(n, to) ==
  /\ "pull" \in Humans
  /\ \/ pulls[n].state = "open" /\ to \in {[pulls[n] EXCEPT !.marked = ~@], [pulls[n] EXCEPT !.draft = ~@],
                                           [pulls[n] EXCEPT !.state = "closed"]}
     \/ pulls[n].state = "open" /\ ~pulls[n].draft /\ to = [pulls[n] EXCEPT !.state = "merged"]
     \/ pulls[n].state = "closed" /\ OpenPulls = {} /\ branch = pulls[n].head
        /\ to = [pulls[n] EXCEPT !.state = "open"]
  /\ pulls' = [pulls EXCEPT ![n] = to]
  /\ baseMoved' = (baseMoved \/ to.state = "merged")
  /\ UNCHANGED <<service, run, workspace, policyOpen, branch>>

\* Time passes against the lease of the record, whoever holds it.
LeaseElapses ==
  /\ record.lease > 0
  /\ record' = [record EXCEPT !.lease = @ - 1]
  /\ UNCHANGED <<admitting, execs, refreshes, losses, world>>

(***************************************************************************)
(* Specification                                                           *)
(***************************************************************************)
Init ==
  /\ record = [status |-> "none", runVersion |-> 0, attempts |-> 0, lease |-> 0, pull |-> NoPull]
  /\ admitting = {}
  /\ execs = [e \in Executors |-> Idle]
  /\ refreshes = [f \in Refreshers |-> NoRefresh]
  /\ losses = 0
  /\ run = [version |-> 1, archived |-> FALSE]
  /\ workspace = TRUE /\ policyOpen = TRUE /\ baseMoved = FALSE
  /\ branch = "absent" /\ pulls = <<>>

Publishing(e) == ReadBase(e) \/ FindPull(e) \/ ReadBranch(e) \/ WriteBranch(e) \/ OpenPull(e)

World ==
  \/ ArchiveOrRestore \/ WorkspaceChanges \/ PolicyChanges \/ DefaultBranchMoves
  \/ \E to \in Commits : PushBranch(to)
  \/ DeleteBranch
  \/ \E n \in DOMAIN pulls : \E to \in Pull : ChangePull(n, to)
  \/ LeaseElapses

Next ==
  \/ ResolveCandidate
  \/ \E version \in admitting : Admit(version)
  \/ \E e \in Executors : \/ Begin(e) \/ Claim(e) \/ Publishing(e)
                          \/ RequestFails(e) \/ Settle(e) \/ Abandon(e)
  \/ \E f \in Refreshers : \/ ReadPull(f) \/ ApplyPull(f) \/ RefreshEnds(f)
                           \/ \E status \in CheckStatuses : ApplyChecks(f, status)
  \/ World

Spec == Init /\ [][Next]_vars

\* Every request ends: it answers or it fails.
ExecStep(e) == Publishing(e) \/ RequestFails(e) \/ Settle(e)
RefreshStep(f) == ApplyPull(f) \/ (\E status \in CheckStatuses : ApplyChecks(f, status)) \/ RefreshEnds(f)

\* An operator admits the publication and retries it until it is delivered or
\* blocked, and an attempt is not interrupted in the inspection forever.
RetriedSpec ==
  /\ Spec
  /\ WF_vars(ResolveCandidate) /\ WF_vars(\E version \in admitting : Admit(version))
  /\ WF_vars(LeaseElapses)
  /\ \A e \in Executors : WF_vars(ExecStep(e)) /\ WF_vars(Begin(e)) /\ SF_vars(Claim(e))

\* Webhook deliveries and operators ask for the pull request again and again, and
\* some refreshes are answered.
FollowedSpec ==
  /\ Spec
  /\ \A f \in Refreshers : /\ WF_vars(ReadPull(f)) /\ WF_vars(RefreshStep(f))
                           /\ SF_vars(ApplyPull(f))

(***************************************************************************)
(* Properties                                                              *)
(***************************************************************************)
ExecSteps == {"idle", "inspect", "base", "find", "branch", "create", "advance", "open", "settle"}

\* Row, calls and world have their shapes.
TypeOK ==
  /\ record \in [status : Statuses, runVersion : Nat, attempts : Nat, lease : 0..Lease, pull : Nat]
  /\ admitting \subseteq Nat
  /\ execs \in [Executors -> [step : ExecSteps, result : {"none", "published", "failed", "blocked"},
                             pull : Nat]]
  /\ \A f \in Refreshers : /\ refreshes[f].step \in {"idle", "pull", "checks"}
                           /\ refreshes[f].pull \in Nat
                           /\ refreshes[f].step # "idle" => refreshes[f].seen \in Pull
  /\ losses \in 0..MaxLosses
  /\ run \in [version : Nat, archived : BOOLEAN]
  /\ {workspace, policyOpen, baseMoved} \subseteq BOOLEAN
  /\ branch \in Commits \cup {"absent"}
  /\ pulls \in Seq(Pull)

\* However stale the branch a call has seen, Bobsled never moves a branch off
\* commits it did not make: its writes take an absent or unadvanced branch to the
\* approved commit.
NeverForced ==
  [][branch' # branch /\ execs' # execs => branch \in {"absent", "base"} /\ branch' = "approved"]_vars

\* The attempt limit is checked before the inspection and spent after it, so
\* overlapping calls may pass it; each at most once.
AttemptsOvershoot == record.attempts <= MaxAttempts + Cardinality(Executors) - 1

\* A delivered record names a pull request of this publication, whatever calls and
\* refreshes wrote last, and no lease keeps it.
DeliveredHasPull ==
  /\ record.status \in Delivered => record.pull \in DOMAIN pulls
  /\ record.lease > 0 => record.status \notin {"none", "pending", "failed", "blocked"}

\* Overlapping calls spend few attempts too many and leave a record that says what
\* was delivered.
DeliveryIsSound ==
  /\ AttemptsOvershoot
  /\ DeliveredHasPull

\* However late a refresh writes what it read, the record never reports a delivery
\* that no pull request of the publication had.
MergedMeansMerged == record.status = "merged" => \E n \in DOMAIN pulls : pulls[n].state = "merged"

\* Refreshes keep the record in its shape and to the truth.
RefreshesAreTrue ==
  /\ TypeOK
  /\ MergedMeansMerged

\* Fails closed: once the workspace or the default branch has drifted and no call is
\* past the check of it, it stays so whatever is retried, and no call touches GitHub
\* again.
PastInspection(e) == execs[e].step \notin {"idle", "inspect", "settle"}
PastBase(e)       == PastInspection(e) /\ execs[e].step # "base"
Halted == \/ ~workspace /\ \A e \in Executors : ~PastInspection(e)
          \/ baseMoved  /\ \A e \in Executors : ~PastBase(e)

DriftStopsPublication ==
  [][Halted => Halted' /\ (execs' # execs => UNCHANGED <<branch, pulls>>)]_vars

\* Nothing is published over other people's commits, and nothing once the ground moved.
PublicationFailsClosed ==
  /\ NeverForced
  /\ DriftStopsPublication

\* Interruption is reconciled: while nobody touches the branch, a publication is in
\* the end delivered by its retries as the one pull request that was opened.  A call
\* fails for each loss and at most twice for a conflict with an overlapping call (the
\* branch, the pull request), and one that lost its lease may fail a record another
\* attempt has delivered: that is two attempts for each failure.
InterruptionIsReconciled == <>[](record.status \in Delivered /\ Len(pulls) = 1 /\ record.pull = 1)

\* A merge does not stay unnoticed: the record leaves the open states.
Merged == record.pull # NoPull /\ pulls[record.pull].state = "merged"
MergeIsNoticed == Merged ~> record.status \notin Delivered \ {"merged"}

=============================================================================
