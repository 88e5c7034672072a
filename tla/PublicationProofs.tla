--------------------------- MODULE PublicationProofs ---------------------------
(***************************************************************************)
(* Theorems of DraftPublication, for any number of calls and refreshes,    *)
(* any limit of attempts and lease, and whatever people do meanwhile.      *)
(***************************************************************************)
EXTENDS DraftPublication, FiniteSetTheorems, TLAPS

(***************************************************************************)
(* Pull requests                                                           *)
(***************************************************************************)
\* A sequence of pull requests is numbered from one.
LEMMA Shapes ==
  ASSUME NEW s \in Seq(Pull)
  PROVE  /\ Len(s) \in Nat /\ DOMAIN s = 1..Len(s)
         /\ \A n \in DOMAIN s : s[n] \in Pull
  OBVIOUS

\* An appended pull request leaves the others where they are.
LEMMA Extended ==
  ASSUME NEW s \in Seq(Pull), NEW x \in Pull
  PROVE  /\ Append(s, x) \in Seq(Pull) /\ Len(Append(s, x)) = Len(s) + 1
         /\ \A i \in 1..Len(s) : Append(s, x)[i] = s[i]
  OBVIOUS

\* What is rewritten in place keeps its length.
LEMMA Rewritten ==
  ASSUME NEW s \in Seq(Pull), NEW t, t = [n \in DOMAIN s |-> t[n]],
         \A n \in DOMAIN s : t[n] \in Pull
  PROVE  t \in Seq(Pull) /\ DOMAIN t = DOMAIN s /\ Len(t) = Len(s)
<1>1. DOMAIN s = 1..Len(s) /\ Len(s) \in Nat
  OBVIOUS
<1>2. t \in [1..Len(s) -> Pull]
  BY <1>1
<1> QED BY <1>1, <1>2

\* No pull request is ever gone, and a merged one stays merged.
PullsLast ==
  /\ pulls' \in Seq(Pull) /\ DOMAIN pulls \subseteq DOMAIN pulls'
  /\ \A n \in DOMAIN pulls : pulls[n].state = "merged" => pulls'[n].state = "merged"

\* Pull requests nobody touches last,
LEMMA UntouchedPullsLast ==
  ASSUME pulls \in Seq(Pull), pulls' = pulls
  PROVE  PullsLast
  BY DEF PullsLast

\* and so they do when their branch moves,
LEMMA MovedPullsLast ==
  ASSUME pulls \in Seq(Pull), NEW to \in Commits, MoveBranch(to)
  PROVE  PullsLast
<1>1. \A n \in DOMAIN pulls : pulls[n] \in Pull
  BY Shapes
<1>2. pulls' = [n \in DOMAIN pulls |-> pulls'[n]]
  BY DEF MoveBranch
<1>3. \A n \in DOMAIN pulls : pulls'[n] \in Pull /\ pulls'[n].state = pulls[n].state
  BY <1>1 DEF MoveBranch, Pull
<1>4. pulls' \in Seq(Pull) /\ DOMAIN pulls' = DOMAIN pulls
  BY <1>2, <1>3, Rewritten
<1> QED BY <1>3, <1>4 DEF PullsLast

\* when it is deleted, which closes the open one,
LEMMA DeletedPullsLast ==
  ASSUME pulls \in Seq(Pull), DeleteBranch
  PROVE  PullsLast
<1>1. \A n \in DOMAIN pulls : pulls[n] \in Pull
  BY Shapes
<1>2. pulls' = [n \in DOMAIN pulls |-> pulls'[n]]
  BY DEF DeleteBranch
<1>3. \A n \in DOMAIN pulls :
        pulls'[n] \in Pull /\ (pulls[n].state # "open" => pulls'[n] = pulls[n])
  BY <1>1 DEF DeleteBranch, Pull, OpenPulls
<1>4. pulls' \in Seq(Pull) /\ DOMAIN pulls' = DOMAIN pulls
  BY <1>2, <1>3, Rewritten
<1> QED BY <1>3, <1>4 DEF PullsLast

\* and when a person changes one.
LEMMA ChangedPullsLast ==
  ASSUME pulls \in Seq(Pull), NEW n \in DOMAIN pulls, NEW to \in Pull, ChangePull(n, to)
  PROVE  PullsLast
<1>1. \A k \in DOMAIN pulls : pulls[k] \in Pull
  BY Shapes
<1>2. pulls' = [pulls EXCEPT ![n] = to]
  BY DEF ChangePull
<1>3. \A k \in DOMAIN pulls : pulls'[k] = IF k = n THEN to ELSE pulls[k]
  BY <1>2
<1>4. pulls' \in Seq(Pull) /\ DOMAIN pulls' = DOMAIN pulls
  BY <1>1, <1>2, <1>3, Rewritten
<1>5. pulls[n].state # "merged"
  BY DEF ChangePull
<1> QED BY <1>3, <1>4, <1>5 DEF PullsLast

\* One is appended, open.
LEMMA AppendedPullsLast ==
  ASSUME pulls \in Seq(Pull), NEW x \in Pull, pulls' = Append(pulls, x)
  PROVE  PullsLast /\ Len(pulls) + 1 \in DOMAIN pulls'
<1>1. /\ pulls' \in Seq(Pull) /\ Len(pulls') = Len(pulls) + 1
      /\ \A i \in 1..Len(pulls) : pulls'[i] = pulls[i]
  BY Extended
<1>2. DOMAIN pulls = 1..Len(pulls) /\ DOMAIN pulls' = 1..(Len(pulls) + 1) /\ Len(pulls) \in Nat
  BY <1>1, Shapes
<1> QED BY <1>1, <1>2 DEF PullsLast

(***************************************************************************)
(* The inductive invariant                                                 *)
(***************************************************************************)
ExecState    == [step : ExecSteps, result : {"none", "published", "failed", "blocked"}, pull : Nat]
RefreshState == [step : {"idle", "pull", "checks"}, pull : Nat, seen : Pull \cup {<<>>}]

\* A pull request a record or a call names is one that was opened.
PullsAreNamed ==
  /\ record.pull # NoPull => record.pull \in DOMAIN pulls
  /\ \A e \in Executors : execs[e].result = "published" => execs[e].pull \in DOMAIN pulls

\* Only a record that names one is delivered, or followed.
DeliveryNamesPull ==
  /\ record.status \in Delivered => record.pull # NoPull
  /\ \A f \in Refreshers : refreshes[f].step # "idle" => record.pull # NoPull

\* A merge that a refresh has seen is still one, however late it is written.
SomeMerged == \E n \in DOMAIN pulls : pulls[n].state = "merged"
MergesSeen ==
  \A f \in Refreshers :
    refreshes[f].step # "idle" /\ refreshes[f].seen.state = "merged" => SomeMerged

LeaseKeepsRecord == record.lease > 0 => record.status \notin {"none", "pending", "failed", "blocked"}

PublicationInv ==
  /\ TypeOK /\ refreshes \in [Refreshers -> RefreshState]
  /\ PullsAreNamed
  /\ DeliveryNamesPull
  /\ MergesSeen
  /\ LeaseKeepsRecord
  /\ MergedMeansMerged

(***************************************************************************)
(* What the steps do to each variable                                      *)
(***************************************************************************)
\* The rest of the world keeps its shape.
LEMMA WorldKept ==
  ASSUME TypeOK, [Next]_vars
  PROVE  /\ run' \in [version : Nat, archived : BOOLEAN]
         /\ {workspace, policyOpen, baseMoved}' \subseteq BOOLEAN
         /\ branch' \in Commits \cup {"absent"}
<1> USE DEF TypeOK
<1>1. CASE ResolveCandidate \/ (\E version \in admitting : Admit(version)) \/ LeaseElapses
           \/ (\E f \in Refreshers : \/ ReadPull(f) \/ ApplyPull(f) \/ RefreshEnds(f)
                                     \/ \E status \in CheckStatuses : ApplyChecks(f, status))
           \/ (\E e \in Executors : \/ Begin(e) \/ Claim(e) \/ ReadBase(e) \/ FindPull(e)
                                    \/ ReadBranch(e) \/ RequestFails(e) \/ Settle(e) \/ Abandon(e))
           \/ UNCHANGED vars
  <2>1. UNCHANGED <<run, workspace, policyOpen, baseMoved, branch>>
    BY <1>1 DEF ResolveCandidate, Admit, LeaseElapses, ReadPull, ApplyPull, RefreshEnds, ApplyChecks,
                Begin, Claim, ReadBase, FindPull, ReadBranch, RequestFails, Settle, Abandon,
                vars, world
  <2> QED BY <2>1
<1>2. ASSUME NEW e \in Executors, WriteBranch(e)
      PROVE  /\ UNCHANGED <<run, workspace, policyOpen, baseMoved>>
             /\ branch' \in Commits \cup {"absent"}
  BY <1>2 DEF WriteBranch, MoveBranch, Commits
<1>3. ASSUME NEW e \in Executors, OpenPull(e)
      PROVE  UNCHANGED <<run, workspace, policyOpen, baseMoved, branch>>
  BY <1>3 DEF OpenPull
<1>4. CASE ArchiveOrRestore
  BY <1>4 DEF ArchiveOrRestore
<1>5. CASE WorkspaceChanges \/ PolicyChanges \/ DefaultBranchMoves
  BY <1>5 DEF WorkspaceChanges, PolicyChanges, DefaultBranchMoves
<1>6. CASE DeleteBranch \/ \E to \in Commits : PushBranch(to)
  BY <1>6 DEF DeleteBranch, PushBranch, MoveBranch
<1>7. ASSUME NEW n \in DOMAIN pulls, NEW to \in Pull, ChangePull(n, to)
      PROVE  /\ UNCHANGED <<run, workspace, policyOpen, branch>> /\ baseMoved' \in BOOLEAN
  BY <1>7 DEF ChangePull
<1> QED BY <1>1, <1>2, <1>3, <1>4, <1>5, <1>6, <1>7 DEF Next, World, Publishing

\* Every step lets pull requests last.
LEMMA PullsKept ==
  ASSUME TypeOK, [Next]_vars
  PROVE  PullsLast
<1> USE DEF TypeOK
<1>1. CASE ResolveCandidate \/ (\E version \in admitting : Admit(version)) \/ LeaseElapses
           \/ ArchiveOrRestore \/ WorkspaceChanges \/ PolicyChanges \/ DefaultBranchMoves
           \/ (\E f \in Refreshers : \/ ReadPull(f) \/ ApplyPull(f) \/ RefreshEnds(f)
                                     \/ \E status \in CheckStatuses : ApplyChecks(f, status))
           \/ (\E e \in Executors : \/ Begin(e) \/ Claim(e) \/ ReadBase(e) \/ FindPull(e)
                                    \/ ReadBranch(e) \/ RequestFails(e) \/ Settle(e) \/ Abandon(e))
           \/ UNCHANGED vars
  <2>1. pulls' = pulls
    BY <1>1 DEF ResolveCandidate, Admit, LeaseElapses, ReadPull, ApplyPull, RefreshEnds, ApplyChecks,
                Begin, Claim, ReadBase, FindPull, ReadBranch, RequestFails, Settle, Abandon,
                ArchiveOrRestore, WorkspaceChanges, PolicyChanges, DefaultBranchMoves, vars, world
  <2> QED BY <2>1, UntouchedPullsLast
<1>2. ASSUME NEW e \in Executors, WriteBranch(e) PROVE PullsLast
  <2>1. MoveBranch("approved") \/ pulls' = pulls
    BY <1>2 DEF WriteBranch
  <2>2. "approved" \in Commits
    BY DEF Commits
  <2> QED BY <2>1, <2>2, MovedPullsLast, UntouchedPullsLast
<1>3. ASSUME NEW e \in Executors, OpenPull(e) PROVE PullsLast
  <2> DEFINE x == [state |-> "open", draft |-> TRUE, head |-> branch, marked |-> TRUE]
  <2>1. pulls' = pulls \/ (pulls' = Append(pulls, x) /\ branch \in {"approved", "other"})
    BY <1>3 DEF OpenPull
  <2>2. branch \in {"approved", "other"} => x \in Pull
    BY DEF Pull, Commits
  <2> QED BY <2>1, <2>2, AppendedPullsLast, UntouchedPullsLast
<1>4. CASE DeleteBranch
  BY <1>4, DeletedPullsLast
<1>5. ASSUME NEW to \in Commits, PushBranch(to) PROVE PullsLast
  BY <1>5, MovedPullsLast DEF PushBranch
<1>6. ASSUME NEW n \in DOMAIN pulls, NEW to \in Pull, ChangePull(n, to) PROVE PullsLast
  BY <1>6, ChangedPullsLast
<1> QED BY <1>1, <1>2, <1>3, <1>4, <1>5, <1>6 DEF Next, World, Publishing

\* A call of execute is where it was, or one call moves and names what was opened.
ExecsNamed ==
  /\ execs' \in [Executors -> ExecState]
  /\ \A e \in Executors : execs'[e].result = "published" => execs'[e].pull \in DOMAIN pulls'

\* Calls that do not move keep the names they had,
LEMMA UntouchedExecs ==
  ASSUME execs \in [Executors -> ExecState], PullsAreNamed, PullsLast, execs' = execs
  PROVE  ExecsNamed
  BY DEF ExecsNamed, PullsAreNamed, PullsLast

\* one that moves is given a name that was opened,
LEMMA MovedExec ==
  ASSUME execs \in [Executors -> ExecState], PullsAreNamed, PullsLast,
         NEW e \in Executors, NEW x \in ExecState, execs' = [execs EXCEPT ![e] = x],
         x.result = "published" => x.pull \in DOMAIN pulls'
  PROVE  ExecsNamed
  BY DEF ExecsNamed, PullsAreNamed, PullsLast

\* in each of the ways a call can move,
LEMMA ExecMoves ==
  ASSUME execs \in [Executors -> ExecState], PullsAreNamed, PullsLast, NEW e \in Executors
  PROVE  /\ \A step \in ExecSteps : Goto(e, step) => ExecsNamed
         /\ \A result \in {"failed", "blocked"} : Conclude(e, result) => ExecsNamed
         /\ \A n \in DOMAIN pulls' : n \in Nat /\ Recover(e, n) => ExecsNamed
         /\ execs' = [execs EXCEPT ![e] = Idle] => ExecsNamed
<1>1. ASSUME NEW step \in ExecSteps, Goto(e, step) PROVE ExecsNamed
  <2> DEFINE x == [execs[e] EXCEPT !.step = step]
  <2>1. x \in ExecState /\ x.result = execs[e].result /\ x.pull = execs[e].pull
    BY DEF ExecState
  <2>2. execs' = [execs EXCEPT ![e] = x]
    BY <1>1 DEF Goto
  <2>3. x.result = "published" => x.pull \in DOMAIN pulls'
    BY <2>1 DEF PullsAreNamed, PullsLast
  <2> QED BY <2>1, <2>2, <2>3, MovedExec
<1>2. ASSUME NEW result \in {"failed", "blocked"}, Conclude(e, result) PROVE ExecsNamed
  <2> DEFINE x == [step |-> "settle", result |-> result, pull |-> NoPull]
  <2>1. x \in ExecState /\ x.result # "published" /\ execs' = [execs EXCEPT ![e] = x]
    BY <1>2 DEF Conclude, ExecState, ExecSteps, NoPull
  <2> QED BY <2>1, MovedExec
<1>3. ASSUME NEW n \in DOMAIN pulls', n \in Nat, Recover(e, n) PROVE ExecsNamed
  <2> DEFINE x == [step |-> "settle", result |-> "published", pull |-> n]
  <2>1. x \in ExecState /\ x.pull = n /\ execs' = [execs EXCEPT ![e] = x]
    BY <1>3 DEF Recover, ExecState, ExecSteps
  <2> QED BY <2>1, MovedExec
<1>4. ASSUME execs' = [execs EXCEPT ![e] = Idle] PROVE ExecsNamed
  <2>1. Idle \in ExecState /\ Idle.result # "published"
    BY DEF Idle, ExecState, ExecSteps, NoPull
  <2> QED BY <1>4, <2>1, MovedExec
<1> QED BY <1>1, <1>2, <1>3, <1>4

\* by every step.
LEMMA ExecsKept ==
  ASSUME TypeOK, PullsAreNamed, PullsLast, [Next]_vars
  PROVE  ExecsNamed /\ losses' \in 0..MaxLosses
<1>0. /\ execs \in [Executors -> ExecState] /\ losses \in 0..MaxLosses /\ MaxLosses \in Nat
      /\ pulls \in Seq(Pull) /\ Len(pulls) \in Nat /\ DOMAIN pulls = 1..Len(pulls)
  BY PublicationAssumption, Shapes DEF PublicationAssumption, TypeOK, ExecState
<1>1. CASE ResolveCandidate \/ (\E version \in admitting : Admit(version)) \/ LeaseElapses
           \/ ArchiveOrRestore \/ WorkspaceChanges \/ PolicyChanges \/ DefaultBranchMoves
           \/ (\E f \in Refreshers : \/ ReadPull(f) \/ ApplyPull(f) \/ RefreshEnds(f)
                                     \/ \E status \in CheckStatuses : ApplyChecks(f, status))
           \/ (\E to \in Commits : PushBranch(to)) \/ DeleteBranch
           \/ (\E n \in DOMAIN pulls : \E to \in Pull : ChangePull(n, to))
           \/ UNCHANGED vars
  <2>1. execs' = execs /\ losses' = losses
    BY <1>1 DEF ResolveCandidate, Admit, LeaseElapses, ReadPull, ApplyPull, RefreshEnds, ApplyChecks,
                ArchiveOrRestore, WorkspaceChanges, PolicyChanges, DefaultBranchMoves,
                PushBranch, DeleteBranch, ChangePull, vars, service
  <2> QED BY <1>0, <2>1, UntouchedExecs
<1>2. ASSUME NEW e \in Executors, Begin(e) PROVE ExecsNamed /\ losses' \in 0..MaxLosses
  <2>1. execs' = execs \/ Goto(e, "inspect")
    BY <1>2 DEF Begin
  <2> QED BY <1>0, <1>2, <2>1, UntouchedExecs, ExecMoves DEF Begin, ExecSteps
<1>3. ASSUME NEW e \in Executors, Claim(e) PROVE ExecsNamed /\ losses' \in 0..MaxLosses
  <2>1. CASE ~workspace
    BY <1>0, <1>3, <2>1, ExecMoves DEF Claim
  <2>2. CASE workspace /\ ~Claimable
    BY <1>0, <1>3, <2>2, ExecMoves DEF Claim
  <2>3. CASE workspace /\ Claimable
    BY <1>0, <1>3, <2>3, ExecMoves DEF Claim, ExecSteps
  <2> QED BY <1>3, <2>1, <2>2, <2>3 DEF Claim
<1>4. ASSUME NEW e \in Executors, ReadBase(e) PROVE ExecsNamed /\ losses' \in 0..MaxLosses
  <2>1. Conclude(e, "blocked") \/ Goto(e, "find")
    BY <1>4 DEF ReadBase
  <2> QED BY <1>0, <1>4, <2>1, ExecMoves DEF ReadBase, ExecSteps
<1>5. ASSUME NEW e \in Executors, FindPull(e) PROVE ExecsNamed /\ losses' \in 0..MaxLosses
  <2>1. \/ \E n \in DOMAIN pulls : Recover(e, n)
        \/ Conclude(e, "blocked")
        \/ Goto(e, "branch")
    BY <1>5 DEF FindPull, OpenPulls
  <2>2. ASSUME NEW n \in DOMAIN pulls, Recover(e, n) PROVE ExecsNamed
    BY <1>0, <2>2, ExecMoves DEF PullsLast
  <2> QED BY <1>0, <1>5, <2>1, <2>2, ExecMoves DEF FindPull, ExecSteps
<1>6. ASSUME NEW e \in Executors, ReadBranch(e) PROVE ExecsNamed /\ losses' \in 0..MaxLosses
  <2>1. branch \in {"absent", "base", "approved", "other"}
    BY DEF TypeOK, Commits
  <2>2. \/ \E step \in {"create", "advance", "open"} : Goto(e, step)
        \/ Conclude(e, "blocked")
    BY <1>6, <2>1 DEF ReadBranch
  <2> QED BY <1>0, <1>6, <2>2, ExecMoves DEF ReadBranch, ExecSteps
<1>7. ASSUME NEW e \in Executors, WriteBranch(e) PROVE ExecsNamed /\ losses' \in 0..MaxLosses
  <2>1. /\ losses' = losses \/ Lost
        /\ Goto(e, "open") \/ Conclude(e, "failed")
    BY <1>7 DEF WriteBranch, Answered
  <2> QED BY <1>0, <2>1, ExecMoves DEF Lost, ExecSteps
<1>8. ASSUME NEW e \in Executors, OpenPull(e) PROVE ExecsNamed /\ losses' \in 0..MaxLosses
  <2> DEFINE x == [state |-> "open", draft |-> TRUE, head |-> branch, marked |-> TRUE]
  <2>1. CASE branch \in {"approved", "other"} /\ OpenPulls = {}
    <3>1. /\ pulls' = Append(pulls, x) /\ x \in Pull
          /\ losses' = losses \/ Lost
          /\ Recover(e, Len(pulls) + 1) \/ Conclude(e, "failed")
      BY <1>8, <2>1 DEF OpenPull, Answered, Pull, Commits
    <3>2. Len(pulls) + 1 \in DOMAIN pulls' /\ Len(pulls) + 1 \in Nat
      BY <1>0, <3>1, AppendedPullsLast
    <3> QED BY <1>0, <3>1, <3>2, ExecMoves DEF Lost
  <2>2. CASE ~(branch \in {"approved", "other"} /\ OpenPulls = {})
    BY <1>0, <1>8, <2>2, ExecMoves DEF OpenPull
  <2> QED BY <2>1, <2>2
<1>9. ASSUME NEW e \in Executors, RequestFails(e) PROVE ExecsNamed /\ losses' \in 0..MaxLosses
  <2>1. Lost /\ (Conclude(e, "failed") \/ Conclude(e, "blocked"))
    BY <1>9 DEF RequestFails
  <2> QED BY <1>0, <2>1, ExecMoves DEF Lost
<1>10. ASSUME NEW e \in Executors, Settle(e) PROVE ExecsNamed /\ losses' \in 0..MaxLosses
  BY <1>0, <1>10, ExecMoves DEF Settle
<1>11. ASSUME NEW e \in Executors, Abandon(e) PROVE ExecsNamed /\ losses' \in 0..MaxLosses
  <2>1. Lost /\ execs' = [execs EXCEPT ![e] = Idle]
    BY <1>11 DEF Abandon
  <2>2. losses' \in 0..MaxLosses
    BY <1>0, <2>1 DEF Lost
  <2> QED BY <1>0, <2>1, <2>2, ExecMoves
<1>12. ASSUME NEW e \in Executors,
              \/ Begin(e) \/ Claim(e) \/ Publishing(e) \/ RequestFails(e) \/ Settle(e) \/ Abandon(e)
       PROVE  ExecsNamed /\ losses' \in 0..MaxLosses
  BY <1>2, <1>3, <1>4, <1>5, <1>6, <1>7, <1>8, <1>9, <1>10, <1>11, <1>12 DEF Publishing
<1> QED BY <1>1, <1>12 DEF Next, World

(***************************************************************************)
(* The refreshes                                                           *)
(***************************************************************************)
\* Only Settle names a pull request, and it never takes the name back.
LEMMA RecordStaysNamed ==
  ASSUME TypeOK, PullsAreNamed, [Next]_vars
  PROVE  /\ record.pull # NoPull => record'.pull # NoPull
         /\ record'.pull # record.pull =>
              \E e \in Executors : execs[e].result = "published" /\ record'.pull = execs[e].pull
<1>0. /\ record \in [status : Statuses, runVersion : Nat, attempts : Nat, lease : 0..Lease, pull : Nat]
      /\ DOMAIN pulls = 1..Len(pulls) /\ Len(pulls) \in Nat
  BY Shapes DEF TypeOK
<1>1. CASE record'.pull = record.pull
  BY <1>1
<1>2. ASSUME NEW e \in Executors, Settle(e)
      PROVE  \/ record'.pull = record.pull
             \/ execs[e].result = "published" /\ record'.pull = execs[e].pull
  BY <1>0, <1>2 DEF Settle
<1>3. ASSUME NEW e \in Executors, execs[e].result = "published" PROVE execs[e].pull # NoPull
  BY <1>0, <1>3 DEF PullsAreNamed, NoPull
<1>4. CASE UNCHANGED record
  BY <1>4
<1>5. CASE \/ \E version \in admitting : Admit(version)
           \/ \E f \in Refreshers : ApplyPull(f) \/ \E status \in CheckStatuses : ApplyChecks(f, status)
           \/ \E e \in Executors : Begin(e) \/ Claim(e)
           \/ LeaseElapses
  <2>1. record'.pull = record.pull
    BY <1>0, <1>5 DEF Admit, ApplyPull, ApplyChecks, Settled, Begin, Claim, Blocked, LeaseElapses
  <2> QED BY <2>1
<1>6. UNCHANGED record \/ (\E e \in Executors : Settle(e))
      \/ (\E version \in admitting : Admit(version))
      \/ (\E f \in Refreshers : ApplyPull(f) \/ \E status \in CheckStatuses : ApplyChecks(f, status))
      \/ (\E e \in Executors : Begin(e) \/ Claim(e)) \/ LeaseElapses
  BY DEF Next, World, Publishing, ResolveCandidate, ReadPull, RefreshEnds, ReadBase, FindPull,
         ReadBranch, WriteBranch, OpenPull, RequestFails, Abandon, ArchiveOrRestore,
         WorkspaceChanges, PolicyChanges, DefaultBranchMoves, PushBranch, DeleteBranch,
         ChangePull, service, vars
<1> QED BY <1>2, <1>3, <1>4, <1>5, <1>6

RefreshesNamed ==
  /\ refreshes' \in [Refreshers -> RefreshState]
  /\ \A f \in Refreshers : refreshes'[f].step # "idle" =>
       /\ refreshes'[f].seen \in Pull
       /\ record'.pull # NoPull
       /\ refreshes'[f].seen.state = "merged" => SomeMerged'

\* A refresh under way has seen a pull request of the record.
LEMMA PullIsSeen ==
  ASSUME PublicationInv, NEW f \in Refreshers, refreshes[f].step # "idle"
  PROVE  /\ refreshes[f].seen \in Pull /\ record.pull # NoPull
         /\ refreshes[f].seen.state = "merged" => SomeMerged
<1>1. refreshes[f].seen \in Pull
  <2>1. TypeOK
    BY DEF PublicationInv
  <2>2. \A g \in Refreshers : refreshes[g].step # "idle" => refreshes[g].seen \in Pull
    BY <2>1 DEF TypeOK
  <2> QED BY <2>2
<1> QED BY <1>1 DEF PublicationInv, DeliveryNamesPull, MergesSeen

\* Every step keeps what the refreshes know.
LEMMA RefreshesKept ==
  ASSUME PublicationInv, PullsLast, [Next]_vars
  PROVE  RefreshesNamed
<1> DEFINE Named(f) == refreshes[f].step # "idle" =>
             /\ refreshes[f].seen \in Pull /\ record.pull # NoPull
             /\ refreshes[f].seen.state = "merged" => SomeMerged
<1>0. /\ refreshes \in [Refreshers -> RefreshState] /\ TypeOK /\ PullsAreNamed
      /\ record.pull # NoPull => record'.pull # NoPull
      /\ SomeMerged => SomeMerged'
  BY RecordStaysNamed DEF PublicationInv, SomeMerged, PullsLast
<1>1. \A f \in Refreshers : Named(f)
  BY PullIsSeen
<1>2. CASE refreshes' = refreshes
  BY <1>0, <1>1, <1>2 DEF RefreshesNamed
<1>3. ASSUME NEW f \in Refreshers, ReadPull(f) PROVE RefreshesNamed
  <2> DEFINE x == [step |-> "pull", pull |-> record.pull, seen |-> pulls[record.pull]]
  <2>1. /\ refreshes' = [refreshes EXCEPT ![f] = x] /\ record.pull \in DOMAIN pulls
        /\ record.pull # NoPull /\ record.pull \in Nat
    BY <1>0, <1>3 DEF ReadPull, PullsAreNamed, TypeOK
  <2>2. pulls[record.pull] \in Pull
    BY <1>0, <2>1, Shapes DEF TypeOK
  <2>3. x \in RefreshState /\ (x.seen.state = "merged" => SomeMerged)
    BY <2>1, <2>2 DEF RefreshState, SomeMerged
  <2> QED BY <1>0, <1>1, <2>1, <2>2, <2>3 DEF RefreshesNamed
<1>4. ASSUME NEW f \in Refreshers, ApplyPull(f) PROVE RefreshesNamed
  <2>1. \/ refreshes' = [refreshes EXCEPT ![f].step = "checks"] /\ refreshes[f].step # "idle"
        \/ refreshes' = [refreshes EXCEPT ![f] = NoRefresh]
    BY <1>4 DEF ApplyPull
  <2>2. CASE refreshes' = [refreshes EXCEPT ![f].step = "checks"] /\ refreshes[f].step # "idle"
    <3>1. refreshes' \in [Refreshers -> RefreshState]
      BY <1>0, <2>2 DEF RefreshState
    <3>2. \A g \in Refreshers : refreshes'[g].seen = refreshes[g].seen
                                /\ (refreshes'[g].step # "idle" => refreshes[g].step # "idle")
      BY <1>0, <2>2 DEF RefreshState
    <3> QED BY <1>0, <1>1, <3>1, <3>2 DEF RefreshesNamed
  <2>3. CASE refreshes' = [refreshes EXCEPT ![f] = NoRefresh]
    <3>1. NoRefresh \in RefreshState /\ NoRefresh.step = "idle"
      BY DEF NoRefresh, RefreshState, NoPull
    <3> QED BY <1>0, <1>1, <2>3, <3>1 DEF RefreshesNamed
  <2> QED BY <2>1, <2>2, <2>3
<1>5. ASSUME NEW f \in Refreshers, RefreshEnds(f) \/ \E status \in CheckStatuses : ApplyChecks(f, status)
      PROVE  RefreshesNamed
  <2>1. NoRefresh \in RefreshState /\ NoRefresh.step = "idle"
    BY DEF NoRefresh, RefreshState, NoPull
  <2>2. refreshes' = [refreshes EXCEPT ![f] = NoRefresh]
    BY <1>5 DEF RefreshEnds, ApplyChecks
  <2> QED BY <1>0, <1>1, <2>1, <2>2 DEF RefreshesNamed
<1>6. refreshes' = refreshes \/ \E f \in Refreshers :
        ReadPull(f) \/ ApplyPull(f) \/ RefreshEnds(f) \/ \E status \in CheckStatuses : ApplyChecks(f, status)
  BY DEF Next, World, Publishing, ResolveCandidate, Admit, Begin, Claim, ReadBase, FindPull,
         ReadBranch, WriteBranch, OpenPull, RequestFails, Settle, Abandon, ArchiveOrRestore,
         WorkspaceChanges, PolicyChanges, DefaultBranchMoves, PushBranch, DeleteBranch,
         ChangePull, LeaseElapses, service, vars
<1> QED BY <1>2, <1>3, <1>4, <1>5, <1>6

(***************************************************************************)
(* The record                                                              *)
(***************************************************************************)
Row == [status : Statuses, runVersion : Nat, attempts : Nat, lease : 0..Lease, pull : Nat]

\* What a step may leave in the row.
RowFits(r) ==
  /\ r \in Row
  /\ r.pull # NoPull => r.pull \in DOMAIN pulls'
  /\ r.status \in Delivered => r.pull # NoPull
  /\ r.lease > 0 => r.status \notin {"none", "pending", "failed", "blocked"}
  /\ r.status = "merged" => SomeMerged'

\* A row that needs no delivery.
LEMMA RowUndelivered ==
  ASSUME RowFits(record), NEW r \in Row, r.pull = record.pull,
         r.status \in {"none", "pending", "running", "failed", "blocked"},
         r.lease > 0 => r.status = "running"
  PROVE  RowFits(r)
  BY DEF RowFits, Delivered

\* A delivered status keeps the lease and needs the pull request it speaks of.
LEMMA RowDelivered ==
  ASSUME RowFits(record), NEW status \in Delivered, record.pull # NoPull,
         status = "merged" => SomeMerged',
         NEW r, r = [record EXCEPT !.status = status]
  PROVE  RowFits(r)
  BY DEF RowFits, Row, Statuses, Delivered

\* The row with some fields written is a row.
LEMMA FieldsWritten ==
  ASSUME NEW S, NEW V, NEW A, NEW L, NEW P,
         NEW r \in [status : S, runVersion : V, attempts : A, lease : L, pull : P],
         NEW status \in S, NEW attempts \in A, NEW lease \in L, NEW pull \in P
  PROVE  /\ [r EXCEPT !.status = status, !.lease = lease]
              \in [status : S, runVersion : V, attempts : A, lease : L, pull : P]
         /\ [r EXCEPT !.status = status, !.pull = pull, !.lease = lease]
              \in [status : S, runVersion : V, attempts : A, lease : L, pull : P]
         /\ [r EXCEPT !.status = status, !.attempts = attempts, !.lease = lease]
              \in [status : S, runVersion : V, attempts : A, lease : L, pull : P]
  OBVIOUS

\* So it is for the row of a publication.
LEMMA RowWritten ==
  ASSUME NEW r \in Row, NEW status \in Statuses, NEW lease \in 0..Lease, NEW pull \in Nat
  PROVE  /\ [r EXCEPT !.status = status, !.lease = lease] \in Row
         /\ [r EXCEPT !.status = status, !.pull = pull, !.lease = lease] \in Row
         /\ [r EXCEPT !.status = status, !.attempts = @ + 1, !.lease = lease] \in Row
<1>1. r.attempts \in Nat /\ r.attempts + 1 \in Nat
  BY DEF Row
<1>2. [r EXCEPT !.status = status, !.attempts = @ + 1, !.lease = lease]
        = [r EXCEPT !.status = status, !.attempts = r.attempts + 1, !.lease = lease]
  OBVIOUS
<1> QED BY <1>1, <1>2, FieldsWritten DEF Row

\* Every step leaves a fitting row.
LEMMA RecordKept ==
  ASSUME PublicationInv, PullsLast, [Next]_vars
  PROVE  RowFits(record') /\ admitting' \subseteq Nat
<1>0. /\ record \in Row /\ admitting \subseteq Nat /\ run.version \in Nat
      /\ Lease \in Nat /\ 0 \in 0..Lease /\ Lease \in 0..Lease /\ execs \in [Executors -> ExecState]
      /\ DOMAIN pulls = 1..Len(pulls) /\ Len(pulls) \in Nat
  BY PublicationAssumption, Shapes DEF PublicationAssumption, PublicationInv, TypeOK, Row, ExecState
<1>1. SomeMerged => SomeMerged'
  BY DEF SomeMerged, PullsLast
<1>2. RowFits(record)
  BY <1>0, <1>1 DEF RowFits, PublicationInv, PullsAreNamed, DeliveryNamesPull, LeaseKeepsRecord,
                    MergedMeansMerged, SomeMerged, PullsLast
<1>3. RowFits(Blocked)
  <2>1. Blocked \in Row
    <3>1. "blocked" \in Statuses
      BY DEF Statuses
    <3> QED BY <1>0, <3>1, RowWritten DEF Blocked
  <2>2. Blocked.status = "blocked" /\ Blocked.lease = 0 /\ Blocked.pull = record.pull
    BY <1>0 DEF Blocked, Row
  <2> QED BY <1>2, <2>1, <2>2, RowUndelivered
<1>4. ASSUME NEW version \in admitting, Admit(version)
      PROVE  RowFits(record') /\ admitting' \subseteq Nat
  <2>1. admitting' \subseteq Nat
    BY <1>0, <1>4 DEF Admit
  <2>2. CASE record.status # "none"
    BY <1>2, <1>4, <2>1, <2>2 DEF Admit
  <2>3. CASE record.status = "none"
    <3>1. record.lease = 0 /\ record.attempts \in Nat
      BY <1>0, <2>3 DEF PublicationInv, LeaseKeepsRecord, Row
    <3>2. PICK status \in {"pending", "blocked"} :
            record' = [record EXCEPT !.status = status, !.runVersion = version]
      BY <1>4, <2>3 DEF Admit
    <3>3. record' \in Row
      BY <1>0, <3>2 DEF Row, Statuses
    <3>4. record'.status = status /\ record'.lease = 0 /\ record'.pull = record.pull
      BY <1>0, <3>1, <3>2 DEF Row
    <3> QED BY <1>2, <2>1, <3>3, <3>4, RowUndelivered
  <2> QED BY <2>2, <2>3
<1>5. ASSUME NEW e \in Executors, Begin(e)
      PROVE  RowFits(record') /\ admitting' \subseteq Nat
  BY <1>0, <1>2, <1>3, <1>5 DEF Begin
<1>6. ASSUME NEW e \in Executors, Claim(e)
      PROVE  RowFits(record') /\ admitting' \subseteq Nat
  <2>1. CASE ~workspace \/ ~Claimable
    BY <1>0, <1>2, <1>3, <1>6, <2>1 DEF Claim
  <2>2. CASE workspace /\ Claimable
    <3>1. record' = [record EXCEPT !.status = "running", !.attempts = @ + 1, !.lease = Lease]
      BY <1>6, <2>2 DEF Claim
    <3>2. record' \in Row
      <4>1. "running" \in Statuses
        BY DEF Statuses
      <4> QED BY <1>0, <3>1, <4>1, RowWritten
    <3>3. record'.status = "running" /\ record'.pull = record.pull
      BY <1>0, <3>1 DEF Row
    <3>4. RowFits(record')
      BY <1>2, <3>2, <3>3, RowUndelivered
    <3> QED BY <1>0, <1>6, <3>4 DEF Claim
  <2> QED BY <2>1, <2>2
<1>7. ASSUME NEW e \in Executors, Settle(e)
      PROVE  RowFits(record') /\ admitting' \subseteq Nat
  <2>1. CASE execs[e].result = "published"
    <3>1. execs[e].pull \in DOMAIN pulls /\ execs[e].pull \in DOMAIN pulls'
      BY <2>1 DEF PublicationInv, PullsAreNamed, PullsLast
    <3>2. execs[e].pull \in Nat /\ execs[e].pull # NoPull
      BY <1>0, <3>1 DEF NoPull
    <3>3. record' = [record EXCEPT !.status = "published", !.pull = execs[e].pull, !.lease = 0]
      BY <1>7, <2>1 DEF Settle
    <3>4. record' \in Row
      <4>1. "published" \in Statuses
        BY DEF Statuses, Delivered
      <4> QED BY <1>0, <3>2, <3>3, <4>1, RowWritten
    <3>5. record'.status = "published" /\ record'.pull = execs[e].pull /\ record'.lease = 0
      BY <1>0, <3>3 DEF Row
    <3>6. RowFits(record')
      BY <3>1, <3>2, <3>4, <3>5 DEF RowFits
    <3> QED BY <1>0, <1>7, <3>6 DEF Settle
  <2>2. CASE execs[e].result # "published"
    <3>1. record' = [record EXCEPT !.status = execs[e].result, !.lease = 0]
      BY <1>7, <2>2 DEF Settle
    <3>2. execs[e].result \in {"none", "failed", "blocked"}
      BY <1>0, <2>2 DEF ExecState
    <3>3. record' \in Row
      <4>1. execs[e].result \in Statuses
        BY <3>2 DEF Statuses
      <4> QED BY <1>0, <3>1, <4>1, RowWritten
    <3>4. record'.status = execs[e].result /\ record'.pull = record.pull /\ record'.lease = 0
      BY <1>0, <3>1 DEF Row
    <3>5. RowFits(record')
      BY <1>2, <3>2, <3>3, <3>4, RowUndelivered
    <3> QED BY <1>0, <1>7, <3>5 DEF Settle
  <2> QED BY <2>1, <2>2
<1>8. ASSUME NEW f \in Refreshers, ApplyPull(f)
      PROVE  RowFits(record') /\ admitting' \subseteq Nat
  <2> DEFINE seen == refreshes[f].seen
  <2>1. seen \in Pull /\ record.pull # NoPull /\ (seen.state = "merged" => SomeMerged')
    BY <1>1, <1>8, PullIsSeen DEF ApplyPull
  <2>2. \/ record' = record \/ record' = Blocked
        \/ seen.state # "open" /\ record' = [record EXCEPT !.status = seen.state]
    BY <1>8 DEF ApplyPull, Settled
  <2>3. seen.state # "open" => seen.state \in Delivered
    BY <2>1 DEF Pull, Delivered
  <2>4. RowFits(record')
    BY <1>2, <1>3, <2>1, <2>2, <2>3, RowDelivered
  <2> QED BY <1>0, <1>8, <2>4 DEF ApplyPull
<1>9. ASSUME NEW f \in Refreshers, NEW status \in CheckStatuses, ApplyChecks(f, status)
      PROVE  RowFits(record') /\ admitting' \subseteq Nat
  <2>1. record.pull # NoPull
    BY <1>9 DEF ApplyChecks, PublicationInv, DeliveryNamesPull
  <2>2. status \in Delivered /\ status # "merged"
    BY DEF CheckStatuses, Delivered
  <2>3. RowFits(record')
    BY <1>2, <1>9, <2>1, <2>2, RowDelivered DEF ApplyChecks
  <2> QED BY <1>0, <1>9, <2>3 DEF ApplyChecks
<1>10. CASE LeaseElapses
  BY <1>0, <1>2, <1>10 DEF LeaseElapses, RowFits, Row
<1>11. CASE ResolveCandidate
  BY <1>0, <1>2, <1>11 DEF ResolveCandidate
<1>12. CASE record' = record /\ admitting' = admitting
  BY <1>0, <1>2, <1>12
<1>13. \/ record' = record /\ admitting' = admitting
       \/ ResolveCandidate \/ LeaseElapses \/ \E version \in admitting : Admit(version)
       \/ \E e \in Executors : Begin(e) \/ Claim(e) \/ Settle(e)
       \/ \E f \in Refreshers : ApplyPull(f) \/ \E status \in CheckStatuses : ApplyChecks(f, status)
  BY DEF Next, World, Publishing, ReadPull, RefreshEnds, ReadBase, FindPull, ReadBranch, WriteBranch,
         OpenPull, RequestFails, Abandon, ArchiveOrRestore, WorkspaceChanges, PolicyChanges,
         DefaultBranchMoves, PushBranch, DeleteBranch, ChangePull, service, vars
<1> QED BY <1>4, <1>5, <1>6, <1>7, <1>8, <1>9, <1>10, <1>11, <1>12, <1>13

(***************************************************************************)
(* The invariant holds                                                     *)
(***************************************************************************)
\* The invariant holds at the start,
LEMMA PublicationInit == Init => PublicationInv
<1> SUFFICES ASSUME Init PROVE PublicationInv
  OBVIOUS
<1>0. Lease \in Nat /\ MaxLosses \in Nat /\ 0 \in 0..Lease /\ 0 \in 0..MaxLosses
  BY PublicationAssumption DEF PublicationAssumption
<1>1. Idle \in ExecState /\ NoRefresh \in RefreshState /\ <<>> \in Seq(Pull)
  BY DEF Idle, NoRefresh, ExecState, ExecSteps, RefreshState, NoPull
<1>2. record \in Row /\ record.status = "none" /\ record.lease = 0 /\ record.pull = NoPull
  <2>1. "none" \in Statuses
    BY DEF Statuses
  <2> QED BY <1>0, <2>1 DEF Init, Row, NoPull
<1>3. \A f \in Refreshers : refreshes[f].step = "idle" /\ refreshes[f].pull = NoPull
  BY DEF Init, NoRefresh
<1>4. TypeOK
  <2>1. /\ record \in [status : Statuses, runVersion : Nat, attempts : Nat, lease : 0..Lease, pull : Nat]
        /\ admitting \subseteq Nat
    BY <1>2 DEF Init, Row
  <2>2. execs \in [Executors -> [step : ExecSteps, result : {"none", "published", "failed", "blocked"},
                                 pull : Nat]]
    BY <1>1 DEF Init, ExecState
  <2>3. losses \in 0..MaxLosses /\ run \in [version : Nat, archived : BOOLEAN]
        /\ {workspace, policyOpen, baseMoved} \subseteq BOOLEAN
        /\ branch \in Commits \cup {"absent"} /\ pulls \in Seq(Pull)
    BY <1>0, <1>1 DEF Init
  <2> QED BY <1>3, <2>1, <2>2, <2>3 DEF TypeOK, NoPull
<1>5. refreshes \in [Refreshers -> RefreshState]
  BY <1>1 DEF Init
<1>6. \A e \in Executors : execs[e].result # "published"
  BY DEF Init, Idle
<1> QED BY <1>2, <1>3, <1>4, <1>5, <1>6 DEF PublicationInv, PullsAreNamed, DeliveryNamesPull,
       MergesSeen, LeaseKeepsRecord, MergedMeansMerged, Delivered

\* every step keeps it,
LEMMA PublicationNext == PublicationInv /\ [Next]_vars => PublicationInv'
<1> SUFFICES ASSUME PublicationInv, [Next]_vars PROVE PublicationInv'
  OBVIOUS
<1>0. TypeOK /\ PullsAreNamed
  BY DEF PublicationInv
<1>1. PullsLast
  BY <1>0, PullsKept
<1>2. ExecsNamed /\ losses' \in 0..MaxLosses
  BY <1>0, <1>1, ExecsKept
<1>3. RefreshesNamed
  BY <1>1, RefreshesKept
<1>4. RowFits(record') /\ admitting' \subseteq Nat
  BY <1>1, RecordKept
<1>5. TypeOK'
  <2>1. \A f \in Refreshers : /\ refreshes'[f].step \in {"idle", "pull", "checks"}
                              /\ refreshes'[f].pull \in Nat
                              /\ refreshes'[f].step # "idle" => refreshes'[f].seen \in Pull
    BY <1>3 DEF RefreshesNamed, RefreshState
  <2>2. record' \in Row
    BY <1>4 DEF RowFits
  <2>3. execs' \in [Executors -> ExecState] /\ pulls' \in Seq(Pull)
    BY <1>1, <1>2 DEF ExecsNamed, PullsLast
  <2> QED BY <1>0, <1>2, <1>4, <2>1, <2>2, <2>3, WorldKept DEF TypeOK, Row, ExecState
<1>6. PullsAreNamed'
  BY <1>2, <1>4 DEF PullsAreNamed, ExecsNamed, RowFits
<1>7. DeliveryNamesPull' /\ MergesSeen' /\ refreshes' \in [Refreshers -> RefreshState]
  BY <1>3, <1>4 DEF DeliveryNamesPull, MergesSeen, RefreshesNamed, RowFits
<1>8. LeaseKeepsRecord' /\ MergedMeansMerged'
  BY <1>4 DEF LeaseKeepsRecord, MergedMeansMerged, RowFits, SomeMerged
<1> QED BY <1>5, <1>6, <1>7, <1>8 DEF PublicationInv

\* and it holds always.
LEMMA PublicationInvariance == Spec => []PublicationInv
  BY PublicationInit, PublicationNext, PTL DEF Spec

\* Whatever calls, refreshes and people overlap, the record keeps its shape and reports
\* a merge only when a pull request of the publication was merged.
THEOREM RefreshesStayTrue == Spec => []RefreshesAreTrue
<1>1. PublicationInv => RefreshesAreTrue
  BY DEF PublicationInv, RefreshesAreTrue
<1> QED BY <1>1, PublicationInvariance, PTL

(***************************************************************************)
(* Attempts                                                                *)
(***************************************************************************)
\* The calls that have passed the limit and not yet spent their attempt.
Inspecting == {e \in Executors : execs[e].step = "inspect"}

\* Each of them began below the limit.
AttemptsInv == record.attempts + Cardinality(Inspecting) <= MaxAttempts + Cardinality(Executors) - 1

\* There are never more of them than calls.
LEMMA InspectingFinite ==
  /\ IsFiniteSet(Executors) /\ Cardinality(Executors) \in Nat
  /\ IsFiniteSet(Inspecting) /\ Cardinality(Inspecting) \in Nat
  /\ IsFiniteSet(Inspecting') /\ Cardinality(Inspecting') \in Nat
  /\ Cardinality(Inspecting') <= Cardinality(Executors)
<1>1. IsFiniteSet(Executors) /\ Inspecting \subseteq Executors /\ Inspecting' \subseteq Executors
  BY PublicationAssumption DEF PublicationAssumption, Inspecting
<1> QED BY <1>1, FS_Subset, FS_CardinalityType

\* Only Begin starts an inspection.
LEMMA InspectionBegins ==
  ASSUME TypeOK, [Next]_vars, ~\E e \in Executors : Begin(e)
  PROVE  Inspecting' \subseteq Inspecting
<1>0. execs \in [Executors -> ExecState]
  BY DEF TypeOK, ExecState
<1>1. CASE execs' = execs
  BY <1>1 DEF Inspecting
<1>2. ASSUME NEW e \in Executors, NEW x, execs' = [execs EXCEPT ![e] = x], x.step # "inspect"
      PROVE  Inspecting' \subseteq Inspecting
  BY <1>0, <1>2 DEF Inspecting
<1>3. ASSUME NEW e \in Executors,
             NEW step \in {"base", "find", "branch", "create", "advance", "open"}, Goto(e, step)
      PROVE  Inspecting' \subseteq Inspecting
  <2>1. execs' = [execs EXCEPT ![e] = [execs[e] EXCEPT !.step = step]]
    BY <1>3 DEF Goto
  <2>2. [execs[e] EXCEPT !.step = step].step = step
    BY <1>0 DEF ExecState
  <2> QED BY <1>2, <2>1, <2>2
<1>4. ASSUME NEW e \in Executors,
             \/ \E result \in {"failed", "blocked"} : Conclude(e, result)
             \/ \E n \in DOMAIN pulls \cup {Len(pulls) + 1} : Recover(e, n)
             \/ execs' = [execs EXCEPT ![e] = Idle]
      PROVE  Inspecting' \subseteq Inspecting
  <2>1. ASSUME NEW result, NEW n,
               execs' = [execs EXCEPT ![e] = [step |-> "settle", result |-> result, pull |-> n]]
        PROVE  Inspecting' \subseteq Inspecting
    <3>1. [step |-> "settle", result |-> result, pull |-> n].step # "inspect"
      OBVIOUS
    <3> QED BY <1>2, <2>1, <3>1
  <2>2. CASE execs' = [execs EXCEPT ![e] = Idle]
    <3>1. Idle.step # "inspect"
      BY DEF Idle
    <3> QED BY <1>2, <2>2, <3>1
  <2> QED BY <1>4, <2>1, <2>2 DEF Conclude, Recover
<1>5. ASSUME NEW e \in Executors, Claim(e) PROVE Inspecting' \subseteq Inspecting
  <2>1. Goto(e, "base") \/ execs' = [execs EXCEPT ![e] = Idle]
    BY <1>5 DEF Claim
  <2> QED BY <1>3, <1>4, <2>1
<1>6. ASSUME NEW e \in Executors, Publishing(e) PROVE Inspecting' \subseteq Inspecting
  <2>1. \/ \E step \in {"find", "branch", "create", "advance", "open"} : Goto(e, step)
        \/ \E result \in {"failed", "blocked"} : Conclude(e, result)
        \/ \E n \in DOMAIN pulls \cup {Len(pulls) + 1} : Recover(e, n)
    <3>1. branch \in {"absent", "base", "approved", "other"}
      BY DEF TypeOK, Commits
    <3> QED BY <1>6, <3>1 DEF Publishing, ReadBase, FindPull, ReadBranch, WriteBranch, OpenPull,
                              Answered, OpenPulls
  <2> QED BY <1>3, <1>4, <2>1
<1>7. ASSUME NEW e \in Executors, RequestFails(e) \/ Settle(e) \/ Abandon(e)
      PROVE  Inspecting' \subseteq Inspecting
  BY <1>4, <1>7 DEF RequestFails, Settle, Abandon
<1>8. execs' = execs \/ \E e \in Executors :
        Claim(e) \/ Publishing(e) \/ RequestFails(e) \/ Settle(e) \/ Abandon(e)
  BY DEF Next, World, ResolveCandidate, Admit, LeaseElapses, ReadPull, ApplyPull, RefreshEnds,
         ApplyChecks, ArchiveOrRestore, WorkspaceChanges, PolicyChanges, DefaultBranchMoves,
         PushBranch, DeleteBranch, ChangePull, vars, service
<1> QED BY <1>1, <1>5, <1>6, <1>7, <1>8

\* Only a claim spends an attempt.
LEMMA AttemptsSpent ==
  ASSUME TypeOK, [Next]_vars
  PROVE  \/ record'.attempts = record.attempts
         \/ \E e \in Executors : /\ Claim(e) /\ At(e, "inspect") /\ Goto(e, "base")
                                 /\ record'.attempts = record.attempts + 1
<1>0. record \in Row
  BY DEF TypeOK, Row
<1>1. ASSUME NEW e \in Executors, Claim(e)
      PROVE  \/ record'.attempts = record.attempts
             \/ /\ At(e, "inspect") /\ Goto(e, "base")
                /\ record'.attempts = record.attempts + 1
  BY <1>0, <1>1 DEF Claim, Blocked, Row
<1>2. CASE \/ \E version \in admitting : Admit(version)
           \/ \E f \in Refreshers : ApplyPull(f) \/ \E status \in CheckStatuses : ApplyChecks(f, status)
           \/ \E e \in Executors : Begin(e) \/ Settle(e)
           \/ LeaseElapses
  <2>1. record'.attempts = record.attempts
    BY <1>0, <1>2 DEF Admit, ApplyPull, ApplyChecks, Settled, Begin, Settle, Blocked, LeaseElapses, Row
  <2> QED BY <2>1
<1>3. UNCHANGED record \/ (\E e \in Executors : Claim(e))
      \/ (\E version \in admitting : Admit(version))
      \/ (\E f \in Refreshers : ApplyPull(f) \/ \E status \in CheckStatuses : ApplyChecks(f, status))
      \/ (\E e \in Executors : Begin(e) \/ Settle(e)) \/ LeaseElapses
  BY DEF Next, World, Publishing, ResolveCandidate, ReadPull, RefreshEnds, ReadBase, FindPull,
         ReadBranch, WriteBranch, OpenPull, RequestFails, Abandon, ArchiveOrRestore,
         WorkspaceChanges, PolicyChanges, DefaultBranchMoves, PushBranch, DeleteBranch,
         ChangePull, service, vars
<1> QED BY <1>1, <1>2, <1>3

\* An inspection that ends in a claim gives its place to the attempt.
LEMMA AttemptsKept ==
  ASSUME TypeOK, AttemptsInv, [Next]_vars
  PROVE  AttemptsInv'
<1>0. /\ record.attempts \in Nat /\ MaxAttempts \in Nat \ {0}
      /\ execs \in [Executors -> ExecState]
  BY PublicationAssumption DEF PublicationAssumption, TypeOK, ExecState
<1>1. CASE (~\E e \in Executors : Begin(e)) /\ record'.attempts = record.attempts
  <2>1. Cardinality(Inspecting') <= Cardinality(Inspecting)
    BY <1>1, InspectionBegins, InspectingFinite, FS_Subset
  <2> QED BY <1>0, <1>1, <2>1, InspectingFinite DEF AttemptsInv
<1>2. ASSUME NEW e \in Executors, Begin(e) PROVE AttemptsInv'
  <2>1. CASE Goto(e, "inspect") /\ record' = record
    <3>1. record.attempts < MaxAttempts \/ execs' = execs
      BY <1>2 DEF Begin
    <3>2. CASE execs' = execs
      BY <2>1, <3>2 DEF AttemptsInv, Inspecting
    <3>3. CASE record.attempts < MaxAttempts
      BY <1>0, <2>1, <3>3, InspectingFinite DEF AttemptsInv
    <3> QED BY <3>1, <3>2, <3>3
  <2>2. CASE record' = Blocked /\ execs' = execs
    <3>1. record'.attempts = record.attempts
      BY <2>2 DEF Blocked, TypeOK
    <3> QED BY <2>2, <3>1 DEF AttemptsInv, Inspecting
  <2> QED BY <1>2, <2>1, <2>2 DEF Begin
<1>3. ASSUME NEW e \in Executors, At(e, "inspect"), Goto(e, "base"),
             record'.attempts = record.attempts + 1
      PROVE  AttemptsInv'
  <2>1. e \in Inspecting /\ Inspecting' = Inspecting \ {e}
    BY <1>0, <1>3 DEF At, Goto, Inspecting, ExecState
  <2>2. Cardinality(Inspecting') = Cardinality(Inspecting) - 1
    BY <2>1, InspectingFinite, FS_RemoveElement
  <2> QED BY <1>0, <1>3, <2>2, InspectingFinite DEF AttemptsInv
<1> QED BY <1>1, <1>2, <1>3, AttemptsSpent

\* At the start nothing is spent.
LEMMA AttemptsInit == Init => AttemptsInv
<1> SUFFICES ASSUME Init PROVE AttemptsInv
  OBVIOUS
<1>1. Inspecting = {} /\ record.attempts = 0
  BY DEF Init, Inspecting, Idle
<1>2. Cardinality(Inspecting) = 0
  BY <1>1, FS_EmptySet
<1> QED BY <1>1, <1>2, PublicationAssumption, InspectingFinite DEF AttemptsInv, PublicationAssumption

\* Overlapping calls spend at most one attempt each past the limit, and a delivered
\* record names a pull request that was opened; no lease keeps it otherwise.
THEOREM DeliveryStaysSound == Spec => []DeliveryIsSound
<1>1. PublicationInv /\ AttemptsInv => DeliveryIsSound
  <2> SUFFICES ASSUME PublicationInv, AttemptsInv PROVE DeliveryIsSound
    OBVIOUS
  <2>1. AttemptsOvershoot
    <3>1. record.attempts \in Nat /\ MaxAttempts \in Nat
      BY PublicationAssumption DEF PublicationInv, TypeOK, PublicationAssumption
    <3> QED BY <3>1, InspectingFinite DEF AttemptsInv, AttemptsOvershoot
  <2>2. DeliveredHasPull
    BY DEF PublicationInv, DeliveryNamesPull, PullsAreNamed, LeaseKeepsRecord, DeliveredHasPull
  <2> QED BY <2>1, <2>2 DEF DeliveryIsSound
<1>2. PublicationInv => TypeOK
  BY DEF PublicationInv
<1>3. Spec => []AttemptsInv
  BY <1>2, AttemptsInit, AttemptsKept, PublicationInvariance, PTL DEF Spec
<1> QED BY <1>1, <1>3, PublicationInvariance, PTL

(***************************************************************************)
(* Failing closed                                                          *)
(***************************************************************************)
\* A step of a call that moves the branch finds it absent or unadvanced.
LEMMA BranchWrites ==
  ASSUME [Next]_vars, branch' # branch, execs' # execs
  PROVE  branch \in {"absent", "base"} /\ branch' = "approved"
<1>1. \E e \in Executors : WriteBranch(e)
  BY DEF Next, World, Publishing, ResolveCandidate, Admit, Begin, Claim, ReadBase, FindPull,
         ReadBranch, OpenPull, RequestFails, Settle, Abandon, ReadPull, ApplyPull, RefreshEnds,
         ApplyChecks, ArchiveOrRestore, WorkspaceChanges, PolicyChanges, DefaultBranchMoves,
         PushBranch, DeleteBranch, ChangePull, LeaseElapses, vars, service, world
<1> QED BY <1>1 DEF WriteBranch, WritableFrom, MoveBranch

\* No call that stands before its check of the drift passes it.
LEMMA HaltedCalls ==
  ASSUME TypeOK, Halted, NEW e \in Executors, Begin(e) \/ Claim(e) \/ Publishing(e)
         \/ RequestFails(e) \/ Settle(e) \/ Abandon(e)
  PROVE  Halted' /\ UNCHANGED <<branch, pulls>>
<1>0. execs \in [Executors -> ExecState]
  BY DEF TypeOK, ExecState
<1>1. execs[e].step \in {"idle", "inspect", "settle", "base"}
  BY <1>0 DEF Halted, PastBase, PastInspection, ExecState
<1>2. UNCHANGED <<workspace, baseMoved, branch, pulls>>
  BY <1>1 DEF Publishing, Begin, Claim, ReadBase, FindPull, ReadBranch, WriteBranch, OpenPull,
              RequestFails, Settle, Abandon, At, world
<1>3. ASSUME execs' = execs PROVE Halted'
  BY <1>2, <1>3 DEF Halted, PastBase, PastInspection
<1>4. ASSUME NEW x, execs' = [execs EXCEPT ![e] = x],
             x.step \in {"idle", "inspect", "settle"} \/ (x.step = "base" /\ workspace)
      PROVE  Halted'
  BY <1>0, <1>2, <1>4 DEF Halted, PastBase, PastInspection
<1>5. CASE Begin(e)
  <2>1. execs' = execs \/ execs' = [execs EXCEPT ![e] = [execs[e] EXCEPT !.step = "inspect"]]
    BY <1>5 DEF Begin, Goto
  <2>2. [execs[e] EXCEPT !.step = "inspect"].step = "inspect"
    BY <1>0 DEF ExecState
  <2> QED BY <1>2, <1>3, <1>4, <2>1, <2>2
<1>6. CASE Claim(e)
  <2>1. \/ execs' = [execs EXCEPT ![e] = Idle]
        \/ workspace /\ execs' = [execs EXCEPT ![e] = [execs[e] EXCEPT !.step = "base"]]
    BY <1>6 DEF Claim, Goto
  <2>2. [execs[e] EXCEPT !.step = "base"].step = "base" /\ Idle.step = "idle"
    BY <1>0 DEF ExecState, Idle
  <2> QED BY <1>2, <1>4, <2>1, <2>2
<1>7. CASE Publishing(e)
  <2>1. ReadBase(e)
    BY <1>1, <1>7 DEF Publishing, FindPull, ReadBranch, WriteBranch, OpenPull, At
  <2>2. execs[e].step = "base" /\ baseMoved
    BY <2>1 DEF ReadBase, At, Halted, PastInspection
  <2>3. Conclude(e, "blocked")
    BY <2>1, <2>2 DEF ReadBase
  <2> QED BY <1>2, <1>4, <2>3 DEF Conclude
<1>8. CASE RequestFails(e)
  <2>1. Conclude(e, "failed") \/ Conclude(e, "blocked")
    BY <1>8 DEF RequestFails
  <2> QED BY <1>2, <1>4, <2>1 DEF Conclude
<1>9. CASE Settle(e) \/ Abandon(e)
  BY <1>2, <1>4, <1>9 DEF Settle, Abandon, Idle
<1> QED BY <1>5, <1>6, <1>7, <1>8, <1>9

\* A halted publication stays halted.
LEMMA HaltedStays ==
  ASSUME TypeOK, Halted, [Next]_vars
  PROVE  Halted' /\ (execs' # execs => UNCHANGED <<branch, pulls>>)
<1>1. CASE \E e \in Executors : \/ Begin(e) \/ Claim(e) \/ Publishing(e)
                                \/ RequestFails(e) \/ Settle(e) \/ Abandon(e)
  BY <1>1, HaltedCalls
<1>2. CASE execs' = execs
  <2>1. (~workspace => ~workspace') /\ (baseMoved => baseMoved')
    <3>1. CASE UNCHANGED <<workspace, baseMoved>>
      BY <3>1
    <3>2. CASE WorkspaceChanges
      BY <3>2 DEF WorkspaceChanges
    <3>3. CASE DefaultBranchMoves
      BY <3>3 DEF DefaultBranchMoves
    <3>4. ASSUME NEW n \in DOMAIN pulls, NEW to \in Pull, ChangePull(n, to)
          PROVE  (~workspace => ~workspace') /\ (baseMoved => baseMoved')
      BY <3>4 DEF ChangePull
    <3>5. \/ UNCHANGED <<workspace, baseMoved>> \/ WorkspaceChanges \/ DefaultBranchMoves
          \/ \E n \in DOMAIN pulls : \E to \in Pull : ChangePull(n, to)
      BY DEF Next, World, ResolveCandidate, Admit, ReadPull, ApplyPull, RefreshEnds, ApplyChecks,
             ArchiveOrRestore, PolicyChanges, PushBranch, DeleteBranch, LeaseElapses, Begin, Claim,
             Publishing, ReadBase, FindPull, ReadBranch, WriteBranch, OpenPull, RequestFails,
             Settle, Abandon, vars, world
    <3> QED BY <3>1, <3>2, <3>3, <3>4, <3>5
  <2> QED BY <1>2, <2>1 DEF Halted, PastBase, PastInspection
<1>3. execs' = execs \/ \E e \in Executors : \/ Begin(e) \/ Claim(e) \/ Publishing(e)
                                            \/ RequestFails(e) \/ Settle(e) \/ Abandon(e)
  BY DEF Next, World, ResolveCandidate, Admit, ReadPull, ApplyPull, RefreshEnds, ApplyChecks,
         ArchiveOrRestore, WorkspaceChanges, PolicyChanges, DefaultBranchMoves, PushBranch,
         DeleteBranch, ChangePull, LeaseElapses, vars, service
<1> QED BY <1>1, <1>2, <1>3

\* Whatever is retried and however calls overlap, Bobsled moves no branch off commits it
\* did not make, and drift that no call has passed stops every later call.
THEOREM PublicationStaysClosed == Spec => PublicationFailsClosed
<1>1. [Next]_vars => [branch' # branch /\ execs' # execs
                        => branch \in {"absent", "base"} /\ branch' = "approved"]_vars
  BY BranchWrites
<1>2. TypeOK /\ [Next]_vars
        => [Halted => Halted' /\ (execs' # execs => UNCHANGED <<branch, pulls>>)]_vars
  BY HaltedStays
<1>3. PublicationInv => TypeOK
  BY DEF PublicationInv
<1> QED BY <1>1, <1>2, <1>3, PublicationInvariance, PTL
       DEF Spec, PublicationFailsClosed, NeverForced, DriftStopsPublication
================================================================================
