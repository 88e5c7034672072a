-------------------------- MODULE LinkedPublication --------------------------
(***************************************************************************)
(* The linked publication of an authorized change set and its recovery:    *)
(* the one-use rollout that publishes the members' drafts in dependency    *)
(* order and stops at the first failure, the recovery plans derived from   *)
(* its terminal evidence, and what consumes a plan, a retry of the         *)
(* unpublished members or an operator's decision.                          *)
(*                                                                         *)
(* A draft publication is reduced to its status and its attempts: an       *)
(* operator may admit and execute the same record, and refreshes follow    *)
(* the pull request (module DraftPublication has the detail).              *)
(***************************************************************************)
EXTENDS Naturals, Sequences, FiniteSets, SequencesExt

CONSTANTS
  Order,           \* the members in rollout order
  Recoveries,      \* recovery plans that may be asked for
  Processes,       \* processes that run the rollout and retry services
  MaxAttempts,     \* publicationPolicy.maxAttempts
  MaxEvents        \* bound: refreshes that change a publication, admissions and
                   \* executions an operator makes alone, calls of execute that are
                   \* refused, and processes that stop half-way, together

ASSUME LinkedAssumption ==
  /\ Order \in Seq(Range(Order)) /\ Order # <<>> /\ IsInjective(Order)
  /\ {"none", "rollout"} \cap Recoveries = {} /\ {"none", "operator", "gone"} \cap Processes = {}
  /\ MaxAttempts \in Nat \ {0} /\ MaxEvents \in Nat

VARIABLES
  publication,     \* publication[r]: [status, attempts, by, holder]
  rollout,         \* [status, started, manifest, result, failed]
  recovery,        \* recovery[k]: the snapshot a plan was derived from, or NoPlan
  decided,         \* recovery plans an operator decided
  retry,           \* retry[k]: [status, started, result, failed]
  process,         \* process[p]: [job, step, index, seen]
  opened,          \* members whose draft was ever opened
  calls,           \* calls[j][r]: execute calls the rollout or retry j made for r
  events

linkedVars == <<publication, rollout, recovery, decided, retry, process, opened, calls, events>>

LinkedDrafts     == Range(Order)
Drafts     == {"published", "ready"}          \* published, checks_pending, checks_failed, ready_for_human
Delivered  == Drafts \cup {"merged", "closed"}
Statuses   == Delivered \cup {"none", "pending", "running", "failed", "blocked"}
Ends       == {"succeeded", "partial", "blocked", "failed"}
NoStatuses == [r \in LinkedDrafts |-> "none"]
NoPlan     == [r \in LinkedDrafts |-> [status |-> "none", attempts |-> 0]]
NotStarted == [status |-> "none", started |-> 0, result |-> NoStatuses, failed |-> "none"]
Resting    == [job |-> "none", step |-> "idle", index |-> 0, seen |-> NoStatuses]

Snapshot == [r \in LinkedDrafts |-> [status |-> publication[r].status, attempts |-> publication[r].attempts]]
Current  == [r \in LinkedDrafts |-> publication[r].status]
Doing(p, job, step) == process[p].job = job /\ process[p].step = step
Go(p, step) == process' = [process EXCEPT ![p].step = step]
Rest(p) == process' = [process EXCEPT ![p] = Resting]

Published(statuses, good) == \E r \in LinkedDrafts : statuses[r] \in good
LinkedInit ==
  /\ publication = [r \in LinkedDrafts |-> [status |-> "none", attempts |-> 0, by |-> "none", holder |-> "none"]]
  /\ rollout = [status |-> "reserved", started |-> 0, manifest |-> NoStatuses, result |-> NoStatuses, failed |-> "none"]
  /\ recovery = [k \in Recoveries |-> NoPlan] /\ decided = {}
  /\ retry = [k \in Recoveries |-> NotStarted]
  /\ process = [p \in Processes |-> Resting]
  /\ opened = {} /\ calls = [j \in Recoveries \cup {"rollout"} |-> [r \in LinkedDrafts |-> 0]]
  /\ events = 0

(***************************************************************************)
(* The publications, as others use them                                    *)
(***************************************************************************)
OperatorAdmits(r, s) ==
  /\ publication[r].status = "none" /\ s \in {"pending", "blocked"} /\ events < MaxEvents
  /\ events' = events + 1
  /\ publication' = [publication EXCEPT ![r].status = s, ![r].by = "operator"]
  /\ UNCHANGED <<rollout, recovery, decided, retry, process, opened, calls>>

\* A record nobody holds any more can be claimed again.
Claimable(r) ==
  \/ publication[r].status \in {"pending", "failed", "blocked"}
  \/ publication[r].status = "running" /\ publication[r].holder = "gone"

OperatorExecutes(r) ==
  /\ Claimable(r) /\ publication[r].attempts < MaxAttempts /\ events < MaxEvents
  /\ events' = events + 1
  /\ publication' = [publication EXCEPT ![r].status = "running", ![r].attempts = @ + 1, ![r].holder = "operator"]
  /\ UNCHANGED <<rollout, recovery, decided, retry, process, opened, calls>>

OperatorEnds(r, s) ==
  /\ publication[r].holder = "operator" /\ s \in {"published", "failed", "blocked"}
  /\ publication' = [publication EXCEPT ![r].status = s, ![r].holder = "none"]
  /\ opened' = IF s = "published" THEN opened \cup {r} ELSE opened
  /\ UNCHANGED <<rollout, recovery, decided, retry, process, calls, events>>

\* An operator or a webhook follows the pull request; drift blocks the record.
Refresh(r, s) ==
  /\ <<publication[r].status, s>> \in (Drafts \X {"ready", "merged", "closed", "blocked"}) \cup {<<"closed", "ready">>}
  /\ s # publication[r].status /\ events < MaxEvents
  /\ events' = events + 1
  /\ publication' = [publication EXCEPT ![r].status = s]
  /\ UNCHANGED <<rollout, recovery, decided, retry, process, opened, calls>>

(***************************************************************************)
(* The rollout                                                             *)
(***************************************************************************)
\* A running or terminal rollout is returned as it is.
CallRollout(p) ==
  /\ process[p].step = "idle" /\ rollout.status \in {"reserved", "prepared"}
  /\ process' = [process EXCEPT ![p] = [Resting EXCEPT !.job = "rollout", !.index = 1,
                   !.step = IF rollout.status = "reserved" THEN "admit" ELSE "claim"]]
  /\ UNCHANGED <<publication, rollout, recovery, decided, retry, opened, calls, events>>

\* The rollout's own key finds its earlier admission; a record somebody else
\* admitted for the review is a conflict that ends the call.
AdmitIntent(p, s) ==
  LET r == Order[process[p].index]
      now == IF publication[r].status = "none" THEN s ELSE publication[r].status IN
  /\ Doing(p, "rollout", "admit") /\ s \in {"pending", "blocked"}
  /\ IF publication[r].by = "operator" THEN Rest(p) /\ UNCHANGED publication
     ELSE /\ publication' = [publication EXCEPT ![r].status = now, ![r].by = "rollout"]
          /\ process' = [process EXCEPT ![p].seen[r] = now, ![p].index = @ + 1,
                           ![p].step = IF process[p].index = Len(Order) THEN "preflight" ELSE "admit"]
  /\ UNCHANGED <<rollout, recovery, decided, retry, opened, calls, events>>

\* The first manifest stands; a caller that saw something else is refused.
RecordManifest(p) ==
  LET seen == process[p].seen IN
  /\ Doing(p, "rollout", "preflight")
  /\ IF rollout.manifest \notin {NoStatuses, seen} THEN Rest(p) /\ UNCHANGED rollout
     ELSE /\ rollout' = IF rollout.status = "reserved" THEN [rollout EXCEPT !.status = "prepared", !.manifest = seen]
                        ELSE rollout
          /\ Go(p, IF \E r \in LinkedDrafts : seen[r] # "pending" THEN "block" ELSE "claim")
  /\ UNCHANGED <<publication, recovery, decided, retry, opened, calls, events>>

\* Started members have left pending, the others have not.
FollowsPrefix(statuses) ==
  \A i \in DOMAIN Order : (statuses[Order[i]] = "pending") = (i > rollout.started)

\* What the store accepts as the end of the rollout; anything else leaves it running.
Settleable(status, statuses) ==
  /\ rollout.status \in {"prepared", "running"}
  /\ status = "succeeded" => \A r \in LinkedDrafts : statuses[r] \in Drafts
  /\ status = "partial" => Published(statuses, Drafts \cup {"merged"})
  /\ rollout.status = "prepared" => status = "blocked" /\ rollout.started = 0
  /\ rollout.status = "running" => FollowsPrefix(statuses)

SettleRollout(status, statuses, failed) ==
  rollout' = IF Settleable(status, statuses)
             THEN [rollout EXCEPT !.status = status, !.result = statuses, !.failed = failed] ELSE rollout

BlockRollout(p) ==
  LET seen == process[p].seen IN
  /\ Doing(p, "rollout", "block") /\ Rest(p)
  /\ SettleRollout("blocked", seen, Order[SelectInSeq(Order, LAMBDA r : seen[r] # "pending")])
  /\ UNCHANGED <<publication, recovery, decided, retry, opened, calls, events>>

\* Every intent must still be the pending one the manifest names.
ClaimRollout(p) ==
  LET claims == rollout.status = "prepared" /\ \A r \in LinkedDrafts : rollout.manifest[r] = "pending" IN
  /\ Doing(p, "rollout", "claim")
  /\ rollout' = IF claims THEN [rollout EXCEPT !.status = "running"] ELSE rollout
  /\ IF claims THEN process' = [process EXCEPT ![p].step = "start", ![p].index = 1] ELSE Rest(p)
  /\ UNCHANGED <<publication, recovery, decided, retry, opened, calls, events>>

StartMember(p) ==
  /\ Doing(p, "rollout", "start")
  /\ IF rollout.status = "running" /\ rollout.started = process[p].index - 1
       THEN rollout' = [rollout EXCEPT !.started = @ + 1] /\ Go(p, "execute")
       ELSE UNCHANGED rollout /\ Rest(p)
  /\ UNCHANGED <<publication, recovery, decided, retry, opened, calls, events>>

(***************************************************************************)
(* What a started member meets, in the rollout and in a retry              *)
(***************************************************************************)
\* The members a plan has still to publish, in rollout order.
Unpublished(plan) ==
  LET listed[n \in 0..Len(Order)] ==
        IF n = 0 THEN <<>>
        ELSE IF plan[Order[n]].status \in {"failed", "blocked", "pending"} THEN Append(listed[n - 1], Order[n])
        ELSE listed[n - 1]
  IN listed[Len(Order)]
RetryOrder(k) == Unpublished(recovery[k])
OrderOf(job)  == IF job = "rollout" THEN Order ELSE RetryOrder(job)
MemberOf(p)   == OrderOf(process[p].job)[process[p].index]
Good(job)     == IF job = "rollout" THEN Drafts \cup {"merged"} ELSE Drafts
Advance(p) == process' = [process EXCEPT ![p].index = @ + 1,
                ![p].step = IF process[p].index = Len(OrderOf(process[p].job)) THEN "finish" ELSE "start"]

\* execute returns a delivered record, blocks one it may not publish, throws and
\* leaves the record (a changed run, an unreadable worktree), or claims it.
Execute(p) ==
  LET r == MemberOf(p)
      now == publication[r] IN
  /\ process[p].step = "execute"
  /\ calls' = [calls EXCEPT ![process[p].job][r] = @ + 1]
  /\ \/ /\ now.status \in Delivered /\ UNCHANGED <<publication, events>>
        /\ IF now.status \in Good(process[p].job) THEN Advance(p) ELSE Go(p, "failed")
     \/ /\ now.status \notin Delivered /\ events < MaxEvents /\ events' = events + 1
        /\ \/ UNCHANGED publication /\ Go(p, "failed")
           \/ publication' = [publication EXCEPT ![r].status = "blocked", ![r].holder = "none"] /\ Go(p, "blocked")
     \/ /\ now.status \notin Delivered /\ now.attempts = MaxAttempts
        /\ publication' = [publication EXCEPT ![r].status = "blocked", ![r].holder = "none"]
        /\ Go(p, "blocked") /\ UNCHANGED events
     \/ /\ now.status \notin Delivered /\ now.attempts < MaxAttempts /\ UNCHANGED events
        /\ IF Claimable(r)
             THEN /\ publication' = [publication EXCEPT ![r].status = "running", ![r].attempts = @ + 1, ![r].holder = p]
                  /\ Go(p, "publishing")
             ELSE UNCHANGED publication /\ Go(p, "failed")
  /\ UNCHANGED <<rollout, recovery, decided, retry, opened>>

EndExecute(p, s) ==
  LET r == MemberOf(p) IN
  /\ process[p].step = "publishing" /\ s \in {"published", "failed", "blocked"}
  /\ publication' = [publication EXCEPT ![r].status = s, ![r].holder = "none"]
  /\ opened' = IF s = "published" THEN opened \cup {r} ELSE opened
  /\ IF s = "published" THEN Advance(p) ELSE Go(p, s)
  /\ UNCHANGED <<rollout, recovery, decided, retry, calls, events>>

\* The end is judged by what the publications say now.
Outcome(p) ==
  IF process[p].step = "finish" THEN "succeeded"
  ELSE IF Published(Current, Good(process[p].job)) THEN "partial" ELSE process[p].step
FailedMember(p) == IF process[p].step = "finish" THEN "none" ELSE MemberOf(p)

EndRollout(p) ==
  /\ process[p].job = "rollout" /\ process[p].step \in {"finish", "failed", "blocked"}
  /\ Rest(p) /\ SettleRollout(Outcome(p), Current, FailedMember(p))
  /\ UNCHANGED <<publication, recovery, decided, retry, opened, calls, events>>

(***************************************************************************)
(* Recovery                                                                *)
(***************************************************************************)
AdmitRecovery(k) ==
  /\ rollout.status \in {"partial", "blocked", "failed"} /\ recovery[k] = NoPlan
  /\ recovery' = [recovery EXCEPT ![k] = Snapshot]
  /\ UNCHANGED <<publication, rollout, decided, retry, process, opened, calls, events>>

\* Nothing in flight, nothing beyond a draft, and something left to publish.
Retryable(k) ==
  /\ recovery[k] # NoPlan /\ RetryOrder(k) # <<>>
  /\ \A r \in LinkedDrafts : recovery[k][r].status \notin {"running", "merged", "closed"}

\* A plan is consumed by one retry or by one decision.
ReserveRetry(k) ==
  /\ Retryable(k) /\ k \notin decided /\ retry[k] = NotStarted
  /\ retry' = [retry EXCEPT ![k].status = "reserved"]
  /\ UNCHANGED <<publication, rollout, recovery, decided, process, opened, calls, events>>

Decide(k) ==
  /\ recovery[k] # NoPlan /\ k \notin decided /\ retry[k] = NotStarted
  /\ decided' = decided \cup {k}
  /\ UNCHANGED <<publication, rollout, recovery, retry, process, opened, calls, events>>

CallRetry(p, k) ==
  /\ process[p].step = "idle" /\ retry[k].status \in {"reserved", "prepared"}
  /\ process' = [process EXCEPT ![p] = [Resting EXCEPT !.job = k, !.index = 1,
                   !.step = IF retry[k].status = "reserved" THEN "preflight" ELSE "claim"]]
  /\ UNCHANGED <<publication, rollout, recovery, decided, retry, opened, calls, events>>

\* What the store accepts as the end of a retry.
SettleableRetry(k, status, statuses) ==
  /\ retry[k].status \in {"reserved", "prepared", "running"}
  /\ retry[k].status \in {"reserved", "prepared"} => status = "blocked" /\ retry[k].started = 0
  /\ status = "succeeded" => \A r \in LinkedDrafts : statuses[r] \in Drafts

SettleRetry(k, status, statuses, failed) ==
  retry' = IF SettleableRetry(k, status, statuses)
           THEN [retry EXCEPT ![k].status = status, ![k].result = statuses, ![k].failed = failed] ELSE retry

\* The publications must be those of the plan; else the retry is settled as
\* blocked, also when it was another caller that took it further.
PreflightRetry(p, k) ==
  /\ Doing(p, k, "preflight")
  /\ IF retry[k].status = "reserved" /\ Snapshot = recovery[k]
       THEN retry' = [retry EXCEPT ![k].status = "prepared"] /\ Go(p, "claim")
       ELSE SettleRetry(k, "blocked", Current, "none") /\ Rest(p)
  /\ UNCHANGED <<publication, rollout, recovery, decided, opened, calls, events>>

\* Fault: a retry found running is continued.
ClaimRetryRunning(p, k) ==
  LET claims == retry[k].status \in {"prepared", "running"} IN
  /\ Doing(p, k, "claim")
  /\ retry' = IF claims THEN [retry EXCEPT ![k].status = "running", ![k].started = 0] ELSE retry
  /\ IF claims THEN Go(p, "start") ELSE Rest(p)
  /\ UNCHANGED <<publication, rollout, recovery, decided, opened, calls, events>>

ClaimRetry(p, k) ==
  LET claims == retry[k].status = "prepared" IN
  /\ Doing(p, k, "claim")
  /\ retry' = IF claims THEN [retry EXCEPT ![k].status = "running"] ELSE retry
  /\ IF claims THEN Go(p, "start") ELSE Rest(p)
  /\ UNCHANGED <<publication, rollout, recovery, decided, opened, calls, events>>

StartRetry(p, k) ==
  /\ Doing(p, k, "start")
  /\ IF retry[k].status = "running" /\ retry[k].started = process[p].index - 1
       THEN retry' = [retry EXCEPT ![k].started = @ + 1] /\ Go(p, "execute")
       ELSE UNCHANGED retry /\ Rest(p)
  /\ UNCHANGED <<publication, rollout, recovery, decided, opened, calls, events>>

EndRetry(p, k) ==
  /\ process[p].job = k /\ process[p].step \in {"finish", "failed", "blocked"}
  /\ Rest(p) /\ SettleRetry(k, Outcome(p), Current, FailedMember(p))
  /\ UNCHANGED <<publication, rollout, recovery, decided, opened, calls, events>>

\* The process stops; a publication it was running is claimable when its lease is over.
Stop(p) ==
  /\ process[p].step # "idle" /\ events < MaxEvents
  /\ events' = events + 1 /\ Rest(p)
  /\ publication' = [r \in LinkedDrafts |-> IF publication[r].holder = p THEN [publication[r] EXCEPT !.holder = "gone"]
                                      ELSE publication[r]]
  /\ UNCHANGED <<rollout, recovery, decided, retry, opened, calls>>

ServiceStep(p) ==
  \/ \E s \in {"pending", "blocked"} : AdmitIntent(p, s)
  \/ RecordManifest(p) \/ BlockRollout(p) \/ ClaimRollout(p) \/ StartMember(p)
  \/ Execute(p) \/ EndRollout(p)
  \/ \E s \in {"published", "failed", "blocked"} : EndExecute(p, s)
  \/ \E k \in Recoveries : PreflightRetry(p, k) \/ ClaimRetry(p, k) \/ StartRetry(p, k) \/ EndRetry(p, k)

LinkedNext ==
  \/ \E r \in LinkedDrafts, s \in Statuses : OperatorAdmits(r, s) \/ OperatorEnds(r, s) \/ Refresh(r, s)
  \/ \E r \in LinkedDrafts : OperatorExecutes(r)
  \/ \E k \in Recoveries : AdmitRecovery(k) \/ ReserveRetry(k) \/ Decide(k)
  \/ \E p \in Processes : CallRollout(p) \/ ServiceStep(p) \/ Stop(p)
  \/ \E p \in Processes, k \in Recoveries : CallRetry(p, k)

LinkedSpec == LinkedInit /\ [][LinkedNext]_linkedVars

(***************************************************************************)
(* Properties                                                              *)
(***************************************************************************)
LinkedTypeOK ==
  /\ publication \in [LinkedDrafts -> [status : Statuses, attempts : 0..MaxAttempts, by : {"none", "operator", "rollout"},
                                 holder : {"none", "operator", "gone"} \cup Processes]]
  /\ rollout \in [status : {"reserved", "prepared", "running"} \cup Ends, started : 0..Len(Order),
                   manifest : [LinkedDrafts -> Statuses], result : [LinkedDrafts -> Statuses], failed : LinkedDrafts \cup {"none"}]
  /\ decided \subseteq Recoveries /\ opened \subseteq LinkedDrafts
  /\ recovery \in [Recoveries -> [LinkedDrafts -> [status : Statuses, attempts : 0..MaxAttempts]]]
  /\ retry \in [Recoveries -> [status : {"none", "reserved", "prepared", "running"} \cup Ends, started : 0..Len(Order),
                               result : [LinkedDrafts -> Statuses], failed : LinkedDrafts \cup {"none"}]]
  /\ process \in [Processes -> [job : Recoveries \cup {"none", "rollout"},
                   step : {"idle", "admit", "preflight", "block", "claim", "start", "execute", "publishing",
                           "finish", "failed", "blocked"},
                   index : 0..(Len(Order) + 1), seen : [LinkedDrafts -> Statuses]]]
  /\ calls \in [Recoveries \cup {"rollout"} -> [LinkedDrafts -> Nat]]

(***************************************************************************)
(* A member is started by the rollout only after the drafts of all members *)
(* before it were opened, and by nobody before every intent was pending.   *)
(***************************************************************************)
DependenciesOpenFirst ==
  /\ \A i \in 1..rollout.started : \A j \in 1..(i - 1) : Order[j] \in opened
  /\ rollout.started > 0 => \A r \in LinkedDrafts : rollout.manifest[r] = "pending"

(***************************************************************************)
(* The rollout, and every retry, calls execute at most once for a member,  *)
(* over all the processes that run them and whatever became of those.      *)
(***************************************************************************)
MembersExecuteOnce == \A j \in DOMAIN calls : \A r \in LinkedDrafts : calls[j][r] <= 1

(***************************************************************************)
(* A rollout has ended only when nobody works on it any more.              *)
(***************************************************************************)
RolloutEndsWithItsWork ==
  rollout.status \in Ends =>
    \A p \in Processes : process[p].job = "rollout" => process[p].step \notin {"start", "execute", "publishing"}

(***************************************************************************)
(* What the terminal evidence says of the drafts was so: success means     *)
(* that every draft was opened, a partial end that one was, and an end     *)
(* without a start that the rollout called nobody.                         *)
(***************************************************************************)
TerminalEvidenceIsTrue ==
  /\ rollout.status = "succeeded" => LinkedDrafts = opened
  /\ rollout.status = "partial" => opened # {} /\ rollout.started > 0
  /\ rollout.status \in Ends /\ rollout.started = 0 => \A r \in LinkedDrafts : calls["rollout"][r] = 0
  /\ \A k \in Recoveries : /\ retry[k].status = "succeeded" => LinkedDrafts = opened
                           /\ retry[k].status = "partial" => opened # {}

(***************************************************************************)
(* A recovery plan is consumed once, by a retry or by a decision, and a    *)
(* retry never executes a draft the plan retains.                          *)
(***************************************************************************)
PlanConsumedOnce ==
  \A k \in Recoveries :
    /\ ~(k \in decided /\ retry[k] # NotStarted)
    /\ \A r \in LinkedDrafts : calls[k][r] > 0 => recovery[k][r].status \in {"failed", "blocked", "pending"}

(***************************************************************************)
(* A retry is claimed for the publications its plan was derived from: what *)
(* the preflight compared is what every member looked like.                *)
(***************************************************************************)
RetryStartsFromItsPlan ==
  [][\A k \in Recoveries : retry[k].status = "reserved" /\ retry'[k].status = "prepared" => Snapshot = recovery[k]]_linkedVars

(***************************************************************************)
(* Terminal rollouts and retries are never rewritten, by callers that      *)
(* still work on them or by callers that come late.                        *)
(***************************************************************************)
TerminalStands ==
  [][/\ rollout.status \in Ends => rollout' = rollout
     /\ \A k \in Recoveries : retry[k].status \in Ends => retry'[k] = retry[k]]_linkedVars

(***************************************************************************)
(* A rollout is left running, for good, only when its process stopped or a *)
(* publication was touched by somebody else or refused to move: the store  *)
(* then refuses the end the service reports.                               *)
(***************************************************************************)
RunningRolloutIsWorkedOn ==
  rollout.status = "running" => events > 0 \/ \E p \in Processes : process[p].job = "rollout"

\* The rollout and its recoveries open the drafts in dependency order, once each, and
\* end with what really happened.
RolloutIsOrdered ==
  /\ LinkedTypeOK
  /\ DependenciesOpenFirst
  /\ MembersExecuteOnce
  /\ RolloutEndsWithItsWork
  /\ TerminalEvidenceIsTrue
  /\ PlanConsumedOnce
  /\ RunningRolloutIsWorkedOn
=============================================================================
