------------------------- MODULE IntegrationConflict -------------------------
(***************************************************************************)
(* How the draft patches a task depends on become one workspace: the       *)
(* direct assembly, the three-way resolution of a rejected one, the        *)
(* attempts of the conflict agent, of which one may make one model call,   *)
(* and the promotion of a resolution to an assembly.  Store transactions   *)
(* are steps; the callers of the services hold what they read in between,  *)
(* stop anywhere, and share the attempts and the workspaces on disk.       *)
(***************************************************************************)
EXTENDS Naturals, FiniteSets

CONSTANTS
  Attempts,        \* identities of conflict-agent invocations
  Promotions,      \* identities of promotions
  Callers,         \* requests being served, by any process
  MaxCrashes       \* bound: callers that stop half-way

ASSUME ConflictAssumption ==
  /\ IsFiniteSet(Attempts) /\ MaxCrashes \in Nat
  /\ {"direct", "three_way"} \cap Attempts = {}

Resolutions == Attempts \cup {"three_way"}
Workspaces  == Resolutions \cup {"direct"}

VARIABLES
  assembly,        \* the direct assembly of the task
  resolution,      \* resolution[r]: the recorded result of r
  workspace,       \* workspace[w]: what is on disk, against the recorded evidence;
                   \* "worked" is the recorded patch with edits of the integration on top
  agent,           \* agent[a]: status; "ready" is reserved with a passed preflight,
                   \* "refused" is blocked without a model call
  claim,           \* claim[a]: the organization capacity claim of an attempt
  stale,           \* attempts that run past the worker timeout and its grace minute
  promotion,       \* promotion[q]: [of, status]
  caller,          \* caller[c]: [step, on, saw]
  answers,         \* answers[a]: model calls really made
  crashes

conflictVars ==
  <<assembly, resolution, workspace, agent, claim, stale, promotion, caller, answers, crashes>>

Idle     == [step |-> "idle", on |-> "direct", saw |-> "none"]
Unused   == [of |-> "direct", status |-> "none"]
Spent    == {"running", "resolved", "blocked", "failed"}
Final    == {"refused", "resolved", "blocked", "failed"}

Goto(c, step, on, saw) == caller' = [caller EXCEPT ![c] = [step |-> step, on |-> on, saw |-> saw]]
Return(c)              == caller' = [caller EXCEPT ![c] = Idle]
At(c, step)            == caller[c].step = step

\* One assembly per task of a plan.
RecordAssembly(status) ==
  /\ assembly = "none" /\ assembly' = status
  /\ workspace' = [workspace EXCEPT !["direct"] = IF status = "assembled" THEN "resolved" ELSE "other"]
  /\ UNCHANGED <<resolution, agent, claim, stale, promotion, caller, answers, crashes>>

\* Git alone tries first, in a worktree of its own, once per rejected assembly.
RecordThreeWay(status) ==
  /\ assembly = "rejected" /\ resolution["three_way"] = "none"
  /\ resolution' = [resolution EXCEPT !["three_way"] = status]
  /\ workspace' = [workspace EXCEPT !["three_way"] =
       IF status = "resolved" THEN "resolved" ELSE IF status = "unresolved" THEN "conflict" ELSE "other"]
  /\ UNCHANGED <<assembly, agent, claim, stale, promotion, caller, answers, crashes>>

EligibleParent == resolution["three_way"] = "unresolved"

CallConsumed == \E a \in Attempts : agent[a] \in Spent

Reserve(a) ==
  /\ agent[a] = "absent" /\ EligibleParent /\ ~CallConsumed
  /\ agent' = [agent EXCEPT ![a] = "reserved"]
  /\ UNCHANGED <<assembly, resolution, workspace, claim, stale, promotion, caller, answers, crashes>>

\* A call of execute goes where the status it reads sends it.
Execute(c, a) ==
  /\ At(c, "idle")
  /\ \/ agent[a] = "reserved" /\ Goto(c, "preflight", a, "none")
     \/ agent[a] = "ready"    /\ Goto(c, "revalidate", a, "none")
     \/ agent[a] = "running"  /\ Goto(c, "claim", a, "none")
  /\ UNCHANGED <<assembly, resolution, workspace, agent, claim, stale, promotion, answers, crashes>>

\* Whoever finds the preflight claimed goes on only if it has passed already.
ClaimPreflight(c) ==
  LET a == caller[c].on IN
  /\ At(c, "preflight")
  /\ CASE agent[a] = "reserved" -> agent' = [agent EXCEPT ![a] = "preparing"] /\ Goto(c, "replay", a, "none")
       [] agent[a] = "ready"    -> Goto(c, "revalidate", a, "none") /\ UNCHANGED agent
       [] OTHER                 -> Return(c) /\ UNCHANGED agent
  /\ UNCHANGED <<assembly, resolution, workspace, claim, stale, promotion, answers, crashes>>

\* The conflict is reproduced in a fresh worktree and recorded, or the attempt ends.
Replay(c, passed) ==
  LET a == caller[c].on IN
  /\ At(c, "replay")
  /\ workspace' = [workspace EXCEPT ![a] = IF passed THEN "conflict" ELSE "other"]
  /\ agent' = [agent EXCEPT ![a] = IF passed THEN "ready" ELSE "refused"]
  /\ IF passed THEN Goto(c, "revalidate", a, "none") ELSE Return(c)
  /\ UNCHANGED <<assembly, resolution, claim, stale, promotion, answers, crashes>>

\* The worktree is compared with the preflight; a block finds the attempt still
\* reserved or throws.
Revalidate(c) ==
  LET a == caller[c].on IN
  /\ At(c, "revalidate")
  /\ IF workspace[a] = "conflict" THEN Goto(c, "claim", a, "none") /\ UNCHANGED agent
     ELSE /\ Return(c)
          /\ agent' = [agent EXCEPT ![a] = IF @ = "ready" THEN "refused" ELSE @]
  /\ UNCHANGED <<assembly, resolution, workspace, claim, stale, promotion, answers, crashes>>

\* The model call is claimed with its capacity; one row per resolution may carry it.
\* A call found running is left alone until it is stale.
ClaimCall(c) ==
  LET a == caller[c].on IN
  /\ At(c, "claim")
  /\ IF agent[a] = "ready" /\ ~CallConsumed
       THEN /\ agent' = [agent EXCEPT ![a] = "running"] /\ claim' = [claim EXCEPT ![a] = "active"]
            /\ Goto(c, "work", a, "none")
       ELSE /\ IF agent[a] = "running" /\ a \in stale THEN Goto(c, "fail", a, "none") ELSE Return(c)
            /\ UNCHANGED <<agent, claim>>
  /\ UNCHANGED <<assembly, resolution, workspace, stale, promotion, answers, crashes>>

\* The organization has no slot: nothing is written.
ClaimRefused(c) ==
  /\ At(c, "claim") /\ agent[caller[c].on] = "ready" /\ Return(c)
  /\ UNCHANGED <<assembly, resolution, workspace, agent, claim, stale, promotion, answers, crashes>>

\* The worker edits the worktree and answers, or throws.
Work(c, left, answered) ==
  LET a == caller[c].on IN
  /\ At(c, "work")
  /\ answers' = [answers EXCEPT ![a] = @ + 1]
  /\ workspace' = [workspace EXCEPT ![a] = IF @ = "other" THEN @ ELSE left]
  /\ Goto(c, IF answered THEN "evaluate" ELSE "fail", a, "none")
  /\ UNCHANGED <<assembly, resolution, agent, claim, stale, promotion, crashes>>

\* The trusted inspection: resolved is what the worktree shows, whatever was answered.
Evaluate(c, readable) ==
  LET a == caller[c].on IN
  /\ At(c, "evaluate")
  /\ IF ~readable THEN Goto(c, "fail", a, "none")
     ELSE Goto(c, "complete", a, IF workspace[a] = "resolved" THEN "resolved" ELSE "blocked")
  /\ UNCHANGED <<assembly, resolution, workspace, agent, claim, stale, promotion, answers, crashes>>

Settles(a) == agent[a] = "running" /\ claim[a] = "active"

\* Fault: a late answer is recorded over the failure of its attempt.
CompleteLate(c) ==
  LET a == caller[c].on IN
  /\ At(c, "complete") /\ Return(c)
  /\ resolution' = [resolution EXCEPT ![a] = caller[c].saw]
  /\ IF Settles(a) THEN /\ agent' = [agent EXCEPT ![a] = caller[c].saw]
                        /\ claim' = [claim EXCEPT ![a] = "released"]
                   ELSE UNCHANGED <<agent, claim>>
  /\ UNCHANGED <<assembly, workspace, stale, promotion, answers, crashes>>

\* The release of the claim is part of the transaction: when the claim cannot be
\* released, nothing is recorded.
Complete(c) ==
  LET a == caller[c].on IN
  /\ At(c, "complete") /\ Return(c)
  /\ IF Settles(a) THEN /\ agent' = [agent EXCEPT ![a] = caller[c].saw]
                        /\ resolution' = [resolution EXCEPT ![a] = caller[c].saw]
                        /\ claim' = [claim EXCEPT ![a] = "released"]
                   ELSE UNCHANGED <<agent, resolution, claim>>
  /\ UNCHANGED <<assembly, workspace, stale, promotion, answers, crashes>>

FailClaimed(c) ==
  LET a == caller[c].on IN
  /\ At(c, "fail") /\ Return(c)
  /\ IF Settles(a) THEN /\ agent' = [agent EXCEPT ![a] = "failed"]
                        /\ claim' = [claim EXCEPT ![a] = "released"]
                   ELSE UNCHANGED <<agent, claim>>
  /\ UNCHANGED <<assembly, resolution, workspace, stale, promotion, answers, crashes>>

\* The workspace of a resolved conflict is inspected, then the verdict is recorded.
Inspect(c, r) ==
  /\ At(c, "idle") /\ resolution[r] = "resolved"
  /\ Goto(c, "promote", r, IF workspace[r] = "resolved" THEN "promoted" ELSE "blocked")
  /\ UNCHANGED <<assembly, resolution, workspace, agent, claim, stale, promotion, answers, crashes>>

Promoted == {q \in Promotions : promotion[q].status = "promoted"}

\* Blocked verdicts pile up; one promotion of a resolution succeeds.
RecordPromotion(c, q) ==
  LET r == caller[c].on IN
  /\ At(c, "promote") /\ Return(c)
  /\ promotion' = IF \/ promotion[q] # Unused
                     \/ caller[c].saw = "promoted" /\ \E p \in Promoted : promotion[p].of = r
                  THEN promotion
                  ELSE [promotion EXCEPT ![q] = [of |-> r, status |-> caller[c].saw]]
  /\ UNCHANGED <<assembly, resolution, workspace, agent, claim, stale, answers, crashes>>

\* A process stops with the request it serves; a preflight it had claimed stays claimed.
Crash(c) ==
  /\ ~At(c, "idle") /\ crashes < MaxCrashes
  /\ Return(c) /\ crashes' = crashes + 1
  /\ UNCHANGED <<assembly, resolution, workspace, agent, claim, stale, promotion, answers>>

OutliveTimeout(a) ==
  /\ agent[a] = "running" /\ a \notin stale /\ stale' = stale \cup {a}
  /\ UNCHANGED <<assembly, resolution, workspace, agent, claim, promotion, caller, answers, crashes>>

RecoverClaim(a) ==
  /\ claim[a] = "active" /\ claim' = [claim EXCEPT ![a] = "ambiguous"]
  /\ UNCHANGED <<assembly, resolution, workspace, agent, stale, promotion, caller, answers, crashes>>

\* Somebody edits a worktree that is kept for evidence.
Drift(w) ==
  /\ workspace[w] \notin {"none", "other"} /\ workspace' = [workspace EXCEPT ![w] = "other"]
  /\ UNCHANGED <<assembly, resolution, agent, claim, stale, promotion, caller, answers, crashes>>

ConflictInit ==
  /\ assembly = "none"
  /\ resolution = [r \in Resolutions |-> "none"]
  /\ workspace = [w \in Workspaces |-> "none"]
  /\ agent = [a \in Attempts |-> "absent"]
  /\ claim = [a \in Attempts |-> "none"]
  /\ stale = {} /\ crashes = 0
  /\ promotion = [q \in Promotions |-> Unused]
  /\ caller = [c \in Callers |-> Idle]
  /\ answers = [a \in Attempts |-> 0]

ConflictNext ==
  \/ \E status \in {"assembled", "rejected", "blocked"} : RecordAssembly(status)
  \/ \E status \in {"resolved", "unresolved", "blocked"} : RecordThreeWay(status)
  \/ \E a \in Attempts : Reserve(a) \/ OutliveTimeout(a) \/ RecoverClaim(a)
  \/ \E w \in Workspaces : Drift(w)
  \/ \E c \in Callers :
       \/ \E a \in Attempts : Execute(c, a)
       \/ ClaimPreflight(c) \/ Revalidate(c) \/ ClaimCall(c) \/ ClaimRefused(c)
       \/ \E yes \in BOOLEAN : Replay(c, yes) \/ Evaluate(c, yes)
       \/ \E left \in {"conflict", "resolved", "other"}, answered \in BOOLEAN : Work(c, left, answered)
       \/ Complete(c) \/ FailClaimed(c) \/ Crash(c)
       \/ \E r \in Resolutions : Inspect(c, r)
       \/ \E q \in Promotions : RecordPromotion(c, q)

ConflictSpec == ConflictInit /\ [][ConflictNext]_conflictVars
-----------------------------------------------------------------------------
ConflictTypeOK ==
  /\ assembly \in {"none", "assembled", "rejected", "blocked"}
  /\ resolution \in [Resolutions -> {"none", "resolved", "unresolved", "blocked"}]
  /\ workspace \in [Workspaces -> {"none", "conflict", "resolved", "worked", "other"}]
  /\ agent \in [Attempts -> {"absent", "reserved", "preparing", "ready"} \cup Spent \cup Final]
  /\ claim \in [Attempts -> {"none", "active", "released", "ambiguous"}]
  /\ stale \subseteq Attempts /\ crashes \in 0..MaxCrashes
  /\ promotion \in [Promotions -> [of : Workspaces, status : {"none", "promoted", "blocked"}]]
  /\ caller \in [Callers -> [on : Workspaces,
       saw : {"none", "resolved", "blocked", "promoted"},
       step : {"idle", "preflight", "replay", "revalidate", "claim", "work", "evaluate",
               "complete", "fail", "promote"}]]
  /\ answers \in [Attempts -> Nat]

(* However many attempts are reserved for a conflict, and however often     *)
(* each is executed, crashed and executed again, the model is called once.  *)
OneModelCall ==
  /\ \A a \in Attempts : answers[a] <= 1
  /\ \A a, b \in Attempts : answers[a] > 0 /\ answers[b] > 0 => a = b

\* What the integration of the task may start from.
Candidates == (IF assembly = "assembled" THEN {"direct"} ELSE {}) \cup Promoted

(* A task is integrated from one assembly: the direct one, or one promotion *)
(* of one resolution of its rejection, never two.                           *)
SoleCandidate == Cardinality(Candidates) <= 1

(* The answer of a call and the end of its attempt agree: a result exists   *)
(* exactly for the attempts that ended with it, so that an answer that      *)
(* comes after the attempt was given up for stale is never promoted.        *)
LateAnswerIsDropped ==
  \A a \in Attempts : resolution[a] = IF agent[a] \in {"resolved", "blocked"} THEN agent[a] ELSE "none"

ConflictCall == [a \in Attempts |->
  CASE agent[a] = "running" -> "made"
    [] agent[a] = "refused" -> "withdrawn"
    [] agent[a] \in Final \ {"refused"} -> "settled"
    [] OTHER -> "open"]

\* All attempts of one conflict share a budget of one call.
ConflictBudget == INSTANCE OneUseCalls WITH Calls <- Attempts, Limit <- 1, call <- ConflictCall
ConflictCallIsOneUse == ConflictBudget!Spec
=============================================================================
