---------------------------- MODULE DraftExecution ----------------------------
(***************************************************************************)
(* One implementation attempt, ExecutionService: a detached worktree, the  *)
(* repository's preparation, one worker call, the required gates, and the  *)
(* evidence trusted code collects from what they all left behind.  An      *)
(* attempt starts from nothing (execute) or from a worktree and a          *)
(* preparation that an earlier preflight recorded (executeClaimed).  Of    *)
(* the worktree the model keeps the changed paths and where HEAD is.       *)
(***************************************************************************)
EXTENDS Integers, FiniteSets

CONSTANTS
  Paths,      \* paths anyone may change
  Protected,  \* those a protected boundary of the policy covers
  MaxFiles,   \* executionPolicy.maxFiles
  GateCount   \* executionPolicy.requiredGateIds, run in order

ASSUME ExecutionAssumption ==
  /\ IsFiniteSet(Paths) /\ Protected \subseteq Paths /\ {MaxFiles, GateCount} \subseteq Nat

VARIABLES
  claimed,      \* the attempt came from executeClaimed
  stage,        \* where the attempt stands
  preparation,  \* the recorded preparation status
  changed,      \* changed[w]: the paths the worktree differs in from the base
  head,         \* where HEAD of the worktree is
  disposition,  \* what the worker reported
  passed,       \* required gates passed so far
  gatesOn,      \* what was changed when the last gate started
  draft,        \* the collected evidence: [paths, head, violations]
  outcome,      \* the status completeExecution is given
  calls         \* worker calls

executionVars == <<claimed, stage, preparation, changed, head, disposition, passed, gatesOn,
                   draft, outcome, calls>>

Stages       == {"created", "prepared", "worked", "gated", "settled"}
Dispositions == {"changed", "no_change", "blocked"}
NoDraft      == [paths |-> {}, head |-> "none", violations |-> {}]

Settle(status) == stage' = "settled" /\ outcome' = status

\* execute creates the worktree at the tip of the default branch; executeClaimed is
\* handed one, and whatever has happened to it since its preflight.
ExecutionInit ==
  /\ claimed \in BOOLEAN /\ stage = "created"
  /\ preparation \in IF claimed THEN {"passed", "failed", "timed_out"} ELSE {"none"}
  /\ changed \in IF claimed THEN SUBSET Paths ELSE {{}}
  /\ head \in IF claimed THEN {"base", "moved"} ELSE {"base"}
  /\ disposition = "none" /\ passed = 0 /\ gatesOn = {} /\ draft = NoDraft
  /\ outcome = "none" /\ calls = 0

\* A source that is missing, a worktree that cannot be added, a command that cannot be
\* started, a file that cannot be written: #fail records the error.
Fail ==
  /\ stage # "settled" /\ Settle("failed")
  /\ UNCHANGED <<claimed, preparation, changed, head, disposition, passed, gatesOn, draft, calls>>

\* #prepareWorkspace.  The command may leave files or commits behind; nothing looks yet.
Prepare(status, left, at) ==
  /\ stage = "created" /\ ~claimed
  /\ preparation' = status /\ changed' = left /\ head' = at
  /\ IF status = "passed" THEN stage' = "prepared" /\ UNCHANGED outcome ELSE Settle("failed")
  /\ UNCHANGED <<claimed, disposition, passed, gatesOn, draft, calls>>

\* #validateClaimedPaths
Trusted == head = "base" /\ changed = {}

Prepared == preparation = "passed"

TakeOver ==
  /\ stage = "created" /\ claimed
  /\ IF Prepared /\ Trusted THEN stage' = "prepared" /\ UNCHANGED outcome ELSE Settle("failed")
  /\ UNCHANGED <<claimed, preparation, changed, head, disposition, passed, gatesOn, draft, calls>>

\* The worker may change anything and report anything.
RunWorker(d, left, at) ==
  /\ stage = "prepared" /\ stage' = "worked"
  /\ calls' = calls + 1 /\ disposition' = d /\ changed' = left /\ head' = at
  /\ UNCHANGED <<claimed, preparation, passed, gatesOn, draft, outcome>>

\* #runGates, one gate at a time: any of them may write, and the first that does not
\* pass is the last.
Gate(ok, left, at) ==
  /\ stage = "worked" /\ passed < GateCount
  /\ gatesOn' = changed /\ changed' = left /\ head' = at
  /\ passed' = IF ok THEN passed + 1 ELSE passed
  /\ stage' = IF ok /\ passed' < GateCount THEN "worked" ELSE "gated"
  /\ UNCHANGED <<claimed, preparation, disposition, draft, outcome, calls>>

\* Fault: the draft is the one the last gate started on.
DraftBeforeGates == IF GateCount = 0 THEN changed ELSE gatesOn

\* The diff against the base, with what was untracked.
Diff == changed

Violations(paths) ==
  {v \in {"blocked", "no_patch", "unreported", "files", "head", "protected", "gates"} :
     \/ v = "blocked" /\ disposition = "blocked"
     \/ v = "no_patch" /\ disposition = "changed" /\ paths = {}
     \/ v = "unreported" /\ disposition = "no_change" /\ paths # {}
     \/ v = "files" /\ Cardinality(paths) > MaxFiles
     \/ v = "head" /\ head # "base"
     \/ v = "protected" /\ paths \cap Protected # {}
     \/ v = "gates" /\ passed < GateCount}

\* #collectEvidence, and the completion of #executeClaimed.
Collect ==
  /\ stage = "gated" \/ (stage = "worked" /\ GateCount = 0)
  /\ draft' = [paths |-> Diff, head |-> head, violations |-> Violations(Diff)]
  /\ Settle(IF draft'.violations = {} /\ passed = GateCount THEN "succeeded" ELSE "blocked")
  /\ UNCHANGED <<claimed, preparation, changed, head, disposition, passed, gatesOn, calls>>

ExecutionNext ==
  \/ Fail \/ TakeOver \/ Collect
  \/ \E left \in SUBSET Paths, at \in {"base", "moved"} :
       \/ \E status \in {"passed", "failed", "timed_out"} : Prepare(status, left, at)
       \/ \E d \in Dispositions : RunWorker(d, left, at)
       \/ \E ok \in BOOLEAN : Gate(ok, left, at)

ExecutionSpec == ExecutionInit /\ [][ExecutionNext]_executionVars

(***************************************************************************)
(* Properties                                                              *)
(***************************************************************************)
\* Stages, statuses and evidence are of their kinds; an attempt makes one worker call.
ExecutionTypeOK ==
  /\ stage \in Stages /\ outcome \in {"none", "succeeded", "blocked", "failed"}
  /\ (stage = "settled") = (outcome # "none")
  /\ changed \subseteq Paths /\ passed \in 0..GateCount /\ calls \in 0..1
  /\ outcome \in {"succeeded", "blocked"} => calls = 1 /\ draft.head # "none"

\* docs/architecture.md: a failed setup settles before model token spend, and a
\* claimed worktree must still be the one that was prepared.  The call is spent on
\* a prepared worktree, and for a claimed one on its clean base.
CallNeedsPreparation ==
  [][calls' # calls =>
       preparation = "passed" /\ (claimed => head = "base" /\ changed = {})]_executionVars

\* A succeeded draft holds everything that differs from the base when it settles, what
\* preparation and gates wrote included, and all of that is within the policy: few
\* enough paths, none protected, HEAD where it was, every gate passed; and the worker
\* reported changes exactly when there are some.
DraftIsWithinPolicy ==
  outcome = "succeeded" =>
    /\ draft.paths = changed /\ Cardinality(changed) <= MaxFiles
    /\ changed \cap Protected = {} /\ head = "base" /\ passed = GateCount
    /\ disposition = (IF changed = {} THEN "no_change" ELSE "changed")

\* A succeeded attempt made its one call and left a draft within the policy.
DraftIsTrusted ==
  /\ ExecutionTypeOK
  /\ DraftIsWithinPolicy
=============================================================================
