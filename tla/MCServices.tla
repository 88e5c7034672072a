------------------------------ MODULE MCServices ------------------------------
(***************************************************************************)
(* Instances of DraftReview and of CompatibilityExecution for TLC: the two *)
(* services that end in a verdict over worktrees and gates.  They share no *)
(* state: a behaviour follows one part and leaves the other as it is.      *)
(***************************************************************************)
EXTENDS DraftReview, CompatibilityExecution

CONSTANTS empty, patch1, patch2, patch3, lib, app, docs, p1, p2

VARIABLE part   \* the service a behaviour follows

MCPatches    == {empty, patch1, patch2, patch3}
MCSecondGate == {2}

MCMembers    == {lib, app, docs}
MCRunners    == {p1, p2}
MCBothChecks == <<{lib, app}, {app, docs}>>

\* A member may need no review, or no check cover it.
MCSchedules  == {[reviewed |-> MCMembers, checks |-> MCBothChecks],
                 [reviewed |-> {lib, app}, checks |-> MCBothChecks],
                 [reviewed |-> MCMembers, checks |-> <<{lib, app}>>]}

ServicesInit ==
  /\ Init /\ CompatibilityInit
  /\ \/ part = "review" /\ schedule = CHOOSE s \in MCSchedules : TRUE
     \/ part = "compatibility" /\ original = patch1

ReviewPart        == part = "review" /\ Next /\ UNCHANGED <<part, compatibilityVars>>
CompatibilityPart == part = "compatibility" /\ CompatibilityNext /\ UNCHANGED <<part, vars>>
RunnerPart(p)     == part = "compatibility" /\ ~At(p, "idle") /\ RunnerStep(p) /\ UNCHANGED <<part, vars>>

\* A review's steps are bounded by timeouts; a compatibility service that was called goes on.
ServicesSpec ==
  /\ ServicesInit /\ [][ReviewPart \/ CompatibilityPart]_<<part, vars, compatibilityVars>>
  /\ WF_<<part, vars, compatibilityVars>>(ReviewPart)
  /\ \A p \in MCRunners : WF_<<part, vars, compatibilityVars>>(RunnerPart(p))

\* Each service reaches its verdict, and keeps it.
VerdictsSettle ==
  /\ part = "review" => ReviewSettles
  /\ VerdictStands
  /\ ClaimedExecutionSettles
=============================================================================
