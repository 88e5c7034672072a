----------------------------- MODULE DraftReview -----------------------------
(***************************************************************************)
(* One adversarial review, ReviewService.#review: an independent reviewer, *)
(* at most one remediation round, the repository's gates, trusted evidence *)
(* and, after a remediation, a final reviewer.  Each provider call and each *)
(* command is one step.  What is kept of the data is which patch the       *)
(* worktree holds, which patch each party saw, and the verdicts.           *)
(***************************************************************************)
EXTENDS Naturals

CONSTANTS
  Patches,               \* patches the worktree can hold
  EmptyPatch,            \* the one with no changed path
  GateCount,             \* required gates of the policy, run in order
  Rewriting,             \* the gates whose command may rewrite the worktree
  MaxRemediationRounds   \* reviewPolicy.maxRemediationRounds

ASSUME ReviewAssumption ==
  /\ EmptyPatch \in Patches
  /\ GateCount \in Nat /\ Rewriting \subseteq 1..GateCount
  /\ MaxRemediationRounds \in Nat

VARIABLES
  step,          \* where #review stands
  worktree,      \* the patch in the preserved worktree
  original,      \* the implementation's draft.patch, digest-checked
  verdict,       \* the last reviewer's verdict
  seen,          \* the patch that reviewer was shown
  remediated,    \* a remediation round ran
  passed,        \* gates passed so far, and the patches they passed on
  evidence,      \* the patch of the recomputed evidence
  status,        \* reviews.status, once settled
  calls          \* provider calls spent

vars == <<step, worktree, original, verdict, seen, remediated, passed, evidence, status, calls>>

Verdicts == {"approve", "changes_requested", "reject"}
Steps    == {"initial", "remediate", "gates", "final", "settled"}
Unknown  == "unknown"
Spent    == [reviewer |-> 0, remediator |-> 0]

Settle(s) == step' = "settled" /\ status' = s

\* The initial reviewer sees the stored implementation patch.
InitialVerdict(v) ==
  /\ step = "initial"
  /\ verdict' = v /\ seen' = original
  /\ calls' = [calls EXCEPT !.reviewer = @ + 1]
  /\ CASE v = "reject" -> Settle("blocked")
       [] v = "changes_requested" /\ MaxRemediationRounds < 1 -> Settle("blocked")
       [] v = "changes_requested" /\ MaxRemediationRounds >= 1 ->
            step' = "remediate" /\ UNCHANGED status
       [] v = "approve" -> step' = "gates" /\ UNCHANGED status
  /\ UNCHANGED <<worktree, original, remediated, passed, evidence>>

\* The remediation worker edits the worktree, once.
Remediate(p) ==
  /\ step = "remediate"
  /\ worktree' = p
  /\ remediated' = TRUE
  /\ calls' = [calls EXCEPT !.remediator = @ + 1]
  /\ step' = "gates"
  /\ UNCHANGED <<original, verdict, seen, passed, evidence, status>>

\* The next required gate passes; a rewriting gate leaves some patch behind.
GatePasses(p) ==
  /\ step = "gates" /\ passed < GateCount
  /\ p = worktree \/ passed + 1 \in Rewriting
  /\ worktree' = p
  /\ passed' = passed + 1
  /\ UNCHANGED <<step, original, verdict, seen, remediated, evidence, status, calls>>

\* A gate fails or times out: the remaining ones do not run, and the review is
\* blocked on the evidence collected then.
GateFails(p) ==
  /\ step = "gates" /\ passed < GateCount
  /\ p = worktree \/ passed + 1 \in Rewriting
  /\ worktree' = p
  /\ evidence' = p
  /\ Settle("blocked")
  /\ UNCHANGED <<original, verdict, seen, remediated, passed, calls>>

\* Fault: the outcome of the gates is not looked at.
CollectEvidenceUngated(withinPolicy) ==
  /\ step = "gates"
  /\ evidence' = worktree
  /\ CASE worktree = EmptyPatch \/ ~withinPolicy -> Settle("blocked")
       [] OTHER -> IF remediated THEN step' = "final" /\ UNCHANGED status
                   ELSE Settle(IF verdict = "approve" THEN "approved" ELSE "blocked")
  /\ UNCHANGED <<worktree, original, verdict, seen, remediated, passed, calls>>

\* Every gate passed: the patch is recomputed from the worktree.  An empty one,
\* or one outside the policy's limits, blocks; a remediated one goes to the final
\* reviewer; otherwise the initial verdict settles the review.
CollectEvidence(withinPolicy) ==
  /\ step = "gates" /\ passed = GateCount
  /\ evidence' = worktree
  /\ CASE worktree = EmptyPatch \/ ~withinPolicy -> Settle("blocked")
       [] OTHER -> IF remediated THEN step' = "final" /\ UNCHANGED status
                   ELSE Settle(IF verdict = "approve" THEN "approved" ELSE "blocked")
  /\ UNCHANGED <<worktree, original, verdict, seen, remediated, passed, calls>>

\* The final reviewer sees the patch of the new evidence.
FinalVerdict(v) ==
  /\ step = "final"
  /\ verdict' = v /\ seen' = evidence
  /\ calls' = [calls EXCEPT !.reviewer = @ + 1]
  /\ Settle(IF v = "approve" THEN "approved" ELSE "blocked")
  /\ UNCHANGED <<worktree, original, remediated, passed, evidence>>

\* Any step throws: a timeout, a malformed answer, an unreadable artifact.
Fail ==
  /\ step # "settled"
  /\ Settle("failed")
  /\ UNCHANGED <<worktree, original, verdict, seen, remediated, passed, evidence, calls>>

Init ==
  /\ step = "initial"
  /\ original \in Patches \ {EmptyPatch} /\ worktree = original
  /\ verdict = Unknown /\ seen = Unknown /\ evidence = Unknown
  /\ remediated = FALSE /\ passed = 0
  /\ status = "running"
  /\ calls = Spent

Next ==
  \/ \E v \in Verdicts : InitialVerdict(v) \/ FinalVerdict(v)
  \/ \E p \in Patches : Remediate(p) \/ GatePasses(p) \/ GateFails(p)
  \/ \E withinPolicy \in BOOLEAN : CollectEvidence(withinPolicy)
  \/ Fail

\* Every step is bounded by a timeout.
Spec == Init /\ [][Next]_vars /\ WF_vars(Next)

(***************************************************************************)
(* Properties                                                              *)
(***************************************************************************)
TypeOK ==
  /\ step \in Steps
  /\ worktree \in Patches /\ original \in Patches
  /\ verdict \in Verdicts \cup {Unknown}
  /\ {seen, evidence} \subseteq Patches \cup {Unknown}
  /\ remediated \in BOOLEAN /\ passed \in 0..GateCount
  /\ status \in {"running", "approved", "blocked", "failed"}
  /\ calls \in [reviewer : 0..2, remediator : 0..1]

\* An approval rests on complete verification of a non-empty patch that is still
\* in the worktree, and on a reviewer who approved after any remediation.
ApprovalIsVerified ==
  status = "approved" =>
    /\ passed = GateCount
    /\ evidence = worktree /\ evidence # EmptyPatch
    /\ verdict = "approve"
    /\ remediated => calls.reviewer = 2

\* "Gate or policy failure blocks before spending a second reviewer call"
\* (docs/architecture.md:183): two reviewer calls need a remediation round whose
\* patch passed every gate.
FinalReviewIsEarned ==
  calls.reviewer = 2 => remediated /\ passed = GateCount /\ evidence # EmptyPatch

\* "A patch digest binding an approval to exact bytes" (docs/operator-board.md:142):
\* after a remediation the approving reviewer saw the approved bytes; without one, the
\* draft as it came, and only a gate that rewrites the worktree sets the two apart.
ApprovedPatchWasReviewed ==
  status = "approved" =>
    /\ remediated => seen = evidence
    /\ ~remediated => seen = original
    /\ Rewriting = {} => seen = evidence

\* An approval is earned: by the whole sequence, on the bytes that are approved.
ApprovalIsEarned ==
  /\ TypeOK
  /\ ApprovalIsVerified
  /\ FinalReviewIsEarned
  /\ ApprovedPatchWasReviewed

\* Every review settles.
ReviewSettles == <>(step = "settled")
=============================================================================
