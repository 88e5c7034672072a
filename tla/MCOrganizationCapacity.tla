----------------------- MODULE MCOrganizationCapacity -----------------------
(***************************************************************************)
(* Instances of OrganizationCapacity for TLC: one execution, which holds a *)
(* Codex slot, and one review, which holds a slot of each provider.        *)
(***************************************************************************)
EXTENDS OrganizationCapacity, TLC

CONSTANTS execution, review, k1, k2

MCWorks == {execution, review}
MCBatchKeys == {k1, k2}

Calls(codex, copilot) == [openaiCodex |-> codex, githubCopilot |-> copilot]

MCDemand == [w \in MCWorks |-> IF w = review THEN Calls(1, 1) ELSE Calls(1, 0)]

\* Policies that leave room for one workflow, for one Codex call, and for both works.
MCPolicies == {[workflows |-> 1, calls |-> Calls(2, 1)],
               [workflows |-> 2, calls |-> Calls(1, 1)],
               [workflows |-> 2, calls |-> Calls(2, 1)]}

\* Every lifecycle is one provider call, half as long as the lease.
MCOneCall == [w \in MCWorks |-> 1]

\* Recovery keys are interchangeable.
MCSymmetry == Permutations(MCBatchKeys)
=============================================================================
