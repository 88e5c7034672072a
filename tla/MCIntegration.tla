---------------------------- MODULE MCIntegration ----------------------------
(* Instances of IntegrationConflict and Integration for TLC. *)
EXTENDS Integration, TLC

CONSTANTS a1, a2, q1, q2, c1, r1, r2

MCAttempts   == {a1, a2}
MCPromotions == {q1, q2}
MCOneCaller  == {c1}
MCRequests   == {r1, r2}
MCBothPolicies == {"allowed", "denied"}

MCSymmetry == Permutations(Attempts) \cup Permutations(Promotions)
              \cup Permutations(Requests)
=============================================================================
