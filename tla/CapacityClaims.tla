--------------------------- MODULE CapacityClaims ---------------------------
(***************************************************************************)
(* What the organization capacity ledger promises of one dispatch          *)
(* identity, whatever claims it: an identity is claimed at most once, a    *)
(* claim ends at most once, and its end - released by the source workflow  *)
(* or recovered as ambiguous by an operator - is immutable evidence.       *)
(* OrganizationCapacity and JobLedger implement it.                        *)
(***************************************************************************)
CONSTANT Works           \* the (source_kind, source_id) identities

VARIABLE claim           \* claim[w]: where the life of w's claim stands

ClaimStates == {"none", "active", "released", "ambiguous"}

TypeOK == claim \in [Works -> ClaimStates]

Init == claim = [w \in Works |-> "none"]

Open(w) == claim[w] = "none" /\ claim' = [claim EXCEPT ![w] = "active"]

Release(w) == claim[w] = "active" /\ claim' = [claim EXCEPT ![w] = "released"]

\* One recovery batch takes several expired claims out of occupancy at once.
Recover == \E S \in SUBSET {w \in Works : claim[w] = "active"} :
             claim' = [w \in Works |-> IF w \in S THEN "ambiguous" ELSE claim[w]]

Next == \/ \E w \in Works : Open(w) \/ Release(w)
        \/ Recover

Spec == Init /\ [][Next]_claim
=============================================================================
