----------------------------- MODULE MCChangeSets -----------------------------
(***************************************************************************)
(* Instance of ChangeSets for TLC: the members' execution and, past the    *)
(* publication barrier, the rollout of their drafts.  The two share no     *)
(* state, so that a behaviour follows one part and leaves the other as it  *)
(* is: every step of it is a step of ChangeSets.                           *)
(***************************************************************************)
EXTENDS ChangeSets, TLC

CONSTANTS lib, app, k1, c1, c2, open, unreviewed, withdrawn

VARIABLE part   \* the part a behaviour follows

MCRepos        == {lib, app}
MCOrder        == <<lib, app>>
MCKeys         == {k1}
MCCallers      == {c1, c2}

\* "app" waits for "lib", or for nothing.
MCPlans        == {lib :> {} @@ app :> {lib}, lib :> {} @@ app :> {}}

\* Contracts with a review, without one, and one that lists the other repository no more.
MCPolicies     == {open, unreviewed, withdrawn}
MCCoordinating == {open, unreviewed}
MCReviewing    == {open}

MCSymmetry     == Permutations({c1, c2})

MCInit ==
  /\ ChangeSetsInit
  /\ \/ part = "members" /\ policy[app] = open
     \/ part = "rollout" /\ policy = [r \in MCRepos |-> open] /\ \A r \in MCRepos : needs[r] = {}

MCNext ==
  /\ UNCHANGED part
  /\ \/ part = "members" /\ MemberNext /\ UNCHANGED linkedVars
     \/ part = "rollout" /\ LinkedNext /\ UNCHANGED allVars

MCSpec == MCInit /\ [][MCNext]_<<part, allVars, linkedVars>>
=============================================================================
