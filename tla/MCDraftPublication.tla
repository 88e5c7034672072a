-------------------------- MODULE MCDraftPublication --------------------------
(* Instances of DraftPublication for TLC. *)
EXTENDS DraftPublication, TLC

CONSTANTS e1, e2, f1, f2

MCOneExecutor  == {e1}
MCTwoExecutors == {e1, e2}
MCTwoRefreshers == {f1, f2}
MCNoRefresher  == {}
MCNobody       == {}
MCGitHub       == {"pull", "branch", "workspace"}
MCPulls        == {"pull"}
MCFollowed     == {"pull", "archive", "policy", "default branch"}

MCSymmetry == Permutations({e1, e2}) \cup Permutations({f1, f2})
=============================================================================
