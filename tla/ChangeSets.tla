----------------------------- MODULE ChangeSets -----------------------------
(***************************************************************************)
(* The multi-repository work of one control plane: the members of a change *)
(* set until their attempts are settled (MemberExecution, with ChangeSet)  *)
(* and the rollout of the drafts of an authorized one                      *)
(* (LinkedPublication).  The two write different tables and neither reads  *)
(* what the other writes, so they interleave freely.                       *)
(***************************************************************************)
EXTENDS MemberExecution, LinkedPublication

ChangeSetsInit == MemberInit /\ LinkedInit

ChangeSetsNext ==
  \/ MemberNext /\ UNCHANGED linkedVars
  \/ LinkedNext /\ UNCHANGED allVars

ChangeSetsSpec == ChangeSetsInit /\ [][ChangeSetsNext]_<<allVars, linkedVars>>

\* Evidence, terminal states and one-use calls, once recorded, are not written again, and
\* what is prepared or planned is what runs.
ChangeSetsStand ==
  /\ ReservedUnderPreparedPolicy
  /\ EvidenceStands
  /\ MemberCallIsOneUse
  /\ RetryStartsFromItsPlan
  /\ TerminalStands
=============================================================================
