----------------------------- MODULE MCJobLedger -----------------------------
(***************************************************************************)
(* Instances of JobLedger for TLC.                                         *)
(***************************************************************************)
EXTENDS JobLedger

CONSTANTS r1, r2, m1

MCOneRun  == {r1}
MCRunAndMember == {r1, m1}
MCNoMembers == {}
MCMembers == {m1}
=============================================================================
