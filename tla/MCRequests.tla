------------------------------ MODULE MCRequests ------------------------------
(***************************************************************************)
(* Instances, for TLC, of the components that share no state with each     *)
(* other: a behaviour follows one of them and leaves the rest as they are. *)
(***************************************************************************)
EXTENDS PublicationRebase, Intake, IssueActions, WebhookDeliveries, RepositoryEnrollment,
        IntegrationAssembly, OperatorSessions, RunActivity, CredentialFile, DraftExecution

VARIABLE part   \* the component a behaviour follows

\* IssueActions
MCRoutes == <<"ready", "needs-info", "ignore">>

\* WebhookDeliveries: two publications of one commit, one of them merged on its own, and
\* a delivery that matches more than it may.
MCPulls == <<"q1", "q2", "q3">>
MCNames(d) == CASE d = "checks" -> {"q1", "q2"} [] d = "merge" -> {"q2"} [] OTHER -> {"q1", "q2", "q3"}

\* RepositoryEnrollment
MCFirstNamed == [r \in {"app", "site"} |-> IF r = "app" THEN "i1" ELSE "i2"]

\* IntegrationAssembly: "integrate" waits for "api" and "docs"; or for "api" and "other" through "docs",
\* which is declared before them.
MCPlans == {
  [integrate |-> {"docs", "api"}, docs |-> {}, api |-> {}, other |-> {}],
  [integrate |-> {"docs"}, docs |-> {"api", "other"}, api |-> {}, other |-> {}]}

MCTaskOrder == <<"integrate", "docs", "api", "other">>
MCScope == [integrate |-> {"a", "b"}, docs |-> {"b"}, api |-> {"a", "x"}, other |-> {"b"}]

Patch(t, base, paths, writes) == [task |-> t, base |-> base, paths |-> paths, writes |-> writes]
MCPatches == {Patch("api", "base", <<"a">>, {"a"}), Patch("api", "base", <<>>, {}),
              Patch("api", "old", <<"a">>, {"a"}), Patch("api", "base", <<"a", "a">>, {"a"}),
              Patch("api", "base", <<"x">>, {"x"}),
              Patch("docs", "base", <<"b">>, {"b"}), Patch("docs", "base", <<>>, {}),
              Patch("docs", "base", <<"a">>, {"a"}),
              Patch("docs", "base", <<"b">>, {"a", "b"}),
              Patch("other", "base", <<"b">>, {"b"})}

MCOf(t) == {p \in MCPatches : p.task = t}
MCInOrder == {<<a, d>> : a \in MCOf("api"), d \in MCOf("docs")}

\* One patch, the same task twice, one patch of each of two tasks, and all three tasks.
MCSubmissions ==
  {<<p>> : p \in MCPatches} \cup {<<p, p>> : p \in MCPatches}
  \cup MCInOrder
  \cup {<<d, o, Patch("api", "base", <<"a">>, {"a"})>> : d \in MCOf("docs"), o \in MCOf("other")}

RequestsInit ==
  /\ part \in {"rebase", "intake", "issues", "webhooks", "enrollment",
               "assembly", "sessions", "activity", "credentials", "execution"}
  /\ RebaseInit /\ IntakeInit /\ IssueInit /\ WebhookInit /\ EnrollmentInit
  /\ AssemblyInit /\ SessionInit /\ ActivityInit /\ CredentialInit /\ ExecutionInit
  \* The components that start in several ways start in one of them elsewhere.
  /\ part = "enrollment" \/ \A i \in Ids : file[i] = CHOOSE p \in Policies : TRUE
  /\ part = "assembly" \/ deps = CHOOSE p \in MCPlans : TRUE
  /\ part = "execution" \/ ~claimed

RequestsNext ==
  /\ UNCHANGED part
  /\ part = "rebase" \/ UNCHANGED rebaseVars
  /\ part = "intake" \/ UNCHANGED intakeVars
  /\ part = "issues" \/ UNCHANGED issueVars
  /\ part = "webhooks" \/ UNCHANGED webhookVars
  /\ part = "enrollment" \/ UNCHANGED enrollmentVars
  /\ part = "assembly" \/ UNCHANGED assemblyVars
  /\ part = "sessions" \/ UNCHANGED sessionVars
  /\ part = "activity" \/ UNCHANGED activityVars
  /\ part = "credentials" \/ UNCHANGED credentialVars
  /\ part = "execution" \/ UNCHANGED executionVars
  /\ \/ part = "rebase" /\ RebaseNext
     \/ part = "intake" /\ IntakeNext
     \/ part = "issues" /\ IssueNext
     \/ part = "webhooks" /\ WebhookNext
     \/ part = "enrollment" /\ EnrollmentNext
     \/ part = "assembly" /\ AssemblyNext
     \/ part = "sessions" /\ SessionNext
     \/ part = "activity" /\ ActivityNext
     \/ part = "credentials" /\ CredentialNext
     \/ part = "execution" /\ ExecutionNext

RequestsSpec ==
  RequestsInit /\ [][RequestsNext]_<<part, rebaseVars, intakeVars, issueVars, webhookVars, enrollmentVars,
                                     assemblyVars, sessionVars, activityVars, credentialVars, executionVars>>

(***************************************************************************)
(* Properties: what each component promises, in the behaviours that follow *)
(* it (elsewhere its variables are as they were).                          *)
(***************************************************************************)
\* A draft whose base moved is replayed, reviewed afresh and recovered once.
SoundRecovery == part = "rebase" => RecoveryIsSound

\* A conversation is admitted once, on what its last revision said.
SoundIntake == part = "intake" => IntakeIsSound

\* Every comment on an issue is one the ledger of actions accounts for.
AccountedComments == part = "issues" => CommentsAreAccounted

\* A delivery that counts as processed was applied to all that it names.
AppliedDeliveries == part = "webhooks" => DeliveriesAreApplied

\* The enrolled contract is one that was observed, of the repository it is named for.
SoundEnrollment == part = "enrollment" => EnrollmentIsSound

\* A resolution applies whole patches and changes the conflict alone.
TrustedAssembly == part = "assembly" => AssemblyIsTrusted

\* A session stands for one login that GitHub confirmed.
EarnedSessions == part = "sessions" => SessionsAreEarned

\* What a process observed reaches the log once, in its order.
CompleteActivity == part = "activity" => ActivityIsComplete

\* The credential on disk is the newest that was issued, whoever refreshed it.
KeptCredentials == part = "credentials" => CredentialsAreKept

\* A draft is what the gates ran over, within its claim.
TrustedDraft == part = "execution" => DraftIsTrusted

\* Verdicts, snapshots, payloads and successes, once recorded, are not undone by what
\* comes late, and a call is spent only on what was prepared for it.
RecordsAreFinal ==
  /\ RecoveryVerdictsStand /\ ResolutionWritesOffNothing
  /\ FinalizedEvidenceStands
  /\ LabelIsExclusive /\ SuccessStandsUnlessOvertaken
  /\ PayloadStands
  /\ CallSeesTheConflict /\ CallNeedsPreparation
=============================================================================
