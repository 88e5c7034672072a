------------------------------- MODULE Intake -------------------------------
(***************************************************************************)
(* Conversational intake: a conversation whose brief is revised by one     *)
(* model call at a time, the snapshot that finalizes it, the independent   *)
(* triage of the snapshot, its admission as a ledger run, and the          *)
(* correction that starts a new conversation from a snapshot.              *)
(*                                                                         *)
(* Every store method is one immediate transaction.  A revision and a      *)
(* triage await their model between a claim and a settlement; everything   *)
(* else runs without an await, but the process may stop between the two    *)
(* databases' writes of an admission.  Idempotent replays return the row   *)
(* they find and are stutters.                                             *)
(***************************************************************************)
EXTENDS Naturals, Sequences, FiniteSets

CONSTANTS
  MaxConversations,  \* bound: conversations, corrections included
  MaxCreated,        \* bound: conversations that start from a seed
  MaxRevisions,      \* bound: revisions reserved
  MaxTriages,        \* bound: triages reserved
  TurnLimit,         \* turns a conversation may hold (100 in the code)
  CallSlots,         \* model calls the organization's capacity leaves to intake
  MaxPolicyEdits,    \* bound: times the repository's policy is edited
  MaxIntakeStops     \* bound: times the process stops and starts again

ASSUME IntakeAssumption ==
  /\ {MaxConversations, MaxCreated, MaxRevisions, MaxTriages} \subseteq Nat \ {0}
  /\ {TurnLimit, CallSlots} \subseteq Nat \ {0}
  /\ {MaxPolicyEdits, MaxIntakeStops} \subseteq Nat

VARIABLES
  conversation,  \* intake_conversations with their turns and their supersession
  revision,      \* intake_conversation_revisions
  snapshot,      \* intake_brief_snapshots, by conversation
  triage,        \* intake_snapshot_triages
  admission,     \* intake_snapshot_run_admissions, by triage
  runs,          \* the ledger's runs by idempotency key, in the order of their creation
  enrolled,      \* the repository's current contract; 0: not enrolled for intake
  asked,         \* executions that await their model, in memory
  lost,          \* executions a stopped process left behind
  edits, restarts

intakeVars == <<conversation, revision, snapshot, triage, admission, runs, enrolled, asked, lost,
                edits, restarts>>

Conversations == 1..MaxConversations
Revisions     == 1..MaxRevisions
Triages       == 1..MaxTriages
Contracts     == 0..2
Briefs        == 0..MaxRevisions     \* 0: the seed's brief; r: the brief revision r wrote

NoConversation == [status |-> "none", version |-> 0, turns |-> <<>>, brief |-> 0,
                   corrects |-> 0, retries |-> 0]
NoRevision  == [on |-> 0, base |-> 0, status |-> "none", calls |-> 0, claim |-> "none"]
NoSnapshot  == [made |-> FALSE, version |-> 0, turns |-> <<>>, brief |-> 0]
NoTriage    == [on |-> 0, status |-> "none", contract |-> 0, calls |-> 0, claim |-> "none"]
NoAdmission == [status |-> "none", run |-> 0]

IntakeInit ==
  /\ conversation = [c \in Conversations |-> NoConversation]
  /\ revision = [r \in Revisions |-> NoRevision]
  /\ snapshot = [c \in Conversations |-> NoSnapshot]
  /\ triage = [t \in Triages |-> NoTriage]
  /\ admission = [t \in Triages |-> NoAdmission]
  /\ runs = <<>> /\ enrolled = 1 /\ asked = {} /\ lost = {} /\ edits = 0 /\ restarts = 0

Fresh(table, id) ==
  /\ table[id].status = "none"
  /\ \A other \in DOMAIN table : other < id => table[other].status # "none"

FreeSlots ==
  CallSlots - Cardinality({r \in Revisions : revision[r].claim = "active"})
            - Cardinality({t \in Triages : triage[t].claim = "active"})

ContractEdited ==
  /\ edits < MaxPolicyEdits /\ edits' = edits + 1
  /\ \E p \in Contracts \ {enrolled} : enrolled' = p
  /\ UNCHANGED <<conversation, revision, snapshot, triage, admission, runs, asked, lost, restarts>>

IntakeStops ==
  /\ restarts < MaxIntakeStops /\ restarts' = restarts + 1
  /\ asked' = {} /\ lost' = lost \cup asked
  /\ UNCHANGED <<conversation, revision, snapshot, triage, admission, runs, enrolled, edits>>

(***************************************************************************)
(* Conversations                                                           *)
(***************************************************************************)
Create(c) ==
  /\ enrolled # 0 /\ Fresh(conversation, c) /\ c <= MaxCreated
  /\ conversation' = [conversation EXCEPT ![c] = [NoConversation EXCEPT !.status = "active",
                                                                        !.version = 1]]
  /\ UNCHANGED <<revision, snapshot, triage, admission, runs, enrolled, asked, lost, edits, restarts>>

NoActiveRevision(c) ==
  \A r \in Revisions : revision[r].on = c => revision[r].status \notin {"reserved", "running"}

\* The conversation with one more turn, its version and its brief moved on.
WithTurn(row, role, brief) ==
  [row EXCEPT !.turns = Append(@, [role |-> role, brief |-> brief]), !.version = @ + 1,
              !.brief = brief]

AppendTurn(c, role, brief) ==
  /\ conversation[c].status = "active" /\ NoActiveRevision(c)
  /\ Len(conversation[c].turns) < TurnLimit
  /\ conversation' = [conversation EXCEPT ![c] = WithTurn(@, role, brief)]
  /\ UNCHANGED <<revision, snapshot, triage, admission, runs, enrolled, asked, lost, edits, restarts>>

Cancel(c) ==
  /\ conversation[c].status = "active" /\ NoActiveRevision(c)
  /\ conversation' = [conversation EXCEPT ![c].status = "cancelled", ![c].version = @ + 1]
  /\ UNCHANGED <<revision, snapshot, triage, admission, runs, enrolled, asked, lost, edits, restarts>>

\* The snapshot keeps the version, the turns and the brief it was made from.
Finalize(c) ==
  /\ conversation[c].status = "active" /\ NoActiveRevision(c)
  /\ snapshot' = [snapshot EXCEPT ![c] = [made |-> TRUE, version |-> conversation[c].version,
                                          turns |-> conversation[c].turns,
                                          brief |-> conversation[c].brief]]
  /\ conversation' = [conversation EXCEPT ![c].status = "finalized", ![c].version = @ + 1]
  /\ UNCHANGED <<revision, triage, admission, runs, enrolled, asked, lost, edits, restarts>>

Corrections(c) == {d \in Conversations : conversation[d].corrects = c}
LiveCorrections(c) == {d \in Corrections(c) : conversation[d].status # "cancelled"}
HasAdmission(c) == \E t \in Triages : triage[t].on = c /\ admission[t].status # "none"

\* A new conversation from the frozen brief; it retries the last cancelled
\* correction of the same snapshot, if there was one.
Correct(c, d) ==
  /\ conversation[c].status = "finalized" /\ snapshot[c].made /\ enrolled # 0
  /\ ~HasAdmission(c) /\ LiveCorrections(c) = {} /\ Fresh(conversation, d)
  /\ \E prior \in Corrections(c) \cup {0} :
       /\ prior = 0 => Corrections(c) = {}
       /\ \A e \in Corrections(c) : conversation[e].retries # prior \/ prior = 0
       /\ conversation' = [conversation EXCEPT ![d] =
            [NoConversation EXCEPT !.status = "active", !.version = 1, !.brief = snapshot[c].brief,
                                   !.corrects = c, !.retries = prior]]
  /\ UNCHANGED <<revision, snapshot, triage, admission, runs, enrolled, asked, lost, edits, restarts>>

(***************************************************************************)
(* Revisions: one model call each                                          *)
(***************************************************************************)
\* The operator's turn is appended and the revision reserved.
ReserveRevision(r, c) ==
  /\ Fresh(revision, r) /\ conversation[c].status = "active" /\ NoActiveRevision(c)
  /\ Len(conversation[c].turns) + 2 <= TurnLimit
  /\ revision' = [revision EXCEPT ![r] = [NoRevision EXCEPT !.on = c, !.status = "reserved",
                                                            !.base = conversation[c].version]]
  /\ conversation' = [conversation EXCEPT ![c] = WithTurn(@, "operator", @.brief)]
  /\ UNCHANGED <<snapshot, triage, admission, runs, enrolled, asked, lost, edits, restarts>>

\* The conversation still stands where the reservation left it.
InContext(r) ==
  LET c == conversation[revision[r].on]
  IN  c.status = "active" /\ c.version = revision[r].base + 1

\* Refused capacity rolls the claim back and the revision stays reserved.
ClaimRevision(r) ==
  /\ revision[r].status = "reserved" /\ InContext(r) /\ FreeSlots > 0
  /\ revision' = [revision EXCEPT ![r].status = "running", ![r].calls = 1, ![r].claim = "active"]
  /\ asked' = asked \cup {<<"revision", r>>}
  /\ UNCHANGED <<conversation, snapshot, triage, admission, runs, enrolled, lost, edits, restarts>>

\* The assistant's turn and the settlement are one transaction; it throws when
\* the conversation has moved on, and the revision stays running.
SucceedRevision(r) ==
  /\ <<"revision", r>> \in asked /\ asked' = asked \ {<<"revision", r>>}
  /\ IF InContext(r)
       THEN /\ revision' = [revision EXCEPT ![r].status = "succeeded", ![r].claim = "released"]
            /\ conversation' = [conversation EXCEPT ![revision[r].on] = WithTurn(@, "assistant", r)]
       ELSE UNCHANGED <<revision, conversation>>
  /\ UNCHANGED <<snapshot, triage, admission, runs, enrolled, lost, edits, restarts>>

FailRevision(r) ==
  /\ <<"revision", r>> \in asked /\ asked' = asked \ {<<"revision", r>>}
  /\ revision' = [revision EXCEPT ![r].status = "failed", ![r].claim = "released"]
  /\ UNCHANGED <<conversation, snapshot, triage, admission, runs, enrolled, lost, edits, restarts>>

(***************************************************************************)
(* Triage of a snapshot                                                    *)
(***************************************************************************)
\* Only a triage that was blocked before its call gives way to another.
MayTriage(c) ==
  \A t \in Triages : triage[t].on = c => triage[t].status = "blocked" /\ triage[t].calls = 0

ReserveTriage(t, c) ==
  /\ Fresh(triage, t) /\ snapshot[c].made /\ enrolled # 0 /\ MayTriage(c)
  /\ triage' = [triage EXCEPT ![t] = [NoTriage EXCEPT !.on = c, !.status = "reserved",
                                                      !.contract = enrolled]]
  /\ UNCHANGED <<conversation, revision, snapshot, admission, runs, enrolled, asked, lost, edits, restarts>>

\* A contract that changed since the reservation blocks the triage unused.
ClaimTriage(t) ==
  /\ triage[t].status = "reserved"
  /\ \/ /\ enrolled # triage[t].contract
        /\ triage' = [triage EXCEPT ![t].status = "blocked"] /\ UNCHANGED asked
     \/ /\ enrolled = triage[t].contract /\ FreeSlots > 0
        /\ triage' = [triage EXCEPT ![t].status = "running", ![t].calls = 1, ![t].claim = "active"]
        /\ asked' = asked \cup {<<"triage", t>>}
  /\ UNCHANGED <<conversation, revision, snapshot, admission, runs, enrolled, lost, edits, restarts>>

SettleTriage(t) ==
  /\ <<"triage", t>> \in asked /\ asked' = asked \ {<<"triage", t>>}
  /\ \E s \in {"succeeded", "failed"} :
       triage' = [triage EXCEPT ![t].status = s, ![t].claim = "released"]
  /\ UNCHANGED <<conversation, revision, snapshot, admission, runs, enrolled, lost, edits, restarts>>

(***************************************************************************)
(* Admission as a run                                                      *)
(***************************************************************************)
\* Fault: a live correction does not stop the admission.
ReserveBesideCorrection(t) ==
  /\ triage[t].status = "succeeded" /\ admission[t].status = "none"
  /\ admission' = [admission EXCEPT ![t].status = "reserved"]
  /\ UNCHANGED <<conversation, revision, snapshot, triage, runs, enrolled, asked, lost, edits, restarts>>

ReserveAdmission(t) ==
  /\ triage[t].status = "succeeded" /\ admission[t].status = "none"
  /\ LiveCorrections(triage[t].on) = {}
  /\ admission' = [admission EXCEPT ![t].status = "reserved"]
  /\ UNCHANGED <<conversation, revision, snapshot, triage, runs, enrolled, asked, lost, edits, restarts>>

RunsOf(t) == {k \in DOMAIN runs : runs[k].key = t}

\* The ledger's admission: the current contract must be the expected one, and
\* the key leads back to the run it already created.
LedgerAdmits(t) ==
  /\ enrolled = triage[t].contract
  /\ runs' = IF RunsOf(t) # {} THEN runs ELSE Append(runs, [key |-> t, contract |-> enrolled])

Admit(t) ==
  /\ admission[t].status = "reserved" /\ LedgerAdmits(t)
  /\ \E k \in DOMAIN runs' :
       /\ runs'[k].key = t
       /\ admission' = [admission EXCEPT ![t] = [status |-> "succeeded", run |-> k]]
  /\ UNCHANGED <<conversation, revision, snapshot, triage, enrolled, asked, lost, edits, restarts>>

\* The process stops between the ledger's run and its settlement.
AdmitAndStop(t) ==
  /\ admission[t].status = "reserved" /\ LedgerAdmits(t)
  /\ restarts < MaxIntakeStops /\ restarts' = restarts + 1 /\ asked' = {} /\ lost' = lost \cup asked
  /\ UNCHANGED <<conversation, revision, snapshot, triage, admission, enrolled, edits>>

IntakeNext ==
  \/ ContractEdited \/ IntakeStops
  \/ \E c \in Conversations :
       \/ Create(c) \/ Cancel(c) \/ Finalize(c)
       \/ \E d \in Conversations : Correct(c, d)
       \/ AppendTurn(c, "operator", 0)
       \/ \E r \in Revisions : ReserveRevision(r, c)
       \/ \E t \in Triages : ReserveTriage(t, c)
  \/ \E r \in Revisions : ClaimRevision(r) \/ SucceedRevision(r) \/ FailRevision(r)
  \/ \E t \in Triages : \/ ClaimTriage(t) \/ SettleTriage(t)
                        \/ ReserveAdmission(t) \/ Admit(t) \/ AdmitAndStop(t)

IntakeSpec == IntakeInit /\ [][IntakeNext]_intakeVars

(***************************************************************************)
(* Properties                                                              *)
(***************************************************************************)
Call == [calls : {0, 1}, claim : {"none", "active", "released"}]

\* Rows are of the kinds the schemas allow.
IntakeTypeOK ==
  /\ \A c \in Conversations :
       /\ conversation[c].status \in {"none", "active", "cancelled", "finalized"}
       /\ conversation[c].brief \in Briefs /\ Len(conversation[c].turns) <= TurnLimit
       /\ {conversation[c].corrects, conversation[c].retries} \subseteq 0..(c - 1)
  /\ \A r \in Revisions :
       /\ revision[r].status \in {"none", "reserved", "running", "succeeded", "failed"}
       /\ revision[r].on \in 0..MaxConversations
       /\ [calls |-> revision[r].calls, claim |-> revision[r].claim] \in Call
  /\ \A t \in Triages :
       /\ triage[t].status \in {"none", "reserved", "running", "succeeded", "blocked", "failed"}
       /\ triage[t].contract \in Contracts /\ triage[t].on \in 0..MaxConversations
       /\ [calls |-> triage[t].calls, claim |-> triage[t].claim] \in Call
       /\ admission[t].status \in {"none", "reserved", "succeeded"} /\ admission[t].run \in 0..Len(runs)
  /\ enrolled \in Contracts
  /\ asked \cup lost \subseteq ({"revision"} \X Revisions) \cup ({"triage"} \X Triages)

\* What every read of a conversation re-derives holds after every sequence of
\* legal calls: the version counts the turns and the end, the brief is that of
\* the last turn, a snapshot is exactly the turns and the brief before the end,
\* and each revision finds its operator's turn at its base version and, once it
\* succeeded, its own assistant turn right after.  Otherwise the whole
\* conversation becomes unreadable.
ReadsVerify ==
  /\ \A c \in Conversations :
       LET row == conversation[c]
           end == IF row.status \in {"cancelled", "finalized"} THEN 1 ELSE 0
       IN  row.status # "none" =>
             /\ row.version = Len(row.turns) + 1 + end
             /\ row.turns # <<>> => row.turns[Len(row.turns)].brief = row.brief
             /\ snapshot[c].made <=> row.status = "finalized"
             /\ snapshot[c].made => snapshot[c].version + 1 = row.version
             /\ snapshot[c].made => snapshot[c].turns = row.turns /\ snapshot[c].brief = row.brief
  /\ \A r \in Revisions : revision[r].on # 0 =>
       LET row == conversation[revision[r].on]  b == revision[r].base
       IN  /\ b <= Len(row.turns) /\ row.turns[b].role = "operator"
           /\ revision[r].status = "succeeded" =>
                b < Len(row.turns) /\ row.turns[b + 1] = [role |-> "assistant", brief |-> r]

\* A snapshot leads to one piece of work: to a run or to one correction that is
\* not cancelled, whichever came first, and the corrections of a snapshot form
\* one chain of retries.
NoCompetingWork ==
  \A c \in Conversations :
    /\ Cardinality(LiveCorrections(c)) + (IF HasAdmission(c) THEN 1 ELSE 0) <= 1
    /\ \A d, e \in Corrections(c) : conversation[d].retries = conversation[e].retries => d = e

\* However often triage is requested, blocked and requested again, a snapshot is
\* shown to the triage model once.
OneTriageCall ==
  \A c \in Conversations :
    Cardinality({t \in Triages : triage[t].on = c /\ triage[t].calls = 1}) <= 1

\* An admission creates one run across stops, under the contract its triage was
\* made for, and it is the run the settled admission names.
OneRunPerAdmission ==
  \A t \in Triages :
    /\ Cardinality(RunsOf(t)) <= 1
    /\ \A k \in RunsOf(t) : runs[k].contract = triage[t].contract
    /\ admission[t].status = "succeeded" => RunsOf(t) = {admission[t].run}

\* A call that was claimed is still awaited, or its process stopped: no answer
\* finds its conversation finalized, cancelled or moved on, and its capacity is
\* held exactly as long as the row runs.
RunningCallsAreAwaited ==
  /\ \A r \in Revisions :
       /\ revision[r].status = "running" <=> revision[r].claim = "active"
       /\ revision[r].status = "running" <=> <<"revision", r>> \in asked \cup lost
  /\ \A t \in Triages :
       /\ triage[t].status = "running" <=> triage[t].claim = "active"
       /\ triage[t].status = "running" <=> <<"triage", t>> \in asked \cup lost

\* What a snapshot was made from never changes afterwards: the finalized
\* conversation's turns and brief stand, and so does the snapshot.
FinalizedEvidenceStands ==
  [][\A c \in Conversations : snapshot[c].made =>
       /\ snapshot'[c] = snapshot[c]
       /\ conversation'[c] = conversation[c]]_intakeVars

\* A conversation stays readable, is triaged once and leads to one piece of work.
IntakeIsSound ==
  /\ IntakeTypeOK
  /\ ReadsVerify
  /\ NoCompetingWork
  /\ OneTriageCall
  /\ OneRunPerAdmission
  /\ RunningCallsAreAwaited
=============================================================================
