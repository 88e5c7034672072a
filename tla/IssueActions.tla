---------------------------- MODULE IssueActions ----------------------------
(***************************************************************************)
(* The outbox of GitHub issue actions: a comment carried by a hidden       *)
(* marker, or a triage label that replaces the other route labels.  An     *)
(* execution claims the row for the length of a lease, makes its requests  *)
(* to GitHub one after another, and settles the row whatever became of it  *)
(* meanwhile.  All actions of the model are about one issue.               *)
(***************************************************************************)
EXTENDS Naturals, Sequences, FiniteSets

CONSTANTS
  Comments,         \* actions that post a comment
  Labels,           \* actions that set a label, named by the label they set
  Routes,           \* the route labels, in the order of routeLabels
  MaxExecutions,    \* bound: executions in flight at once
  MaxAdmitted,      \* bound: actions admitted
  MaxClaims,        \* bound: executions, over all actions
  MaxPolicyFlips,   \* bound: times the write policy is switched
  MaxActionStops    \* bound: times the process stops and starts again

Actions == Comments \cup Labels

ASSUME IssueAssumption ==
  /\ Comments \cap Labels = {}
  /\ Labels \subseteq {Routes[i] : i \in DOMAIN Routes}
  /\ {MaxExecutions, MaxAdmitted, MaxClaims} \subseteq Nat \ {0}
  /\ {MaxPolicyFlips, MaxActionStops} \subseteq Nat /\ "none" \notin Actions

VARIABLES
  action,       \* github_issue_actions
  executor,     \* executor[p]: [on, step, rest, alone]; rest are the labels still to delete,
                \* alone whether no other execution ran beside it
  writable,     \* the repository's policy allows GitHub writes
  posted,       \* posted[a]: comments with the marker of a, at GitHub
  labels,       \* the issue's route labels, at GitHub
  expired,      \* expired[a]: leases that ended under an execution of a
  interrupted,  \* interrupted[a]: policy blocks written while a was running
  claims,       \* attempt_count, added up over the actions
  flips, crashes

issueVars == <<action, executor, writable, posted, labels, expired, interrupted, claims, flips, crashes>>

Executors == 1..MaxExecutions

RouteLabels == {Routes[i] : i \in DOMAIN Routes}

Nowhere == [on |-> "none", step |-> "idle", rest |-> {}, alone |-> TRUE]

IssueInit ==
  /\ action = [a \in Actions |-> [status |-> "none", lease |-> "none"]]
  /\ executor = [p \in Executors |-> Nowhere]
  /\ writable = TRUE /\ posted = [a \in Comments |-> 0] /\ labels = {}
  /\ expired = [a \in Comments |-> 0] /\ interrupted = [a \in Comments |-> 0]
  /\ claims = 0 /\ flips = 0 /\ crashes = 0

PolicyFlips ==
  /\ flips < MaxPolicyFlips /\ flips' = flips + 1 /\ writable' = ~writable
  /\ UNCHANGED <<action, executor, posted, labels, expired, interrupted, claims, crashes>>

ExecutorsStop ==
  /\ crashes < MaxActionStops /\ crashes' = crashes + 1
  /\ executor' = [p \in Executors |-> Nowhere]
  /\ UNCHANGED <<action, writable, posted, labels, expired, interrupted, claims, flips>>

AdmitAction(a) ==
  /\ action[a].status = "none"
  /\ Cardinality({b \in Actions : action[b].status # "none"}) < MaxAdmitted
  /\ action' = [action EXCEPT ![a].status = IF writable THEN "pending" ELSE "blocked"]
  /\ UNCHANGED <<executor, writable, posted, labels, expired, interrupted, claims, flips, crashes>>

LeaseEnds(a) ==
  /\ action[a].lease = "held"
  /\ action' = [action EXCEPT ![a].lease = "ended"]
  /\ expired' = [c \in Comments |-> IF c = a THEN expired[c] + 1 ELSE expired[c]]
  /\ UNCHANGED <<executor, writable, posted, labels, interrupted, claims, flips, crashes>>

\* An execution under a policy without writes blocks the row, running or not;
\* the lease stays in the row and nothing reads it there.
BlockByPolicy(a) ==
  /\ action[a].status \notin {"none", "succeeded"} /\ ~writable
  /\ action' = [action EXCEPT ![a].status = "blocked"]
  /\ interrupted' = [c \in Comments |->
       IF c = a /\ action[a].status = "running" THEN interrupted[c] + 1 ELSE interrupted[c]]
  /\ UNCHANGED <<executor, writable, posted, labels, expired, claims, flips, crashes>>

Claimable(a) ==
  \/ action[a].status \in {"pending", "failed", "blocked"}
  \/ action[a].status = "running" /\ action[a].lease = "ended"

\* Fault: a comment is posted without looking for its marker.
PostAtOnce(a) == IF a \in Comments THEN "post" ELSE "add"

FirstStep(a) == IF a \in Comments THEN "find" ELSE "add"

ClaimAction(p, a) ==
  /\ executor[p].on = "none" /\ \A q \in 1..(p - 1) : executor[q].on # "none"
  /\ writable /\ Claimable(a)
  /\ claims < MaxClaims /\ claims' = claims + 1
  /\ action' = [action EXCEPT ![a] = [status |-> "running", lease |-> "held"]]
  /\ LET busy == {q \in Executors : executor[q].on # "none"} IN
       executor' = [q \in Executors |->
         IF q = p THEN [on |-> a, step |-> FirstStep(a), rest |-> {}, alone |-> busy = {}]
         ELSE [executor[q] EXCEPT !.alone = @ /\ q \notin busy]]
  /\ UNCHANGED <<writable, posted, labels, expired, interrupted, flips, crashes>>

\* One request to GitHub takes effect: the marker is looked for, the comment
\* posted, the label added, the next other label deleted.
FindComment(p) ==
  /\ executor[p].step = "find"
  /\ executor' = [executor EXCEPT ![p].step = IF posted[executor[p].on] > 0 THEN "done" ELSE "post"]
  /\ UNCHANGED <<action, writable, posted, labels, expired, interrupted, claims, flips, crashes>>

PostComment(p) ==
  /\ executor[p].step = "post" /\ executor' = [executor EXCEPT ![p].step = "done"]
  /\ posted' = [posted EXCEPT ![executor[p].on] = @ + 1]
  /\ UNCHANGED <<action, writable, labels, expired, interrupted, claims, flips, crashes>>

AddLabel(p) ==
  /\ executor[p].step = "add" /\ labels' = labels \cup {executor[p].on}
  /\ executor' = [executor EXCEPT ![p].step = "remove",
       ![p].rest = RouteLabels \ {executor[p].on}]
  /\ UNCHANGED <<action, writable, posted, expired, interrupted, claims, flips, crashes>>

RemoveLabel(p) ==
  /\ executor[p].step = "remove"
  /\ \E i \in DOMAIN Routes :
       /\ Routes[i] \in executor[p].rest /\ \A j \in DOMAIN Routes : j < i => Routes[j] \notin executor[p].rest
       /\ labels' = labels \ {Routes[i]}
       /\ executor' = [executor EXCEPT ![p].rest = @ \ {Routes[i]}]
  /\ UNCHANGED <<action, writable, posted, expired, interrupted, claims, flips, crashes>>

Settles(p, status) ==
  /\ action' = [action EXCEPT ![executor[p].on].status = status, ![executor[p].on].lease = "none"]
  /\ executor' = [executor EXCEPT ![p] = Nowhere]
  /\ UNCHANGED <<writable, posted, labels, expired, interrupted, claims, flips, crashes>>

\* All answers arrived; the row is settled whatever its status is by now.
SettleSuccess(p) ==
  /\ \/ executor[p].step = "done"
     \/ executor[p].step = "remove" /\ executor[p].rest = {}
  /\ Settles(p, "succeeded")

\* A request fails, its answer is lost, or the comments exceed their bound.
SettleActionFailure(p) == executor[p].on # "none" /\ Settles(p, "failed")

IssueNext ==
  \/ PolicyFlips \/ ExecutorsStop
  \/ \E a \in Actions : \/ AdmitAction(a) \/ LeaseEnds(a) \/ BlockByPolicy(a)
                        \/ \E p \in Executors : ClaimAction(p, a)
  \/ \E p \in Executors : \/ FindComment(p) \/ PostComment(p) \/ AddLabel(p) \/ RemoveLabel(p)
                          \/ SettleSuccess(p) \/ SettleActionFailure(p)

IssueSpec == IssueInit /\ [][IssueNext]_issueVars

(***************************************************************************)
(* Properties                                                              *)
(***************************************************************************)
\* Rows and executions are of the kinds the table and the code allow; what holds
\* a lease is running or was blocked while it ran.
IssueTypeOK ==
  /\ action \in [Actions -> [status : {"none", "pending", "running", "succeeded", "failed",
                                       "blocked"},
                             lease : {"none", "held", "ended"}]]
  /\ \A a \in Actions : action[a].lease # "none" => action[a].status \in {"running", "blocked"}
  /\ \A p \in Executors :
       /\ executor[p].on \in Actions \cup {"none"} /\ executor[p].alone \in BOOLEAN
       /\ executor[p].step \in {"idle", "find", "post", "add", "remove", "done"}
  /\ labels \subseteq RouteLabels /\ writable \in BOOLEAN

\* Every comment beyond the first is explained: it takes an execution that
\* outlived its lease or a policy block written over a running row.  Lost
\* answers, retries and stops alone never post a comment twice.
DuplicatesAreExplained ==
  \A a \in Comments : posted[a] <= 1 + expired[a] + interrupted[a]

\* A succeeded comment is on the issue, however its executions overlapped.
SucceededCommentExists ==
  \A a \in Comments : action[a].status = "succeeded" => posted[a] > 0

\* A label execution that no other execution overlaps leaves its label as the
\* only route label, whatever failed or stopped executions left before it.
LabelIsExclusive ==
  [][\A p \in Executors :
       /\ executor[p].on \in Labels /\ executor[p].alone
       /\ executor'[p].on = "none" /\ action'[executor[p].on].status = "succeeded"
       => labels = {executor[p].on}]_issueVars

\* A succeeded action is done: only an execution of it that was already in
\* flight may still overwrite the row.
SuccessStandsUnlessOvertaken ==
  [][\A a \in Actions : action[a].status = "succeeded" /\ action'[a].status # "succeeded" =>
       \E p \in Executors : executor[p].on = a]_issueVars

\* Comments are posted once short of the two explained overlaps, and a success is one.
CommentsAreAccounted ==
  /\ IssueTypeOK
  /\ DuplicatesAreExplained
  /\ SucceededCommentExists
=============================================================================
