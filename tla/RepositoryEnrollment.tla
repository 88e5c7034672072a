------------------------- MODULE RepositoryEnrollment -------------------------
(***************************************************************************)
(* The durable registry of enrolled repositories, and the drift checks     *)
(* recorded against it.  An enrollment reads a repository's identity and   *)
(* its policy file at GitHub, across awaits, and then appends a version; a *)
(* disable appends one at once.  A drift check captures the enabled        *)
(* contracts, asks GitHub about one after the other, and records the       *)
(* whole batch.  Operators may send a request again after a lost answer.   *)
(***************************************************************************)
EXTENDS Naturals, Sequences, FiniteSets

CONSTANTS
  Repos,          \* names in the organization
  Bootstrap,      \* the names migration 47 imports
  Ids,            \* immutable GitHub repository IDs
  Policies,       \* contents of .bobsled/repository.json
  FirstNamed,     \* FirstNamed[r]: the ID that bears the name r at first
  MaxRequests,    \* bound: enrollment and disable requests, by idempotency key
  MaxChecks,      \* bound: drift checks
  MaxChanges      \* bound: renames and policy changes at GitHub

ASSUME EnrollmentAssumption ==
  /\ Bootstrap \subseteq Repos /\ FirstNamed \in [Repos -> Ids]
  /\ \A r, s \in Repos : FirstNamed[r] = FirstNamed[s] => r = s
  /\ {MaxRequests, MaxChecks, MaxChanges} \subseteq Nat

Requests == 1..MaxRequests
Checks   == 1..MaxChecks
NoId     == "none"
NoPolicy == "none"

VARIABLES
  named,     \* named[r]: the ID that bears the name at GitHub, or none
  file,      \* file[i]: the policy file of the repository with ID i
  events,    \* repository_enrollment_events by name and version; the last is the current row
  request,   \* the request under each idempotency key and how far it has come
  check,     \* drift checks: what they captured and have inspected
  observed,  \* repository_drift_observations
  contractEdits

enrollmentVars == <<named, file, events, request, check, observed, contractEdits>>

NoRequest == [repo |-> "none", expected |-> 0, stage |-> "none", id |-> NoId, policy |-> NoPolicy,
              since |-> 0]
NoCheck == [stage |-> "none", seen |-> [r \in Repos |-> 0], status |-> [r \in Repos |-> "none"]]

EnrollmentInit ==
  /\ named = FirstNamed
  /\ \E p \in Policies : file = [i \in Ids |-> p]
  /\ events = [r \in Repos |->
       IF r \in Bootstrap
         THEN <<[id |-> FirstNamed[r], policy |-> file[FirstNamed[r]], enabled |-> TRUE, key |-> 0,
                 since |-> 0]>>
         ELSE <<>>]
  /\ request = [q \in Requests |-> NoRequest] /\ check = [c \in Checks |-> NoCheck]
  /\ observed = {} /\ contractEdits = 0

Version(r)  == Len(events[r])
Enrolled(r) == events[r] # <<>>
Enabled(r)  == Enrolled(r) /\ events[r][Version(r)].enabled

\* The digest of a contract tells these apart.
Contract(r, n) == [id |-> events[r][n].id, policy |-> events[r][n].policy,
                   enabled |-> events[r][n].enabled]
Current(r) == Contract(r, Version(r))

(***************************************************************************)
(* GitHub                                                                  *)
(***************************************************************************)
PolicyRevised(i) ==
  /\ contractEdits < MaxChanges /\ contractEdits' = contractEdits + 1
  /\ \E p \in Policies \ {file[i]} : file' = [file EXCEPT ![i] = p]
  /\ UNCHANGED <<named, events, request, check, observed>>

\* A repository takes a name that is free; or a new one is created under a free name.
Renamed(r, s) ==
  /\ contractEdits < MaxChanges /\ contractEdits' = contractEdits + 1
  /\ named[s] = NoId
  /\ \/ named[r] # NoId /\ named' = [named EXCEPT ![s] = named[r], ![r] = NoId]
     \/ /\ named[r] = NoId
        /\ \E i \in Ids \ {named[x] : x \in Repos} : named' = [named EXCEPT ![s] = i]
  /\ UNCHANGED <<file, events, request, check, observed>>

Deleted(r) ==
  /\ contractEdits < MaxChanges /\ contractEdits' = contractEdits + 1
  /\ named[r] # NoId /\ named' = [named EXCEPT ![r] = NoId]
  /\ UNCHANGED <<file, events, request, check, observed>>

(***************************************************************************)
(* Enrollment                                                              *)
(***************************************************************************)
\* Fault: a change is recorded over whatever version is current.
MayRecordOverLatest(q, r, id) ==
  /\ \A s \in Repos : \A n \in DOMAIN events[s] : events[s][n].key # q
  /\ Enrolled(r) => Current(r).id = id
  /\ \A s \in Repos \ {r} : Enrolled(s) => Current(s).id # id

\* record: a key that was used is a replay or a conflict; the version must be the
\* expected one; a name keeps its GitHub identity and an identity its name.
MayRecord(q, r, id) ==
  /\ \A s \in Repos : \A n \in DOMAIN events[s] : events[s][n].key # q
  /\ Version(r) = request[q].expected
  /\ Enrolled(r) => Current(r).id = id
  /\ \A s \in Repos \ {r} : Enrolled(s) => Current(s).id # id

\* An operator enrolls or re-enables what a page showed, perhaps some time ago.
AskEnroll(q) ==
  /\ request[q].stage = "none" /\ \A p \in 1..(q - 1) : request[p].stage # "none"
  /\ \E r \in Repos : \E n \in 0..Version(r) :
       request' = [request EXCEPT ![q] = [NoRequest EXCEPT !.repo = r, !.expected = n,
                                                           !.stage = "identify"]]
  /\ UNCHANGED <<named, file, events, check, observed, contractEdits>>

Identify(q) ==
  /\ request[q].stage = "identify"
  /\ named[request[q].repo] # NoId
  /\ request' = [request EXCEPT ![q].id = named[request[q].repo], ![q].stage = "policy"]
  /\ UNCHANGED <<named, file, events, check, observed, contractEdits>>

\* The token reaches the identity found and the path has its name: GitHub redirects
\* a name that moved, unless another repository bears it now.
ReadPolicy(q) ==
  LET r == request[q].repo IN
  /\ request[q].stage = "policy"
  /\ request[q].id \in {named[s] : s \in Repos} /\ named[r] \in {request[q].id, NoId}
  /\ request' = [request EXCEPT ![q].policy = file[request[q].id], ![q].stage = "record",
                                ![q].since = Version(r)]
  /\ UNCHANGED <<named, file, events, check, observed, contractEdits>>

\* GitHub fails, the name is not canonical, the repository is archived or its
\* policy is invalid.
Refuse(q) ==
  /\ request[q].stage \in {"identify", "policy", "record"}
  /\ request' = [request EXCEPT ![q].stage = "answered", ![q].id = NoId, ![q].policy = NoPolicy,
                                ![q].since = 0]
  /\ UNCHANGED <<named, file, events, check, observed, contractEdits>>

RecordEnrollment(q) ==
  LET r == request[q].repo IN
  /\ request[q].stage = "record"
  /\ request' = [request EXCEPT ![q].stage = "answered", ![q].id = NoId, ![q].policy = NoPolicy,
                                ![q].since = 0]
  /\ IF MayRecord(q, r, request[q].id)
       THEN events' = [events EXCEPT ![r] =
              Append(@, [id |-> request[q].id, policy |-> request[q].policy, enabled |-> TRUE,
                         key |-> q, since |-> request[q].since])]
       ELSE UNCHANGED events
  /\ UNCHANGED <<named, file, check, observed, contractEdits>>

\* The same enrollment is sent again, with its key and its expected version.
AskAgain(q) ==
  /\ request[q].stage = "answered"
  /\ request' = [request EXCEPT ![q].stage = "identify"]
  /\ UNCHANGED <<named, file, events, check, observed, contractEdits>>

\* Disabling keeps the rest of the current contract and needs no answer of GitHub.
Disable(q) ==
  /\ request[q].stage = "none" /\ \A p \in 1..(q - 1) : request[p].stage # "none"
  /\ \E r \in Repos : \E n \in 1..Version(r) :
       /\ request' = [request EXCEPT ![q] = [NoRequest EXCEPT !.repo = r, !.expected = n,
                                                              !.stage = "disabled"]]
       /\ IF n = Version(r)
            THEN events' = [events EXCEPT ![r] =
                   Append(@, [@[n] EXCEPT !.enabled = FALSE, !.key = q, !.since = n])]
            ELSE UNCHANGED events
  /\ UNCHANGED <<named, file, check, observed, contractEdits>>

(***************************************************************************)
(* Drift checks                                                            *)
(***************************************************************************)
\* The contracts that are enabled now are captured.
StartCheck(c) ==
  /\ check[c].stage = "none" /\ \A d \in 1..(c - 1) : check[d].stage # "none"
  /\ \E r \in Repos : Enabled(r)
  /\ check' = [check EXCEPT ![c].stage = "inspect",
                            ![c].seen = [r \in Repos |-> IF Enabled(r) THEN Version(r) ELSE 0]]
  /\ UNCHANGED <<named, file, events, request, observed, contractEdits>>

\* GitHub is asked by identity; no authority is granted once the name is disabled.
Inspect(c, r) ==
  /\ check[c].stage = "inspect" /\ check[c].seen[r] # 0 /\ check[c].status[r] = "none"
  /\ \E s \in {"aligned", "drifted", "unavailable"} :
       /\ s # "unavailable" =>
            LET id == Contract(r, check[c].seen[r]).id IN
            /\ Enabled(r) /\ id \in {named[x] : x \in Repos}
            /\ (s = "aligned") = (named[r] = id)
       /\ check' = [check EXCEPT ![c].status[r] = s]
  /\ UNCHANGED <<named, file, events, request, observed, contractEdits>>

Observations(c, repos) ==
  {[batch |-> c, repo |-> r, version |-> Version(r), contract |-> Contract(r, check[c].seen[r]),
    status |-> check[c].status[r]] : r \in repos}

Captured(c) == {r \in Repos : check[c].seen[r] # 0}

\* One transaction for the batch: every captured contract must be the current
\* one, by its digest; the version bound is the current one.
Records(c) ==
  IF \A r \in Captured(c) : Current(r) = Contract(r, check[c].seen[r])
    THEN observed' = observed \cup Observations(c, Captured(c))
    ELSE UNCHANGED observed

EndCheck(c) ==
  /\ check[c].stage = "inspect" /\ \A r \in Captured(c) : check[c].status[r] # "none"
  /\ Records(c)
  /\ check' = [check EXCEPT ![c].stage = "ended", ![c].status = [r \in Repos |-> "none"]]
  /\ UNCHANGED <<named, file, events, request, contractEdits>>

EnrollmentNext ==
  \/ \E i \in Ids : PolicyRevised(i)
  \/ \E r, s \in Repos : Renamed(r, s)
  \/ \E r \in Repos : Deleted(r)
  \/ \E q \in Requests : \/ AskEnroll(q) \/ Identify(q) \/ ReadPolicy(q) \/ Refuse(q)
                         \/ RecordEnrollment(q) \/ AskAgain(q) \/ Disable(q)
  \/ \E c \in Checks : StartCheck(c) \/ (\E r \in Repos : Inspect(c, r)) \/ EndCheck(c)

EnrollmentSpec == EnrollmentInit /\ [][EnrollmentNext]_enrollmentVars

(***************************************************************************)
(* Properties                                                              *)
(***************************************************************************)
\* Events, requests and checks are of the kinds the tables and the code allow.
EnrollmentTypeOK ==
  /\ named \in [Repos -> Ids \cup {NoId}] /\ file \in [Ids -> Policies]
  /\ \A r \in Repos : \A n \in DOMAIN events[r] :
       events[r][n] \in [id : Ids, policy : Policies, enabled : BOOLEAN,
                         key : 0..MaxRequests, since : Nat]
  /\ request \in [Requests -> [repo : Repos \cup {"none"}, expected : Nat, id : Ids \cup {NoId},
                               stage : {"none", "identify", "policy", "record", "answered", "disabled"},
                               policy : Policies \cup {NoPolicy}, since : Nat]]
  /\ \A c \in Checks : \A r \in Repos :
       check[c].status[r] # "none" => check[c].stage = "inspect" /\ check[c].seen[r] \in 1..Version(r)

\* A policy that GitHub no longer declares is never brought back: what an enabled
\* version says was read at GitHub after the version before it was recorded,
\* however slow the reads were and whoever else changed the enrollment meanwhile.
NeverResurrected ==
  \A r \in Repos : \A n \in DOMAIN events[r] :
    events[r][n].enabled /\ events[r][n].key # 0 => events[r][n].since = n - 1

\* Repositories may be renamed, deleted and created again at GitHub while they are
\* enrolled: an enrolled name keeps the identity of its first version, and no two
\* names have the same.
IdentityIsStable ==
  /\ \A r \in Repos : \A n \in DOMAIN events[r] : events[r][n].id = events[r][1].id
  /\ \A r, s \in Repos : r # s /\ Enrolled(r) /\ Enrolled(s) => Current(r).id # Current(s).id

\* Every stored observation reads back: the version it is bound to says what the
\* check was about, and was enabled.
ObservationsVerify ==
  \A o \in observed : Contract(o.repo, o.version) = o.contract /\ o.contract.enabled

\* A batch is recorded as a whole or not at all, also when one repository changed
\* while another was inspected.
BatchIsWhole ==
  \A c \in Checks : LET batch == {o.repo : o \in {x \in observed : x.batch = c}} IN
    batch \in {{}, Captured(c)}

\* Enrollment versions and drift observations follow what GitHub declared, in order.
EnrollmentIsSound ==
  /\ EnrollmentTypeOK
  /\ NeverResurrected
  /\ IdentityIsStable
  /\ ObservationsVerify
  /\ BatchIsWhole
=============================================================================
