---------------------------- MODULE ChangeSetProofs ----------------------------
(***************************************************************************)
(* Theorems of ChangeSets.  Its members (MemberExecution), for every       *)
(* finite set of repositories, every set of contracts, dependencies and    *)
(* callers, and any number of deploys and crashes; its rollout             *)
(* (LinkedPublication), for every order of any number of drafts, every set *)
(* of recovery plans and of processes, and any number of attempts and of   *)
(* events; and both at once.                                               *)
(***************************************************************************)
EXTENDS ChangeSets, FiniteSetTheorems, WellFoundedInduction, TLAPS

(***************************************************************************)
(* Types                                                                   *)
(***************************************************************************)
Runs == [status : {"none", "blocked", "pending", "cancelled", "active", "succeeded", "failed"},
         attempt : {"none", "running"} \cup Outcomes,
         review : {"none", "approved", "declined"}, reviewable : BOOLEAN]
Admissions == [step : {"idle", "admitting"}, seen : [Repos -> {"none", "pristine", "touched"}]]
Leases == [status : {"none", "expired", "blocked", "consumed"} \cup ActiveLease,
           policy : Policies \cup {"none"}, evidence : {"none", "passed", "blocked"}]
Reservations == [status : {"none", "reserved", "running"} \cup Terminal,
                 calls : {0, 1}, preflight : {"none", "passed", "blocked"}]
CallerStates == [step : {"idle", "command", "ambiguous", "record", "claimed", "working",
                         "failing", "settle", "resume"},
                 repo : Repos \cup {"none"}, saw : {"none", "passed", "blocked"}]

AdmissionTypes ==
  /\ policy \in [Repos -> Policies] /\ needs \in Plans
  /\ admitter \in [Admitters -> Admissions]
  /\ parent \in Admitters \cup {"none"} /\ authorized \in BOOLEAN
  /\ schedule \in [Repos -> Policies \cup {"none"}]
  /\ deploys \in 0..MaxDeploys /\ crashes \in 0..MaxCrashes

ServiceTypes ==
  /\ lease \in [Repos -> Leases]
  /\ late \in [Repos -> BOOLEAN]
  /\ reservation \in [Repos -> Reservations]
  /\ caller \in [Callers -> CallerStates]
  /\ dispatched \in [Repos -> Nat]

LEMMA TypesAre == MemberTypeOK <=> AdmissionTypes /\ run \in [Repos -> Runs] /\ ServiceTypes
BY DEF MemberTypeOK, ChangeSetTypeOK, AdmissionTypes, ServiceTypes, Runs, Admissions, Leases,
       Reservations, CallerStates

\* The actions of the members' services.
MemberStep ==
  \/ \E r \in Repos : ReserveLease(r) \/ Expire(r) \/ ReserveExecution(r)
  \/ \E r \in Repos, o \in Outcomes : FinishAlone(r, o)
  \/ \E c \in Callers : Crash(c)
  \/ \E c \in Callers, r \in Repos :
       \/ ClaimPreparation(c, r) \/ RecordPreflightAndClaim(c, r)
       \/ CallWorker(c, r) \/ SettleMember(c, r) \/ Resume(c, r)
       \/ \E verdict \in {"passed", "blocked"} :
            CompletePreparation(c, r, verdict) \/ Inspect(c, r, verdict)
       \/ \E o \in Outcomes : CompleteExecution(c, r, o)

Answers == [Repos -> {"none", "pristine", "touched"}]

LEMMA OneMoreAnswer ==
  ASSUME NEW a \in Admissions, NEW r \in Repos, NEW x \in {"none", "pristine", "touched"}
  PROVE  [a EXCEPT !.seen[r] = x] \in Admissions
<1> DEFINE s == [a.seen EXCEPT ![r] = x]
<1>1. Admissions = [step : {"idle", "admitting"}, seen : Answers]
  BY DEF Admissions, Answers
<1>2. a.seen \in Answers /\ a.step \in {"idle", "admitting"}
  BY DEF Admissions, Answers
<1>3. s \in Answers
  BY <1>2 DEF Answers
<1>4. [a EXCEPT !.seen[r] = x] = [a EXCEPT !.seen = s]
  BY DEF Admissions
<1> HIDE DEF s
<1>5. [a EXCEPT !.seen = s] = [step |-> a.step, seen |-> s]
  BY <1>1
<1> QED BY <1>1, <1>2, <1>3, <1>4, <1>5

LEMMA AdmissionTypesStep ==
  ASSUME AdmissionTypes, run \in [Repos -> Runs], [MemberNext]_allVars
  PROVE  AdmissionTypes'
<1> USE ChangeSetAssumption DEF AdmissionTypes
<1>1. ASSUME NEW k \in Admitters, StartAdmission(k) PROVE AdmissionTypes'
  BY <1>1 DEF StartAdmission, Admissions
<1>2. ASSUME NEW k \in Admitters, BindMembers(k) PROVE AdmissionTypes'
  BY <1>2 DEF BindMembers, Admissions, Unasked
<1>3. ASSUME NEW k \in Admitters, StopAdmission(k) PROVE AdmissionTypes'
  BY <1>3 DEF StopAdmission, Admissions, Unasked
<1>4. ASSUME NEW k \in Admitters, NEW r \in Repos, AdmitMember(k, r) PROVE AdmissionTypes'
  <2>1. admitter' \in [Admitters -> Admissions]
    <3>1. PICK x \in {"none", "pristine", "touched"} : admitter' = [admitter EXCEPT ![k].seen[r] = x]
      BY <1>4 DEF AdmitMember
    <3>2. [admitter[k] EXCEPT !.seen[r] = x] \in Admissions
      BY OneMoreAnswer
    <3> HIDE DEF Admissions
    <3>3. admitter' = [admitter EXCEPT ![k] = [admitter[k] EXCEPT !.seen[r] = x]]
      BY <3>1
    <3> QED BY <3>2, <3>3
  <2> QED BY <1>4, <2>1 DEF AdmitMember
<1>5. ASSUME NEW r \in Repos, NEW p \in Policies, Deploy(r, p) PROVE AdmissionTypes'
  BY <1>5 DEF Deploy
<1>6. CASE Authorize
  BY <1>6 DEF Authorize
<1>7. CASE ScheduleMembers
  BY <1>7 DEF ScheduleMembers
<1>8. ASSUME NEW c \in Callers, Crash(c) PROVE AdmissionTypes'
  BY <1>8 DEF Crash
<1>9. CASE UNCHANGED <<policy, needs, admitter, parent, authorized, schedule, deploys, crashes>>
  BY <1>9
<1>10. CASE ChangeSetNext /\ UNCHANGED memberVars
  <2>1. ASSUME NEW r \in Repos, NEW v, Unblock(r, v) \/ ExecuteAlone(r) \/ Review(r, v) PROVE AdmissionTypes'
    BY <2>1, <1>9 DEF Unblock, ExecuteAlone, Review
  <2> QED BY <1>10, <1>1, <1>2, <1>3, <1>4, <1>5, <1>6, <1>7, <2>1 DEF ChangeSetNext
<1>11. CASE MemberStep
  <2>1. CASE \E c \in Callers : Crash(c)
    BY <2>1, <1>8
  <2>2. CASE ~\E c \in Callers : Crash(c)
    <3> DEFINE Same == UNCHANGED <<policy, needs, admitter, parent, authorized, schedule, deploys, crashes>>
    <3>1. ASSUME NEW r \in Repos, ReserveLease(r) \/ Expire(r) \/ ReserveExecution(r) PROVE Same
      BY <3>1 DEF changeSetVars, ReserveLease, Expire, ReserveExecution
    <3>2. ASSUME NEW r \in Repos, NEW o \in Outcomes, FinishAlone(r, o) PROVE Same
      BY <3>2 DEF FinishAlone
    <3>3. ASSUME NEW c \in Callers, NEW r \in Repos,
                 \/ ClaimPreparation(c, r) \/ RecordPreflightAndClaim(c, r)
                 \/ CallWorker(c, r) \/ SettleMember(c, r) \/ Resume(c, r)
          PROVE  Same
      BY <3>3 DEF changeSetVars, ClaimPreparation, RecordPreflightAndClaim, CallWorker, SettleMember, Resume
    <3>4. ASSUME NEW c \in Callers, NEW r \in Repos, NEW v, CompletePreparation(c, r, v) \/ Inspect(c, r, v) PROVE Same
      BY <3>4 DEF changeSetVars, CompletePreparation, Inspect
    <3>5. ASSUME NEW c \in Callers, NEW r \in Repos, NEW o \in Outcomes, CompleteExecution(c, r, o) PROVE Same
      BY <3>5 DEF CompleteExecution
    <3> HIDE DEF Same
    <3>6. Same
      BY <1>11, <2>2, <3>1, <3>2, <3>3, <3>4, <3>5 DEF MemberStep
    <3> USE DEF Same
    <3> QED BY <3>6, <1>9
  <2> QED BY <2>1, <2>2
<1>12. CASE UNCHANGED allVars
  BY <1>12, <1>9 DEF allVars, changeSetVars
<1> QED BY <1>10, <1>11, <1>12 DEF MemberNext, MemberStep

\* The rows of one member that a step may write, and how.
RunMoves(r) ==
  \/ run[r] = NoRun /\ run'[r].status = "blocked" /\ run'[r].attempt = "none" /\ run'[r].review = "none"
  \/ run[r].status = "blocked" /\ ~Linked /\ run'[r].status \in {"pending", "cancelled"}
     /\ run'[r].attempt = run[r].attempt
  \/ run[r].status = "pending" /\ run'[r].status = "active" /\ run'[r].attempt = "running"
  \/ run[r].attempt = "running" /\ run'[r].attempt \in Outcomes /\ run'[r].status = run'[r].attempt
  \/ run[r].status = "succeeded" /\ run[r].attempt = "succeeded" /\ run[r].review = "none"
     /\ run'[r].status = "succeeded" /\ run'[r].attempt = "succeeded"

Called(r) ==
  /\ Pristine(r) /\ run'[r].status = "active" /\ run'[r].attempt = "running"
  /\ reservation[r].preflight = "none"
  /\ reservation'[r] = [status |-> "running", calls |-> 1, preflight |-> "passed"]
  /\ lease' = lease
  /\ \E c \in Callers : At(c, "record", r)

LEMMA Admitted ==
  ASSUME NEW b \in BOOLEAN
  PROVE  LET x == [NoRun EXCEPT !.status = "blocked", !.reviewable = b]
         IN  x \in Runs /\ x.status = "blocked" /\ x.attempt = "none" /\ x.review = "none"
BY DEF NoRun, Runs

LEMMA RunStep ==
  ASSUME run \in [Repos -> Runs], ServiceTypes, [MemberNext]_allVars
  PROVE  /\ run' \in [Repos -> Runs]
         /\ \A r \in Repos : \/ run'[r] = run[r]
                             \/ RunMoves(r) /\ reservation' = reservation /\ lease' = lease
                             \/ Called(r)
<1> USE ChangeSetAssumption
<1> DEFINE Moved == /\ run' \in [Repos -> Runs]
                    /\ \A r \in Repos : \/ run'[r] = run[r]
                                        \/ RunMoves(r) /\ reservation' = reservation /\ lease' = lease
                                        \/ Called(r)
<1>0. ASSUME NEW r \in Repos, NEW x \in Runs, run' = [run EXCEPT ![r] = x],
             (RunMoves(r) /\ reservation' = reservation /\ lease' = lease) \/ Called(r)
      PROVE  Moved
  BY <1>0
<1>1. ASSUME NEW k \in Admitters, NEW r \in Repos, AdmitMember(k, r), UNCHANGED memberVars PROVE Moved
  <2>1. CASE run[r] # NoRun
    BY <1>1, <2>1 DEF AdmitMember
  <2>2. CASE run[r] = NoRun
    <3> DEFINE b == policy[r] \in Reviewing
               x == [NoRun EXCEPT !.status = "blocked", !.reviewable = b]
    <3>1. run' = [run EXCEPT ![r] = x]
      BY <1>1, <2>2 DEF AdmitMember
    <3>b. b \in BOOLEAN
      OBVIOUS
    <3>2. x \in Runs /\ x.status = "blocked" /\ x.attempt = "none" /\ x.review = "none"
      BY <3>b, Admitted
    <3> HIDE DEF x
    <3>3. run'[r] = x
      BY <3>1
    <3> QED BY <1>0, <1>1, <2>2, <3>1, <3>2, <3>3 DEF RunMoves, memberVars
  <2> QED BY <2>1, <2>2
<1>2. ASSUME NEW r \in Repos, NEW s \in {"pending", "cancelled"}, Unblock(r, s), UNCHANGED memberVars PROVE Moved
  <2> DEFINE x == [run[r] EXCEPT !.status = s]
  <2>1. run' = [run EXCEPT ![r] = x] /\ x \in Runs /\ x.status = s /\ x.attempt = run[r].attempt
    BY <1>2 DEF Unblock, Runs
  <2> QED BY <1>0, <1>2, <2>1 DEF RunMoves, Unblock, memberVars
<1>3. ASSUME NEW r \in Repos, ExecuteAlone(r), UNCHANGED memberVars PROVE Moved
  <2> DEFINE x == [run[r] EXCEPT !.status = "active", !.attempt = "running"]
  <2>1. run' = [run EXCEPT ![r] = x]
    BY <1>3 DEF ExecuteAlone
  <2>2. x \in Runs /\ x.status = "active" /\ x.attempt = "running"
    BY DEF Runs
  <2> HIDE DEF x
  <2> QED BY <1>0, <1>3, <2>1, <2>2 DEF RunMoves, ExecuteAlone, memberVars
<1>4. ASSUME NEW r \in Repos, NEW v \in {"approved", "declined"}, Review(r, v), UNCHANGED memberVars PROVE Moved
  <2> DEFINE x == [run[r] EXCEPT !.review = v]
  <2>1. run' = [run EXCEPT ![r] = x] /\ x \in Runs /\ x.status = run[r].status /\ x.attempt = run[r].attempt
    BY <1>4 DEF Review, Runs
  <2> QED BY <1>0, <1>4, <2>1 DEF RunMoves, Review, memberVars
<1>5. ASSUME NEW r \in Repos, NEW o \in Outcomes, CompleteAttempt(r, o), reservation' = reservation, lease' = lease
      PROVE  Moved
  <2> DEFINE x == [run[r] EXCEPT !.attempt = o, !.status = o]
  <2>1. run' = [run EXCEPT ![r] = x]
    BY <1>5 DEF CompleteAttempt
  <2>2. x \in Runs /\ x.status = o /\ x.attempt = o
    BY DEF Runs
  <2> HIDE DEF x
  <2> QED BY <1>0, <1>5, <2>1, <2>2 DEF RunMoves, CompleteAttempt
<1>6. ASSUME NEW c \in Callers, NEW r \in Repos, RecordPreflightAndClaim(c, r) PROVE Moved
  <2>1. CASE run' = run
    BY <2>1
  <2>2. CASE run' # run
    <3> DEFINE x == [run[r] EXCEPT !.status = "active", !.attempt = "running"]
    <3>1. /\ run' = [run EXCEPT ![r] = x] /\ Pristine(r) /\ reservation[r].preflight = "none"
          /\ caller[c].saw = "passed" /\ At(c, "record", r) /\ lease' = lease
          /\ reservation' = [reservation EXCEPT ![r] = [status |-> "running", calls |-> 1, preflight |-> caller[c].saw]]
      BY <1>6, <2>2 DEF RecordPreflightAndClaim
    <3>2. x \in Runs /\ x.status = "active" /\ x.attempt = "running"
      BY DEF Runs
    <3> HIDE DEF x
    <3> QED BY <1>0, <3>1, <3>2 DEF Called, ServiceTypes
  <2> QED BY <2>1, <2>2
<1>7. ASSUME NEW r \in Repos, NEW o \in Outcomes, FinishAlone(r, o) PROVE Moved
  BY <1>7, <1>5 DEF FinishAlone, memberVars
<1>8. ASSUME NEW c \in Callers, NEW r \in Repos, NEW o \in Outcomes, CompleteExecution(c, r, o) PROVE Moved
  BY <1>8, <1>5 DEF CompleteExecution
<1>9. ASSUME run' = run PROVE Moved
  BY <1>9
<1> HIDE DEF Moved
<1>10. ASSUME ChangeSetNext, UNCHANGED memberVars PROVE Moved
  <2>1. CASE run' = run
    BY <2>1, <1>9
  <2>2. CASE run' # run
    BY <1>10, <2>2, <1>1, <1>2, <1>3, <1>4
       DEF ChangeSetNext, StartAdmission, BindMembers, StopAdmission, Deploy, Authorize, ScheduleMembers
  <2> QED BY <2>1, <2>2
<1>11. ASSUME MemberStep PROVE Moved
  <2>1. CASE run' = run
    BY <2>1, <1>9
  <2>2. CASE run' # run
    <3>1. ASSUME NEW r \in Repos, ReserveLease(r) \/ Expire(r) \/ ReserveExecution(r) PROVE run' = run
      BY <3>1 DEF changeSetVars, ReserveLease, Expire, ReserveExecution
    <3>2. ASSUME NEW c \in Callers, Crash(c) PROVE run' = run
      BY <3>2 DEF Crash
    <3>3. ASSUME NEW c \in Callers, NEW r \in Repos,
                 ClaimPreparation(c, r) \/ CallWorker(c, r) \/ SettleMember(c, r) \/ Resume(c, r)
          PROVE  run' = run
      BY <3>3 DEF changeSetVars, ClaimPreparation, CallWorker, SettleMember, Resume
    <3>4. ASSUME NEW c \in Callers, NEW r \in Repos, NEW v, CompletePreparation(c, r, v) \/ Inspect(c, r, v)
          PROVE  run' = run
      BY <3>4 DEF changeSetVars, CompletePreparation, Inspect
    <3> QED BY <1>11, <2>2, <3>1, <3>2, <3>3, <3>4, <1>6, <1>7, <1>8 DEF MemberStep
  <2> QED BY <2>1, <2>2
<1>12. ASSUME UNCHANGED allVars PROVE Moved
  BY <1>12, <1>9 DEF allVars, changeSetVars
<1>13. Moved
  BY <1>10, <1>11, <1>12 DEF MemberNext, MemberStep
<1> QED BY <1>13 DEF Moved

(***************************************************************************)
(* Leases                                                                  *)
(***************************************************************************)
\* The ledger's outcome reaches the reservation and consumes the lease.
Settled(r) ==
  /\ reservation[r].status = "running"
  /\ run[r].attempt \in Terminal /\ run[r].status = run[r].attempt
  /\ run' = run
  /\ reservation'[r] = [reservation[r] EXCEPT !.status = run[r].attempt]
  /\ lease'[r] = [lease[r] EXCEPT !.status = "consumed"]

LeaseMoves(r) ==
  \/ ReserveLease(r)
  \/ /\ lease[r].status = "reserved" /\ lease'[r].status \in {"preparing", "expired"}
     /\ lease'[r].evidence = lease[r].evidence
     /\ reservation' = reservation /\ run' = run
  \/ /\ lease[r].status = "preparing" /\ lease'[r].status \in {"prepared", "blocked"}
     /\ reservation' = reservation /\ run' = run
  \/ Settled(r)

LEMMA LeaseWritten ==
  ASSUME lease \in [Repos -> Leases], NEW r \in Repos, NEW x \in Leases,
         lease' = [lease EXCEPT ![r] = x]
  PROVE  /\ lease' \in [Repos -> Leases]
         /\ lease'[r] = x
         /\ \A o \in Repos \ {r} : lease'[o] = lease[o]
OBVIOUS

LEMMA LeaseStep ==
  ASSUME AdmissionTypes, ServiceTypes, [MemberNext]_allVars
  PROVE  /\ lease' \in [Repos -> Leases]
         /\ \A r \in Repos : lease'[r] = lease[r] \/ LeaseMoves(r)
<1> DEFINE Moved == /\ lease' \in [Repos -> Leases]
                    /\ \A r \in Repos : lease'[r] = lease[r] \/ LeaseMoves(r)
<1>t. lease \in [Repos -> Leases] /\ reservation \in [Repos -> Reservations]
  BY DEF ServiceTypes
<1>0. ASSUME NEW r \in Repos, NEW x \in Leases, lease' = [lease EXCEPT ![r] = x], LeaseMoves(r)
      PROVE  Moved
  BY <1>0, <1>t, LeaseWritten
<1>1. ASSUME NEW r \in Repos, ReserveLease(r) PROVE Moved
  <2> DEFINE x == [NoLease EXCEPT !.status = "reserved", !.policy = policy[r]]
  <2>1. lease' = [lease EXCEPT ![r] = x]
    BY <1>1 DEF ReserveLease
  <2>2. x \in Leases
    BY DEF Leases, NoLease, ActiveLease, AdmissionTypes
  <2> HIDE DEF x
  <2> QED BY <1>0, <1>1, <2>1, <2>2 DEF LeaseMoves
<1>2. ASSUME NEW c \in Callers, NEW r \in Repos, ClaimPreparation(c, r) PROVE Moved
  <2>1. CASE lease' = lease
    BY <2>1, <1>t
  <2>2. CASE lease' # lease
    <3>1. PICK s \in {"expired", "preparing"} : lease' = [lease EXCEPT ![r].status = s]
      BY <1>2, <2>2 DEF ClaimPreparation
    <3> DEFINE x == [lease[r] EXCEPT !.status = s]
    <3>2. x \in Leases /\ x.status = s /\ x.evidence = lease[r].evidence
      BY <1>t DEF Leases, ActiveLease
    <3>3. lease' = [lease EXCEPT ![r] = x]
      BY <3>1
    <3>4. lease'[r] = x
      BY <3>2, <3>3, <1>t, LeaseWritten
    <3>5. lease[r].status = "reserved" /\ reservation' = reservation /\ run' = run
      BY <1>2, <2>2 DEF ClaimPreparation, changeSetVars
    <3>6. LeaseMoves(r)
      BY <3>2, <3>4, <3>5 DEF LeaseMoves
    <3> QED BY <1>0, <3>2, <3>3, <3>6
  <2> QED BY <2>1, <2>2
<1>3. ASSUME NEW c \in Callers, NEW r \in Repos, NEW v \in {"passed", "blocked"}, CompletePreparation(c, r, v) PROVE Moved
  <2>1. CASE lease[r].status # "preparing"
    <3>1. lease' = lease
      BY <1>3, <2>1 DEF CompletePreparation
    <3> QED BY <3>1, <1>t
  <2>2. CASE lease[r].status = "preparing"
    <3> DEFINE s == IF v = "passed" THEN "prepared" ELSE "blocked"
               x == [lease[r] EXCEPT !.evidence = v, !.status = s]
    <3>1. s \in {"prepared", "blocked"}
      OBVIOUS
    <3>2. lease' = [lease EXCEPT ![r].evidence = v, ![r].status = s]
      BY <1>3, <2>2 DEF CompletePreparation
    <3> HIDE DEF s
    <3>3. x \in Leases /\ x.status = s
      BY <1>t, <3>1 DEF Leases, ActiveLease
    <3>4. lease' = [lease EXCEPT ![r] = x]
      BY <3>2, <1>t
    <3> HIDE DEF x
    <3>5. lease'[r] = x
      BY <3>3, <3>4, <1>t, LeaseWritten
    <3>6. reservation' = reservation /\ run' = run
      BY <1>3 DEF CompletePreparation, changeSetVars
    <3>7. LeaseMoves(r)
      BY <2>2, <3>1, <3>3, <3>5, <3>6 DEF LeaseMoves
    <3> QED BY <1>0, <3>3, <3>4, <3>7
  <2> QED BY <2>1, <2>2
<1>4. ASSUME NEW c \in Callers, NEW r \in Repos, SettleMember(c, r) PROVE Moved
  <2>1. CASE lease' = lease
    BY <2>1, <1>t
  <2>2. CASE lease' # lease
    <3> DEFINE x == [lease[r] EXCEPT !.status = "consumed"]
    <3>1. /\ lease' = [lease EXCEPT ![r] = x]
          /\ reservation' = [reservation EXCEPT ![r] = [reservation[r] EXCEPT !.status = run[r].attempt]]
          /\ reservation[r].status = "running"
          /\ run[r].attempt \in Terminal /\ run[r].status = run[r].attempt
          /\ run' = run
      BY <1>4, <2>2 DEF SettleMember, changeSetVars
    <3>2. x \in Leases
      BY <1>t DEF Leases
    <3>3. lease'[r] = x
      BY <3>1, <3>2, <1>t, LeaseWritten
    <3>4. LeaseMoves(r)
      BY <3>1, <3>3, <1>t DEF LeaseMoves, Settled
    <3> QED BY <1>0, <3>1, <3>2, <3>4
  <2> QED BY <2>1, <2>2
<1>5. ASSUME lease' = lease PROVE Moved
  BY <1>5, <1>t
<1>6. ASSUME NEW r \in Repos, Expire(r) \/ ReserveExecution(r) PROVE Moved
  BY <1>6, <1>5 DEF Expire, ReserveExecution
<1>7. ASSUME NEW r \in Repos, NEW o, FinishAlone(r, o) PROVE Moved
  BY <1>7, <1>5 DEF FinishAlone, memberVars
<1>8. ASSUME NEW c \in Callers, Crash(c) PROVE Moved
  BY <1>8, <1>5 DEF Crash
<1>9. ASSUME NEW c \in Callers, NEW r \in Repos, RecordPreflightAndClaim(c, r) \/ CallWorker(c, r) \/ Resume(c, r) PROVE Moved
  BY <1>9, <1>5 DEF RecordPreflightAndClaim, CallWorker, Resume
<1>10. ASSUME NEW c \in Callers, NEW r \in Repos, NEW v, Inspect(c, r, v) \/ CompleteExecution(c, r, v) PROVE Moved
  BY <1>10, <1>5 DEF Inspect, CompleteExecution
<1>11. ASSUME UNCHANGED memberVars PROVE Moved
  BY <1>11, <1>5 DEF memberVars
<1> HIDE DEF Moved
<1>12. ASSUME MemberStep PROVE Moved
  BY <1>1, <1>2, <1>3, <1>4, <1>6, <1>7, <1>8, <1>9, <1>10, <1>12 DEF MemberStep
<1>13. Moved
  BY <1>11, <1>12 DEF MemberNext, MemberStep, allVars
<1> QED BY <1>13 DEF Moved

(***************************************************************************)
(* Reservations                                                            *)
(***************************************************************************)
Reserved(r) ==
  /\ lease[r].status = "prepared" /\ lease[r].policy = policy[r] /\ Pristine(r)
  /\ reservation[r] = NoReservation
  /\ reservation'[r] = [NoReservation EXCEPT !.status = "reserved"]
  /\ run' = run /\ lease' = lease

Refused(r) ==
  /\ \E c \in Callers : At(c, "record", r)
  /\ reservation[r].preflight = "none"
  /\ reservation'[r].status = "blocked" /\ reservation'[r].preflight = "blocked"
  /\ reservation'[r].calls = reservation[r].calls
  /\ run' = run /\ lease' = lease

ReservationMoves(r) == Reserved(r) \/ Refused(r) \/ Called(r) \/ Settled(r)

LEMMA ReservationWritten ==
  ASSUME reservation \in [Repos -> Reservations], NEW r \in Repos, NEW x \in Reservations,
         reservation' = [reservation EXCEPT ![r] = x]
  PROVE  /\ reservation' \in [Repos -> Reservations]
         /\ reservation'[r] = x
         /\ \A o \in Repos \ {r} : reservation'[o] = reservation[o]
OBVIOUS

\* A step writes the reservation of one member.
OneReservation ==
  \A r, o \in Repos : reservation'[r] # reservation[r] /\ reservation'[o] # reservation[o] => r = o

LEMMA ReservationStep ==
  ASSUME run \in [Repos -> Runs], ServiceTypes, [MemberNext]_allVars
  PROVE  /\ reservation' \in [Repos -> Reservations]
         /\ \A r \in Repos : reservation'[r] = reservation[r] \/ ReservationMoves(r)
         /\ OneReservation
<1> DEFINE Moved == /\ reservation' \in [Repos -> Reservations]
                    /\ \A r \in Repos : reservation'[r] = reservation[r] \/ ReservationMoves(r)
                    /\ OneReservation
<1>t. lease \in [Repos -> Leases] /\ reservation \in [Repos -> Reservations]
  BY DEF ServiceTypes
<1>0. ASSUME NEW r \in Repos, NEW x \in Reservations, reservation' = [reservation EXCEPT ![r] = x],
             reservation'[r] = x => ReservationMoves(r)
      PROVE  Moved
  BY <1>0, <1>t, ReservationWritten DEF OneReservation
<1>1. ASSUME NEW r \in Repos, ReserveExecution(r) PROVE Moved
  <2> DEFINE x == [NoReservation EXCEPT !.status = "reserved"]
  <2>1. reservation' = [reservation EXCEPT ![r] = x]
    BY <1>1 DEF ReserveExecution, NoReservation
  <2>2. x \in Reservations
    BY DEF Reservations, NoReservation
  <2>3. reservation'[r] = x => Reserved(r)
    BY <1>1 DEF ReserveExecution, Reserved, changeSetVars
  <2> HIDE DEF x
  <2> QED BY <1>0, <2>1, <2>2, <2>3 DEF ReservationMoves
<1>2. ASSUME NEW c \in Callers, NEW r \in Repos, RecordPreflightAndClaim(c, r) PROVE Moved
  <2>1. CASE reservation' = reservation
    BY <2>1, <1>t DEF OneReservation
  <2>2. CASE reservation' # reservation /\ run' # run
    <3>1. /\ Pristine(r) /\ reservation[r].preflight = "none"
          /\ caller[c].saw = "passed" /\ At(c, "record", r) /\ lease' = lease
          /\ run' = [run EXCEPT ![r].status = "active", ![r].attempt = "running"]
          /\ reservation' = [reservation EXCEPT ![r] = [status |-> "running", calls |-> 1, preflight |-> "passed"]]
      BY <1>2, <2>2 DEF RecordPreflightAndClaim
    <3>2. [status |-> "running", calls |-> 1, preflight |-> "passed"] \in Reservations
      BY DEF Reservations
    <3>3. run'[r].status = "active" /\ run'[r].attempt = "running"
      BY <3>1 DEF Runs
    <3> QED BY <1>0, <3>1, <3>2, <3>3 DEF ReservationMoves, Called
  <2>3. CASE reservation' # reservation /\ run' = run
    <3>0. ~Pristine(r) \/ ~(reservation[r].preflight = "none" /\ caller[c].saw = "passed")
      <4> SUFFICES ASSUME Pristine(r), reservation[r].preflight = "none", caller[c].saw = "passed" PROVE FALSE
        OBVIOUS
      <4>1. run' = [run EXCEPT ![r].status = "active", ![r].attempt = "running"]
        BY <1>2 DEF RecordPreflightAndClaim
      <4>2. run'[r].status = "active" /\ run[r].status = "blocked"
        BY <4>1 DEF Runs, Pristine
      <4> QED BY <2>3, <4>2
    <3>1. /\ At(c, "record", r) /\ reservation[r].preflight = "none" /\ caller[c].saw = "blocked"
          /\ reservation' = [reservation EXCEPT ![r].preflight = "blocked", ![r].status = "blocked"]
          /\ lease' = lease
      BY <1>2, <2>3, <3>0 DEF RecordPreflightAndClaim
    <3> DEFINE x == [reservation[r] EXCEPT !.preflight = "blocked", !.status = "blocked"]
    <3>2. x \in Reservations /\ x.status = "blocked" /\ x.preflight = "blocked" /\ x.calls = reservation[r].calls
      BY <1>t DEF Reservations, Terminal
    <3>3. reservation' = [reservation EXCEPT ![r] = x]
      BY <3>1, <1>t
    <3> HIDE DEF x
    <3> QED BY <1>0, <2>3, <3>1, <3>2, <3>3 DEF ReservationMoves, Refused
  <2> QED BY <2>1, <2>2, <2>3
<1>3. ASSUME NEW c \in Callers, NEW r \in Repos, SettleMember(c, r) PROVE Moved
  <2>1. CASE reservation' = reservation
    BY <2>1, <1>t DEF OneReservation
  <2>2. CASE reservation' # reservation
    <3> DEFINE x == [reservation[r] EXCEPT !.status = run[r].attempt]
    <3>1. /\ reservation' = [reservation EXCEPT ![r] = x]
          /\ lease' = [lease EXCEPT ![r] = [lease[r] EXCEPT !.status = "consumed"]]
          /\ reservation[r].status = "running"
          /\ run[r].attempt \in Terminal /\ run[r].status = run[r].attempt
          /\ run' = run
      BY <1>3, <2>2 DEF SettleMember, changeSetVars
    <3>2. x \in Reservations
      BY <3>1, <1>t DEF Reservations
    <3>3. lease'[r] = [lease[r] EXCEPT !.status = "consumed"]
      BY <3>1, <1>t
    <3>4. reservation'[r] = x => Settled(r)
      BY <3>1, <3>3 DEF Settled
    <3> HIDE DEF x
    <3> QED BY <1>0, <3>1, <3>2, <3>4 DEF ReservationMoves
  <2> QED BY <2>1, <2>2
<1>5. ASSUME reservation' = reservation PROVE Moved
  BY <1>5, <1>t DEF OneReservation
<1>6. ASSUME NEW r \in Repos, ReserveLease(r) \/ Expire(r) PROVE Moved
  BY <1>6, <1>5 DEF Expire, ReserveLease
<1>7. ASSUME NEW r \in Repos, NEW o, FinishAlone(r, o) PROVE Moved
  BY <1>7, <1>5 DEF FinishAlone, memberVars
<1>8. ASSUME NEW c \in Callers, Crash(c) PROVE Moved
  BY <1>8, <1>5 DEF Crash
<1>9. ASSUME NEW c \in Callers, NEW r \in Repos, ClaimPreparation(c, r) \/ CallWorker(c, r) \/ Resume(c, r) PROVE Moved
  BY <1>9, <1>5 DEF ClaimPreparation, CallWorker, Resume
<1>10. ASSUME NEW c \in Callers, NEW r \in Repos, NEW v,
              CompletePreparation(c, r, v) \/ Inspect(c, r, v) \/ CompleteExecution(c, r, v)
       PROVE  Moved
  BY <1>10, <1>5 DEF CompletePreparation, Inspect, CompleteExecution
<1>11. ASSUME UNCHANGED memberVars PROVE Moved
  BY <1>11, <1>5 DEF memberVars
<1> HIDE DEF Moved
<1>12. ASSUME MemberStep PROVE Moved
  BY <1>1, <1>2, <1>3, <1>6, <1>7, <1>8, <1>9, <1>10, <1>12 DEF MemberStep
<1>13. Moved
  BY <1>11, <1>12 DEF MemberNext, MemberStep, allVars
<1> QED BY <1>13 DEF Moved

(***************************************************************************)
(* Callers                                                                 *)
(***************************************************************************)
\* A caller goes on alone: to an inspected reservation's record, to the claim its own
\* record wins, or past these.
CallerMoves(c) ==
  /\ \A e \in Callers \ {c} : caller'[e] = caller[e]
  /\ \A r \in Repos :
       /\ At(c, "record", r)' => reservation[r].status # "none" /\ reservation' = reservation
       /\ At(c, "claimed", r)' => At(c, "record", r) /\ Called(r) /\ dispatched' = dispatched

Dispatches(r) ==
  /\ dispatched'[r] = dispatched[r] + 1
  /\ reservation' = reservation
  /\ \E c \in Callers : At(c, "claimed", r) /\ CallerMoves(c)

LEMMA WentOn ==
  ASSUME caller \in [Callers -> CallerStates], NEW c \in Callers, NEW x \in CallerStates,
         caller' = [caller EXCEPT ![c] = x],
         \A r \in Repos :
           /\ x.step = "record" /\ x.repo = r => reservation[r].status # "none" /\ reservation' = reservation
           /\ x.step = "claimed" /\ x.repo = r => At(c, "record", r) /\ Called(r) /\ dispatched' = dispatched
  PROVE  caller' \in [Callers -> CallerStates] /\ CallerMoves(c)
<1>1. caller'[c] = x /\ \A e \in Callers \ {c} : caller'[e] = caller[e]
  OBVIOUS
<1>2. caller' \in [Callers -> CallerStates]
  OBVIOUS
<1> QED BY <1>1, <1>2 DEF CallerMoves, At

LEMMA WentElsewhere ==
  ASSUME caller \in [Callers -> CallerStates], NEW c \in Callers, NEW r \in Repos,
         NEW step \in {"command", "ambiguous", "working", "failing", "settle", "resume"},
         GoOn(c, step, r, "none") \/ Answer(c)
  PROVE  caller' \in [Callers -> CallerStates] /\ CallerMoves(c)
<1>1. CASE GoOn(c, step, r, "none")
  <2> DEFINE x == [step |-> step, repo |-> r, saw |-> "none"]
  <2>1. x \in CallerStates /\ x.step \notin {"record", "claimed"}
    BY DEF CallerStates
  <2>2. caller' = [caller EXCEPT ![c] = x]
    BY <1>1 DEF GoOn
  <2> HIDE DEF x
  <2> QED BY <2>1, <2>2, WentOn
<1>2. CASE Answer(c)
  <2>1. Free \in CallerStates /\ Free.step \notin {"record", "claimed"}
    BY DEF CallerStates, Free
  <2>2. caller' = [caller EXCEPT ![c] = Free]
    BY <1>2 DEF Answer
  <2> QED BY <2>1, <2>2, WentOn
<1> QED BY <1>1, <1>2

CallerNext ==
  /\ caller' \in [Callers -> CallerStates]
  /\ caller' = caller \/ \E c \in Callers : CallerMoves(c)

LEMMA CallerStep ==
  ASSUME run \in [Repos -> Runs], ServiceTypes, [MemberNext]_allVars
  PROVE  CallerNext
<1>t. caller \in [Callers -> CallerStates] /\ reservation \in [Repos -> Reservations]
  BY DEF ServiceTypes
<1>0. ASSUME NEW c \in Callers, caller' \in [Callers -> CallerStates] /\ CallerMoves(c) PROVE CallerNext
  BY <1>0 DEF CallerNext
<1>s. ASSUME caller' = caller PROVE CallerNext
  BY <1>s, <1>t DEF CallerNext
<1>1. ASSUME NEW c \in Callers, NEW r \in Repos, ClaimPreparation(c, r) PROVE CallerNext
  <2>1. caller' = caller \/ GoOn(c, "command", r, "none") \/ GoOn(c, "ambiguous", r, "none")
    BY <1>1 DEF ClaimPreparation
  <2> QED BY <2>1, <1>t, <1>0, <1>s, WentElsewhere
<1>2. ASSUME NEW c \in Callers, NEW r \in Repos, NEW v, CompletePreparation(c, r, v) \/ Crash(c) \/ SettleMember(c, r) PROVE CallerNext
  <2>1. Answer(c)
    BY <1>2 DEF CompletePreparation, Crash, SettleMember
  <2> QED BY <2>1, <1>t, <1>0, WentElsewhere
<1>3. ASSUME NEW c \in Callers, NEW r \in Repos, NEW v \in {"passed", "blocked"}, Inspect(c, r, v) PROVE CallerNext
  <2>1. CASE GoOn(c, "resume", r, "none")
    BY <2>1, <1>t, <1>0, WentElsewhere
  <2>2. CASE reservation[r].status = "reserved" /\ GoOn(c, "record", r, v)
    <3> DEFINE x == [step |-> "record", repo |-> r, saw |-> v]
    <3>1. x \in CallerStates /\ x.step = "record" /\ x.repo = r
      BY DEF CallerStates
    <3>2. caller' = [caller EXCEPT ![c] = x]
      BY <2>2 DEF GoOn
    <3>3. reservation' = reservation
      BY <1>3 DEF Inspect
    <3> HIDE DEF x
    <3> QED BY <2>2, <3>1, <3>2, <3>3, <1>t, <1>0, WentOn
  <2> QED BY <1>3, <2>1, <2>2 DEF Inspect
<1>4. ASSUME NEW c \in Callers, NEW r \in Repos, RecordPreflightAndClaim(c, r) PROVE CallerNext
  <2>1. CASE GoOn(c, "resume", r, "none") \/ Answer(c)
    BY <2>1, <1>t, <1>0, WentElsewhere
  <2>2. CASE ~(GoOn(c, "resume", r, "none") \/ Answer(c))
    <3>1. /\ Pristine(r) /\ reservation[r].preflight = "none"
          /\ caller[c].saw = "passed" /\ At(c, "record", r)
          /\ UNCHANGED <<lease, dispatched>>
          /\ run' = [run EXCEPT ![r].status = "active", ![r].attempt = "running"]
          /\ reservation' = [reservation EXCEPT ![r] = [status |-> "running", calls |-> 1, preflight |-> "passed"]]
          /\ GoOn(c, "claimed", r, "none")
      BY <1>4, <2>2 DEF RecordPreflightAndClaim
    <3>2. run'[r].status = "active" /\ run'[r].attempt = "running"
      BY <3>1 DEF Runs
    <3>3. reservation'[r] = [status |-> "running", calls |-> 1, preflight |-> "passed"]
      BY <3>1, <1>t
    <3>4. Called(r)
      BY <3>1, <3>2, <3>3 DEF Called
    <3> DEFINE x == [step |-> "claimed", repo |-> r, saw |-> "none"]
    <3>5. x \in CallerStates /\ x.step = "claimed" /\ x.repo = r
      BY DEF CallerStates
    <3>6. caller' = [caller EXCEPT ![c] = x]
      BY <3>1 DEF GoOn
    <3> HIDE DEF x
    <3> QED BY <3>1, <3>4, <3>5, <3>6, <1>t, <1>0, WentOn
  <2> QED BY <2>1, <2>2
<1>5. ASSUME NEW c \in Callers, NEW r \in Repos, CallWorker(c, r) PROVE CallerNext
  <2>1. GoOn(c, "working", r, "none") \/ GoOn(c, "failing", r, "none")
    BY <1>5 DEF CallWorker
  <2> QED BY <2>1, <1>t, <1>0, WentElsewhere
<1>6. ASSUME NEW c \in Callers, NEW r \in Repos, NEW o, CompleteExecution(c, r, o) PROVE CallerNext
  BY <1>6, <1>t, <1>0, WentElsewhere DEF CompleteExecution
<1>7. ASSUME NEW c \in Callers, NEW r \in Repos, Resume(c, r) PROVE CallerNext
  <2>1. GoOn(c, "settle", r, "none") \/ Answer(c)
    BY <1>7 DEF Resume
  <2> QED BY <2>1, <1>t, <1>0, WentElsewhere
<1>8. ASSUME NEW r \in Repos, ReserveLease(r) \/ Expire(r) \/ ReserveExecution(r) PROVE CallerNext
  BY <1>8, <1>s DEF ReserveLease, Expire, ReserveExecution
<1>9. ASSUME NEW r \in Repos, NEW o, FinishAlone(r, o) PROVE CallerNext
  BY <1>9, <1>s DEF FinishAlone, memberVars
<1>10. ASSUME UNCHANGED memberVars PROVE CallerNext
  BY <1>10, <1>s DEF memberVars
<1>11. ASSUME NEW c \in Callers, Crash(c) PROVE CallerNext
  <2>1. caller' = [caller EXCEPT ![c] = Free] /\ Free \in CallerStates /\ Free.step \notin {"record", "claimed"}
    BY <1>11 DEF Crash, Answer, CallerStates, Free
  <2> QED BY <2>1, <1>t, <1>0, WentOn
<1>12. ASSUME MemberStep PROVE CallerNext
  BY <1>1, <1>2, <1>3, <1>4, <1>5, <1>6, <1>7, <1>8, <1>9, <1>11, <1>12 DEF MemberStep
<1> QED BY <1>10, <1>12 DEF MemberNext, MemberStep, allVars

LEMMA DispatchStep ==
  ASSUME ServiceTypes, [MemberNext]_allVars
  PROVE  /\ late' \in [Repos -> BOOLEAN] /\ dispatched' \in [Repos -> Nat]
         /\ \A r \in Repos : dispatched'[r] = dispatched[r] \/ Dispatches(r)
<1> DEFINE Moved == /\ late' \in [Repos -> BOOLEAN] /\ dispatched' \in [Repos -> Nat]
                    /\ \A r \in Repos : dispatched'[r] = dispatched[r] \/ Dispatches(r)
<1>t. /\ late \in [Repos -> BOOLEAN] /\ dispatched \in [Repos -> Nat]
      /\ caller \in [Callers -> CallerStates]
  BY DEF ServiceTypes
<1>s. ASSUME UNCHANGED <<late, dispatched>> PROVE Moved
  BY <1>s, <1>t
<1>1. ASSUME NEW r \in Repos, Expire(r) PROVE Moved
  BY <1>1, <1>t DEF Expire
<1>2. ASSUME NEW c \in Callers, NEW r \in Repos, CallWorker(c, r) PROVE Moved
  <2>1. CASE dispatched' = dispatched
    BY <1>2, <2>1, <1>t DEF CallWorker
  <2>2. CASE dispatched' # dispatched
    <3>1. /\ At(c, "claimed", r) /\ GoOn(c, "working", r, "none")
          /\ dispatched' = [dispatched EXCEPT ![r] = dispatched[r] + 1]
          /\ late' = late /\ reservation' = reservation
      BY <1>2, <2>2 DEF CallWorker
    <3>2. CallerMoves(c)
      BY <3>1, <1>t, WentElsewhere
    <3>3. Dispatches(r)
      BY <3>1, <3>2, <1>t DEF Dispatches
    <3> QED BY <3>1, <3>3, <1>t
  <2> QED BY <2>1, <2>2
<1>3. ASSUME NEW r \in Repos, ReserveLease(r) \/ ReserveExecution(r) PROVE Moved
  BY <1>3, <1>s DEF ReserveLease, ReserveExecution
<1>4. ASSUME NEW r \in Repos, NEW o, FinishAlone(r, o) PROVE Moved
  BY <1>4, <1>s DEF FinishAlone, memberVars
<1>5. ASSUME NEW c \in Callers, Crash(c) PROVE Moved
  BY <1>5, <1>s DEF Crash
<1>6. ASSUME NEW c \in Callers, NEW r \in Repos, ClaimPreparation(c, r) \/ RecordPreflightAndClaim(c, r) PROVE Moved
  BY <1>6, <1>s DEF ClaimPreparation, RecordPreflightAndClaim
<1>7. ASSUME NEW c \in Callers, NEW r \in Repos, SettleMember(c, r) \/ Resume(c, r) PROVE Moved
  BY <1>7, <1>s DEF SettleMember, Resume
<1>8. ASSUME NEW c \in Callers, NEW r \in Repos, NEW v,
             CompletePreparation(c, r, v) \/ Inspect(c, r, v) \/ CompleteExecution(c, r, v)
      PROVE  Moved
  BY <1>8, <1>s DEF CompletePreparation, Inspect, CompleteExecution
<1>9. ASSUME UNCHANGED memberVars PROVE Moved
  BY <1>9, <1>s DEF memberVars
<1> HIDE DEF Moved
<1>10. ASSUME MemberStep PROVE Moved
  BY <1>1, <1>2, <1>3, <1>4, <1>5, <1>6, <1>7, <1>8, <1>10 DEF MemberStep
<1>11. Moved
  BY <1>9, <1>10 DEF MemberNext, MemberStep, allVars
<1> QED BY <1>11 DEF Moved

LEMMA MemberTypesStep ==
  ASSUME MemberTypeOK, [MemberNext]_allVars
  PROVE  MemberTypeOK'
<1>t. AdmissionTypes /\ run \in [Repos -> Runs] /\ ServiceTypes
  BY TypesAre
<1>1. AdmissionTypes' /\ run' \in [Repos -> Runs]
  BY <1>t, AdmissionTypesStep, RunStep
<1>2. ServiceTypes'
  BY <1>t, LeaseStep, ReservationStep, CallerStep, DispatchStep DEF ServiceTypes, CallerNext
<1> QED BY <1>1, <1>2
        DEF MemberTypeOK, ChangeSetTypeOK, AdmissionTypes, ServiceTypes, Runs, Admissions, Leases,
            Reservations, CallerStates

(***************************************************************************)
(* The invariant of the members                                            *)
(***************************************************************************)
HeldOnce == \A r, o \in Repos : lease[r].status \in ActiveLease /\ lease[o].status \in ActiveLease => r = o

StagesFollow ==
  /\ authorized => Linked
  /\ \A r \in Repos : schedule[r] # "none" => authorized
  /\ \A r \in Repos : lease[r] # NoLease => Scheduled

LeasesFit ==
  \A r \in Repos :
    /\ lease[r].status = "none" => lease[r] = NoLease
    /\ lease[r].status \in {"reserved", "preparing"} => lease[r].evidence = "none"

ReservationsFit ==
  \A r \in Repos :
    /\ reservation[r].status = "none" => reservation[r] = NoReservation
    /\ reservation[r].status = "reserved" => reservation[r].calls = 0
    /\ reservation[r].status = "running" => reservation[r].calls = 1

CallersFit ==
  \A c \in Callers, r \in Repos :
    /\ At(c, "record", r) => reservation[r].status # "none"
    /\ At(c, "claimed", r) =>
         /\ reservation[r].calls = 1 /\ dispatched[r] = 0
         /\ \A e \in Callers : At(e, "claimed", r) => e = c

MemberInv ==
  /\ MemberTypeOK
  /\ HeldOnce
  /\ StagesFollow
  /\ LeasesFit
  /\ OnlyReservedMembersRun
  /\ DependenciesFirst
  /\ ReservationsFit
  /\ CallersFit
  /\ DispatchedOnce
  /\ RecordsStayReadable

\* The stages of a change set: nothing written is taken back, and nothing is
\* scheduled or authorized before what it rests on.
Stages ==
  /\ needs' = needs
  /\ Linked => parent' = parent
  /\ \/ authorized' = authorized
     \/ /\ Linked /\ authorized' = TRUE /\ \A r \in Repos : Pristine(r)
        /\ UNCHANGED <<run, schedule, reservation, lease>>
  /\ \/ schedule' = schedule
     \/ authorized /\ ~Scheduled /\ authorized' = TRUE /\ UNCHANGED <<run, lease>>

LEMMA StagesStep ==
  ASSUME [MemberNext]_allVars
  PROVE  Stages
<1>s. ASSUME UNCHANGED <<needs, parent, authorized, schedule>> PROVE Stages
  BY <1>s DEF Stages
<1>1. ASSUME NEW k \in Admitters, BindMembers(k) PROVE Stages
  BY <1>1 DEF BindMembers, Stages, Linked
<1>2. ASSUME Authorize, UNCHANGED memberVars PROVE Stages
  BY <1>2 DEF Authorize, Stages, memberVars
<1>3. ASSUME ScheduleMembers, UNCHANGED memberVars PROVE Stages
  BY <1>3 DEF ScheduleMembers, Stages, memberVars
<1>4. ASSUME NEW k \in Admitters, NEW r, StartAdmission(k) \/ StopAdmission(k) \/ AdmitMember(k, r) PROVE Stages
  BY <1>4, <1>s DEF StartAdmission, StopAdmission, AdmitMember
<1>5. ASSUME NEW r \in Repos, NEW v, Deploy(r, v) \/ Unblock(r, v) \/ ExecuteAlone(r) \/ Review(r, v) PROVE Stages
  BY <1>5, <1>s DEF Deploy, Unblock, ExecuteAlone, Review
<1>6. ASSUME NEW r \in Repos, ReserveLease(r) \/ Expire(r) \/ ReserveExecution(r) PROVE Stages
  BY <1>6, <1>s DEF changeSetVars, ReserveLease, Expire, ReserveExecution
<1>7. ASSUME NEW r \in Repos, NEW o, FinishAlone(r, o) PROVE Stages
  BY <1>7, <1>s DEF FinishAlone
<1>8. ASSUME NEW c \in Callers, Crash(c) PROVE Stages
  BY <1>8, <1>s DEF Crash
<1>9. ASSUME NEW c \in Callers, NEW r \in Repos,
             ClaimPreparation(c, r) \/ RecordPreflightAndClaim(c, r) \/ CallWorker(c, r)
      PROVE  Stages
  BY <1>9, <1>s DEF changeSetVars, ClaimPreparation, RecordPreflightAndClaim, CallWorker
<1>10. ASSUME NEW c \in Callers, NEW r \in Repos, SettleMember(c, r) \/ Resume(c, r) PROVE Stages
  BY <1>10, <1>s DEF changeSetVars, SettleMember, Resume
<1>11. ASSUME NEW c \in Callers, NEW r \in Repos, NEW v,
              CompletePreparation(c, r, v) \/ Inspect(c, r, v) \/ CompleteExecution(c, r, v)
       PROVE  Stages
  BY <1>11, <1>s DEF changeSetVars, CompletePreparation, Inspect, CompleteExecution
<1>12. ASSUME UNCHANGED allVars PROVE Stages
  BY <1>12, <1>s DEF allVars, changeSetVars
<1>13. ASSUME MemberStep PROVE Stages
  BY <1>6, <1>7, <1>8, <1>9, <1>10, <1>11, <1>13 DEF MemberStep
<1>14. ASSUME ChangeSetNext, UNCHANGED memberVars PROVE Stages
  BY <1>1, <1>2, <1>3, <1>4, <1>5, <1>14 DEF ChangeSetNext
<1> QED BY <1>12, <1>13, <1>14 DEF MemberNext, MemberStep

\* A step, seen from the rows of the members.
MemberMoves ==
  /\ Stages
  /\ \A r \in Repos :
       /\ \/ run'[r] = run[r]
          \/ RunMoves(r) /\ reservation' = reservation /\ lease' = lease
          \/ Called(r)
       /\ lease'[r] = lease[r] \/ LeaseMoves(r)
       /\ reservation'[r] = reservation[r] \/ ReservationMoves(r)
       /\ dispatched'[r] = dispatched[r] \/ Dispatches(r)
  /\ CallerNext

LEMMA EveryStepMoves ==
  ASSUME MemberTypeOK, [MemberNext]_allVars
  PROVE  MemberMoves
BY TypesAre, StagesStep, RunStep, LeaseStep, ReservationStep, DispatchStep, CallerStep DEF MemberMoves

LEMMA TypesFollow ==
  ASSUME MemberTypeOK
  PROVE  /\ run \in [Repos -> Runs] /\ lease \in [Repos -> Leases]
         /\ reservation \in [Repos -> Reservations] /\ caller \in [Callers -> CallerStates]
         /\ dispatched \in [Repos -> Nat] /\ authorized \in BOOLEAN
         /\ needs \in [Repos -> SUBSET Repos]
BY TypesAre, ChangeSetAssumption DEF AdmissionTypes, ServiceTypes

\* What is reserved rests on everything before it.
LEMMA ReservedIsLinked ==
  ASSUME MemberInv, NEW r \in Repos, reservation[r].status # "none"
  PROVE  /\ lease[r].status \in {"prepared", "consumed"}
         /\ Linked /\ authorized /\ Scheduled
<1>1. reservation[r] \in Reservations
  BY TypesFollow DEF MemberInv
<1>2. lease[r].status \in {"prepared", "consumed"}
  BY <1>1 DEF MemberInv, RecordsStayReadable, Reservations
<1>3. lease[r] # NoLease
  BY <1>2 DEF NoLease
<1> QED BY <1>2, <1>3 DEF MemberInv, StagesFollow, Scheduled

LEMMA RecordedIsReserved ==
  ASSUME MemberInv, NEW r \in Repos, NEW c \in Callers, At(c, "record", r), reservation[r].preflight = "none"
  PROVE  reservation[r].status = "reserved" /\ reservation[r].calls = 0
<1>1. reservation[r] \in Reservations /\ reservation[r].status # "none"
  BY TypesFollow DEF MemberInv, CallersFit
<1>2. reservation[r].status = "reserved"
  BY <1>1 DEF MemberInv, RecordsStayReadable, Reservations
<1> QED BY <1>2 DEF MemberInv, ReservationsFit

LEMMA StagesFollowStep ==
  ASSUME MemberInv, MemberMoves
  PROVE  StagesFollow'
<1>1. authorized' => Linked'
  BY DEF MemberInv, StagesFollow, MemberMoves, Stages, Linked
<1>2. ASSUME NEW r \in Repos PROVE schedule'[r] # "none" => authorized'
  BY DEF MemberInv, StagesFollow, MemberMoves, Stages
<1>3. ASSUME NEW r \in Repos, lease'[r] # NoLease PROVE Scheduled'
  <2>1. Scheduled
    <3>1. CASE lease[r] # NoLease
      BY <3>1 DEF MemberInv, StagesFollow
    <3>2. CASE lease[r] = NoLease
      <4>1. LeaseMoves(r)
        BY <1>3, <3>2 DEF MemberMoves
      <4>2. ReserveLease(r) \/ Settled(r)
        BY <3>2, <4>1 DEF LeaseMoves, NoLease
      <4>3. ASSUME Settled(r) PROVE FALSE
        BY <3>2, <4>3, ReservedIsLinked DEF Settled, NoLease
      <4> QED BY <4>2, <4>3 DEF ReserveLease, MayLease
    <3> QED BY <3>1, <3>2
  <2> QED BY <2>1 DEF MemberMoves, Stages, Scheduled
<1> QED BY <1>1, <1>2, <1>3 DEF StagesFollow

LEMMA HeldOnceStep ==
  ASSUME MemberInv, MemberMoves
  PROVE  HeldOnce'
<1>t. lease \in [Repos -> Leases] /\ \A r \in Repos : lease[r] \in Leases
  BY TypesFollow DEF MemberInv
<1>h. \A r, o \in Repos : lease[r].status \in ActiveLease /\ lease[o].status \in ActiveLease => r = o
  BY DEF MemberInv, HeldOnce
<1>1. CASE \E r \in Repos : ReserveLease(r)
  <2> PICK r \in Repos : ReserveLease(r)
    BY <1>1
  <2>1. \A o \in Repos \ {r} : lease'[o] = lease[o]
    BY <1>t DEF ReserveLease
  <2>2. \A o \in Repos : lease[o].status \notin ActiveLease
    BY DEF ReserveLease
  <2> QED BY <2>1, <2>2 DEF HeldOnce
<1>2. CASE ~\E r \in Repos : ReserveLease(r)
  <2>1. ASSUME NEW r \in Repos, lease'[r].status \in ActiveLease PROVE lease[r].status \in ActiveLease
    <3>1. CASE lease'[r] = lease[r]
      BY <2>1, <3>1
    <3>2. CASE LeaseMoves(r)
      <4>1. CASE Settled(r)
        <5>1. lease'[r].status = "consumed"
          BY <4>1, <1>t DEF Settled, Leases
        <5> QED BY <2>1, <5>1 DEF ActiveLease
      <4>2. CASE ~Settled(r)
        BY <1>2, <3>2, <4>2 DEF LeaseMoves, ActiveLease
      <4> QED BY <4>1, <4>2
    <3> QED BY <3>1, <3>2 DEF MemberMoves
  <2> QED BY <2>1, <1>h DEF HeldOnce
<1> QED BY <1>1, <1>2

LEMMA LeasesFitStep ==
  ASSUME MemberInv, MemberMoves
  PROVE  LeasesFit'
<1> SUFFICES ASSUME NEW r \in Repos
             PROVE  /\ lease'[r].status = "none" => lease'[r] = NoLease
                    /\ lease'[r].status \in {"reserved", "preparing"} => lease'[r].evidence = "none"
  BY DEF LeasesFit
<1>t. lease \in [Repos -> Leases] /\ lease[r] \in Leases
  BY TypesFollow DEF MemberInv
<1>1. CASE lease'[r] = lease[r]
  BY <1>1 DEF MemberInv, LeasesFit
<1>2. CASE ReserveLease(r)
  <2>1. lease'[r] = [NoLease EXCEPT !.status = "reserved", !.policy = policy[r]]
    BY <1>2, <1>t DEF ReserveLease
  <2>2. lease'[r].status = "reserved" /\ lease'[r].evidence = "none"
    BY <2>1 DEF NoLease
  <2> QED BY <2>2
<1>3. CASE Settled(r)
  <2>1. lease'[r].status = "consumed"
    BY <1>3, <1>t DEF Settled, Leases
  <2> QED BY <2>1
<1>4. CASE lease[r].status \in {"reserved", "preparing"} /\ ~ReserveLease(r) /\ ~Settled(r) /\ LeaseMoves(r)
  BY <1>4 DEF LeaseMoves, MemberInv, LeasesFit
<1>5. LeaseMoves(r) => ReserveLease(r) \/ Settled(r) \/ lease[r].status \in {"reserved", "preparing"}
  BY DEF LeaseMoves
<1>6. lease'[r] = lease[r] \/ LeaseMoves(r)
  BY DEF MemberMoves
<1> QED BY <1>1, <1>2, <1>3, <1>4, <1>5, <1>6

LEMMA ReservedMembersStep ==
  ASSUME MemberInv, MemberMoves
  PROVE  OnlyReservedMembersRun'
<1> SUFFICES ASSUME authorized', NEW r \in Repos
             PROVE  Pristine(r)' \/ reservation'[r].calls = 1
  BY DEF OnlyReservedMembersRun
<1>t. reservation[r] \in Reservations /\ run[r] \in Runs
  BY TypesFollow DEF MemberInv
<1>1. CASE ~authorized
  BY <1>1 DEF MemberMoves, Stages, Pristine
<1>2. CASE authorized
  <2>l. Linked
    BY <1>2 DEF MemberInv, StagesFollow
  <2>p. Pristine(r) \/ reservation[r].calls = 1
    BY <1>2 DEF MemberInv, OnlyReservedMembersRun
  <2>1. CASE Called(r)
    BY <2>1 DEF Called
  <2>2. CASE ~Called(r) /\ reservation[r].calls = 1
    <3>1. reservation[r] # NoReservation
      BY <2>2 DEF NoReservation
    <3>2. reservation'[r].calls = 1
      BY <2>2, <3>1, <1>t DEF MemberMoves, ReservationMoves, Reserved, Refused, Settled, Reservations
    <3> QED BY <3>2
  <2>3. CASE ~Called(r) /\ Pristine(r)
    <3>1. ~RunMoves(r)
      BY <2>3, <2>l DEF RunMoves, Pristine, NoRun
    <3>2. run'[r] = run[r]
      BY <2>3, <3>1 DEF MemberMoves
    <3> QED BY <2>3, <3>2 DEF Pristine
  <2> QED BY <2>p, <2>1, <2>2, <2>3
<1> QED BY <1>1, <1>2 DEF MemberInv, MemberTypeOK, ChangeSetTypeOK

LEMMA DependenciesStep ==
  ASSUME MemberInv, MemberMoves
  PROVE  DependenciesFirst'
<1> SUFFICES ASSUME NEW r \in Repos, lease'[r] # NoLease, NEW d \in needs[r]
             PROVE  DependencyComplete(d)'
  BY DEF DependenciesFirst, MemberMoves, Stages
<1>t. d \in Repos /\ run[d] \in Runs
  BY TypesFollow DEF MemberInv
<1>1. DependencyComplete(d) /\ Scheduled
  <2>1. CASE lease[r] # NoLease
    BY <2>1 DEF MemberInv, DependenciesFirst, StagesFollow
  <2>2. CASE lease[r] = NoLease
    <3>1. LeaseMoves(r)
      BY <2>2 DEF MemberMoves
    <3>2. ReserveLease(r) \/ Settled(r)
      BY <2>2, <3>1 DEF LeaseMoves, NoLease
    <3>3. ASSUME Settled(r) PROVE FALSE
      BY <2>2, <3>3, ReservedIsLinked DEF Settled, NoLease
    <3> QED BY <3>2, <3>3 DEF ReserveLease, MayLease
  <2> QED BY <2>1, <2>2
<1>2. schedule' = schedule
  BY <1>1 DEF MemberMoves, Stages
<1>3. CASE run'[d] = run[d]
  BY <1>1, <1>2, <1>3 DEF DependencyComplete
<1>4. CASE RunMoves(d)
  <2>1. /\ run[d].review = "none"
        /\ run'[d].status = "succeeded" /\ run'[d].attempt = "succeeded"
    BY <1>1, <1>4 DEF DependencyComplete, RunMoves, NoRun
  <2>2. schedule[d] \notin Reviewing
    BY <1>1, <2>1 DEF DependencyComplete
  <2> QED BY <1>2, <2>1, <2>2 DEF DependencyComplete
<1>5. CASE Called(d)
  BY <1>1, <1>5 DEF Called, Pristine, DependencyComplete
<1> QED BY <1>3, <1>4, <1>5, <1>t DEF MemberMoves

LEMMA ReservationsFitStep ==
  ASSUME MemberInv, MemberMoves
  PROVE  ReservationsFit'
<1> SUFFICES ASSUME NEW r \in Repos
             PROVE  /\ reservation'[r].status = "none" => reservation'[r] = NoReservation
                    /\ reservation'[r].status = "reserved" => reservation'[r].calls = 0
                    /\ reservation'[r].status = "running" => reservation'[r].calls = 1
  BY DEF ReservationsFit
<1>t. reservation[r] \in Reservations
  BY TypesFollow DEF MemberInv
<1>1. CASE reservation'[r] = reservation[r]
  BY <1>1 DEF MemberInv, ReservationsFit
<1>2. CASE Reserved(r)
  BY <1>2 DEF Reserved, NoReservation
<1>3. CASE Refused(r)
  BY <1>3 DEF Refused
<1>4. CASE Called(r)
  BY <1>4 DEF Called
<1>5. CASE Settled(r)
  BY <1>5, <1>t DEF Settled, Terminal, Reservations
<1> QED BY <1>1, <1>2, <1>3, <1>4, <1>5 DEF MemberMoves, ReservationMoves

LEMMA CallsStay ==
  ASSUME MemberInv, MemberMoves, NEW r \in Repos
  PROVE  /\ reservation[r].status # "none" => reservation'[r].status # "none"
         /\ reservation[r].calls = 1 => reservation'[r].calls = 1 /\ ~Called(r)
<1>t. reservation[r] \in Reservations
  BY TypesFollow DEF MemberInv
<1>1. reservation[r].status # "none" \/ reservation[r].calls = 1 => reservation[r] # NoReservation
  BY DEF NoReservation
<1>2. Called(r) => reservation[r].calls = 0
  BY RecordedIsReserved DEF Called
<1>3. CASE reservation'[r] = reservation[r]
  BY <1>2, <1>3 DEF Called
<1>4. CASE Reserved(r)
  BY <1>1, <1>2, <1>4 DEF Reserved, NoReservation
<1>5. CASE Refused(r)
  BY <1>2, <1>5 DEF Refused
<1>6. CASE Called(r)
  BY <1>2, <1>6 DEF Called
<1>7. CASE Settled(r)
  <2>1. reservation'[r].status = run[r].attempt /\ reservation'[r].calls = reservation[r].calls
    BY <1>7, <1>t DEF Settled, Reservations
  <2> QED BY <1>2, <1>7, <2>1 DEF Settled, Terminal
<1> QED BY <1>3, <1>4, <1>5, <1>6, <1>7 DEF MemberMoves, ReservationMoves

\* A caller that holds the call after a step has just won it, or had it already.
LEMMA ClaimedBefore ==
  ASSUME MemberInv, MemberMoves, NEW c \in Callers, NEW r \in Repos, At(c, "claimed", r)'
  PROVE  \/ At(c, "claimed", r) /\ ~Called(r)
         \/ /\ At(c, "record", r) /\ Called(r) /\ dispatched' = dispatched
            /\ \A e \in Callers \ {c} : caller'[e] = caller[e]
<1>1. CASE caller'[c] = caller[c]
  <2>1. At(c, "claimed", r)
    BY <1>1 DEF At
  <2>2. reservation[r].calls = 1
    BY <2>1 DEF MemberInv, CallersFit
  <2> QED BY <2>1, <2>2, CallsStay
<1>2. CASE caller'[c] # caller[c]
  <2>1. CallerMoves(c)
    BY <1>2 DEF MemberMoves, CallerNext, CallerMoves
  <2> QED BY <2>1 DEF CallerMoves
<1> QED BY <1>1, <1>2

ReservationTyped == \A r \in Repos : reservation'[r].calls \in {0, 1}

LEMMA CallersStep ==
  ASSUME MemberInv, MemberMoves, ReservationTyped
  PROVE  CallersFit' /\ DispatchedOnce'
<1>t. \A r \in Repos : /\ reservation[r] \in Reservations /\ dispatched[r] \in Nat
                       /\ dispatched[r] <= reservation[r].calls
  BY TypesFollow DEF MemberInv, DispatchedOnce
<1>1. ASSUME NEW c \in Callers, NEW r \in Repos, At(c, "record", r)'
      PROVE  reservation'[r].status # "none"
  <2>1. CASE caller'[c] = caller[c]
    <3>1. At(c, "record", r)
      BY <1>1, <2>1 DEF At
    <3> QED BY <3>1, CallsStay DEF MemberInv, CallersFit
  <2>2. CASE caller'[c] # caller[c]
    <3>1. CallerMoves(c)
      BY <2>2 DEF MemberMoves, CallerNext, CallerMoves
    <3> QED BY <1>1, <3>1 DEF CallerMoves
  <2> QED BY <2>1, <2>2
<1>2. ASSUME NEW r \in Repos, Dispatches(r)
      PROVE  /\ dispatched[r] = 0 /\ dispatched'[r] = 1
             /\ reservation'[r].calls = 1
             /\ \A e \in Callers : ~At(e, "claimed", r)'
  <2> PICK c \in Callers : At(c, "claimed", r) /\ CallerMoves(c)
    BY <1>2 DEF Dispatches
  <2>1. dispatched[r] = 0 /\ reservation[r].calls = 1 /\ \A e \in Callers : At(e, "claimed", r) => e = c
    BY DEF MemberInv, CallersFit
  <2>2. dispatched'[r] = 1 /\ reservation'[r].calls = 1
    BY <1>2, <2>1 DEF Dispatches
  <2>3. ASSUME NEW e \in Callers, At(e, "claimed", r)' PROVE FALSE
    <3>1. ~Called(r)
      BY <2>1, CallsStay
    <3>2. e = c
      BY <2>1, <2>3, <3>1, ClaimedBefore
    <3> QED BY <2>3, <3>1, <3>2 DEF CallerMoves
  <2> QED BY <2>1, <2>2, <2>3
<1>3. ASSUME NEW c \in Callers, NEW r \in Repos, At(c, "claimed", r)'
      PROVE  /\ reservation'[r].calls = 1 /\ dispatched'[r] = 0
             /\ \A e \in Callers : At(e, "claimed", r)' => e = c
  <2>1. CASE At(c, "claimed", r) /\ ~Called(r)
    <3>1. /\ reservation[r].calls = 1 /\ dispatched[r] = 0
          /\ \A e \in Callers : At(e, "claimed", r) => e = c
      BY <2>1 DEF MemberInv, CallersFit
    <3>2. dispatched'[r] = 0
      BY <1>2, <1>3, <3>1 DEF MemberMoves
    <3>3. \A e \in Callers : At(e, "claimed", r)' => e = c
      BY <2>1, <3>1, ClaimedBefore
    <3> QED BY <3>1, <3>2, <3>3, CallsStay
  <2>2. CASE /\ At(c, "record", r) /\ Called(r) /\ dispatched' = dispatched
             /\ \A e \in Callers \ {c} : caller'[e] = caller[e]
    <3>1. reservation[r].calls = 0
      BY <2>2, RecordedIsReserved DEF Called
    <3>2. reservation'[r].calls = 1
      BY <2>2 DEF Called
    <3>3. dispatched'[r] = 0
      BY <2>2, <3>1, <1>t
    <3>4. ASSUME NEW e \in Callers \ {c} PROVE ~At(e, "claimed", r)'
      <4>1. ~At(e, "claimed", r)
        BY <3>1 DEF MemberInv, CallersFit
      <4> QED BY <2>2, <4>1 DEF At
    <3> QED BY <3>2, <3>3, <3>4
  <2> QED BY <1>3, <2>1, <2>2, ClaimedBefore
<1>4. ASSUME NEW r \in Repos PROVE dispatched'[r] <= reservation'[r].calls
  <2>1. CASE Dispatches(r)
    BY <2>1, <1>2
  <2>2. CASE dispatched'[r] = dispatched[r]
    <3>1. reservation[r].calls \in {0, 1} /\ dispatched[r] \in Nat /\ dispatched[r] <= reservation[r].calls
      BY <1>t DEF Reservations
    <3>2. CASE reservation[r].calls = 1
      BY <2>2, <3>1, <3>2, CallsStay
    <3>3. CASE reservation[r].calls = 0
      <4>1. dispatched'[r] = 0
        BY <2>2, <3>1, <3>3
      <4>2. reservation'[r].calls \in {0, 1}
        BY DEF ReservationTyped
      <4> QED BY <4>1, <4>2
    <3> QED BY <3>1, <3>2, <3>3
  <2> QED BY <2>1, <2>2 DEF MemberMoves
<1>5. CallersFit'
  BY <1>1, <1>3 DEF CallersFit
<1> QED BY <1>4, <1>5 DEF DispatchedOnce

(***************************************************************************)
(* The records                                                             *)
(***************************************************************************)
\* RecordsStayReadable, one member at a time.
Readable(r) ==
  LET res == reservation[r]
      ran == run[r].attempt \in Terminal /\ run[r].status = run[r].attempt
      blocked == run[r].status = "blocked" /\ run[r].attempt = "none"
  IN /\ res.status = "reserved" => res.preflight = "none" /\ blocked /\ lease[r].status = "prepared"
     /\ res.status = "running" =>
          /\ res.preflight = "passed" /\ lease[r].status = "prepared"
          /\ ran \/ (run[r].status = "active" /\ run[r].attempt = "running")
     /\ res.status \in Terminal /\ res.calls = 1 =>
          /\ res.preflight = "passed" /\ lease[r].status = "consumed"
          /\ run[r].attempt = res.status /\ run[r].status = res.status
     /\ res.status \in Terminal /\ res.calls = 0 =>
          res.preflight = "blocked" /\ blocked /\ lease[r].status = "prepared"

LEMMA RecordsAre == RecordsStayReadable <=> \A r \in Repos : Readable(r)
BY DEF RecordsStayReadable, Readable

\* A record that is not written meets a run and a lease that others leave alone,
\* but for the completion of its own attempt.
LEMMA RestIsReadable ==
  ASSUME MemberInv, MemberMoves, NEW r \in Repos, reservation'[r] = reservation[r]
  PROVE  Readable(r)'
<1>r. Readable(r)
  BY RecordsAre DEF MemberInv
<1>t. run[r] \in Runs /\ lease[r] \in Leases /\ reservation[r] \in Reservations
  BY TypesFollow DEF MemberInv
<1>o. Outcomes \subseteq Terminal
  BY ChangeSetAssumption DEF Terminal
<1>1. CASE reservation[r].status = "none"
  BY <1>1 DEF Readable, Terminal
<1>2. CASE reservation[r].status # "none"
  <2>1. Linked /\ lease[r].status \in {"prepared", "consumed"}
    BY <1>2, ReservedIsLinked
  <2>2. lease'[r] = lease[r]
    <3>1. ~ReserveLease(r)
      BY <2>1 DEF ReserveLease, MayLease, NoLease
    <3>2. ~Settled(r)
      <4> SUFFICES ASSUME Settled(r) PROVE FALSE
        OBVIOUS
      <4>1. reservation'[r].status = run[r].attempt
        BY <1>t DEF Settled, Reservations
      <4> QED BY <4>1 DEF Settled, Terminal
    <3> QED BY <2>1, <3>1, <3>2 DEF MemberMoves, LeaseMoves
  <2>3. ~Called(r)
    <3> SUFFICES ASSUME Called(r) PROVE FALSE
      OBVIOUS
    <3>1. reservation[r].calls = 0 /\ reservation'[r].calls = 1
      BY RecordedIsReserved DEF Called
    <3> QED BY <3>1
  <2>4. CASE run'[r] = run[r]
    BY <1>r, <2>2, <2>4 DEF Readable
  <2>5. CASE RunMoves(r)
    <3>1. run[r].status # "none" /\ run[r].status # "pending"
      BY <1>2, <1>r, <1>t DEF Readable, Reservations, Terminal
    <3>2. CASE run[r].attempt = "running" /\ run'[r].attempt \in Outcomes /\ run'[r].status = run'[r].attempt
      <4>1. reservation[r].status = "running"
        BY <3>2, <1>2, <1>r, <1>t DEF Readable, Reservations, Terminal
      <4>2. run'[r].attempt \in Terminal
        BY <3>2, <1>o
      <4> QED BY <1>r, <2>2, <3>2, <4>1, <4>2 DEF Readable, Terminal
    <3>3. CASE /\ run[r].status = "succeeded" /\ run[r].attempt = "succeeded"
               /\ run'[r].status = "succeeded" /\ run'[r].attempt = "succeeded"
      BY <1>r, <2>2, <3>3 DEF Readable
    <3> QED BY <2>1, <2>5, <3>1, <3>2, <3>3 DEF RunMoves, NoRun
  <2> QED BY <2>3, <2>4, <2>5 DEF MemberMoves
<1> QED BY <1>1, <1>2

LEMMA RecordsStep ==
  ASSUME MemberInv, MemberMoves
  PROVE  RecordsStayReadable'
<1> SUFFICES ASSUME NEW r \in Repos PROVE Readable(r)'
  BY DEF RecordsStayReadable, Readable
<1>r. Readable(r)
  BY RecordsAre DEF MemberInv
<1>t. run[r] \in Runs /\ lease[r] \in Leases /\ reservation[r] \in Reservations
  BY TypesFollow DEF MemberInv
<1>1. CASE reservation'[r] = reservation[r]
  BY <1>1, RestIsReadable
<1>2. CASE Reserved(r)
  <2>1. /\ reservation'[r].status = "reserved" /\ reservation'[r].preflight = "none"
        /\ run'[r] = run[r] /\ lease'[r] = lease[r]
    BY <1>2 DEF Reserved, NoReservation
  <2> QED BY <1>2, <2>1 DEF Reserved, Pristine, Readable, Terminal
<1>3. CASE Refused(r)
  <2>1. reservation[r].status = "reserved" /\ reservation[r].calls = 0
    BY <1>3, RecordedIsReserved DEF Refused
  <2> QED BY <1>3, <1>r, <2>1 DEF Refused, Readable, Terminal
<1>4. CASE Called(r)
  <2>1. reservation[r].status = "reserved"
    BY <1>4, RecordedIsReserved DEF Called
  <2>2. lease'[r].status = "prepared"
    BY <1>4, <1>r, <2>1 DEF Called, Readable
  <2> QED BY <1>4, <2>2 DEF Called, Readable, Terminal
<1>5. CASE Settled(r)
  <2>1. /\ reservation'[r].status = run[r].attempt
        /\ reservation'[r].calls = reservation[r].calls
        /\ reservation'[r].preflight = reservation[r].preflight
        /\ lease'[r].status = "consumed" /\ run'[r] = run[r]
    BY <1>5, <1>t DEF Settled, Reservations, Leases
  <2>2. reservation[r].calls = 1 /\ reservation[r].preflight = "passed"
    BY <1>5, <1>r DEF Settled, Readable, MemberInv, ReservationsFit
  <2> QED BY <1>5, <2>1, <2>2 DEF Settled, Readable, Terminal
<1> QED BY <1>1, <1>2, <1>3, <1>4, <1>5 DEF MemberMoves, ReservationMoves

LEMMA MemberInvStep ==
  ASSUME MemberInv, [MemberNext]_allVars
  PROVE  MemberInv'
<1>1. MemberMoves /\ MemberTypeOK'
  BY EveryStepMoves, MemberTypesStep DEF MemberInv
<1>2. ReservationTyped
  <2>1. reservation' \in [Repos -> Reservations]
    BY TypesFollow, TypesAre, ReservationStep DEF MemberInv
  <2> QED BY <2>1 DEF ReservationTyped, Reservations
<1>3. CallersFit' /\ DispatchedOnce'
  BY <1>1, <1>2, CallersStep
<1>4. HeldOnce' /\ StagesFollow' /\ LeasesFit' /\ OnlyReservedMembersRun'
  BY <1>1, HeldOnceStep, StagesFollowStep, LeasesFitStep, ReservedMembersStep
<1>5. DependenciesFirst' /\ ReservationsFit' /\ RecordsStayReadable'
  BY <1>1, DependenciesStep, ReservationsFitStep, RecordsStep
<1> QED BY <1>1, <1>3, <1>4, <1>5 DEF MemberInv

LEMMA MemberInvInit == MemberInit => MemberInv
<1> SUFFICES ASSUME MemberInit PROVE MemberInv
  OBVIOUS
<1> USE ChangeSetAssumption
<1>i. /\ ChangeSetInit
      /\ lease = [r \in Repos |-> NoLease] /\ late = [r \in Repos |-> FALSE]
      /\ reservation = [r \in Repos |-> NoReservation]
      /\ caller = [c \in Callers |-> Free]
      /\ dispatched = [r \in Repos |-> 0]
  BY DEF MemberInit
<1>1. AdmissionTypes
  <2>1. Unasked \in Admissions
    BY DEF Unasked, Admissions
  <2> HIDE DEF Admissions, Unasked
  <2>2. policy \in [Repos -> Policies] /\ needs \in Plans
    BY <1>i DEF ChangeSetInit
  <2>3. admitter \in [Admitters -> Admissions]
    BY <1>i, <2>1 DEF ChangeSetInit
  <2>4. schedule \in [Repos -> Policies \cup {"none"}]
    BY <1>i DEF ChangeSetInit
  <2>5. parent \in Admitters \cup {"none"}
    BY <1>i DEF ChangeSetInit
  <2>6. authorized \in BOOLEAN
    BY <1>i DEF ChangeSetInit
  <2>7. deploys \in 0..MaxDeploys
    BY <1>i DEF ChangeSetInit, ChangeSetAssumption
  <2>8. crashes \in 0..MaxCrashes
    BY <1>i DEF ChangeSetInit, ChangeSetAssumption
  <2> QED BY <2>2, <2>3, <2>4, <2>5, <2>6, <2>7, <2>8, Zenon DEF AdmissionTypes
<1>2. run \in [Repos -> Runs]
  BY <1>i DEF ChangeSetInit, Runs, NoRun
<1>3. ServiceTypes
  <2>1. NoLease \in Leases /\ NoReservation \in Reservations /\ Free \in CallerStates
    BY DEF NoLease, Leases, NoReservation, Reservations, Free, CallerStates
  <2> QED BY <1>i, <2>1 DEF ServiceTypes
<1>4. MemberTypeOK
  BY <1>1, <1>2, <1>3, TypesAre
<1>5. HeldOnce /\ LeasesFit
  BY <1>i DEF HeldOnce, LeasesFit, NoLease, ActiveLease
<1>6. StagesFollow /\ OnlyReservedMembersRun /\ DependenciesFirst
  BY <1>i DEF ChangeSetInit, StagesFollow, OnlyReservedMembersRun, DependenciesFirst
<1>7. ReservationsFit /\ RecordsStayReadable
  BY <1>i DEF ReservationsFit, RecordsStayReadable, NoReservation, Terminal
<1>8. CallersFit /\ DispatchedOnce
  BY <1>i DEF CallersFit, DispatchedOnce, At, Free, NoReservation
<1> QED BY <1>4, <1>5, <1>6, <1>7, <1>8 DEF MemberInv

LEMMA HeldByOne == HeldOnce => OneMemberAtATime
<1> SUFFICES ASSUME HeldOnce PROVE OneMemberAtATime
  OBVIOUS
<1> DEFINE held == {r \in Repos : lease[r].status \in ActiveLease}
<1>1. CASE held = {}
  BY <1>1, FS_EmptySet DEF OneMemberAtATime
<1>2. CASE held # {}
  <2> PICK r \in Repos : lease[r].status \in ActiveLease
    BY <1>2
  <2>1. held = {r}
    BY DEF HeldOnce
  <2>2. Cardinality(held) = 1
    BY <2>1, FS_Singleton
  <2> QED BY <2>2 DEF OneMemberAtATime
<1> QED BY <1>1, <1>2

LEMMA MemberInvHolds == MemberSpec => []MemberInv
<1> QED BY MemberInvInit, MemberInvStep, PTL DEF MemberSpec

\* The members of a change set run one at a time, after what they depend on, each by its
\* own reservation and once, over any number of callers, crashes and deployments.
THEOREM MembersTakeTurnsHolds == MemberSpec => []MembersTakeTurns
<1>1. MemberInv => MembersTakeTurns
  BY HeldByOne DEF MemberInv, MembersTakeTurns
<1> QED BY <1>1, MemberInvHolds, PTL

(***************************************************************************)
(* What is not written again                                               *)
(***************************************************************************)
LEMMA PolicyIsKept ==
  ASSUME MemberInv, MemberMoves, NEW r \in Repos,
         reservation[r] = NoReservation, reservation'[r] # NoReservation
  PROVE  lease[r].policy = policy[r]
<1>1. reservation[r].status = "none" /\ reservation[r].preflight = "none"
  BY DEF NoReservation
<1>2. ~\E c \in Callers : At(c, "record", r)
  BY <1>1 DEF MemberInv, CallersFit
<1> QED BY <1>1, <1>2 DEF MemberMoves, ReservationMoves, Reserved, Refused, Called, Settled

LEMMA EvidenceIsKept ==
  ASSUME MemberInv, MemberMoves, NEW r \in Repos
  PROVE  /\ lease[r].evidence # "none" => lease'[r].evidence = lease[r].evidence
         /\ reservation[r].preflight # "none" => reservation'[r].preflight = reservation[r].preflight
<1>t. lease[r] \in Leases /\ reservation[r] \in Reservations
  BY TypesFollow DEF MemberInv
<1>1. ASSUME lease[r].evidence # "none" PROVE lease'[r].evidence = lease[r].evidence
  <2>1. lease[r] # NoLease /\ lease[r].status \notin {"reserved", "preparing"}
    BY <1>1 DEF NoLease, MemberInv, LeasesFit
  <2>2. CASE Settled(r)
    BY <2>2, <1>t DEF Settled, Leases
  <2>3. CASE lease'[r] = lease[r]
    BY <2>3
  <2> QED BY <2>1, <2>2, <2>3 DEF MemberMoves, LeaseMoves, ReserveLease, MayLease
<1>2. ASSUME reservation[r].preflight # "none" PROVE reservation'[r].preflight = reservation[r].preflight
  <2>1. reservation[r] # NoReservation
    BY <1>2 DEF NoReservation
  <2>2. CASE Settled(r)
    BY <2>2, <1>t DEF Settled, Reservations
  <2>3. CASE reservation'[r] = reservation[r]
    BY <2>3
  <2> QED BY <1>2, <2>1, <2>2, <2>3 DEF MemberMoves, ReservationMoves, Reserved, Refused, Called
<1> QED BY <1>1, <1>2

LEMMA SameCount ==
  ASSUME NEW S PROVE MemberBudget!Cardinality(S) = Cardinality(S)
BY DEF MemberBudget!Cardinality, Cardinality

LEMMA CallIs ==
  ASSUME NEW r
  PROVE  /\ reservation[r].status \in {"none", "reserved"} => CallOf(r) = "open"
         /\ reservation[r].status = "running" => CallOf(r) = "made"
         /\ reservation[r].status \in Terminal /\ reservation[r].calls = 1 => CallOf(r) = "settled"
         /\ reservation[r].status \in Terminal /\ reservation[r].calls = 0 => CallOf(r) = "withdrawn"
BY DEF CallOf, Terminal

LEMMA CallWillBe ==
  ASSUME NEW r
  PROVE  /\ reservation'[r].status \in {"none", "reserved"} => CallOf(r)' = "open"
         /\ reservation'[r].status = "running" => CallOf(r)' = "made"
         /\ reservation'[r].status \in Terminal /\ reservation'[r].calls = 1 => CallOf(r)' = "settled"
         /\ reservation'[r].status \in Terminal /\ reservation'[r].calls = 0 => CallOf(r)' = "withdrawn"
BY DEF CallOf, Terminal

MemberCalls == [r \in Repos |-> CallOf(r)]

LEMMA CallMoves ==
  ASSUME MemberInv, MemberMoves, NEW r \in Repos, ReservationMoves(r)
  PROVE  \/ CallOf(r)' = CallOf(r)
         \/ CallOf(r) = "open" /\ CallOf(r)' \in {"made", "withdrawn"}
         \/ CallOf(r) = "made" /\ CallOf(r)' = "settled"
<1>t. run[r] \in Runs /\ reservation[r] \in Reservations
  BY TypesFollow DEF MemberInv
<1>1. CASE Reserved(r)
  <2>1. reservation[r].status = "none" /\ reservation'[r].status = "reserved"
    BY <1>1 DEF Reserved, NoReservation
  <2> QED BY <2>1, CallIs, CallWillBe
<1>2. CASE Refused(r)
  <2>1. reservation[r].status = "reserved" /\ reservation[r].calls = 0
    BY <1>2, RecordedIsReserved DEF Refused
  <2>2. reservation'[r].status \in Terminal /\ reservation'[r].calls = 0
    BY <1>2, <2>1 DEF Refused, Terminal
  <2> QED BY <2>1, <2>2, CallIs, CallWillBe
<1>3. CASE Called(r)
  <2>1. reservation[r].status = "reserved" /\ reservation'[r].status = "running"
    BY <1>3, RecordedIsReserved DEF Called
  <2> QED BY <2>1, CallIs, CallWillBe
<1>4. CASE Settled(r)
  <2>1. reservation[r].status = "running" /\ reservation[r].calls = 1
    BY <1>4 DEF Settled, MemberInv, ReservationsFit
  <2>2. reservation'[r].status \in Terminal /\ reservation'[r].calls = 1
    BY <1>4, <2>1, <1>t DEF Settled, Reservations
  <2> QED BY <2>1, <2>2, CallIs, CallWillBe
<1> QED BY <1>1, <1>2, <1>3, <1>4 DEF ReservationMoves

LEMMA MemberBudgetStep ==
  ASSUME MemberInv, MemberMoves, OneReservation
  PROVE  [MemberBudget!Next]_MemberCalls
<1>1. CASE \A r \in Repos : reservation'[r] = reservation[r]
  <2>1. \A r \in Repos : CallOf(r)' = CallOf(r)
    BY <1>1 DEF CallOf
  <2> QED BY <2>1 DEF MemberCalls
<1>2. CASE \E r \in Repos : reservation'[r] # reservation[r]
  <2> PICK r \in Repos : reservation'[r] # reservation[r]
    BY <1>2
  <2>1. \A o \in Repos \ {r} : reservation'[o] = reservation[o]
    BY DEF OneReservation
  <2>2. \A o \in Repos \ {r} : CallOf(o)' = CallOf(o)
    BY <2>1 DEF CallOf
  <2>3. MemberCalls' = [MemberCalls EXCEPT ![r] = CallOf(r)'] /\ MemberCalls'[r] = CallOf(r)'
    BY <2>2 DEF MemberCalls
  <2>4. MemberCalls[r] = CallOf(r)
    BY DEF MemberCalls
  <2>5. CASE CallOf(r)' = CallOf(r)
    <3>1. MemberCalls' = MemberCalls
      BY <2>2, <2>5 DEF MemberCalls
    <3> QED BY <3>1
  <2>6. CASE CallOf(r) = "open" /\ CallOf(r)' = "made"
    <3> DEFINE spent == {k \in Repos : MemberCalls[k] \in {"made", "settled"}}
    <3>1. spent \subseteq Repos \ {r}
      BY <2>4, <2>6
    <3>2. /\ IsFiniteSet(Repos) /\ IsFiniteSet(Repos \ {r})
          /\ Cardinality(Repos \ {r}) = Cardinality(Repos) - 1 /\ Cardinality(Repos) \in Nat
      BY ChangeSetAssumption, FS_RemoveElement, FS_CardinalityType
    <3>3. Cardinality(spent) <= Cardinality(Repos \ {r}) /\ Cardinality(spent) \in Nat
      BY <3>1, <3>2, FS_Subset, FS_CardinalityType
    <3> HIDE DEF spent
    <3>4. Cardinality(spent) < Cardinality(Repos)
      BY <3>2, <3>3
    <3>5. MemberBudget!Spent = spent
      BY DEF MemberBudget!Spent, spent, MemberCalls
    <3>6. MemberBudget!Cardinality(MemberBudget!Spent) < Cardinality(Repos)
      BY <3>4, <3>5, SameCount
    <3>7. MemberBudget!Moves(r, "open", "made")
      BY <2>3, <2>4, <2>6 DEF MemberBudget!Moves, MemberCalls
    <3>8. MemberBudget!Make(r)
      BY <3>6, <3>7 DEF MemberBudget!Make
    <3> QED BY <3>8 DEF MemberBudget!Next
  <2>7. CASE CallOf(r) = "open" /\ CallOf(r)' = "withdrawn"
    <3>1. MemberBudget!Moves(r, "open", "withdrawn")
      BY <2>3, <2>4, <2>7 DEF MemberBudget!Moves, MemberCalls
    <3> QED BY <3>1 DEF MemberBudget!Next, MemberBudget!Withdraw
  <2>8. CASE CallOf(r) = "made" /\ CallOf(r)' = "settled"
    <3>1. MemberBudget!Moves(r, "made", "settled")
      BY <2>3, <2>4, <2>8 DEF MemberBudget!Moves, MemberCalls
    <3> QED BY <3>1 DEF MemberBudget!Next, MemberBudget!Settle
  <2>9. ReservationMoves(r)
    BY DEF MemberMoves
  <2> QED BY <2>5, <2>6, <2>7, <2>8, <2>9, CallMoves
<1> QED BY <1>1, <1>2

\* A reservation is made under the contract its worktree was prepared for, evidence is
\* written once, and the members' calls implement one-use calls.
THEOREM MembersStand ==
  MemberSpec => ReservedUnderPreparedPolicy /\ EvidenceStands /\ MemberCallIsOneUse
<1>1. MemberInv /\ [MemberNext]_allVars => MemberMoves /\ OneReservation
  BY EveryStepMoves, TypesAre, ReservationStep DEF MemberInv
<1>2. MemberInv /\ [MemberNext]_allVars =>
        [\A r \in Repos : reservation[r] = NoReservation /\ reservation[r]' # NoReservation
           => lease[r].policy = policy[r]]_allVars
  BY <1>1, PolicyIsKept
<1>3. MemberInv /\ [MemberNext]_allVars =>
        [\A r \in Repos :
           /\ lease[r].evidence # "none" => lease'[r].evidence = lease[r].evidence
           /\ reservation[r].preflight # "none" => reservation'[r].preflight = reservation[r].preflight]_allVars
  BY <1>1, EvidenceIsKept
<1>4. MemberInit => MemberBudget!Init
  <2> SUFFICES ASSUME MemberInit PROVE MemberBudget!Init
    OBVIOUS
  <2>1. \A r \in Repos : reservation[r].status = "none"
    BY DEF MemberInit, NoReservation
  <2>2. \A r \in Repos : CallOf(r) = "open"
    BY <2>1, CallIs
  <2> QED BY <2>2 DEF MemberBudget!Init
<1>5. MemberInv /\ [MemberNext]_allVars => [MemberBudget!Next]_([r \in Repos |-> CallOf(r)])
  BY <1>1, MemberBudgetStep DEF MemberCalls
<1> QED BY <1>2, <1>3, <1>4, <1>5, MemberInvHolds, PTL
        DEF MemberSpec, ReservedUnderPreparedPolicy, EvidenceStands, MemberCallIsOneUse, MemberBudget!Spec

(***************************************************************************)
(* The inductive invariant of the rollout and its retries                  *)
(***************************************************************************)
Jobs == Recoveries \cup {"rollout"}
StatusOf(j)  == IF j = "rollout" THEN rollout.status ELSE retry[j].status
StartedOf(j) == IF j = "rollout" THEN rollout.started ELSE retry[j].started

\* The steps of a process that claimed a job.
Serving == {"start", "execute", "publishing", "finish", "failed", "blocked"}
Serves(p, j) == process[p].job = j /\ process[p].step \in Serving

\* A process is where its index says, and what it saw of the intents is complete
\* when it compares them.
ProcessFits(p) ==
  /\ process[p].job = "none" <=> process[p].step = "idle"
  /\ process[p].step \in {"admit", "block"} => process[p].job = "rollout"
  /\ process[p].step = "admit" =>
       /\ process[p].index \in 1..Len(Order)
       /\ \A i \in 1..(process[p].index - 1) : process[p].seen[Order[i]] # "none"
  /\ Doing(p, "rollout", "preflight") => \A r \in LinkedDrafts : process[p].seen[r] # "none"
  /\ process[p].step = "block" =>
       /\ rollout.status # "reserved" /\ rollout.manifest = process[p].seen
       /\ \E r \in LinkedDrafts : process[p].seen[r] # "pending"
  /\ process[p].job \in Recoveries /\ process[p].step \in {"preflight", "claim"} => process[p].index = 1

\* The index of a process that serves a job agrees with the members the job started.
ServerFits(p, j) ==
  /\ StatusOf(j) \in {"running"} \cup Ends
  /\ process[p].step = "start" => StartedOf(j) = process[p].index - 1 /\ StartedOf(j) < Len(OrderOf(j))
  /\ process[p].step \in {"execute", "publishing", "failed", "blocked"} =>
       StartedOf(j) = process[p].index /\ StartedOf(j) > 0
  /\ process[p].step = "finish" => StartedOf(j) = Len(OrderOf(j)) /\ process[p].index = Len(OrderOf(j)) + 1

\* A job is served by one process, and before it is claimed by none.
JobFits(j) ==
  /\ StartedOf(j) \in 0..Len(OrderOf(j))
  /\ StatusOf(j) \in {"none", "reserved", "prepared"} => StartedOf(j) = 0
  /\ \A p \in Processes : Serves(p, j) => ServerFits(p, j)
  /\ \A p, q \in Processes : Serves(p, j) /\ Serves(q, j) => p = q

\* Only the started members of a job were executed, once, and the one about to be was not.
CallsFit(j) ==
  /\ \A i \in 1..Len(OrderOf(j)) : calls[j][OrderOf(j)[i]] <= IF i <= StartedOf(j) THEN 1 ELSE 0
  /\ \A r \in LinkedDrafts : r \notin Range(OrderOf(j)) => calls[j][r] = 0
  /\ \A p \in Processes : Serves(p, j) /\ process[p].step = "execute" => calls[j][OrderOf(j)[StartedOf(j)]] = 0

\* Retries follow plans, and plans the end of the rollout.
PlanFits(k) ==
  /\ recovery[k] # NoPlan => rollout.status \in {"partial", "blocked", "failed"}
  /\ retry[k].status # "none" => recovery[k] # NoPlan /\ RetryOrder(k) # <<>> /\ k \notin decided
  /\ retry[k].status = "none" =>
       /\ retry[k] = NotStarted
       /\ \A p \in Processes : process[p].job # k
       /\ \A r \in LinkedDrafts : calls[k][r] = 0
  /\ retry[k].status = "succeeded" => LinkedDrafts \subseteq opened
  /\ retry[k].status = "partial" => opened # {}

\* A running rollout claimed pending intents, and its members open their drafts in order.
RolloutFits ==
  /\ rollout.status # "reserved" => \A r \in LinkedDrafts : rollout.manifest[r] # "none"
  /\ rollout.started > 0 \/ rollout.status = "running" => \A r \in LinkedDrafts : rollout.manifest[r] = "pending"
  /\ \A i \in 1..rollout.started : \A j \in 1..(i - 1) : Order[j] \in opened
  /\ \A p \in Processes : Serves(p, "rollout") =>
       /\ rollout.status = "running"
       /\ \A i \in 1..(process[p].index - 1) : Order[i] \in opened
  /\ rollout.status = "succeeded" => LinkedDrafts \subseteq opened
  /\ rollout.status = "partial" => opened # {} /\ rollout.started > 0

\* A delivered record has a draft.
PublicationsFit == \A r \in LinkedDrafts : publication[r].status \in Delivered => r \in opened

\* Without a disturbance the publications are where the rollout left them.
MemberIsAt(p, i) ==
  LET s == publication[Order[i]].status IN
  IF i < process[p].index THEN s = "published"
  ELSE IF i > process[p].index \/ process[p].step \in {"start", "execute"} THEN s = "pending"
  ELSE IF process[p].step = "publishing" THEN s = "running"
  ELSE s = process[p].step

Undisturbed ==
  /\ \A r \in LinkedDrafts : publication[r].holder # "operator"
  /\ rollout.status \in {"reserved", "prepared"} =>
       \A p \in Processes, r \in LinkedDrafts :
         process[p].seen[r] # "none" => publication[r].status = process[p].seen[r]
  /\ rollout.status = "prepared" => \A r \in LinkedDrafts : publication[r].status = rollout.manifest[r]
  /\ rollout.status = "running" =>
       \E p \in Processes : Serves(p, "rollout") /\ \A i \in 1..Len(Order) : MemberIsAt(p, i)

LinkedInv ==
  /\ LinkedTypeOK /\ events \in Nat
  /\ \A p \in Processes : ProcessFits(p)
  /\ \A j \in Jobs : JobFits(j) /\ CallsFit(j)
  /\ \A k \in Recoveries : PlanFits(k)
  /\ RolloutFits
  /\ PublicationsFit
  /\ events = 0 => Undisturbed

(***************************************************************************)
(* The order of the members, and of those a plan has still to publish      *)
(***************************************************************************)
LEMMA OrderIs ==
  /\ Order \in Seq(LinkedDrafts) /\ Len(Order) \in Nat /\ Len(Order) > 0 /\ DOMAIN Order = 1..Len(Order)
  /\ \A i \in 1..Len(Order) : Order[i] \in LinkedDrafts
  /\ \A r \in LinkedDrafts : \E i \in 1..Len(Order) : Order[i] = r
  /\ \A i, j \in 1..Len(Order) : Order[i] = Order[j] => i = j
<1>1. Order \in Seq(LinkedDrafts) /\ Order # <<>> /\ IsInjective(Order)
  BY LinkedAssumption DEF LinkedDrafts
<1>2. Len(Order) \in Nat /\ Len(Order) > 0 /\ DOMAIN Order = 1..Len(Order)
  BY <1>1
<1>3. \A i \in 1..Len(Order) : Order[i] \in LinkedDrafts
  BY <1>1, <1>2
<1>4. \A r \in LinkedDrafts : \E i \in 1..Len(Order) : Order[i] = r
  BY <1>2 DEF LinkedDrafts, Range
<1>5. \A i, j \in 1..Len(Order) : Order[i] = Order[j] => i = j
  BY <1>1, <1>2 DEF IsInjective
<1> QED BY <1>1, <1>2, <1>3, <1>4, <1>5

\* A set of numbers has a least one.
LEMMA LeastNumber ==
  ASSUME NEW B, B \subseteq Nat, B # {}
  PROVE  \E n \in B : \A m \in B : ~(m < n)
<1>1. PICK n \in B : \A m \in B : ~(<<m, n>> \in OpToRel(<, Nat))
  BY NatLessThanWellFounded, WFMin
<1>2. \A m \in B : m \in Nat /\ n \in Nat
  OBVIOUS
<1> QED BY <1>1, <1>2 DEF OpToRel

Wanted == {"failed", "blocked", "pending"}

\* The recursion of Unpublished, up to the member n, and what it lists.
Longer(plan, n, s) == IF plan[Order[n]].status \in Wanted THEN Append(s, Order[n]) ELSE s
ListsUpTo(plan, n, f) == f = [m \in 0..n |-> IF m = 0 THEN <<>> ELSE Longer(plan, m, f[m - 1])]
Listed(plan, n, s) ==
  /\ s \in Seq(LinkedDrafts) /\ Len(s) <= n
  /\ \A i \in 1..Len(s) : plan[s[i]].status \in Wanted /\ \E m \in 1..n : s[i] = Order[m]
  /\ \A i, j \in 1..Len(s) : s[i] = s[j] => i = j

LEMMA ListingExists ==
  ASSUME NEW plan
  PROVE  \E f : ListsUpTo(plan, Len(Order), f)
<1> DEFINE Exists(n) == \E f : ListsUpTo(plan, n, f)
<1> DEFINE B == {n \in 0..Len(Order) : ~Exists(n)}
<1> USE OrderIs
<1>1. Exists(0)
  <2>1. ListsUpTo(plan, 0, [m \in 0..0 |-> <<>>])
    BY DEF ListsUpTo
  <2> QED BY <2>1
<1>2. ASSUME NEW n \in 1..Len(Order), Exists(n - 1)
      PROVE  Exists(n)
  <2>1. PICK f : ListsUpTo(plan, n - 1, f)
    BY <1>2
  <2> DEFINE g == [m \in 0..n |-> IF m = n THEN Longer(plan, n, f[n - 1]) ELSE f[m]]
             h == [m \in 0..n |-> IF m = 0 THEN <<>> ELSE Longer(plan, m, g[m - 1])]
  <2>2. \A m \in 0..(n - 1) : f[m] = IF m = 0 THEN <<>> ELSE Longer(plan, m, f[m - 1])
    BY <2>1 DEF ListsUpTo
  <2>3. ASSUME NEW m \in 0..n PROVE g[m] = h[m]
    <3>1. CASE m = n
      <4>1. g[n] = Longer(plan, n, f[n - 1]) /\ g[n - 1] = f[n - 1] /\ n # 0
        OBVIOUS
      <4> QED BY <3>1, <4>1
    <3>2. CASE m # n
      <4>1. m \in 0..(n - 1) /\ g[m] = f[m]
        BY <3>2
      <4>2. CASE m = 0
        BY <2>2, <4>1, <4>2
      <4>3. CASE m # 0
        <5>1. g[m - 1] = f[m - 1] /\ h[m] = Longer(plan, m, g[m - 1])
          BY <3>2, <4>3
        <5> QED BY <2>2, <4>1, <4>3, <5>1
      <4> QED BY <4>2, <4>3
    <3> QED BY <3>1, <3>2
  <2>4. g = h
    BY <2>3
  <2>5. ListsUpTo(plan, n, g)
    BY <2>4 DEF ListsUpTo
  <2> QED BY <2>5
<1> HIDE DEF Exists
<1>3. ASSUME B # {} PROVE FALSE
  <2>b. B \subseteq Nat /\ B # {}
    BY <1>3
  <2> HIDE DEF B
  <2>1. PICK n \in B : \A m \in B : ~(m < n)
    BY <2>b, LeastNumber
  <2> USE DEF B
  <2>2. n # 0 /\ n \in 1..Len(Order) /\ n - 1 \in 0..Len(Order) /\ n - 1 < n
    BY <1>1, <2>1
  <2>3. Exists(n - 1)
    BY <2>1, <2>2
  <2> QED BY <1>2, <2>1, <2>2, <2>3
<1>4. Exists(Len(Order))
  BY <1>3
<1> QED BY <1>4 DEF Exists

LEMMA ListingLists ==
  ASSUME NEW plan, NEW f, ListsUpTo(plan, Len(Order), f)
  PROVE  Listed(plan, Len(Order), f[Len(Order)])
<1> DEFINE B == {n \in 0..Len(Order) : ~Listed(plan, n, f[n])}
<1> USE OrderIs
<1>1. f[0] = <<>> /\ \A n \in 1..Len(Order) : f[n] = Longer(plan, n, f[n - 1])
  BY DEF ListsUpTo
<1>2. Listed(plan, 0, f[0])
  BY <1>1 DEF Listed
<1>3. ASSUME NEW n \in 1..Len(Order), Listed(plan, n - 1, f[n - 1])
      PROVE  Listed(plan, n, f[n])
  <2> DEFINE s == f[n - 1]
  <2>1. /\ s \in Seq(LinkedDrafts) /\ Len(s) <= n - 1
        /\ \A i \in 1..Len(s) : plan[s[i]].status \in Wanted /\ \E m \in 1..(n - 1) : s[i] = Order[m]
        /\ \A i, j \in 1..Len(s) : s[i] = s[j] => i = j
    BY <1>3 DEF Listed
  <2>2. f[n] = Longer(plan, n, s)
    BY <1>1
  <2> HIDE DEF s
  <2>3. CASE plan[Order[n]].status \in Wanted
    <3> DEFINE t == Append(s, Order[n])
    <3>1. f[n] = t
      BY <2>2, <2>3 DEF Longer
    <3>2. /\ t \in Seq(LinkedDrafts) /\ Len(t) = Len(s) + 1 /\ t[Len(s) + 1] = Order[n]
          /\ \A i \in 1..Len(s) : t[i] = s[i]
      BY <2>1
    <3> HIDE DEF t
    <3>3. \A i \in 1..Len(t) : i \in 1..Len(s) \/ i = Len(s) + 1
      BY <2>1, <3>2
    <3>4. \A i \in 1..Len(t) : plan[t[i]].status \in Wanted
      BY <2>1, <2>3, <3>2, <3>3
    <3>5. ASSUME NEW i \in 1..Len(t) PROVE \E m \in 1..n : t[i] = Order[m]
      <4>1. CASE i \in 1..Len(s)
        <5>1. PICK m \in 1..(n - 1) : s[i] = Order[m]
          BY <2>1, <4>1
        <5> QED BY <3>2, <4>1, <5>1
      <4> QED BY <3>2, <3>3, <4>1
    <3>6. \A i \in 1..Len(s) : t[i] # Order[n]
      <4> SUFFICES ASSUME NEW i \in 1..Len(s), t[i] = Order[n] PROVE FALSE
        OBVIOUS
      <4>1. PICK m \in 1..(n - 1) : s[i] = Order[m]
        BY <2>1
      <4>2. Order[m] = Order[n] /\ m \in 1..Len(Order) /\ m # n
        BY <3>2, <4>1
      <4> QED BY <4>2
    <3>7. ASSUME NEW i \in 1..Len(t), NEW j \in 1..Len(t), t[i] = t[j] PROVE i = j
      <4>1. CASE i \in 1..Len(s) /\ j \in 1..Len(s)
        BY <2>1, <3>2, <3>7, <4>1
      <4>2. CASE i = Len(s) + 1 /\ j \in 1..Len(s)
        BY <3>2, <3>6, <3>7, <4>2
      <4>3. CASE i \in 1..Len(s) /\ j = Len(s) + 1
        BY <3>2, <3>6, <3>7, <4>3
      <4> QED BY <3>3, <4>1, <4>2, <4>3
    <3>8. Len(t) <= n
      BY <2>1, <3>2
    <3> QED BY <3>1, <3>2, <3>4, <3>5, <3>7, <3>8 DEF Listed
  <2>4. CASE plan[Order[n]].status \notin Wanted
    <3>1. f[n] = s
      BY <2>2, <2>4 DEF Longer
    <3>2. Len(s) <= n
      BY <2>1
    <3>3. \A i \in 1..Len(s) : \E m \in 1..n : s[i] = Order[m]
      BY <2>1
    <3> QED BY <2>1, <3>1, <3>2, <3>3 DEF Listed
  <2> QED BY <2>3, <2>4
<1>4. ASSUME B # {} PROVE FALSE
  <2>b. B \subseteq Nat /\ B # {}
    BY <1>4
  <2> HIDE DEF B
  <2>1. PICK n \in B : \A m \in B : ~(m < n)
    BY <2>b, LeastNumber
  <2> USE DEF B
  <2>2. n # 0 /\ n \in 1..Len(Order) /\ n - 1 \in 0..Len(Order) /\ n - 1 < n
    BY <1>2, <2>1
  <2>3. Listed(plan, n - 1, f[n - 1])
    BY <2>1, <2>2
  <2> QED BY <1>3, <2>1, <2>2, <2>3
<1> QED BY <1>4

\* A retry goes over members of the rollout that its plan found unpublished, each once.
LEMMA UnpublishedAre ==
  ASSUME NEW plan
  PROVE  Listed(plan, Len(Order), Unpublished(plan))
<1> DEFINE f == CHOOSE g : ListsUpTo(plan, Len(Order), g)
<1>1. ListsUpTo(plan, Len(Order), f)
  BY ListingExists
<1>2. Unpublished(plan) = f[Len(Order)]
  BY DEF Unpublished, ListsUpTo, Longer, Wanted
<1> HIDE DEF f
<1> QED BY <1>1, <1>2, ListingLists

(***************************************************************************)
(* Types of the rollout                                                    *)
(***************************************************************************)
Publications == [status : Statuses, attempts : 0..MaxAttempts, by : {"none", "operator", "rollout"},
                 holder : {"none", "operator", "gone"} \cup Processes]
Rollouts == [status : {"reserved", "prepared", "running"} \cup Ends, started : 0..Len(Order),
             manifest : [LinkedDrafts -> Statuses], result : [LinkedDrafts -> Statuses],
             failed : LinkedDrafts \cup {"none"}]
Retries == [status : {"none", "reserved", "prepared", "running"} \cup Ends, started : 0..Len(Order),
            result : [LinkedDrafts -> Statuses], failed : LinkedDrafts \cup {"none"}]
Steps == {"idle", "admit", "preflight", "block", "claim", "start", "execute", "publishing",
          "finish", "failed", "blocked"}
ProcessStates == [job : Recoveries \cup {"none", "rollout"}, step : Steps,
                  index : 0..(Len(Order) + 1), seen : [LinkedDrafts -> Statuses]]
Snapshots == [LinkedDrafts -> [status : Statuses, attempts : 0..MaxAttempts]]

LEMMA LinkedTypesAre ==
  LinkedTypeOK <=>
    /\ publication \in [LinkedDrafts -> Publications] /\ rollout \in Rollouts
    /\ decided \subseteq Recoveries /\ opened \subseteq LinkedDrafts
    /\ recovery \in [Recoveries -> Snapshots] /\ retry \in [Recoveries -> Retries]
    /\ process \in [Processes -> ProcessStates]
    /\ calls \in [Jobs -> [LinkedDrafts -> Nat]]
BY DEF LinkedTypeOK, Publications, Rollouts, Retries, Steps, ProcessStates, Snapshots, Jobs

LEMMA JobNames == "rollout" \notin Recoveries /\ "none" \notin Recoveries /\ "operator" \notin Processes
BY LinkedAssumption

\* What a process is after each of the ways to move it.
LEMMA ProcessGoes ==
  ASSUME process \in [Processes -> ProcessStates], NEW p \in Processes, NEW s \in Steps, Go(p, s)
  PROVE  /\ process' \in [Processes -> ProcessStates]
         /\ process'[p].step = s /\ process'[p].job = process[p].job
         /\ process'[p].index = process[p].index /\ process'[p].seen = process[p].seen
         /\ \A q \in Processes : q # p => process'[q] = process[q]
<1> DEFINE x == [process[p] EXCEPT !.step = s]
<1>1. /\ x \in ProcessStates /\ x.step = s /\ x.job = process[p].job
      /\ x.index = process[p].index /\ x.seen = process[p].seen
  BY DEF ProcessStates
<1>2. process' = [process EXCEPT ![p] = x]
  BY DEF Go
<1> HIDE DEF x
<1> QED BY <1>1, <1>2

LEMMA NothingSeen == NoStatuses \in [LinkedDrafts -> Statuses] /\ \A r \in LinkedDrafts : NoStatuses[r] = "none"
BY DEF NoStatuses, Statuses

LEMMA ProcessRests ==
  ASSUME process \in [Processes -> ProcessStates], NEW p \in Processes, Rest(p)
  PROVE  /\ process' \in [Processes -> ProcessStates]
         /\ process'[p].step = "idle" /\ process'[p].job = "none" /\ process'[p].seen = NoStatuses
         /\ \A q \in Processes : q # p => process'[q] = process[q]
<1>1. Resting \in ProcessStates /\ Resting.step = "idle" /\ Resting.job = "none" /\ Resting.seen = NoStatuses
  BY NothingSeen, OrderIs DEF Resting, ProcessStates, Steps
<1> QED BY <1>1 DEF Rest

\* Two or three fields of a record changed at once.
LEMMA FieldsOfProcess ==
  ASSUME NEW J, NEW St, NEW N, NEW Se, NEW r \in [job : J, step : St, index : N, seen : Se],
         NEW j \in J, NEW s \in St, NEW n \in N
  PROVE  /\ LET x == [r EXCEPT !.job = j, !.index = n, !.step = s]
            IN  /\ x \in [job : J, step : St, index : N, seen : Se]
                /\ x.job = j /\ x.index = n /\ x.step = s /\ x.seen = r.seen
         /\ LET x == [r EXCEPT !.index = n, !.step = s]
            IN  /\ x \in [job : J, step : St, index : N, seen : Se]
                /\ x.job = r.job /\ x.index = n /\ x.step = s /\ x.seen = r.seen
OBVIOUS

LEMMA ProcessEnters ==
  ASSUME process \in [Processes -> ProcessStates], NEW p \in Processes, NEW j \in Jobs, NEW s \in Steps,
         process' = [process EXCEPT ![p] = [Resting EXCEPT !.job = j, !.index = 1, !.step = s]]
  PROVE  /\ process' \in [Processes -> ProcessStates]
         /\ process'[p].step = s /\ process'[p].job = j
         /\ process'[p].index = 1 /\ process'[p].seen = NoStatuses
         /\ \A q \in Processes : q # p => process'[q] = process[q]
<1>1. Resting \in ProcessStates /\ Resting.seen = NoStatuses
  BY NothingSeen, OrderIs DEF Resting, ProcessStates, Steps
<1>2. j \in Recoveries \cup {"none", "rollout"} /\ 1 \in 0..(Len(Order) + 1)
  BY OrderIs DEF Jobs
<1> HIDE DEF Resting
<1> DEFINE x == [Resting EXCEPT !.job = j, !.index = 1, !.step = s]
<1>3. x \in ProcessStates /\ x.job = j /\ x.index = 1 /\ x.step = s /\ x.seen = NoStatuses
  BY <1>1, <1>2, FieldsOfProcess DEF ProcessStates
<1>4. process' = [process EXCEPT ![p] = x]
  OBVIOUS
<1> HIDE DEF x
<1> QED BY <1>3, <1>4

LEMMA ProcessAdvances ==
  ASSUME process \in [Processes -> ProcessStates], NEW p \in Processes, Advance(p),
         process[p].index \in 0..Len(Order)
  PROVE  /\ process' \in [Processes -> ProcessStates]
         /\ process'[p].step = IF process[p].index = Len(OrderOf(process[p].job)) THEN "finish" ELSE "start"
         /\ process'[p].job = process[p].job
         /\ process'[p].index = process[p].index + 1 /\ process'[p].seen = process[p].seen
         /\ \A q \in Processes : q # p => process'[q] = process[q]
<1> DEFINE s == IF process[p].index = Len(OrderOf(process[p].job)) THEN "finish" ELSE "start"
<1> DEFINE r == process[p]
<1> DEFINE n == r.index + 1
<1> DEFINE x == [r EXCEPT !.index = n, !.step = s]
<1>1. process' = [process EXCEPT ![p] = x]
  BY DEF Advance
<1>2. s \in Steps /\ n \in 0..(Len(Order) + 1) /\ n = process[p].index + 1
  BY OrderIs DEF Steps
<1>3. s = IF process[p].index = Len(OrderOf(process[p].job)) THEN "finish" ELSE "start"
  OBVIOUS
<1>4. r \in ProcessStates /\ r.job = process[p].job /\ r.seen = process[p].seen
  OBVIOUS
<1>5. r.job \in Recoveries \cup {"none", "rollout"}
  BY DEF ProcessStates
<1> HIDE DEF s, n, r
<1>6. x \in ProcessStates /\ x.job = r.job /\ x.index = n /\ x.step = s /\ x.seen = r.seen
  BY <1>2, <1>4, <1>5, FieldsOfProcess DEF ProcessStates
<1> HIDE DEF x
<1> QED BY <1>1, <1>2, <1>3, <1>4, <1>6

LEMMA OrdersAre ==
  ASSUME NEW j
  PROVE  /\ OrderOf(j) \in Seq(LinkedDrafts) /\ Len(OrderOf(j)) \in 0..Len(Order)
         /\ DOMAIN OrderOf(j) = 1..Len(OrderOf(j))
         /\ \A i \in 1..Len(OrderOf(j)) : OrderOf(j)[i] \in LinkedDrafts
         /\ \A a, b \in 1..Len(OrderOf(j)) : OrderOf(j)[a] = OrderOf(j)[b] => a = b
<1>1. CASE j = "rollout"
  BY <1>1, OrderIs DEF OrderOf
<1>2. CASE j # "rollout"
  <2> DEFINE s == Unpublished(recovery[j])
  <2>1. OrderOf(j) = s
    BY <1>2 DEF OrderOf, RetryOrder
  <2>2. Listed(recovery[j], Len(Order), s)
    BY UnpublishedAre
  <2> HIDE DEF s
  <2>3. /\ s \in Seq(LinkedDrafts) /\ Len(s) <= Len(Order)
        /\ \A a, b \in 1..Len(s) : s[a] = s[b] => a = b
    BY <2>2 DEF Listed
  <2>4. Len(s) \in 0..Len(Order)
    BY <2>3, OrderIs
  <2> QED BY <2>1, <2>3, <2>4
<1> QED BY <1>1, <1>2

\* A plan that was not recorded lists nobody.
LEMMA RetriedAreWanted ==
  ASSUME NEW k \in Recoveries, NEW i \in 1..Len(OrderOf(k))
  PROVE  recovery[k][OrderOf(k)[i]].status \in Wanted
<1> DEFINE s == Unpublished(recovery[k])
<1>1. OrderOf(k) = s
  BY JobNames DEF OrderOf, RetryOrder
<1>2. Listed(recovery[k], Len(Order), s)
  BY UnpublishedAre
<1> HIDE DEF s
<1> QED BY <1>1, <1>2 DEF Listed

(***************************************************************************)
(* What a step does to one job                                             *)
(***************************************************************************)
Unclaimed == {"none", "reserved", "prepared"}
OthersStay(p) == \A q \in Processes : q # p => process'[q] = process[q]

\* Nobody comes to serve it, and nobody who serves it goes on.
JobRests(j) ==
  /\ StatusOf(j) \notin Unclaimed => StatusOf(j)' \in {"running"} \cup Ends
  /\ StatusOf(j)' \in Unclaimed => StatusOf(j) \in Unclaimed
  /\ StartedOf(j)' = StartedOf(j) /\ calls'[j] = calls[j] /\ OrderOf(j)' = OrderOf(j)
  /\ \A q \in Processes : Serves(q, j)' => Serves(q, j) /\ process'[q] = process[q]

JobClaimed(p, j) ==
  /\ StatusOf(j) = "prepared" /\ StatusOf(j)' = "running" /\ Len(OrderOf(j)) > 0
  /\ StartedOf(j)' = StartedOf(j) /\ calls'[j] = calls[j] /\ OrderOf(j)' = OrderOf(j)
  /\ process'[p].step = "start" /\ process'[p].index = 1 /\ OthersStay(p)

JobStarted(p, j) ==
  /\ process[p].step = "start" /\ process'[p].step = "execute"
  /\ process'[p].index = process[p].index
  /\ StatusOf(j) = "running" /\ StatusOf(j)' = "running" /\ StartedOf(j)' = process[p].index
  /\ calls'[j] = calls[j] /\ OrderOf(j)' = OrderOf(j) /\ OthersStay(p)

JobExecuted(p, j) ==
  /\ process[p].step \in {"execute", "publishing"}
  /\ \/ process'[p].index = process[p].index /\ process'[p].step \in {"publishing", "failed", "blocked"}
     \/ /\ process'[p].index = process[p].index + 1
        /\ process'[p].step = IF process[p].index = Len(OrderOf(j)) THEN "finish" ELSE "start"
  /\ StatusOf(j)' = StatusOf(j) /\ StartedOf(j)' = StartedOf(j) /\ OrderOf(j)' = OrderOf(j)
  /\ calls'[j] = IF process[p].step = "execute"
                 THEN [calls[j] EXCEPT ![OrderOf(j)[StartedOf(j)]] = @ + 1] ELSE calls[j]
  /\ OthersStay(p)

LEMMA RestingJobFits ==
  ASSUME NEW j \in Jobs, JobFits(j), CallsFit(j), JobRests(j)
  PROVE  JobFits(j)' /\ CallsFit(j)'
<1>s. /\ StatusOf(j) \notin Unclaimed => StatusOf(j)' \in {"running"} \cup Ends
      /\ StatusOf(j)' \in Unclaimed => StatusOf(j) \in Unclaimed
      /\ StartedOf(j)' = StartedOf(j) /\ OrderOf(j)' = OrderOf(j)
      /\ \A q \in Processes : Serves(q, j)' => Serves(q, j) /\ process'[q] = process[q]
  BY DEF JobRests
<1>1. ASSUME NEW q \in Processes, Serves(q, j)'
      PROVE  ServerFits(q, j)'
  <2>1. ServerFits(q, j) /\ process'[q] = process[q]
    BY <1>s, <1>1 DEF JobFits
  <2>2. StatusOf(j)' \in {"running"} \cup Ends
    BY <1>s, <2>1 DEF ServerFits, Unclaimed, Ends
  <2> QED BY <1>s, <2>1, <2>2 DEF ServerFits
<1>2. JobFits(j)'
  BY <1>s, <1>1 DEF JobFits, Unclaimed
<1>3. CallsFit(j)'
  BY DEF CallsFit, JobRests
<1> QED BY <1>2, <1>3

LEMMA ClaimedJobFits ==
  ASSUME NEW j \in Jobs, NEW p \in Processes, JobFits(j), CallsFit(j), JobClaimed(p, j), process'[p].job = j
  PROVE  JobFits(j)' /\ CallsFit(j)'
<1>1. StartedOf(j) = 0 /\ \A q \in Processes : ~Serves(q, j)
  BY DEF JobFits, JobClaimed, ServerFits, Ends
<1>2. \A q \in Processes : Serves(q, j)' => q = p
  BY <1>1 DEF JobClaimed, OthersStay, Serves
<1>3. ServerFits(p, j)'
  BY <1>1 DEF ServerFits, JobClaimed
<1>4. JobFits(j)'
  BY <1>1, <1>2, <1>3 DEF JobFits, JobClaimed
<1>5. CallsFit(j)'
  BY <1>2 DEF CallsFit, JobClaimed
<1> QED BY <1>4, <1>5

LEMMA StartedJobFits ==
  ASSUME NEW j \in Jobs, NEW p \in Processes, JobFits(j), CallsFit(j), Serves(p, j), JobStarted(p, j),
         process \in [Processes -> ProcessStates], process'[p].job = j, calls[j] \in [LinkedDrafts -> Nat]
  PROVE  JobFits(j)' /\ CallsFit(j)'
<1>1. /\ StartedOf(j) = process[p].index - 1 /\ StartedOf(j) < Len(OrderOf(j))
      /\ StartedOf(j) \in 0..Len(OrderOf(j)) /\ Len(OrderOf(j)) \in Nat
  BY OrdersAre DEF JobFits, JobStarted, ServerFits
<1>p. process[p].index \in Nat
  BY DEF ProcessStates
<1>2. StartedOf(j)' = StartedOf(j) + 1 /\ process[p].index = StartedOf(j) + 1
  BY <1>1, <1>p DEF JobStarted
<1>3. \A q \in Processes : Serves(q, j)' => q = p
  BY DEF JobFits, JobStarted, OthersStay, Serves
<1>4. ServerFits(p, j)'
  BY <1>1, <1>2 DEF ServerFits, JobStarted
<1>5. JobFits(j)'
  BY <1>1, <1>2, <1>3, <1>4 DEF JobFits, JobStarted
<1>6. \A i \in 1..Len(OrderOf(j)) : calls[j][OrderOf(j)[i]] <= IF i <= StartedOf(j) + 1 THEN 1 ELSE 0
  <2> SUFFICES ASSUME NEW i \in 1..Len(OrderOf(j))
               PROVE  calls[j][OrderOf(j)[i]] <= IF i <= StartedOf(j) + 1 THEN 1 ELSE 0
    OBVIOUS
  <2>1. calls[j][OrderOf(j)[i]] \in Nat
    BY OrdersAre
  <2>2. calls[j][OrderOf(j)[i]] <= IF i <= StartedOf(j) THEN 1 ELSE 0
    BY DEF CallsFit
  <2> QED BY <1>1, <2>1, <2>2
<1>7. calls[j][OrderOf(j)[StartedOf(j) + 1]] = 0
  <2>1. StartedOf(j) + 1 \in 1..Len(OrderOf(j)) /\ ~(StartedOf(j) + 1 <= StartedOf(j))
    BY <1>1
  <2>2. calls[j][OrderOf(j)[StartedOf(j) + 1]] <= 0
    BY <2>1 DEF CallsFit
  <2>3. calls[j][OrderOf(j)[StartedOf(j) + 1]] \in Nat
    BY <2>1, OrdersAre
  <2> QED BY <2>2, <2>3
<1>8. \A r \in LinkedDrafts : r \notin Range(OrderOf(j)) => calls[j][r] = 0
  BY DEF CallsFit
<1>9. CallsFit(j)'
  BY <1>2, <1>3, <1>6, <1>7, <1>8 DEF CallsFit, JobStarted
<1> QED BY <1>5, <1>9

LEMMA ExecutedJobFits ==
  ASSUME NEW j \in Jobs, NEW p \in Processes, JobFits(j), CallsFit(j), Serves(p, j), JobExecuted(p, j),
         process \in [Processes -> ProcessStates], process'[p].job = j, calls[j] \in [LinkedDrafts -> Nat]
  PROVE  JobFits(j)' /\ CallsFit(j)'
<1>1. /\ StartedOf(j) = process[p].index /\ StartedOf(j) > 0
      /\ StartedOf(j) \in 0..Len(OrderOf(j)) /\ Len(OrderOf(j)) \in Nat
      /\ StatusOf(j) \in {"running"} \cup Ends
  BY OrdersAre DEF JobFits, JobExecuted, ServerFits
<1>2. \A q \in Processes : Serves(q, j)' => q = p
  BY DEF JobFits, JobExecuted, OthersStay, Serves
<1>p. process[p].index \in Nat
  BY DEF ProcessStates
<1>3. ServerFits(p, j)'
  <2>s. StatusOf(j)' = StatusOf(j) /\ StartedOf(j)' = StartedOf(j) /\ OrderOf(j)' = OrderOf(j)
    BY DEF JobExecuted
  <2>1. CASE process'[p].index = process[p].index /\ process'[p].step \in {"publishing", "failed", "blocked"}
    BY <1>1, <2>1, <2>s DEF ServerFits
  <2>2. CASE /\ process'[p].index = process[p].index + 1
             /\ process'[p].step = IF process[p].index = Len(OrderOf(j)) THEN "finish" ELSE "start"
    <3>1. CASE process[p].index = Len(OrderOf(j))
      BY <1>1, <2>2, <2>s, <3>1 DEF ServerFits
    <3>2. CASE process[p].index # Len(OrderOf(j))
      <4>1. StartedOf(j) < Len(OrderOf(j)) /\ StartedOf(j) = process[p].index + 1 - 1
        BY <1>1, <1>p, <3>2
      <4>2. process'[p].step = "start"
        BY <2>2, <3>2
      <4> QED BY <1>1, <2>2, <2>s, <4>1, <4>2 DEF ServerFits
    <3> QED BY <3>1, <3>2
  <2> QED BY <2>1, <2>2 DEF JobExecuted
<1>4. JobFits(j)'
  BY <1>1, <1>2, <1>3 DEF JobFits, JobExecuted, Ends
<1>5. process'[p].step # "execute"
  BY DEF JobExecuted
<1>6. CASE process[p].step # "execute"
  <2>1. calls'[j] = calls[j]
    BY <1>6 DEF JobExecuted
  <2>2. CallsFit(j)'
    BY <1>2, <1>5, <2>1 DEF CallsFit, JobExecuted
  <2> QED BY <1>4, <2>2
<1>7. CASE process[p].step = "execute"
  <2> DEFINE m == OrderOf(j)[StartedOf(j)]
  <2>1. m \in LinkedDrafts /\ m \in Range(OrderOf(j)) /\ StartedOf(j) \in 1..Len(OrderOf(j))
    BY <1>1, OrdersAre DEF Range
  <2>2. calls[j][m] = 0
    BY <1>7 DEF CallsFit
  <2>3. calls'[j] = [calls[j] EXCEPT ![m] = @ + 1]
    BY <1>7 DEF JobExecuted
  <2>4. \A i \in 1..Len(OrderOf(j)) : i # StartedOf(j) => OrderOf(j)[i] # m
    BY <2>1, OrdersAre
  <2>o. OrderOf(j)[StartedOf(j)] = m
    OBVIOUS
  <2> HIDE DEF m
  <2>5. calls'[j][m] = 1 /\ \A r \in LinkedDrafts : r # m => calls'[j][r] = calls[j][r]
    BY <2>1, <2>2, <2>3
  <2>6. \A i \in 1..Len(OrderOf(j)) : calls'[j][OrderOf(j)[i]] <= IF i <= StartedOf(j) THEN 1 ELSE 0
    <3> SUFFICES ASSUME NEW i \in 1..Len(OrderOf(j))
                 PROVE  calls'[j][OrderOf(j)[i]] <= IF i <= StartedOf(j) THEN 1 ELSE 0
      OBVIOUS
    <3>1. CASE i = StartedOf(j)
      <4>1. calls'[j][OrderOf(j)[i]] = 1 /\ i <= StartedOf(j)
        BY <1>1, <2>5, <2>o, <3>1
      <4> QED BY <4>1
    <3>2. CASE i # StartedOf(j)
      <4>1. calls'[j][OrderOf(j)[i]] = calls[j][OrderOf(j)[i]]
        BY <2>4, <2>5, <3>2, OrdersAre
      <4> QED BY <4>1 DEF CallsFit
    <3> QED BY <3>1, <3>2
  <2>7. \A r \in LinkedDrafts : r \notin Range(OrderOf(j)) => calls'[j][r] = 0
    BY <2>1, <2>5 DEF CallsFit
  <2>8. OrderOf(j)' = OrderOf(j) /\ StartedOf(j)' = StartedOf(j)
    BY DEF JobExecuted
  <2>9. CallsFit(j)'
    BY <1>2, <1>5, <2>6, <2>7, <2>8 DEF CallsFit
  <2> QED BY <1>4, <2>9
<1> QED BY <1>6, <1>7

(***************************************************************************)
(* What a step leaves of the invariant                                     *)
(***************************************************************************)
LEMMA LinkedInvTypes ==
  ASSUME LinkedInv
  PROVE  /\ publication \in [LinkedDrafts -> Publications] /\ rollout \in Rollouts
         /\ decided \subseteq Recoveries /\ opened \subseteq LinkedDrafts
         /\ recovery \in [Recoveries -> Snapshots] /\ retry \in [Recoveries -> Retries]
         /\ process \in [Processes -> ProcessStates]
         /\ calls \in [Jobs -> [LinkedDrafts -> Nat]] /\ events \in Nat
BY LinkedTypesAre DEF LinkedInv

ManifestStays ==
  rollout.status # "reserved" => rollout'.status # "reserved" /\ rollout'.manifest = rollout.manifest

LEMMA OtherProcessFits ==
  ASSUME NEW q, ProcessFits(q), process'[q] = process[q], ManifestStays
  PROVE  ProcessFits(q)'
BY DEF ProcessFits, ManifestStays, Doing

LEMMA PlanStays ==
  ASSUME NEW k \in Recoveries, PlanFits(k), recovery'[k] = recovery[k], decided' = decided, opened \subseteq opened',
         rollout.status \in {"partial", "blocked", "failed"} => rollout'.status = rollout.status,
         retry[k].status # "none" => retry'[k].status # "none",
         retry[k].status = "none" =>
           /\ retry'[k] = retry[k] /\ calls'[k] = calls[k]
           /\ \A q \in Processes : process'[q].job = k => process[q].job = k,
         retry'[k].status = "succeeded" => retry[k].status = "succeeded" \/ LinkedDrafts \subseteq opened',
         retry'[k].status = "partial" => retry[k].status = "partial" \/ opened' # {}
  PROVE  PlanFits(k)'
<1>1. RetryOrder(k)' = RetryOrder(k)
  BY DEF RetryOrder
<1>2. recovery'[k] # NoPlan => rollout'.status \in {"partial", "blocked", "failed"}
  BY DEF PlanFits
<1>3. retry'[k].status # "none" => recovery'[k] # NoPlan /\ RetryOrder(k)' # <<>> /\ k \notin decided'
  BY <1>1 DEF PlanFits
<1>4. retry'[k].status = "none" =>
        /\ retry'[k] = NotStarted
        /\ \A p \in Processes : process'[p].job # k
        /\ \A r \in LinkedDrafts : calls'[k][r] = 0
  BY DEF PlanFits
<1>5. /\ retry'[k].status = "succeeded" => LinkedDrafts \subseteq opened'
      /\ retry'[k].status = "partial" => opened' # {}
  BY DEF PlanFits
<1> QED BY <1>2, <1>3, <1>4, <1>5 DEF PlanFits

LEMMA RolloutStays ==
  ASSUME RolloutFits, rollout' = rollout, opened \subseteq opened',
         \A q \in Processes : Serves(q, "rollout")' =>
           /\ Serves(q, "rollout")
           /\ \A i \in 1..(process'[q].index - 1) : Order[i] \in opened'
  PROVE  RolloutFits'
BY DEF RolloutFits

LEMMA UndisturbedStays ==
  ASSUME Undisturbed, publication' = publication, rollout' = rollout,
         \A q \in Processes : process'[q].seen = process[q].seen \/ process'[q].seen = NoStatuses,
         \A q \in Processes : Serves(q, "rollout") => process'[q] = process[q]
  PROVE  Undisturbed'
<1>1. \A q \in Processes, r \in LinkedDrafts :
        process'[q].seen[r] # "none" => process'[q].seen[r] = process[q].seen[r]
  BY NothingSeen
<1>2. rollout.status = "running" =>
        \E p \in Processes : Serves(p, "rollout")' /\ \A i \in 1..Len(Order) : MemberIsAt(p, i)'
  BY DEF Undisturbed, Serves, MemberIsAt
<1> QED BY <1>1, <1>2 DEF Undisturbed

\* Acts of others on the publications.
LEMMA PublicationsAct ==
  ASSUME LinkedInv, UNCHANGED <<rollout, recovery, decided, retry, process, calls>>,
         publication' \in [LinkedDrafts -> Publications], opened \subseteq opened', opened' \subseteq LinkedDrafts,
         PublicationsFit', events' \in Nat, events' = 0 => Undisturbed'
  PROVE  LinkedInv'
<1>1. LinkedTypeOK'
  BY LinkedInvTypes, LinkedTypesAre DEF LinkedTypeOK, Publications
<1>2. \A p \in Processes : ProcessFits(p)'
  BY OtherProcessFits DEF LinkedInv, ManifestStays
<1>3. \A j \in Jobs : JobFits(j)' /\ CallsFit(j)'
  <2> SUFFICES ASSUME NEW j \in Jobs PROVE JobFits(j)' /\ CallsFit(j)'
    OBVIOUS
  <2>1. JobRests(j)
    BY LinkedInvTypes DEF JobRests, StatusOf, StartedOf, OrderOf, RetryOrder, Serves, Rollouts, Retries, Unclaimed, Jobs
  <2> QED BY <2>1, RestingJobFits DEF LinkedInv
<1>4. \A k \in Recoveries : PlanFits(k)'
  BY PlanStays DEF LinkedInv
<1>5. RolloutFits'
  BY DEF LinkedInv, RolloutFits, Serves
<1> QED BY <1>1, <1>2, <1>3, <1>4, <1>5 DEF LinkedInv

\* A job whose row, plan and calls stay, and that no process comes to serve.
LEMMA JobIsLeft ==
  ASSUME LinkedInv, NEW j \in Jobs, UNCHANGED <<StatusOf(j), StartedOf(j)>>, calls'[j] = calls[j],
         recovery' = recovery,
         \A q \in Processes : Serves(q, j)' => Serves(q, j) /\ process'[q] = process[q]
  PROVE  JobFits(j)' /\ CallsFit(j)'
<1>1. OrderOf(j)' = OrderOf(j)
  BY DEF OrderOf, RetryOrder
<1>2. StatusOf(j) \notin Unclaimed => StatusOf(j) \in {"running"} \cup Ends
  BY LinkedInvTypes DEF StatusOf, Rollouts, Retries, Unclaimed, Jobs
<1>3. JobRests(j)
  BY <1>1, <1>2 DEF JobRests
<1> QED BY <1>3, RestingJobFits DEF LinkedInv

(***************************************************************************)
(* Operators, and plans                                                    *)
(***************************************************************************)
LEMMA FieldsOfPublication ==
  ASSUME NEW St, NEW Nr, NEW By, NEW Ho, NEW x \in [status : St, attempts : Nr, by : By, holder : Ho],
         NEW s \in St, NEW a \in Nr, NEW b \in By, NEW h \in Ho
  PROVE  /\ [x EXCEPT !.status = s, !.by = b] \in [status : St, attempts : Nr, by : By, holder : Ho]
         /\ [x EXCEPT !.status = s, !.by = b].status = s
         /\ [x EXCEPT !.status = s, !.by = b].holder = x.holder
         /\ [x EXCEPT !.status = s, !.attempts = a, !.holder = h] \in [status : St, attempts : Nr, by : By, holder : Ho]
         /\ [x EXCEPT !.status = s, !.attempts = a, !.holder = h].status = s
         /\ [x EXCEPT !.status = s, !.attempts = a, !.holder = h].holder = h
         /\ [x EXCEPT !.status = s, !.holder = h] \in [status : St, attempts : Nr, by : By, holder : Ho]
         /\ [x EXCEPT !.status = s, !.holder = h].status = s
         /\ [x EXCEPT !.status = s, !.holder = h].holder = h
         /\ [x EXCEPT !.status = s] \in [status : St, attempts : Nr, by : By, holder : Ho]
         /\ [x EXCEPT !.status = s].status = s
         /\ [x EXCEPT !.status = s].holder = x.holder
         /\ [x EXCEPT !.holder = h] \in [status : St, attempts : Nr, by : By, holder : Ho]
         /\ [x EXCEPT !.holder = h].status = x.status
OBVIOUS

LEMMA PublicationBecomes ==
  ASSUME publication \in [LinkedDrafts -> Publications], PublicationsFit, NEW r \in LinkedDrafts,
         NEW x \in Publications, publication' = [publication EXCEPT ![r] = x],
         opened \subseteq opened', x.status \in Delivered => r \in opened'
  PROVE  /\ publication' \in [LinkedDrafts -> Publications] /\ PublicationsFit'
         /\ publication'[r] = x /\ \A q \in LinkedDrafts : q # r => publication'[q] = publication[q]
<1>1. /\ publication' \in [LinkedDrafts -> Publications]
      /\ publication'[r] = x /\ \A q \in LinkedDrafts : q # r => publication'[q] = publication[q]
  OBVIOUS
<1>2. PublicationsFit'
  <2> SUFFICES ASSUME NEW q \in LinkedDrafts, publication'[q].status \in Delivered PROVE q \in opened'
    BY DEF PublicationsFit
  <2> QED BY <1>1 DEF PublicationsFit
<1> QED BY <1>1, <1>2

LEMMA OperatorsAct ==
  ASSUME LinkedInv, NEW r \in LinkedDrafts, NEW s \in Statuses,
         OperatorAdmits(r, s) \/ OperatorEnds(r, s) \/ Refresh(r, s) \/ OperatorExecutes(r)
  PROVE  LinkedInv'
<1>t. /\ publication \in [LinkedDrafts -> Publications] /\ PublicationsFit
      /\ opened \subseteq LinkedDrafts /\ events \in Nat
  BY LinkedInvTypes DEF LinkedInv
<1> DEFINE y == publication[r]
<1>y. y \in Publications /\ y = publication[r]
  BY <1>t
<1>n. y.status \in Delivered => r \in opened
  BY <1>t DEF PublicationsFit
<1>1. CASE OperatorAdmits(r, s)
  <2> DEFINE x == [y EXCEPT !.status = s, !.by = "operator"]
  <2>1. publication' = [publication EXCEPT ![r] = x]
    BY <1>1, <1>t DEF OperatorAdmits
  <2> HIDE DEF y
  <2>2. x \in Publications /\ x.status = s
    BY <1>y, FieldsOfPublication DEF Publications
  <2> HIDE DEF x
  <2>3. s \notin Delivered /\ opened' = opened /\ events' = events + 1
    BY <1>1 DEF OperatorAdmits, Delivered, Drafts
  <2>4. publication' \in [LinkedDrafts -> Publications] /\ PublicationsFit'
    BY <1>t, <2>1, <2>2, <2>3, PublicationBecomes
  <2>5. events' \in Nat /\ events' # 0
    BY <1>t, <2>3
  <2>6. UNCHANGED <<rollout, recovery, decided, retry, process, calls>>
    BY <1>1 DEF OperatorAdmits
  <2> QED BY <1>t, <2>3, <2>4, <2>5, <2>6, PublicationsAct
<1>2. CASE OperatorExecutes(r)
  <2> DEFINE a == y.attempts + 1
  <2> DEFINE x == [y EXCEPT !.status = "running", !.attempts = a, !.holder = "operator"]
  <2>0. a \in 0..MaxAttempts
    BY <1>2, <1>y, LinkedAssumption DEF OperatorExecutes, Publications
  <2>1. publication' = [publication EXCEPT ![r] = x]
    BY <1>2, <1>t DEF OperatorExecutes
  <2> HIDE DEF y, a
  <2>s. "running" \in Statuses /\ "operator" \in {"none", "operator", "gone"} \cup Processes
    BY DEF Statuses
  <2>2. x \in Publications /\ x.status = "running"
    BY <1>y, <2>0, <2>s, FieldsOfPublication DEF Publications
  <2> HIDE DEF x
  <2>3. "running" \notin Delivered /\ opened' = opened /\ events' = events + 1
    BY <1>2 DEF OperatorExecutes, Delivered, Drafts
  <2>4. publication' \in [LinkedDrafts -> Publications] /\ PublicationsFit'
    BY <1>t, <2>1, <2>2, <2>3, PublicationBecomes
  <2>5. events' \in Nat /\ events' # 0
    BY <1>t, <2>3
  <2>6. UNCHANGED <<rollout, recovery, decided, retry, process, calls>>
    BY <1>2 DEF OperatorExecutes
  <2> QED BY <1>t, <2>3, <2>4, <2>5, <2>6, PublicationsAct
<1>3. CASE OperatorEnds(r, s)
  <2> DEFINE x == [y EXCEPT !.status = s, !.holder = "none"]
  <2>1. publication' = [publication EXCEPT ![r] = x]
    BY <1>3, <1>t DEF OperatorEnds
  <2>h. y.holder = "operator"
    BY <1>3 DEF OperatorEnds
  <2> HIDE DEF y
  <2>2. x \in Publications /\ x.status = s
    BY <1>y, FieldsOfPublication DEF Publications
  <2> HIDE DEF x
  <2>3. /\ opened' = IF s = "published" THEN opened \cup {r} ELSE opened
        /\ s \in {"published", "failed", "blocked"} /\ events' = events
    BY <1>3 DEF OperatorEnds
  <2>4. opened \subseteq opened' /\ opened' \subseteq LinkedDrafts /\ (s \in Delivered => r \in opened')
    BY <1>t, <2>3 DEF Delivered, Drafts
  <2>5. publication' \in [LinkedDrafts -> Publications] /\ PublicationsFit'
    BY <1>t, <2>1, <2>2, <2>4, PublicationBecomes
  <2>6. events # 0
    BY <1>y, <2>h DEF LinkedInv, Undisturbed
  <2>7. UNCHANGED <<rollout, recovery, decided, retry, process, calls>>
    BY <1>3 DEF OperatorEnds
  <2> QED BY <1>t, <2>3, <2>4, <2>5, <2>6, <2>7, PublicationsAct
<1>4. CASE Refresh(r, s)
  <2> DEFINE x == [y EXCEPT !.status = s]
  <2>1. publication' = [publication EXCEPT ![r] = x]
    BY <1>4, <1>t DEF Refresh
  <2>h. y.status \in Delivered
    BY <1>4 DEF Refresh, Delivered
  <2> HIDE DEF y
  <2>2. x \in Publications /\ x.status = s
    BY <1>y, FieldsOfPublication DEF Publications
  <2> HIDE DEF x
  <2>3. r \in opened /\ opened' = opened /\ events' = events + 1
    BY <1>4, <1>n, <2>h DEF Refresh
  <2>4. publication' \in [LinkedDrafts -> Publications] /\ PublicationsFit'
    BY <1>t, <2>1, <2>2, <2>3, PublicationBecomes
  <2>5. events' \in Nat /\ events' # 0
    BY <1>t, <2>3
  <2>6. UNCHANGED <<rollout, recovery, decided, retry, process, calls>>
    BY <1>4 DEF Refresh
  <2> QED BY <1>t, <2>3, <2>4, <2>5, <2>6, PublicationsAct
<1> QED BY <1>1, <1>2, <1>3, <1>4

\* A plan is derived from what the publications are.
LEMMA PlanAdmitted ==
  ASSUME LinkedInv, NEW k \in Recoveries, AdmitRecovery(k)
  PROVE  LinkedInv'
<1>t. /\ publication \in [LinkedDrafts -> Publications] /\ recovery \in [Recoveries -> Snapshots]
      /\ retry \in [Recoveries -> Retries] /\ calls \in [Jobs -> [LinkedDrafts -> Nat]]
      /\ process \in [Processes -> ProcessStates]
  BY LinkedInvTypes
<1>1. Snapshot \in Snapshots
  BY <1>t DEF Snapshot, Snapshots, Publications
<1>u. /\ recovery' = [recovery EXCEPT ![k] = Snapshot] /\ recovery[k] = NoPlan
      /\ UNCHANGED <<publication, rollout, decided, retry, process, opened, calls, events>>
      /\ rollout.status \in {"partial", "blocked", "failed"}
  BY DEF AdmitRecovery
<1>2. recovery' \in [Recoveries -> Snapshots] /\ \A l \in Recoveries : l # k => recovery'[l] = recovery[l]
  BY <1>t, <1>1, <1>u
<1>3. LinkedTypeOK'
  <2>1. LinkedTypeOK
    BY DEF LinkedInv
  <2> QED BY <1>2, <1>u, <2>1 DEF LinkedTypeOK, Snapshots
<1>4. \A p \in Processes : ProcessFits(p)'
  BY <1>u, OtherProcessFits DEF LinkedInv, ManifestStays
<1>5. retry[k] = NotStarted /\ retry[k].status = "none" /\ retry[k].started = 0
      /\ (\A p \in Processes : process[p].job # k) /\ \A r \in LinkedDrafts : calls[k][r] = 0
  <2>1. PlanFits(k) /\ retry[k].status = "none"
    BY <1>u DEF LinkedInv, PlanFits
  <2> QED BY <2>1 DEF PlanFits, NotStarted
<1>6. ASSUME NEW j \in Jobs PROVE JobFits(j)' /\ CallsFit(j)'
  <2>1. CASE j # k
    <3>1. OrderOf(j)' = OrderOf(j)
      BY <1>2, <2>1 DEF OrderOf, RetryOrder, Jobs
    <3>2. JobRests(j)
      BY <1>u, <3>1, LinkedInvTypes DEF JobRests, StatusOf, StartedOf, Serves, Rollouts, Retries, Unclaimed, Jobs
    <3> QED BY <3>2, RestingJobFits DEF LinkedInv
  <2>2. CASE j = k
    <3>1. StatusOf(k)' = "none" /\ StartedOf(k)' = 0 /\ \A p \in Processes : ~Serves(p, k)'
      BY <1>5, <1>u, JobNames DEF StatusOf, StartedOf, Serves
    <3>2. Len(OrderOf(k)') \in Nat /\ \A i \in 1..Len(OrderOf(k)') : OrderOf(k)'[i] \in LinkedDrafts
      <4> DEFINE s == Unpublished(recovery'[k])
      <4>1. OrderOf(k)' = s
        BY JobNames DEF OrderOf, RetryOrder
      <4>2. Listed(recovery'[k], Len(Order), s)
        BY UnpublishedAre
      <4> HIDE DEF s
      <4> QED BY <4>1, <4>2 DEF Listed
    <3>3. JobFits(k)'
      BY <3>1, <3>2 DEF JobFits
    <3>4. \A i \in 1..Len(OrderOf(k)') : calls[k][OrderOf(k)'[i]] = 0
      BY <1>5, <3>2
    <3>5. calls'[k] = calls[k]
      BY <1>u
    <3>6. CallsFit(k)'
      BY <1>5, <3>1, <3>4, <3>5 DEF CallsFit
    <3> QED BY <2>2, <3>3, <3>6
  <2> QED BY <2>1, <2>2
<1>7. ASSUME NEW l \in Recoveries PROVE PlanFits(l)'
  <2>1. CASE l # k
    <3>1. recovery'[l] = recovery[l] /\ PlanFits(l)
      BY <1>2, <2>1 DEF LinkedInv
    <3> QED BY <1>u, <3>1, PlanStays
  <2>2. CASE l = k
    BY <1>5, <1>u, <2>2 DEF PlanFits
  <2> QED BY <2>1, <2>2
<1>8. RolloutFits' /\ PublicationsFit' /\ (events' = 0 => Undisturbed')
  BY <1>u DEF LinkedInv, RolloutFits, PublicationsFit, Undisturbed, Serves, MemberIsAt
<1> QED BY <1>3, <1>4, <1>6, <1>7, <1>8, <1>u DEF LinkedInv

LEMMA FieldsOfRetry ==
  ASSUME NEW St, NEW Sa, NEW Re, NEW Fa, NEW x \in [status : St, started : Sa, result : Re, failed : Fa],
         NEW s \in St, NEW a \in Sa
  PROVE  /\ [x EXCEPT !.status = s] \in [status : St, started : Sa, result : Re, failed : Fa]
         /\ [x EXCEPT !.status = s].status = s /\ [x EXCEPT !.status = s].started = x.started
         /\ [x EXCEPT !.started = a] \in [status : St, started : Sa, result : Re, failed : Fa]
         /\ [x EXCEPT !.started = a].status = x.status /\ [x EXCEPT !.started = a].started = a
OBVIOUS

LEMMA EndOfRetry ==
  ASSUME NEW St, NEW Sa, NEW Re, NEW Fa, NEW x \in [status : St, started : Sa, result : Re, failed : Fa],
         NEW s \in St, NEW r \in Re, NEW f \in Fa
  PROVE  /\ [x EXCEPT !.status = s, !.result = r, !.failed = f] \in [status : St, started : Sa, result : Re, failed : Fa]
         /\ [x EXCEPT !.status = s, !.result = r, !.failed = f].status = s
         /\ [x EXCEPT !.status = s, !.result = r, !.failed = f].started = x.started
OBVIOUS

\* A retry that is reserved, or a plan that is decided.
LEMMA PlanConsumed ==
  ASSUME LinkedInv, NEW k \in Recoveries, ReserveRetry(k) \/ Decide(k)
  PROVE  LinkedInv'
<1>t. /\ retry \in [Recoveries -> Retries] /\ decided \subseteq Recoveries /\ LinkedTypeOK
  BY LinkedInvTypes DEF LinkedInv
<1>u. UNCHANGED <<publication, rollout, recovery, process, opened, calls, events>>
  BY DEF ReserveRetry, Decide
<1>c. recovery[k] # NoPlan /\ k \notin decided /\ retry[k] = NotStarted
  BY DEF ReserveRetry, Retryable, Decide
<1>p. PlanFits(k)
  BY DEF LinkedInv
<1>1. /\ retry' \in [Recoveries -> Retries] /\ decided' \subseteq Recoveries
      /\ \A l \in Recoveries : l # k => retry'[l] = retry[l] /\ (l \in decided' <=> l \in decided)
      /\ \/ retry'[k].status = "reserved" /\ retry'[k].started = 0 /\ k \notin decided' /\ RetryOrder(k) # <<>>
         \/ retry'[k] = NotStarted
  <2>1. CASE ReserveRetry(k)
    <3> DEFINE y == retry[k]
    <3> DEFINE x == [y EXCEPT !.status = "reserved"]
    <3>1. retry' = [retry EXCEPT ![k] = x] /\ decided' = decided /\ RetryOrder(k) # <<>>
      BY <2>1 DEF ReserveRetry, Retryable
    <3>3. y.started = 0 /\ y \in Retries /\ 0 \in 0..Len(Order)
      BY <1>c, <1>t, OrderIs DEF NotStarted
    <3> HIDE DEF y
    <3>2. x \in Retries /\ x.status = "reserved" /\ x.started = y.started
      BY <3>3, FieldsOfRetry DEF Retries
    <3> HIDE DEF x
    <3> QED BY <1>t, <1>c, <3>1, <3>2, <3>3
  <2>2. CASE Decide(k)
    BY <1>t, <1>c, <2>2 DEF Decide
  <2> QED BY <2>1, <2>2
<1>2. LinkedTypeOK'
  BY <1>1, <1>t, <1>u DEF LinkedTypeOK, Retries
<1>3. \A p \in Processes : ProcessFits(p)'
  BY <1>u, OtherProcessFits DEF LinkedInv, ManifestStays
<1>4. (\A p \in Processes : process[p].job # k) /\ \A r \in LinkedDrafts : calls[k][r] = 0
  BY <1>c, <1>p DEF PlanFits, NotStarted
<1>5. ASSUME NEW j \in Jobs PROVE JobFits(j)' /\ CallsFit(j)'
  <2>1. OrderOf(j)' = OrderOf(j)
    BY <1>u DEF OrderOf, RetryOrder
  <2>2. CASE j # k
    <3>1. JobRests(j)
      BY <1>1, <1>u, <2>1, <2>2, LinkedInvTypes
         DEF JobRests, StatusOf, StartedOf, Serves, Rollouts, Retries, Unclaimed, Jobs
    <3> QED BY <3>1, RestingJobFits DEF LinkedInv
  <2>3. CASE j = k
    <3>1. StatusOf(k) = "none" /\ StartedOf(k) = 0
      BY <1>c, JobNames DEF StatusOf, StartedOf, NotStarted
    <3>2. StatusOf(k)' \in Unclaimed /\ StartedOf(k)' = 0
      <4>1. retry'[k].status \in {"none", "reserved"} /\ retry'[k].started = 0
        BY <1>1 DEF NotStarted
      <4> QED BY <4>1, JobNames DEF StatusOf, StartedOf, Unclaimed
    <3>3. JobRests(k)
      <4>1. calls'[k] = calls[k] /\ \A q \in Processes : Serves(q, k)' => Serves(q, k) /\ process'[q] = process[q]
        BY <1>u DEF Serves
      <4>2. StatusOf(k) \in Unclaimed
        BY <3>1 DEF Unclaimed
      <4> QED BY <2>1, <2>3, <3>1, <3>2, <4>1, <4>2 DEF JobRests
    <3> QED BY <2>3, <3>3, RestingJobFits DEF LinkedInv
  <2> QED BY <2>2, <2>3
<1>6. ASSUME NEW l \in Recoveries PROVE PlanFits(l)'
  <2>1. RetryOrder(l)' = RetryOrder(l) /\ PlanFits(l)
    BY <1>u DEF RetryOrder, LinkedInv
  <2>2. CASE l # k
    BY <1>1, <1>u, <2>1, <2>2 DEF PlanFits
  <2>3. CASE l = k /\ retry'[k] = NotStarted
    BY <1>1, <1>4, <1>p, <1>u, <2>3 DEF PlanFits, NotStarted
  <2>4. CASE l = k /\ retry'[k].status = "reserved" /\ k \notin decided' /\ RetryOrder(k) # <<>>
    BY <1>1, <1>c, <1>p, <1>u, <2>1, <2>4 DEF PlanFits
  <2> QED BY <1>1, <2>2, <2>3, <2>4
<1>7. RolloutFits' /\ PublicationsFit' /\ (events' = 0 => Undisturbed')
  BY <1>u DEF LinkedInv, RolloutFits, PublicationsFit, Undisturbed, Serves, MemberIsAt
<1> QED BY <1>2, <1>3, <1>5, <1>6, <1>7, <1>u DEF LinkedInv

(***************************************************************************)
(* The rollout until it is claimed                                         *)
(***************************************************************************)
\* A step of one process that leaves the retries alone.
LEMMA RolloutActs ==
  ASSUME LinkedInv, NEW p \in Processes, UNCHANGED <<recovery, decided, retry, opened, calls>>,
         publication' \in [LinkedDrafts -> Publications], PublicationsFit',
         rollout' \in Rollouts, process' \in [Processes -> ProcessStates], OthersStay(p), ManifestStays,
         ProcessFits(p)', process'[p].step \in Serving => process'[p].job = "rollout",
         process'[p].job \in Recoveries => retry[process'[p].job].status # "none",
         rollout.status \in {"partial", "blocked", "failed"} => rollout'.status = rollout.status,
         JobFits("rollout")' /\ CallsFit("rollout")', RolloutFits',
         events' \in Nat, events' = 0 => Undisturbed'
  PROVE  LinkedInv'
<1>1. LinkedTypeOK'
  <2>1. LinkedTypeOK
    BY DEF LinkedInv
  <2> QED BY <2>1 DEF LinkedTypeOK, Publications, Rollouts, ProcessStates, Steps
<1>2. ASSUME NEW q \in Processes PROVE ProcessFits(q)'
  <2>1. CASE q = p
    BY <2>1
  <2>2. CASE q # p
    BY <2>2, OtherProcessFits DEF LinkedInv, OthersStay
  <2> QED BY <2>1, <2>2
<1>3. ASSUME NEW j \in Jobs PROVE JobFits(j)' /\ CallsFit(j)'
  <2>1. CASE j = "rollout"
    BY <2>1
  <2>2. CASE j # "rollout"
    <3>1. UNCHANGED <<StatusOf(j), StartedOf(j)>> /\ calls'[j] = calls[j]
      BY <2>2 DEF StatusOf, StartedOf
    <3>2. \A q \in Processes : Serves(q, j)' => Serves(q, j) /\ process'[q] = process[q]
      BY <2>2 DEF Serves, OthersStay
    <3> QED BY <3>1, <3>2, JobIsLeft
  <2> QED BY <2>1, <2>2
<1>4. ASSUME NEW k \in Recoveries PROVE PlanFits(k)'
  <2>1. retry[k].status = "none" => \A q \in Processes : process'[q].job = k => process[q].job = k
    BY DEF OthersStay
  <2> QED BY <2>1, PlanStays DEF LinkedInv
<1> QED BY <1>1, <1>2, <1>3, <1>4 DEF LinkedInv

\* The job of the rollout, when nobody comes to serve it.
LEMMA RolloutRests ==
  ASSUME LinkedInv, NEW p \in Processes, OthersStay(p), ~Serves(p, "rollout")', recovery' = recovery, calls' = calls,
         rollout'.started = rollout.started,
         rollout.status \notin Unclaimed => rollout'.status \in {"running"} \cup Ends,
         rollout'.status \in Unclaimed => rollout.status \in Unclaimed
  PROVE  JobFits("rollout")' /\ CallsFit("rollout")'
<1>1. JobRests("rollout")
  BY DEF JobRests, StatusOf, StartedOf, OrderOf, OthersStay, Serves
<1> QED BY <1>1, RestingJobFits DEF LinkedInv, Jobs

\* The step of a process that leaves everything else as it is, and serves nothing.
LEMMA ProcessLeaves ==
  ASSUME LinkedInv, NEW p \in Processes, UNCHANGED <<publication, rollout, recovery, decided, retry, opened, calls, events>>,
         process' \in [Processes -> ProcessStates], OthersStay(p), ProcessFits(p)',
         process[p].step \notin Serving \/ process[p].job # "rollout",
         process'[p].step \notin Serving,
         process'[p].seen = process[p].seen \/ process'[p].seen = NoStatuses,
         process'[p].job \in Recoveries => retry[process'[p].job].status # "none"
  PROVE  LinkedInv'
<1>1. ~Serves(p, "rollout") /\ ~Serves(p, "rollout")'
  BY DEF Serves
<1>2. rollout.status \notin Unclaimed => rollout'.status \in {"running"} \cup Ends
  BY LinkedInvTypes DEF Rollouts, Unclaimed
<1>3. JobFits("rollout")' /\ CallsFit("rollout")'
  BY <1>1, <1>2, RolloutRests
<1>4. RolloutFits'
  <2>1. \A q \in Processes : Serves(q, "rollout")' => Serves(q, "rollout") /\ process'[q] = process[q]
    BY <1>1 DEF OthersStay, Serves
  <2>2. RolloutFits
    BY DEF LinkedInv
  <2> QED BY <2>1, <2>2 DEF RolloutFits
<1>5. events' = 0 => Undisturbed'
  <2>1. \A q \in Processes : process'[q].seen = process[q].seen \/ process'[q].seen = NoStatuses
    BY DEF OthersStay
  <2>2. \A q \in Processes : Serves(q, "rollout") => process'[q] = process[q]
    BY <1>1 DEF OthersStay
  <2> QED BY <2>1, <2>2, UndisturbedStays DEF LinkedInv
<1>6. PublicationsFit' /\ ManifestStays
  BY DEF LinkedInv, PublicationsFit, ManifestStays
<1> QED BY <1>3, <1>4, <1>5, <1>6, RolloutActs, LinkedInvTypes

\* A process that rests fits.
LEMMA RestFits ==
  ASSUME NEW p \in Processes, process'[p].step = "idle", process'[p].job = "none"
  PROVE  ProcessFits(p)' /\ ~Serves(p, "rollout")' /\ process'[p].step \notin Serving
<1> QED BY JobNames DEF ProcessFits, Serves, Serving, Doing

LEMMA RolloutCalled ==
  ASSUME LinkedInv, NEW p \in Processes, CallRollout(p)
  PROVE  LinkedInv'
<1> DEFINE s == IF rollout.status = "reserved" THEN "admit" ELSE "claim"
<1>1. s \in {"admit", "claim"} /\ s \in Steps
  BY DEF Steps
<1>2. /\ process' = [process EXCEPT ![p] = [Resting EXCEPT !.job = "rollout", !.index = 1, !.step = s]]
      /\ process[p].step = "idle"
      /\ UNCHANGED <<publication, rollout, recovery, decided, retry, opened, calls, events>>
  BY DEF CallRollout
<1> HIDE DEF s
<1>3. /\ process' \in [Processes -> ProcessStates]
      /\ process'[p].step = s /\ process'[p].job = "rollout"
      /\ process'[p].index = 1 /\ process'[p].seen = NoStatuses
      /\ OthersStay(p)
  BY <1>1, <1>2, ProcessEnters, LinkedInvTypes DEF Jobs, OthersStay
<1>4. ProcessFits(p)'
  BY <1>1, <1>3, OrderIs, JobNames DEF ProcessFits, Doing
<1>5. process[p].step \notin Serving /\ process'[p].step \notin Serving
  BY <1>1, <1>2, <1>3 DEF Serving
<1> QED BY <1>2, <1>3, <1>4, <1>5, JobNames, ProcessLeaves

LEMMA RetryCalled ==
  ASSUME LinkedInv, NEW p \in Processes, NEW k \in Recoveries, CallRetry(p, k)
  PROVE  LinkedInv'
<1> DEFINE s == IF retry[k].status = "reserved" THEN "preflight" ELSE "claim"
<1>1. s \in {"preflight", "claim"} /\ s \in Steps
  BY DEF Steps
<1>2. /\ process' = [process EXCEPT ![p] = [Resting EXCEPT !.job = k, !.index = 1, !.step = s]]
      /\ process[p].step = "idle" /\ retry[k].status # "none"
      /\ UNCHANGED <<publication, rollout, recovery, decided, retry, opened, calls, events>>
  BY DEF CallRetry
<1> HIDE DEF s
<1>3. /\ process' \in [Processes -> ProcessStates]
      /\ process'[p].step = s /\ process'[p].job = k
      /\ process'[p].index = 1 /\ process'[p].seen = NoStatuses
      /\ OthersStay(p)
  BY <1>1, <1>2, ProcessEnters, LinkedInvTypes DEF Jobs, OthersStay
<1>4. ProcessFits(p)'
  BY <1>1, <1>3, JobNames DEF ProcessFits, Doing
<1>5. process[p].step \notin Serving /\ process'[p].step \notin Serving
  BY <1>1, <1>2, <1>3 DEF Serving
<1> QED BY <1>2, <1>3, <1>4, <1>5, ProcessLeaves

\* An admission of an intent: what the record says afterwards is what the process saw.
LEMMA FieldsOfIntent ==
  ASSUME NEW J, NEW St, NEW N, NEW D, NEW T, NEW x \in [job : J, step : St, index : N, seen : [D -> T]],
         NEW r \in D, NEW t \in T, NEW n \in N, NEW s \in St
  PROVE  /\ [x EXCEPT !.seen[r] = t, !.index = n, !.step = s] \in [job : J, step : St, index : N, seen : [D -> T]]
         /\ [x EXCEPT !.seen[r] = t, !.index = n, !.step = s].job = x.job
         /\ [x EXCEPT !.seen[r] = t, !.index = n, !.step = s].step = s
         /\ [x EXCEPT !.seen[r] = t, !.index = n, !.step = s].index = n
         /\ [x EXCEPT !.seen[r] = t, !.index = n, !.step = s].seen = [x.seen EXCEPT ![r] = t]
OBVIOUS

LEMMA IntentAdmitted ==
  ASSUME LinkedInv, NEW p \in Processes, NEW s \in {"pending", "blocked"}, AdmitIntent(p, s)
  PROVE  LinkedInv'
<1> DEFINE i == process[p].index
<1> DEFINE r == Order[i]
<1> DEFINE now == IF publication[r].status = "none" THEN s ELSE publication[r].status
<1>t. /\ publication \in [LinkedDrafts -> Publications] /\ process \in [Processes -> ProcessStates]
      /\ rollout \in Rollouts /\ PublicationsFit /\ opened \subseteq LinkedDrafts /\ events \in Nat
  BY LinkedInvTypes DEF LinkedInv
<1>u. UNCHANGED <<rollout, recovery, decided, retry, opened, calls, events>>
  BY DEF AdmitIntent
<1>d. process[p].job = "rollout" /\ process[p].step = "admit"
  BY DEF AdmitIntent, Doing
<1>n. process[p].step \notin Serving /\ ~Serves(p, "rollout")
  BY <1>d DEF Serving, Serves
<1>f. i \in 1..Len(Order) /\ r \in LinkedDrafts /\ \A j \in 1..(i - 1) : process[p].seen[Order[j]] # "none"
  BY <1>d, OrderIs DEF LinkedInv, ProcessFits
<1>1. CASE publication[r].by = "operator"
  <2>1. Rest(p) /\ UNCHANGED publication
    BY <1>1 DEF AdmitIntent
  <2>2. /\ process' \in [Processes -> ProcessStates] /\ OthersStay(p) /\ process'[p].seen = NoStatuses
        /\ process'[p].step = "idle" /\ process'[p].job = "none"
    BY <1>t, <2>1, ProcessRests DEF OthersStay
  <2> QED BY <1>n, <1>u, <2>1, <2>2, RestFits, JobNames, ProcessLeaves
<1>2. CASE publication[r].by # "operator"
  <2> DEFINE y == publication[r]
             x == [y EXCEPT !.status = now, !.by = "rollout"]
             z == process[p]
             st == IF i = Len(Order) THEN "preflight" ELSE "admit"
             n == i + 1
             w == [z EXCEPT !.seen[r] = now, !.index = n, !.step = st]
  <2>1. publication' = [publication EXCEPT ![r] = x] /\ process' = [process EXCEPT ![p] = w]
    BY <1>2, <1>f, <1>t DEF AdmitIntent
  <2>2. /\ y \in Publications /\ y = publication[r] /\ z \in ProcessStates /\ z = process[p]
        /\ st \in {"preflight", "admit"} /\ st \in Steps /\ (st = "preflight" <=> i = Len(Order))
        /\ n \in 0..(Len(Order) + 1) /\ n = i + 1
    BY <1>f, <1>t, OrderIs DEF Steps
  <2>3. /\ now \in Statuses /\ now # "none"
        /\ now \in Delivered => r \in opened
        /\ publication[r].status # "none" => now = publication[r].status
    <3>1. publication[r].status \in Statuses
      BY <1>f, <1>t DEF Publications
    <3>2. s \in Statuses /\ s \notin Delivered /\ s # "none"
      BY DEF Statuses, Delivered, Drafts
    <3>3. publication[r].status \in Delivered => r \in opened
      BY <1>f, <1>t DEF PublicationsFit
    <3> QED BY <3>1, <3>2, <3>3
  <2> HIDE DEF y, z, st, n, now
  <2>4. x \in Publications /\ x.status = now /\ x.holder = y.holder
    BY <2>2, <2>3, FieldsOfPublication DEF Publications
  <2>5. /\ w \in ProcessStates /\ w.job = "rollout" /\ w.step = st /\ w.index = n
        /\ w.seen = [z.seen EXCEPT ![r] = now]
    <3>1. r \in LinkedDrafts /\ now \in Statuses /\ n \in 0..(Len(Order) + 1) /\ st \in Steps
      BY <1>f, <2>2, <2>3
    <3>2. /\ z \in [job : Recoveries \cup {"none", "rollout"}, step : Steps,
                    index : 0..(Len(Order) + 1), seen : [LinkedDrafts -> Statuses]]
          /\ z.job = "rollout"
      BY <1>d, <2>2 DEF ProcessStates
    <3> HIDE DEF r, i
    <3> QED BY <3>1, <3>2, FieldsOfIntent DEF ProcessStates
  <2> HIDE DEF x, w
  <2>6. /\ publication' \in [LinkedDrafts -> Publications] /\ PublicationsFit'
        /\ publication'[r].status = now /\ publication'[r].holder = publication[r].holder
        /\ \A q \in LinkedDrafts : q # r => publication'[q] = publication[q]
    BY <1>f, <1>t, <1>u, <2>1, <2>2, <2>3, <2>4, PublicationBecomes
  <2>7. /\ process' \in [Processes -> ProcessStates] /\ OthersStay(p)
        /\ process'[p].job = "rollout" /\ process'[p].step = st /\ process'[p].index = i + 1
        /\ process'[p].seen = [process[p].seen EXCEPT ![r] = now]
    BY <1>t, <2>1, <2>2, <2>5 DEF OthersStay
  <2>s. /\ process'[p].seen[r] = now
        /\ \A q \in LinkedDrafts : q # r => process'[p].seen[q] = process[p].seen[q]
    BY <1>f, <1>t, <2>7 DEF ProcessStates
  <2>8. \A j \in 1..i : process'[p].seen[Order[j]] # "none"
    <3> SUFFICES ASSUME NEW j \in 1..i PROVE process'[p].seen[Order[j]] # "none"
      OBVIOUS
    <3>1. j \in 1..Len(Order) /\ Order[j] \in LinkedDrafts
      BY <1>f, OrderIs
    <3>2. CASE Order[j] = r
      BY <2>3, <2>s, <3>2
    <3>3. CASE Order[j] # r
      <4>1. j \in 1..(i - 1)
        BY <1>f, <3>3
      <4> QED BY <1>f, <2>s, <3>1, <3>3, <4>1
    <3> QED BY <3>2, <3>3
  <2>9. ProcessFits(p)'
    <3>1. CASE st = "preflight"
      <4>1. i = Len(Order)
        BY <2>2, <3>1
      <4>2. \A q \in LinkedDrafts : process'[p].seen[q] # "none"
        BY <2>8, <4>1, OrderIs
      <4> QED BY <2>7, <3>1, <4>2, JobNames DEF ProcessFits, Doing
    <3>2. CASE st = "admit"
      <4>1. process'[p].index \in 1..Len(Order) /\ process'[p].index - 1 = i
        BY <1>f, <2>2, <2>7, <3>2, OrderIs
      <4> QED BY <2>7, <2>8, <3>2, <4>1, JobNames DEF ProcessFits, Doing
    <3> QED BY <2>2, <3>1, <3>2
  <2>10. process'[p].step \notin Serving /\ ~Serves(p, "rollout")'
    BY <2>2, <2>7 DEF Serving, Serves
  <2>11. rollout.status \notin Unclaimed => rollout'.status \in {"running"} \cup Ends
    BY <1>t, <1>u DEF Rollouts, Unclaimed
  <2>12. JobFits("rollout")' /\ CallsFit("rollout")'
    BY <1>u, <2>7, <2>10, <2>11, RolloutRests
  <2>13. \A q \in Processes : Serves(q, "rollout")' => Serves(q, "rollout") /\ process'[q] = process[q]
    BY <2>7, <2>10 DEF OthersStay, Serves
  <2>14. RolloutFits'
    <3>1. RolloutFits
      BY DEF LinkedInv
    <3> QED BY <1>u, <2>13, <3>1 DEF RolloutFits
  <2>15. ASSUME events' = 0 PROVE Undisturbed'
    <3>1. Undisturbed
      BY <1>u, <2>15 DEF LinkedInv
    <3>2. \A q \in LinkedDrafts : publication'[q].holder # "operator"
      BY <1>f, <2>6, <3>1 DEF Undisturbed
    <3>3. rollout.status \in {"prepared", "running"} => publication[r].status # "none"
      <4>1. CASE rollout.status = "prepared"
        <5>1. rollout.manifest[r] # "none" /\ publication[r].status = rollout.manifest[r]
          BY <1>f, <3>1, <4>1 DEF Undisturbed, LinkedInv, RolloutFits
        <5> QED BY <5>1
      <4>2. CASE rollout.status = "running"
        <5>1. PICK q \in Processes : Serves(q, "rollout") /\ MemberIsAt(q, i)
          BY <1>f, <3>1, <4>2 DEF Undisturbed
        <5> QED BY <5>1 DEF MemberIsAt, Serves, Serving
      <4> QED BY <4>1, <4>2
    <3>4. rollout.status \in {"prepared", "running"} =>
            \A q \in LinkedDrafts : publication'[q].status = publication[q].status
      BY <2>3, <2>6, <3>3
    <3>5. rollout.status \in {"reserved", "prepared"} =>
            \A q \in Processes, d \in LinkedDrafts :
              process'[q].seen[d] # "none" => publication'[d].status = process'[q].seen[d]
      <4> SUFFICES ASSUME rollout.status \in {"reserved", "prepared"}, NEW q \in Processes, NEW d \in LinkedDrafts,
                          process'[q].seen[d] # "none"
                   PROVE  publication'[d].status = process'[q].seen[d]
        OBVIOUS
      <4>1. process[q].seen[d] # "none" => publication[d].status = process[q].seen[d]
        BY <3>1 DEF Undisturbed
      <4>2. CASE d # r
        <5>1. process'[q].seen[d] = process[q].seen[d] /\ publication'[d] = publication[d]
          BY <2>6, <2>7, <2>s, <4>2 DEF OthersStay
        <5> QED BY <4>1, <5>1
      <4>3. CASE d = r /\ q = p
        BY <2>6, <2>s, <4>3
      <4>4. CASE d = r /\ q # p
        <5>1. process'[q] = process[q]
          BY <2>7, <4>4 DEF OthersStay
        <5>2. publication[r].status = process[q].seen[r] /\ publication[r].status # "none"
          BY <4>1, <4>4, <5>1
        <5> QED BY <2>3, <2>6, <4>4, <5>1, <5>2
      <4> QED BY <4>2, <4>3, <4>4
    <3>6. rollout.status = "prepared" => \A q \in LinkedDrafts : publication'[q].status = rollout.manifest[q]
      BY <3>1, <3>4 DEF Undisturbed
    <3>7. ASSUME rollout.status = "running"
          PROVE  \E q \in Processes : Serves(q, "rollout")' /\ \A j \in 1..Len(Order) : MemberIsAt(q, j)'
      <4>1. PICK q \in Processes : Serves(q, "rollout") /\ \A j \in 1..Len(Order) : MemberIsAt(q, j)
        BY <3>1, <3>7 DEF Undisturbed
      <4>2. process'[q] = process[q]
        BY <1>n, <2>7, <4>1 DEF OthersStay
      <4>3. \A j \in 1..Len(Order) : publication'[Order[j]].status = publication[Order[j]].status
        BY <3>4, <3>7, OrderIs
      <4> QED BY <4>1, <4>2, <4>3 DEF Serves, MemberIsAt
    <3> QED BY <1>u, <3>2, <3>5, <3>6, <3>7 DEF Undisturbed
  <2> QED BY <1>t, <1>u, <2>6, <2>7, <2>9, <2>10, <2>12, <2>14, <2>15, JobNames, RolloutActs DEF ManifestStays
<1> QED BY <1>1, <1>2

(***************************************************************************)
(* The rollout from its manifest to its end                                *)
(***************************************************************************)
LEMMA FieldsOfRollout ==
  ASSUME NEW St, NEW Sa, NEW Ma, NEW Re, NEW Fa,
         NEW x \in [status : St, started : Sa, manifest : Ma, result : Re, failed : Fa],
         NEW s \in St, NEW a \in Sa, NEW m \in Ma
  PROVE  /\ [x EXCEPT !.status = s] \in [status : St, started : Sa, manifest : Ma, result : Re, failed : Fa]
         /\ [x EXCEPT !.status = s].status = s /\ [x EXCEPT !.status = s].started = x.started
         /\ [x EXCEPT !.status = s].manifest = x.manifest
         /\ [x EXCEPT !.started = a] \in [status : St, started : Sa, manifest : Ma, result : Re, failed : Fa]
         /\ [x EXCEPT !.started = a].status = x.status /\ [x EXCEPT !.started = a].started = a
         /\ [x EXCEPT !.started = a].manifest = x.manifest
         /\ [x EXCEPT !.status = s, !.manifest = m] \in [status : St, started : Sa, manifest : Ma, result : Re, failed : Fa]
         /\ [x EXCEPT !.status = s, !.manifest = m].status = s
         /\ [x EXCEPT !.status = s, !.manifest = m].started = x.started
         /\ [x EXCEPT !.status = s, !.manifest = m].manifest = m
OBVIOUS

LEMMA EndOfRollout ==
  ASSUME NEW St, NEW Sa, NEW Ma, NEW Re, NEW Fa,
         NEW x \in [status : St, started : Sa, manifest : Ma, result : Re, failed : Fa],
         NEW s \in St, NEW r \in Re, NEW f \in Fa
  PROVE  /\ [x EXCEPT !.status = s, !.result = r, !.failed = f] \in
              [status : St, started : Sa, manifest : Ma, result : Re, failed : Fa]
         /\ [x EXCEPT !.status = s, !.result = r, !.failed = f].status = s
         /\ [x EXCEPT !.status = s, !.result = r, !.failed = f].started = x.started
         /\ [x EXCEPT !.status = s, !.result = r, !.failed = f].manifest = x.manifest
OBVIOUS

\* Until the rollout runs it started nobody, and nobody serves it.
LEMMA NotYetRunning ==
  ASSUME LinkedInv, rollout.status \in {"reserved", "prepared"}
  PROVE  rollout.started = 0 /\ \A q \in Processes : ~Serves(q, "rollout")
<1>1. JobFits("rollout") /\ RolloutFits
  BY DEF LinkedInv, Jobs
<1> QED BY <1>1 DEF JobFits, RolloutFits, StatusOf, StartedOf

LEMMA ManifestRecorded ==
  ASSUME LinkedInv, NEW p \in Processes, RecordManifest(p)
  PROVE  LinkedInv'
<1> DEFINE seen == process[p].seen
           s == IF \E r \in LinkedDrafts : seen[r] # "pending" THEN "block" ELSE "claim"
<1>t. /\ publication \in [LinkedDrafts -> Publications] /\ process \in [Processes -> ProcessStates]
      /\ rollout \in Rollouts /\ PublicationsFit /\ events \in Nat
  BY LinkedInvTypes DEF LinkedInv
<1>u. UNCHANGED <<publication, recovery, decided, retry, opened, calls, events>>
  BY DEF RecordManifest
<1>d. process[p].job = "rollout" /\ process[p].step = "preflight"
  BY DEF RecordManifest, Doing
<1>n. process[p].step \notin Serving /\ ~Serves(p, "rollout")
  BY <1>d DEF Serving, Serves
<1>f. \A r \in LinkedDrafts : seen[r] # "none"
  BY <1>d DEF LinkedInv, ProcessFits, Doing
<1>1. CASE rollout.manifest \notin {NoStatuses, seen}
  <2>1. Rest(p) /\ UNCHANGED rollout
    BY <1>1 DEF RecordManifest
  <2>2. /\ process' \in [Processes -> ProcessStates] /\ OthersStay(p) /\ process'[p].seen = NoStatuses
        /\ process'[p].step = "idle" /\ process'[p].job = "none"
    BY <1>t, <2>1, ProcessRests DEF OthersStay
  <2> QED BY <1>n, <1>u, <2>1, <2>2, RestFits, JobNames, ProcessLeaves
<1>2. CASE rollout.manifest \in {NoStatuses, seen}
  <2>1. /\ rollout' = IF rollout.status = "reserved"
                      THEN [rollout EXCEPT !.status = "prepared", !.manifest = seen] ELSE rollout
        /\ Go(p, s)
    BY <1>2 DEF RecordManifest
  <2>2. s \in Steps /\ s \in {"block", "claim"} /\ (s = "block" => \E r \in LinkedDrafts : seen[r] # "pending")
    BY DEF Steps
  <2>m. seen = process[p].seen /\ seen \in [LinkedDrafts -> Statuses]
    BY <1>t DEF ProcessStates
  <2> HIDE DEF s, seen
  <2>3. /\ process' \in [Processes -> ProcessStates] /\ OthersStay(p) /\ process'[p].seen = process[p].seen
        /\ process'[p].step = s /\ process'[p].job = "rollout"
    BY <1>d, <1>t, <2>1, <2>2, ProcessGoes DEF OthersStay
  <2>4. process'[p].step \notin Serving /\ ~Serves(p, "rollout")'
    BY <2>2, <2>3 DEF Serving, Serves
  <2>5. CASE rollout.status # "reserved"
    <3>1. rollout' = rollout
      BY <2>1, <2>5
    <3>2. rollout.manifest # NoStatuses
      <4>1. PICK i \in 1..Len(Order) : Order[i] \in LinkedDrafts
        BY OrderIs
      <4>2. rollout.manifest[Order[i]] # "none"
        BY <2>5, <4>1 DEF LinkedInv, RolloutFits
      <4> QED BY <4>1, <4>2, NothingSeen
    <3>3. rollout.manifest = process'[p].seen
      BY <1>2, <2>3, <2>m, <3>2
    <3>4. ProcessFits(p)'
      BY <2>2, <2>3, <2>5, <2>m, <3>1, <3>3, JobNames DEF ProcessFits, Doing
    <3> QED BY <1>n, <1>u, <2>3, <2>4, <3>1, <3>4, JobNames, ProcessLeaves
  <2>6. CASE rollout.status = "reserved"
    <3>1. rollout' = [rollout EXCEPT !.status = "prepared", !.manifest = seen]
      BY <2>1, <2>6
    <3>2. /\ rollout' \in Rollouts /\ rollout'.status = "prepared"
          /\ rollout'.started = rollout.started /\ rollout'.manifest = seen
      BY <1>t, <2>m, <3>1, FieldsOfRollout, OrderIs DEF Rollouts
    <3>3. rollout.started = 0 /\ \A q \in Processes : ~Serves(q, "rollout")
      BY <2>6, NotYetRunning
    <3>4. JobFits("rollout")' /\ CallsFit("rollout")'
      <4>1. rollout.status \in Unclaimed /\ rollout'.status \in Unclaimed
        BY <2>6, <3>2 DEF Unclaimed
      <4> QED BY <1>u, <2>3, <2>4, <3>2, <4>1, RolloutRests
    <3>5. ProcessFits(p)'
      BY <2>2, <2>3, <2>m, <3>2, JobNames DEF ProcessFits, Doing
    <3>6. RolloutFits'
      <4>1. \A q \in Processes : ~Serves(q, "rollout")'
        BY <2>3, <2>4, <3>3 DEF OthersStay, Serves
      <4> QED BY <1>f, <3>2, <3>3, <4>1 DEF RolloutFits
    <3>7. ASSUME events' = 0 PROVE Undisturbed'
      <4>1. Undisturbed
        BY <1>u, <3>7 DEF LinkedInv
      <4>2. \A q \in Processes : process'[q].seen = process[q].seen
        BY <2>3 DEF OthersStay
      <4>3. \A q \in Processes, r \in LinkedDrafts : process[q].seen[r] # "none" => publication[r].status = process[q].seen[r]
        BY <2>6, <4>1 DEF Undisturbed
      <4>4. \A r \in LinkedDrafts : publication[r].status = rollout'.manifest[r]
        BY <1>f, <2>m, <3>2, <4>3
      <4> QED BY <1>u, <3>2, <4>1, <4>2, <4>3, <4>4 DEF Undisturbed
    <3>8. PublicationsFit' /\ publication' \in [LinkedDrafts -> Publications] /\ events' \in Nat
      BY <1>t, <1>u DEF PublicationsFit
    <3> QED BY <1>u, <2>3, <2>4, <2>6, <3>2, <3>4, <3>5, <3>6, <3>7, <3>8, JobNames, RolloutActs DEF ManifestStays
  <2> QED BY <2>5, <2>6
<1> QED BY <1>1, <1>2

\* What the store does when it accepts an end.
LEMMA RolloutSettles ==
  ASSUME rollout \in Rollouts, NEW status \in Ends, NEW statuses \in [LinkedDrafts -> Statuses],
         NEW failed \in LinkedDrafts \cup {"none"},
         SettleRollout(status, statuses, failed), Settleable(status, statuses)
  PROVE  /\ rollout' \in Rollouts /\ rollout'.status = status
         /\ rollout'.started = rollout.started /\ rollout'.manifest = rollout.manifest
<1>1. rollout' = [rollout EXCEPT !.status = status, !.result = statuses, !.failed = failed]
  BY DEF SettleRollout
<1>2. status \in {"reserved", "prepared", "running"} \cup Ends
  OBVIOUS
<1> QED BY <1>1, <1>2, EndOfRollout DEF Rollouts

\* The first member a process did not see pending.
LEMMA FirstIsMember ==
  ASSUME NEW seen \in [LinkedDrafts -> Statuses], \E r \in LinkedDrafts : seen[r] # "pending"
  PROVE  Order[SelectInSeq(Order, LAMBDA r : seen[r] # "pending")] \in LinkedDrafts
<1> DEFINE I == {i \in 1..Len(Order) : seen[Order[i]] # "pending"}
<1>1. I # {} /\ I \subseteq Nat
  BY OrderIs
<1>2. SelectInSeq(Order, LAMBDA r : seen[r] # "pending") = Min(I)
  BY <1>1 DEF SelectInSeq
<1>3. Min(I) \in I
  <2> HIDE DEF I
  <2>1. PICK n \in I : \A m \in I : ~(m < n)
    BY <1>1, LeastNumber
  <2>2. \A m \in I : n <= m
    BY <1>1, <2>1
  <2> QED BY <2>2 DEF Min
<1> QED BY <1>2, <1>3, OrderIs

LEMMA RolloutBlocked ==
  ASSUME LinkedInv, NEW p \in Processes, BlockRollout(p)
  PROVE  LinkedInv'
<1> DEFINE seen == process[p].seen
<1> DEFINE first == Order[SelectInSeq(Order, LAMBDA r : seen[r] # "pending")]
<1>t. /\ publication \in [LinkedDrafts -> Publications] /\ process \in [Processes -> ProcessStates]
      /\ rollout \in Rollouts /\ PublicationsFit /\ events \in Nat
  BY LinkedInvTypes DEF LinkedInv
<1>u. /\ UNCHANGED <<publication, recovery, decided, retry, opened, calls, events>>
      /\ Rest(p) /\ SettleRollout("blocked", seen, first)
  BY DEF BlockRollout
<1>d. process[p].job = "rollout" /\ process[p].step = "block"
  BY DEF BlockRollout, Doing
<1>n. process[p].step \notin Serving /\ ~Serves(p, "rollout")
  BY <1>d DEF Serving, Serves
<1>f. rollout.status # "reserved" /\ rollout.manifest = seen /\ \E r \in LinkedDrafts : seen[r] # "pending"
  BY <1>d DEF LinkedInv, ProcessFits
<1>s. seen \in [LinkedDrafts -> Statuses]
  BY <1>t DEF ProcessStates
<1> HIDE DEF seen
<1>m. first \in LinkedDrafts
  BY <1>f, <1>s, FirstIsMember
<1> HIDE DEF first
<1>r. /\ process' \in [Processes -> ProcessStates] /\ OthersStay(p) /\ process'[p].seen = NoStatuses
      /\ process'[p].step = "idle" /\ process'[p].job = "none"
  BY <1>t, <1>u, ProcessRests DEF OthersStay
<1>1. CASE ~Settleable("blocked", seen)
  <2>1. rollout' = rollout
    BY <1>1, <1>u DEF SettleRollout
  <2> QED BY <1>n, <1>r, <1>u, <2>1, RestFits, JobNames, ProcessLeaves
<1>2. CASE Settleable("blocked", seen)
  <2>1. rollout.status = "prepared"
    <3>1. rollout.status # "running"
      BY <1>f DEF LinkedInv, RolloutFits
    <3> QED BY <1>2, <3>1 DEF Settleable
  <2>2. /\ rollout' \in Rollouts /\ rollout'.status = "blocked"
        /\ rollout'.started = rollout.started /\ rollout'.manifest = rollout.manifest
    <3>1. "blocked" \in Ends
      BY DEF Ends
    <3> QED BY <1>2, <1>m, <1>s, <1>t, <1>u, <3>1, RolloutSettles
  <2>3. rollout.started = 0 /\ \A q \in Processes : ~Serves(q, "rollout")
    BY <2>1, NotYetRunning
  <2>4. ~Serves(p, "rollout")' /\ ProcessFits(p)' /\ process'[p].step \notin Serving
    BY <1>r, RestFits
  <2>5. JobFits("rollout")' /\ CallsFit("rollout")'
    <3>1. rollout.status \in Unclaimed /\ rollout'.status \notin Unclaimed
      BY <2>1, <2>2 DEF Unclaimed
    <3> QED BY <1>r, <1>u, <2>2, <2>4, <3>1, RolloutRests
  <2>6. RolloutFits'
    <3>1. \A q \in Processes : ~Serves(q, "rollout")'
      BY <1>r, <2>3, <2>4 DEF OthersStay, Serves
    <3>2. \A r \in LinkedDrafts : rollout.manifest[r] # "none"
      BY <2>1 DEF LinkedInv, RolloutFits
    <3> QED BY <2>2, <2>3, <3>1, <3>2 DEF RolloutFits
  <2>7. events' = 0 => Undisturbed'
    BY <1>u, <2>2 DEF LinkedInv, Undisturbed
  <2>8. PublicationsFit' /\ publication' \in [LinkedDrafts -> Publications] /\ events' \in Nat
    BY <1>t, <1>u DEF PublicationsFit
  <2> QED BY <1>r, <1>u, <2>1, <2>2, <2>4, <2>5, <2>6, <2>7, <2>8, JobNames, RolloutActs DEF ManifestStays
<1> QED BY <1>1, <1>2

LEMMA RolloutClaimed ==
  ASSUME LinkedInv, NEW p \in Processes, ClaimRollout(p)
  PROVE  LinkedInv'
<1> DEFINE claims == rollout.status = "prepared" /\ \A r \in LinkedDrafts : rollout.manifest[r] = "pending"
<1>t. /\ publication \in [LinkedDrafts -> Publications] /\ process \in [Processes -> ProcessStates]
      /\ rollout \in Rollouts /\ PublicationsFit /\ events \in Nat
  BY LinkedInvTypes DEF LinkedInv
<1>u. UNCHANGED <<publication, recovery, decided, retry, opened, calls, events>>
  BY DEF ClaimRollout
<1>d. process[p].job = "rollout" /\ process[p].step = "claim"
  BY DEF ClaimRollout, Doing
<1>n. process[p].step \notin Serving /\ ~Serves(p, "rollout")
  BY <1>d DEF Serving, Serves
<1>1. CASE ~claims
  <2>1. Rest(p) /\ UNCHANGED rollout
    BY <1>1 DEF ClaimRollout
  <2>2. /\ process' \in [Processes -> ProcessStates] /\ OthersStay(p) /\ process'[p].seen = NoStatuses
        /\ process'[p].step = "idle" /\ process'[p].job = "none"
    BY <1>t, <2>1, ProcessRests DEF OthersStay
  <2> QED BY <1>n, <1>u, <2>1, <2>2, RestFits, JobNames, ProcessLeaves
<1>2. CASE claims
  <2> DEFINE z == process[p]
             w == [z EXCEPT !.index = 1, !.step = "start"]
  <2>1. rollout' = [rollout EXCEPT !.status = "running"] /\ process' = [process EXCEPT ![p] = w]
    <3>1. process' = [process EXCEPT ![p].step = "start", ![p].index = 1]
      BY <1>2 DEF ClaimRollout
    <3>2. w = [z EXCEPT !.step = "start", !.index = 1]
      BY <1>t DEF ProcessStates
    <3>3. process' = [process EXCEPT ![p] = [z EXCEPT !.step = "start", !.index = 1]]
      BY <1>t, <3>1
    <3> QED BY <1>2, <3>2, <3>3 DEF ClaimRollout
  <2>z. z \in ProcessStates /\ z.job = "rollout" /\ z.seen = process[p].seen
    BY <1>d, <1>t
  <2> HIDE DEF z
  <2>2. w \in ProcessStates /\ w.job = "rollout" /\ w.step = "start" /\ w.index = 1 /\ w.seen = z.seen
    <3>1. "start" \in Steps /\ 1 \in 0..(Len(Order) + 1) /\ "rollout" \in Recoveries \cup {"none", "rollout"}
      BY OrderIs DEF Steps
    <3> QED BY <2>z, <3>1, FieldsOfProcess DEF ProcessStates
  <2> HIDE DEF w
  <2>3. /\ process' \in [Processes -> ProcessStates] /\ OthersStay(p) /\ process'[p].seen = process[p].seen
        /\ process'[p].step = "start" /\ process'[p].job = "rollout" /\ process'[p].index = 1
    BY <1>t, <2>1, <2>2, <2>z DEF OthersStay
  <2>4. /\ rollout' \in Rollouts /\ rollout'.status = "running"
        /\ rollout'.started = rollout.started /\ rollout'.manifest = rollout.manifest
    <3>1. "running" \in {"reserved", "prepared", "running"} \cup Ends
      OBVIOUS
    <3> QED BY <1>t, <2>1, <3>1, FieldsOfRollout, OrderIs DEF Rollouts
  <2>5. rollout.started = 0 /\ \A q \in Processes : ~Serves(q, "rollout")
    BY <1>2, NotYetRunning
  <2>6. JobFits("rollout")' /\ CallsFit("rollout")'
    <3>1. Len(OrderOf("rollout")) > 0 /\ OrderOf("rollout")' = OrderOf("rollout")
      BY OrderIs DEF OrderOf
    <3>2. JobClaimed(p, "rollout")
      BY <1>2, <1>u, <2>3, <2>4, <3>1 DEF JobClaimed, StatusOf, StartedOf
    <3> QED BY <2>3, <3>2, ClaimedJobFits DEF LinkedInv, Jobs
  <2>7. ProcessFits(p)'
    BY <2>3, JobNames DEF ProcessFits, Doing
  <2>8. \A q \in Processes : Serves(q, "rollout")' => q = p
    BY <2>3, <2>5 DEF OthersStay, Serves
  <2>9. RolloutFits'
    BY <1>2, <2>3, <2>4, <2>5, <2>8 DEF RolloutFits
  <2>10. ASSUME events' = 0 PROVE Undisturbed'
    <3>1. Undisturbed
      BY <1>u, <2>10 DEF LinkedInv
    <3>2. \A i \in 1..Len(Order) : publication'[Order[i]].status = "pending"
      BY <1>2, <1>u, <3>1, OrderIs DEF Undisturbed
    <3>3. Serves(p, "rollout")' /\ \A i \in 1..Len(Order) : MemberIsAt(p, i)'
      BY <2>3, <3>2 DEF Serves, Serving, MemberIsAt
    <3> QED BY <1>u, <2>4, <3>1, <3>3 DEF Undisturbed
  <2>11. PublicationsFit' /\ publication' \in [LinkedDrafts -> Publications] /\ events' \in Nat
    BY <1>t, <1>u DEF PublicationsFit
  <2> QED BY <1>2, <1>u, <2>3, <2>4, <2>6, <2>7, <2>9, <2>10, <2>11, JobNames, RolloutActs DEF ManifestStays
<1> QED BY <1>1, <1>2

\* A process that serves the rollout finds it running and is the only one.
LEMMA ServerOfRollout ==
  ASSUME LinkedInv, NEW p \in Processes, Serves(p, "rollout")
  PROVE  /\ rollout.status = "running" /\ rollout.started \in 0..Len(Order)
         /\ \A i \in 1..(process[p].index - 1) : Order[i] \in opened
         /\ \A q \in Processes : Serves(q, "rollout") => q = p
         /\ process[p].step = "start" => rollout.started = process[p].index - 1 /\ rollout.started < Len(Order)
         /\ process[p].step \in {"execute", "publishing", "failed", "blocked"} =>
              rollout.started = process[p].index /\ rollout.started > 0
         /\ process[p].step = "finish" => rollout.started = Len(Order) /\ process[p].index = Len(Order) + 1
<1>1. JobFits("rollout") /\ RolloutFits /\ OrderOf("rollout") = Order
  BY DEF LinkedInv, Jobs, OrderOf
<1>2. ServerFits(p, "rollout")
  BY <1>1 DEF JobFits
<1> QED BY <1>1, <1>2 DEF JobFits, ServerFits, RolloutFits, StatusOf, StartedOf

LEMMA MemberStarted ==
  ASSUME LinkedInv, NEW p \in Processes, StartMember(p)
  PROVE  LinkedInv'
<1>t. /\ publication \in [LinkedDrafts -> Publications] /\ process \in [Processes -> ProcessStates]
      /\ rollout \in Rollouts /\ PublicationsFit /\ events \in Nat
  BY LinkedInvTypes DEF LinkedInv
<1>u. UNCHANGED <<publication, recovery, decided, retry, opened, calls, events>>
  BY DEF StartMember
<1>d. process[p].job = "rollout" /\ process[p].step = "start" /\ Serves(p, "rollout")
  BY DEF StartMember, Doing, Serves, Serving
<1>f. /\ rollout.status = "running" /\ rollout.started = process[p].index - 1 /\ rollout.started < Len(Order)
      /\ rollout.started \in 0..Len(Order)
      /\ \A i \in 1..(process[p].index - 1) : Order[i] \in opened
      /\ \A q \in Processes : Serves(q, "rollout") => q = p
  BY <1>d, ServerOfRollout
<1>1. rollout' = [rollout EXCEPT !.started = rollout.started + 1] /\ Go(p, "execute")
  BY <1>f, <1>t DEF StartMember
<1>2. /\ process' \in [Processes -> ProcessStates] /\ OthersStay(p) /\ process'[p].seen = process[p].seen
      /\ process'[p].step = "execute" /\ process'[p].job = "rollout" /\ process'[p].index = process[p].index
  <2>1. "execute" \in Steps
    BY DEF Steps
  <2> QED BY <1>1, <1>d, <1>t, <2>1, ProcessGoes DEF OthersStay
<1>3. rollout.started + 1 \in 0..Len(Order) /\ process[p].index = rollout.started + 1
  <2>1. process[p].index \in Nat
    BY <1>t DEF ProcessStates
  <2> QED BY <1>f, <2>1, OrderIs
<1>4. /\ rollout' \in Rollouts /\ rollout'.status = "running"
      /\ rollout'.started = rollout.started + 1 /\ rollout'.manifest = rollout.manifest
  <2>1. rollout.status \in {"reserved", "prepared", "running"} \cup Ends /\ rollout.manifest \in [LinkedDrafts -> Statuses]
    BY <1>t DEF Rollouts
  <2> QED BY <1>1, <1>3, <1>f, <1>t, <2>1, FieldsOfRollout DEF Rollouts
<1>5. JobFits("rollout")' /\ CallsFit("rollout")'
  <2>1. OrderOf("rollout")' = OrderOf("rollout") /\ calls["rollout"] \in [LinkedDrafts -> Nat]
    BY LinkedInvTypes DEF OrderOf, Jobs
  <2>2. JobStarted(p, "rollout")
    BY <1>2, <1>3, <1>4, <1>d, <1>f, <1>u, <2>1 DEF JobStarted, StatusOf, StartedOf
  <2> QED BY <1>2, <1>d, <1>t, <2>1, <2>2, StartedJobFits DEF LinkedInv, Jobs
<1>6. ProcessFits(p)'
  BY <1>2, JobNames DEF ProcessFits, Doing
<1>7. \A q \in Processes : Serves(q, "rollout")' => q = p
  BY <1>2, <1>f DEF OthersStay, Serves
<1>8. RolloutFits'
  <2>1. RolloutFits
    BY DEF LinkedInv
  <2>2. ASSUME NEW i \in 1..(rollout.started + 1), NEW j \in 1..(i - 1) PROVE Order[j] \in opened
    <3>1. j \in 1..(process[p].index - 1)
      BY <1>3, <1>f
    <3> QED BY <1>f, <3>1
  <2>3. \A i \in 1..rollout'.started : \A j \in 1..(i - 1) : Order[j] \in opened'
    BY <1>4, <1>u, <2>2
  <2>4. \A q \in Processes : Serves(q, "rollout")' =>
          rollout'.status = "running" /\ \A i \in 1..(process'[q].index - 1) : Order[i] \in opened'
    BY <1>2, <1>4, <1>7, <1>f, <1>u
  <2>5. /\ rollout'.status # "reserved" => \A r \in LinkedDrafts : rollout'.manifest[r] # "none"
        /\ \A r \in LinkedDrafts : rollout'.manifest[r] = "pending"
    BY <1>4, <1>f, <2>1 DEF RolloutFits
  <2> QED BY <1>4, <2>3, <2>4, <2>5 DEF RolloutFits
<1>9. ASSUME events' = 0 PROVE Undisturbed'
  <2>1. Undisturbed
    BY <1>9, <1>u DEF LinkedInv
  <2>2. \A i \in 1..Len(Order) : MemberIsAt(p, i)
    BY <1>f, <2>1 DEF Undisturbed
  <2>3. Serves(p, "rollout")' /\ \A i \in 1..Len(Order) : MemberIsAt(p, i)'
    BY <1>2, <1>d, <1>u, <2>2 DEF Serves, Serving, MemberIsAt
  <2> QED BY <1>4, <1>u, <2>1, <2>3 DEF Undisturbed
<1>10. PublicationsFit' /\ publication' \in [LinkedDrafts -> Publications] /\ events' \in Nat
  BY <1>t, <1>u DEF PublicationsFit
<1> QED BY <1>2, <1>4, <1>5, <1>6, <1>8, <1>9, <1>10, <1>f, <1>u, JobNames, RolloutActs DEF ManifestStays

LEMMA CurrentIs == ASSUME publication \in [LinkedDrafts -> Publications]
  PROVE  /\ Current \in [LinkedDrafts -> Statuses]
         /\ \A r \in LinkedDrafts : Current[r] = publication[r].status
BY DEF Current, Publications

\* What an end that the store accepts says of the drafts is so.
LEMMA EndIsTrue ==
  ASSUME publication \in [LinkedDrafts -> Publications], PublicationsFit
  PROVE  /\ (\A r \in LinkedDrafts : Current[r] \in Drafts) => LinkedDrafts \subseteq opened
         /\ Published(Current, Drafts \cup {"merged"}) => opened # {}
         /\ Published(Current, Drafts) => opened # {}
<1>1. \A r \in LinkedDrafts : Current[r] \in Drafts \cup {"merged"} => r \in opened
  BY CurrentIs DEF PublicationsFit, Delivered
<1> QED BY <1>1 DEF Published

\* The member a process that serves a job is at.
LEMMA MemberIs ==
  ASSUME LinkedInv, NEW p \in Processes, process[p].step \in {"execute", "publishing", "failed", "blocked"},
         process[p].job \in Jobs
  PROVE  /\ process[p].index \in 1..Len(OrderOf(process[p].job)) /\ MemberOf(p) \in LinkedDrafts
         /\ MemberOf(p) = OrderOf(process[p].job)[process[p].index]
         /\ StartedOf(process[p].job) = process[p].index
<1> DEFINE j == process[p].job
<1>1. JobFits(j) /\ Serves(p, j)
  BY DEF LinkedInv, Serves, Serving
<1>2. StartedOf(j) = process[p].index /\ StartedOf(j) > 0 /\ StartedOf(j) \in 0..Len(OrderOf(j))
  BY <1>1 DEF JobFits, ServerFits
<1>3. Len(OrderOf(j)) \in Nat /\ \A i \in 1..Len(OrderOf(j)) : OrderOf(j)[i] \in LinkedDrafts
  BY OrdersAre
<1>4. process[p].index \in 1..Len(OrderOf(j))
  BY <1>2, <1>3
<1>5. MemberOf(p) = OrderOf(j)[process[p].index]
  BY DEF MemberOf
<1> QED BY <1>2, <1>3, <1>4, <1>5

LEMMA RolloutEnded ==
  ASSUME LinkedInv, NEW p \in Processes, EndRollout(p)
  PROVE  LinkedInv'
<1> DEFINE o == Outcome(p)
           f == FailedMember(p)
<1>t. /\ publication \in [LinkedDrafts -> Publications] /\ process \in [Processes -> ProcessStates]
      /\ rollout \in Rollouts /\ PublicationsFit /\ events \in Nat
  BY LinkedInvTypes DEF LinkedInv
<1>u. /\ UNCHANGED <<publication, recovery, decided, retry, opened, calls, events>>
      /\ Rest(p) /\ SettleRollout(o, Current, f)
  BY DEF EndRollout
<1>d. /\ process[p].job = "rollout" /\ process[p].step \in {"finish", "failed", "blocked"}
      /\ Serves(p, "rollout")
  BY DEF EndRollout, Serves, Serving
<1>s. /\ rollout.status = "running" /\ \A q \in Processes : Serves(q, "rollout") => q = p
      /\ process[p].step # "finish" => rollout.started = process[p].index /\ rollout.started > 0
      /\ process[p].step = "finish" => rollout.started = Len(Order) /\ process[p].index = Len(Order) + 1
      /\ rollout.started \in 0..Len(Order)
  BY <1>d, ServerOfRollout
<1>o. /\ process[p].step = "finish" => o = "succeeded"
      /\ process[p].step # "finish" =>
           o = IF Published(Current, Drafts \cup {"merged"}) THEN "partial" ELSE process[p].step
  BY <1>d DEF Outcome, Good
<1>f. f \in LinkedDrafts \cup {"none"}
  BY <1>d, MemberIs DEF FailedMember, Jobs
<1>e. o \in Ends /\ Current \in [LinkedDrafts -> Statuses]
  BY <1>d, <1>o, <1>t, CurrentIs DEF Ends
<1> HIDE DEF o, f
<1>r. /\ process' \in [Processes -> ProcessStates] /\ OthersStay(p) /\ process'[p].seen = NoStatuses
      /\ process'[p].step = "idle" /\ process'[p].job = "none"
  BY <1>t, <1>u, ProcessRests DEF OthersStay
<1>q. ~Serves(p, "rollout")' /\ ProcessFits(p)' /\ process'[p].step \notin Serving
  BY <1>r, RestFits
<1>n. \A q \in Processes : ~Serves(q, "rollout")'
  BY <1>q, <1>r, <1>s DEF OthersStay, Serves
<1>1. /\ rollout' \in Rollouts /\ rollout'.started = rollout.started /\ rollout'.manifest = rollout.manifest
      /\ \/ rollout' = rollout /\ ~Settleable(o, Current)
         \/ rollout'.status = o /\ Settleable(o, Current)
  <2>1. CASE ~Settleable(o, Current)
    BY <1>t, <1>u, <2>1 DEF SettleRollout
  <2>2. CASE Settleable(o, Current)
    BY <1>e, <1>f, <1>t, <1>u, <2>2, RolloutSettles
  <2> QED BY <2>1, <2>2
<1>2. JobFits("rollout")' /\ CallsFit("rollout")'
  <2>1. rollout.status \notin Unclaimed /\ rollout'.status \in {"running"} \cup Ends /\ rollout'.status \notin Unclaimed
    BY <1>1, <1>e, <1>s DEF Unclaimed, Ends
  <2> QED BY <1>1, <1>q, <1>r, <1>u, <2>1, RolloutRests
<1>3. RolloutFits'
  <2>1. RolloutFits
    BY DEF LinkedInv
  <2>2. ASSUME rollout'.status = "succeeded" PROVE LinkedDrafts \subseteq opened
    <3>1. Settleable("succeeded", Current)
      BY <1>1, <1>s, <2>2
    <3> QED BY <1>t, <3>1, EndIsTrue DEF Settleable
  <2>3. ASSUME rollout'.status = "partial" PROVE opened # {} /\ rollout.started > 0
    <3>1. Settleable("partial", Current) /\ o = "partial"
      BY <1>1, <1>s, <2>3
    <3>2. process[p].step # "finish"
      BY <1>o, <3>1
    <3> QED BY <1>s, <1>t, <3>1, <3>2, EndIsTrue DEF Settleable
  <2>4. /\ rollout'.status # "reserved" => \A r \in LinkedDrafts : rollout'.manifest[r] # "none"
        /\ \A r \in LinkedDrafts : rollout'.manifest[r] = "pending"
        /\ \A i \in 1..rollout'.started : \A j \in 1..(i - 1) : Order[j] \in opened'
    BY <1>1, <1>s, <1>u, <2>1 DEF RolloutFits
  <2> QED BY <1>1, <1>n, <1>u, <2>2, <2>3, <2>4 DEF RolloutFits
<1>4. ASSUME events' = 0 PROVE Undisturbed'
  <2>1. Undisturbed
    BY <1>4, <1>u DEF LinkedInv
  <2>2. \A i \in 1..Len(Order) : MemberIsAt(p, i)
    BY <1>s, <2>1 DEF Undisturbed
  <2>3. Settleable(o, Current)
    <3>1. ASSUME o = "succeeded", NEW r \in LinkedDrafts PROVE Current[r] \in Drafts
      <4>1. process[p].step = "finish"
        BY <1>d, <1>o, <3>1
      <4>2. PICK i \in 1..Len(Order) : Order[i] = r
        BY OrderIs
      <4>3. i < process[p].index
        BY <1>s, <4>1, OrderIs
      <4>4. publication[r].status = "published"
        BY <2>2, <4>2, <4>3 DEF MemberIsAt
      <4> QED BY <1>t, <4>4, CurrentIs DEF Drafts
    <3>2. o = "partial" => Published(Current, Drafts \cup {"merged"})
      BY <1>d, <1>o
    <3>3. FollowsPrefix(Current)
      <4> SUFFICES ASSUME NEW i \in 1..Len(Order)
                   PROVE  (Current[Order[i]] = "pending") = (i > rollout.started)
        BY OrderIs DEF FollowsPrefix
      <4>1. Current[Order[i]] = publication[Order[i]].status /\ MemberIsAt(p, i) /\ Len(Order) \in Nat
        BY <1>t, <2>2, CurrentIs, OrderIs
      <4>2. CASE process[p].step = "finish"
        <5>1. i < process[p].index /\ ~(i > rollout.started)
          BY <1>s, <4>1, <4>2
        <5> QED BY <4>1, <5>1 DEF MemberIsAt
      <4>3. CASE process[p].step \in {"failed", "blocked"}
        <5>1. rollout.started = process[p].index
          BY <1>s, <4>3
        <5>2. CASE i < process[p].index
          <6>1. ~(i > rollout.started)
            BY <1>s, <5>1, <5>2
          <6> QED BY <4>1, <5>2, <6>1 DEF MemberIsAt
        <5>3. CASE i > process[p].index
          <6>1. ~(i < process[p].index)
            BY <1>s, <5>1, <5>3
          <6> QED BY <4>1, <5>1, <5>3, <6>1 DEF MemberIsAt
        <5>4. CASE i = process[p].index
          <6>1. ~(i < process[p].index) /\ ~(i > process[p].index) /\ ~(i > rollout.started)
            BY <5>1, <5>4
          <6> QED BY <4>1, <4>3, <6>1 DEF MemberIsAt
        <5>5. i < process[p].index \/ i > process[p].index \/ i = process[p].index
          BY <1>s, <5>1
        <5> QED BY <5>2, <5>3, <5>4, <5>5
      <4> QED BY <1>d, <4>2, <4>3
    <3> QED BY <1>s, <3>1, <3>2, <3>3 DEF Settleable
  <2>4. rollout'.status \in Ends
    BY <1>1, <1>e, <2>3
  <2> QED BY <1>u, <2>1, <2>4 DEF Undisturbed, Ends
<1>5. PublicationsFit' /\ publication' \in [LinkedDrafts -> Publications] /\ events' \in Nat
  BY <1>t, <1>u DEF PublicationsFit
<1>6. ManifestStays
  BY <1>1, <1>e, <1>s DEF ManifestStays, Ends
<1> QED BY <1>1, <1>2, <1>3, <1>4, <1>5, <1>6, <1>q, <1>r, <1>s, <1>u, JobNames, RolloutActs

LEMMA ProcessStops ==
  ASSUME LinkedInv, NEW p \in Processes, Stop(p)
  PROVE  LinkedInv'
<1>t. /\ publication \in [LinkedDrafts -> Publications] /\ process \in [Processes -> ProcessStates]
      /\ rollout \in Rollouts /\ PublicationsFit /\ events \in Nat
  BY LinkedInvTypes DEF LinkedInv
<1>u. UNCHANGED <<rollout, recovery, decided, retry, opened, calls>> /\ events' = events + 1 /\ Rest(p)
  BY DEF Stop
<1>r. /\ process' \in [Processes -> ProcessStates] /\ OthersStay(p)
      /\ process'[p].step = "idle" /\ process'[p].job = "none"
  BY <1>t, <1>u, ProcessRests DEF OthersStay
<1>q. ~Serves(p, "rollout")' /\ ProcessFits(p)' /\ process'[p].step \notin Serving
  BY <1>r, RestFits
<1>1. publication' \in [LinkedDrafts -> Publications] /\ \A r \in LinkedDrafts : publication'[r].status = publication[r].status
  <2>1. ASSUME NEW r \in LinkedDrafts
        PROVE  [publication[r] EXCEPT !.holder = "gone"] \in Publications
               /\ [publication[r] EXCEPT !.holder = "gone"].status = publication[r].status
    <3> DEFINE y == publication[r]
    <3>1. y \in Publications /\ "gone" \in {"none", "operator", "gone"} \cup Processes
      BY <1>t
    <3> HIDE DEF y
    <3>2. [y EXCEPT !.holder = "gone"] \in Publications /\ [y EXCEPT !.holder = "gone"].status = y.status
      BY <3>1 DEF Publications
    <3> QED BY <3>2 DEF y
  <2>2. publication' = [r \in LinkedDrafts |-> IF publication[r].holder = p
                          THEN [publication[r] EXCEPT !.holder = "gone"] ELSE publication[r]]
    BY DEF Stop
  <2> QED BY <1>t, <2>1, <2>2
<1>2. PublicationsFit'
  BY <1>1, <1>t, <1>u DEF PublicationsFit
<1>3. JobFits("rollout")' /\ CallsFit("rollout")'
  <2>1. rollout.status \notin Unclaimed => rollout'.status \in {"running"} \cup Ends
    BY <1>t, <1>u DEF Rollouts, Unclaimed
  <2> QED BY <1>q, <1>r, <1>u, <2>1, RolloutRests
<1>4. RolloutFits'
  <2>1. \A q \in Processes : Serves(q, "rollout")' => Serves(q, "rollout") /\ process'[q] = process[q]
    BY <1>q, <1>r DEF OthersStay, Serves
  <2>2. RolloutFits
    BY DEF LinkedInv
  <2> QED BY <1>u, <2>1, <2>2 DEF RolloutFits
<1>5. events' \in Nat /\ events' # 0
  BY <1>t, <1>u
<1> QED BY <1>1, <1>2, <1>3, <1>4, <1>5, <1>q, <1>r, <1>t, <1>u, JobNames, RolloutActs DEF ManifestStays

(***************************************************************************)
(* A member that is executed                                               *)
(***************************************************************************)
\* What both halves of an execution do: the process goes on, and the record says
\* how the member fared.
MemberGoes(p, r) ==
  /\ UNCHANGED <<rollout, recovery, decided, retry>>
  /\ opened \subseteq opened' /\ opened' \subseteq LinkedDrafts
  /\ publication' \in [LinkedDrafts -> Publications] /\ PublicationsFit'
  /\ \A q \in LinkedDrafts : q # r => publication'[q] = publication[q]
  /\ process' \in [Processes -> ProcessStates] /\ OthersStay(p)
  /\ process'[p].job = process[p].job /\ process'[p].seen = process[p].seen
  /\ \/ process'[p].index = process[p].index /\ process'[p].step \in {"publishing", "failed", "blocked"}
     \/ /\ process'[p].index = process[p].index + 1 /\ r \in opened'
        /\ process'[p].step = IF process[p].index = Len(OrderOf(process[p].job)) THEN "finish" ELSE "start"
  /\ calls' = IF process[p].step = "execute" THEN [calls EXCEPT ![process[p].job][r] = @ + 1] ELSE calls
  /\ events' \in Nat
  /\ publication'[r].holder = publication[r].holder \/ publication'[r].holder # "operator"
  /\ events' = 0 =>
       /\ events = 0
       /\ process[p].step = "publishing" \/ publication[r].status = "pending" =>
            publication'[r].status =
              IF process'[p].step = "publishing" THEN "running"
              ELSE IF process'[p].step \in {"failed", "blocked"} THEN process'[p].step ELSE "published"

LEMMA MemberGoesOn ==
  ASSUME LinkedInv, NEW p \in Processes, process[p].step \in {"execute", "publishing"},
         MemberGoes(p, MemberOf(p))
  PROVE  LinkedInv'
<1>0. PICK j, r : j = process[p].job /\ r = MemberOf(p)
  OBVIOUS
<1>l. j = process[p].job /\ r = MemberOf(p)
  BY <1>0
<1>t. /\ publication \in [LinkedDrafts -> Publications] /\ process \in [Processes -> ProcessStates]
      /\ calls \in [Jobs -> [LinkedDrafts -> Nat]] /\ retry \in [Recoveries -> Retries] /\ rollout \in Rollouts
  BY LinkedInvTypes
<1>g. MemberGoes(p, r)
  BY <1>l
<1>j. j \in Jobs /\ j # "none" /\ Serves(p, j)
  <2>1. j # "none" /\ j \in Recoveries \cup {"none", "rollout"}
    BY <1>l, <1>t DEF LinkedInv, ProcessFits, ProcessStates
  <2> QED BY <1>l, <2>1 DEF Jobs, Serves, Serving
<1>r. /\ process[p].index \in 1..Len(OrderOf(j)) /\ r \in LinkedDrafts
      /\ r = OrderOf(j)[process[p].index] /\ StartedOf(j) = process[p].index
  BY <1>j, <1>l, MemberIs
<1>s. process'[p].step \in {"publishing", "failed", "blocked", "start", "finish"} /\ process'[p].job = j
  BY <1>g, <1>l DEF MemberGoes
<1>1. calls' \in [Jobs -> [LinkedDrafts -> Nat]] /\ (\A l \in Jobs : l # j => calls'[l] = calls[l])
      /\ calls'[j] = IF process[p].step = "execute" THEN [calls[j] EXCEPT ![r] = @ + 1] ELSE calls[j]
  <2>1. CASE process[p].step = "execute"
    <3>1. calls' = [calls EXCEPT ![j] = [calls[j] EXCEPT ![r] = @ + 1]]
      BY <1>g, <1>l, <1>t, <1>j, <2>1 DEF MemberGoes
    <3>2. [calls[j] EXCEPT ![r] = @ + 1] \in [LinkedDrafts -> Nat]
      BY <1>j, <1>r, <1>t
    <3> QED BY <1>j, <1>t, <2>1, <3>1, <3>2
  <2>2. CASE process[p].step # "execute"
    BY <1>g, <1>t, <2>2 DEF MemberGoes
  <2> QED BY <2>1, <2>2
<1>2. LinkedTypeOK'
  <2>1. LinkedTypeOK
    BY DEF LinkedInv
  <2> QED BY <1>1, <1>g, <2>1 DEF LinkedTypeOK, MemberGoes, Publications, ProcessStates, Steps, Jobs
<1>3. ASSUME NEW q \in Processes PROVE ProcessFits(q)'
  <2>1. CASE q = p
    BY <1>j, <1>s, <2>1 DEF ProcessFits, Doing
  <2>2. CASE q # p
    BY <1>g, <2>2, OtherProcessFits DEF LinkedInv, MemberGoes, OthersStay, ManifestStays
  <2> QED BY <2>1, <2>2
<1>4. ASSUME NEW l \in Jobs PROVE JobFits(l)' /\ CallsFit(l)'
  <2>1. UNCHANGED <<StatusOf(l), StartedOf(l)>> /\ OrderOf(l)' = OrderOf(l)
    BY <1>g DEF StatusOf, StartedOf, OrderOf, RetryOrder, MemberGoes
  <2>2. CASE l # j
    <3>1. \A q \in Processes : Serves(q, l)' => Serves(q, l) /\ process'[q] = process[q]
      BY <1>g, <1>s, <2>2 DEF Serves, MemberGoes, OthersStay
    <3> QED BY <1>1, <1>g, <2>1, <2>2, <3>1, JobIsLeft DEF MemberGoes
  <2>3. CASE l = j
    <3>1. JobExecuted(p, j)
      <4>1. calls'[j] = IF process[p].step = "execute"
                        THEN [calls[j] EXCEPT ![OrderOf(j)[StartedOf(j)]] = @ + 1] ELSE calls[j]
        BY <1>1, <1>r
      <4>2. StatusOf(j)' = StatusOf(j) /\ StartedOf(j)' = StartedOf(j) /\ OrderOf(j)' = OrderOf(j)
        BY <2>1, <2>3
      <4>3. \/ process'[p].index = process[p].index /\ process'[p].step \in {"publishing", "failed", "blocked"}
            \/ /\ process'[p].index = process[p].index + 1
               /\ process'[p].step = IF process[p].index = Len(OrderOf(j)) THEN "finish" ELSE "start"
        BY <1>g, <1>l DEF MemberGoes
      <4>4. OthersStay(p)
        BY <1>g DEF MemberGoes
      <4> QED BY <4>1, <4>2, <4>3, <4>4 DEF JobExecuted
    <3> QED BY <1>j, <1>s, <1>t, <2>3, <3>1, ExecutedJobFits DEF LinkedInv
  <2> QED BY <2>2, <2>3
<1>5. ASSUME NEW k \in Recoveries PROVE PlanFits(k)'
  <2>1. PlanFits(k)
    BY DEF LinkedInv
  <2>2. ASSUME retry[k].status = "none"
        PROVE  calls'[k] = calls[k] /\ \A q \in Processes : process'[q].job = k => process[q].job = k
    <3>1. k # j
      BY <1>l, <2>1, <2>2 DEF PlanFits
    <3> QED BY <1>1, <1>g, <3>1, <1>l DEF MemberGoes, OthersStay, Jobs
  <2>3. /\ UNCHANGED <<rollout, retry, decided>> /\ recovery'[k] = recovery[k] /\ opened \subseteq opened'
    BY <1>g DEF MemberGoes
  <2> QED BY <2>1, <2>2, <2>3, PlanStays
<1>6. RolloutFits'
  <2>1. ASSUME NEW q \in Processes, Serves(q, "rollout")'
        PROVE  Serves(q, "rollout") /\ \A i \in 1..(process'[q].index - 1) : Order[i] \in opened'
    <3>0. opened \subseteq opened'
      BY <1>g DEF MemberGoes
    <3>1. CASE q # p
      <4>1. process'[q] = process[q] /\ Serves(q, "rollout")
        BY <1>g, <2>1, <3>1 DEF MemberGoes, OthersStay, Serves
      <4> QED BY <3>0, <4>1, ServerOfRollout
    <3>2. CASE q = p
      <4>1. j = "rollout" /\ Serves(p, "rollout")
        BY <1>j, <1>s, <2>1, <3>2 DEF Serves
      <4>2. \A i \in 1..(process[p].index - 1) : Order[i] \in opened
        BY <4>1, ServerOfRollout
      <4>3. r = Order[process[p].index] /\ process[p].index \in Nat
        BY <1>r, <4>1, OrderIs DEF OrderOf
      <4>4. CASE process'[p].index = process[p].index
        BY <3>0, <3>2, <4>1, <4>2, <4>4
      <4>5. CASE process'[p].index = process[p].index + 1 /\ r \in opened'
        <5>1. ASSUME NEW i \in 1..(process'[p].index - 1) PROVE Order[i] \in opened'
          <6>1. i = process[p].index \/ i \in 1..(process[p].index - 1)
            BY <4>3, <4>5
          <6> QED BY <3>0, <4>2, <4>3, <4>5, <6>1
        <5> QED BY <3>2, <4>1, <5>1
      <4> QED BY <1>g, <4>4, <4>5 DEF MemberGoes
    <3> QED BY <3>1, <3>2
  <2>2. RolloutFits /\ rollout' = rollout /\ opened \subseteq opened'
    BY <1>g DEF LinkedInv, MemberGoes
  <2> QED BY <2>1, <2>2, RolloutStays
<1>7. ASSUME events' = 0 PROVE Undisturbed'
  <2>1. Undisturbed /\ events = 0
    BY <1>7, <1>g DEF LinkedInv, MemberGoes
  <2>2. \A q \in LinkedDrafts : publication'[q].holder # "operator"
    BY <1>g, <1>r, <2>1 DEF Undisturbed, MemberGoes
  <2>3. rollout' = rollout
    BY <1>g DEF MemberGoes
  <2>4. CASE j # "rollout"
    <3>1. j \in Recoveries
      BY <1>j, <2>4 DEF Jobs
    <3>2. PlanFits(j) /\ process[p].job = j
      BY <1>l, <3>1 DEF LinkedInv
    <3>3. rollout.status \in {"partial", "blocked", "failed"}
      BY <3>2 DEF PlanFits
    <3> QED BY <2>2, <2>3, <3>3 DEF Undisturbed
  <2>5. CASE j = "rollout"
    <3>1. rollout.status = "running" /\ \A q \in Processes : Serves(q, "rollout") => q = p
      BY <1>j, <2>5, ServerOfRollout
    <3>2. \A i \in 1..Len(Order) : MemberIsAt(p, i)
      BY <2>1, <3>1 DEF Undisturbed
    <3>3. r = Order[process[p].index] /\ process[p].index \in 1..Len(Order)
      BY <1>r, <2>5 DEF OrderOf
    <3>n. Len(Order) \in Nat /\ process[p].index \in Nat
      BY <3>3, OrderIs
    <3>4. process[p].step = "publishing" \/ publication[r].status = "pending"
      <4>1. MemberIsAt(p, process[p].index) /\ ~(process[p].index < process[p].index)
        BY <3>2, <3>3, <3>n
      <4> QED BY <3>3, <4>1 DEF MemberIsAt
    <3>5. publication'[r].status =
            IF process'[p].step = "publishing" THEN "running"
            ELSE IF process'[p].step \in {"failed", "blocked"} THEN process'[p].step ELSE "published"
      BY <1>7, <1>g, <3>4 DEF MemberGoes
    <3>6. ASSUME NEW i \in 1..Len(Order) PROVE MemberIsAt(p, i)'
      <4>1. CASE i = process[p].index
        <5>1. CASE process'[p].index = process[p].index /\ process'[p].step \in {"publishing", "failed", "blocked"}
          <6>1. ~(i < process'[p].index) /\ ~(i > process'[p].index)
            BY <3>n, <4>1, <5>1
          <6> QED BY <3>3, <3>5, <4>1, <5>1, <6>1 DEF MemberIsAt
        <5>2. CASE process'[p].index = process[p].index + 1 /\ process'[p].step \in {"start", "finish"}
          <6>1. i < process'[p].index
            BY <3>n, <4>1, <5>2
          <6> QED BY <3>3, <3>5, <4>1, <5>2, <6>1 DEF MemberIsAt
        <5> QED BY <1>g, <5>1, <5>2 DEF MemberGoes
      <4>2. CASE i # process[p].index
        <5>1. Order[i] # r /\ Order[i] \in LinkedDrafts
          BY <3>3, <4>2, OrderIs
        <5>2. publication'[Order[i]] = publication[Order[i]]
          BY <1>g, <5>1 DEF MemberGoes
        <5>3. CASE i < process[p].index
          <6>1. publication[Order[i]].status = "published"
            BY <3>2, <5>3 DEF MemberIsAt
          <6>2. i < process'[p].index
            BY <1>g, <3>n, <5>3 DEF MemberGoes
          <6> QED BY <5>2, <6>1, <6>2 DEF MemberIsAt
        <5>4. CASE i > process[p].index
          <6>1. publication[Order[i]].status = "pending"
            <7>1. ~(i < process[p].index)
              BY <3>n, <5>4
            <7> QED BY <3>2, <5>4, <7>1 DEF MemberIsAt
          <6>2. CASE process'[p].index = process[p].index
            <7>1. i > process'[p].index /\ ~(i < process'[p].index)
              BY <3>n, <5>4, <6>2
            <7> QED BY <5>2, <6>1, <7>1 DEF MemberIsAt
          <6>3. CASE /\ process'[p].index = process[p].index + 1
                     /\ process'[p].step = IF process[p].index = Len(OrderOf(process[p].job)) THEN "finish" ELSE "start"
            <7>1. OrderOf(process[p].job) = Order
              BY <1>l, <2>5 DEF OrderOf
            <7>2. process[p].index # Len(Order)
              BY <3>n, <5>4
            <7>3. process'[p].step = "start" /\ ~(i < process'[p].index)
              BY <3>n, <5>4, <6>3, <7>1, <7>2
            <7> QED BY <5>2, <6>1, <7>3 DEF MemberIsAt
          <6> QED BY <1>g, <6>2, <6>3 DEF MemberGoes
        <5> QED BY <3>n, <4>2, <5>3, <5>4
      <4> QED BY <4>1, <4>2
    <3>7. Serves(p, "rollout")'
      BY <1>s, <2>5 DEF Serves, Serving
    <3> QED BY <2>2, <2>3, <3>1, <3>6, <3>7 DEF Undisturbed
  <2> QED BY <2>4, <2>5
<1>8. PublicationsFit' /\ events' \in Nat
  BY <1>g DEF MemberGoes
<1> QED BY <1>2, <1>3, <1>4, <1>5, <1>6, <1>7, <1>8 DEF LinkedInv

\* The process goes on to the step s, or to the member after this one.
LEMMA MemberMovesOn ==
  ASSUME LinkedInv, NEW p \in Processes, process[p].step \in {"execute", "publishing"},
         \/ \E s \in {"publishing", "failed", "blocked"} : Go(p, s)
         \/ Advance(p) /\ MemberOf(p) \in opened'
  PROVE  /\ process' \in [Processes -> ProcessStates] /\ OthersStay(p)
         /\ process'[p].job = process[p].job /\ process'[p].seen = process[p].seen
         /\ \/ process'[p].index = process[p].index /\ process'[p].step \in {"publishing", "failed", "blocked"}
            \/ /\ process'[p].index = process[p].index + 1 /\ MemberOf(p) \in opened'
               /\ process'[p].step = IF process[p].index = Len(OrderOf(process[p].job)) THEN "finish" ELSE "start"
<1>t. process \in [Processes -> ProcessStates]
  BY LinkedInvTypes
<1>1. CASE \E s \in {"publishing", "failed", "blocked"} : Go(p, s)
  <2>1. PICK s \in {"publishing", "failed", "blocked"} : Go(p, s)
    BY <1>1
  <2>2. s \in Steps
    BY DEF Steps
  <2> QED BY <1>t, <2>1, <2>2, ProcessGoes DEF OthersStay
<1>2. CASE Advance(p) /\ MemberOf(p) \in opened'
  <2>1. process[p].job \in Jobs
    <3>1. process[p].job # "none" /\ process[p].job \in Recoveries \cup {"none", "rollout"}
      BY <1>t DEF LinkedInv, ProcessFits, ProcessStates
    <3> QED BY <3>1 DEF Jobs
  <2>2. process[p].index \in 1..Len(OrderOf(process[p].job)) /\ Len(OrderOf(process[p].job)) \in 0..Len(Order)
    BY <2>1, MemberIs, OrdersAre
  <2>3. process[p].index \in 0..Len(Order)
    BY <2>2, OrderIs
  <2> QED BY <1>2, <1>t, <2>3, ProcessAdvances DEF OthersStay
<1> QED BY <1>1, <1>2

\* Where a process that executes or publishes is.
LEMMA MemberIsDraft ==
  ASSUME LinkedInv, NEW p \in Processes, process[p].step \in {"execute", "publishing"}
  PROVE  MemberOf(p) \in LinkedDrafts
<1>1. process[p].job # "none" /\ process[p].job \in Recoveries \cup {"none", "rollout"}
  BY LinkedInvTypes DEF LinkedInv, ProcessFits, ProcessStates
<1>2. process[p].job \in Jobs
  BY <1>1 DEF Jobs
<1> QED BY <1>2, MemberIs

LEMMA MemberExecuted ==
  ASSUME LinkedInv, NEW p \in Processes, Execute(p)
  PROVE  LinkedInv'
<1>0. PICK r, y : r = MemberOf(p) /\ y = publication[r]
  OBVIOUS
<1>d. process[p].step = "execute"
  BY DEF Execute
<1>t. /\ publication \in [LinkedDrafts -> Publications] /\ PublicationsFit /\ events \in Nat
      /\ opened \subseteq LinkedDrafts
  BY LinkedInvTypes DEF LinkedInv
<1>r. r \in LinkedDrafts /\ y \in Publications /\ (y.status \in Delivered => r \in opened)
  BY <1>0, <1>d, <1>t, MemberIsDraft DEF PublicationsFit
<1>u. /\ UNCHANGED <<rollout, recovery, decided, retry, opened>>
      /\ calls' = [calls EXCEPT ![process[p].job][r] = @ + 1]
  BY <1>0 DEF Execute
<1>s. /\ {"publishing", "failed", "blocked"} \subseteq Steps
      /\ {"failed", "blocked", "running"} \subseteq Statuses /\ {"failed", "blocked", "running"} \cap Delivered = {}
      /\ "none" \in {"none", "operator", "gone"} \cup Processes /\ p \in {"none", "operator", "gone"} \cup Processes
      /\ p # "operator"
  BY JobNames DEF Steps, Statuses, Delivered, Drafts
<1>b. ASSUME NEW x \in Publications, publication' = [publication EXCEPT ![r] = x], x.status \in {"blocked", "running"}
      PROVE  /\ publication' \in [LinkedDrafts -> Publications] /\ PublicationsFit' /\ publication'[r] = x
             /\ \A q \in LinkedDrafts : q # r => publication'[q] = publication[q]
  <2>1. opened \subseteq opened' /\ x.status \notin Delivered
    BY <1>b, <1>s, <1>u
  <2> QED BY <1>b, <1>r, <1>t, <2>1, PublicationBecomes
<1>g. ASSUME \/ \E s \in {"publishing", "failed", "blocked"} : Go(p, s)
             \/ Advance(p) /\ r \in opened',
             publication' \in [LinkedDrafts -> Publications], PublicationsFit',
             \A q \in LinkedDrafts : q # r => publication'[q] = publication[q],
             publication'[r].holder = y.holder \/ publication'[r].holder # "operator", events' \in Nat,
             events' = 0 => events = 0 /\
               (y.status = "pending" =>
                  publication'[r].status =
                    IF process'[p].step = "publishing" THEN "running"
                    ELSE IF process'[p].step \in {"failed", "blocked"} THEN process'[p].step ELSE "published")
      PROVE  LinkedInv'
  <2>1. /\ process' \in [Processes -> ProcessStates] /\ OthersStay(p)
        /\ process'[p].job = process[p].job /\ process'[p].seen = process[p].seen
        /\ \/ process'[p].index = process[p].index /\ process'[p].step \in {"publishing", "failed", "blocked"}
           \/ /\ process'[p].index = process[p].index + 1 /\ r \in opened'
              /\ process'[p].step = IF process[p].index = Len(OrderOf(process[p].job)) THEN "finish" ELSE "start"
    BY <1>0, <1>d, <1>g, MemberMovesOn
  <2>2. MemberGoes(p, r)
    BY <1>0, <1>d, <1>g, <1>t, <1>u, <2>1 DEF MemberGoes
  <2> QED BY <1>0, <1>d, <2>2, MemberGoesOn
<1>1. CASE /\ y.status \in Delivered /\ UNCHANGED <<publication, events>>
           /\ IF y.status \in Good(process[p].job) THEN Advance(p) ELSE Go(p, "failed")
  <2>1. \/ \E s \in {"publishing", "failed", "blocked"} : Go(p, s)
        \/ Advance(p) /\ r \in opened'
    BY <1>1, <1>r, <1>u
  <2>2. publication' \in [LinkedDrafts -> Publications] /\ PublicationsFit'
    BY <1>1, <1>t, <1>u DEF PublicationsFit
  <2>3. y.status # "pending"
    BY <1>1 DEF Delivered, Drafts
  <2>4. publication'[r].holder = y.holder /\ \A q \in LinkedDrafts : q # r => publication'[q] = publication[q]
    BY <1>0, <1>1
  <2>5. events' = events
    BY <1>1
  <2> QED BY <1>g, <1>t, <2>1, <2>2, <2>3, <2>4, <2>5
<1>2. CASE y.status \notin Delivered /\ events < MaxEvents /\ events' = events + 1 /\ UNCHANGED publication /\ Go(p, "failed")
  <2>1. publication' \in [LinkedDrafts -> Publications] /\ PublicationsFit'
    BY <1>2, <1>t, <1>u DEF PublicationsFit
  <2>2. publication'[r].holder = y.holder /\ \A q \in LinkedDrafts : q # r => publication'[q] = publication[q]
    BY <1>0, <1>2
  <2>3. events' \in Nat /\ events' # 0
    BY <1>2, <1>t
  <2>4. \E s \in {"publishing", "failed", "blocked"} : Go(p, s)
    BY <1>2
  <2> QED BY <1>g, <2>1, <2>2, <2>3, <2>4
<1>3. ASSUME publication' = [publication EXCEPT ![r].status = "blocked", ![r].holder = "none"], Go(p, "blocked"),
             events' \in Nat, events' = 0 => events = 0
      PROVE  LinkedInv'
  <2> DEFINE x == [y EXCEPT !.status = "blocked", !.holder = "none"]
  <2>1. publication' = [publication EXCEPT ![r] = x]
    BY <1>0, <1>3, <1>r, <1>t
  <2>2. x \in Publications /\ x.status = "blocked" /\ x.holder = "none"
    BY <1>r, <1>s, FieldsOfPublication DEF Publications
  <2> HIDE DEF x
  <2>3. /\ publication' \in [LinkedDrafts -> Publications] /\ PublicationsFit' /\ publication'[r] = x
        /\ \A q \in LinkedDrafts : q # r => publication'[q] = publication[q]
    BY <1>b, <2>1, <2>2
  <2>4. process'[p].step = "blocked"
    BY <1>3, <1>s, LinkedInvTypes, ProcessGoes
  <2>5. \E s \in {"publishing", "failed", "blocked"} : Go(p, s)
    BY <1>3
  <2> QED BY <1>3, <1>g, <2>2, <2>3, <2>4, <2>5
<1>4. ASSUME y.attempts < MaxAttempts, UNCHANGED events,
             publication' = [publication EXCEPT ![r].status = "running", ![r].attempts = @ + 1, ![r].holder = p],
             Go(p, "publishing")
      PROVE  LinkedInv'
  <2> DEFINE a == y.attempts + 1
             x == [y EXCEPT !.status = "running", !.attempts = a, !.holder = p]
  <2>1. publication' = [publication EXCEPT ![r] = x]
    BY <1>0, <1>4, <1>r, <1>t
  <2>a. a \in 0..MaxAttempts
    BY <1>4, <1>r, LinkedAssumption DEF Publications
  <2> HIDE DEF a
  <2>2. x \in Publications /\ x.status = "running" /\ x.holder = p
    BY <1>r, <1>s, <2>a, FieldsOfPublication DEF Publications
  <2> HIDE DEF x
  <2>3. /\ publication' \in [LinkedDrafts -> Publications] /\ PublicationsFit' /\ publication'[r] = x
        /\ \A q \in LinkedDrafts : q # r => publication'[q] = publication[q]
    BY <1>b, <2>1, <2>2
  <2>4. process'[p].step = "publishing"
    BY <1>4, <1>s, LinkedInvTypes, ProcessGoes
  <2>5. \E s \in {"publishing", "failed", "blocked"} : Go(p, s)
    BY <1>4
  <2> QED BY <1>4, <1>g, <1>s, <1>t, <2>2, <2>3, <2>4, <2>5
<1>5. CASE /\ y.status \notin Delivered /\ y.attempts < MaxAttempts /\ UNCHANGED <<events, publication>>
           /\ Go(p, "failed") /\ ~Claimable(r)
  <2>1. publication' \in [LinkedDrafts -> Publications] /\ PublicationsFit'
    BY <1>5, <1>t, <1>u DEF PublicationsFit
  <2>2. publication'[r].holder = y.holder /\ \A q \in LinkedDrafts : q # r => publication'[q] = publication[q]
    BY <1>0, <1>5
  <2>3. y.status # "pending"
    BY <1>0, <1>5 DEF Claimable
  <2>4. \E s \in {"publishing", "failed", "blocked"} : Go(p, s)
    BY <1>5
  <2>5. events' = events
    BY <1>5
  <2> QED BY <1>g, <1>t, <2>1, <2>2, <2>3, <2>4, <2>5
<1>6. \/ /\ y.status \in Delivered /\ UNCHANGED <<publication, events>>
         /\ IF y.status \in Good(process[p].job) THEN Advance(p) ELSE Go(p, "failed")
      \/ /\ y.status \notin Delivered /\ events < MaxEvents /\ events' = events + 1
         /\ UNCHANGED publication /\ Go(p, "failed")
      \/ /\ publication' = [publication EXCEPT ![r].status = "blocked", ![r].holder = "none"] /\ Go(p, "blocked")
         /\ events' \in {events, events + 1}
      \/ /\ y.attempts < MaxAttempts /\ UNCHANGED events /\ Go(p, "publishing")
         /\ publication' = [publication EXCEPT ![r].status = "running", ![r].attempts = @ + 1, ![r].holder = p]
      \/ /\ y.status \notin Delivered /\ y.attempts < MaxAttempts /\ UNCHANGED <<events, publication>>
         /\ Go(p, "failed") /\ ~Claimable(r)
  BY <1>0 DEF Execute
<1>7. ASSUME events' \in {events, events + 1} PROVE events' \in Nat /\ (events' = 0 => events = 0)
  BY <1>7, <1>t
<1> QED BY <1>1, <1>2, <1>3, <1>4, <1>5, <1>6, <1>7

LEMMA MemberPublished ==
  ASSUME LinkedInv, NEW p \in Processes, NEW s \in {"published", "failed", "blocked"}, EndExecute(p, s)
  PROVE  LinkedInv'
<1>0. PICK r, y : r = MemberOf(p) /\ y = publication[r]
  OBVIOUS
<1>d. process[p].step = "publishing"
  BY DEF EndExecute
<1>t. /\ publication \in [LinkedDrafts -> Publications] /\ PublicationsFit /\ events \in Nat
      /\ opened \subseteq LinkedDrafts
  BY LinkedInvTypes DEF LinkedInv
<1>r. r \in LinkedDrafts /\ y \in Publications
  BY <1>0, <1>d, <1>t, MemberIsDraft
<1>u. /\ UNCHANGED <<rollout, recovery, decided, retry, calls, events>>
      /\ opened' = IF s = "published" THEN opened \cup {r} ELSE opened
      /\ publication' = [publication EXCEPT ![r].status = s, ![r].holder = "none"]
      /\ IF s = "published" THEN Advance(p) ELSE Go(p, s)
  BY <1>0 DEF EndExecute
<1> DEFINE x == [y EXCEPT !.status = s, !.holder = "none"]
<1>1. publication' = [publication EXCEPT ![r] = x]
  BY <1>0, <1>r, <1>t, <1>u
<1>2. x \in Publications /\ x.status = s /\ x.holder = "none"
  <2>1. s \in Statuses
    BY DEF Statuses, Delivered, Drafts
  <2> QED BY <1>r, <2>1, FieldsOfPublication DEF Publications
<1> HIDE DEF x
<1>3. opened \subseteq opened' /\ opened' \subseteq LinkedDrafts /\ (s \in Delivered => r \in opened')
  BY <1>r, <1>t, <1>u DEF Delivered, Drafts
<1>4. /\ publication' \in [LinkedDrafts -> Publications] /\ PublicationsFit' /\ publication'[r] = x
      /\ \A q \in LinkedDrafts : q # r => publication'[q] = publication[q]
  BY <1>1, <1>2, <1>3, <1>r, <1>t, PublicationBecomes
<1>5. /\ process' \in [Processes -> ProcessStates] /\ OthersStay(p)
      /\ process'[p].job = process[p].job /\ process'[p].seen = process[p].seen
      /\ \/ process'[p].index = process[p].index /\ process'[p].step \in {"publishing", "failed", "blocked"}
         \/ /\ process'[p].index = process[p].index + 1 /\ r \in opened'
            /\ process'[p].step = IF process[p].index = Len(OrderOf(process[p].job)) THEN "finish" ELSE "start"
  <2>1. \/ \E l \in {"publishing", "failed", "blocked"} : Go(p, l)
        \/ Advance(p) /\ r \in opened'
    BY <1>3, <1>u DEF Delivered, Drafts
  <2> QED BY <1>0, <1>d, <2>1, MemberMovesOn
<1>6. s = IF process'[p].step = "publishing" THEN "running"
          ELSE IF process'[p].step \in {"failed", "blocked"} THEN process'[p].step ELSE "published"
  <2>1. CASE s = "published"
    <3>1. process'[p].step \in {"start", "finish"}
      <4>1. process' = [process EXCEPT ![p].index = @ + 1,
                ![p].step = IF process[p].index = Len(OrderOf(process[p].job)) THEN "finish" ELSE "start"]
        BY <1>u, <2>1 DEF Advance
      <4> QED BY <4>1, LinkedInvTypes DEF ProcessStates
    <3> QED BY <2>1, <3>1
  <2>2. CASE s # "published"
    <3>1. s \in Steps /\ s \in {"failed", "blocked"}
      BY <2>2 DEF Steps
    <3>2. process'[p].step = s
      BY <1>u, <2>2, <3>1, LinkedInvTypes, ProcessGoes
    <3> QED BY <3>1, <3>2
  <2> QED BY <2>1, <2>2
<1>7. MemberGoes(p, r)
  <2>1. calls' = calls /\ process[p].step # "execute" /\ events' = events
    BY <1>d, <1>u
  <2> QED BY <1>2, <1>3, <1>4, <1>5, <1>6, <1>t, <1>u, <2>1 DEF MemberGoes
<1> QED BY <1>0, <1>7, <1>d, MemberGoesOn

(***************************************************************************)
(* Retries                                                                 *)
(***************************************************************************)
\* What the work on a job knows of the plan it follows.
LEMMA RetryIsReserved ==
  ASSUME LinkedInv, NEW p \in Processes, NEW k \in Recoveries, process[p].job = k
  PROVE  retry[k].status # "none" /\ Len(OrderOf(k)) > 0 /\ k # "rollout" /\ k # "none"
<1>1. PlanFits(k)
  BY DEF LinkedInv
<1>2. retry[k].status # "none"
  BY <1>1 DEF PlanFits
<1>3. RetryOrder(k) # <<>> /\ OrderOf(k) = RetryOrder(k)
  BY <1>1, <1>2, JobNames DEF PlanFits, OrderOf
<1>4. OrderOf(k) \in Seq(LinkedDrafts)
  BY OrdersAre
<1> QED BY <1>2, <1>3, <1>4, JobNames

\* A step of one process on the retry it works on.
LEMMA RetryActs ==
  ASSUME LinkedInv, NEW p \in Processes, NEW k \in Recoveries, process[p].job = k,
         UNCHANGED <<publication, rollout, recovery, decided, opened, calls, events>>,
         retry' \in [Recoveries -> Retries], \A l \in Recoveries : l # k => retry'[l] = retry[l],
         retry'[k].status # "none",
         process' \in [Processes -> ProcessStates], OthersStay(p), ProcessFits(p)',
         process'[p].job \in {k, "none"}, process'[p].seen = process[p].seen \/ process'[p].seen = NoStatuses,
         JobFits(k)' /\ CallsFit(k)',
         retry'[k].status = "succeeded" => retry[k].status = "succeeded" \/ LinkedDrafts \subseteq opened,
         retry'[k].status = "partial" => retry[k].status = "partial" \/ opened # {}
  PROVE  LinkedInv'
<1>n. retry[k].status # "none" /\ k # "rollout" /\ k # "none"
  BY RetryIsReserved
<1>1. LinkedTypeOK'
  <2>1. LinkedTypeOK
    BY DEF LinkedInv
  <2> QED BY <2>1 DEF LinkedTypeOK, Retries, ProcessStates, Steps
<1>2. ASSUME NEW q \in Processes PROVE ProcessFits(q)'
  <2>1. CASE q = p
    BY <2>1
  <2>2. CASE q # p
    BY <2>2, OtherProcessFits DEF LinkedInv, OthersStay, ManifestStays
  <2> QED BY <2>1, <2>2
<1>3. ASSUME NEW j \in Jobs PROVE JobFits(j)' /\ CallsFit(j)'
  <2>1. CASE j = k
    BY <2>1
  <2>2. CASE j # k
    <3>1. UNCHANGED <<StatusOf(j), StartedOf(j)>> /\ calls'[j] = calls[j]
      BY <2>2 DEF StatusOf, StartedOf, Jobs
    <3>2. j # "none"
      BY JobNames DEF Jobs
    <3>3. \A q \in Processes : Serves(q, j)' => Serves(q, j) /\ process'[q] = process[q]
      BY <2>2, <3>2 DEF Serves, OthersStay
    <3> QED BY <3>1, <3>3, JobIsLeft
  <2> QED BY <2>1, <2>2
<1>4. ASSUME NEW l \in Recoveries PROVE PlanFits(l)'
  <2>1. PlanFits(l)
    BY DEF LinkedInv
  <2>2. l # "none"
    BY JobNames
  <2>3. retry[l].status = "none" =>
          /\ retry'[l] = retry[l]
          /\ \A q \in Processes : process'[q].job = l => process[q].job = l
    BY <1>n, <2>2 DEF OthersStay
  <2>4. /\ retry[l].status # "none" => retry'[l].status # "none"
        /\ retry'[l].status = "succeeded" => retry[l].status = "succeeded" \/ LinkedDrafts \subseteq opened'
        /\ retry'[l].status = "partial" => retry[l].status = "partial" \/ opened' # {}
    OBVIOUS
  <2> QED BY <2>1, <2>3, <2>4, PlanStays
<1>5. \A q \in Processes : Serves(q, "rollout")' <=> Serves(q, "rollout")
  BY <1>n DEF Serves, OthersStay
<1>6. \A q \in Processes : Serves(q, "rollout") => process'[q] = process[q]
  BY <1>n DEF Serves, OthersStay
<1>7. RolloutFits'
  <2>1. RolloutFits
    BY DEF LinkedInv
  <2>2. ASSUME NEW q \in Processes, Serves(q, "rollout")'
        PROVE  Serves(q, "rollout") /\ \A i \in 1..(process'[q].index - 1) : Order[i] \in opened'
    BY <1>5, <1>6, <2>1, <2>2 DEF RolloutFits
  <2> QED BY <2>1, <2>2, RolloutStays
<1>8. events' = 0 => Undisturbed'
  <2>1. \A q \in Processes : process'[q].seen = process[q].seen \/ process'[q].seen = NoStatuses
    BY DEF OthersStay
  <2> QED BY <1>6, <2>1, UndisturbedStays DEF LinkedInv
<1>9. PublicationsFit' /\ events' \in Nat
  BY DEF LinkedInv, PublicationsFit
<1> QED BY <1>1, <1>2, <1>3, <1>4, <1>7, <1>8, <1>9 DEF LinkedInv

\* The job of a retry, when nobody comes to serve it.
LEMMA RetryRests ==
  ASSUME LinkedInv, NEW p \in Processes, NEW k \in Recoveries, OthersStay(p), ~Serves(p, k)',
         recovery' = recovery, calls' = calls, retry'[k].started = retry[k].started,
         retry[k].status \notin Unclaimed => retry'[k].status \in {"running"} \cup Ends,
         retry'[k].status \in Unclaimed => retry[k].status \in Unclaimed
  PROVE  JobFits(k)' /\ CallsFit(k)'
<1>1. JobRests(k)
  BY JobNames DEF JobRests, StatusOf, StartedOf, OrderOf, RetryOrder, OthersStay, Serves
<1> QED BY <1>1, RestingJobFits DEF LinkedInv, Jobs

\* What an end does to a retry, accepted or not.
LEMMA RetrySettles ==
  ASSUME retry \in [Recoveries -> Retries], NEW k \in Recoveries, NEW s \in Ends,
         NEW statuses \in [LinkedDrafts -> Statuses], NEW f \in LinkedDrafts \cup {"none"},
         SettleRetry(k, s, statuses, f)
  PROVE  /\ retry' \in [Recoveries -> Retries] /\ \A l \in Recoveries : l # k => retry'[l] = retry[l]
         /\ retry'[k].started = retry[k].started
         /\ \/ retry'[k] = retry[k]
            \/ retry'[k].status = s /\ SettleableRetry(k, s, statuses)
<1>1. CASE ~SettleableRetry(k, s, statuses)
  BY <1>1 DEF SettleRetry
<1>2. CASE SettleableRetry(k, s, statuses)
  <2> DEFINE y == retry[k]
  <2> DEFINE x == [y EXCEPT !.status = s, !.result = statuses, !.failed = f]
  <2>1. retry' = [retry EXCEPT ![k] = x]
    BY <1>2 DEF SettleRetry
  <2>2. y \in Retries /\ y.started = retry[k].started /\ s \in {"none", "reserved", "prepared", "running"} \cup Ends
    OBVIOUS
  <2> HIDE DEF y
  <2>3. x \in Retries /\ x.status = s /\ x.started = y.started
    BY <2>2, EndOfRetry DEF Retries
  <2> HIDE DEF x
  <2> QED BY <1>2, <2>1, <2>2, <2>3
<1> QED BY <1>1, <1>2

\* A process that leaves its retry, settled by it or not.
LEMMA RetryLeft ==
  ASSUME LinkedInv, NEW p \in Processes, NEW k \in Recoveries, process[p].job = k, Rest(p),
         UNCHANGED <<publication, rollout, recovery, decided, opened, calls, events>>,
         NEW s \in Ends, NEW f \in LinkedDrafts \cup {"none"},
         retry' = retry \/ SettleRetry(k, s, Current, f),
         s = "partial" => Published(Current, Drafts)
  PROVE  LinkedInv'
<1>t. /\ publication \in [LinkedDrafts -> Publications] /\ process \in [Processes -> ProcessStates]
      /\ retry \in [Recoveries -> Retries] /\ PublicationsFit
  BY LinkedInvTypes DEF LinkedInv
<1>n. retry[k].status # "none" /\ k # "rollout" /\ k # "none"
  BY RetryIsReserved
<1>1. /\ process' \in [Processes -> ProcessStates] /\ OthersStay(p) /\ process'[p].seen = NoStatuses
      /\ process'[p].step = "idle" /\ process'[p].job = "none"
  BY <1>t, ProcessRests DEF OthersStay
<1>2. ProcessFits(p)' /\ ~Serves(p, k)'
  BY <1>1, <1>n, RestFits DEF Serves
<1>3. /\ retry' \in [Recoveries -> Retries] /\ \A l \in Recoveries : l # k => retry'[l] = retry[l]
      /\ retry'[k].started = retry[k].started
      /\ \/ retry'[k] = retry[k]
         \/ retry'[k].status = s /\ SettleableRetry(k, s, Current)
  BY <1>t, CurrentIs, RetrySettles
<1>4. retry'[k].status # "none"
  BY <1>3, <1>n DEF Ends
<1>5. JobFits(k)' /\ CallsFit(k)'
  <2>1. retry[k].status \notin Unclaimed => retry'[k].status \in {"running"} \cup Ends
    BY <1>3, <1>t DEF Retries, Unclaimed
  <2>2. retry'[k].status \in Unclaimed => retry[k].status \in Unclaimed
    BY <1>3 DEF Unclaimed, Ends
  <2> QED BY <1>1, <1>2, <1>3, <2>1, <2>2, RetryRests
<1>6. retry'[k].status = "succeeded" => retry[k].status = "succeeded" \/ LinkedDrafts \subseteq opened
  BY <1>3, <1>t, EndIsTrue DEF SettleableRetry
<1>7. retry'[k].status = "partial" => retry[k].status = "partial" \/ opened # {}
  BY <1>3, <1>t, EndIsTrue
<1> QED BY <1>1, <1>2, <1>3, <1>4, <1>5, <1>6, <1>7, RetryActs

\* The record of a retry moves on, or counts the member it starts.
LEMMA RetryMoves ==
  ASSUME retry \in [Recoveries -> Retries], NEW k \in Recoveries, NEW s \in {"reserved", "prepared", "running"},
         retry' = [retry EXCEPT ![k].status = s]
  PROVE  /\ retry' \in [Recoveries -> Retries] /\ \A l \in Recoveries : l # k => retry'[l] = retry[l]
         /\ retry'[k].status = s /\ retry'[k].started = retry[k].started
<1> DEFINE y == retry[k]
           x == [y EXCEPT !.status = s]
<1>1. /\ y \in Retries /\ y.started = retry[k].started /\ y.started \in 0..Len(Order)
      /\ retry' = [retry EXCEPT ![k] = x] /\ s \in {"none", "reserved", "prepared", "running"} \cup Ends
  BY DEF Retries
<1> HIDE DEF y
<1>2. x \in Retries /\ x.status = s /\ x.started = y.started
  BY <1>1, FieldsOfRetry DEF Retries
<1> HIDE DEF x
<1> QED BY <1>1, <1>2

LEMMA RetryCounts ==
  ASSUME retry \in [Recoveries -> Retries], NEW k \in Recoveries, NEW a \in 0..Len(Order),
         retry' = [retry EXCEPT ![k].started = a]
  PROVE  /\ retry' \in [Recoveries -> Retries] /\ \A l \in Recoveries : l # k => retry'[l] = retry[l]
         /\ retry'[k].status = retry[k].status /\ retry'[k].started = a
<1> DEFINE y == retry[k]
           x == [y EXCEPT !.started = a]
<1>1. /\ y \in Retries /\ y.status = retry[k].status
      /\ y.status \in {"none", "reserved", "prepared", "running"} \cup Ends
      /\ retry' = [retry EXCEPT ![k] = x]
  BY DEF Retries
<1> HIDE DEF y
<1>2. x \in Retries /\ x.status = y.status /\ x.started = a
  BY <1>1, FieldsOfRetry DEF Retries
<1> HIDE DEF x
<1> QED BY <1>1, <1>2

LEMMA RetryPrepared ==
  ASSUME LinkedInv, NEW p \in Processes, NEW k \in Recoveries, PreflightRetry(p, k)
  PROVE  LinkedInv'
<1>d. process[p].job = k /\ process[p].step = "preflight"
  BY DEF PreflightRetry, Doing
<1>u. UNCHANGED <<publication, rollout, recovery, decided, opened, calls, events>>
  BY DEF PreflightRetry
<1>1. CASE retry[k].status = "reserved" /\ Snapshot = recovery[k]
  <2>1. retry' = [retry EXCEPT ![k].status = "prepared"] /\ Go(p, "claim")
    BY <1>1 DEF PreflightRetry
  <2>2. /\ retry' \in [Recoveries -> Retries] /\ \A l \in Recoveries : l # k => retry'[l] = retry[l]
        /\ retry'[k].status = "prepared" /\ retry'[k].started = retry[k].started
    BY <2>1, LinkedInvTypes, RetryMoves
  <2>3. /\ process' \in [Processes -> ProcessStates] /\ OthersStay(p)
        /\ process'[p].step = "claim" /\ process'[p].job = k
        /\ process'[p].index = process[p].index /\ process'[p].seen = process[p].seen
    BY <1>d, <2>1, LinkedInvTypes, ProcessGoes DEF OthersStay, Steps
  <2>4. ProcessFits(p)'
    <3>1. process[p].index = 1 /\ k # "rollout" /\ k # "none"
      BY <1>d, JobNames DEF LinkedInv, ProcessFits
    <3> QED BY <2>3, <3>1 DEF ProcessFits, Doing
  <2>5. JobFits(k)' /\ CallsFit(k)'
    BY <1>1, <1>u, <2>2, <2>3, RetryRests DEF Serves, Serving, Unclaimed
  <2> QED BY <1>d, <1>u, <2>2, <2>3, <2>4, <2>5, RetryActs
<1>2. CASE ~(retry[k].status = "reserved" /\ Snapshot = recovery[k])
  <2>1. SettleRetry(k, "blocked", Current, "none") /\ Rest(p)
    BY <1>2 DEF PreflightRetry
  <2>2. "blocked" \in Ends /\ "none" \in LinkedDrafts \cup {"none"}
    BY DEF Ends
  <2> QED BY <1>d, <1>u, <2>1, <2>2, RetryLeft
<1> QED BY <1>1, <1>2

LEMMA RetryClaimed ==
  ASSUME LinkedInv, NEW p \in Processes, NEW k \in Recoveries, ClaimRetry(p, k)
  PROVE  LinkedInv'
<1>d. process[p].job = k /\ process[p].step = "claim"
  BY DEF ClaimRetry, Doing
<1>u. UNCHANGED <<publication, rollout, recovery, decided, opened, calls, events>>
  BY DEF ClaimRetry
<1>1. CASE retry[k].status = "prepared"
  <2>1. retry' = [retry EXCEPT ![k].status = "running"] /\ Go(p, "start")
    BY <1>1 DEF ClaimRetry
  <2>2. /\ retry' \in [Recoveries -> Retries] /\ \A l \in Recoveries : l # k => retry'[l] = retry[l]
        /\ retry'[k].status = "running" /\ retry'[k].started = retry[k].started
    BY <2>1, LinkedInvTypes, RetryMoves
  <2>3. /\ process' \in [Processes -> ProcessStates] /\ OthersStay(p)
        /\ process'[p].step = "start" /\ process'[p].job = k
        /\ process'[p].index = process[p].index /\ process'[p].seen = process[p].seen
    BY <1>d, <2>1, LinkedInvTypes, ProcessGoes DEF OthersStay, Steps
  <2>4. ProcessFits(p)'
    BY <2>3, JobNames DEF ProcessFits, Doing
  <2>5. JobFits(k)' /\ CallsFit(k)'
    <3>1. process[p].index = 1
      BY <1>d DEF LinkedInv, ProcessFits
    <3>2. Len(OrderOf(k)) > 0 /\ k # "rollout"
      BY <1>d, RetryIsReserved
    <3>3. OrderOf(k)' = OrderOf(k) /\ calls'[k] = calls[k]
      BY <1>u DEF OrderOf, RetryOrder
    <3>4. JobClaimed(p, k)
      BY <1>1, <2>2, <2>3, <3>1, <3>2, <3>3 DEF JobClaimed, StatusOf, StartedOf
    <3> QED BY <2>3, <3>4, ClaimedJobFits DEF LinkedInv, Jobs
  <2> QED BY <1>d, <1>u, <2>2, <2>3, <2>4, <2>5, RetryActs
<1>2. CASE retry[k].status # "prepared"
  <2>1. retry' = retry /\ Rest(p)
    BY <1>2 DEF ClaimRetry
  <2>2. "blocked" \in Ends /\ "none" \in LinkedDrafts \cup {"none"}
    BY DEF Ends
  <2> QED BY <1>d, <1>u, <2>1, <2>2, RetryLeft
<1> QED BY <1>1, <1>2

LEMMA RetryStarted ==
  ASSUME LinkedInv, NEW p \in Processes, NEW k \in Recoveries, StartRetry(p, k)
  PROVE  LinkedInv'
<1>t. process \in [Processes -> ProcessStates] /\ calls[k] \in [LinkedDrafts -> Nat]
  BY LinkedInvTypes DEF Jobs
<1>d. process[p].job = k /\ process[p].step = "start" /\ Serves(p, k)
  BY DEF StartRetry, Doing, Serves, Serving
<1>u. UNCHANGED <<publication, rollout, recovery, decided, opened, calls, events>>
  BY DEF StartRetry
<1>1. CASE retry[k].status = "running" /\ retry[k].started = process[p].index - 1
  <2>1. retry' = [retry EXCEPT ![k].started = retry[k].started + 1] /\ Go(p, "execute")
    BY <1>1, LinkedInvTypes DEF StartRetry
  <2>2. retry[k].started + 1 \in 0..Len(Order) /\ process[p].index = retry[k].started + 1
    <3>1. JobFits(k)
      BY DEF LinkedInv, Jobs
    <3>2. StartedOf(k) < Len(OrderOf(k)) /\ StartedOf(k) = retry[k].started /\ StartedOf(k) \in 0..Len(OrderOf(k))
      BY <1>d, <3>1, JobNames DEF JobFits, ServerFits, StartedOf
    <3>3. process[p].index \in Nat
      BY <1>t DEF ProcessStates
    <3>4. Len(OrderOf(k)) \in 0..Len(Order)
      BY OrdersAre
    <3> QED BY <1>1, <3>2, <3>3, <3>4, OrderIs
  <2>3. /\ retry' \in [Recoveries -> Retries] /\ \A l \in Recoveries : l # k => retry'[l] = retry[l]
        /\ retry'[k].status = "running" /\ retry'[k].started = process[p].index
    BY <1>1, <2>1, <2>2, LinkedInvTypes, RetryCounts
  <2>g. /\ process' \in [Processes -> ProcessStates] /\ OthersStay(p)
        /\ process'[p].step = "execute" /\ process'[p].job = k
        /\ process'[p].index = process[p].index /\ process'[p].seen = process[p].seen
    BY <1>d, <2>1, LinkedInvTypes, ProcessGoes DEF OthersStay, Steps
  <2>4. ProcessFits(p)'
    BY <2>g, JobNames DEF ProcessFits, Doing
  <2>5. JobFits(k)' /\ CallsFit(k)'
    <3>1. OrderOf(k)' = OrderOf(k) /\ calls'[k] = calls[k]
      BY <1>u DEF OrderOf, RetryOrder
    <3>2. JobStarted(p, k)
      BY <1>1, <1>d, <2>3, <2>g, <3>1, JobNames DEF JobStarted, StatusOf, StartedOf
    <3> QED BY <1>d, <1>t, <2>g, <3>2, StartedJobFits DEF LinkedInv, Jobs
  <2> QED BY <1>d, <1>u, <2>3, <2>g, <2>4, <2>5, RetryActs
<1>2. CASE ~(retry[k].status = "running" /\ retry[k].started = process[p].index - 1)
  <2>1. retry' = retry /\ Rest(p)
    BY <1>2 DEF StartRetry
  <2>2. "blocked" \in Ends /\ "none" \in LinkedDrafts \cup {"none"}
    BY DEF Ends
  <2> QED BY <1>d, <1>u, <2>1, <2>2, RetryLeft
<1> QED BY <1>1, <1>2

LEMMA RetryEnded ==
  ASSUME LinkedInv, NEW p \in Processes, NEW k \in Recoveries, EndRetry(p, k)
  PROVE  LinkedInv'
<1>d. process[p].job = k /\ process[p].step \in {"finish", "failed", "blocked"}
  BY DEF EndRetry
<1>u. UNCHANGED <<publication, rollout, recovery, decided, opened, calls, events>>
  BY DEF EndRetry
<1> DEFINE o == Outcome(p)
           f == FailedMember(p)
<1>1. SettleRetry(k, o, Current, f) /\ Rest(p)
  BY DEF EndRetry
<1>2. o \in Ends /\ (o = "partial" => Published(Current, Drafts))
  BY <1>d, JobNames DEF Outcome, Good, Ends
<1>3. f \in LinkedDrafts \cup {"none"}
  BY <1>d, MemberIs DEF FailedMember, Jobs
<1> HIDE DEF o, f
<1> QED BY <1>1, <1>2, <1>3, <1>d, <1>u, RetryLeft

(***************************************************************************)
(* The rollout as a whole                                                  *)
(***************************************************************************)
LEMMA LinkedStarts == LinkedInit => LinkedInv
<1> SUFFICES ASSUME LinkedInit PROVE LinkedInv
  OBVIOUS
<1> USE DEF LinkedInit
<1>n. /\ NoStatuses \in [LinkedDrafts -> Statuses] /\ "none" \in Statuses
      /\ (\A r \in LinkedDrafts : NoStatuses[r] = "none") /\ "none" \notin Delivered
      /\ 0 \in 0..Len(Order) /\ 0 \in 0..(Len(Order) + 1) /\ 0 \in 0..MaxAttempts
  BY NothingSeen, OrderIs, LinkedAssumption DEF Statuses, Delivered, Drafts
<1>1. LinkedTypeOK
  <2>1. publication \in [LinkedDrafts -> Publications]
    BY <1>n DEF Publications
  <2>2. rollout \in Rollouts
    BY <1>n DEF Rollouts
  <2>3. NoPlan \in Snapshots
    BY <1>n DEF NoPlan, Snapshots
  <2>4. NotStarted \in Retries
    BY <1>n DEF NotStarted, Retries
  <2>5. Resting \in ProcessStates
    BY <1>n DEF Resting, ProcessStates, Steps
  <2>6. calls \in [Jobs -> [LinkedDrafts -> Nat]]
    BY DEF Jobs
  <2> QED BY <2>1, <2>2, <2>3, <2>4, <2>5, <2>6, LinkedTypesAre
<1>2. \A p \in Processes : process[p] = Resting /\ ~(process[p].step \in Serving)
  BY DEF Resting, Serving
<1>3. \A p \in Processes : ProcessFits(p)
  BY <1>2, JobNames DEF ProcessFits, Resting, Doing
<1>4. ASSUME NEW j \in Jobs PROVE JobFits(j) /\ CallsFit(j)
  <2>1. StatusOf(j) \in {"none", "reserved"} /\ StartedOf(j) = 0
    BY DEF StatusOf, StartedOf, Jobs, NotStarted
  <2>2. \A p \in Processes : ~Serves(p, j)
    BY <1>2 DEF Serves
  <2>3. Len(OrderOf(j)) \in Nat /\ \A i \in 1..Len(OrderOf(j)) : OrderOf(j)[i] \in LinkedDrafts
    BY OrdersAre, OrderIs
  <2>4. JobFits(j)
    BY <2>1, <2>2, <2>3 DEF JobFits
  <2>5. \A r \in LinkedDrafts : calls[j][r] = 0
    BY DEF Jobs
  <2>6. CallsFit(j)
    BY <2>2, <2>3, <2>5 DEF CallsFit
  <2> QED BY <2>4, <2>6
<1>5. ASSUME NEW k \in Recoveries PROVE PlanFits(k)
  <2>1. recovery[k] = NoPlan /\ retry[k] = NotStarted /\ NotStarted.status = "none"
    BY DEF NotStarted
  <2>2. \A p \in Processes : process[p].job # k
    BY <1>2, JobNames DEF Resting
  <2> QED BY <2>1, <2>2 DEF PlanFits
<1>6. RolloutFits
  BY <1>2 DEF RolloutFits, Serves
<1>7. PublicationsFit
  BY <1>n DEF PublicationsFit
<1>8. Undisturbed
  <2>1. \A p \in Processes, r \in LinkedDrafts : process[p].seen[r] = "none"
    BY <1>2, <1>n DEF Resting
  <2> QED BY <2>1 DEF Undisturbed
<1> QED BY <1>1, <1>3, <1>4, <1>5, <1>6, <1>7, <1>8 DEF LinkedInv

LEMMA LinkedRests == LinkedInv /\ UNCHANGED linkedVars => LinkedInv'
<1> SUFFICES ASSUME LinkedInv, UNCHANGED linkedVars PROVE LinkedInv'
  OBVIOUS
<1>1. UNCHANGED <<publication, rollout, recovery, decided, retry, process, opened, calls, events>>
  BY DEF linkedVars
<1>2. /\ publication \in [LinkedDrafts -> Publications] /\ PublicationsFit /\ events \in Nat
      /\ opened \subseteq LinkedDrafts
  BY LinkedInvTypes DEF LinkedInv
<1>3. PublicationsFit' /\ (events' = 0 => Undisturbed')
  BY <1>1 DEF LinkedInv, PublicationsFit, Undisturbed, Serves, MemberIsAt
<1> QED BY <1>1, <1>2, <1>3, PublicationsAct

LEMMA ServicesAct ==
  ASSUME LinkedInv, NEW p \in Processes, ServiceStep(p)
  PROVE  LinkedInv'
<1>1. CASE \E s \in {"pending", "blocked"} : AdmitIntent(p, s)
  BY <1>1, IntentAdmitted
<1>2. CASE RecordManifest(p) \/ BlockRollout(p) \/ ClaimRollout(p) \/ StartMember(p) \/ Execute(p) \/ EndRollout(p)
  BY <1>2, ManifestRecorded, RolloutBlocked, RolloutClaimed, MemberStarted, MemberExecuted, RolloutEnded
<1>3. CASE \E s \in {"published", "failed", "blocked"} : EndExecute(p, s)
  BY <1>3, MemberPublished
<1>4. CASE \E k \in Recoveries : PreflightRetry(p, k) \/ ClaimRetry(p, k) \/ StartRetry(p, k) \/ EndRetry(p, k)
  BY <1>4, RetryPrepared, RetryClaimed, RetryStarted, RetryEnded
<1> QED BY <1>1, <1>2, <1>3, <1>4 DEF ServiceStep

LEMMA LinkedStep == LinkedInv /\ [LinkedNext]_linkedVars => LinkedInv'
<1> SUFFICES ASSUME LinkedInv, [LinkedNext]_linkedVars PROVE LinkedInv'
  OBVIOUS
<1>1. CASE \E r \in LinkedDrafts, s \in Statuses : OperatorAdmits(r, s) \/ OperatorEnds(r, s) \/ Refresh(r, s)
  BY <1>1, OperatorsAct
<1>2. CASE \E r \in LinkedDrafts : OperatorExecutes(r)
  <2>1. "none" \in Statuses
    BY DEF Statuses
  <2> QED BY <1>2, <2>1, OperatorsAct
<1>3. CASE \E k \in Recoveries : AdmitRecovery(k) \/ ReserveRetry(k) \/ Decide(k)
  BY <1>3, PlanAdmitted, PlanConsumed
<1>4. CASE \E p \in Processes : CallRollout(p) \/ ServiceStep(p) \/ Stop(p)
  BY <1>4, RolloutCalled, ServicesAct, ProcessStops
<1>5. CASE \E p \in Processes, k \in Recoveries : CallRetry(p, k)
  BY <1>5, RetryCalled
<1>6. CASE UNCHANGED linkedVars
  BY <1>6, LinkedRests
<1> QED BY <1>1, <1>2, <1>3, <1>4, <1>5, <1>6 DEF LinkedNext

\* What the invariant says of the calls.
LEMMA CalledOnce ==
  ASSUME LinkedInv, NEW j \in Jobs, NEW r \in LinkedDrafts
  PROVE  /\ calls[j][r] <= 1
         /\ calls[j][r] > 0 => \E i \in 1..Len(OrderOf(j)) : OrderOf(j)[i] = r /\ i <= StartedOf(j)
<1>1. CallsFit(j) /\ JobFits(j) /\ calls[j][r] \in Nat
  BY LinkedInvTypes DEF LinkedInv
<1>2. CASE r \notin Range(OrderOf(j))
  BY <1>1, <1>2 DEF CallsFit
<1>3. CASE r \in Range(OrderOf(j))
  <2>1. PICK i \in 1..Len(OrderOf(j)) : OrderOf(j)[i] = r
    BY <1>3, OrdersAre DEF Range
  <2>2. calls[j][r] <= IF i <= StartedOf(j) THEN 1 ELSE 0
    BY <1>1, <2>1 DEF CallsFit
  <2> QED BY <1>1, <2>1, <2>2
<1> QED BY <1>2, <1>3

LEMMA LinkedStands == LinkedInv => RolloutIsOrdered
<1> SUFFICES ASSUME LinkedInv PROVE RolloutIsOrdered
  OBVIOUS
<1>t. /\ LinkedTypeOK /\ calls \in [Jobs -> [LinkedDrafts -> Nat]] /\ opened \subseteq LinkedDrafts
      /\ process \in [Processes -> ProcessStates]
  BY LinkedInvTypes DEF LinkedInv
<1>f. RolloutFits /\ JobFits("rollout") /\ \A k \in Recoveries : PlanFits(k)
  BY DEF LinkedInv, Jobs
<1>1. DependenciesOpenFirst
  BY <1>f DEF DependenciesOpenFirst, RolloutFits
<1>2. MembersExecuteOnce
  BY <1>t, CalledOnce DEF MembersExecuteOnce
<1>3. RolloutEndsWithItsWork
  <2> SUFFICES ASSUME rollout.status \in Ends, NEW p \in Processes, process[p].job = "rollout"
               PROVE  process[p].step \notin {"start", "execute", "publishing"}
    BY DEF RolloutEndsWithItsWork
  <2>1. ~Serves(p, "rollout")
    BY <1>f DEF RolloutFits, Ends
  <2> QED BY <2>1 DEF Serves, Serving
<1>4. TerminalEvidenceIsTrue
  <2>1. ASSUME rollout.started = 0, NEW r \in LinkedDrafts PROVE calls["rollout"][r] = 0
    <3>1. StartedOf("rollout") = 0 /\ "rollout" \in Jobs /\ calls["rollout"][r] \in Nat
      BY <1>t, <2>1 DEF StartedOf, Jobs
    <3> QED BY <3>1, CalledOnce
  <2>2. \A k \in Recoveries : /\ retry[k].status = "succeeded" => LinkedDrafts = opened
                              /\ retry[k].status = "partial" => opened # {}
    BY <1>f, <1>t DEF PlanFits
  <2> QED BY <1>f, <1>t, <2>1, <2>2 DEF TerminalEvidenceIsTrue, RolloutFits
<1>5. PlanConsumedOnce
  <2> SUFFICES ASSUME NEW k \in Recoveries
               PROVE  /\ ~(k \in decided /\ retry[k] # NotStarted)
                      /\ \A r \in LinkedDrafts : calls[k][r] > 0 => recovery[k][r].status \in {"failed", "blocked", "pending"}
    BY DEF PlanConsumedOnce
  <2>1. ~(k \in decided /\ retry[k] # NotStarted)
    BY <1>f DEF PlanFits
  <2>2. ASSUME NEW r \in LinkedDrafts, calls[k][r] > 0 PROVE recovery[k][r].status \in {"failed", "blocked", "pending"}
    <3>1. PICK i \in 1..Len(OrderOf(k)) : OrderOf(k)[i] = r
      BY <2>2, CalledOnce DEF Jobs
    <3> QED BY <3>1, RetriedAreWanted DEF Wanted
  <2> QED BY <2>1, <2>2
<1>6. RunningRolloutIsWorkedOn
  <2> SUFFICES ASSUME rollout.status = "running", ~(events > 0) PROVE \E p \in Processes : process[p].job = "rollout"
    BY DEF RunningRolloutIsWorkedOn
  <2>1. events = 0
    BY LinkedInvTypes
  <2> QED BY <2>1 DEF LinkedInv, Undisturbed, Serves
<1> QED BY <1>1, <1>2, <1>3, <1>4, <1>5, <1>6, <1>t DEF RolloutIsOrdered

\* The rollout and its recoveries open the drafts in dependency order, once each, and end
\* with what really happened.
THEOREM RolloutOrdered == LinkedSpec => []RolloutIsOrdered
<1>1. LinkedSpec => []LinkedInv
  BY LinkedStarts, LinkedStep, PTL DEF LinkedSpec
<1> QED BY <1>1, LinkedStands, PTL

(***************************************************************************)
(* What the steps of the rollout and of its retries never do               *)
(***************************************************************************)
RetryStarts == \A k \in Recoveries : retry[k].status = "reserved" /\ retry'[k].status = "prepared" => Snapshot = recovery[k]
EndsStand ==
  /\ rollout.status \in Ends => rollout' = rollout
  /\ \A k \in Recoveries : retry[k].status \in Ends => retry'[k] = retry[k]

\* Only the process that works on the rollout writes it.
LEMMA RolloutIsWritten ==
  ASSUME NEW p \in Processes, ServiceStep(p), rollout.status \in Ends
  PROVE  rollout' = rollout
<1>s. rollout.status \notin {"reserved", "prepared", "running"}
  BY DEF Ends
<1>e. \A o, l, f : SettleRollout(o, l, f) => rollout' = rollout
  BY <1>s DEF SettleRollout, Settleable
<1>1. CASE RecordManifest(p) \/ ClaimRollout(p) \/ StartMember(p)
  BY <1>1, <1>s DEF RecordManifest, ClaimRollout, StartMember
<1>2. CASE BlockRollout(p)
  <2>1. PICK l, f : SettleRollout("blocked", l, f)
    BY <1>2 DEF BlockRollout
  <2> QED BY <1>e, <2>1
<1>3. CASE EndRollout(p)
  <2>1. PICK o, l, f : SettleRollout(o, l, f)
    BY <1>3 DEF EndRollout
  <2> QED BY <1>e, <2>1
<1>4. CASE \/ \E s \in {"pending", "blocked"} : AdmitIntent(p, s)
           \/ \E s \in {"published", "failed", "blocked"} : EndExecute(p, s)
           \/ Execute(p)
  BY <1>4 DEF AdmitIntent, EndExecute, Execute
<1>5. CASE \E k \in Recoveries : PreflightRetry(p, k) \/ ClaimRetry(p, k) \/ StartRetry(p, k) \/ EndRetry(p, k)
  BY <1>5 DEF PreflightRetry, ClaimRetry, StartRetry, EndRetry
<1> QED BY <1>1, <1>2, <1>3, <1>4, <1>5 DEF ServiceStep

\* The steps of a retry write its record only while it is not settled, and prepare it only
\* for the publications of its plan.
LEMMA RetryIsWritten ==
  ASSUME retry \in [Recoveries -> Retries], NEW p \in Processes, NEW k \in Recoveries,
         PreflightRetry(p, k) \/ ClaimRetry(p, k) \/ StartRetry(p, k) \/ EndRetry(p, k)
  PROVE  /\ \A l \in Recoveries : l # k => retry'[l] = retry[l]
         /\ retry[k].status \in Ends => retry'[k] = retry[k]
         /\ retry[k].status = "reserved" /\ retry'[k].status = "prepared" => Snapshot = recovery[k]
<1>e. ASSUME NEW o, o # "prepared", NEW l, NEW f, SettleRetry(k, o, l, f)
      PROVE  /\ \A j \in Recoveries : j # k => retry'[j] = retry[j]
             /\ retry[k].status \in Ends => retry'[k] = retry[k]
             /\ ~(retry[k].status = "reserved" /\ retry'[k].status = "prepared")
  <2>1. CASE ~SettleableRetry(k, o, l)
    BY <1>e, <2>1 DEF SettleRetry
  <2>2. CASE SettleableRetry(k, o, l)
    <3>1. retry' = [retry EXCEPT ![k] = [retry[k] EXCEPT !.status = o, !.result = l, !.failed = f]]
      BY <1>e, <2>2 DEF SettleRetry
    <3>2. retry'[k].status = o
      BY <3>1 DEF Retries
    <3>3. retry[k].status \notin Ends
      BY <2>2 DEF SettleableRetry, Ends
    <3> QED BY <1>e, <3>1, <3>2, <3>3
  <2> QED BY <2>1, <2>2
<1>1. CASE PreflightRetry(p, k)
  <2>1. CASE retry[k].status = "reserved" /\ Snapshot = recovery[k]
    BY <1>1, <2>1 DEF PreflightRetry, Ends
  <2>2. CASE ~(retry[k].status = "reserved" /\ Snapshot = recovery[k])
    <3>1. SettleRetry(k, "blocked", Current, "none")
      BY <1>1, <2>2 DEF PreflightRetry
    <3> QED BY <1>e, <3>1
  <2> QED BY <2>1, <2>2
<1>2. CASE ClaimRetry(p, k)
  BY <1>2 DEF ClaimRetry, Ends
<1>3. CASE StartRetry(p, k)
  BY <1>3 DEF StartRetry, Ends
<1>4. CASE EndRetry(p, k)
  <2>1. PICK o, f : SettleRetry(k, o, Current, f) /\ o = Outcome(p)
    BY <1>4 DEF EndRetry
  <2>2. o # "prepared"
    BY <1>4, <2>1 DEF EndRetry, Outcome
  <2> QED BY <1>e, <2>1, <2>2
<1> QED BY <1>1, <1>2, <1>3, <1>4

LEMMA LinkedStepStands == LinkedInv /\ [LinkedNext]_linkedVars => RetryStarts /\ EndsStand
<1> SUFFICES ASSUME LinkedInv, [LinkedNext]_linkedVars PROVE RetryStarts /\ EndsStand
  OBVIOUS
<1>t. retry \in [Recoveries -> Retries]
  BY LinkedInvTypes
<1>0. ASSUME UNCHANGED <<rollout, retry>> PROVE RetryStarts /\ EndsStand
  BY <1>0 DEF RetryStarts, EndsStand
<1>1. CASE \E r \in LinkedDrafts, s \in Statuses : OperatorAdmits(r, s) \/ OperatorEnds(r, s) \/ Refresh(r, s)
  BY <1>0, <1>1 DEF OperatorAdmits, OperatorEnds, Refresh
<1>2. CASE \E r \in LinkedDrafts : OperatorExecutes(r)
  BY <1>0, <1>2 DEF OperatorExecutes
<1>3. CASE \E k \in Recoveries : AdmitRecovery(k) \/ Decide(k)
  BY <1>0, <1>3 DEF AdmitRecovery, Decide
<1>4. CASE \E k \in Recoveries : ReserveRetry(k)
  <2>1. PICK k \in Recoveries : ReserveRetry(k)
    BY <1>4
  <2>2. retry[k].status = "none" /\ retry' = [retry EXCEPT ![k].status = "reserved"] /\ rollout' = rollout
    BY <2>1 DEF ReserveRetry, NotStarted
  <2>3. \A l \in Recoveries : l # k => retry'[l] = retry[l]
    BY <1>t, <2>2
  <2> QED BY <2>2, <2>3 DEF RetryStarts, EndsStand, Ends
<1>5. CASE \E p \in Processes : CallRollout(p) \/ Stop(p) \/ \E k \in Recoveries : CallRetry(p, k)
  BY <1>0, <1>5 DEF CallRollout, Stop, CallRetry
<1>6. CASE \E p \in Processes : ServiceStep(p)
  <2>1. PICK p \in Processes : ServiceStep(p)
    BY <1>6
  <2>2. rollout.status \in Ends => rollout' = rollout
    BY <2>1, RolloutIsWritten
  <2>3. CASE \E k \in Recoveries : PreflightRetry(p, k) \/ ClaimRetry(p, k) \/ StartRetry(p, k) \/ EndRetry(p, k)
    BY <1>t, <2>2, <2>3, RetryIsWritten DEF RetryStarts, EndsStand
  <2>4. CASE \/ \E s \in {"pending", "blocked"} : AdmitIntent(p, s)
             \/ RecordManifest(p) \/ BlockRollout(p) \/ ClaimRollout(p) \/ StartMember(p)
             \/ Execute(p) \/ EndRollout(p)
             \/ \E s \in {"published", "failed", "blocked"} : EndExecute(p, s)
    <3>1. retry' = retry
      BY <2>4 DEF AdmitIntent, RecordManifest, BlockRollout, ClaimRollout, StartMember, Execute, EndRollout, EndExecute
    <3> QED BY <2>2, <3>1 DEF RetryStarts, EndsStand
  <2> QED BY <2>1, <2>3, <2>4 DEF ServiceStep
<1>7. CASE UNCHANGED linkedVars
  BY <1>0, <1>7 DEF linkedVars
<1> QED BY <1>1, <1>2, <1>3, <1>4, <1>5, <1>6, <1>7 DEF LinkedNext

\* A retry starts from the publications its plan was derived from, and no end is rewritten.
THEOREM RolloutStands == LinkedSpec => RetryStartsFromItsPlan /\ TerminalStands
<1>1. LinkedSpec => []LinkedInv
  BY LinkedStarts, LinkedStep, PTL DEF LinkedSpec
<1>2. LinkedInv /\ [LinkedNext]_linkedVars => [RetryStarts]_linkedVars /\ [EndsStand]_linkedVars
  BY LinkedStepStands
<1>3. LinkedSpec => [][RetryStarts]_linkedVars /\ [][EndsStand]_linkedVars
  BY <1>1, <1>2, PTL DEF LinkedSpec
<1> QED BY <1>3, PTL DEF RetryStartsFromItsPlan, TerminalStands, RetryStarts, EndsStand

(***************************************************************************)
(* Both halves at once                                                     *)
(***************************************************************************)
LEMMA ChangeSetsInterleave == ChangeSetsSpec => MemberSpec /\ LinkedSpec
<1>1. ChangeSetsInit => MemberInit /\ LinkedInit
  BY DEF ChangeSetsInit
<1>2. [ChangeSetsNext]_<<allVars, linkedVars>> => [MemberNext]_allVars /\ [LinkedNext]_linkedVars
  BY DEF ChangeSetsNext
<1> QED BY <1>1, <1>2, PTL DEF ChangeSetsSpec, MemberSpec, LinkedSpec

\* The members of a change set and its rollout keep what they promise while they interleave.
THEOREM ChangeSetsHold ==
  ChangeSetsSpec => []MembersTakeTurns /\ []RolloutIsOrdered /\ ChangeSetsStand
BY ChangeSetsInterleave, MembersTakeTurnsHolds, MembersStand, RolloutOrdered, RolloutStands, PTL DEF ChangeSetsStand
=================================================================================
