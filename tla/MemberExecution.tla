--------------------------- MODULE MemberExecution ---------------------------
(***************************************************************************)
(* The members of a scheduled change set, one at a time: the expiring      *)
(* preparation lease, the preparation of the member's worktree, the        *)
(* one-use execution reservation, its preflight, the claimed call, and the *)
(* settlement of ledger, reservation and lease in two transactions.        *)
(***************************************************************************)
EXTENDS ChangeSet

CONSTANT Callers   \* processes that run the preparation and execution services

VARIABLES
  lease,           \* lease[r]: [status, policy, evidence]
  late,            \* late[r]: its preparation timeout has passed
  reservation,     \* reservation[r]: [status, calls, preflight]
  caller,          \* caller[c]: [step, repo, saw]
  dispatched       \* dispatched[r]: worker calls really made

memberVars == <<lease, late, reservation, caller, dispatched>>
allVars == <<changeSetVars, memberVars>>

NoLease       == [status |-> "none", policy |-> "none", evidence |-> "none"]
NoReservation == [status |-> "none", calls |-> 0, preflight |-> "none"]
Free          == [step |-> "idle", repo |-> "none", saw |-> "none"]
Terminal      == {"succeeded", "blocked", "failed"}
ActiveLease   == {"reserved", "preparing", "prepared"}

At(c, step, r) == caller[c].step = step /\ caller[c].repo = r
GoOn(c, step, r, saw) == caller' = [caller EXCEPT ![c] = [step |-> step, repo |-> r, saw |-> saw]]
Answer(c) == caller' = [caller EXCEPT ![c] = Free]

\* What a member's dependencies must have reached: the review is asked for by
\* the contract they were scheduled with.
DependencyComplete(d) ==
  /\ run[d].status = "succeeded" /\ run[d].attempt = "succeeded"
  /\ schedule[d] \in Reviewing => run[d].review = "approved"

MayLease(r) ==
  /\ Scheduled /\ CoordinationAllowed /\ MayExecute(r)
  /\ lease[r] = NoLease /\ Pristine(r)
  /\ \A d \in needs[r] : DependencyComplete(d)

\* Fault: only a lease nobody has started to prepare keeps the others out.
ReserveBesidePrepared(r) ==
  /\ MayLease(r) /\ \A o \in Repos : lease[o].status # "reserved"
  /\ lease' = [lease EXCEPT ![r] = [NoLease EXCEPT !.status = "reserved", !.policy = policy[r]]]
  /\ UNCHANGED <<changeSetVars, late, reservation, caller, dispatched>>

\* One lease per member, one active lease per schedule.
ReserveLease(r) ==
  /\ MayLease(r) /\ \A o \in Repos : lease[o].status \notin ActiveLease
  /\ lease' = [lease EXCEPT ![r] = [NoLease EXCEPT !.status = "reserved", !.policy = policy[r]]]
  /\ UNCHANGED <<changeSetVars, late, reservation, caller, dispatched>>

Expire(r) ==
  /\ lease[r].status \in {"reserved", "preparing"} /\ ~late[r]
  /\ late' = [late EXCEPT ![r] = TRUE]
  /\ UNCHANGED <<changeSetVars, lease, reservation, caller, dispatched>>

\* The command runs in a new worktree for whoever moved the lease to preparing;
\* a caller that finds it preparing past its time settles it as ambiguous.
ClaimPreparation(c, r) ==
  /\ caller[c] = Free
  /\ \/ /\ lease[r].status = "reserved"
        /\ lease' = [lease EXCEPT ![r].status = IF late[r] THEN "expired" ELSE "preparing"]
        /\ IF late[r] THEN UNCHANGED caller ELSE GoOn(c, "command", r, "none")
     \/ /\ lease[r].status = "preparing" /\ late[r]
        /\ GoOn(c, "ambiguous", r, "none") /\ UNCHANGED lease
  /\ UNCHANGED <<changeSetVars, late, reservation, dispatched>>

\* Fault: the caller that ran the command settles the lease whatever it holds.
CompletePreparationLate(c, r, verdict) ==
  /\ At(c, "command", r) \/ (At(c, "ambiguous", r) /\ verdict = "blocked")
  /\ lease' = [lease EXCEPT ![r].evidence = verdict,
                            ![r].status = IF verdict = "passed" THEN "prepared" ELSE "blocked"]
  /\ Answer(c)
  /\ UNCHANGED <<changeSetVars, late, reservation, dispatched>>

\* The first evidence stands; what comes later is refused.
CompletePreparation(c, r, verdict) ==
  /\ At(c, "command", r) \/ (At(c, "ambiguous", r) /\ verdict = "blocked")
  /\ lease' = IF lease[r].status # "preparing" THEN lease
              ELSE [lease EXCEPT ![r].evidence = verdict,
                                 ![r].status = IF verdict = "passed" THEN "prepared" ELSE "blocked"]
  /\ Answer(c)
  /\ UNCHANGED <<changeSetVars, late, reservation, dispatched>>

\* One reservation per prepared lease, under the contract it was prepared for.
ReserveExecution(r) ==
  /\ lease[r].status = "prepared" /\ lease[r].policy = policy[r]
  /\ CoordinationAllowed /\ MayExecute(r)
  /\ Pristine(r) /\ reservation[r] = NoReservation
  /\ reservation' = [reservation EXCEPT ![r].status = "reserved"]
  /\ UNCHANGED <<changeSetVars, lease, late, caller, dispatched>>

\* The worktree is inspected outside any transaction; it may have been touched.
Inspect(c, r, saw) ==
  /\ caller[c] = Free
  /\ \/ reservation[r].preflight = "none" /\ reservation[r].status = "reserved" /\ GoOn(c, "record", r, saw)
     \/ reservation[r].preflight # "none" /\ saw = "passed" /\ GoOn(c, "resume", r, "none")
  /\ UNCHANGED <<changeSetVars, lease, late, reservation, dispatched>>

\* Preflight, attempt, run, job and the one call are written together, for one
\* caller only.  A different verdict than the recorded one is refused.
RecordPreflightAndClaim(c, r) ==
  LET saw == caller[c].saw IN
  /\ At(c, "record", r)
  /\ \/ /\ reservation[r].preflight # "none" /\ UNCHANGED <<reservation, run>>
        /\ IF reservation[r].preflight = saw THEN GoOn(c, "resume", r, "none") ELSE Answer(c)
     \/ /\ reservation[r].preflight = "none" /\ saw = "blocked" /\ GoOn(c, "resume", r, "none")
        /\ reservation' = [reservation EXCEPT ![r].preflight = saw, ![r].status = "blocked"]
        /\ UNCHANGED run
     \/ /\ reservation[r].preflight = "none" /\ saw = "passed"
        /\ IF Pristine(r)
             THEN /\ reservation' = [reservation EXCEPT ![r] = [status |-> "running", calls |-> 1, preflight |-> saw]]
                  /\ run' = [run EXCEPT ![r].status = "active", ![r].attempt = "running"]
                  /\ GoOn(c, "claimed", r, "none")
             ELSE Answer(c) /\ UNCHANGED <<reservation, run>>
  /\ UNCHANGED <<policy, needs, admitter, parent, authorized, schedule, deploys, crashes, lease, late, dispatched>>

\* The claimed caller checks the worktree again and calls the worker, or fails first.
CallWorker(c, r) ==
  /\ At(c, "claimed", r)
  /\ \/ GoOn(c, "working", r, "none") /\ dispatched' = [dispatched EXCEPT ![r] = @ + 1]
     \/ GoOn(c, "failing", r, "none") /\ UNCHANGED dispatched
  /\ UNCHANGED <<changeSetVars, lease, late, reservation>>

\* The attempt settles in the ledger first.
CompleteExecution(c, r, o) ==
  /\ At(c, "working", r) \/ (At(c, "failing", r) /\ o = "failed")
  /\ CompleteAttempt(r, o)
  /\ GoOn(c, "settle", r, "none")
  /\ UNCHANGED <<policy, needs, admitter, parent, authorized, schedule, deploys, crashes,
                 lease, late, reservation, dispatched>>

\* The reservation takes the ledger's outcome and consumes its lease, once.
SettleMember(c, r) ==
  /\ At(c, "settle", r) /\ Answer(c)
  /\ IF reservation[r].status = "running" /\ run[r].attempt \in Terminal /\ run[r].status = run[r].attempt
       THEN /\ reservation' = [reservation EXCEPT ![r].status = run[r].attempt]
            /\ lease' = [lease EXCEPT ![r].status = "consumed"]
       ELSE UNCHANGED <<reservation, lease>>
  /\ UNCHANGED <<changeSetVars, late, dispatched>>

\* Whoever was not given the call settles what the ledger has already settled.
Resume(c, r) ==
  /\ At(c, "resume", r)
  /\ IF reservation[r].status = "running" /\ run[r].status \in Terminal
       THEN GoOn(c, "settle", r, "none") ELSE Answer(c)
  /\ UNCHANGED <<changeSetVars, lease, late, reservation, dispatched>>

Crash(c) ==
  /\ caller[c] # Free /\ crashes < MaxCrashes
  /\ crashes' = crashes + 1 /\ Answer(c)
  /\ UNCHANGED <<policy, needs, run, admitter, parent, authorized, schedule, deploys,
                 lease, late, reservation, dispatched>>

\* A run that was overridden before it was bound ends on its own.
FinishAlone(r, o) ==
  /\ reservation[r].calls = 0 /\ CompleteAttempt(r, o)
  /\ UNCHANGED <<policy, needs, admitter, parent, authorized, schedule, deploys, crashes, memberVars>>

MemberInit ==
  /\ ChangeSetInit
  /\ lease = [r \in Repos |-> NoLease] /\ late = [r \in Repos |-> FALSE]
  /\ reservation = [r \in Repos |-> NoReservation]
  /\ caller = [c \in Callers |-> Free]
  /\ dispatched = [r \in Repos |-> 0]

MemberNext ==
  \/ ChangeSetNext /\ UNCHANGED memberVars
  \/ \E r \in Repos : ReserveLease(r) \/ Expire(r) \/ ReserveExecution(r)
  \/ \E r \in Repos, o \in Outcomes : FinishAlone(r, o)
  \/ \E c \in Callers : Crash(c)
  \/ \E c \in Callers, r \in Repos :
       \/ ClaimPreparation(c, r) \/ RecordPreflightAndClaim(c, r)
       \/ CallWorker(c, r) \/ SettleMember(c, r) \/ Resume(c, r)
       \/ \E verdict \in {"passed", "blocked"} :
            CompletePreparation(c, r, verdict) \/ Inspect(c, r, verdict)
       \/ \E o \in Outcomes : CompleteExecution(c, r, o)

MemberSpec == MemberInit /\ [][MemberNext]_allVars

-----------------------------------------------------------------------------

\* Type invariant of change set, leases, reservations and services.
MemberTypeOK ==
  /\ ChangeSetTypeOK
  /\ lease \in [Repos -> [status : {"none", "expired", "blocked", "consumed"} \cup ActiveLease,
                          policy : Policies \cup {"none"}, evidence : {"none", "passed", "blocked"}]]
  /\ late \in [Repos -> BOOLEAN]
  /\ reservation \in [Repos -> [status : {"none", "reserved", "running"} \cup Terminal,
                                calls : {0, 1}, preflight : {"none", "passed", "blocked"}]]
  /\ caller \in [Callers -> [step : {"idle", "command", "ambiguous", "record", "claimed", "working",
                                     "failing", "settle", "resume"},
                             repo : Repos \cup {"none"}, saw : {"none", "passed", "blocked"}]]
  /\ dispatched \in [Repos -> Nat]

\* The members of a schedule take turns: a member that is being prepared, or
\* whose prepared worktree waits for its execution, keeps all others out.
OneMemberAtATime ==
  Cardinality({r \in Repos : lease[r].status \in ActiveLease}) <= 1

\* Once the members are authorized together, none of them runs except by the
\* call of its own reservation; an override in time makes authorization fail.
OnlyReservedMembersRun ==
  authorized => \A r \in Repos : Pristine(r) \/ reservation[r].calls = 1

\* A worktree is prepared, reserved and run only on top of dependencies that are
\* implemented and, where their scheduled contract asks for it, approved.
DependenciesFirst ==
  \A r \in Repos : lease[r] # NoLease => \A d \in needs[r] : DependencyComplete(d)

\* The worker of a member is called at most once, over all callers and crashes.
DispatchedOnce == \A r \in Repos : dispatched[r] <= reservation[r].calls

\* What #record verifies on every read holds between any two
\* transactions, so that no stored reservation ever becomes unreadable.
RecordsStayReadable ==
  \A r \in Repos :
    LET res == reservation[r]
        ran == run[r].attempt \in Terminal /\ run[r].status = run[r].attempt
        blocked == run[r].status = "blocked" /\ run[r].attempt = "none"
    IN /\ res.status = "reserved" => res.preflight = "none" /\ blocked /\ lease[r].status = "prepared"
       /\ res.status = "running" =>
            /\ res.preflight = "passed" /\ lease[r].status = "prepared"
            /\ ran \/ (run[r].status = "active" /\ run[r].attempt = "running")
       /\ res.status \in Terminal /\ res.calls = 1 =>
            /\ res.preflight = "passed" /\ lease[r].status = "consumed"
            /\ run[r].attempt = res.status /\ run[r].status = res.status
       /\ res.status \in Terminal /\ res.calls = 0 =>
            res.preflight = "blocked" /\ blocked /\ lease[r].status = "prepared"

\* The command that ran under a contract is followed by a call under the same
\* one: the reservation is made only while that contract is still in force.
ReservedUnderPreparedPolicy ==
  [][\A r \in Repos : reservation[r] = NoReservation /\ reservation[r]' # NoReservation
       => lease[r].policy = policy[r]]_allVars

\* Evidence is written once: no late answer of a command or an inspection
\* replaces what another caller has recorded.
EvidenceStands ==
  [][\A r \in Repos :
       /\ lease[r].evidence # "none" => lease'[r].evidence = lease[r].evidence
       /\ reservation[r].preflight # "none" => reservation'[r].preflight = reservation[r].preflight]_allVars

CallOf(r) ==
  CASE reservation[r].status \in {"none", "reserved"}                   -> "open"
    [] reservation[r].status = "running"                                -> "made"
    [] reservation[r].status \in Terminal /\ reservation[r].calls = 1   -> "settled"
    [] OTHER                                                            -> "withdrawn"

MemberBudget == INSTANCE OneUseCalls WITH
  Calls <- Repos, Limit <- Cardinality(Repos), call <- [r \in Repos |-> CallOf(r)]

\* The members' reservations are a budget of one-use calls.
MemberCallIsOneUse == MemberBudget!Spec

\* The members of a change set run one at a time, after what they depend on, each by
\* its own reservation and once, and every record stays readable.
MembersTakeTurns ==
  /\ MemberTypeOK
  /\ OneMemberAtATime
  /\ OnlyReservedMembersRun
  /\ DependenciesFirst
  /\ DispatchedOnce
  /\ RecordsStayReadable
=============================================================================
