---------------------------- MODULE JobLedgerProofs ----------------------------
(***************************************************************************)
(* Theorems of JobLedger, for every set of runs and members, any capacity  *)
(* ceiling and any number of attempts, versions and lost calls.            *)
(***************************************************************************)
EXTENDS JobLedger, FiniteSetTheorems, TLAPS

(***************************************************************************)
(* Sequences of attempts and reviews                                       *)
(***************************************************************************)
LEMMA Appended ==
  ASSUME NEW S, NEW s \in Seq(S), NEW x \in S
  PROVE  /\ Append(s, x) \in Seq(S)
         /\ Len(Append(s, x)) = Len(s) + 1
         /\ \A i \in 1..Len(s) : Append(s, x)[i] = s[i]
         /\ Append(s, x)[Len(s) + 1] = x
         /\ Len(s) \in Nat
  OBVIOUS

LEMMA Updated ==
  ASSUME NEW S, NEW s \in Seq(S), NEW i \in 1..Len(s), NEW x \in S
  PROVE  /\ [s EXCEPT ![i] = x] \in Seq(S)
         /\ Len([s EXCEPT ![i] = x]) = Len(s)
         /\ \A j \in 1..Len(s) : [s EXCEPT ![i] = x][j] = IF j = i THEN x ELSE s[j]
  OBVIOUS

\* The recovery rewrites every item of a sequence.
LEMMA Mapped ==
  ASSUME NEW S, NEW s \in Seq(S), NEW t, t = [n \in DOMAIN s |-> t[n]],
         \A n \in DOMAIN s : t[n] \in S
  PROVE  t \in Seq(S) /\ Len(t) = Len(s)
<1>1. DOMAIN s = 1..Len(s) /\ Len(s) \in Nat
  OBVIOUS
<1>2. t \in [1..Len(s) -> S]
  BY <1>1
<1> QED BY <1>1, <1>2

(***************************************************************************)
(* What each action does to the attempts and the reviews                   *)
(***************************************************************************)
\* Calls in progress refer to attempts and reviews that exist.
CallsRefer ==
  /\ \A e \in executing : e.attempt \in DOMAIN attempts[e.run]
  /\ \A v \in reviewing : v.review \in DOMAIN reviews[v.run]

Typed == TypeOK /\ CallsRefer

\* The outcomes of one run's attempts are the same before and after a step.
SameStatuses(r) ==
  /\ Len(attempts'[r]) = Len(attempts[r])
  /\ \A n \in 1..Len(attempts[r]) : /\ attempts'[r][n].status = attempts[r][n].status
                                    /\ attempts'[r][n].changed = attempts[r][n].changed

\* One attempt of one run takes a status; the others keep theirs.
SetsStatus(r, n, status) ==
  /\ n \in 1..Len(attempts[r])
  /\ Len(attempts'[r]) = Len(attempts[r])
  /\ attempts'[r][n].status = status
  /\ \A m \in 1..Len(attempts[r]) : m # n => attempts'[r][m].status = attempts[r][m].status
  /\ \A q \in Runs : q # r => attempts'[q] = attempts[q]

\* One attempt, or one review, of one run becomes x; the others stay what they are.
SetsAttempt(r, n, x) ==
  /\ n \in 1..Len(attempts[r]) /\ Len(attempts'[r]) = Len(attempts[r])
  /\ attempts'[r][n] = x
  /\ \A m \in 1..Len(attempts[r]) : m # n => attempts'[r][m] = attempts[r][m]
  /\ \A q \in Runs : q # r => attempts'[q] = attempts[q]

SetsReview(r, n, x) ==
  /\ n \in 1..Len(reviews[r]) /\ Len(reviews'[r]) = Len(reviews[r])
  /\ reviews'[r][n] = x
  /\ \A m \in 1..Len(reviews[r]) : m # n => reviews'[r][m] = reviews[r][m]
  /\ \A q \in Runs : q # r => reviews'[q] = reviews[q]

LEMMA Shapes ==
  ASSUME TypeOK
  PROVE  /\ attempts \in [Runs -> Seq(Attempt)] /\ reviews \in [Runs -> Seq(Review)]
         /\ \A r \in Runs : /\ DOMAIN attempts[r] = 1..Len(attempts[r]) /\ Len(attempts[r]) \in Nat
                            /\ DOMAIN reviews[r] = 1..Len(reviews[r]) /\ Len(reviews[r]) \in Nat
                            /\ attempts[r] \in Seq(Attempt) /\ reviews[r] \in Seq(Review)
  BY DEF TypeOK

LEMMA ReleasedClaim ==
  ASSUME NEW claim \in ClaimStates
  PROVE  Released(claim) \in ClaimStates
  BY DEF Released, ClaimStates

LEMMA AuthorizeEffect ==
  ASSUME Typed, NEW r \in Runs, AuthorizeExecution(r)
  PROVE  /\ attempts' \in [Runs -> Seq(Attempt)]
         /\ Len(attempts'[r]) = Len(attempts[r]) + 1
         /\ attempts'[r][Len(attempts[r]) + 1] =
              [status |-> "queued", changed |-> FALSE, claim |-> "none"]
         /\ \A n \in 1..Len(attempts[r]) : attempts'[r][n] = attempts[r][n]
         /\ \A q \in Runs : q # r => attempts'[q] = attempts[q]
<1> DEFINE x == [status |-> "queued", changed |-> FALSE, claim |-> "none"]
<1>1. x \in Attempt
  BY DEF Attempt, AttemptStatuses, ClaimStates
<1>2. attempts' = [attempts EXCEPT ![r] = Append(attempts[r], x)]
  BY DEF AuthorizeExecution
<1>3. /\ Append(attempts[r], x) \in Seq(Attempt)
      /\ Len(Append(attempts[r], x)) = Len(attempts[r]) + 1
      /\ \A i \in 1..Len(attempts[r]) : Append(attempts[r], x)[i] = attempts[r][i]
      /\ Append(attempts[r], x)[Len(attempts[r]) + 1] = x
  BY <1>1, Shapes, Appended DEF Typed
<1> QED BY <1>2, <1>3, Shapes DEF Typed

LEMMA MarkRunningEffect ==
  ASSUME Typed, NEW e \in executing, MarkExecutionRunning(e)
  PROVE  /\ attempts' \in [Runs -> Seq(Attempt)]
         /\ SetsAttempt(e.run, e.attempt,
                        [attempts[e.run][e.attempt] EXCEPT !.status = "running", !.claim = "active"])
         /\ SetsStatus(e.run, e.attempt, "running")
<1>e. e.run \in Runs /\ e.attempt \in 1..Len(attempts[e.run])
  BY Shapes DEF Typed, TypeOK, CallsRefer, Executions
<1> DEFINE s == attempts[e.run]
           x == [s[e.attempt] EXCEPT !.status = "running", !.claim = "active"]
<1>1. s \in Seq(Attempt) /\ s[e.attempt] \in Attempt
  BY <1>e, Shapes DEF Typed
<1>2. x \in Attempt /\ x.status = "running"
  BY <1>1 DEF Attempt, AttemptStatuses, ClaimStates
<1>3. attempts' = [attempts EXCEPT ![e.run] = [s EXCEPT ![e.attempt] = x]]
  BY <1>e, <1>1, Shapes DEF MarkExecutionRunning, Typed
<1>4. /\ [s EXCEPT ![e.attempt] = x] \in Seq(Attempt)
      /\ Len([s EXCEPT ![e.attempt] = x]) = Len(s)
      /\ \A j \in 1..Len(s) : [s EXCEPT ![e.attempt] = x][j] = IF j = e.attempt THEN x ELSE s[j]
  BY <1>e, <1>1, <1>2, Updated
<1>5. SetsAttempt(e.run, e.attempt, x)
  BY <1>e, <1>3, <1>4, Shapes DEF SetsAttempt, Typed
<1>6. SetsStatus(e.run, e.attempt, x.status)
  BY <1>5 DEF SetsStatus, SetsAttempt
<1> QED BY <1>2, <1>3, <1>4, <1>5, <1>6, <1>e, Shapes DEF Typed

LEMMA CompleteEffect ==
  ASSUME Typed, NEW e \in executing, NEW status \in {"succeeded", "blocked", "failed"},
         NEW changed \in BOOLEAN, CompleteExecution(e, status, changed)
  PROVE  /\ attempts' \in [Runs -> Seq(Attempt)]
         /\ SetsAttempt(e.run, e.attempt,
                        [status |-> status, changed |-> changed,
                         claim |-> Released(attempts[e.run][e.attempt].claim)])
         /\ SetsStatus(e.run, e.attempt, status)
<1>e. e.run \in Runs /\ e.attempt \in 1..Len(attempts[e.run])
  BY Shapes DEF Typed, TypeOK, CallsRefer, Executions
<1> DEFINE s == attempts[e.run]
           x == [status |-> status, changed |-> changed, claim |-> Released(s[e.attempt].claim)]
<1>1. s \in Seq(Attempt) /\ s[e.attempt] \in Attempt
  BY <1>e, Shapes DEF Typed
<1>2. x \in Attempt /\ x.status = status
  BY <1>1, ReleasedClaim DEF Attempt, AttemptStatuses
<1>3. attempts' = [attempts EXCEPT ![e.run] = [s EXCEPT ![e.attempt] = x]]
  BY <1>e, <1>1, Shapes DEF CompleteExecution, Typed
<1>4. /\ [s EXCEPT ![e.attempt] = x] \in Seq(Attempt)
      /\ Len([s EXCEPT ![e.attempt] = x]) = Len(s)
      /\ \A j \in 1..Len(s) : [s EXCEPT ![e.attempt] = x][j] = IF j = e.attempt THEN x ELSE s[j]
  BY <1>e, <1>1, <1>2, Updated
<1>5. SetsAttempt(e.run, e.attempt, x)
  BY <1>e, <1>3, <1>4, Shapes DEF SetsAttempt, Typed
<1>6. SetsStatus(e.run, e.attempt, x.status)
  BY <1>5 DEF SetsStatus, SetsAttempt
<1> QED BY <1>2, <1>3, <1>4, <1>5, <1>6, <1>e, Shapes DEF Typed

LEMMA RecoverEffect ==
  ASSUME Typed, RecoverClaims
  PROVE  /\ attempts' \in [Runs -> Seq(Attempt)] /\ reviews' \in [Runs -> Seq(Review)]
         /\ \A r \in Runs : SameStatuses(r) /\ Len(reviews'[r]) = Len(reviews[r])
<1>1. PICK S :
        /\ attempts' = [r \in Runs |-> [n \in DOMAIN attempts[r] |->
             IF <<"execution_attempt", r, n>> \in S THEN [attempts[r][n] EXCEPT !.claim = "ambiguous"]
                                                    ELSE attempts[r][n]]]
        /\ reviews' = [r \in Runs |-> [n \in DOMAIN reviews[r] |->
             IF <<"review", r, n>> \in S THEN [reviews[r][n] EXCEPT !.claim = "ambiguous"]
                                         ELSE reviews[r][n]]]
  BY DEF RecoverClaims
<1>2. ASSUME NEW r \in Runs
      PROVE  attempts'[r] \in Seq(Attempt) /\ SameStatuses(r)
  <2>1. attempts'[r] = [n \in DOMAIN attempts[r] |->
             IF <<"execution_attempt", r, n>> \in S THEN [attempts[r][n] EXCEPT !.claim = "ambiguous"]
                                                    ELSE attempts[r][n]]
    BY <1>1
  <2>2. ASSUME NEW n \in DOMAIN attempts[r]
        PROVE  /\ attempts'[r][n] \in Attempt
               /\ attempts'[r][n].status = attempts[r][n].status
               /\ attempts'[r][n].changed = attempts[r][n].changed
    <3>1. attempts[r][n] \in Attempt
      BY Shapes DEF Typed
    <3> QED BY <2>1, <3>1 DEF Attempt, ClaimStates
  <2>3. attempts'[r] = [n \in DOMAIN attempts[r] |-> attempts'[r][n]]
    BY <2>1
  <2>4. attempts'[r] \in Seq(Attempt) /\ Len(attempts'[r]) = Len(attempts[r])
    BY <2>2, <2>3, Shapes, Mapped DEF Typed
  <2> QED BY <2>2, <2>4, Shapes DEF SameStatuses, Typed
<1>3. ASSUME NEW r \in Runs
      PROVE  reviews'[r] \in Seq(Review) /\ Len(reviews'[r]) = Len(reviews[r])
  <2>1. reviews'[r] = [n \in DOMAIN reviews[r] |->
             IF <<"review", r, n>> \in S THEN [reviews[r][n] EXCEPT !.claim = "ambiguous"]
                                         ELSE reviews[r][n]]
    BY <1>1
  <2>2. ASSUME NEW n \in DOMAIN reviews[r]
        PROVE  reviews'[r][n] \in Review
    <3>1. reviews[r][n] \in Review
      BY Shapes DEF Typed
    <3> QED BY <2>1, <3>1 DEF Review, ClaimStates
  <2>3. reviews'[r] = [n \in DOMAIN reviews[r] |-> reviews'[r][n]]
    BY <2>1
  <2> QED BY <2>2, <2>3, Shapes, Mapped DEF Typed
<1>4. DOMAIN attempts' = Runs /\ attempts' = [r \in Runs |-> attempts'[r]]
      /\ reviews' = [r \in Runs |-> reviews'[r]]
  BY <1>1
<1> QED BY <1>2, <1>3, <1>4

LEMMA AuthorizeReviewEffect ==
  ASSUME Typed, NEW r \in Runs, NEW trigger \in {"operator", "policy"}, AuthorizeReview(r, trigger)
  PROVE  /\ reviews' \in [Runs -> Seq(Review)]
         /\ Len(reviews'[r]) = Len(reviews[r]) + 1
         /\ reviews'[r][Len(reviews[r]) + 1] = [attempt |-> Len(attempts[r]), trigger |-> trigger,
                                                status |-> "queued", claim |-> "none"]
         /\ \A n \in 1..Len(reviews[r]) : reviews'[r][n] = reviews[r][n]
         /\ \A q \in Runs : q # r => reviews'[q] = reviews[q]
<1> DEFINE x == [attempt |-> Len(attempts[r]), trigger |-> trigger, status |-> "queued", claim |-> "none"]
<1>1. x \in Review
  BY Shapes DEF Review, ReviewStatuses, ClaimStates, Typed
<1>2. reviews' = [reviews EXCEPT ![r] = Append(reviews[r], x)]
  BY DEF AuthorizeReview
<1>3. /\ Append(reviews[r], x) \in Seq(Review) /\ Len(Append(reviews[r], x)) = Len(reviews[r]) + 1
      /\ \A i \in 1..Len(reviews[r]) : Append(reviews[r], x)[i] = reviews[r][i]
      /\ Append(reviews[r], x)[Len(reviews[r]) + 1] = x
  BY <1>1, Shapes, Appended DEF Typed
<1> QED BY <1>2, <1>3, Shapes DEF Typed

LEMMA MarkReviewEffect ==
  ASSUME Typed, NEW v \in reviewing, MarkReviewRunning(v)
  PROVE  /\ reviews' \in [Runs -> Seq(Review)] /\ \A r \in Runs : Len(reviews'[r]) = Len(reviews[r])
         /\ SetsReview(v.run, v.review,
                       [reviews[v.run][v.review] EXCEPT !.status = "running", !.claim = "active"])
<1>v. v.run \in Runs /\ v.review \in 1..Len(reviews[v.run])
  BY Shapes DEF Typed, TypeOK, CallsRefer, ReviewCalls
<1> DEFINE s == reviews[v.run]
           x == [s[v.review] EXCEPT !.status = "running", !.claim = "active"]
<1>1. s \in Seq(Review) /\ s[v.review] \in Review
  BY <1>v, Shapes DEF Typed
<1>2. x \in Review
  BY <1>1 DEF Review, ReviewStatuses, ClaimStates
<1>3. reviews' = [reviews EXCEPT ![v.run] = [s EXCEPT ![v.review] = x]]
  BY <1>v, <1>1, Shapes DEF MarkReviewRunning, Typed
<1>4. /\ [s EXCEPT ![v.review] = x] \in Seq(Review) /\ Len([s EXCEPT ![v.review] = x]) = Len(s)
      /\ \A j \in 1..Len(s) : [s EXCEPT ![v.review] = x][j] = IF j = v.review THEN x ELSE s[j]
  BY <1>v, <1>1, <1>2, Updated
<1>5. SetsReview(v.run, v.review, x)
  BY <1>v, <1>3, <1>4, Shapes DEF SetsReview, Typed
<1> QED BY <1>v, <1>3, <1>4, <1>5, Shapes DEF Typed

LEMMA CompleteReviewEffect ==
  ASSUME Typed, NEW v \in reviewing, NEW status \in {"approved", "blocked", "failed"},
         CompleteReview(v, status)
  PROVE  /\ reviews' \in [Runs -> Seq(Review)] /\ \A r \in Runs : Len(reviews'[r]) = Len(reviews[r])
         /\ SetsReview(v.run, v.review,
                       [reviews[v.run][v.review] EXCEPT !.status = status, !.claim = Released(@)])
<1>v. v.run \in Runs /\ v.review \in 1..Len(reviews[v.run])
  BY Shapes DEF Typed, TypeOK, CallsRefer, ReviewCalls
<1> DEFINE s == reviews[v.run]
           x == [s[v.review] EXCEPT !.status = status, !.claim = Released(@)]
<1>1. s \in Seq(Review) /\ s[v.review] \in Review
  BY <1>v, Shapes DEF Typed
<1>2. x \in Review
  BY <1>1, ReleasedClaim DEF Review, ReviewStatuses
<1>3. reviews' = [reviews EXCEPT ![v.run] = [s EXCEPT ![v.review] = x]]
  BY <1>v, <1>1, Shapes DEF CompleteReview, Typed
<1>4. /\ [s EXCEPT ![v.review] = x] \in Seq(Review) /\ Len([s EXCEPT ![v.review] = x]) = Len(s)
      /\ \A j \in 1..Len(s) : [s EXCEPT ![v.review] = x][j] = IF j = v.review THEN x ELSE s[j]
  BY <1>v, <1>1, <1>2, Updated
<1>5. SetsReview(v.run, v.review, x)
  BY <1>v, <1>3, <1>4, Shapes DEF SetsReview, Typed
<1> QED BY <1>v, <1>3, <1>4, <1>5, Shapes DEF Typed

(***************************************************************************)
(* Types                                                                   *)
(***************************************************************************)
\* A step that keeps the length of every sequence, and adds no call, keeps every
\* call referring.
LEMMA TypedStep ==
  ASSUME Typed, [Next]_vars
  PROVE  Typed'
<1> USE LedgerAssumption
<1>t. TypeOK
  BY DEF Typed
<1>s. /\ attempts \in [Runs -> Seq(Attempt)] /\ reviews \in [Runs -> Seq(Review)]
      /\ \A r \in Runs : /\ DOMAIN attempts[r] = 1..Len(attempts[r]) /\ Len(attempts[r]) \in Nat
                         /\ DOMAIN reviews[r] = 1..Len(reviews[r]) /\ Len(reviews[r]) \in Nat
  BY <1>t, Shapes
<1>r. /\ \A e \in executing : e \in Executions /\ e.run \in Runs /\ e.attempt \in 1..Len(attempts[e.run])
      /\ \A v \in reviewing : v \in ReviewCalls /\ v.run \in Runs /\ v.review \in 1..Len(reviews[v.run])
      /\ \A d \in deciding : d \in Decisions /\ d.run \in Runs
  BY <1>s DEF Typed, TypeOK, CallsRefer, Executions, ReviewCalls, Decisions
\* The steps that leave attempts and reviews alone and start no call.
<1>k. ASSUME UNCHANGED <<attempts, reviews>>,
             executing' \subseteq executing, reviewing' \subseteq reviewing, deciding' \subseteq deciding,
             runStatus' \in [Runs -> RunStatuses], jobStatus' \in [Runs -> JobStatuses],
             version' \in [Runs -> Nat], archived' \in [Runs -> BOOLEAN],
             supersedes' \in [Runs -> Runs \cup {NoRun}], crashes' \in Nat
      PROVE  Typed'
  BY <1>k, <1>t, <1>r, <1>s DEF Typed, TypeOK, CallsRefer
<1>1. ASSUME NEW r \in Runs, NEW eligible \in BOOLEAN, NEW prior \in (Runs \ {r}) \cup {NoRun},
             Admit(r, eligible, prior)
      PROVE  Typed'
  <2>1. /\ UNCHANGED <<attempts, reviews, executing, deciding, reviewing, crashes, archived>>
        /\ runStatus' \in [Runs -> RunStatuses] /\ jobStatus' \in [Runs -> JobStatuses]
        /\ version' \in [Runs -> Nat] /\ supersedes' \in [Runs -> Runs \cup {NoRun}]
    BY <1>1, <1>t DEF Admit, calls, TypeOK, RunStatuses, JobStatuses
  <2> QED BY <2>1, <1>k, <1>t DEF TypeOK
<1>2. ASSUME NEW r \in Runs, OverrideBlocked(r) \/ Cancel(r) \/ Archive(r) \/ Restore(r)
      PROVE  Typed'
  <2>1. UNCHANGED <<attempts, reviews, executing, deciding, reviewing, crashes, supersedes>>
    BY <1>2 DEF OverrideBlocked, Cancel, Archive, Restore, calls
  <2>2. runStatus' \in [Runs -> RunStatuses] /\ jobStatus' \in [Runs -> JobStatuses]
    BY <1>2, <1>t DEF OverrideBlocked, Cancel, Archive, Restore, TypeOK, RunStatuses, JobStatuses
  <2>a. version \in [Runs -> Nat] /\ archived \in [Runs -> BOOLEAN]
    BY <1>t DEF TypeOK
  <2>b. \/ version' = [version EXCEPT ![r] = @ + 1] /\ archived' = archived
        \/ \E b \in BOOLEAN : /\ version' = [version EXCEPT ![r] = @ + 1]
                              /\ archived' = [archived EXCEPT ![r] = b]
    BY <1>2 DEF OverrideBlocked, Cancel, Archive, Restore
  <2>3. version' \in [Runs -> Nat] /\ archived' \in [Runs -> BOOLEAN]
    BY <2>a, <2>b
  <2> QED BY <2>1, <2>2, <2>3, <1>k, <1>t DEF TypeOK
<1>3. ASSUME NEW r \in Runs, AuthorizeExecution(r)
      PROVE  Typed'
  <2> DEFINE e == [run |-> r, attempt |-> Len(attempts[r]) + 1, step |-> "workspace"]
  <2>1. /\ attempts' \in [Runs -> Seq(Attempt)]
        /\ Len(attempts'[r]) = Len(attempts[r]) + 1
        /\ \A q \in Runs : q # r => attempts'[q] = attempts[q]
    BY <1>3, AuthorizeEffect
  <2>2. Len(attempts[r]) < MaxAttempts /\ executing' = executing \cup {e}
    BY <1>3 DEF AuthorizeExecution
  <2>3. e \in Executions
    BY <2>2, <1>s DEF Executions
  <2>a. \A q \in Runs : attempts'[q] \in Seq(Attempt) /\ Len(attempts[q]) <= MaxAttempts
    BY <2>1, <1>t DEF TypeOK
  <2>b. \A q \in Runs : DOMAIN attempts'[q] = 1..Len(attempts'[q]) /\ Len(attempts'[q]) \in Nat
    BY <2>a
  <2>c. MaxAttempts \in Nat
    OBVIOUS
  <2>4. \A q \in Runs : /\ Len(attempts'[q]) <= MaxAttempts
                        /\ Len(attempts[q]) <= Len(attempts'[q])
                        /\ DOMAIN attempts'[q] = 1..Len(attempts'[q]) /\ Len(attempts'[q]) \in Nat
    <3>1. ASSUME NEW q \in Runs, q = r
          PROVE  Len(attempts'[q]) <= MaxAttempts /\ Len(attempts[q]) <= Len(attempts'[q])
      BY <3>1, <2>1, <2>2, <2>c, <1>s
    <3>2. ASSUME NEW q \in Runs, q # r
          PROVE  Len(attempts'[q]) <= MaxAttempts /\ Len(attempts[q]) <= Len(attempts'[q])
      BY <3>2, <2>1, <2>a, <1>s
    <3> QED BY <3>1, <3>2, <2>b
  <2>5. \A f \in executing' : f \in Executions /\ f.attempt \in DOMAIN attempts'[f.run]
    BY <2>1, <2>2, <2>3, <2>4, <1>r, <1>s
  <2>6. /\ UNCHANGED <<supersedes, archived, reviews, deciding, reviewing, crashes>>
        /\ runStatus' \in [Runs -> RunStatuses] /\ jobStatus' \in [Runs -> JobStatuses]
        /\ version' \in [Runs -> Nat]
    BY <1>3, <1>t DEF AuthorizeExecution, TypeOK, RunStatuses, JobStatuses
  <2> QED BY <2>1, <2>4, <2>5, <2>6, <1>t DEF Typed, TypeOK, CallsRefer
<1>4. ASSUME NEW e \in executing, MarkExecutionRunning(e)
      PROVE  Typed'
  <2>1. attempts' \in [Runs -> Seq(Attempt)] /\ SetsStatus(e.run, e.attempt, "running")
    BY <1>4, MarkRunningEffect
  <2>2. \A q \in Runs : Len(attempts'[q]) = Len(attempts[q]) /\ DOMAIN attempts'[q] = 1..Len(attempts[q])
    BY <2>1 DEF SetsStatus
  <2> DEFINE f == [e EXCEPT !.step = "working"]
  <2>3. /\ executing' = (executing \ {e}) \cup {f}
        /\ UNCHANGED <<runStatus, version, supersedes, archived, reviews, deciding, reviewing, crashes>>
    BY <1>4 DEF MarkExecutionRunning
  <2>4. f \in Executions /\ f.run = e.run /\ f.attempt = e.attempt
    BY <1>r DEF Executions
  <2> HIDE DEF f
  <2>5. \A g \in executing' : g \in Executions /\ g.attempt \in DOMAIN attempts'[g.run]
    BY <2>2, <2>3, <2>4, <1>r
  <2>6. jobStatus' \in [Runs -> JobStatuses]
    BY <1>4, <1>t DEF MarkExecutionRunning, TypeOK, JobStatuses
  <2> QED BY <2>1, <2>2, <2>3, <2>5, <2>6, <1>t DEF Typed, TypeOK, CallsRefer
<1>5. ASSUME NEW e \in executing, NEW status \in {"succeeded", "blocked", "failed"},
             NEW changed \in BOOLEAN, CompleteExecution(e, status, changed)
      PROVE  Typed'
  <2>1. attempts' \in [Runs -> Seq(Attempt)] /\ SetsStatus(e.run, e.attempt, status)
    BY <1>5, CompleteEffect
  <2>2. \A q \in Runs : Len(attempts'[q]) = Len(attempts[q]) /\ DOMAIN attempts'[q] = 1..Len(attempts[q])
    BY <2>1 DEF SetsStatus
  <2>3. /\ executing' = executing \ {e}
        /\ UNCHANGED <<supersedes, archived, reviews, reviewing, crashes>>
    BY <1>5 DEF CompleteExecution
  <2>4. [run |-> e.run, version |-> version[e.run] + 1] \in Decisions
    BY <1>r, <1>t DEF Decisions, TypeOK
  <2>5. deciding' \subseteq Decisions
    BY <1>5, <2>4, <1>t DEF CompleteExecution, TypeOK
  <2>6. /\ runStatus' \in [Runs -> RunStatuses] /\ jobStatus' \in [Runs -> JobStatuses]
        /\ version' \in [Runs -> Nat]
    BY <1>5, <1>t, <1>r DEF CompleteExecution, TypeOK, RunStatuses, JobStatuses
  <2> QED BY <2>1, <2>2, <2>3, <2>5, <2>6, <1>r, <1>t DEF Typed, TypeOK, CallsRefer
<1>6. ASSUME NEW r \in Runs, NEW trigger \in {"operator", "policy"}, AuthorizeReview(r, trigger),
             deciding' \subseteq deciding
      PROVE  Typed'
  <2> DEFINE v == [run |-> r, review |-> Len(reviews[r]) + 1, step |-> "paths"]
  <2>1. /\ reviews' \in [Runs -> Seq(Review)]
        /\ Len(reviews'[r]) = Len(reviews[r]) + 1
        /\ \A q \in Runs : q # r => reviews'[q] = reviews[q]
    BY <1>6, AuthorizeReviewEffect
  <2>2. reviewing' = reviewing \cup {v} /\ v \in ReviewCalls
    BY <1>6, <1>s DEF AuthorizeReview, ReviewCalls
  <2>3. \A q \in Runs : /\ Len(reviews[q]) <= Len(reviews'[q])
                        /\ DOMAIN reviews'[q] = 1..Len(reviews'[q]) /\ Len(reviews'[q]) \in Nat
    <3>1. \A q \in Runs : reviews'[q] \in Seq(Review)
      BY <2>1
    <3>2. \A q \in Runs : DOMAIN reviews'[q] = 1..Len(reviews'[q]) /\ Len(reviews'[q]) \in Nat
      BY <3>1
    <3>3. ASSUME NEW q \in Runs, q = r PROVE Len(reviews[q]) <= Len(reviews'[q])
      BY <3>3, <2>1, <1>s
    <3>4. ASSUME NEW q \in Runs, q # r PROVE Len(reviews[q]) <= Len(reviews'[q])
      BY <3>4, <2>1, <1>s
    <3> QED BY <3>2, <3>3, <3>4
  <2>4. \A u \in reviewing' : u \in ReviewCalls /\ u.review \in DOMAIN reviews'[u.run]
    BY <2>1, <2>2, <2>3, <1>r, <1>s
  <2>5. /\ UNCHANGED <<runStatus, jobStatus, supersedes, archived, attempts, executing, crashes>>
        /\ version' \in [Runs -> Nat]
    BY <1>6, <1>t DEF AuthorizeReview, TypeOK
  <2> QED BY <1>6, <2>1, <2>4, <2>5, <1>t, <1>r DEF Typed, TypeOK, CallsRefer
<1>7. ASSUME NEW d \in deciding, AutomaticReviewRefused(d)
      PROVE  Typed'
  BY <1>7, <1>k, <1>t DEF AutomaticReviewRefused, ledger, TypeOK
<1>8. ASSUME NEW v \in reviewing, MarkReviewRunning(v)
      PROVE  Typed'
  <2>1. reviews' \in [Runs -> Seq(Review)] /\ \A r \in Runs : Len(reviews'[r]) = Len(reviews[r])
    BY <1>8, MarkReviewEffect
  <2>2. \A r \in Runs : DOMAIN reviews'[r] = 1..Len(reviews[r])
    BY <2>1
  <2> DEFINE u == [v EXCEPT !.step = "reviewing"]
  <2>3. /\ reviewing' = (reviewing \ {v}) \cup {u}
        /\ UNCHANGED <<runStatus, jobStatus, version, supersedes, archived, attempts, executing,
                       deciding, crashes>>
    BY <1>8 DEF MarkReviewRunning
  <2>4. u \in ReviewCalls /\ u.run = v.run /\ u.review = v.review
    BY <1>r DEF ReviewCalls
  <2> HIDE DEF u
  <2>5. \A w \in reviewing' : w \in ReviewCalls /\ w.review \in DOMAIN reviews'[w.run]
    BY <2>2, <2>3, <2>4, <1>r
  <2> QED BY <2>1, <2>3, <2>5, <1>t, <1>r DEF Typed, TypeOK, CallsRefer
<1>9. ASSUME NEW v \in reviewing, NEW status \in {"approved", "blocked", "failed"},
             CompleteReview(v, status)
      PROVE  Typed'
  <2>1. reviews' \in [Runs -> Seq(Review)] /\ \A r \in Runs : Len(reviews'[r]) = Len(reviews[r])
    BY <1>9, CompleteReviewEffect
  <2>2. \A r \in Runs : DOMAIN reviews'[r] = 1..Len(reviews[r])
    BY <2>1
  <2>3. /\ reviewing' = reviewing \ {v}
        /\ UNCHANGED <<runStatus, jobStatus, supersedes, archived, attempts, executing, deciding,
                       crashes>>
        /\ version' \in [Runs -> Nat]
    BY <1>9, <1>t, <1>r DEF CompleteReview, TypeOK
  <2>4. \A w \in reviewing' : w \in ReviewCalls /\ w.review \in DOMAIN reviews'[w.run]
    BY <2>2, <2>3, <1>r
  <2> QED BY <2>1, <2>3, <2>4, <1>t, <1>r DEF Typed, TypeOK, CallsRefer
<1>10. ASSUME RecoverClaims PROVE Typed'
  <2>1. /\ attempts' \in [Runs -> Seq(Attempt)] /\ reviews' \in [Runs -> Seq(Review)]
        /\ \A r \in Runs : SameStatuses(r) /\ Len(reviews'[r]) = Len(reviews[r])
    BY <1>10, RecoverEffect
  <2>2. \A r \in Runs : /\ Len(attempts'[r]) = Len(attempts[r])
                        /\ DOMAIN attempts'[r] = 1..Len(attempts[r])
                        /\ DOMAIN reviews'[r] = 1..Len(reviews[r])
    BY <2>1 DEF SameStatuses
  <2>3. UNCHANGED <<runStatus, jobStatus, version, supersedes, archived, executing, deciding,
                    reviewing, crashes>>
    BY <1>10 DEF RecoverClaims, calls
  <2> QED BY <2>1, <2>2, <2>3, <1>t, <1>r DEF Typed, TypeOK, CallsRefer
<1>11. ASSUME Crash PROVE Typed'
  <2>1. /\ UNCHANGED <<runStatus, jobStatus, version, supersedes, archived, attempts, reviews>>
        /\ executing' \subseteq executing /\ deciding' \subseteq deciding /\ reviewing' \subseteq reviewing
        /\ crashes' \in Nat
    BY <1>11, <1>t DEF Crash, ledger, TypeOK
  <2> QED BY <2>1, <1>k, <1>t DEF TypeOK
<1>12. CASE UNCHANGED vars
  BY <1>12, <1>k, <1>t DEF vars, ledger, calls, TypeOK
<1>13. ASSUME NEW r \in Runs, OperatorCommand(r) PROVE Typed'
  BY <1>13, <1>1, <1>2, <1>3, <1>6 DEF OperatorCommand, ManualReview
<1>14. ASSUME NEW e \in executing, ExecutionStep(e) PROVE Typed'
  BY <1>14, <1>4, <1>5 DEF ExecutionStep, FinishExecution, FailExecution
<1>15. ASSUME NEW d \in deciding, DecisionStep(d) PROVE Typed'
  <2>1. CASE AutomaticReview(d)
    BY <2>1, <1>6, <1>r DEF AutomaticReview
  <2> QED BY <1>15, <2>1, <1>7 DEF DecisionStep
<1>16. ASSUME NEW v \in reviewing, ReviewStep(v) PROVE Typed'
  BY <1>16, <1>8, <1>9 DEF ReviewStep, FinishReview, FailReview
<1> QED BY <1>10, <1>11, <1>12, <1>13, <1>14, <1>15, <1>16 DEF Next

LEMMA TypedInit == Init => Typed
<1> SUFFICES ASSUME Init PROVE Typed
  OBVIOUS
<1>1. /\ attempts \in [Runs -> Seq(Attempt)] /\ reviews \in [Runs -> Seq(Review)]
      /\ \A r \in Runs : Len(attempts[r]) = 0
  BY DEF Init
<1>2. 0 <= MaxAttempts
  BY LedgerAssumption
<1> QED BY <1>1, <1>2 DEF Init, Typed, TypeOK, CallsRefer, RunStatuses, JobStatuses

\* Rows and calls keep their shapes, and a call in progress refers to an attempt or
\* a review that exists.
THEOREM LedgerTypes == Spec => []TypeOK
<1>1. Typed => TypeOK
  BY DEF Typed
<1> QED BY TypedInit, TypedStep, <1>1, PTL DEF Spec

(***************************************************************************)
(* The history of a run                                                    *)
(*                                                                         *)
(* That attempts are serial is not inductive: authorization adds an        *)
(* attempt to a pending run, so every attempt of a pending run must be a   *)
(* blocked one, hence of a blocked run too (the override makes it          *)
(* pending), and a run without admission has none.                         *)
(***************************************************************************)
RunHistory(r) ==
  /\ runStatus[r] = "none" => Len(attempts[r]) = 0
  /\ runStatus[r] \in {"pending", "blocked"} =>
       \A n \in 1..Len(attempts[r]) : attempts[r][n].status = "blocked"
  /\ \A n \in 1..Len(attempts[r]) :
       /\ n < Len(attempts[r]) => attempts[r][n].status = "blocked"
       /\ Live(attempts[r][n]) => runStatus[r] \in {"active", "cancelled"}

LedgerInv == Typed /\ \A r \in Runs : RunHistory(r)

\* A step that keeps a run's status and its attempts' statuses keeps its history.
LEMMA HistoryKept ==
  ASSUME NEW r \in Runs, RunHistory(r), SameStatuses(r), runStatus'[r] = runStatus[r]
  PROVE  RunHistory(r)'
  BY DEF RunHistory, SameStatuses, Live

\* Work in progress is the last attempt of a run that is active or cancelled.
LEMMA LiveIsLast ==
  ASSUME Typed, NEW r \in Runs, RunHistory(r), NEW n \in 1..Len(attempts[r]), Live(attempts[r][n])
  PROVE  n = Len(attempts[r]) /\ runStatus[r] \in {"active", "cancelled"}
<1>1. Len(attempts[r]) \in Nat
  BY Shapes DEF Typed
<1>2. attempts[r][n].status # "blocked"
  BY DEF Live
<1> QED BY <1>1, <1>2 DEF RunHistory

LEMMA Unaffected ==
  ASSUME Typed, NEW r \in Runs, attempts'[r] = attempts[r]
  PROVE  SameStatuses(r)
  BY DEF SameStatuses

LEMMA HistoryStep ==
  ASSUME LedgerInv, [Next]_vars, NEW q \in Runs
  PROVE  RunHistory(q)'
<1>t. Typed /\ RunHistory(q) /\ \A r \in Runs : RunHistory(r)
  BY DEF LedgerInv
<1>s. /\ \A r \in Runs : Len(attempts[r]) \in Nat
      /\ runStatus \in [Runs -> RunStatuses] /\ attempts \in [Runs -> Seq(Attempt)]
  BY <1>t, Shapes DEF Typed, TypeOK
<1>c. \A e \in executing : e.run \in Runs /\ e.attempt \in 1..Len(attempts[e.run])
  BY <1>t, Shapes DEF Typed, TypeOK, CallsRefer, Executions
<1>k. ASSUME attempts' = attempts, runStatus'[q] = runStatus[q]
      PROVE  RunHistory(q)'
  BY <1>k, <1>t, Unaffected, HistoryKept
<1>1. ASSUME NEW r \in Runs, NEW eligible \in BOOLEAN, NEW prior, Admit(r, eligible, prior)
      PROVE  RunHistory(q)'
  <2>1. attempts' = attempts /\ runStatus[r] = "none"
    BY <1>1 DEF Admit
  <2>2. CASE q = r
    BY <2>1, <2>2, <1>t, <1>s DEF RunHistory
  <2>3. CASE q # r
    <3>1. runStatus'[q] = runStatus[q]
      BY <1>1, <2>3, <1>s DEF Admit
    <3> QED BY <2>1, <3>1, <1>k
  <2> QED BY <2>2, <2>3
<1>2. ASSUME NEW r \in Runs, OverrideBlocked(r) PROVE RunHistory(q)'
  <2>1. attempts' = attempts /\ runStatus[r] = "blocked" /\ runStatus' = [runStatus EXCEPT ![r] = "pending"]
    BY <1>2 DEF OverrideBlocked
  <2>2. CASE q = r
    BY <2>1, <2>2, <1>t, <1>s DEF RunHistory, Live
  <2>3. CASE q # r
    BY <2>1, <2>3, <1>k, <1>s
  <2> QED BY <2>2, <2>3
<1>3. ASSUME NEW r \in Runs, Cancel(r) PROVE RunHistory(q)'
  <2>1. attempts' = attempts /\ runStatus' = [runStatus EXCEPT ![r] = "cancelled"]
    BY <1>3 DEF Cancel
  <2>2. CASE q = r
    BY <2>1, <2>2, <1>t, <1>s DEF RunHistory
  <2>3. CASE q # r
    BY <2>1, <2>3, <1>k, <1>s
  <2> QED BY <2>2, <2>3
<1>4. ASSUME NEW r \in Runs, Archive(r) \/ Restore(r) PROVE RunHistory(q)'
  BY <1>4, <1>k DEF Archive, Restore
<1>5. ASSUME NEW r \in Runs, AuthorizeExecution(r) PROVE RunHistory(q)'
  <2>1. /\ Len(attempts'[r]) = Len(attempts[r]) + 1
        /\ \A n \in 1..Len(attempts[r]) : attempts'[r][n] = attempts[r][n]
        /\ \A p \in Runs : p # r => attempts'[p] = attempts[p]
    BY <1>5, <1>t, AuthorizeEffect
  <2>2. runStatus[r] = "pending" /\ runStatus' = [runStatus EXCEPT ![r] = "active"]
    BY <1>5 DEF AuthorizeExecution
  <2>3. CASE q = r
    <3>1. \A n \in 1..Len(attempts[r]) : attempts'[r][n].status = "blocked"
      BY <2>1, <2>2, <1>t DEF RunHistory
    <3>2. runStatus'[r] = "active"
      BY <2>2, <1>s
    <3>3. \A n \in 1..Len(attempts'[r]) : n < Len(attempts'[r]) => n \in 1..Len(attempts[r])
      BY <2>1, <1>s
    <3> QED BY <2>3, <3>1, <3>2, <3>3 DEF RunHistory
  <2>4. CASE q # r
    BY <2>1, <2>2, <2>4, <1>t, <1>s, Unaffected, HistoryKept
  <2> QED BY <2>3, <2>4
<1>6. ASSUME NEW e \in executing, MarkExecutionRunning(e) PROVE RunHistory(q)'
  <2>1. SetsStatus(e.run, e.attempt, "running")
    BY <1>6, <1>t, MarkRunningEffect
  <2>2. runStatus' = runStatus /\ Live(attempts[e.run][e.attempt])
    BY <1>6 DEF MarkExecutionRunning, Live
  <2>3. e.attempt = Len(attempts[e.run]) /\ runStatus[e.run] \in {"active", "cancelled"}
    BY <2>2, <1>t, <1>c, LiveIsLast
  <2>4. CASE q = e.run
    BY <2>1, <2>2, <2>3, <2>4, <1>t, <1>s DEF RunHistory, SetsStatus
  <2>5. CASE q # e.run
    BY <2>1, <2>2, <2>5, <1>t, Unaffected, HistoryKept DEF SetsStatus
  <2> QED BY <2>4, <2>5
<1>7. ASSUME NEW e \in executing, NEW status \in {"succeeded", "blocked", "failed"},
             NEW changed \in BOOLEAN, CompleteExecution(e, status, changed)
      PROVE  RunHistory(q)'
  <2>1. SetsStatus(e.run, e.attempt, status)
    BY <1>7, <1>t, CompleteEffect
  <2>2. runStatus' = [runStatus EXCEPT ![e.run] = status] /\ Live(attempts[e.run][e.attempt])
    BY <1>7 DEF CompleteExecution
  <2>3. e.attempt = Len(attempts[e.run]) /\ runStatus[e.run] \in {"active", "cancelled"}
    BY <2>2, <1>t, <1>c, LiveIsLast
  <2>4. CASE q = e.run
    <3>1. runStatus'[q] = status
      BY <2>2, <2>4, <1>s
    <3>2. \A n \in 1..Len(attempts[q]) : n # e.attempt => attempts'[q][n].status = "blocked"
      BY <2>1, <2>3, <2>4, <1>t, <1>s DEF RunHistory, SetsStatus
    <3> QED BY <2>1, <2>3, <2>4, <3>1, <3>2, <1>s DEF RunHistory, SetsStatus, Live
  <2>5. CASE q # e.run
    BY <2>1, <2>2, <2>5, <1>t, <1>s, Unaffected, HistoryKept DEF SetsStatus
  <2> QED BY <2>4, <2>5
<1>8. ASSUME NEW r \in Runs, NEW trigger, AuthorizeReview(r, trigger) PROVE RunHistory(q)'
  BY <1>8, <1>k DEF AuthorizeReview
<1>9. ASSUME NEW d, AutomaticReviewRefused(d) PROVE RunHistory(q)'
  BY <1>9, <1>k DEF AutomaticReviewRefused, ledger
<1>10. ASSUME NEW v, NEW status, MarkReviewRunning(v) \/ CompleteReview(v, status) PROVE RunHistory(q)'
  BY <1>10, <1>k DEF MarkReviewRunning, CompleteReview
<1>11. ASSUME RecoverClaims PROVE RunHistory(q)'
  <2>1. SameStatuses(q) /\ runStatus' = runStatus
    BY <1>11, <1>t, RecoverEffect DEF RecoverClaims
  <2> QED BY <2>1, <1>t, HistoryKept
<1>12. ASSUME Crash PROVE RunHistory(q)'
  BY <1>12, <1>k DEF Crash, ledger
<1>13. CASE UNCHANGED vars
  BY <1>13, <1>k DEF vars, ledger
<1>14. ASSUME NEW r \in Runs, OperatorCommand(r) PROVE RunHistory(q)'
  BY <1>14, <1>1, <1>2, <1>3, <1>4, <1>5, <1>8 DEF OperatorCommand, ManualReview
<1>15. ASSUME NEW e \in executing, ExecutionStep(e) PROVE RunHistory(q)'
  BY <1>15, <1>6, <1>7 DEF ExecutionStep, FinishExecution, FailExecution
<1>16. ASSUME NEW d \in deciding, DecisionStep(d) PROVE RunHistory(q)'
  <2>1. CASE AutomaticReview(d)
    <3>1. d.run \in Runs
      BY <1>t DEF Typed, TypeOK, Decisions
    <3> QED BY <2>1, <3>1, <1>8 DEF AutomaticReview
  <2> QED BY <1>16, <2>1, <1>9 DEF DecisionStep
<1>17. ASSUME NEW v \in reviewing, ReviewStep(v) PROVE RunHistory(q)'
  BY <1>17, <1>10 DEF ReviewStep, FinishReview, FailReview
<1> QED BY <1>11, <1>12, <1>13, <1>14, <1>15, <1>16, <1>17 DEF Next

LEMMA LedgerInvStep == LedgerInv /\ [Next]_vars => LedgerInv'
  BY TypedStep, HistoryStep DEF LedgerInv

LEMMA LedgerInvInit == Init => LedgerInv
<1> SUFFICES ASSUME Init PROVE LedgerInv
  OBVIOUS
<1>1. \A r \in Runs : runStatus[r] = "none" /\ Len(attempts[r]) = 0
  BY DEF Init
<1>2. \A r \in Runs : RunHistory(r)
  BY <1>1 DEF RunHistory
<1> QED BY <1>2, TypedInit DEF LedgerInv

\* Whatever the commands, the settlements of calls that outlived a cancellation and
\* the lost calls, the attempts of a job never overlap and never restart.
THEOREM AttemptsNeverOverlap == Spec => []AttemptsAreSerial
<1>1. LedgerInv => AttemptsAreSerial
  <2> SUFFICES ASSUME LedgerInv PROVE AttemptsAreSerial
    OBVIOUS
  <2>1. \A r \in Runs : DOMAIN attempts[r] = 1..Len(attempts[r]) /\ RunHistory(r)
    BY Shapes DEF LedgerInv, Typed
  <2> QED BY <2>1 DEF AttemptsAreSerial, RunHistory
<1> QED BY LedgerInvInit, LedgerInvStep, <1>1, PTL DEF Spec

\* A call in progress works on a run that is active or cancelled, so nothing it
\* does reaches a completed run.
LEMMA CompletedStep ==
  ASSUME LedgerInv, [Next]_vars, NEW q \in Runs, runStatus[q] \in {"succeeded", "failed"}
  PROVE  runStatus'[q] = runStatus[q] /\ jobStatus'[q] = jobStatus[q] /\ SameStatuses(q)
<1> DEFINE Kept == runStatus'[q] = runStatus[q] /\ jobStatus'[q] = jobStatus[q] /\ SameStatuses(q)
<1>t. Typed /\ \A r \in Runs : RunHistory(r)
  BY DEF LedgerInv
<1>s. runStatus \in [Runs -> RunStatuses] /\ jobStatus \in [Runs -> JobStatuses]
  BY <1>t DEF Typed, TypeOK
<1>c. \A e \in executing : e.run \in Runs /\ e.attempt \in 1..Len(attempts[e.run])
  BY <1>t, Shapes DEF Typed, TypeOK, CallsRefer, Executions
<1>k. ASSUME attempts' = attempts, runStatus'[q] = runStatus[q], jobStatus'[q] = jobStatus[q]
      PROVE  Kept
  BY <1>k, <1>t, Unaffected
<1>1. ASSUME NEW r \in Runs, NEW eligible \in BOOLEAN, NEW prior, Admit(r, eligible, prior)
      PROVE  Kept
  <2>1. attempts' = attempts /\ r # q
    BY <1>1 DEF Admit
  <2>2. runStatus'[q] = runStatus[q] /\ jobStatus'[q] = jobStatus[q]
    BY <1>1, <2>1, <1>s DEF Admit
  <2> QED BY <2>1, <2>2, <1>k
<1>2. ASSUME NEW r \in Runs, OverrideBlocked(r) \/ Cancel(r) PROVE Kept
  <2>1. attempts' = attempts /\ r # q
    BY <1>2 DEF OverrideBlocked, Cancel
  <2>2. runStatus'[q] = runStatus[q] /\ jobStatus'[q] = jobStatus[q]
    BY <1>2, <2>1, <1>s DEF OverrideBlocked, Cancel
  <2> QED BY <2>1, <2>2, <1>k
<1>3. ASSUME NEW r \in Runs, Archive(r) \/ Restore(r) PROVE Kept
  BY <1>3, <1>k DEF Archive, Restore
<1>4. ASSUME NEW r \in Runs, AuthorizeExecution(r) PROVE Kept
  <2>1. r # q /\ runStatus'[q] = runStatus[q] /\ jobStatus'[q] = jobStatus[q]
    BY <1>4, <1>s DEF AuthorizeExecution
  <2>2. attempts'[q] = attempts[q]
    BY <2>1, <1>4, <1>t, AuthorizeEffect
  <2> QED BY <2>1, <2>2, <1>t, Unaffected
<1>5. ASSUME NEW e \in executing, Live(attempts[e.run][e.attempt]) PROVE e.run # q
  BY <1>5, <1>t, <1>c, LiveIsLast
<1>6. ASSUME NEW e \in executing, MarkExecutionRunning(e) PROVE Kept
  <2>1. e.run # q
    BY <1>5, <1>6 DEF MarkExecutionRunning, Live
  <2>2. runStatus'[q] = runStatus[q] /\ jobStatus'[q] = jobStatus[q]
    BY <2>1, <1>6, <1>s DEF MarkExecutionRunning
  <2>3. attempts'[q] = attempts[q]
    BY <2>1, <1>6, <1>t, MarkRunningEffect DEF SetsStatus
  <2> QED BY <2>2, <2>3, <1>t, Unaffected
<1>7. ASSUME NEW e \in executing, NEW status \in {"succeeded", "blocked", "failed"},
             NEW changed \in BOOLEAN, CompleteExecution(e, status, changed)
      PROVE  Kept
  <2>1. e.run # q
    BY <1>5, <1>7 DEF CompleteExecution
  <2>2. runStatus'[q] = runStatus[q] /\ jobStatus'[q] = jobStatus[q]
    BY <2>1, <1>7, <1>s DEF CompleteExecution
  <2>3. attempts'[q] = attempts[q]
    BY <2>1, <1>7, <1>t, CompleteEffect DEF SetsStatus
  <2> QED BY <2>2, <2>3, <1>t, Unaffected
<1>8. ASSUME NEW r \in Runs, NEW trigger, AuthorizeReview(r, trigger) PROVE Kept
  BY <1>8, <1>k DEF AuthorizeReview
<1>9. ASSUME NEW d, AutomaticReviewRefused(d) PROVE Kept
  BY <1>9, <1>k DEF AutomaticReviewRefused, ledger
<1>10. ASSUME NEW v, NEW status, MarkReviewRunning(v) \/ CompleteReview(v, status) PROVE Kept
  BY <1>10, <1>k DEF MarkReviewRunning, CompleteReview
<1>11. ASSUME RecoverClaims PROVE Kept
  BY <1>11, <1>t, RecoverEffect DEF RecoverClaims
<1>12. ASSUME Crash PROVE Kept
  BY <1>12, <1>k DEF Crash, ledger
<1>13. ASSUME UNCHANGED vars PROVE Kept
  BY <1>13, <1>k DEF vars, ledger
<1> HIDE DEF Kept
<1>14. ASSUME NEW r \in Runs, OperatorCommand(r) PROVE Kept
  BY <1>14, <1>1, <1>2, <1>3, <1>4, <1>8 DEF OperatorCommand, ManualReview
<1>15. ASSUME NEW e \in executing, ExecutionStep(e) PROVE Kept
  BY <1>15, <1>6, <1>7 DEF ExecutionStep, FinishExecution, FailExecution
<1>16. ASSUME NEW d \in deciding, DecisionStep(d) PROVE Kept
  <2>1. CASE AutomaticReview(d)
    <3>1. d.run \in Runs
      BY <1>t DEF Typed, TypeOK, Decisions
    <3> QED BY <2>1, <3>1, <1>8 DEF AutomaticReview
  <2> QED BY <1>16, <2>1, <1>9 DEF DecisionStep
<1>17. ASSUME NEW v \in reviewing, ReviewStep(v) PROVE Kept
  BY <1>17, <1>10 DEF ReviewStep, FinishReview, FailReview
<1>18. Kept
  BY <1>11, <1>12, <1>13, <1>14, <1>15, <1>16, <1>17 DEF Next
<1> QED BY <1>18 DEF Kept

\* No late settlement, override or cancellation moves a completed run, and its
\* attempts stay what they were.
THEOREM CompletedRunsAreImmutable == Spec => CompletedIsImmutable
<1> DEFINE Immutable ==
      \A r \in Runs : runStatus[r] \in {"succeeded", "failed"} =>
        /\ runStatus'[r] = runStatus[r] /\ jobStatus'[r] = jobStatus[r]
        /\ Len(attempts'[r]) = Len(attempts[r])
        /\ \A n \in DOMAIN attempts[r] : attempts'[r][n].status = attempts[r][n].status
<1>1. LedgerInv /\ [Next]_vars => [Immutable]_vars
  <2> SUFFICES ASSUME LedgerInv, [Next]_vars PROVE Immutable
    OBVIOUS
  <2>1. \A r \in Runs : DOMAIN attempts[r] = 1..Len(attempts[r])
    BY Shapes DEF LedgerInv, Typed
  <2> QED BY <2>1, CompletedStep DEF SameStatuses
<1>2. []LedgerInv /\ [][Next]_vars => [][Immutable]_vars
  BY <1>1, PTL
<1>3. Spec => []LedgerInv
  BY LedgerInvInit, LedgerInvStep, PTL DEF Spec
<1> QED BY <1>2, <1>3, PTL DEF Spec, CompletedIsImmutable

(***************************************************************************)
(* The life of a claim                                                     *)
(*                                                                         *)
(* Run, job, attempts, reviews and claims agree.  A claim is opened by     *)
(* work that was queued, so that no dispatch identity is claimed twice:    *)
(* queued work must have no claim, and the number of a review must be one  *)
(* of Works.  The ceiling counts a set, which must stay finite.            *)
(***************************************************************************)
ActiveWorks == {w \in Works : ClaimOf(w) = "active"}

ItemFits(item) ==
  /\ item.status = "queued"  => item.claim = "none"
  /\ item.status = "running" => item.claim \in {"active", "ambiguous"}
  /\ ~Live(item)             => item.claim # "active"

RunAgrees(r) ==
  \/ jobStatus[r] \in JobStatusOf(runStatus[r])
  \/ runStatus[r] = "cancelled" /\ jobStatus[r] = "running"

ReviewFits(r) ==
  \A m \in 1..Len(reviews[r]) :
    /\ Len(attempts[r]) > 0
    /\ reviews[r][m].attempt = Len(attempts[r])
    /\ attempts[r][Len(attempts[r])].status = "succeeded" /\ attempts[r][Len(attempts[r])].changed
    /\ runStatus[r] = "succeeded"
    /\ m = 1

ItemsFit(r) ==
  /\ \A n \in 1..Len(attempts[r]) : ItemFits(attempts[r][n])
  /\ \A n \in 1..Len(reviews[r]) : ItemFits(reviews[r][n])

CeilingFits == IsFiniteSet(ActiveWorks) /\ CeilingHolds

AgreementInv ==
  /\ LedgerInv
  /\ \A r \in Runs : RunAgrees(r) /\ ReviewFits(r) /\ ItemsFit(r)
  /\ CeilingFits

\* Run and job.
LEMMA RunAgreesStep ==
  ASSUME LedgerInv, \A r \in Runs : RunAgrees(r), [Next]_vars, NEW q \in Runs
  PROVE  RunAgrees(q)'
<1>t. Typed /\ (\A r \in Runs : RunHistory(r)) /\ RunAgrees(q)
  BY DEF LedgerInv
<1>s. runStatus \in [Runs -> RunStatuses] /\ jobStatus \in [Runs -> JobStatuses]
  BY <1>t DEF Typed, TypeOK
<1>c. \A e \in executing : e.run \in Runs /\ e.attempt \in 1..Len(attempts[e.run])
  BY <1>t, Shapes DEF Typed, TypeOK, CallsRefer, Executions
<1>k. ASSUME runStatus'[q] = runStatus[q], jobStatus'[q] = jobStatus[q]
      PROVE  RunAgrees(q)'
  BY <1>k, <1>t DEF RunAgrees
<1>1. ASSUME NEW r \in Runs, NEW eligible \in BOOLEAN, NEW prior, Admit(r, eligible, prior)
      PROVE  RunAgrees(q)'
  <2>1. CASE q = r
    BY <1>1, <2>1, <1>s DEF Admit, RunAgrees, JobStatusOf
  <2>2. CASE q # r
    BY <1>1, <2>2, <1>s, <1>k DEF Admit
  <2> QED BY <2>1, <2>2
<1>2. ASSUME NEW r \in Runs, OverrideBlocked(r) PROVE RunAgrees(q)'
  <2>1. CASE q = r
    BY <1>2, <2>1, <1>s DEF OverrideBlocked, RunAgrees, JobStatusOf
  <2>2. CASE q # r
    BY <1>2, <2>2, <1>s, <1>k DEF OverrideBlocked
  <2> QED BY <2>1, <2>2
<1>3. ASSUME NEW r \in Runs, Cancel(r) PROVE RunAgrees(q)'
  <2>1. CASE q = r
    <3>1. jobStatus[r] \notin {"succeeded", "failed"}
      BY <1>3, <2>1, <1>t DEF Cancel, RunAgrees, JobStatusOf
    <3> QED BY <1>3, <2>1, <3>1, <1>s DEF Cancel, RunAgrees, JobStatusOf
  <2>2. CASE q # r
    BY <1>3, <2>2, <1>s, <1>k DEF Cancel
  <2> QED BY <2>1, <2>2
<1>4. ASSUME NEW r \in Runs, Archive(r) \/ Restore(r) PROVE RunAgrees(q)'
  BY <1>4, <1>k DEF Archive, Restore
<1>5. ASSUME NEW r \in Runs, AuthorizeExecution(r) PROVE RunAgrees(q)'
  <2>1. CASE q = r
    BY <1>5, <2>1, <1>s DEF AuthorizeExecution, RunAgrees, JobStatusOf
  <2>2. CASE q # r
    BY <1>5, <2>2, <1>s, <1>k DEF AuthorizeExecution
  <2> QED BY <2>1, <2>2
<1>6. ASSUME NEW e \in executing, MarkExecutionRunning(e) PROVE RunAgrees(q)'
  <2>1. runStatus[e.run] \in {"active", "cancelled"}
    BY <1>6, <1>t, <1>c, LiveIsLast DEF MarkExecutionRunning, Live
  <2>2. CASE q = e.run
    BY <1>6, <2>1, <2>2, <1>s DEF MarkExecutionRunning, RunAgrees, JobStatusOf
  <2>3. CASE q # e.run
    BY <1>6, <2>3, <1>s, <1>c, <1>k DEF MarkExecutionRunning
  <2> QED BY <2>2, <2>3
<1>7. ASSUME NEW e \in executing, NEW status \in {"succeeded", "blocked", "failed"},
             NEW changed \in BOOLEAN, CompleteExecution(e, status, changed)
      PROVE  RunAgrees(q)'
  <2>2. CASE q = e.run
    BY <1>7, <2>2, <1>s DEF CompleteExecution, RunAgrees, JobStatusOf
  <2>3. CASE q # e.run
    BY <1>7, <2>3, <1>s, <1>c, <1>k DEF CompleteExecution
  <2> QED BY <2>2, <2>3
<1>8. ASSUME NEW r \in Runs, NEW trigger, AuthorizeReview(r, trigger) PROVE RunAgrees(q)'
  BY <1>8, <1>k DEF AuthorizeReview
<1>9. ASSUME NEW d, AutomaticReviewRefused(d) PROVE RunAgrees(q)'
  BY <1>9, <1>k DEF AutomaticReviewRefused, ledger
<1>10. ASSUME NEW v, NEW status, MarkReviewRunning(v) \/ CompleteReview(v, status) PROVE RunAgrees(q)'
  BY <1>10, <1>k DEF MarkReviewRunning, CompleteReview
<1>11. ASSUME RecoverClaims \/ Crash \/ UNCHANGED vars PROVE RunAgrees(q)'
  BY <1>11, <1>k DEF RecoverClaims, Crash, vars, ledger
<1>14. ASSUME NEW r \in Runs, OperatorCommand(r) PROVE RunAgrees(q)'
  BY <1>14, <1>1, <1>2, <1>3, <1>4, <1>5, <1>8 DEF OperatorCommand, ManualReview
<1>15. ASSUME NEW e \in executing, ExecutionStep(e) PROVE RunAgrees(q)'
  BY <1>15, <1>6, <1>7 DEF ExecutionStep, FinishExecution, FailExecution
<1>16. ASSUME NEW d \in deciding, DecisionStep(d) PROVE RunAgrees(q)'
  <2>1. d.run \in Runs
    BY <1>t DEF Typed, TypeOK, Decisions
  <2> QED BY <1>16, <2>1, <1>8, <1>9 DEF DecisionStep, AutomaticReview
<1>17. ASSUME NEW v \in reviewing, ReviewStep(v) PROVE RunAgrees(q)'
  BY <1>17, <1>10 DEF ReviewStep, FinishReview, FailReview
<1> QED BY <1>11, <1>14, <1>15, <1>16, <1>17 DEF Next

\* Reviews: the run of a review succeeded, and CompletedStep says that nothing
\* moves such a run or its attempts.
LEMMA ReviewFitsStep ==
  ASSUME LedgerInv, \A r \in Runs : ReviewFits(r), [Next]_vars, NEW q \in Runs
  PROVE  ReviewFits(q)'
<1>t. Typed /\ (\A r \in Runs : RunHistory(r)) /\ ReviewFits(q)
  BY DEF LedgerInv
<1>s. /\ runStatus \in [Runs -> RunStatuses] /\ jobStatus \in [Runs -> JobStatuses]
      /\ Len(attempts[q]) \in Nat /\ Len(reviews[q]) \in Nat
  BY <1>t, Shapes DEF Typed, TypeOK
\* A step that adds no review and keeps the attempt each one reviews.
<1>k. ASSUME Len(reviews'[q]) = Len(reviews[q]),
             \A m \in 1..Len(reviews[q]) : reviews'[q][m].attempt = reviews[q][m].attempt
      PROVE  ReviewFits(q)'
  <2> SUFFICES ASSUME NEW m \in 1..Len(reviews[q])
               PROVE  /\ Len(attempts'[q]) > 0
                      /\ reviews'[q][m].attempt = Len(attempts'[q])
                      /\ attempts'[q][Len(attempts'[q])].status = "succeeded"
                      /\ attempts'[q][Len(attempts'[q])].changed
                      /\ runStatus'[q] = "succeeded"
                      /\ m = 1
    BY <1>k DEF ReviewFits
  <2>1. /\ Len(attempts[q]) > 0 /\ reviews[q][m].attempt = Len(attempts[q])
        /\ attempts[q][Len(attempts[q])].status = "succeeded" /\ attempts[q][Len(attempts[q])].changed
        /\ runStatus[q] = "succeeded" /\ m = 1
    BY <1>t DEF ReviewFits
  <2>2. runStatus'[q] = runStatus[q] /\ SameStatuses(q)
    BY <2>1, CompletedStep
  <2>3. Len(attempts[q]) \in 1..Len(attempts[q])
    BY <2>1, <1>s
  <2> QED BY <1>k, <2>1, <2>2, <2>3 DEF SameStatuses
<1>r. ASSUME reviews' = reviews PROVE ReviewFits(q)'
  BY <1>r, <1>k
<1>8. ASSUME NEW r \in Runs, NEW trigger \in {"operator", "policy"}, AuthorizeReview(r, trigger)
      PROVE  ReviewFits(q)'
  <2>1. /\ Len(reviews'[r]) = Len(reviews[r]) + 1
        /\ reviews'[r][Len(reviews[r]) + 1] = [attempt |-> Len(attempts[r]), trigger |-> trigger,
                                               status |-> "queued", claim |-> "none"]
        /\ \A p \in Runs : p # r => reviews'[p] = reviews[p]
    BY <1>8, <1>t, AuthorizeReviewEffect
  <2>2. CASE q = r
    <3>1. /\ runStatus[q] = "succeeded" /\ Len(attempts[q]) > 0
          /\ attempts[q][Len(attempts[q])].status = "succeeded" /\ attempts[q][Len(attempts[q])].changed
          /\ \A m \in 1..Len(reviews[q]) : reviews[q][m].attempt # Len(attempts[q])
          /\ attempts' = attempts /\ runStatus' = runStatus
      BY <1>8, <2>2, <1>t, Shapes DEF AuthorizeReview, MayAuthorizeReview, Typed
    <3>2. Len(reviews[q]) = 0
      <4>1. \A m \in 1..Len(reviews[q]) : FALSE
        BY <3>1, <1>t DEF ReviewFits
      <4> QED BY <4>1, <1>s
    <3>3. Len(reviews'[q]) = 1 /\ reviews'[q][1].attempt = Len(attempts[q])
      BY <2>1, <2>2, <3>2
    <3> QED BY <3>1, <3>3 DEF ReviewFits
  <2>3. CASE q # r
    BY <2>1, <2>3, <1>k
  <2> QED BY <2>2, <2>3
<1>9. ASSUME NEW v \in reviewing, NEW x, SetsReview(v.run, v.review, x),
             x.attempt = reviews[v.run][v.review].attempt
      PROVE  ReviewFits(q)'
  <2>1. CASE q = v.run
    BY <1>9, <2>1, <1>k DEF SetsReview
  <2>2. CASE q # v.run
    BY <1>9, <2>2, <1>r, <1>k DEF SetsReview
  <2> QED BY <2>1, <2>2
<1>v. ASSUME NEW v \in reviewing
      PROVE  v.run \in Runs /\ reviews[v.run][v.review] \in Review
  BY <1>t, Shapes DEF Typed, TypeOK, CallsRefer, ReviewCalls
<1>10. ASSUME NEW v \in reviewing, MarkReviewRunning(v) PROVE ReviewFits(q)'
  <2> DEFINE x == [reviews[v.run][v.review] EXCEPT !.status = "running", !.claim = "active"]
  <2>1. SetsReview(v.run, v.review, x)
    BY <1>10, <1>t, MarkReviewEffect
  <2>2. x.attempt = reviews[v.run][v.review].attempt
    BY <1>v DEF Review
  <2> QED BY <2>1, <2>2, <1>9
<1>11. ASSUME NEW v \in reviewing, NEW status \in {"approved", "blocked", "failed"}, CompleteReview(v, status)
       PROVE  ReviewFits(q)'
  <2> DEFINE x == [reviews[v.run][v.review] EXCEPT !.status = status, !.claim = Released(@)]
  <2>1. SetsReview(v.run, v.review, x)
    BY <1>11, <1>t, CompleteReviewEffect
  <2>2. x.attempt = reviews[v.run][v.review].attempt
    BY <1>v DEF Review
  <2> QED BY <2>1, <2>2, <1>9
<1>12. ASSUME RecoverClaims PROVE ReviewFits(q)'
  <2>1. PICK S :
        reviews' = [r \in Runs |-> [n \in DOMAIN reviews[r] |->
             IF <<"review", r, n>> \in S THEN [reviews[r][n] EXCEPT !.claim = "ambiguous"]
                                         ELSE reviews[r][n]]]
    BY <1>12 DEF RecoverClaims
  <2>2. Len(reviews'[q]) = Len(reviews[q])
    BY <1>12, <1>t, RecoverEffect
  <2>3. ASSUME NEW m \in 1..Len(reviews[q])
        PROVE  reviews'[q][m].attempt = reviews[q][m].attempt
    <3>1. m \in DOMAIN reviews[q] /\ reviews[q][m] \in Review
      BY <1>t, Shapes DEF Typed
    <3> QED BY <2>1, <3>1 DEF Review
  <2> QED BY <2>2, <2>3, <1>k
<1>14. ASSUME NEW r \in Runs, OperatorCommand(r) PROVE ReviewFits(q)'
  BY <1>14, <1>r, <1>8 DEF OperatorCommand, ManualReview, Admit, OverrideBlocked, Cancel, Archive, Restore,
                          AuthorizeExecution
<1>15. ASSUME NEW e \in executing, ExecutionStep(e) PROVE ReviewFits(q)'
  BY <1>15, <1>r DEF ExecutionStep, FinishExecution, FailExecution, MarkExecutionRunning, CompleteExecution
<1>16. ASSUME NEW d \in deciding, DecisionStep(d) PROVE ReviewFits(q)'
  <2>1. d.run \in Runs
    BY <1>t DEF Typed, TypeOK, Decisions
  <2> QED BY <1>16, <2>1, <1>8, <1>r DEF DecisionStep, AutomaticReview, AutomaticReviewRefused, ledger
<1>17. ASSUME NEW v \in reviewing, ReviewStep(v) PROVE ReviewFits(q)'
  BY <1>17, <1>10, <1>11 DEF ReviewStep, FinishReview, FailReview
<1>18. ASSUME Crash \/ UNCHANGED vars PROVE ReviewFits(q)'
  BY <1>18, <1>r DEF Crash, vars, ledger
<1> QED BY <1>12, <1>14, <1>15, <1>16, <1>17, <1>18 DEF Next

\* Settlement leaves no claim active; opening and recovering a claim fit as well.
LEMMA ItemMoves ==
  ASSUME NEW item, NEW next, item.claim \in ClaimStates, ItemFits(item),
         \/ next.status = "running" /\ next.claim = "active"
         \/ ~Live(next) /\ next.claim = Released(item.claim)
         \/ next.status = item.status /\ item.claim = "active" /\ next.claim = "ambiguous"
  PROVE  ItemFits(next)
  BY DEF ItemFits, Live, Released, ClaimStates

\* What a recovery does to the items, and that it takes active claims.
LEMMA RecoverItems ==
  ASSUME Typed, RecoverClaims
  PROVE  \E S \in SUBSET ActiveWorks : \A r \in Runs :
           /\ Len(attempts'[r]) = Len(attempts[r]) /\ Len(reviews'[r]) = Len(reviews[r])
           /\ \A n \in 1..Len(attempts[r]) :
                attempts'[r][n] = IF <<"execution_attempt", r, n>> \in S
                                    THEN [attempts[r][n] EXCEPT !.claim = "ambiguous"]
                                    ELSE attempts[r][n]
           /\ \A n \in 1..Len(reviews[r]) :
                reviews'[r][n] = IF <<"review", r, n>> \in S
                                   THEN [reviews[r][n] EXCEPT !.claim = "ambiguous"]
                                   ELSE reviews[r][n]
<1>1. PICK S \in SUBSET ActiveWorks :
        /\ attempts' = [r \in Runs |-> [n \in DOMAIN attempts[r] |->
             IF <<"execution_attempt", r, n>> \in S THEN [attempts[r][n] EXCEPT !.claim = "ambiguous"]
                                                    ELSE attempts[r][n]]]
        /\ reviews' = [r \in Runs |-> [n \in DOMAIN reviews[r] |->
             IF <<"review", r, n>> \in S THEN [reviews[r][n] EXCEPT !.claim = "ambiguous"]
                                         ELSE reviews[r][n]]]
  BY DEF RecoverClaims, ActiveWorks
<1>2. \A r \in Runs : Len(attempts'[r]) = Len(attempts[r]) /\ Len(reviews'[r]) = Len(reviews[r])
  BY RecoverEffect DEF SameStatuses
<1>3. \A r \in Runs : DOMAIN attempts[r] = 1..Len(attempts[r]) /\ DOMAIN reviews[r] = 1..Len(reviews[r])
  BY Shapes DEF Typed
<1>4. ASSUME NEW r \in Runs, NEW n \in 1..Len(attempts[r])
      PROVE  attempts'[r][n] = IF <<"execution_attempt", r, n>> \in S
                                 THEN [attempts[r][n] EXCEPT !.claim = "ambiguous"]
                                 ELSE attempts[r][n]
  BY <1>1, <1>3
<1>5. ASSUME NEW r \in Runs, NEW n \in 1..Len(reviews[r])
      PROVE  reviews'[r][n] = IF <<"review", r, n>> \in S
                                THEN [reviews[r][n] EXCEPT !.claim = "ambiguous"]
                                ELSE reviews[r][n]
  BY <1>1, <1>3
<1> QED BY <1>2, <1>4, <1>5

\* The claim of an attempt and of a review.
LEMMA ClaimOfItem ==
  ASSUME NEW r \in Runs, NEW n \in 1..MaxAttempts, Typed
  PROVE  /\ ClaimOf(<<"execution_attempt", r, n>>) =
              IF n \in 1..Len(attempts[r]) THEN attempts[r][n].claim ELSE "none"
         /\ ClaimOf(<<"review", r, n>>) =
              IF n \in 1..Len(reviews[r]) THEN reviews[r][n].claim ELSE "none"
  BY Shapes DEF ClaimOf, Typed

LEMMA WorkItem ==
  ASSUME NEW w \in Works
  PROVE  \E r \in Runs, n \in 1..MaxAttempts :
           w = <<"execution_attempt", r, n>> \/ w = <<"review", r, n>>
  BY DEF Works

LEMMA ItemTypes ==
  ASSUME Typed, NEW r \in Runs
  PROVE  /\ \A n \in 1..Len(attempts[r]) : attempts[r][n] \in Attempt /\ attempts[r][n].claim \in ClaimStates
         /\ \A n \in 1..Len(reviews[r]) : reviews[r][n] \in Review /\ reviews[r][n].claim \in ClaimStates
<1>1. attempts[r] \in Seq(Attempt) /\ reviews[r] \in Seq(Review)
  BY Shapes DEF Typed
<1>2. /\ \A n \in 1..Len(attempts[r]) : attempts[r][n] \in Attempt
      /\ \A n \in 1..Len(reviews[r]) : reviews[r][n] \in Review
  BY <1>1
<1>3. /\ \A item \in Attempt : item.claim \in ClaimStates
      /\ \A item \in Review : item.claim \in ClaimStates
  BY DEF Attempt, Review
<1> QED BY <1>2, <1>3

\* Every step but the ones on one item, an authorization and a recovery leaves
\* attempts and reviews alone.
LEMMA ItemsFitStep ==
  ASSUME LedgerInv, \A r \in Runs : ItemsFit(r), [Next]_vars, NEW q \in Runs
  PROVE  ItemsFit(q)'
<1>t. Typed /\ ItemsFit(q) /\ (\A r \in Runs : ItemsFit(r))
  BY DEF LedgerInv
<1>s. Len(attempts[q]) \in Nat /\ Len(reviews[q]) \in Nat
  BY <1>t, Shapes DEF Typed
<1>c. /\ \A e \in executing : e.run \in Runs /\ e.attempt \in 1..Len(attempts[e.run])
      /\ \A v \in reviewing : v.run \in Runs /\ v.review \in 1..Len(reviews[v.run])
  BY <1>t, Shapes DEF Typed, TypeOK, CallsRefer, Executions, ReviewCalls
<1>k. ASSUME attempts' = attempts, reviews' = reviews PROVE ItemsFit(q)'
  BY <1>k, <1>t DEF ItemsFit, ItemFits, Live
<1>a. ASSUME NEW e \in executing, NEW x, SetsAttempt(e.run, e.attempt, x), ItemFits(x), reviews' = reviews
      PROVE  ItemsFit(q)'
  <2>1. \A n \in 1..Len(reviews'[q]) : ItemFits(reviews'[q][n])
    BY <1>a, <1>t DEF ItemsFit
  <2>2. \A n \in 1..Len(attempts'[q]) : ItemFits(attempts'[q][n])
    <3>1. CASE q = e.run
      BY <1>a, <3>1, <1>t DEF ItemsFit, SetsAttempt
    <3>2. CASE q # e.run
      BY <1>a, <3>2, <1>t DEF ItemsFit, SetsAttempt
    <3> QED BY <3>1, <3>2
  <2> QED BY <2>1, <2>2 DEF ItemsFit, ItemFits, Live
<1>b. ASSUME NEW v \in reviewing, NEW x, SetsReview(v.run, v.review, x), ItemFits(x), attempts' = attempts
      PROVE  ItemsFit(q)'
  <2>1. \A n \in 1..Len(attempts'[q]) : ItemFits(attempts'[q][n])
    BY <1>b, <1>t DEF ItemsFit
  <2>2. \A n \in 1..Len(reviews'[q]) : ItemFits(reviews'[q][n])
    <3>1. CASE q = v.run
      BY <1>b, <3>1, <1>t DEF ItemsFit, SetsReview
    <3>2. CASE q # v.run
      BY <1>b, <3>2, <1>t DEF ItemsFit, SetsReview
    <3> QED BY <3>1, <3>2
  <2> QED BY <2>1, <2>2 DEF ItemsFit, ItemFits, Live
<1>5. ASSUME NEW r \in Runs, AuthorizeExecution(r) PROVE ItemsFit(q)'
  <2> DEFINE x == [status |-> "queued", changed |-> FALSE, claim |-> "none"]
  <2>1. /\ Len(attempts'[r]) = Len(attempts[r]) + 1
        /\ attempts'[r][Len(attempts[r]) + 1] = x
        /\ \A n \in 1..Len(attempts[r]) : attempts'[r][n] = attempts[r][n]
        /\ \A p \in Runs : p # r => attempts'[p] = attempts[p]
    BY <1>5, <1>t, AuthorizeEffect
  <2>2. ItemFits(x)
    BY DEF ItemFits, Live
  <2> HIDE DEF x
  <2>3. \A n \in 1..Len(attempts'[q]) : ItemFits(attempts'[q][n])
    <3>1. ASSUME q = r, NEW n \in 1..Len(attempts'[q]) PROVE ItemFits(attempts'[q][n])
      <4>1. n \in 1..Len(attempts[q]) \/ n = Len(attempts[q]) + 1
        BY <2>1, <3>1, <1>s
      <4> QED BY <4>1, <2>1, <2>2, <3>1, <1>t DEF ItemsFit
    <3>2. CASE q # r
      BY <2>1, <3>2, <1>t DEF ItemsFit
    <3> QED BY <3>1, <3>2
  <2>4. reviews' = reviews
    BY <1>5 DEF AuthorizeExecution
  <2> QED BY <2>3, <2>4, <1>t DEF ItemsFit, ItemFits, Live
<1>6. ASSUME NEW e \in executing, MarkExecutionRunning(e) PROVE ItemsFit(q)'
  <2> DEFINE x == [attempts[e.run][e.attempt] EXCEPT !.status = "running", !.claim = "active"]
  <2>1. SetsAttempt(e.run, e.attempt, x) /\ reviews' = reviews
    BY <1>6, <1>t, MarkRunningEffect DEF MarkExecutionRunning
  <2>2. x.status = "running" /\ x.claim = "active"
    BY <1>c, <1>t, ItemTypes DEF Attempt
  <2>3. ItemFits(x)
    BY <2>2 DEF ItemFits, Live
  <2> QED BY <2>1, <2>3, <1>a
<1>7. ASSUME NEW e \in executing, NEW status \in {"succeeded", "blocked", "failed"},
             NEW changed \in BOOLEAN, CompleteExecution(e, status, changed)
      PROVE  ItemsFit(q)'
  <2> DEFINE x == [status |-> status, changed |-> changed,
                   claim |-> Released(attempts[e.run][e.attempt].claim)]
  <2>1. SetsAttempt(e.run, e.attempt, x) /\ reviews' = reviews
    BY <1>7, <1>t, CompleteEffect DEF CompleteExecution
  <2>2. ItemFits(x)
    BY DEF ItemFits, Live, Released
  <2> QED BY <2>1, <2>2, <1>a
<1>8. ASSUME NEW r \in Runs, NEW trigger \in {"operator", "policy"}, AuthorizeReview(r, trigger)
      PROVE  ItemsFit(q)'
  <2> DEFINE x == [attempt |-> Len(attempts[r]), trigger |-> trigger, status |-> "queued", claim |-> "none"]
  <2>1. /\ Len(reviews'[r]) = Len(reviews[r]) + 1
        /\ reviews'[r][Len(reviews[r]) + 1] = x
        /\ \A n \in 1..Len(reviews[r]) : reviews'[r][n] = reviews[r][n]
        /\ \A p \in Runs : p # r => reviews'[p] = reviews[p]
    BY <1>8, <1>t, AuthorizeReviewEffect
  <2>2. ItemFits(x)
    BY DEF ItemFits, Live
  <2> HIDE DEF x
  <2>3. \A n \in 1..Len(reviews'[q]) : ItemFits(reviews'[q][n])
    <3>1. ASSUME q = r, NEW n \in 1..Len(reviews'[q]) PROVE ItemFits(reviews'[q][n])
      <4>1. n \in 1..Len(reviews[q]) \/ n = Len(reviews[q]) + 1
        BY <2>1, <3>1, <1>s
      <4> QED BY <4>1, <2>1, <2>2, <3>1, <1>t DEF ItemsFit
    <3>2. CASE q # r
      BY <2>1, <3>2, <1>t DEF ItemsFit
    <3> QED BY <3>1, <3>2
  <2>4. attempts' = attempts
    BY <1>8 DEF AuthorizeReview
  <2> QED BY <2>3, <2>4, <1>t DEF ItemsFit, ItemFits, Live
<1>10. ASSUME NEW v \in reviewing, MarkReviewRunning(v) PROVE ItemsFit(q)'
  <2> DEFINE x == [reviews[v.run][v.review] EXCEPT !.status = "running", !.claim = "active"]
  <2>1. SetsReview(v.run, v.review, x) /\ attempts' = attempts
    BY <1>10, <1>t, MarkReviewEffect DEF MarkReviewRunning
  <2>2. x.status = "running" /\ x.claim = "active"
    BY <1>c, <1>t, ItemTypes DEF Review
  <2>3. ItemFits(x)
    BY <2>2 DEF ItemFits, Live
  <2> QED BY <2>1, <2>3, <1>b
<1>11. ASSUME NEW v \in reviewing, NEW status \in {"approved", "blocked", "failed"}, CompleteReview(v, status)
       PROVE  ItemsFit(q)'
  <2> DEFINE x == [reviews[v.run][v.review] EXCEPT !.status = status, !.claim = Released(@)]
  <2>1. SetsReview(v.run, v.review, x) /\ attempts' = attempts
    BY <1>11, <1>t, CompleteReviewEffect DEF CompleteReview
  <2>2. x.status = status /\ x.claim = Released(reviews[v.run][v.review].claim)
    BY <1>c, <1>t, ItemTypes DEF Review
  <2>3. ItemFits(x)
    BY <2>2 DEF ItemFits, Live, Released
  <2> QED BY <2>1, <2>3, <1>b
<1>12. ASSUME RecoverClaims PROVE ItemsFit(q)'
  <2>1. PICK S \in SUBSET ActiveWorks : \A r \in Runs :
          /\ Len(attempts'[r]) = Len(attempts[r]) /\ Len(reviews'[r]) = Len(reviews[r])
          /\ \A n \in 1..Len(attempts[r]) :
               attempts'[r][n] = IF <<"execution_attempt", r, n>> \in S
                                   THEN [attempts[r][n] EXCEPT !.claim = "ambiguous"]
                                   ELSE attempts[r][n]
          /\ \A n \in 1..Len(reviews[r]) :
               reviews'[r][n] = IF <<"review", r, n>> \in S
                                  THEN [reviews[r][n] EXCEPT !.claim = "ambiguous"]
                                  ELSE reviews[r][n]
    BY <1>12, <1>t, RecoverItems
  <2>2. ASSUME NEW n \in 1..Len(attempts[q]) PROVE ItemFits(attempts'[q][n])
    <3>1. CASE <<"execution_attempt", q, n>> \in S
      <4>1. ClaimOf(<<"execution_attempt", q, n>>) = "active"
        BY <2>1, <3>1 DEF ActiveWorks
      <4>2. attempts[q][n].claim = "active"
        BY <4>1, <1>t, Shapes DEF ClaimOf, Typed
      <4>3. /\ attempts'[q][n].status = attempts[q][n].status
            /\ attempts'[q][n].claim = "ambiguous"
        BY <2>1, <3>1, <1>t, ItemTypes DEF Attempt
      <4> QED BY <4>2, <4>3, <1>t, ItemTypes, ItemMoves DEF ItemsFit
    <3>2. CASE <<"execution_attempt", q, n>> \notin S
      BY <2>1, <3>2, <1>t DEF ItemsFit
    <3> QED BY <3>1, <3>2
  <2>3. ASSUME NEW n \in 1..Len(reviews[q]) PROVE ItemFits(reviews'[q][n])
    <3>1. CASE <<"review", q, n>> \in S
      <4>1. ClaimOf(<<"review", q, n>>) = "active"
        BY <2>1, <3>1 DEF ActiveWorks
      <4>2. reviews[q][n].claim = "active"
        BY <4>1, <1>t, Shapes DEF ClaimOf, Typed
      <4>3. /\ reviews'[q][n].status = reviews[q][n].status
            /\ reviews'[q][n].claim = "ambiguous"
        <5>1. reviews'[q][n] = [reviews[q][n] EXCEPT !.claim = "ambiguous"]
          BY <2>1, <3>1
        <5>2. reviews[q][n] \in Review
          BY <1>t, ItemTypes
        <5> QED BY <5>1, <5>2 DEF Review
      <4> QED BY <4>2, <4>3, <1>t, ItemTypes, ItemMoves DEF ItemsFit
    <3>2. CASE <<"review", q, n>> \notin S
      BY <2>1, <3>2, <1>t DEF ItemsFit
    <3> QED BY <3>1, <3>2
  <2> QED BY <2>1, <2>2, <2>3 DEF ItemsFit, ItemFits, Live
<1>14. ASSUME NEW r \in Runs, OperatorCommand(r) PROVE ItemsFit(q)'
  BY <1>14, <1>k, <1>5, <1>8 DEF OperatorCommand, ManualReview, Admit, OverrideBlocked, Cancel, Archive, Restore
<1>15. ASSUME NEW e \in executing, ExecutionStep(e) PROVE ItemsFit(q)'
  BY <1>15, <1>6, <1>7 DEF ExecutionStep, FinishExecution, FailExecution
<1>16. ASSUME NEW d \in deciding, DecisionStep(d) PROVE ItemsFit(q)'
  <2>1. d.run \in Runs
    BY <1>t DEF Typed, TypeOK, Decisions
  <2> QED BY <1>16, <2>1, <1>8, <1>k DEF DecisionStep, AutomaticReview, AutomaticReviewRefused, ledger
<1>17. ASSUME NEW v \in reviewing, ReviewStep(v) PROVE ItemsFit(q)'
  BY <1>17, <1>10, <1>11 DEF ReviewStep, FinishReview, FailReview
<1>18. ASSUME Crash \/ UNCHANGED vars PROVE ItemsFit(q)'
  BY <1>18, <1>k DEF Crash, vars, ledger
<1> QED BY <1>12, <1>14, <1>15, <1>16, <1>17, <1>18 DEF Next

(***************************************************************************)
(* What a step does to the claims                                          *)
(***************************************************************************)
ClaimsKept == \A w \in Works : ClaimOf(w)' = ClaimOf(w)

ClaimMoves(v, c) == \A w \in Works : ClaimOf(w)' = IF w = v THEN c ELSE ClaimOf(w)

ClaimsMove ==
  \/ ClaimsKept
  \/ \E w \in Works : ClaimOf(w) = "none" /\ CapacityIsFree /\ ClaimMoves(w, "active")
  \/ \E w \in Works : ClaimOf(w) = "active" /\ ClaimMoves(w, "released")
  \/ \E S \in SUBSET ActiveWorks :
       \A w \in Works : ClaimOf(w)' = IF w \in S THEN "ambiguous" ELSE ClaimOf(w)

\* One attempt, or one review, changes: only its own claim can.
LEMMA AttemptClaimMoves ==
  ASSUME Typed, Typed', NEW r \in Runs, NEW n \in 1..Len(attempts[r]), NEW x,
         SetsAttempt(r, n, x), reviews' = reviews
  PROVE  /\ <<"execution_attempt", r, n>> \in Works
         /\ ClaimOf(<<"execution_attempt", r, n>>) = attempts[r][n].claim
         /\ ClaimMoves(<<"execution_attempt", r, n>>, x.claim)
<1>1. n \in 1..MaxAttempts
  BY Shapes, LedgerAssumption DEF Typed, TypeOK
<1>2. ASSUME NEW p \in Runs, NEW m \in 1..MaxAttempts
      PROVE  /\ ClaimOf(<<"execution_attempt", p, m>>)' =
                  IF p = r /\ m = n THEN x.claim ELSE ClaimOf(<<"execution_attempt", p, m>>)
             /\ ClaimOf(<<"review", p, m>>)' = ClaimOf(<<"review", p, m>>)
  <2>1. /\ DOMAIN attempts[p] = 1..Len(attempts[p]) /\ DOMAIN attempts'[p] = 1..Len(attempts'[p])
        /\ Len(attempts'[p]) = Len(attempts[p])
    <3>1. attempts[p] \in Seq(Attempt) /\ attempts'[p] \in Seq(Attempt)
      BY DEF Typed, TypeOK
    <3> QED BY <3>1 DEF SetsAttempt
  <2>2. ClaimOf(<<"execution_attempt", p, m>>)' =
          IF m \in 1..Len(attempts[p]) THEN attempts'[p][m].claim ELSE "none"
    BY <2>1 DEF ClaimOf
  <2>3. ClaimOf(<<"execution_attempt", p, m>>) =
          IF m \in 1..Len(attempts[p]) THEN attempts[p][m].claim ELSE "none"
    BY ClaimOfItem
  <2>4. ClaimOf(<<"review", p, m>>)' = ClaimOf(<<"review", p, m>>)
    BY DEF ClaimOf
  <2>5. CASE p = r /\ m = n
    BY <2>2, <2>4, <2>5 DEF SetsAttempt
  <2>6. CASE p # r \/ m # n
    BY <2>2, <2>3, <2>4, <2>6 DEF SetsAttempt
  <2> QED BY <2>5, <2>6
<1>3. ClaimMoves(<<"execution_attempt", r, n>>, x.claim)
  <2> SUFFICES ASSUME NEW w \in Works
               PROVE  ClaimOf(w)' = IF w = <<"execution_attempt", r, n>> THEN x.claim ELSE ClaimOf(w)
    BY DEF ClaimMoves
  <2>1. PICK p \in Runs, m \in 1..MaxAttempts :
          w = <<"execution_attempt", p, m>> \/ w = <<"review", p, m>>
    BY WorkItem
  <2>2. <<"execution_attempt", p, m>> = <<"execution_attempt", r, n>> <=> p = r /\ m = n
    OBVIOUS
  <2>3. <<"review", p, m>> # <<"execution_attempt", r, n>>
    OBVIOUS
  <2>4. CASE w = <<"execution_attempt", p, m>>
    BY <2>2, <2>4, <1>2
  <2>5. CASE w = <<"review", p, m>>
    BY <2>3, <2>5, <1>2
  <2> QED BY <2>1, <2>4, <2>5
<1>4. ClaimOf(<<"execution_attempt", r, n>>) = attempts[r][n].claim
  BY <1>1, ClaimOfItem
<1> QED BY <1>1, <1>3, <1>4 DEF Works

LEMMA ReviewClaimMoves ==
  ASSUME Typed, Typed', NEW r \in Runs, NEW n \in 1..Len(reviews[r]), NEW x,
         ReviewFits(r), SetsReview(r, n, x), attempts' = attempts
  PROVE  /\ <<"review", r, n>> \in Works
         /\ ClaimOf(<<"review", r, n>>) = reviews[r][n].claim
         /\ ClaimMoves(<<"review", r, n>>, x.claim)
<1>1. n \in 1..MaxAttempts
  <2>1. n = 1 /\ Len(attempts[r]) > 0 /\ Len(attempts[r]) <= MaxAttempts
    BY DEF ReviewFits, Typed, TypeOK
  <2> QED BY <2>1, Shapes, LedgerAssumption DEF Typed
<1>2. ASSUME NEW p \in Runs, NEW m \in 1..MaxAttempts
      PROVE  /\ ClaimOf(<<"review", p, m>>)' =
                  IF p = r /\ m = n THEN x.claim ELSE ClaimOf(<<"review", p, m>>)
             /\ ClaimOf(<<"execution_attempt", p, m>>)' = ClaimOf(<<"execution_attempt", p, m>>)
  <2>1. /\ DOMAIN reviews[p] = 1..Len(reviews[p]) /\ DOMAIN reviews'[p] = 1..Len(reviews'[p])
        /\ Len(reviews'[p]) = Len(reviews[p])
    <3>1. reviews[p] \in Seq(Review) /\ reviews'[p] \in Seq(Review)
      BY DEF Typed, TypeOK
    <3> QED BY <3>1 DEF SetsReview
  <2>2. ClaimOf(<<"review", p, m>>)' =
          IF m \in 1..Len(reviews[p]) THEN reviews'[p][m].claim ELSE "none"
    BY <2>1 DEF ClaimOf
  <2>3. ClaimOf(<<"review", p, m>>) =
          IF m \in 1..Len(reviews[p]) THEN reviews[p][m].claim ELSE "none"
    BY ClaimOfItem
  <2>4. ClaimOf(<<"execution_attempt", p, m>>)' = ClaimOf(<<"execution_attempt", p, m>>)
    BY DEF ClaimOf
  <2>5. CASE p = r /\ m = n
    BY <2>2, <2>4, <2>5 DEF SetsReview
  <2>6. CASE p # r \/ m # n
    BY <2>2, <2>3, <2>4, <2>6 DEF SetsReview
  <2> QED BY <2>5, <2>6
<1>3. ClaimMoves(<<"review", r, n>>, x.claim)
  <2> SUFFICES ASSUME NEW w \in Works
               PROVE  ClaimOf(w)' = IF w = <<"review", r, n>> THEN x.claim ELSE ClaimOf(w)
    BY DEF ClaimMoves
  <2>1. PICK p \in Runs, m \in 1..MaxAttempts :
          w = <<"execution_attempt", p, m>> \/ w = <<"review", p, m>>
    BY WorkItem
  <2>2. <<"review", p, m>> = <<"review", r, n>> <=> p = r /\ m = n
    OBVIOUS
  <2>3. <<"execution_attempt", p, m>> # <<"review", r, n>>
    OBVIOUS
  <2>4. CASE w = <<"review", p, m>>
    BY <2>2, <2>4, <1>2
  <2>5. CASE w = <<"execution_attempt", p, m>>
    BY <2>3, <2>5, <1>2
  <2> QED BY <2>1, <2>4, <2>5
<1>4. ClaimOf(<<"review", r, n>>) = reviews[r][n].claim
  BY <1>1, ClaimOfItem
<1> QED BY <1>1, <1>3, <1>4 DEF Works

\* A settlement releases the claim, when there is one.
LEMMA SettlementMoves ==
  ASSUME NEW w \in Works, ClaimMoves(w, Released(ClaimOf(w)))
  PROVE  ClaimsMove
<1>1. CASE ClaimOf(w) = "active"
  BY <1>1 DEF ClaimsMove, Released
<1>2. CASE ClaimOf(w) # "active"
  BY <1>2 DEF ClaimsMove, ClaimsKept, ClaimMoves, Released
<1> QED BY <1>1, <1>2

\* Work that is added has no claim yet.
LEMMA AuthorizationKeeps ==
  ASSUME Typed, Typed',
         \/ \E r \in Runs : AuthorizeExecution(r)
         \/ \E r \in Runs, trigger \in {"operator", "policy"} : AuthorizeReview(r, trigger)
  PROVE  ClaimsKept
<1>s. \A p \in Runs : /\ DOMAIN attempts[p] = 1..Len(attempts[p]) /\ DOMAIN attempts'[p] = 1..Len(attempts'[p])
                      /\ DOMAIN reviews[p] = 1..Len(reviews[p]) /\ DOMAIN reviews'[p] = 1..Len(reviews'[p])
                      /\ Len(attempts[p]) \in Nat /\ Len(reviews[p]) \in Nat
  BY DEF Typed, TypeOK
<1>1. ASSUME NEW r \in Runs, AuthorizeExecution(r), NEW p \in Runs, NEW m \in 1..MaxAttempts
      PROVE  /\ ClaimOf(<<"execution_attempt", p, m>>)' = ClaimOf(<<"execution_attempt", p, m>>)
             /\ ClaimOf(<<"review", p, m>>)' = ClaimOf(<<"review", p, m>>)
  <2>1. /\ Len(attempts'[r]) = Len(attempts[r]) + 1
        /\ attempts'[r][Len(attempts[r]) + 1] =
             [status |-> "queued", changed |-> FALSE, claim |-> "none"]
        /\ \A n \in 1..Len(attempts[r]) : attempts'[r][n] = attempts[r][n]
        /\ \A q \in Runs : q # r => attempts'[q] = attempts[q]
        /\ reviews' = reviews
    BY <1>1, AuthorizeEffect DEF AuthorizeExecution
  <2>2. ClaimOf(<<"execution_attempt", p, m>>)' =
          IF m \in 1..Len(attempts'[p]) THEN attempts'[p][m].claim ELSE "none"
    BY <1>s DEF ClaimOf
  <2>3. ClaimOf(<<"execution_attempt", p, m>>) =
          IF m \in 1..Len(attempts[p]) THEN attempts[p][m].claim ELSE "none"
    BY ClaimOfItem
  <2>4. ClaimOf(<<"review", p, m>>)' = ClaimOf(<<"review", p, m>>)
    BY <2>1 DEF ClaimOf
  <2>5. CASE p = r
    <3>1. m \in 1..Len(attempts'[r]) <=> m \in 1..Len(attempts[r]) \/ m = Len(attempts[r]) + 1
      BY <2>1, <1>s
    <3>2. ~(Len(attempts[r]) + 1 \in 1..Len(attempts[r]))
      BY <1>s
    <3>3. attempts'[r][Len(attempts[r]) + 1].claim = "none"
      BY <2>1
    <3> QED BY <2>1, <2>2, <2>3, <2>4, <2>5, <3>1, <3>2, <3>3
  <2>6. CASE p # r
    BY <2>1, <2>2, <2>3, <2>4, <2>6
  <2> QED BY <2>5, <2>6
<1>2. ASSUME NEW r \in Runs, NEW trigger \in {"operator", "policy"}, AuthorizeReview(r, trigger),
             NEW p \in Runs, NEW m \in 1..MaxAttempts
      PROVE  /\ ClaimOf(<<"execution_attempt", p, m>>)' = ClaimOf(<<"execution_attempt", p, m>>)
             /\ ClaimOf(<<"review", p, m>>)' = ClaimOf(<<"review", p, m>>)
  <2>1. /\ Len(reviews'[r]) = Len(reviews[r]) + 1
        /\ reviews'[r][Len(reviews[r]) + 1] = [attempt |-> Len(attempts[r]), trigger |-> trigger,
                                               status |-> "queued", claim |-> "none"]
        /\ \A n \in 1..Len(reviews[r]) : reviews'[r][n] = reviews[r][n]
        /\ \A q \in Runs : q # r => reviews'[q] = reviews[q]
        /\ attempts' = attempts
    BY <1>2, AuthorizeReviewEffect DEF AuthorizeReview
  <2>2. ClaimOf(<<"review", p, m>>)' =
          IF m \in 1..Len(reviews'[p]) THEN reviews'[p][m].claim ELSE "none"
    BY <1>s DEF ClaimOf
  <2>3. ClaimOf(<<"review", p, m>>) =
          IF m \in 1..Len(reviews[p]) THEN reviews[p][m].claim ELSE "none"
    BY ClaimOfItem
  <2>4. ClaimOf(<<"execution_attempt", p, m>>)' = ClaimOf(<<"execution_attempt", p, m>>)
    BY <2>1 DEF ClaimOf
  <2>5. CASE p = r
    <3>1. m \in 1..Len(reviews'[r]) <=> m \in 1..Len(reviews[r]) \/ m = Len(reviews[r]) + 1
      BY <2>1, <1>s
    <3>2. ~(Len(reviews[r]) + 1 \in 1..Len(reviews[r]))
      BY <1>s
    <3>3. reviews'[r][Len(reviews[r]) + 1].claim = "none"
      BY <2>1
    <3> QED BY <2>1, <2>2, <2>3, <2>4, <2>5, <3>1, <3>2, <3>3
  <2>6. CASE p # r
    BY <2>1, <2>2, <2>3, <2>4, <2>6
  <2> QED BY <2>5, <2>6
<1>3. ASSUME NEW w \in Works PROVE ClaimOf(w)' = ClaimOf(w)
  <2>1. PICK p \in Runs, m \in 1..MaxAttempts :
          w = <<"execution_attempt", p, m>> \/ w = <<"review", p, m>>
    BY WorkItem
  <2> QED BY <2>1, <1>1, <1>2
<1> QED BY <1>3 DEF ClaimsKept

\* Recovered claims were active.
LEMMA RecoveryMoves ==
  ASSUME Typed, Typed', RecoverClaims
  PROVE  ClaimsMove
<1>1. PICK S \in SUBSET ActiveWorks : \A r \in Runs :
        /\ Len(attempts'[r]) = Len(attempts[r]) /\ Len(reviews'[r]) = Len(reviews[r])
        /\ \A n \in 1..Len(attempts[r]) :
             attempts'[r][n] = IF <<"execution_attempt", r, n>> \in S
                                 THEN [attempts[r][n] EXCEPT !.claim = "ambiguous"]
                                 ELSE attempts[r][n]
        /\ \A n \in 1..Len(reviews[r]) :
             reviews'[r][n] = IF <<"review", r, n>> \in S
                                THEN [reviews[r][n] EXCEPT !.claim = "ambiguous"]
                                ELSE reviews[r][n]
  BY RecoverItems
<1>2. ASSUME NEW r \in Runs, NEW n \in 1..MaxAttempts
      PROVE  LET w == <<"execution_attempt", r, n>>
             IN  ClaimOf(w)' = IF w \in S THEN "ambiguous" ELSE ClaimOf(w)
  <2> DEFINE w == <<"execution_attempt", r, n>>
  <2>1. ClaimOf(w) = IF n \in 1..Len(attempts[r]) THEN attempts[r][n].claim ELSE "none"
    BY ClaimOfItem
  <2>2. ClaimOf(w)' = IF n \in 1..Len(attempts[r]) THEN attempts'[r][n].claim ELSE "none"
    <3>1. attempts'[r] \in Seq(Attempt)
      BY DEF Typed, TypeOK
    <3>2. DOMAIN attempts'[r] = 1..Len(attempts[r])
      BY <3>1, <1>1
    <3> QED BY <3>2 DEF ClaimOf
  <2>3. CASE n \in 1..Len(attempts[r])
    <3>1. attempts[r][n] \in Attempt
      BY <2>3, ItemTypes
    <3>2. w \in S => attempts'[r][n].claim = "ambiguous"
      BY <3>1, <2>3, <1>1 DEF Attempt
    <3>3. w \notin S => attempts'[r][n].claim = attempts[r][n].claim
      BY <2>3, <1>1
    <3> QED BY <2>1, <2>2, <2>3, <3>2, <3>3
  <2>4. CASE n \notin 1..Len(attempts[r])
    <3>1. w \notin S
      BY <2>1, <2>4 DEF ActiveWorks
    <3> QED BY <2>1, <2>2, <2>4, <3>1
  <2> QED BY <2>3, <2>4
<1>3. ASSUME NEW r \in Runs, NEW n \in 1..MaxAttempts
      PROVE  LET w == <<"review", r, n>>
             IN  ClaimOf(w)' = IF w \in S THEN "ambiguous" ELSE ClaimOf(w)
  <2> DEFINE w == <<"review", r, n>>
  <2>1. ClaimOf(w) = IF n \in 1..Len(reviews[r]) THEN reviews[r][n].claim ELSE "none"
    BY ClaimOfItem
  <2>2. ClaimOf(w)' = IF n \in 1..Len(reviews[r]) THEN reviews'[r][n].claim ELSE "none"
    <3>1. reviews'[r] \in Seq(Review)
      BY DEF Typed, TypeOK
    <3>2. DOMAIN reviews'[r] = 1..Len(reviews[r])
      BY <3>1, <1>1
    <3> QED BY <3>2 DEF ClaimOf
  <2>3. CASE n \in 1..Len(reviews[r])
    <3>1. reviews[r][n] \in Review
      BY <2>3, ItemTypes
    <3>2. w \in S => reviews'[r][n].claim = "ambiguous"
      <4>1. w \in S => reviews'[r][n] = [reviews[r][n] EXCEPT !.claim = "ambiguous"]
        BY <2>3, <1>1
      <4> QED BY <3>1, <4>1 DEF Review
    <3>3. w \notin S => reviews'[r][n].claim = reviews[r][n].claim
      BY <2>3, <1>1
    <3> QED BY <2>1, <2>2, <2>3, <3>2, <3>3
  <2>4. CASE n \notin 1..Len(reviews[r])
    <3>1. w \notin S
      BY <2>1, <2>4 DEF ActiveWorks
    <3> QED BY <2>1, <2>2, <2>4, <3>1
  <2> QED BY <2>3, <2>4
<1>4. ASSUME NEW w \in Works
      PROVE  ClaimOf(w)' = IF w \in S THEN "ambiguous" ELSE ClaimOf(w)
  <2>1. PICK r \in Runs, n \in 1..MaxAttempts :
          w = <<"execution_attempt", r, n>> \/ w = <<"review", r, n>>
    BY WorkItem
  <2> QED BY <2>1, <1>2, <1>3
<1> QED BY <1>4 DEF ClaimsMove

LEMMA ClaimsMoveStep ==
  ASSUME Typed, Typed', \A r \in Runs : ReviewFits(r) /\ ItemsFit(r), [Next]_vars
  PROVE  ClaimsMove
<1>c. /\ \A e \in executing : e.run \in Runs /\ e.attempt \in 1..Len(attempts[e.run])
      /\ \A v \in reviewing : v.run \in Runs /\ v.review \in 1..Len(reviews[v.run])
  BY Shapes DEF Typed, TypeOK, CallsRefer, Executions, ReviewCalls
<1>k. ASSUME attempts' = attempts, reviews' = reviews PROVE ClaimsMove
  BY <1>k DEF ClaimsMove, ClaimsKept, ClaimOf
<1>6. ASSUME NEW e \in executing, MarkExecutionRunning(e) PROVE ClaimsMove
  <2> DEFINE x == [attempts[e.run][e.attempt] EXCEPT !.status = "running", !.claim = "active"]
             w == <<"execution_attempt", e.run, e.attempt>>
  <2>1. SetsAttempt(e.run, e.attempt, x) /\ reviews' = reviews /\ CapacityIsFree
        /\ attempts[e.run][e.attempt].status = "queued"
    BY <1>6, MarkRunningEffect DEF MarkExecutionRunning
  <2>2. x.claim = "active"
    BY <1>c, ItemTypes DEF Attempt
  <2>3. attempts[e.run][e.attempt].claim = "none"
    BY <2>1, <1>c DEF ItemsFit, ItemFits
  <2> HIDE DEF x
  <2>4. w \in Works /\ ClaimOf(w) = "none" /\ ClaimMoves(w, "active")
    BY <2>1, <2>2, <2>3, <1>c, AttemptClaimMoves
  <2> QED BY <2>1, <2>4 DEF ClaimsMove
<1>7. ASSUME NEW e \in executing, NEW status \in {"succeeded", "blocked", "failed"},
             NEW changed \in BOOLEAN, CompleteExecution(e, status, changed)
      PROVE  ClaimsMove
  <2> DEFINE x == [status |-> status, changed |-> changed,
                   claim |-> Released(attempts[e.run][e.attempt].claim)]
             w == <<"execution_attempt", e.run, e.attempt>>
  <2>1. SetsAttempt(e.run, e.attempt, x) /\ reviews' = reviews
    BY <1>7, CompleteEffect DEF CompleteExecution
  <2>2. x.claim = Released(attempts[e.run][e.attempt].claim)
    OBVIOUS
  <2> HIDE DEF x
  <2>4. w \in Works /\ ClaimMoves(w, Released(ClaimOf(w)))
    BY <2>1, <2>2, <1>c, AttemptClaimMoves
  <2> QED BY <2>4, SettlementMoves
<1>10. ASSUME NEW v \in reviewing, MarkReviewRunning(v) PROVE ClaimsMove
  <2> DEFINE x == [reviews[v.run][v.review] EXCEPT !.status = "running", !.claim = "active"]
             w == <<"review", v.run, v.review>>
  <2>1. SetsReview(v.run, v.review, x) /\ attempts' = attempts /\ CapacityIsFree
        /\ reviews[v.run][v.review].status = "queued"
    BY <1>10, MarkReviewEffect DEF MarkReviewRunning
  <2>2. x.claim = "active"
    BY <1>c, ItemTypes DEF Review
  <2>3. reviews[v.run][v.review].claim = "none"
    BY <2>1, <1>c DEF ItemsFit, ItemFits
  <2> HIDE DEF x
  <2>4. w \in Works /\ ClaimOf(w) = "none" /\ ClaimMoves(w, "active")
    BY <2>1, <2>2, <2>3, <1>c, ReviewClaimMoves
  <2> QED BY <2>1, <2>4 DEF ClaimsMove
<1>11. ASSUME NEW v \in reviewing, NEW status \in {"approved", "blocked", "failed"}, CompleteReview(v, status)
       PROVE  ClaimsMove
  <2> DEFINE x == [reviews[v.run][v.review] EXCEPT !.status = status, !.claim = Released(@)]
             w == <<"review", v.run, v.review>>
  <2>1. SetsReview(v.run, v.review, x) /\ attempts' = attempts
    BY <1>11, CompleteReviewEffect DEF CompleteReview
  <2>2. x.claim = Released(reviews[v.run][v.review].claim)
    BY <1>c, ItemTypes DEF Review
  <2> HIDE DEF x
  <2>4. w \in Works /\ ClaimMoves(w, Released(ClaimOf(w)))
    BY <2>1, <2>2, <1>c, ReviewClaimMoves
  <2> QED BY <2>4, SettlementMoves
<1>a. ASSUME NEW r \in Runs, AuthorizeExecution(r) PROVE ClaimsMove
  BY <1>a, AuthorizationKeeps DEF ClaimsMove
<1>b. ASSUME NEW r \in Runs, NEW trigger \in {"operator", "policy"}, AuthorizeReview(r, trigger)
      PROVE  ClaimsMove
  BY <1>b, AuthorizationKeeps DEF ClaimsMove
<1>14. ASSUME NEW r \in Runs, OperatorCommand(r) PROVE ClaimsMove
  BY <1>14, <1>k, <1>a, <1>b
     DEF OperatorCommand, ManualReview, Admit, OverrideBlocked, Cancel, Archive, Restore
<1>15. ASSUME NEW e \in executing, ExecutionStep(e) PROVE ClaimsMove
  BY <1>15, <1>6, <1>7 DEF ExecutionStep, FinishExecution, FailExecution
<1>16. ASSUME NEW d \in deciding, DecisionStep(d) PROVE ClaimsMove
  <2>1. d.run \in Runs
    BY DEF Typed, TypeOK, Decisions
  <2> QED BY <1>16, <2>1, <1>b, <1>k DEF DecisionStep, AutomaticReview, AutomaticReviewRefused, ledger
<1>17. ASSUME NEW v \in reviewing, ReviewStep(v) PROVE ClaimsMove
  BY <1>17, <1>10, <1>11 DEF ReviewStep, FinishReview, FailReview
<1>18. ASSUME Crash \/ UNCHANGED vars PROVE ClaimsMove
  BY <1>18, <1>k DEF Crash, vars, ledger
<1> QED BY <1>14, <1>15, <1>16, <1>17, <1>18, RecoveryMoves DEF Next

(***************************************************************************)
(* The theorems                                                            *)
(***************************************************************************)
\* At most one claim more, and only where there is room for it.
LEMMA CeilingStep ==
  ASSUME CeilingFits, ClaimsMove
  PROVE  CeilingFits'
<1> DEFINE C == ActiveWorks
<1>c. Cardinality(C) \in Nat /\ Cardinality(C) <= Ceiling /\ IsFiniteSet(C)
  BY FS_CardinalityType DEF CeilingFits, CeilingHolds, ActiveWorks
<1>1. ASSUME ActiveWorks' \subseteq ActiveWorks PROVE CeilingFits'
  <2>1. IsFiniteSet(ActiveWorks') /\ Cardinality(ActiveWorks') <= Cardinality(C)
    BY <1>1, <1>c, FS_Subset
  <2>2. Cardinality(ActiveWorks') \in Nat
    BY <2>1, FS_CardinalityType
  <2> QED BY <1>c, <2>1, <2>2, LedgerAssumption DEF CeilingFits, CeilingHolds, ActiveWorks
<1>2. ASSUME NEW w \in Works, ClaimOf(w) = "none", CapacityIsFree, ClaimMoves(w, "active")
      PROVE  CeilingFits'
  <2>1. ActiveWorks' = C \cup {w} /\ w \notin C
    BY <1>2 DEF ActiveWorks, ClaimMoves
  <2>2. IsFiniteSet(ActiveWorks') /\ Cardinality(ActiveWorks') = Cardinality(C) + 1
    BY <2>1, <1>c, FS_AddElement
  <2>3. Cardinality(C) < Ceiling
    BY <1>2 DEF CapacityIsFree, ActiveWorks
  <2> QED BY <2>2, <2>3, <1>c, LedgerAssumption DEF CeilingFits, CeilingHolds, ActiveWorks
<1>3. CASE ClaimsKept
  BY <1>1, <1>3 DEF ClaimsKept, ActiveWorks
<1>4. ASSUME NEW w \in Works, ClaimMoves(w, "released") PROVE CeilingFits'
  BY <1>1, <1>4 DEF ClaimMoves, ActiveWorks
<1>5. ASSUME NEW S \in SUBSET ActiveWorks,
             \A w \in Works : ClaimOf(w)' = IF w \in S THEN "ambiguous" ELSE ClaimOf(w)
      PROVE  CeilingFits'
  BY <1>1, <1>5 DEF ActiveWorks
<1> QED BY <1>2, <1>3, <1>4, <1>5 DEF ClaimsMove

LEMMA AgreementStep == AgreementInv /\ [Next]_vars => AgreementInv'
<1> SUFFICES ASSUME AgreementInv, [Next]_vars PROVE AgreementInv'
  OBVIOUS
<1>1. LedgerInv /\ Typed /\ LedgerInv' /\ Typed'
  BY LedgerInvStep DEF AgreementInv, LedgerInv
<1>2. \A r \in Runs : RunAgrees(r)' /\ ReviewFits(r)' /\ ItemsFit(r)'
  BY <1>1, RunAgreesStep, ReviewFitsStep, ItemsFitStep DEF AgreementInv
<1>3. CeilingFits'
  BY <1>1, ClaimsMoveStep, CeilingStep DEF AgreementInv
<1> QED BY <1>1, <1>2, <1>3 DEF AgreementInv

LEMMA NoClaimYet == Init => \A w \in Works : ClaimOf(w) = "none"
<1> SUFFICES ASSUME Init, NEW w \in Works PROVE ClaimOf(w) = "none"
  OBVIOUS
<1>1. PICK r \in Runs, n \in 1..MaxAttempts :
        w = <<"execution_attempt", r, n>> \/ w = <<"review", r, n>>
  BY WorkItem
<1>2. Len(attempts[r]) = 0 /\ Len(reviews[r]) = 0
  BY DEF Init
<1>3. ~(n \in 1..Len(attempts[r])) /\ ~(n \in 1..Len(reviews[r]))
  BY <1>2
<1>4. ClaimOf(<<"execution_attempt", r, n>>) = "none" /\ ClaimOf(<<"review", r, n>>) = "none"
  BY <1>3, TypedInit, ClaimOfItem
<1> QED BY <1>1, <1>4

LEMMA AgreementInit == Init => AgreementInv
<1> SUFFICES ASSUME Init PROVE AgreementInv
  OBVIOUS
<1>1. \A r \in Runs : /\ runStatus[r] = "none" /\ jobStatus[r] = "none"
                      /\ Len(attempts[r]) = 0 /\ Len(reviews[r]) = 0
  BY DEF Init
<1>2. \A r \in Runs : RunAgrees(r) /\ ReviewFits(r) /\ ItemsFit(r)
  BY <1>1 DEF RunAgrees, JobStatusOf, ReviewFits, ItemsFit
<1>3. ActiveWorks = {}
  BY NoClaimYet DEF ActiveWorks
<1>4. CeilingFits
  BY <1>3, FS_EmptySet, LedgerAssumption DEF CeilingFits, CeilingHolds, ActiveWorks
<1> QED BY <1>2, <1>4, LedgerInvInit DEF AgreementInv

\* Run and job tell one story, a review approves the job's final draft and is the
\* only one, work holds capacity exactly while it runs, and the ceiling holds,
\* whatever the calls that outlive a cancellation, a recovery or a crash.
THEOREM LedgerAgreement == Spec => []LedgerAgrees
<1>1. AgreementInv => LedgerAgrees
  <2> SUFFICES ASSUME AgreementInv PROVE LedgerAgrees
    OBVIOUS
  <2>1. \A r \in Runs : DOMAIN attempts[r] = 1..Len(attempts[r]) /\ DOMAIN reviews[r] = 1..Len(reviews[r])
    BY Shapes DEF AgreementInv, LedgerInv, Typed
  <2>2. RunAndJobAgree
    BY DEF AgreementInv, RunAgrees, RunAndJobAgree
  <2>3. ReviewedDraftIsFinal
    BY <2>1 DEF AgreementInv, ReviewFits, ReviewedDraftIsFinal
  <2>4. ClaimFollowsWork
    BY <2>1 DEF AgreementInv, ItemsFit, ItemFits, ClaimFollowsWork
  <2>5. CeilingHolds
    BY DEF AgreementInv, CeilingFits
  <2> QED BY <2>2, <2>3, <2>4, <2>5 DEF LedgerAgrees
<1> QED BY AgreementInit, AgreementStep, <1>1, PTL DEF Spec

LEMMA ClaimsStep ==
  ASSUME ClaimsMove
  PROVE  [Claims!Next]_([w \in Works |-> ClaimOf(w)])
<1> DEFINE claim == [w \in Works |-> ClaimOf(w)]
<1>1. CASE ClaimsKept
  BY <1>1 DEF ClaimsKept
<1>2. ASSUME NEW w \in Works, ClaimOf(w) = "none", ClaimMoves(w, "active") PROVE Claims!Next
  <2>1. claim[w] = "none" /\ claim' = [claim EXCEPT ![w] = "active"]
    BY <1>2 DEF ClaimMoves
  <2> QED BY <2>1 DEF Claims!Next, Claims!Open
<1>3. ASSUME NEW w \in Works, ClaimOf(w) = "active", ClaimMoves(w, "released") PROVE Claims!Next
  <2>1. claim[w] = "active" /\ claim' = [claim EXCEPT ![w] = "released"]
    BY <1>3 DEF ClaimMoves
  <2> QED BY <2>1 DEF Claims!Next, Claims!Release
<1>4. ASSUME NEW S \in SUBSET ActiveWorks,
             \A w \in Works : ClaimOf(w)' = IF w \in S THEN "ambiguous" ELSE ClaimOf(w)
      PROVE  Claims!Next
  <2>1. S \in SUBSET {w \in Works : claim[w] = "active"}
    BY DEF ActiveWorks
  <2>2. claim' = [w \in Works |-> IF w \in S THEN "ambiguous" ELSE claim[w]]
    BY <1>4
  <2> QED BY <2>1, <2>2 DEF Claims!Next, Claims!Recover
<1> QED BY <1>1, <1>2, <1>3, <1>4 DEF ClaimsMove

\* The claims of attempts and reviews implement what the organization ledger
\* promises of a dispatch identity: claimed once, ended once.
THEOREM LedgerClaimsImplemented == Spec => ClaimLifecycle
<1>1. Init => Claims!Init
  BY NoClaimYet DEF Claims!Init
<1>2. AgreementInv /\ [Next]_vars => [Claims!Next]_([w \in Works |-> ClaimOf(w)])
  <2> SUFFICES ASSUME AgreementInv, [Next]_vars
               PROVE  [Claims!Next]_([w \in Works |-> ClaimOf(w)])
    OBVIOUS
  <2>1. Typed /\ Typed'
    BY AgreementStep DEF AgreementInv, LedgerInv
  <2> QED BY <2>1, ClaimsMoveStep, ClaimsStep DEF AgreementInv
<1> QED BY <1>1, <1>2, AgreementInit, AgreementStep, PTL DEF Spec, ClaimLifecycle, Claims!Spec
=============================================================================
