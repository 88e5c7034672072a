---------------------- MODULE OrganizationCapacityProofs ----------------------
(***************************************************************************)
(* Theorems of OrganizationCapacity, for every set of works, demands,      *)
(* policies, lease and recovery limit.                                     *)
(***************************************************************************)
EXTENDS OrganizationCapacity, FiniteSetTheorems, WellFoundedInduction, TLAPS

(***************************************************************************)
(* Types                                                                   *)
(***************************************************************************)
\* A version that was recorded stays recorded.
LEMMA LongerStream ==
  ASSUME NEW S, NEW s \in Seq(S), NEW x \in S
  PROVE  /\ Append(s, x) \in Seq(S)
         /\ Len(Append(s, x)) = Len(s) + 1
         /\ \A i \in 1..Len(s) : Append(s, x)[i] = s[i]
         /\ Append(s, x)[Len(s) + 1] = x
         /\ Len(s) \in Nat
  OBVIOUS

Decisions(n) == [mode : {"enabled", "disabled"}, policyVersion : 1..n]

LEMMA MoreVersions ==
  ASSUME NEW n \in Nat, NEW s \in Seq(Decisions(n)), NEW m \in Nat, n <= m
  PROVE  s \in Seq(Decisions(m))
<1>1. Decisions(n) \subseteq Decisions(m)
  BY DEF Decisions
<1> QED BY <1>1

LEMMA TypeStep ==
  ASSUME TypeOK, [Next]_vars
  PROVE  TypeOK'
<1> USE CapacityAssumption
<1>t. /\ policies \in Seq(Policies) /\ PolicyVersion \in Nat
      /\ enforcement \in Seq(Decisions(PolicyVersion))
      /\ claims \in [Works -> ClaimRecords]
      /\ \A w \in Works : claims[w].policyVersion <= PolicyVersion
      /\ DOMAIN batches \subseteq BatchKeys /\ \A k \in DOMAIN batches : batches[k] \subseteq Works
      /\ running \in [Works -> Nat \cup {Never}]
      /\ now \in Nat
  BY DEF TypeOK, PolicyVersion, Decisions
<1>1. ASSUME NEW p \in Policies, RecordPolicy(p) PROVE TypeOK'
  <2>1. /\ policies' \in Seq(Policies)
        /\ PolicyVersion' = PolicyVersion + 1
    BY <1>1, <1>t, LongerStream DEF RecordPolicy, PolicyVersion
  <2>2. enforcement' \in Seq(Decisions(PolicyVersion'))
    BY <1>1, <1>t, <2>1, MoreVersions DEF RecordPolicy
  <2>3. \A w \in Works : claims'[w].policyVersion <= PolicyVersion'
    BY <1>1, <1>t, <2>1 DEF RecordPolicy, ClaimRecords
  <2> QED BY <1>1, <1>t, <2>1, <2>2, <2>3 DEF RecordPolicy, TypeOK, Decisions
<1>2. ASSUME NEW mode \in {"enabled", "disabled"}, RecordEnforcement(mode) PROVE TypeOK'
  <2>1. PolicyVersion' = PolicyVersion
    BY <1>2 DEF RecordEnforcement, PolicyVersion
  <2>2. enforcement' \in Seq(Decisions(PolicyVersion'))
    <3>1. [mode |-> mode, policyVersion |-> PolicyVersion] \in Decisions(PolicyVersion)
      BY <1>2, <1>t DEF RecordEnforcement, Decisions
    <3> QED BY <1>2, <1>t, <2>1, <3>1, LongerStream DEF RecordEnforcement
  <2> QED BY <1>2, <1>t, <2>1, <2>2 DEF RecordEnforcement, TypeOK, Decisions
<1>3. ASSUME NEW k \in BatchKeys, RecoverExpired(k) PROVE TypeOK'
  <2>1. PICK S \in SUBSET Expired :
          /\ claims' = [w \in Works |-> IF w \in S THEN [claims[w] EXCEPT !.status = "ambiguous"]
                                                   ELSE claims[w]]
          /\ batches' = [b \in DOMAIN batches \cup {k} |-> IF b = k THEN S ELSE batches[b]]
    BY <1>3 DEF RecoverExpired
  <2>2. S \subseteq Works
    BY <2>1 DEF Expired, Active
  <2>3. /\ claims' \in [Works -> ClaimRecords]
        /\ \A w \in Works : claims'[w].policyVersion = claims[w].policyVersion
    BY <2>1, <1>t DEF ClaimRecords
  <2>4. /\ DOMAIN batches' \subseteq BatchKeys
        /\ \A j \in DOMAIN batches' : batches'[j] \subseteq Works
    BY <2>1, <2>2, <1>t
  <2>5. UNCHANGED <<policies, enforcement, running, now>> /\ PolicyVersion' = PolicyVersion
    BY <1>3 DEF RecoverExpired, PolicyVersion
  <2> QED BY <1>t, <2>3, <2>4, <2>5 DEF TypeOK, Decisions
<1>4. ASSUME NEW w \in Works, Claim(w) PROVE TypeOK'
  <2>1. UNCHANGED <<policies, enforcement, batches, now>> /\ PolicyVersion' = PolicyVersion
    BY <1>4 DEF Claim, PolicyVersion
  <2>2. WouldExceed(w) \in BOOLEAN
    BY DEF WouldExceed
  <2>3. [status |-> "active", policyVersion |-> PolicyVersion,
         wouldExceed |-> WouldExceed(w), expiresAt |-> now + Lease] \in ClaimRecords
    BY <1>t, <2>2 DEF ClaimRecords
  <2>4. claims' \in [Works -> ClaimRecords]
    BY <1>4, <1>t, <2>3 DEF Claim
  <2>5. \A u \in Works : claims'[u].policyVersion <= PolicyVersion
    BY <1>4, <1>t DEF Claim
  <2>6. running' \in [Works -> Nat \cup {Never}]
    BY <1>4, <1>t DEF Claim
  <2> QED BY <1>t, <2>1, <2>4, <2>5, <2>6 DEF TypeOK, Decisions
<1>5. ASSUME NEW w \in Works, Settle(w) PROVE TypeOK'
  <2>1. UNCHANGED <<policies, enforcement, batches, now>> /\ PolicyVersion' = PolicyVersion
    BY <1>5 DEF Settle, PolicyVersion
  <2>2. /\ claims' \in [Works -> ClaimRecords]
        /\ \A u \in Works : claims'[u].policyVersion = claims[u].policyVersion
    BY <1>5, <1>t DEF Settle, ClaimRecords
  <2>3. running' \in [Works -> Nat \cup {Never}]
    BY <1>5, <1>t DEF Settle
  <2> QED BY <1>t, <2>1, <2>2, <2>3 DEF TypeOK, Decisions
<1>6. ASSUME NEW w \in Works, Crash(w) PROVE TypeOK'
  <2>1. UNCHANGED <<policies, enforcement, claims, batches, now>> /\ PolicyVersion' = PolicyVersion
    BY <1>6 DEF Crash, PolicyVersion
  <2>2. running' \in [Works -> Nat \cup {Never}]
    BY <1>6, <1>t DEF Crash
  <2> QED BY <1>t, <2>1, <2>2 DEF TypeOK, Decisions
<1>7. ASSUME Tick PROVE TypeOK'
  BY <1>7, <1>t DEF Tick, TypeOK, PolicyVersion, Decisions
<1>8. ASSUME UNCHANGED vars PROVE TypeOK'
  BY <1>8, <1>t DEF vars, TypeOK, PolicyVersion, Decisions
<1> QED BY <1>1, <1>2, <1>3, <1>4, <1>5, <1>6, <1>7, <1>8 DEF Next

LEMMA TypeInit == Init => TypeOK
<1> SUFFICES ASSUME Init PROVE TypeOK
  OBVIOUS
<1>1. claims \in [Works -> ClaimRecords]
  BY DEF Init, NoClaim, ClaimRecords
<1>2. PolicyVersion = 0
  BY DEF Init, PolicyVersion
<1> QED BY <1>1, <1>2 DEF Init, TypeOK, NoClaim, Never

\* Every row keeps the shape its reader accepts, and no claim or enforcement
\* decision refers to a policy version that was not recorded.
THEOREM CapacityTypes == Spec => []TypeOK
<1> QED BY TypeInit, TypeStep, PTL DEF Spec

(***************************************************************************)
(* Occupancy                                                               *)
(***************************************************************************)
\* The strengthening: time has not passed the end of a running lifecycle, which lies
\* before the end of its lease, so recovery cannot have taken its claim.
RunsWithinLease ==
  \A w \in Works : running[w] # Never =>
    /\ claims[w].status = "active"
    /\ now <= running[w] /\ running[w] < claims[w].expiresAt

LEMMA RunsWithinLeaseStep ==
  ASSUME \A w \in Works : Runtime[w] < Lease, TypeOK, RunsWithinLease, [Next]_vars
  PROVE  RunsWithinLease'
<1> USE CapacityAssumption DEF RunsWithinLease
<1>t. /\ claims \in [Works -> ClaimRecords]
      /\ running \in [Works -> Nat \cup {Never}]
      /\ now \in Nat
  BY DEF TypeOK
<1>1. ASSUME NEW p \in Policies, RecordPolicy(p) PROVE RunsWithinLease'
  BY <1>1 DEF RecordPolicy
<1>2. ASSUME NEW mode \in {"enabled", "disabled"}, RecordEnforcement(mode) PROVE RunsWithinLease'
  BY <1>2 DEF RecordEnforcement
<1>3. ASSUME NEW k \in BatchKeys, RecoverExpired(k) PROVE RunsWithinLease'
  <2>1. PICK S \in SUBSET Expired :
          claims' = [w \in Works |-> IF w \in S THEN [claims[w] EXCEPT !.status = "ambiguous"]
                                                ELSE claims[w]]
    BY <1>3 DEF RecoverExpired
  <2>2. running' = running /\ now' = now
    BY <1>3 DEF RecoverExpired
  <2>3. \A w \in Works : running[w] # Never => w \notin S
    <3> SUFFICES ASSUME NEW w \in Works, running[w] # Never, w \in S PROVE FALSE
      OBVIOUS
    <3>1. claims[w].expiresAt <= now
      BY <2>1 DEF Expired
    <3>2. claims[w].expiresAt \in Nat /\ running[w] \in Nat
      BY <1>t DEF ClaimRecords
    <3> QED BY <3>1, <3>2, <1>t
  <2> QED BY <2>1, <2>2, <2>3
<1>4. ASSUME NEW w \in Works, Claim(w) PROVE RunsWithinLease'
  <2> SUFFICES ASSUME NEW u \in Works, running'[u] # Never
               PROVE  /\ claims'[u].status = "active"
                      /\ now <= running'[u] /\ running'[u] < claims'[u].expiresAt
    BY <1>4 DEF Claim
  <2>1. CASE u = w
    <3>1. running'[w] = now + Runtime[w]
      BY <1>4, <1>t DEF Claim
    <3>2. claims'[w].status = "active" /\ claims'[w].expiresAt = now + Lease
      BY <1>4, <1>t DEF Claim
    <3>3. Runtime[w] \in Nat /\ Runtime[w] < Lease
      OBVIOUS
    <3> QED BY <2>1, <3>1, <3>2, <3>3, <1>t
  <2>2. CASE u # w
    BY <2>2, <1>4, <1>t DEF Claim
  <2> QED BY <2>1, <2>2
<1>5. ASSUME NEW w \in Works, Settle(w) PROVE RunsWithinLease'
  BY <1>5, <1>t DEF Settle
<1>6. ASSUME NEW w \in Works, Crash(w) PROVE RunsWithinLease'
  BY <1>6, <1>t DEF Crash
<1>7. ASSUME Tick PROVE RunsWithinLease'
  BY <1>7, <1>t DEF Tick, Never
<1>8. ASSUME UNCHANGED vars PROVE RunsWithinLease'
  BY <1>8 DEF vars
<1> QED BY <1>1, <1>2, <1>3, <1>4, <1>5, <1>6, <1>7, <1>8 DEF Next

\* Where every lifecycle ends before its lease does, a lifecycle that is still
\* calling its providers holds its slots: recovery takes only claims of lifecycles
\* that are over.  (MCReviewOutlivesLease shows that the hypothesis is needed, and
\* that the code's reviews do not meet it.)
THEOREM SlotsAreHeld ==
  ASSUME \A w \in Works : Runtime[w] < Lease
  PROVE  Spec => []RunningHoldsItsSlots
<1>1. Init => RunsWithinLease
  BY DEF Init, RunsWithinLease
<1>2. TypeOK /\ RunsWithinLease /\ [Next]_vars => RunsWithinLease'
  BY RunsWithinLeaseStep
<1>3. RunsWithinLease => RunningHoldsItsSlots
  BY DEF RunsWithinLease, RunningHoldsItsSlots
<1> QED BY <1>1, <1>2, <1>3, CapacityTypes, PTL DEF Spec

(***************************************************************************)
(* Recovery                                                                *)
(***************************************************************************)
LEMMA RecoveryAccountedStep ==
  ASSUME TypeOK, RecoveryAccounted, [Next]_vars
  PROVE  RecoveryAccounted'
<1> DEFINE Ambiguous == {w \in Works : claims[w].status = "ambiguous"}
<1>t. claims \in [Works -> ClaimRecords]
  BY DEF TypeOK
<1>r. /\ UNION {batches[k] : k \in DOMAIN batches} = Ambiguous
      /\ \A j, k \in DOMAIN batches : j # k => batches[j] \cap batches[k] = {}
  BY DEF RecoveryAccounted
<1>s. ASSUME batches' = batches, Ambiguous' = Ambiguous PROVE RecoveryAccounted'
  BY <1>s, <1>r DEF RecoveryAccounted
<1>1. ASSUME NEW k \in BatchKeys, RecoverExpired(k) PROVE RecoveryAccounted'
  <2>1. PICK S \in SUBSET Expired :
          /\ claims' = [w \in Works |-> IF w \in S THEN [claims[w] EXCEPT !.status = "ambiguous"]
                                                   ELSE claims[w]]
          /\ batches' = [b \in DOMAIN batches \cup {k} |-> IF b = k THEN S ELSE batches[b]]
    BY <1>1 DEF RecoverExpired
  <2>2. k \notin DOMAIN batches
    BY <1>1 DEF RecoverExpired
  <2>3. S \subseteq Works /\ S \cap Ambiguous = {}
    BY <2>1 DEF Expired, Active
  <2>4. Ambiguous' = Ambiguous \cup S
    <3>1. \A w \in Works : w \in S => claims'[w].status = "ambiguous"
      BY <2>1, <1>t DEF ClaimRecords
    <3>2. \A w \in Works : w \notin S => claims'[w] = claims[w]
      BY <2>1
    <3> QED BY <3>1, <3>2, <2>3
  <2>5. \A j \in DOMAIN batches : batches[j] \subseteq Ambiguous
    BY <1>r
  <2>6. /\ DOMAIN batches' = DOMAIN batches \cup {k}
        /\ batches'[k] = S
        /\ \A j \in DOMAIN batches : batches'[j] = batches[j]
    BY <2>1, <2>2
  <2>7. UNION {batches'[j] : j \in DOMAIN batches'} = Ambiguous \cup S
    BY <2>6, <1>r
  <2>8. \A i, j \in DOMAIN batches' : i # j => batches'[i] \cap batches'[j] = {}
    BY <2>6, <2>5, <2>3, <1>r
  <2> QED BY <2>4, <2>7, <2>8 DEF RecoveryAccounted
<1>2. ASSUME NEW w \in Works, Claim(w) PROVE RecoveryAccounted'
  <2>1. Ambiguous' = Ambiguous
    BY <1>2, <1>t DEF Claim
  <2> QED BY <1>2, <2>1, <1>s DEF Claim
<1>3. ASSUME NEW w \in Works, Settle(w) PROVE RecoveryAccounted'
  <2>1. \A u \in Works : claims'[u].status = "ambiguous" <=> claims[u].status = "ambiguous"
    BY <1>3, <1>t DEF Settle, ClaimRecords
  <2>2. Ambiguous' = Ambiguous
    BY <2>1
  <2> QED BY <1>3, <2>2, <1>s DEF Settle
<1>4. CASE UNCHANGED <<claims, batches>>
  BY <1>4, <1>s
<1> QED BY <1>1, <1>2, <1>3, <1>4
        DEF Next, vars, RecordPolicy, RecordEnforcement, Crash, Tick

\* Each ambiguous claim was taken by exactly one recovery batch, for any number of
\* batches, retries and settlements.
THEOREM RecoveryIsAccounted == Spec => []RecoveryAccounted
<1>1. Init => RecoveryAccounted
  BY DEF Init, RecoveryAccounted, NoClaim
<1>2. TypeOK /\ RecoveryAccounted /\ [Next]_vars => RecoveryAccounted'
  BY RecoveryAccountedStep
<1> QED BY <1>1, <1>2, CapacityTypes, PTL DEF Spec

(***************************************************************************)
(* Refinement                                                              *)
(***************************************************************************)
LEMMA ClaimLifecycleStep ==
  ASSUME TypeOK, [Next]_vars
  PROVE  [Claims!Next]_([w \in Works |-> claims[w].status])
<1> DEFINE status == [w \in Works |-> claims[w].status]
<1>t. claims \in [Works -> ClaimRecords]
  BY DEF TypeOK
<1>1. ASSUME NEW k \in BatchKeys, RecoverExpired(k) PROVE Claims!Next
  <2>1. PICK S \in SUBSET Expired :
          claims' = [w \in Works |-> IF w \in S THEN [claims[w] EXCEPT !.status = "ambiguous"]
                                                ELSE claims[w]]
    BY <1>1 DEF RecoverExpired
  <2>2. S \in SUBSET {w \in Works : status[w] = "active"}
    BY <2>1 DEF Expired, Active
  <2>3. ASSUME NEW w \in Works
        PROVE  claims'[w].status = IF w \in S THEN "ambiguous" ELSE claims[w].status
    BY <2>1, <1>t DEF ClaimRecords
  <2>4. status' = [w \in Works |-> IF w \in S THEN "ambiguous" ELSE status[w]]
    BY <2>3
  <2> QED BY <2>2, <2>4 DEF Claims!Next, Claims!Recover
<1>2. ASSUME NEW w \in Works, Claim(w) PROVE Claims!Next
  <2>1. status[w] = "none" /\ status' = [status EXCEPT ![w] = "active"]
    BY <1>2, <1>t DEF Claim
  <2> QED BY <2>1 DEF Claims!Next, Claims!Open
<1>3. ASSUME NEW w \in Works, Settle(w) PROVE Claims!Next \/ status' = status
  <2>1. CASE claims[w].status = "active"
    <3>1. claims' = [claims EXCEPT ![w].status = "released"]
      BY <1>3, <2>1 DEF Settle
    <3>2. ASSUME NEW u \in Works
          PROVE  claims'[u].status = IF u = w THEN "released" ELSE claims[u].status
      BY <3>1, <1>t DEF ClaimRecords
    <3>3. status[w] = "active" /\ status' = [status EXCEPT ![w] = "released"]
      BY <2>1, <3>2
    <3> QED BY <3>3 DEF Claims!Next, Claims!Release
  <2>2. CASE claims[w].status # "active"
    BY <1>3, <2>2 DEF Settle
  <2> QED BY <2>1, <2>2
<1>4. CASE UNCHANGED claims
  BY <1>4
<1> QED BY <1>1, <1>2, <1>3, <1>4
        DEF Next, vars, RecordPolicy, RecordEnforcement, Crash, Tick

\* The organization's ledger implements the abstract life of a claim: claimed once,
\* ended once, immutable after that.
THEOREM ClaimsImplemented == Spec => ClaimLifecycle
<1>1. Init => Claims!Init
  BY DEF Init, NoClaim, Claims!Init
<1>2. TypeOK /\ [Next]_vars => [Claims!Next]_([w \in Works |-> claims[w].status])
  BY ClaimLifecycleStep
<1> QED BY <1>1, <1>2, CapacityTypes, PTL DEF Spec, ClaimLifecycle, Claims!Spec

(***************************************************************************)
(* Sums of demands                                                         *)
(*                                                                         *)
(* The slots a set of works asks a provider for, one by one: the model's   *)
(* fold over the works adds up to their number, and what is known of the   *)
(* cardinality of sets then holds of the sums.                             *)
(***************************************************************************)
Occupied(p, S) == {c \in S \X Nat : c[2] \in 1..Demand[c[1]][p]}

SlotsOf(p, S) == MapThenSumSet(LAMBDA w : Demand[w][p], S)

LEMMA DemandIsNatural ==
  ASSUME NEW p \in Providers, NEW w \in Works
  PROVE  Demand[w][p] \in Nat
BY CapacityAssumption

LEMMA SlotsOfOne ==
  ASSUME NEW p \in Providers, NEW w \in Works
  PROVE  /\ IsFiniteSet(Occupied(p, {w}))
         /\ Cardinality(Occupied(p, {w})) = Demand[w][p]
<1> DEFINE d == Demand[w][p]
           f == [i \in 1..d |-> <<w, i>>]
<1>1. d \in Nat
  BY DemandIsNatural
<1>2. Occupied(p, {w}) = {<<w, i>> : i \in 1..d}
  BY <1>1 DEF Occupied
<1>3. f \in Bijection(1..d, Occupied(p, {w}))
  <2>1. f \in [1..d -> Occupied(p, {w})]
    BY <1>2
  <2>2. \A i, j \in 1..d : f[i] = f[j] => i = j
    OBVIOUS
  <2>3. \A c \in Occupied(p, {w}) : \E i \in 1..d : f[i] = c
    BY <1>2
  <2> HIDE DEF f
  <2> QED BY <2>1, <2>2, <2>3 DEF Bijection, Injection, Surjection, IsInjective
<1>4. ExistsBijection(1..d, Occupied(p, {w}))
  BY <1>3 DEF ExistsBijection
<1>5. IsFiniteSet(1..d) /\ Cardinality(1..d) = d
  <2> HIDE DEF d
  <2>1. IsFiniteSet(1..d) /\ Cardinality(1..d) = IF 1 > d THEN 0 ELSE d - 1 + 1
    BY <1>1, FS_Interval
  <2> QED BY <1>1, <2>1
<1> QED BY <1>4, <1>5, FS_Bijection

LEMMA OccupiedIsFinite ==
  ASSUME NEW p \in Providers, NEW S \in SUBSET Works
  PROVE  IsFiniteSet(Occupied(p, S)) /\ Cardinality(Occupied(p, S)) \in Nat
<1> DEFINE Each == {Occupied(p, {w}) : w \in Works}
           f == [w \in Works |-> Occupied(p, {w})]
<1>1. f \in Surjection(Works, Each)
  <2>1. f \in [Works -> Each]
    OBVIOUS
  <2>2. ASSUME NEW T \in Each PROVE \E w \in Works : f[w] = T
    OBVIOUS
  <2> HIDE DEF f, Each
  <2> QED BY <2>1, <2>2 DEF Surjection
<1>2. IsFiniteSet(Each)
  BY <1>1, CapacityAssumption, FS_Surjection
<1>3. \A T \in Each : IsFiniteSet(T)
  BY SlotsOfOne
<1>4. IsFiniteSet(UNION Each)
  BY <1>2, <1>3, FS_UNION
<1>5. Occupied(p, S) \subseteq UNION Each
  BY DEF Occupied
<1> QED BY <1>4, <1>5, FS_Subset, FS_CardinalityType

LEMMA OneMoreOccupies ==
  ASSUME NEW p \in Providers, NEW S \in SUBSET Works, NEW w \in Works \ S
  PROVE  Cardinality(Occupied(p, S \cup {w})) = Cardinality(Occupied(p, S)) + Demand[w][p]
<1>1. Occupied(p, S \cup {w}) = Occupied(p, S) \cup Occupied(p, {w})
  BY DEF Occupied
<1>2. Occupied(p, S) \cap Occupied(p, {w}) = {}
  BY DEF Occupied
<1>3. Cardinality(Occupied(p, S) \cap Occupied(p, {w})) = 0
  BY <1>2, FS_EmptySet
<1>4. /\ IsFiniteSet(Occupied(p, S)) /\ Cardinality(Occupied(p, S)) \in Nat
      /\ IsFiniteSet(Occupied(p, {w})) /\ Cardinality(Occupied(p, {w})) = Demand[w][p]
      /\ Demand[w][p] \in Nat
  BY SlotsOfOne, OccupiedIsFinite, DemandIsNatural
<1>5. Cardinality(Occupied(p, S) \cup Occupied(p, {w}))
        = Cardinality(Occupied(p, S)) + Cardinality(Occupied(p, {w})) - Cardinality(Occupied(p, S) \cap Occupied(p, {w}))
  BY <1>4, FS_Union
<1> DEFINE a == Cardinality(Occupied(p, S))
           b == Demand[w][p]
<1>6. Cardinality(Occupied(p, S) \cup Occupied(p, {w})) = a + b - 0 /\ a \in Nat /\ b \in Nat
  BY <1>3, <1>4, <1>5
<1> HIDE DEF Occupied, a, b
<1>7. Cardinality(Occupied(p, S \cup {w})) = a + b
  <2>1. Cardinality(Occupied(p, S \cup {w})) = Cardinality(Occupied(p, S) \cup Occupied(p, {w}))
    BY <1>1, Zenon
  <2> QED BY <1>6, <2>1
<1> QED BY <1>7 DEF a, b

\* Every nonempty family of subsets of a finite set has a least member.
LEMMA SubsetsHaveLeast ==
  ASSUME NEW D, IsFiniteSet(D), NEW B, B \subseteq SUBSET D, B # {}
  PROVE  \E L \in B : \A K \in B : ~(K \subseteq L /\ K # L)
<1>1. IsWellFoundedOn(StrictSubsetOrdering(D), SUBSET D)
  BY FS_StrictSubsetOrderingWellFounded, FS_FiniteSubsetsOfFinite
<1>2. PICK L \in B : \A K \in B : ~(<<K, L>> \in StrictSubsetOrdering(D))
  BY <1>1, WFMin
<1>3. \A K \in B : <<K, L>> \in (SUBSET D) \X (SUBSET D)
  OBVIOUS
<1> QED BY <1>2, <1>3 DEF StrictSubsetOrdering

\* What the fold of MapThenSumSet means: a function that takes one work at a time.
First(S) == CHOOSE w \in S : TRUE
Adds(f, p, S) ==
  f = [s \in SUBSET S |-> IF s = {} THEN 0 ELSE Demand[First(s)][p] + f[s \ {First(s)}]]

LEMMA SlotsAreAdded ==
  ASSUME NEW p, NEW S
  PROVE  SlotsOf(p, S) = (CHOOSE f : Adds(f, p, S))[S]
BY DEF SlotsOf, MapThenSumSet, MapThenFoldSet, Adds, First

LEMMA OccupiedAdds ==
  ASSUME NEW p \in Providers, NEW S \in SUBSET Works
  PROVE  Adds([s \in SUBSET S |-> Cardinality(Occupied(p, s))], p, S)
<1> DEFINE f == [s \in SUBSET S |-> Cardinality(Occupied(p, s))]
<1>1. Occupied(p, {}) = {}
  BY DEF Occupied
<1>2. f[{}] = 0
  BY <1>1, FS_EmptySet
<1>3. ASSUME NEW s \in SUBSET S, s # {}
      PROVE  f[s] = Demand[First(s)][p] + f[s \ {First(s)}]
  <2>1. First(s) \in s
    BY <1>3 DEF First
  <2> HIDE DEF First
  <2>2. (s \ {First(s)}) \cup {First(s)} = s
    BY <2>1
  <2> DEFINE w == First(s)
             r == s \ {w}
  <2>3. r \in SUBSET Works /\ w \in Works \ r /\ r \in SUBSET S
    BY <2>1
  <2>4. Cardinality(Occupied(p, r \cup {w})) = Cardinality(Occupied(p, r)) + Demand[w][p]
    BY <2>3, OneMoreOccupies
  <2>5. Cardinality(Occupied(p, r)) \in Nat /\ Demand[w][p] \in Nat
    BY <2>3, OccupiedIsFinite, DemandIsNatural
  <2>6. f[s] = Cardinality(Occupied(p, r \cup {w})) /\ f[r] = Cardinality(Occupied(p, r))
    BY <2>2, <2>3
  <2> HIDE DEF f, w, r
  <2>7. f[s] = Demand[w][p] + f[r]
    BY <2>4, <2>5, <2>6
  <2> QED BY <2>7 DEF w, r
<1> HIDE DEF First
<1> QED BY <1>2, <1>3 DEF Adds

LEMMA AddsOnce ==
  ASSUME NEW p \in Providers, NEW S \in SUBSET Works, NEW f, NEW g, Adds(f, p, S), Adds(g, p, S)
  PROVE  f[S] = g[S]
<1> DEFINE B == {s \in SUBSET S : f[s] # g[s]}
<1>1. SUFFICES ASSUME B # {} PROVE FALSE
  OBVIOUS
<1>2. B \subseteq SUBSET S /\ IsFiniteSet(S)
  BY CapacityAssumption, FS_Subset
<1> HIDE DEF B
<1>3. PICK s \in B : \A r \in B : ~(r \subseteq s /\ r # s)
  BY <1>1, <1>2, SubsetsHaveLeast
<1> USE DEF B
<1>4. s \in SUBSET S /\ f[s] # g[s]
  BY <1>3
<1>5. \A h : Adds(h, p, S) => h[s] = IF s = {} THEN 0 ELSE Demand[First(s)][p] + h[s \ {First(s)}]
  BY <1>4 DEF Adds
<1>6. s # {}
  BY <1>4, <1>5
<1>7. First(s) \in s
  BY <1>6 DEF First
<1>8. f[s \ {First(s)}] = g[s \ {First(s)}]
  BY <1>3, <1>4, <1>7
<1> QED BY <1>4, <1>5, <1>6, <1>8

\* The fold over a set of works is the number of the slots they occupy.
LEMMA SlotsAreOccupied ==
  ASSUME NEW p \in Providers, NEW S \in SUBSET Works
  PROVE  SlotsOf(p, S) = Cardinality(Occupied(p, S))
<1> DEFINE g == [s \in SUBSET S |-> Cardinality(Occupied(p, s))]
           f == CHOOSE f : Adds(f, p, S)
<1>1. Adds(g, p, S)
  BY OccupiedAdds
<1>2. Adds(f, p, S)
  BY <1>1
<1>3. g[S] = Cardinality(Occupied(p, S))
  OBVIOUS
<1> HIDE DEF g
<1>4. f[S] = g[S]
  BY <1>1, <1>2, AddsOnce
<1> QED BY <1>3, <1>4, SlotsAreAdded

\* So works that leave free their slots, and one more takes what it asks for.
LEMMA FewerSlots ==
  ASSUME NEW p \in Providers, NEW S \in SUBSET Works, NEW T \in SUBSET S
  PROVE  SlotsOf(p, T) <= SlotsOf(p, S) /\ SlotsOf(p, S) \in Nat /\ SlotsOf(p, T) \in Nat
<1>1. Occupied(p, T) \subseteq Occupied(p, S)
  BY DEF Occupied
<1> QED BY <1>1, SlotsAreOccupied, OccupiedIsFinite, FS_Subset

LEMMA OneMoreSlots ==
  ASSUME NEW p \in Providers, NEW S \in SUBSET Works, NEW w \in Works \ S
  PROVE  SlotsOf(p, S \cup {w}) = SlotsOf(p, S) + Demand[w][p]
BY OneMoreOccupies, SlotsAreOccupied

LEMMA NoSlots ==
  ASSUME NEW p \in Providers
  PROVE  SlotsOf(p, {}) = 0
<1>1. Occupied(p, {}) = {}
  BY DEF Occupied
<1> QED BY <1>1, SlotsAreOccupied, FS_EmptySet

(***************************************************************************)
(* Policy                                                                  *)
(***************************************************************************)
LEMMA ActiveIsFinite ==
  ASSUME NEW S \in SUBSET Works
  PROVE  IsFiniteSet(S) /\ Cardinality(S) \in Nat
<1>1. IsFiniteSet(S)
  BY CapacityAssumption, FS_Subset
<1> QED BY <1>1, FS_CardinalityType

LEMMA FittingAreWorks ==
  ASSUME NEW v
  PROVE  FittingUnder(v) \in SUBSET Works /\ Active \in SUBSET Works
BY DEF FittingUnder, Active

\* What a step does to the claims that fit version v: only a claim that was found to
\* fit the current policy joins them.
Joins(w, v) ==
  /\ v = PolicyVersion /\ ~WouldExceed(w)
  /\ FittingUnder(v)' \subseteq Active \cup {w}

FittingNext(v) ==
  \/ v \in 1..PolicyVersion /\ policies'[v] = policies[v] /\ FittingUnder(v)' \subseteq FittingUnder(v)
  \/ policies'[v] \in Policies /\ FittingUnder(v)' = {}
  \/ policies' = policies /\ \E w \in Works \ Active : Joins(w, v)

LEMMA NothingOpened ==
  ASSUME TypeOK, policies' = policies, NEW v \in 1..PolicyVersion',
         \A w \in Works : claims'[w].status = "active" => claims'[w] = claims[w]
  PROVE  FittingNext(v)
<1>1. FittingUnder(v)' \subseteq FittingUnder(v)
  BY DEF FittingUnder, Active
<1>2. v \in 1..PolicyVersion
  BY DEF PolicyVersion
<1> QED BY <1>1, <1>2 DEF FittingNext

LEMMA FittingStep ==
  ASSUME TypeOK, [Next]_vars, NEW v \in 1..PolicyVersion'
  PROVE  FittingNext(v)
<1>t. /\ policies \in Seq(Policies) /\ PolicyVersion \in Nat
      /\ claims \in [Works -> ClaimRecords]
      /\ \A w \in Works : claims[w].policyVersion <= PolicyVersion
  BY DEF TypeOK, PolicyVersion
<1>1. ASSUME NEW p \in Policies, RecordPolicy(p) PROVE FittingNext(v)
  <2>1. /\ policies' = Append(policies, p) /\ claims' = claims
        /\ PolicyVersion' = PolicyVersion + 1
        /\ \A i \in 1..PolicyVersion : policies'[i] = policies[i]
        /\ policies'[PolicyVersion + 1] = p
    BY <1>1, <1>t, LongerStream DEF RecordPolicy, PolicyVersion
  <2>2. FittingUnder(v)' = FittingUnder(v)
    BY <2>1 DEF FittingUnder, Active
  <2>3. CASE v \in 1..PolicyVersion
    BY <2>1, <2>2, <2>3 DEF FittingNext
  <2>4. CASE v = PolicyVersion + 1
    <3>1. \A w \in Works : claims[w].policyVersion \in Nat
      BY <1>t DEF ClaimRecords
    <3>2. FittingUnder(v) = {}
      BY <2>4, <3>1, <1>t DEF FittingUnder, Active
    <3> QED BY <2>1, <2>2, <2>4, <3>2 DEF FittingNext
  <2>5. v \in 1..PolicyVersion \/ v = PolicyVersion + 1
    <3>1. v \in 1..(PolicyVersion + 1)
      BY <2>1
    <3> QED BY <3>1, <1>t
  <2> QED BY <2>3, <2>4, <2>5
<1>2. ASSUME NEW w \in Works, Claim(w) PROVE FittingNext(v)
  <2>1. /\ policies' = policies /\ PolicyVersion' = PolicyVersion
        /\ claims[w].status = "none"
        /\ claims'[w].policyVersion = PolicyVersion
        /\ claims'[w].wouldExceed = WouldExceed(w)
        /\ \A u \in Works \ {w} : claims'[u] = claims[u]
    BY <1>2, <1>t DEF Claim, PolicyVersion
  <2>2. w \in Works \ Active /\ v \in 1..PolicyVersion
    BY <2>1 DEF Active
  <2>3. CASE v = PolicyVersion /\ ~WouldExceed(w)
    <3>1. FittingUnder(v)' \subseteq Active \cup {w}
      BY <2>1 DEF FittingUnder, Active
    <3> QED BY <2>1, <2>2, <2>3, <3>1 DEF FittingNext, Joins
  <2>4. CASE ~(v = PolicyVersion /\ ~WouldExceed(w))
    <3>1. FittingUnder(v)' \subseteq FittingUnder(v)
      BY <2>1, <2>4 DEF FittingUnder, Active
    <3> QED BY <2>1, <2>2, <3>1 DEF FittingNext
  <2> QED BY <2>3, <2>4
<1>3. ASSUME NEW k \in BatchKeys, RecoverExpired(k) PROVE FittingNext(v)
  <2>1. PICK S \in SUBSET Expired :
          claims' = [w \in Works |-> IF w \in S THEN [claims[w] EXCEPT !.status = "ambiguous"]
                                                ELSE claims[w]]
    BY <1>3 DEF RecoverExpired
  <2>2. \A w \in Works : claims'[w].status = "active" => claims'[w] = claims[w]
    BY <2>1, <1>t DEF ClaimRecords
  <2> QED BY <1>3, <2>2, NothingOpened DEF RecoverExpired
<1>4. ASSUME NEW w \in Works, Settle(w) PROVE FittingNext(v)
  <2>1. \A u \in Works : claims'[u].status = "active" => claims'[u] = claims[u]
    BY <1>4, <1>t DEF Settle, ClaimRecords
  <2> QED BY <1>4, <2>1, NothingOpened DEF Settle
<1>5. CASE UNCHANGED <<policies, claims>>
  BY <1>5, NothingOpened
<1> QED BY <1>1, <1>2, <1>3, <1>4, <1>5 DEF Next, vars, RecordEnforcement, Crash, Tick

LEMMA WorkflowsStep ==
  ASSUME TypeOK, WorkflowsWithinPolicy, [Next]_vars
  PROVE  WorkflowsWithinPolicy'
<1> SUFFICES ASSUME NEW v \in 1..PolicyVersion'
             PROVE  Cardinality(FittingUnder(v)') <= policies'[v].workflows
  BY DEF WorkflowsWithinPolicy
<1> DEFINE n == Cardinality(FittingUnder(v)')
<1>t. policies \in Seq(Policies) /\ PolicyVersion \in Nat
  BY DEF TypeOK, PolicyVersion
<1>p. \A p \in Policies : p.workflows \in Nat
  BY CapacityAssumption
<1>1. CASE v \in 1..PolicyVersion /\ policies'[v] = policies[v] /\ FittingUnder(v)' \subseteq FittingUnder(v)
  <2>1. n <= Cardinality(FittingUnder(v)) /\ n \in Nat /\ Cardinality(FittingUnder(v)) \in Nat
    BY <1>1, FittingAreWorks, ActiveIsFinite, FS_Subset, FS_CardinalityType
  <2>2. Cardinality(FittingUnder(v)) <= policies[v].workflows
    BY <1>1 DEF WorkflowsWithinPolicy
  <2>3. policies[v].workflows \in Nat
    BY <1>1, <1>t, <1>p DEF PolicyVersion
  <2> QED BY <1>1, <2>1, <2>2, <2>3
<1>2. CASE policies'[v] \in Policies /\ FittingUnder(v)' = {}
  <2>1. n = 0
    BY <1>2, FS_EmptySet
  <2> QED BY <1>2, <1>p, <2>1
<1>3. ASSUME policies' = policies, NEW w \in Works \ Active, Joins(w, v)
      PROVE  n <= policies'[v].workflows
  <2>1. Cardinality(Active \cup {w}) = Cardinality(Active) + 1 /\ IsFiniteSet(Active \cup {w})
    BY FittingAreWorks, ActiveIsFinite, FS_AddElement
  <2>2. n <= Cardinality(Active) + 1 /\ n \in Nat /\ Cardinality(Active) \in Nat
    BY <1>3, <2>1, FittingAreWorks, ActiveIsFinite, FS_Subset, FS_CardinalityType DEF Joins
  <2>3. v \in 1..PolicyVersion
    BY <1>3 DEF PolicyVersion
  <2>4. ~(Cardinality(Active) + 1 > policies[v].workflows)
    BY <1>3, <1>t, <2>3 DEF Joins, WouldExceed, Policy
  <2>5. policies[v].workflows \in Nat
    BY <1>t, <1>p, <2>3 DEF PolicyVersion
  <2> QED BY <1>3, <2>2, <2>4, <2>5
<1> QED BY <1>1, <1>2, <1>3, FittingStep DEF FittingNext

\* The claims found to fit a policy version never exceed its workflow ceiling
\* together, whatever an operator records, recovers or rebinds in between.
THEOREM WorkflowsFit == Spec => []WorkflowsWithinPolicy
<1>1. Init => WorkflowsWithinPolicy
  BY DEF Init, WorkflowsWithinPolicy, PolicyVersion
<1>2. TypeOK /\ WorkflowsWithinPolicy /\ [Next]_vars => WorkflowsWithinPolicy'
  BY WorkflowsStep
<1> QED BY <1>1, <1>2, CapacityTypes, PTL DEF Spec

CallsFitting ==
  \A v \in 1..PolicyVersion, p \in Providers : SlotsOf(p, FittingUnder(v)) <= policies[v].calls[p]

LEMMA CallsStep ==
  ASSUME TypeOK, CallsFitting, [Next]_vars
  PROVE  CallsFitting'
<1> SUFFICES ASSUME NEW v \in 1..PolicyVersion', NEW p \in Providers
             PROVE  SlotsOf(p, FittingUnder(v)') <= policies'[v].calls[p]
  BY DEF CallsFitting
<1> DEFINE n == SlotsOf(p, FittingUnder(v)')
<1>t. policies \in Seq(Policies) /\ PolicyVersion \in Nat
  BY DEF TypeOK, PolicyVersion
<1>p. \A pol \in Policies : pol.calls[p] \in Nat
  BY CapacityAssumption
<1>1. CASE v \in 1..PolicyVersion /\ policies'[v] = policies[v] /\ FittingUnder(v)' \subseteq FittingUnder(v)
  <2>1. n <= SlotsOf(p, FittingUnder(v)) /\ n \in Nat /\ SlotsOf(p, FittingUnder(v)) \in Nat
    BY <1>1, FittingAreWorks, FewerSlots
  <2>2. SlotsOf(p, FittingUnder(v)) <= policies[v].calls[p]
    BY <1>1 DEF CallsFitting
  <2>3. policies[v].calls[p] \in Nat
    BY <1>1, <1>t, <1>p DEF PolicyVersion
  <2> QED BY <1>1, <2>1, <2>2, <2>3
<1>2. CASE policies'[v] \in Policies /\ FittingUnder(v)' = {}
  <2>1. n = 0
    BY <1>2, NoSlots
  <2> QED BY <1>2, <1>p, <2>1
<1>3. ASSUME policies' = policies, NEW w \in Works \ Active, Joins(w, v)
      PROVE  n <= policies'[v].calls[p]
  <2>1. SlotsOf(p, Active \cup {w}) = SlotsOf(p, Active) + Demand[w][p]
    BY FittingAreWorks, OneMoreSlots
  <2>2. /\ n <= SlotsOf(p, Active \cup {w})
        /\ n \in Nat /\ SlotsOf(p, Active) \in Nat /\ Demand[w][p] \in Nat
    BY <1>3, FittingAreWorks, FewerSlots, DemandIsNatural DEF Joins
  <2>3. v \in 1..PolicyVersion
    BY <1>3 DEF PolicyVersion
  <2>4. ~(SlotsOf(p, Active) + Demand[w][p] > policies[v].calls[p])
    <3>1. ~(Slots(p) + Demand[w][p] > policies[v].calls[p])
      BY <1>3, <1>t, <2>3 DEF Joins, WouldExceed, Policy
    <3> QED BY <3>1 DEF Slots, SlotsOf
  <2>5. policies[v].calls[p] \in Nat
    BY <1>t, <1>p, <2>3 DEF PolicyVersion
  <2> HIDE DEF n
  <2> QED BY <1>3, <2>1, <2>2, <2>4, <2>5
<1> QED BY <1>1, <1>2, <1>3, FittingStep DEF FittingNext

\* The claims found to fit a policy version never exceed its ceiling for a provider
\* together: the sum of what they ask for, over any number of claims, is bounded.
THEOREM CallsFit == Spec => []CallsWithinPolicy
<1>1. Init => CallsFitting
  BY DEF Init, CallsFitting, PolicyVersion
<1>2. TypeOK /\ CallsFitting /\ [Next]_vars => CallsFitting'
  BY CallsStep
<1>3. CallsFitting => CallsWithinPolicy
  BY DEF CallsFitting, CallsWithinPolicy, SlotsOf
<1> QED BY <1>1, <1>2, <1>3, CapacityTypes, PTL DEF Spec

(***************************************************************************)
(* Drift                                                                   *)
(***************************************************************************)
\* The mode depends on the last decision and on the number of policies.
LastDecision == enforcement[Len(enforcement)]

LEMMA LastOf ==
  ASSUME NEW S, NEW s \in Seq(S), s # <<>>
  PROVE  s[Len(s)] \in S
  OBVIOUS

LEMMA DriftStep ==
  ASSUME TypeOK, [Next]_vars
  PROVE  /\ Mode = "enabled" /\ policies' # policies => Mode' = "blocked_policy_drift"
         /\ Mode = "blocked_policy_drift" =>
              Active' \subseteq Active /\ (Mode' # Mode => enforcement' # enforcement)
<1>t. /\ policies \in Seq(Policies) /\ PolicyVersion \in Nat
      /\ claims \in [Works -> ClaimRecords]
      /\ enforcement # <<>> =>
           /\ LastDecision.mode \in {"enabled", "disabled"}
           /\ LastDecision.policyVersion \in 1..PolicyVersion
  <2>1. enforcement \in Seq(Decisions(PolicyVersion))
    BY DEF TypeOK, Decisions
  <2>2. enforcement # <<>> => LastDecision \in Decisions(PolicyVersion)
    BY <2>1, LastOf DEF LastDecision
  <2>3. policies \in Seq(Policies) /\ PolicyVersion \in Nat /\ claims \in [Works -> ClaimRecords]
    BY DEF TypeOK, PolicyVersion
  <2> QED BY <2>2, <2>3 DEF Decisions
<1>m. Mode = IF enforcement = <<>> THEN "disabled"
             ELSE IF LastDecision.mode = "disabled" THEN "disabled"
             ELSE IF LastDecision.policyVersion = PolicyVersion THEN "enabled"
             ELSE "blocked_policy_drift"
  BY <1>t DEF Mode, LastDecision
<1>1. ASSUME NEW p \in Policies, RecordPolicy(p)
      PROVE  /\ Mode = "enabled" => Mode' = "blocked_policy_drift"
             /\ Mode = "blocked_policy_drift" => Active' \subseteq Active /\ Mode' = Mode
  <2>1. /\ PolicyVersion' = PolicyVersion + 1
        /\ enforcement' = enforcement /\ claims' = claims
    BY <1>1, <1>t, LongerStream DEF RecordPolicy, PolicyVersion
  <2>2. LastDecision' = LastDecision
    BY <2>1 DEF LastDecision
  <2>3. Mode' = IF enforcement = <<>> THEN "disabled"
                ELSE IF LastDecision.mode = "disabled" THEN "disabled"
                ELSE IF LastDecision.policyVersion = PolicyVersion + 1 THEN "enabled"
                ELSE "blocked_policy_drift"
    BY <2>1, <2>2, <1>t DEF Mode, LastDecision
  <2>4. Active' = Active
    BY <2>1 DEF Active
  <2> QED BY <1>t, <1>m, <2>3, <2>4
<1>2. ASSUME NEW mode \in {"enabled", "disabled"}, RecordEnforcement(mode)
      PROVE  policies' = policies /\ Active' = Active /\ enforcement' # enforcement
  <2>1. enforcement \in Seq([mode : {"enabled", "disabled"}, policyVersion : 1..PolicyVersion])
    BY DEF TypeOK
  <2>2. Len(enforcement') = Len(enforcement) + 1 /\ Len(enforcement) \in Nat
    BY <1>2, <2>1 DEF RecordEnforcement
  <2> QED BY <1>2, <2>2 DEF RecordEnforcement, Active
<1>3. ASSUME NEW k \in BatchKeys, RecoverExpired(k)
      PROVE  policies' = policies /\ enforcement' = enforcement /\ Active' \subseteq Active
  <2>1. PICK S \in SUBSET Expired :
          claims' = [w \in Works |-> IF w \in S THEN [claims[w] EXCEPT !.status = "ambiguous"]
                                                ELSE claims[w]]
    BY <1>3 DEF RecoverExpired
  <2>2. \A w \in Works : claims'[w].status = "active" => claims[w].status = "active"
    BY <2>1, <1>t DEF ClaimRecords
  <2> QED BY <1>3, <2>2 DEF RecoverExpired, Active
<1>4. ASSUME NEW w \in Works, Claim(w)
      PROVE  policies' = policies /\ Mode # "blocked_policy_drift"
  BY <1>4 DEF Claim
<1>5. ASSUME NEW w \in Works, Settle(w)
      PROVE  policies' = policies /\ enforcement' = enforcement /\ Active' \subseteq Active
  <2>1. \A u \in Works : claims'[u].status = "active" => claims[u].status = "active"
    BY <1>5, <1>t DEF Settle, ClaimRecords
  <2> QED BY <1>5, <2>1 DEF Settle, Active
<1>6. ASSUME UNCHANGED <<policies, enforcement, claims>>
      PROVE  policies' = policies /\ enforcement' = enforcement /\ Active' \subseteq Active
  BY <1>6 DEF Active
<1>7. policies' = policies /\ enforcement' = enforcement => Mode' = Mode
  BY DEF Mode, PolicyVersion
<1>8. CASE \E p \in Policies : RecordPolicy(p)
  BY <1>8, <1>1
<1>9. CASE policies' = policies
  <2>1. CASE \E w \in Works : Claim(w)
    BY <2>1, <1>4, <1>9
  <2>2. CASE ~\E w \in Works : Claim(w)
    <3>1. Active' \subseteq Active \/ policies' # policies
      BY <2>2, <1>2, <1>3, <1>5, <1>6, <1>8 DEF Next, vars, RecordPolicy, Crash, Tick
    <3> QED BY <3>1, <1>7, <1>9
  <2> QED BY <2>1, <2>2
<1>10. CASE policies' # policies
  BY <1>10, <1>8 DEF Next, vars, RecordEnforcement, RecoverExpired, Claim, Settle, Crash, Tick
<1> QED BY <1>9, <1>10

\* Changing the policy under enabled enforcement blocks every new claim, and only
\* another enforcement decision ends the block.
THEOREM DriftIsClosed == Spec => DriftFailsClosed
<1> QED BY CapacityTypes, DriftStep, PTL DEF Spec, DriftFailsClosed

(***************************************************************************)
(* Enforced occupancy                                                      *)
(***************************************************************************)
\* While nothing is recorded, a step lets claims end or admits one that fits.
AdmitsOne(w) == ~WouldExceed(w) /\ Active' = Active \cup {w}

LEMMA EnforcedStep ==
  ASSUME TypeOK, [Next]_vars, Mode = "enabled", policies' = policies, enforcement' = enforcement
  PROVE  Active' \subseteq Active \/ \E w \in Works \ Active : AdmitsOne(w)
<1>t. claims \in [Works -> ClaimRecords] /\ policies \in Seq(Policies)
  BY DEF TypeOK
<1>1. ASSUME NEW w \in Works, Claim(w) PROVE w \in Works \ Active /\ AdmitsOne(w)
  <2>1. claims[w].status = "none" /\ ~WouldExceed(w)
    BY <1>1 DEF Claim
  <2>2. \A u \in Works : claims'[u].status = IF u = w THEN "active" ELSE claims[u].status
    BY <1>1, <1>t DEF Claim
  <2>3. Active' = Active \cup {w}
    BY <2>2 DEF Active
  <2> QED BY <2>1, <2>3 DEF Active, AdmitsOne
<1>2. ASSUME NEW k \in BatchKeys, RecoverExpired(k) PROVE Active' \subseteq Active
  <2>1. PICK S \in SUBSET Expired :
          claims' = [w \in Works |-> IF w \in S THEN [claims[w] EXCEPT !.status = "ambiguous"]
                                                ELSE claims[w]]
    BY <1>2 DEF RecoverExpired
  <2>2. \A w \in Works : claims'[w].status = "active" => claims[w].status = "active"
    BY <2>1, <1>t DEF ClaimRecords
  <2> QED BY <2>2 DEF Active
<1>3. ASSUME NEW w \in Works, Settle(w) PROVE Active' \subseteq Active
  <2>1. \A u \in Works : claims'[u].status = "active" => claims[u].status = "active"
    BY <1>3, <1>t DEF Settle, ClaimRecords
  <2> QED BY <2>1 DEF Active
<1>4. CASE UNCHANGED claims
  BY <1>4 DEF Active
<1> QED BY <1>1, <1>2, <1>3, <1>4
        DEF Next, vars, RecordPolicy, RecordEnforcement, Crash, Tick

\* Fits, with the sums named.
Fitting ==
  /\ Cardinality(Active) <= Policy.workflows
  /\ \A p \in Providers : SlotsOf(p, Active) <= Policy.calls[p]

LEMMA FitsMeans == (Fits <=> Fitting) /\ (Fits <=> Fitting)'
<1>1. Fits <=> Fitting
  BY DEF Fits, Fitting, Slots, SlotsOf
<1> QED BY <1>1, PTL

LEMMA FitIsKept ==
  ASSUME TypeOK, [Next]_vars, Mode = "enabled", Fitting, policies' = policies, enforcement' = enforcement
  PROVE  Fitting'
<1>t. policies \in Seq(Policies) /\ PolicyVersion \in Nat /\ PolicyVersion > 0
  <2>1. enforcement \in Seq(Decisions(PolicyVersion)) /\ enforcement # <<>>
    BY DEF TypeOK, Decisions, Mode
  <2>2. LastDecision.policyVersion \in 1..PolicyVersion
    BY <2>1, LastOf DEF LastDecision, Decisions
  <2> QED BY <2>2 DEF TypeOK, PolicyVersion
<1>p. Policy \in Policies /\ Policy' = Policy
  BY <1>t DEF Policy, PolicyVersion
<1>q. Policy.workflows \in Nat /\ \A p \in Providers : Policy.calls[p] \in Nat
  BY <1>p, CapacityAssumption
<1>a. Active \in SUBSET Works /\ IsFiniteSet(Active) /\ Cardinality(Active) \in Nat
  BY FittingAreWorks, ActiveIsFinite
<1>1. CASE Active' \subseteq Active
  <2>1. Cardinality(Active') <= Cardinality(Active) /\ Cardinality(Active') \in Nat
    BY <1>1, <1>a, FS_Subset, FS_CardinalityType
  <2>2. ASSUME NEW p \in Providers
        PROVE  SlotsOf(p, Active') <= Policy.calls[p]
    <3>1. /\ SlotsOf(p, Active') <= SlotsOf(p, Active)
          /\ SlotsOf(p, Active) \in Nat /\ SlotsOf(p, Active') \in Nat
      BY <1>1, <1>a, FewerSlots
    <3> QED BY <3>1, <1>q DEF Fitting
  <2> QED BY <1>p, <1>q, <1>a, <2>1, <2>2 DEF Fitting
<1>2. ASSUME NEW w \in Works \ Active, AdmitsOne(w) PROVE Fitting'
  <2>1. /\ ~(Cardinality(Active) + 1 > Policy.workflows)
        /\ \A p \in Providers : ~(SlotsOf(p, Active) + Demand[w][p] > Policy.calls[p])
    BY <1>2, <1>t DEF AdmitsOne, WouldExceed, Slots, SlotsOf
  <2>2. Cardinality(Active') = Cardinality(Active) + 1
    BY <1>2, <1>a, FS_AddElement DEF AdmitsOne
  <2>3. ASSUME NEW p \in Providers
        PROVE  SlotsOf(p, Active') <= Policy.calls[p]
    <3>1. SlotsOf(p, Active \cup {w}) = SlotsOf(p, Active) + Demand[w][p]
      BY <1>a, OneMoreSlots
    <3>2. SlotsOf(p, Active') = SlotsOf(p, Active) + Demand[w][p]
      BY <1>2, <3>1 DEF AdmitsOne
    <3>3. SlotsOf(p, Active) \in Nat /\ Demand[w][p] \in Nat
      BY <1>a, FewerSlots, DemandIsNatural
    <3> QED BY <2>1, <3>2, <3>3, <1>q
  <2>4. Cardinality(Active') <= Policy'.workflows
    BY <2>1, <2>2, <1>p, <1>q, <1>a
  <2> QED BY <1>p, <2>3, <2>4 DEF Fitting
<1> QED BY <1>1, <1>2, EnforcedStep

\* Under enabled enforcement an occupancy that fits the policy keeps fitting, in
\* workflows and in every provider's slots, until an operator records something.
THEOREM EnforcedFitKept == Spec => EnforcedFitIsKept
<1>1. TypeOK /\ [Next]_vars =>
        [Mode = "enabled" /\ Fits /\ UNCHANGED <<policies, enforcement>> => Fits']_vars
  BY FitIsKept, FitsMeans
<1> QED BY <1>1, CapacityTypes, PTL DEF Spec, EnforcedFitIsKept
=============================================================================
