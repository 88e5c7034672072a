------------------------- MODULE DependencyGraphProofs -------------------------
(***************************************************************************)
(* What DependencyGraph computes, for every finite graph.  The depth-first *)
(* visit and the layers recur over the nodes that are left: what they      *)
(* return is proved by the least counterexample, a set of nodes, and not   *)
(* by induction on a number.  So is what a stack of its nodes rests on,    *)
(* that a finite set in order has one enumeration.                         *)
(***************************************************************************)
EXTENDS DependencyGraph, Integers, FiniteSetTheorems, WellFoundedInduction, TLAPS

(***************************************************************************)
(* Functions defined by recursion over the subsets of a finite set         *)
(*                                                                         *)
(* F turns a function on the subsets of D into another whose value at L    *)
(* depends on the values at the proper subsets of L only.  Such an F has a *)
(* fixed point: the least L without a function that F leaves as it is at   *)
(* every subset of L would have one.  F is a function and not an operator, *)
(* so that the provers can instantiate the lemmas.                         *)
(***************************************************************************)
LEMMA SubsetsAreWellFounded ==
  ASSUME NEW D, IsFiniteSet(D), NEW B, B \subseteq SUBSET D, B # {}
  PROVE  \E L \in B : \A K \in B : ~(K \subseteq L /\ K # L)
<1>1. IsWellFoundedOn(StrictSubsetOrdering(D), SUBSET D)
  BY FS_StrictSubsetOrderingWellFounded, FS_FiniteSubsetsOfFinite
<1>2. PICK L \in B : \A K \in B : ~(<<K, L>> \in StrictSubsetOrdering(D))
  BY <1>1, WFMin
<1>3. \A K \in B : <<K, L>> \in (SUBSET D) \X (SUBSET D)
  OBVIOUS
<1> QED BY <1>2, <1>3 DEF StrictSubsetOrdering

Below(g, h, L) == \A K \in SUBSET L : K # L => g[K] = h[K]

Contracting(F, D, T) ==
  /\ F \in [[SUBSET D -> T] -> [SUBSET D -> T]]
  /\ \A g, h \in [SUBSET D -> T] : \A L \in SUBSET D : Below(g, h, L) => F[g][L] = F[h][L]

\* F leaves g as it is at every subset of L.
FixedUpTo(F, g, L) == \A K \in SUBSET L : F[g][K] = g[K]

LEMMA FixedUpToUnique ==
  ASSUME NEW D, IsFiniteSet(D), NEW T, NEW F, Contracting(F, D, T),
         NEW g \in [SUBSET D -> T], NEW h \in [SUBSET D -> T], NEW L \in SUBSET D, NEW M \in SUBSET D,
         FixedUpTo(F, g, L), FixedUpTo(F, h, M)
  PROVE  \A K \in SUBSET (L \cap M) : g[K] = h[K]
<1> DEFINE B == {K \in SUBSET (L \cap M) : g[K] # h[K]}
<1>1. SUFFICES ASSUME B # {} PROVE FALSE
  OBVIOUS
<1>2. B \subseteq SUBSET D
  OBVIOUS
<1> HIDE DEF B
<1>3. PICK K \in B : \A J \in B : ~(J \subseteq K /\ J # K)
  BY <1>1, <1>2, SubsetsAreWellFounded
<1> USE DEF B
<1>4. K \in SUBSET D /\ K \in SUBSET L /\ K \in SUBSET M
  BY <1>3
<1>5. Below(g, h, K)
  BY <1>3, <1>4 DEF Below
<1>6. F[g][K] = F[h][K]
  BY <1>4, <1>5 DEF Contracting
<1> QED BY <1>3, <1>4, <1>6 DEF FixedUpTo

HasFixedPoint(F, D, T) == \E f \in [SUBSET D -> T] : F[f] = f

LEMMA FixedPoint ==
  ASSUME NEW D, IsFiniteSet(D), NEW T, T # {}, NEW F, Contracting(F, D, T)
  PROVE  HasFixedPoint(F, D, T)
<1> DEFINE G == [SUBSET D -> T]
           Good(L) == \E g \in G : FixedUpTo(F, g, L)
           B == {L \in SUBSET D : ~Good(L)}
<1>f. \A g \in G : F[g] \in G
  BY DEF Contracting
<1>1. ASSUME NEW L \in SUBSET D, \A K \in SUBSET L : K # L => Good(K)
      PROVE  Good(L)
  <2> DEFINE of(K) == CHOOSE g : g \in G /\ FixedUpTo(F, g, K)
             t0 == CHOOSE t : t \in T
             h == [K \in SUBSET D |-> IF K \subseteq L /\ K # L THEN of(K)[K] ELSE t0]
             g == [K \in SUBSET D |-> IF K = L THEN F[h][L] ELSE h[K]]
  <2>1. ASSUME NEW K \in SUBSET L, K # L
        PROVE  of(K) \in G /\ FixedUpTo(F, of(K), K)
    BY <1>1, <2>1
  <2>t. t0 \in T
    OBVIOUS
  <2> HIDE DEF of, t0
  <2>2. h \in G
    <3>1. ASSUME NEW K \in SUBSET D, K \subseteq L, K # L PROVE of(K)[K] \in T
      BY <2>1, <3>1
    <3> QED BY <3>1, <2>t
  <2>3. F[h][L] \in T
    BY <2>2, <1>f
  <2>4. g \in G
    BY <2>2, <2>3
  <2>5. ASSUME NEW K \in SUBSET L, K # L
        PROVE  \A J \in SUBSET K : h[J] = of(K)[J]
    <3> SUFFICES ASSUME NEW J \in SUBSET K PROVE h[J] = of(K)[J]
      OBVIOUS
    <3>1. J \in SUBSET L /\ J # L /\ J \in SUBSET D /\ K \in SUBSET D
      BY <2>5
    <3>2. of(J) \in G /\ FixedUpTo(F, of(J), J) /\ of(K) \in G /\ FixedUpTo(F, of(K), K)
      BY <2>1, <2>5, <3>1
    <3>3. \A a, b \in G : FixedUpTo(F, a, J) /\ FixedUpTo(F, b, K) => \A I \in SUBSET (J \cap K) : a[I] = b[I]
      BY <3>1, FixedUpToUnique
    <3>4. h[J] = of(J)[J]
      BY <3>1
    <3>5. \A I \in SUBSET (J \cap K) : of(J)[I] = of(K)[I]
      BY <3>2, <3>3
    <3> QED BY <3>4, <3>5
  <2> HIDE DEF h
  <2>6. ASSUME NEW K \in SUBSET L, K # L
        PROVE  F[h][K] = h[K]
    <3>1. of(K) \in G /\ FixedUpTo(F, of(K), K) /\ K \in SUBSET D
      BY <2>1, <2>6
    <3>2. Below(h, of(K), K)
      BY <2>5, <2>6 DEF Below
    <3>3. F[h][K] = F[of(K)][K]
      BY <2>2, <3>1, <3>2 DEF Contracting
    <3> QED BY <2>5, <2>6, <3>1, <3>3 DEF FixedUpTo
  <2>7. ASSUME NEW K \in SUBSET L
        PROVE  F[g][K] = g[K]
    <3>1. Below(g, h, K) /\ K \in SUBSET D
      BY <2>7 DEF Below
    <3>2. F[g][K] = F[h][K]
      BY <3>1, <2>2, <2>4 DEF Contracting
    <3>3. CASE K = L
      BY <3>2, <3>3
    <3>4. CASE K # L
      BY <3>1, <3>2, <3>4, <2>6
    <3> QED BY <3>3, <3>4
  <2> QED BY <2>4, <2>7 DEF FixedUpTo
<1>2. B = {}
  <2> SUFFICES ASSUME B # {} PROVE FALSE
    OBVIOUS
  <2> HIDE DEF Good
  <2>b. B \subseteq SUBSET D
    OBVIOUS
  <2> HIDE DEF B
  <2>1. PICK L \in B : \A K \in B : ~(K \subseteq L /\ K # L)
    BY <2>b, SubsetsAreWellFounded
  <2> USE DEF B
  <2>2. \A K \in SUBSET L : K # L => Good(K)
    BY <2>1
  <2> QED BY <1>1, <2>1, <2>2
<1>3. PICK g \in G : FixedUpTo(F, g, D)
  BY <1>2
<1>4. F[g] = g
  <2>1. \A K \in SUBSET D : F[g][K] = g[K]
    BY <1>3 DEF FixedUpTo
  <2>2. F[g] = [K \in SUBSET D |-> F[g][K]] /\ g = [K \in SUBSET D |-> g[K]]
    BY <1>f
  <2> QED BY <2>1, <2>2
<1> QED BY <1>3, <1>4 DEF HasFixedPoint

(***************************************************************************)
(* Dependency graphs                                                       *)
(***************************************************************************)
Graph(deps, D) == deps \in [D -> SUBSET D]

LEMMA VisitEquation ==
  ASSUME NEW D, IsFiniteSet(D), NEW deps, Graph(deps, D)
  PROVE  \A off \in SUBSET D :
           \A n : n \in Visit(deps)[off] <=> n \in off /\ deps[n] \subseteq Visit(deps)[off \ {n}]
<1> DEFINE T == SUBSET D
           G == [SUBSET D -> T]
           Step(g) == [off \in SUBSET D |-> {n \in off : deps[n] \subseteq g[off \ {n}]}]
           F == [g \in G |-> Step(g)]
<1>1. F \in [G -> G]
  OBVIOUS
<1>2. ASSUME NEW g \in G, NEW h \in G, NEW L \in SUBSET D, Below(g, h, L)
      PROVE  F[g][L] = F[h][L]
  <2>1. \A n \in L : g[L \ {n}] = h[L \ {n}]
    BY <1>2 DEF Below
  <2> QED BY <2>1
<1>3. Contracting(F, D, T)
  BY <1>1, <1>2 DEF Contracting
<1>4. T # {}
  OBVIOUS
<1>a. \A g \in G : F[g] = Step(g)
  OBVIOUS
<1> HIDE DEF T, Step, F, G
<1>5. PICK H : Contracting(H, D, T) /\ \A g \in G : H[g] = Step(g)
  BY <1>3, <1>a
<1> USE DEF G
<1>p. HasFixedPoint(H, D, T)
  BY <1>4, <1>5, FixedPoint
<1>f. PICK f \in G : H[f] = f
  BY <1>p DEF HasFixedPoint
<1>6. \E f_1 : f_1 = Step(f_1)
  BY <1>5, <1>f
<1>7. Visit(deps) = CHOOSE f_1 : f_1 = Step(f_1)
  BY DEF Visit, Graph, Step
<1>8. PICK V : V = Visit(deps) /\ V = Step(V)
  BY <1>6, <1>7
<1>9. \A off \in SUBSET D : \A n : n \in V[off] <=> n \in off /\ deps[n] \subseteq V[off \ {n}]
  <2> SUFFICES ASSUME NEW off \in SUBSET D
               PROVE  \A n : n \in V[off] <=> n \in off /\ deps[n] \subseteq V[off \ {n}]
    OBVIOUS
  <2>1. V = [L \in SUBSET D |-> {n \in L : deps[n] \subseteq V[L \ {n}]}]
    BY <1>8 DEF Step
  <2>2. V[off] = {n \in off : deps[n] \subseteq V[off \ {n}]}
    BY <2>1
  <2> QED BY <2>2
<1> QED BY <1>8, <1>9

LEMMA LayersEquation ==
  ASSUME NEW D, IsFiniteSet(D), NEW deps, Graph(deps, D)
  PROVE  \A left \in SUBSET D :
           /\ Ready(deps, left) = {} => LayersOf(deps)[left] = <<>>
           /\ Ready(deps, left) # {} =>
                LayersOf(deps)[left] = <<Ready(deps, left)>> \o LayersOf(deps)[left \ Ready(deps, left)]
<1> DEFINE T == Seq(SUBSET D)
           G == [SUBSET D -> T]
           Step(g) == [left \in SUBSET D |->
                         IF Ready(deps, left) = {} THEN <<>>
                         ELSE <<Ready(deps, left)>> \o g[left \ Ready(deps, left)]]
           F == [g \in G |-> Step(g)]
<1>r. \A left \in SUBSET D : Ready(deps, left) \in SUBSET D /\ Ready(deps, left) \subseteq left
  BY DEF Ready
<1>1. F \in [G -> G]
  <2>1. ASSUME NEW g \in G, NEW left \in SUBSET D PROVE Step(g)[left] \in T
    <3>1. g[left \ Ready(deps, left)] \in Seq(SUBSET D) /\ <<Ready(deps, left)>> \in Seq(SUBSET D)
      BY <1>r
    <3>2. <<Ready(deps, left)>> \o g[left \ Ready(deps, left)] \in Seq(SUBSET D)
      BY <3>1
    <3>3. <<>> \in Seq(SUBSET D)
      OBVIOUS
    <3>4. Step(g)[left] = IF Ready(deps, left) = {} THEN <<>>
                          ELSE <<Ready(deps, left)>> \o g[left \ Ready(deps, left)]
      OBVIOUS
    <3> HIDE DEF Step
    <3> QED BY <3>2, <3>3, <3>4
  <2> HIDE DEF T
  <2> QED BY <2>1
<1>2. ASSUME NEW g \in G, NEW h \in G, NEW L \in SUBSET D, Below(g, h, L)
      PROVE  F[g][L] = F[h][L]
  <2>1. CASE Ready(deps, L) = {}
    BY <2>1
  <2>2. CASE Ready(deps, L) # {}
    <3>1. L \ Ready(deps, L) # L /\ L \ Ready(deps, L) \in SUBSET L
      BY <2>2, <1>r
    <3>2. g[L \ Ready(deps, L)] = h[L \ Ready(deps, L)]
      BY <3>1, <1>2 DEF Below
    <3> QED BY <3>2
  <2> QED BY <2>1, <2>2
<1>3. Contracting(F, D, T)
  BY <1>1, <1>2 DEF Contracting
<1>4. T # {}
  <2>1. <<>> \in Seq(SUBSET D)
    OBVIOUS
  <2> QED BY <2>1
<1>a. \A g \in G : F[g] = Step(g)
  OBVIOUS
<1> HIDE DEF T, Step, F, G
<1>5. PICK H : Contracting(H, D, T) /\ \A g \in G : H[g] = Step(g)
  BY <1>3, <1>a
<1> USE DEF G
<1>p. HasFixedPoint(H, D, T)
  BY <1>4, <1>5, FixedPoint
<1>f. PICK f \in G : H[f] = f
  BY <1>p DEF HasFixedPoint
<1>6. \E f_1 : f_1 = Step(f_1)
  BY <1>5, <1>f
<1>7. LayersOf(deps) = CHOOSE f_1 : f_1 = Step(f_1)
  BY DEF LayersOf, Graph, Step
<1>8. PICK V : V = LayersOf(deps) /\ V = Step(V)
  BY <1>6, <1>7
<1>9. \A left \in SUBSET D :
        V[left] = IF Ready(deps, left) = {} THEN <<>>
                  ELSE <<Ready(deps, left)>> \o V[left \ Ready(deps, left)]
  BY <1>8 DEF Step
<1> QED BY <1>8, <1>9

\* A graph the depth-first visit accepts has no set of nodes in which every node
\* depends on another of the set.
LEMMA AcyclicHasReady ==
  ASSUME NEW D, IsFiniteSet(D), NEW deps, Graph(deps, D), IsAcyclic(deps),
         NEW S \in SUBSET D, S # {}
  PROVE  Ready(deps, S) # {}
<1> DEFINE B == {off \in SUBSET D : Visit(deps)[off] \cap S # {}}
<1>1. SUFFICES ASSUME Ready(deps, S) = {} PROVE FALSE
  OBVIOUS
<1>2. \A off \in SUBSET D :
        \A n : n \in Visit(deps)[off] <=> n \in off /\ deps[n] \subseteq Visit(deps)[off \ {n}]
  BY VisitEquation
<1>3. D \in B
  BY DEF IsAcyclic, Graph
<1>b. B \subseteq SUBSET D
  OBVIOUS
<1> HIDE DEF B
<1>4. PICK off \in B : \A K \in B : ~(K \subseteq off /\ K # off)
  BY <1>3, <1>b, SubsetsAreWellFounded
<1> USE DEF B
<1>5. PICK n \in S : n \in Visit(deps)[off]
  BY <1>4
<1>6. n \in off /\ deps[n] \subseteq Visit(deps)[off \ {n}]
  BY <1>2, <1>4, <1>5
<1>7. deps[n] \cap S # {}
  BY <1>1 DEF Ready
<1>8. off \ {n} \in B
  BY <1>4, <1>6, <1>7
<1> QED BY <1>4, <1>6, <1>8

\* What a sequence of layers holds, and what the layers before the i-th hold.
Held(s) == UNION {s[i] : i \in DOMAIN s}
HeldBefore(s, i) == UNION {s[j] : j \in 1..(i - 1)}

\* The layers of the nodes that are left: each node once, after what it waits for.
LayersFit(deps, left, s) ==
  /\ s \in Seq(SUBSET left)
  /\ Held(s) = left
  /\ \A i, j \in DOMAIN s : i # j => s[i] \cap s[j] = {}
  /\ \A i \in DOMAIN s : \A t \in s[i] : deps[t] \cap left \subseteq HeldBefore(s, i)

LEMMA Prepended ==
  ASSUME NEW S, NEW x \in S, NEW r \in Seq(S)
  PROVE  /\ <<x>> \o r \in Seq(S)
         /\ DOMAIN (<<x>> \o r) = 1..(Len(r) + 1) /\ Len(r) \in Nat /\ DOMAIN r = 1..Len(r)
         /\ (<<x>> \o r)[1] = x
         /\ \A i \in 1..Len(r) : (<<x>> \o r)[i + 1] = r[i]
  OBVIOUS

LEMMA LayersAreFit ==
  ASSUME NEW D, IsFiniteSet(D), NEW deps, Graph(deps, D), IsAcyclic(deps)
  PROVE  \A left \in SUBSET D : LayersFit(deps, left, LayersOf(deps)[left])
<1> DEFINE B == {left \in SUBSET D : ~LayersFit(deps, left, LayersOf(deps)[left])}
<1>1. SUFFICES ASSUME B # {} PROVE FALSE
  OBVIOUS
<1>b. B \subseteq SUBSET D
  OBVIOUS
<1> HIDE DEF B
<1>2. PICK left \in B : \A K \in B : ~(K \subseteq left /\ K # left)
  BY <1>1, <1>b, SubsetsAreWellFounded
<1> USE DEF B
<1>3. left \in SUBSET D /\ ~LayersFit(deps, left, LayersOf(deps)[left])
  BY <1>2
<1> DEFINE s == LayersOf(deps)[left]
           ready == Ready(deps, left)
           rest == left \ ready
           r == LayersOf(deps)[rest]
<1>4. (ready = {} => s = <<>>) /\ (ready # {} => s = <<ready>> \o r)
  BY <1>3, LayersEquation
<1>5. CASE left = {}
  <2>1. ready = {}
    BY <1>5 DEF Ready
  <2>2. s = <<>>
    BY <1>4, <2>1
  <2>3. LayersFit(deps, left, s)
    BY <1>5, <2>2 DEF LayersFit, Held
  <2> QED BY <2>3, <1>3
<1>6. CASE left # {}
  <2>1. ready # {}
    BY <1>6, <1>3, AcyclicHasReady
  <2>2. ready \subseteq left /\ rest \in SUBSET D /\ rest \subseteq left /\ rest # left
    BY <2>1, <1>3 DEF Ready
  <2>3. LayersFit(deps, rest, r)
    BY <2>2, <1>2
  <2>4. s = <<ready>> \o r
    BY <1>4, <2>1
  <2>5. ready \in SUBSET left /\ r \in Seq(SUBSET left)
    <3>1. r \in Seq(SUBSET rest)
      BY <2>3 DEF LayersFit
    <3> QED BY <3>1, <2>2
  <2>6. \A t \in ready : deps[t] \cap left = {}
    BY DEF Ready
  <2>7. left = ready \cup rest /\ ready \cap rest = {}
    BY <2>2
  <2> HIDE DEF s, ready, rest, r
  <2>8. /\ s \in Seq(SUBSET left)
        /\ DOMAIN s = 1..(Len(r) + 1) /\ Len(r) \in Nat /\ DOMAIN r = 1..Len(r)
        /\ s[1] = ready
        /\ \A i \in 1..Len(r) : s[i + 1] = r[i]
    BY <2>4, <2>5, Prepended
  <2>9. \A i \in DOMAIN s : i = 1 \/ (i - 1 \in 1..Len(r) /\ s[i] = r[i - 1])
    <3> SUFFICES ASSUME NEW i \in DOMAIN s, i # 1
                 PROVE  i - 1 \in 1..Len(r) /\ s[i] = r[i - 1]
      OBVIOUS
    <3>1. i - 1 \in 1..Len(r) /\ (i - 1) + 1 = i
      BY <2>8
    <3> QED BY <3>1, <2>8
  <2>10. /\ Held(r) = rest
         /\ \A i, j \in 1..Len(r) : i # j => r[i] \cap r[j] = {}
         /\ \A i \in 1..Len(r) : \A t \in r[i] : deps[t] \cap rest \subseteq HeldBefore(r, i)
    BY <2>3, <2>8 DEF LayersFit
  <2>11. Held(s) = left
    <3>1. ASSUME NEW t \in left PROVE t \in Held(s)
      <4>1. CASE t \in ready
        BY <4>1, <2>8 DEF Held
      <4>2. CASE t \in rest
        <5>1. PICK i \in 1..Len(r) : t \in r[i]
          BY <4>2, <2>8, <2>10 DEF Held
        <5>2. i + 1 \in DOMAIN s /\ t \in s[i + 1]
          BY <5>1, <2>8
        <5> QED BY <5>2 DEF Held
      <4> QED BY <4>1, <4>2, <2>7
    <3>2. ASSUME NEW i \in DOMAIN s PROVE s[i] \subseteq left
      BY <2>8
    <3> QED BY <3>1, <3>2 DEF Held
  <2>12. \A i \in 1..Len(r) : r[i] \subseteq rest
    BY <2>8, <2>10 DEF Held
  <2>13. ASSUME NEW i \in DOMAIN s, NEW j \in DOMAIN s, i # j
         PROVE  s[i] \cap s[j] = {}
    <3>1. CASE i = 1
      <4>1. j - 1 \in 1..Len(r) /\ s[j] = r[j - 1]
        BY <2>9, <2>13, <3>1
      <4> QED BY <4>1, <3>1, <2>7, <2>8, <2>12
    <3>2. CASE j = 1
      <4>1. i - 1 \in 1..Len(r) /\ s[i] = r[i - 1]
        BY <2>9, <2>13, <3>2
      <4> QED BY <4>1, <3>2, <2>7, <2>8, <2>12
    <3>3. CASE i # 1 /\ j # 1
      <4>1. /\ i - 1 \in 1..Len(r) /\ s[i] = r[i - 1]
            /\ j - 1 \in 1..Len(r) /\ s[j] = r[j - 1]
        BY <2>9, <3>3
      <4>2. i - 1 # j - 1
        BY <2>13, <2>8
      <4> QED BY <4>1, <4>2, <2>10
    <3> QED BY <3>1, <3>2, <3>3
  <2>14. ASSUME NEW i \in DOMAIN s, NEW t \in s[i]
         PROVE  deps[t] \cap left \subseteq HeldBefore(s, i)
    <3>1. CASE i = 1
      BY <3>1, <2>6, <2>8
    <3>2. CASE i # 1
      <4>1. i - 1 \in 1..Len(r) /\ t \in r[i - 1]
        BY <2>9, <2>14, <3>2
      <4>2. deps[t] \cap rest \subseteq HeldBefore(r, i - 1)
        BY <4>1, <2>10
      <4>3. ready \subseteq HeldBefore(s, i)
        <5>1. 1 \in 1..(i - 1)
          BY <4>1
        <5> QED BY <5>1, <2>8 DEF HeldBefore
      <4>4. HeldBefore(r, i - 1) \subseteq HeldBefore(s, i)
        <5>1. ASSUME NEW j \in 1..((i - 1) - 1) PROVE j + 1 \in 1..(i - 1) /\ s[j + 1] = r[j]
          <6>1. j \in 1..Len(r) /\ j + 1 \in 1..(i - 1)
            BY <4>1, <2>8
          <6> QED BY <6>1, <2>8
        <5> QED BY <5>1 DEF HeldBefore
      <4> QED BY <4>2, <4>3, <4>4, <2>7
    <3> QED BY <3>1, <3>2
  <2>15. LayersFit(deps, left, s)
    BY <2>8, <2>11, <2>13, <2>14 DEF LayersFit
  <2> QED BY <2>15, <1>3 DEF s
<1> QED BY <1>5, <1>6

\* The least closed set lies in every closed set that holds the dependencies.
LEMMA AncestorsAreLeast ==
  ASSUME NEW D, NEW deps, Graph(deps, D), NEW n \in D, NEW S \in SUBSET D,
         deps[n] \subseteq S, Closed(deps, S)
  PROVE  Ancestors(deps)[n] \subseteq S
<1>1. DOMAIN deps = D
  BY DEF Graph
<1> QED BY <1>1 DEF Ancestors

\* The layers of a graph that was accepted hold every node once, after everything
\* the node waits for.
LEMMA LayersFollow ==
  ASSUME NEW D, IsFiniteSet(D), NEW deps, Graph(deps, D), IsAcyclic(deps)
  PROVE  LET layers == Layers(deps)  before == Ancestors(deps) IN
         /\ UNION {layers[i] : i \in DOMAIN layers} = D
         /\ \A i, j \in DOMAIN layers : i # j => layers[i] \cap layers[j] = {}
         /\ \A i \in DOMAIN layers : \A t \in layers[i] :
              before[t] \subseteq UNION {layers[j] : j \in 1..(i - 1)}
<1> DEFINE s == LayersOf(deps)[D]
<1>d. DOMAIN deps = D
  BY DEF Graph
<1>1. LayersFit(deps, D, s)
  BY LayersAreFit
<1>2. Layers(deps) = s
  BY <1>1, <1>d DEF Layers, LayersFit, Held
<1> HIDE DEF s
<1>3. /\ s \in Seq(SUBSET D) /\ Held(s) = D
      /\ \A i, j \in DOMAIN s : i # j => s[i] \cap s[j] = {}
      /\ \A i \in DOMAIN s : \A t \in s[i] : deps[t] \cap D \subseteq HeldBefore(s, i)
  BY <1>1 DEF LayersFit
<1>s. DOMAIN s = 1..Len(s) /\ Len(s) \in Nat
  BY <1>3
<1>4. ASSUME NEW i \in DOMAIN s, NEW t \in s[i]
      PROVE  Ancestors(deps)[t] \subseteq HeldBefore(s, i)
  <2>1. \A j \in 1..(i - 1) : j \in DOMAIN s /\ s[j] \subseteq D
    BY <1>3, <1>s
  <2>2. HeldBefore(s, i) \in SUBSET D
    BY <2>1 DEF HeldBefore
  <2>3. t \in D /\ deps[t] \subseteq HeldBefore(s, i)
    BY <1>3, <1>4 DEF Graph, Held
  <2>4. ASSUME NEW n \in HeldBefore(s, i) PROVE deps[n] \subseteq HeldBefore(s, i)
    <3>1. PICK j \in 1..(i - 1) : n \in s[j]
      BY <2>4 DEF HeldBefore
    <3>2. j \in DOMAIN s /\ n \in D
      BY <2>1, <3>1
    <3>3. deps[n] \subseteq HeldBefore(s, j)
      BY <1>3, <3>1, <3>2 DEF Graph
    <3>4. 1..(j - 1) \subseteq 1..(i - 1)
      BY <3>1, <1>s
    <3>5. HeldBefore(s, j) \subseteq HeldBefore(s, i)
      BY <3>4 DEF HeldBefore
    <3> QED BY <3>3, <3>5
  <2>5. Closed(deps, HeldBefore(s, i))
    BY <2>4 DEF Closed
  <2> QED BY <2>2, <2>3, <2>5, AncestorsAreLeast
<1> QED BY <1>2, <1>3, <1>4 DEF Held, HeldBefore

(***************************************************************************)
(* The order of a finite set                                               *)
(***************************************************************************)
\* R orders S: of two elements one is before the other, and never both.
Orders(R, S) ==
  /\ \A x, y \in S : x = y \/ <<x, y>> \in R \/ <<y, x>> \in R
  /\ \A x, y \in S : <<x, y>> \in R => x # y /\ <<y, x>> \notin R
  /\ \A x, y, z \in S : <<x, y>> \in R /\ <<y, z>> \in R => <<x, z>> \in R

\* The elements of S in their order.
Enumerations(R, S) ==
  {s \in [1..Cardinality(S) -> S] : \A i, j \in DOMAIN s : i < j => <<s[i], s[j]>> \in R}

LEMMA OrdersLess ==
  ASSUME NEW R, NEW S, Orders(R, S), NEW T \in SUBSET S
  PROVE  Orders(R, T)
BY DEF Orders

LEMMA HasLast ==
  ASSUME NEW S, IsFiniteSet(S), S # {}, NEW R, Orders(R, S)
  PROVE  \E m \in S : \A x \in S : x = m \/ <<x, m>> \in R
<1> DEFINE Last(K, m) == m \in K /\ \A x \in K : x = m \/ <<x, m>> \in R
           B == {K \in SUBSET S : K # {} /\ ~\E m \in K : Last(K, m)}
<1>1. SUFFICES ASSUME B # {} PROVE FALSE
  OBVIOUS
<1>2. B \subseteq SUBSET S
  OBVIOUS
<1> HIDE DEF B
<1>3. PICK K \in B : \A J \in B : ~(J \subseteq K /\ J # K)
  BY <1>1, <1>2, SubsetsAreWellFounded
<1> USE DEF B
<1>4. PICK x \in K : TRUE
  BY <1>3
<1>5. K \ {x} # {}
  <2>1. SUFFICES ASSUME K \ {x} = {} PROVE FALSE
    OBVIOUS
  <2>2. Last(K, x)
    BY <1>4, <2>1
  <2> QED BY <1>3, <1>4, <2>2
<1>6. K \ {x} \notin B
  BY <1>3, <1>4
<1>7. PICK m \in K \ {x} : Last(K \ {x}, m)
  BY <1>3, <1>5, <1>6
<1>8. x \in S /\ m \in S /\ m # x
  BY <1>3, <1>4, <1>7
<1>9. CASE <<x, m>> \in R
  <2>1. Last(K, m)
    BY <1>7, <1>9
  <2> QED BY <1>3, <1>7, <2>1
<1>10. CASE <<m, x>> \in R
  <2>1. \A y \in K \ {x} : y \in S /\ (y = m \/ <<y, m>> \in R)
    BY <1>3, <1>7
  <2>2. \A y \in K \ {x} : <<y, x>> \in R
    BY <1>8, <1>10, <2>1 DEF Orders
  <2>3. Last(K, x)
    BY <1>4, <2>2
  <2> QED BY <1>3, <1>4, <2>3
<1> QED BY <1>8, <1>9, <1>10 DEF Orders

\* A finite set can be listed in its order.
LEMMA HasEnumeration ==
  ASSUME NEW S, IsFiniteSet(S), NEW R, Orders(R, S)
  PROVE  Enumerations(R, S) # {}
<1> DEFINE B == {K \in SUBSET S : Enumerations(R, K) = {}}
<1>1. SUFFICES ASSUME B # {} PROVE FALSE
  OBVIOUS
<1>2. B \subseteq SUBSET S
  OBVIOUS
<1> HIDE DEF B
<1>3. PICK K \in B : \A J \in B : ~(J \subseteq K /\ J # K)
  BY <1>1, <1>2, SubsetsAreWellFounded
<1> USE DEF B
<1>4. K \in SUBSET S /\ Enumerations(R, K) = {} /\ IsFiniteSet(K) /\ Orders(R, K)
  BY <1>3, FS_Subset, OrdersLess
<1>5. K # {}
  <2>1. SUFFICES ASSUME K = {} PROVE FALSE
    OBVIOUS
  <2>2. Cardinality(K) = 0
    BY <2>1, FS_EmptySet
  <2>3. [i \in 1..0 |-> i] \in [1..0 -> K] /\ \A i, j \in 1..0 : ~(i < j)
    OBVIOUS
  <2>4. [i \in 1..0 |-> i] \in Enumerations(R, K)
    BY <2>2, <2>3 DEF Enumerations
  <2> QED BY <1>4, <2>4
<1>6. PICK m \in K : \A x \in K : x = m \/ <<x, m>> \in R
  BY <1>4, <1>5, HasLast
<1> DEFINE J == K \ {m}
           n == Cardinality(J)
<1>7. IsFiniteSet(J) /\ n \in Nat /\ Cardinality(K) = n + 1
  <2>1. IsFiniteSet(J) /\ Cardinality(K) \in Nat /\ Cardinality(J) = Cardinality(K) - 1
    BY <1>4, FS_RemoveElement, FS_CardinalityType
  <2>2. Cardinality(J) \in Nat
    BY <2>1, FS_CardinalityType
  <2> QED BY <2>1, <2>2
<1>8. J \notin B
  BY <1>3, <1>6
<1>9. PICK f : f \in Enumerations(R, J)
  BY <1>4, <1>8
<1>10. f \in [1..n -> J] /\ \A i, j \in 1..n : i < j => <<f[i], f[j]>> \in R
  BY <1>9 DEF Enumerations
<1> DEFINE g == [i \in 1..(n + 1) |-> IF i = n + 1 THEN m ELSE f[i]]
<1>11. \A x \in J : x \in K /\ <<x, m>> \in R
  BY <1>6
<1> HIDE DEF n
<1>12. \A i \in 1..(n + 1) : i = n + 1 \/ i \in 1..n
  BY <1>7
<1> HIDE DEF J
<1>13. g \in [1..(n + 1) -> K]
  BY <1>6, <1>10, <1>11, <1>12
<1>14. ASSUME NEW i \in 1..(n + 1), NEW j \in 1..(n + 1), i < j PROVE <<g[i], g[j]>> \in R
  <2>1. i # n + 1 /\ i \in 1..n
    BY <1>7, <1>14
  <2>2. g[i] = f[i] /\ f[i] \in J
    BY <1>10, <2>1
  <2>3. CASE j = n + 1
    <3>1. g[j] = m
      BY <2>3
    <3> QED BY <1>11, <2>2, <3>1
  <2>4. CASE j # n + 1
    <3>1. j \in 1..n
      BY <1>12, <2>4
    <3>2. g[j] = f[j]
      BY <2>4
    <3> QED BY <1>10, <1>14, <2>1, <2>2, <3>1, <3>2
  <2> QED BY <2>3, <2>4
<1> HIDE DEF g
<1>15. g \in Enumerations(R, K)
  BY <1>7, <1>13, <1>14 DEF Enumerations
<1> QED BY <1>4, <1>15

\* An enumeration lists each element once.
LEMMA EnumerationFits ==
  ASSUME NEW S, IsFiniteSet(S), NEW R, Orders(R, S), NEW s \in Enumerations(R, S)
  PROVE  /\ Cardinality(S) \in Nat /\ s \in [1..Cardinality(S) -> S]
         /\ \A i, j \in 1..Cardinality(S) : i < j => <<s[i], s[j]>> \in R
         /\ \A x \in S : \E i \in 1..Cardinality(S) : s[i] = x
<1> DEFINE n == Cardinality(S)
<1>1. n \in Nat /\ s \in [1..n -> S] /\ \A i, j \in 1..n : i < j => <<s[i], s[j]>> \in R
  BY FS_CardinalityType DEF Enumerations
<1>2. Cardinality(1..n) = n /\ IsFiniteSet(1..n)
  BY <1>1, FS_Interval
<1>3. ASSUME NEW i \in 1..n, NEW j \in 1..n, i # j PROVE s[i] # s[j]
  <2>1. i < j \/ j < i
    BY <1>1, <1>3
  <2>2. s[i] \in S /\ s[j] \in S
    BY <1>1
  <2>3. <<s[i], s[j]>> \in R \/ <<s[j], s[i]>> \in R
    BY <1>1, <2>1
  <2> QED BY <2>2, <2>3 DEF Orders
<1>4. s \in Injection(1..n, S)
  BY <1>1, <1>3 DEF Injection, IsInjective
<1>5. s \in Surjection(1..n, S)
  BY <1>2, <1>4, FS_Injection
<1> QED BY <1>1, <1>5 DEF Surjection

\* There is one list: where two first differ, each would have the other's element later.
LEMMA OneEnumeration ==
  ASSUME NEW S, IsFiniteSet(S), NEW R, Orders(R, S)
  PROVE  \E s : Enumerations(R, S) = {s}
<1> DEFINE n == Cardinality(S)
           E == Enumerations(R, S)
<1>1. n \in Nat /\ IsFiniteSet(1..n)
  BY FS_CardinalityType, FS_Interval
<1>2. \A s \in E : /\ s \in [1..n -> S] /\ \A i, j \in 1..n : i < j => <<s[i], s[j]>> \in R
                   /\ \A x \in S : \E i \in 1..n : s[i] = x
  BY EnumerationFits
<1>3. E # {}
  BY HasEnumeration
<1> HIDE DEF E
<1> HIDE DEF n
<1>4. ASSUME NEW s \in E, NEW t \in E PROVE s = t
  <2> DEFINE D == {i \in 1..n : s[i] # t[i]}
             Later == {p \in (1..n) \X (1..n) : p[2] < p[1]}
  <2>1. SUFFICES ASSUME D # {} PROVE FALSE
    <3>1. s = [i \in 1..n |-> s[i]] /\ t = [i \in 1..n |-> t[i]]
      BY <1>2
    <3>2. D = {} => [i \in 1..n |-> s[i]] = [i \in 1..n |-> t[i]]
      OBVIOUS
    <3> QED BY <3>1, <3>2
  <2>2. Orders(Later, D)
    <3>1. \A x, y \in 1..n : <<x, y>> \in Later <=> y < x
      OBVIOUS
    <3>2. D \subseteq 1..n /\ \A x \in 1..n : x \in Int
      OBVIOUS
    <3>3. \A x, y, z \in Int : /\ x = y \/ y < x \/ x < y
                               /\ y < x => x # y /\ ~(x < y)
                               /\ y < x /\ z < y => z < x
      OBVIOUS
    <3> HIDE DEF D, Later
    <3> QED BY <3>1, <3>2, <3>3 DEF Orders
  <2>3. IsFiniteSet(D)
    BY <1>1, FS_Subset
  <2> HIDE DEF Later
  <2>4. PICK i \in D : \A j \in D : j = i \/ <<j, i>> \in Later
    BY <2>1, <2>2, <2>3, HasLast
  <2>5. \A j \in 1..n : j < i => s[j] = t[j]
    <3>1. SUFFICES ASSUME NEW j \in D, j < i PROVE FALSE
      OBVIOUS
    <3>2. i \in Int /\ j \in Int
      BY <1>1
    <3>3. j # i /\ ~(i < j)
      BY <3>1, <3>2
    <3> QED BY <2>4, <3>3 DEF Later
  <2>6. i \in 1..n /\ s[i] \in S /\ t[i] \in S /\ s[i] # t[i]
    BY <1>2, <2>4
  <2>7. ASSUME NEW f \in E, NEW g \in E, \A j \in 1..n : j < i => f[j] = g[j], f[i] # g[i]
        PROVE  <<f[i], g[i]>> \in R
    <3>1. PICK j \in 1..n : f[j] = g[i]
      BY <1>2, <2>6, <2>7
    <3>2. j # i
      BY <2>7, <3>1
    <3>3. ~(j < i)
      <4>1. SUFFICES ASSUME j < i PROVE FALSE
        OBVIOUS
      <4>2. g[j] = g[i] /\ <<g[j], g[i]>> \in R /\ g[i] \in S
        BY <1>2, <2>6, <2>7, <3>1, <4>1
      <4> QED BY <4>2 DEF Orders
    <3>4. i < j
      BY <1>1, <2>6, <3>1, <3>2, <3>3
    <3> QED BY <1>2, <2>6, <3>1, <3>4
  <2>8. <<s[i], t[i]>> \in R
    BY <2>5, <2>6, <2>7
  <2>9. <<t[i], s[i]>> \in R
    BY <2>5, <2>6, <2>7
  <2> QED BY <2>6, <2>8, <2>9 DEF Orders
<1>5. PICK s : s \in E
  BY <1>3
<1>6. E = {s}
  BY <1>4, <1>5
<1> QED BY <1>6 DEF E
================================================================================
