--------------------------- MODULE RequestsProofs ---------------------------
(***************************************************************************)
(* Proofs about the components MCRequests follows one at a time.  Each is  *)
(* proved of its own specification, and then of every behaviour of         *)
(* RequestsSpec, which is one of each of them.                             *)
(***************************************************************************)
EXTENDS MCRequests, DependencyGraphProofs, SequenceTheorems

\* A set of numbers without a gap from 1 holds those up to its size.
LEMMA WithoutGap ==
  ASSUME NEW N \in Nat, NEW S \in SUBSET (1..N), \A s \in S : \A q \in 1..(s - 1) : q \in S
  PROVE  Cardinality(S) \in Nat /\ \A q \in 1..N : q \in S <=> q <= Cardinality(S)
<1>0. IsFiniteSet(1..N)
  BY FS_Interval
<1>1. IsFiniteSet(S) /\ Cardinality(S) \in Nat
  BY <1>0, FS_Subset, FS_CardinalityType
<1>2. ASSUME NEW q \in 1..N, q \in S PROVE q <= Cardinality(S)
  <2>1. 1..q \in SUBSET S
    BY <1>2
  <2>2. Cardinality(1..q) = q
    BY FS_Interval
  <2> QED BY <1>1, <2>1, <2>2, FS_Subset
<1>3. ASSUME NEW q \in 1..N, q \notin S PROVE Cardinality(S) < q
  <2>1. S \in SUBSET (1..(q - 1))
    BY <1>3
  <2>2. Cardinality(1..(q - 1)) = q - 1 /\ IsFiniteSet(1..(q - 1))
    BY FS_Interval
  <2>3. Cardinality(S) <= q - 1
    BY <2>1, <2>2, FS_Subset
  <2>4. \A c \in Nat : c <= q - 1 => c < q
    OBVIOUS
  <2> QED BY <1>1, <2>3, <2>4
<1> QED BY <1>1, <1>2, <1>3

\* A finite set whose elements are all the same has at most one.
LEMMA AtMostOne ==
  ASSUME NEW S, IsFiniteSet(S), \A x, y \in S : x = y
  PROVE  Cardinality(S) <= 1
<1>1. CASE S = {}
  BY <1>1, FS_EmptySet
<1>2. CASE S # {}
  <2>1. PICK x \in S : S = {x}
    BY <1>2
  <2> QED BY <2>1, FS_Singleton
<1> QED BY <1>1, <1>2

(***************************************************************************)
(* The activity log and its page.                                          *)
(***************************************************************************)
ObservedEvents == [from : Processes, n : Nat, context : Contexts, row : BOOLEAN]

ActivityKinds ==
  /\ alive \subseteq Processes /\ emitted \in [Processes -> Nat] /\ scheduled \in [Processes -> BOOLEAN]
  /\ queue \in [Processes -> Seq(ObservedEvents)] /\ recorded \in Seq(ObservedEvents)
  /\ {lane, card} \subseteq Lanes /\ reviewed \in BOOLEAN /\ failures \in Nat
  /\ view \in {"closed", "waiting", "answered", "stopped"}

\* A queue has the events of its process; one that is not flushed follows a refused batch.
QueuesFit ==
  \A p \in Processes :
    /\ queue[p] # <<>> => p \in alive /\ (scheduled[p] \/ failures > 0)
    /\ \A k \in DOMAIN queue[p] : queue[p][k].from = p

\* Nothing is observed of a review before there is one.
ReviewsBegun ==
  /\ lane = "review" => reviewed
  /\ ~reviewed => /\ \A i \in DOMAIN recorded : recorded[i].context # "review"
                  /\ \A p \in Processes : \A k \in DOMAIN queue[p] : queue[p][k].context # "review"

\* The answer on its way has what follows what the page has seen, without a gap.
ReplyFits ==
  /\ after \in 0..Len(recorded) /\ reply \subseteq 1..Len(recorded) /\ shown \in Seq(Nat)
  /\ view # "answered" => reply = {}
  /\ \A i \in reply : /\ after < i /\ OfRun(recorded[i])
                      /\ \A j \in 1..(i - 1) : after < j /\ OfRun(recorded[j]) => j \in reply

ActivityInv ==
  /\ ActivityKinds /\ QueuesFit /\ ReviewsBegun /\ StoredWithoutGap /\ ReplyFits /\ StreamIsComplete

\* The page appends the rows of an answer as they come: there is one way to list them
\* in the order of the stream, so an answer is never left unpainted.
LEMMA OnePaint ==
  ASSUME NEW n \in Nat, NEW ids \in SUBSET (1..n)
  PROVE  \E s : {t \in [1..Cardinality(ids) -> ids] : Ascending(t, ids)} = {s}
<1> DEFINE R == {p \in (1..n) \X (1..n) : p[1] < p[2]}
<1>0. IsFiniteSet(1..n)
  BY FS_Interval
<1>1. IsFiniteSet(ids)
  BY <1>0, FS_Subset
<1>2. \A x, y \in 1..n : <<x, y>> \in R <=> x < y
  OBVIOUS
<1>3. Orders(R, ids)
  <2>1. \A x, y, z \in Int : /\ x = y \/ x < y \/ y < x
                             /\ x < y => x # y /\ ~(y < x)
                             /\ x < y /\ y < z => x < z
    OBVIOUS
  <2>2. \A x \in ids : x \in 1..n /\ x \in Int
    OBVIOUS
  <2> HIDE DEF R
  <2> QED BY <1>2, <2>1, <2>2 DEF Orders
<1> HIDE DEF R
<1>4. PICK s : Enumerations(R, ids) = {s}
  BY <1>1, <1>3, OneEnumeration
<1> DEFINE Lists == [1..Cardinality(ids) -> ids]
<1>5. \A t \in Lists : \A i, j \in DOMAIN t : <<t[i], t[j]>> \in R <=> t[i] < t[j]
  BY <1>2
<1>6. \A t \in Enumerations(R, ids) : Range(t) = ids
  <2>1. SUFFICES ASSUME NEW t \in Enumerations(R, ids) PROVE Range(t) = ids
    OBVIOUS
  <2>2. t \in Lists /\ \A x \in ids : \E i \in 1..Cardinality(ids) : t[i] = x
    BY <1>1, <1>3, EnumerationFits
  <2> QED BY <2>2 DEF Range
<1>7. \A t \in Lists : t \in Enumerations(R, ids) <=> \A i, j \in DOMAIN t : i < j => t[i] < t[j]
  BY <1>5 DEF Enumerations
<1>8. Enumerations(R, ids) \subseteq Lists
  BY DEF Enumerations
<1> HIDE DEF Lists
<1>9. {t \in Lists : Ascending(t, ids)} = Enumerations(R, ids)
  BY <1>6, <1>7, <1>8 DEF Ascending
<1> QED BY <1>4, <1>9 DEF Lists

LEMMA Joined ==
  ASSUME NEW T, NEW s \in Seq(T), NEW t \in Seq(T)
  PROVE  /\ s \o t \in Seq(T) /\ Len(s) \in Nat /\ Len(t) \in Nat /\ Len(s \o t) = Len(s) + Len(t)
         /\ DOMAIN s = 1..Len(s) /\ DOMAIN t = 1..Len(t) /\ DOMAIN (s \o t) = 1..(Len(s) + Len(t))
         /\ \A i \in 1..Len(s) : (s \o t)[i] = s[i]
         /\ \A k \in 1..Len(t) : (s \o t)[Len(s) + k] = t[k]
         /\ \A i \in 1..(Len(s) + Len(t)) : i \in 1..Len(s) \/ (i - Len(s)) \in 1..Len(t)
OBVIOUS

LEMMA Listed ==
  ASSUME NEW T, NEW s \in Seq(T)
  PROVE  Len(s) \in Nat /\ DOMAIN s = 1..Len(s) /\ \A i \in 1..Len(s) : s[i] \in T
OBVIOUS

\* What goes on the end of the log leaves the rest as it was.
LEMMA LogGrows ==
  ASSUME ActivityKinds, NEW batch \in Seq(ObservedEvents), recorded' = recorded \o batch
  PROVE  /\ recorded' \in Seq(ObservedEvents) /\ Len(recorded) \in Nat /\ Len(batch) \in Nat
         /\ Len(recorded') = Len(recorded) + Len(batch)
         /\ DOMAIN recorded = 1..Len(recorded) /\ DOMAIN recorded' = 1..(Len(recorded) + Len(batch))
         /\ \A i \in 1..Len(recorded) : recorded'[i] = recorded[i]
         /\ \A k \in 1..Len(batch) : recorded'[Len(recorded) + k] = batch[k]
         /\ \A i \in DOMAIN recorded' : i \in DOMAIN recorded \/ (i - Len(recorded)) \in 1..Len(batch)
<1> DEFINE T == ObservedEvents
<1>1. recorded \in Seq(T) /\ batch \in Seq(T)
  BY DEF ActivityKinds
<1> HIDE DEF T
<1>2. /\ recorded \o batch \in Seq(T) /\ Len(recorded) \in Nat /\ Len(batch) \in Nat
      /\ Len(recorded \o batch) = Len(recorded) + Len(batch)
      /\ DOMAIN recorded = 1..Len(recorded) /\ DOMAIN (recorded \o batch) = 1..(Len(recorded) + Len(batch))
      /\ \A i \in 1..Len(recorded) : (recorded \o batch)[i] = recorded[i]
      /\ \A k \in 1..Len(batch) : (recorded \o batch)[Len(recorded) + k] = batch[k]
      /\ \A i \in 1..(Len(recorded) + Len(batch)) : i \in 1..Len(recorded) \/ (i - Len(recorded)) \in 1..Len(batch)
  BY <1>1, Joined
<1> QED BY <1>2 DEF T

LEMMA QueueKind ==
  ASSUME ActivityKinds, NEW p \in Processes
  PROVE  /\ queue[p] \in Seq(ObservedEvents) /\ <<>> \in Seq(ObservedEvents)
         /\ Len(queue[p]) \in Nat /\ DOMAIN queue[p] = 1..Len(queue[p])
         /\ \A k \in 1..Len(queue[p]) : queue[p][k] \in ObservedEvents
<1> DEFINE T == ObservedEvents
<1>1. queue[p] \in Seq(T)
  BY DEF ActivityKinds
<1> HIDE DEF T
<1>2. <<>> \in Seq(T)
  OBVIOUS
<1>3. /\ Len(queue[p]) \in Nat /\ DOMAIN queue[p] = 1..Len(queue[p])
      /\ \A k \in 1..Len(queue[p]) : queue[p][k] \in T
  BY <1>1, Listed
<1> QED BY <1>1, <1>2, <1>3 DEF T

\* The page's part of the invariant rests on what the log said when the page read it.
LEMMA PageStays ==
  ASSUME ActivityInv, UNCHANGED pageVars,
         Len(recorded) \in Nat, Len(recorded') \in Nat, Len(recorded) <= Len(recorded'),
         \A i \in 1..Len(recorded) : recorded'[i] = recorded[i],
         reviewed' = reviewed \/ (~reviewed /\ reviewed' = TRUE)
  PROVE  ReplyFits' /\ StreamIsComplete'
<1>1. ReplyFits /\ ReviewsBegun /\ StreamIsComplete /\ DOMAIN recorded = 1..Len(recorded)
  <2>1. ReplyFits /\ ReviewsBegun /\ StreamIsComplete /\ ActivityKinds
    BY DEF ActivityInv
  <2> QED BY <2>1, Listed DEF ActivityKinds
<1>2. \A i \in 1..Len(recorded) : OfRun(recorded[i])' <=> OfRun(recorded[i])
  BY <1>1 DEF ReviewsBegun, OfRun
<1>3. UNCHANGED <<after, reply, shown, view>>
  BY DEF pageVars
<1>4. after \in 0..Len(recorded) /\ reply \subseteq 1..Len(recorded)
  BY <1>1 DEF ReplyFits
<1>5. ReplyFits'
  <2>1. after' \in 0..Len(recorded') /\ reply' \subseteq 1..Len(recorded') /\ shown' \in Seq(Nat)
    BY <1>1, <1>3, <1>4 DEF ReplyFits
  <2>2. view' # "answered" => reply' = {}
    BY <1>1, <1>3 DEF ReplyFits
  <2>3. ASSUME NEW i \in reply
        PROVE  /\ after < i /\ OfRun(recorded[i])'
               /\ \A j \in 1..(i - 1) : after < j /\ OfRun(recorded[j])' => j \in reply
    <3>1. i \in 1..Len(recorded) /\ \A j \in 1..(i - 1) : j \in 1..Len(recorded)
      BY <1>4
    <3> QED BY <1>1, <1>2, <3>1 DEF ReplyFits
  <2> QED BY <1>3, <2>1, <2>2, <2>3 DEF ReplyFits
<1>6. {i \in 1..after : OfRun(recorded[i]) /\ recorded[i].row}'
      = {i \in 1..after : OfRun(recorded[i]) /\ recorded[i].row}
  <2>1. \A i \in 1..after : i \in 1..Len(recorded)
    BY <1>4
  <2>2. \A i \in 1..after : (OfRun(recorded[i]) /\ recorded[i].row)' <=> OfRun(recorded[i]) /\ recorded[i].row
    BY <1>2, <2>1
  <2> QED BY <1>3, <2>2
<1>7. StreamIsComplete'
  BY <1>1, <1>3, <1>6 DEF StreamIsComplete, Ascending
<1> QED BY <1>5, <1>7

IdsOf(p) == {i \in DOMAIN recorded : recorded[i].from = p}

\* The events of p up to the number `stored' are in the log, and the queue goes on from there.
Numbered(p, stored) ==
  /\ stored \in 0..emitted[p]
  /\ {recorded[i].n : i \in IdsOf(p)} = 1..stored
  /\ \A i, j \in IdsOf(p) : i < j => recorded[i].n < recorded[j].n
  /\ \A k \in DOMAIN queue[p] : queue[p][k].n = stored + k
  /\ p \in alive => stored + Len(queue[p]) = emitted[p]

LEMMA StoredMeaning == StoredWithoutGap <=> \A p \in Processes : \E stored \in 0..emitted[p] : Numbered(p, stored)
BY DEF StoredWithoutGap, Numbered, IdsOf

\* Nothing of q is stored, queued or emitted.
LEMMA NumberedStays ==
  ASSUME ActivityKinds, NEW q \in Processes, NEW batch \in Seq(ObservedEvents), recorded' = recorded \o batch,
         \A k \in DOMAIN batch : batch[k].from # q,
         queue'[q] = queue[q], emitted'[q] = emitted[q], (q \in alive') => q \in alive,
         NEW stored, Numbered(q, stored)
  PROVE  Numbered(q, stored)'
<1>1. /\ Len(recorded) \in Nat /\ Len(batch) \in Nat
      /\ DOMAIN recorded = 1..Len(recorded) /\ DOMAIN recorded' = 1..(Len(recorded) + Len(batch))
      /\ \A i \in 1..Len(recorded) : recorded'[i] = recorded[i]
      /\ \A k \in 1..Len(batch) : recorded'[Len(recorded) + k] = batch[k]
      /\ \A i \in DOMAIN recorded' : i \in DOMAIN recorded \/ (i - Len(recorded)) \in 1..Len(batch)
  BY LogGrows
<1>2. DOMAIN batch = 1..Len(batch)
  OBVIOUS
<1>3. ASSUME NEW i \in DOMAIN recorded', recorded'[i].from = q
      PROVE  i \in DOMAIN recorded
  <2>1. SUFFICES ASSUME i \notin DOMAIN recorded PROVE FALSE
    OBVIOUS
  <2>2. i - Len(recorded) \in 1..Len(batch) /\ i \in Int
    BY <1>1, <2>1
  <2>3. i = Len(recorded) + (i - Len(recorded))
    BY <1>1, <2>2
  <2>4. recorded'[i] = batch[i - Len(recorded)]
    BY <1>1, <2>2, <2>3
  <2> QED BY <1>2, <1>3, <2>2, <2>4
<1>4. \A i \in DOMAIN recorded : i \in DOMAIN recorded' /\ recorded'[i] = recorded[i]
  BY <1>1
<1>5. IdsOf(q)' = IdsOf(q)
  BY <1>3, <1>4 DEF IdsOf
<1>6. \A i \in IdsOf(q) : recorded'[i] = recorded[i]
  BY <1>4 DEF IdsOf
<1>7. {recorded'[i].n : i \in IdsOf(q)'} = {recorded[i].n : i \in IdsOf(q)}
  BY <1>5, <1>6
<1> QED BY <1>5, <1>6, <1>7 DEF Numbered

LEMMA StoredStays ==
  ASSUME ActivityInv, NEW p \in Processes, NEW batch \in Seq(ObservedEvents), recorded' = recorded \o batch,
         \A k \in DOMAIN batch : batch[k].from = p,
         \A q \in Processes : q # p => queue'[q] = queue[q] /\ emitted'[q] = emitted[q],
         alive' \subseteq alive, emitted'[p] \in Nat,
         NEW stored \in 0..emitted'[p], Numbered(p, stored)'
  PROVE  StoredWithoutGap'
<1>1. ASSUME NEW q \in Processes
      PROVE  \E m \in 0..emitted'[q] : Numbered(q, m)'
  <2>1. CASE q = p
    BY <2>1
  <2>2. CASE q # p
    <3>1. ActivityKinds /\ \E m \in 0..emitted[q] : Numbered(q, m)
      BY StoredMeaning DEF ActivityInv
    <3>2. PICK m \in 0..emitted[q] : Numbered(q, m)
      BY <3>1
    <3>3. \A k \in DOMAIN batch : batch[k].from # q
      BY <2>2
    <3>4. Numbered(q, m)'
      BY <2>2, <3>1, <3>2, <3>3, NumberedStays
    <3> QED BY <2>2, <3>2, <3>4
  <2> QED BY <2>1, <2>2
<1> QED BY <1>1 DEF StoredWithoutGap, Numbered, IdsOf

\* An observation is queued behind the others of its process.
LEMMA ObserveFits ==
  ASSUME ActivityInv, NEW p \in Processes, NEW context \in Contexts, NEW row \in BOOLEAN, Observe(p, context, row)
  PROVE  ActivityInv'
<1> DEFINE event == [from |-> p, n |-> emitted'[p], context |-> context, row |-> row]
<1>0. /\ ActivityKinds /\ QueuesFit /\ ReviewsBegun /\ StoredWithoutGap /\ ReplyFits /\ StreamIsComplete
  BY DEF ActivityInv
<1>1. /\ p \in alive /\ (context = "review" => lane = "review")
      /\ emitted' = [emitted EXCEPT ![p] = @ + 1]
      /\ queue' = [queue EXCEPT ![p] = Append(@, event)]
      /\ scheduled' = [scheduled EXCEPT ![p] = TRUE]
      /\ UNCHANGED <<alive, recorded, lane, reviewed, starts, failures, pageVars>>
  BY DEF Observe
<1>2. /\ emitted'[p] = emitted[p] + 1 /\ emitted[p] \in Nat /\ emitted' \in [Processes -> Nat]
      /\ scheduled' \in [Processes -> BOOLEAN] /\ scheduled'[p]
      /\ \A q \in Processes : q # p => emitted'[q] = emitted[q] /\ scheduled'[q] = scheduled[q]
  BY <1>0, <1>1 DEF ActivityKinds
<1>3. event \in ObservedEvents /\ event.from = p /\ event.n = emitted[p] + 1 /\ event.context = context
  BY <1>2 DEF ObservedEvents
<1> HIDE DEF event
<1>4. /\ queue[p] \in Seq(ObservedEvents) /\ Len(queue[p]) \in Nat /\ DOMAIN queue[p] = 1..Len(queue[p])
      /\ <<>> \in Seq(ObservedEvents)
  BY <1>0, QueueKind
<1>5. /\ Append(queue[p], event) \in Seq(ObservedEvents)
      /\ DOMAIN Append(queue[p], event) = 1..(Len(queue[p]) + 1)
      /\ Len(Append(queue[p], event)) = Len(queue[p]) + 1
      /\ Append(queue[p], event)[Len(queue[p]) + 1] = event
      /\ \A k \in 1..Len(queue[p]) : Append(queue[p], event)[k] = queue[p][k]
  <2> DEFINE T == ObservedEvents
  <2>1. queue[p] \in Seq(T) /\ event \in T
    BY <1>3, <1>4
  <2> HIDE DEF T
  <2>2. Append(queue[p], event) \in Seq(T)
    BY <2>1
  <2>3. /\ DOMAIN Append(queue[p], event) = 1..(Len(queue[p]) + 1)
        /\ Len(Append(queue[p], event)) = Len(queue[p]) + 1
        /\ Append(queue[p], event)[Len(queue[p]) + 1] = event
        /\ \A k \in 1..Len(queue[p]) : Append(queue[p], event)[k] = queue[p][k]
    BY <2>1
  <2> QED BY <2>2, <2>3 DEF T
<1>6. /\ queue'[p] = Append(queue[p], event) /\ queue' \in [Processes -> Seq(ObservedEvents)]
      /\ \A q \in Processes : q # p => queue'[q] = queue[q]
  BY <1>0, <1>1, <1>5 DEF ActivityKinds
<1>7. ActivityKinds'
  BY <1>0, <1>1, <1>2, <1>6 DEF ActivityKinds, pageVars
<1>8. ASSUME NEW q \in Processes, NEW k \in DOMAIN queue'[q]
      PROVE  \/ q = p /\ k = Len(queue[p]) + 1 /\ queue'[q][k] = event
             \/ k \in DOMAIN queue[q] /\ queue'[q][k] = queue[q][k]
  <2>1. CASE q # p
    BY <1>6, <2>1
  <2>2. CASE q = p
    <3>1. k \in 1..Len(queue[p]) \/ k = Len(queue[p]) + 1
      BY <1>4, <1>5, <1>6, <2>2
    <3> QED BY <1>4, <1>5, <1>6, <2>2, <3>1
  <2> QED BY <2>1, <2>2
<1>9. QueuesFit'
  BY <1>0, <1>1, <1>2, <1>3, <1>6, <1>8 DEF QueuesFit
<1>10. ReviewsBegun'
  BY <1>0, <1>1, <1>3, <1>8 DEF ReviewsBegun
<1>11. StoredWithoutGap'
  <2>1. PICK stored \in 0..emitted[p] : Numbered(p, stored)
    BY <1>0, StoredMeaning
  <2>2. stored + Len(queue[p]) = emitted[p] /\ stored \in Nat
    BY <1>1, <1>2, <2>1 DEF Numbered
  <2>3. \A k \in DOMAIN queue'[p] : queue'[p][k].n = stored + k
    <3>1. SUFFICES ASSUME NEW k \in DOMAIN queue'[p] PROVE queue'[p][k].n = stored + k
      OBVIOUS
    <3>2. CASE k = Len(queue[p]) + 1 /\ queue'[p][k] = event
      BY <1>3, <1>4, <2>2, <3>2
    <3>3. CASE k \in DOMAIN queue[p] /\ queue'[p][k] = queue[p][k]
      BY <2>1, <3>3 DEF Numbered
    <3> QED BY <1>8, <3>2, <3>3
  <2>4. stored + Len(queue'[p]) = emitted'[p]
    BY <1>2, <1>4, <1>5, <1>6, <2>2
  <2>5. stored \in 0..emitted'[p]
    BY <1>2, <2>1
  <2>6. Numbered(p, stored)'
    BY <1>1, <2>1, <2>3, <2>4, <2>5 DEF Numbered, IdsOf
  <2>7. recorded' = recorded \o <<>> /\ \A k \in DOMAIN <<>> : <<>>[k].from = p
    <3> DEFINE T == ObservedEvents
    <3>1. recorded \in Seq(T)
      BY <1>0 DEF ActivityKinds
    <3> HIDE DEF T
    <3>2. recorded = recorded \o <<>>
      BY <3>1
    <3> QED BY <1>1, <3>2
  <2>8. alive' \subseteq alive /\ emitted'[p] \in Nat
    BY <1>1, <1>2
  <2> QED BY <1>2, <1>4, <1>6, <2>5, <2>6, <2>7, <2>8, StoredStays
<1>12. ReplyFits' /\ StreamIsComplete'
  <2>1. Len(recorded) \in Nat
    BY <1>0, Listed DEF ActivityKinds
  <2> QED BY <1>1, <2>1, PageStays
<1> QED BY <1>7, <1>9, <1>10, <1>11, <1>12 DEF ActivityInv

\* Places before and after the end of the log, and the numbers found there.
LEMMA Apart ==
  ASSUME NEW len \in Nat, NEW stored \in Nat, NEW j \in Int
  PROVE  /\ \A more \in Nat, x \in 1..stored : (j - len) \in 1..more => x < stored + (j - len)
         /\ \A i \in Int : i < j => stored + (i - len) < stored + (j - len)
OBVIOUS

\* A queue that was taken is stored as a whole or, when its process ends, lost as a whole.
LEMMA QueueTaken ==
  ASSUME ActivityInv, NEW p \in Processes, NEW batch \in {queue[p], <<>>},
         recorded' = recorded \o batch, batch = queue[p] \/ p \notin alive',
         queue' = [queue EXCEPT ![p] = <<>>], scheduled' = [scheduled EXCEPT ![p] = FALSE],
         alive' \in {alive, alive \ {p}},
         UNCHANGED <<emitted, lane, reviewed, starts, failures, pageVars>>
  PROVE  ActivityInv'
<1>0. /\ ActivityKinds /\ QueuesFit /\ ReviewsBegun /\ StoredWithoutGap /\ ReplyFits /\ StreamIsComplete
  BY DEF ActivityInv
<1>1. /\ queue[p] \in Seq(ObservedEvents) /\ <<>> \in Seq(ObservedEvents)
      /\ Len(queue[p]) \in Nat /\ DOMAIN queue[p] = 1..Len(queue[p])
  BY <1>0, QueueKind
<1>2. batch \in Seq(ObservedEvents)
  BY <1>1
<1>3. \A k \in DOMAIN batch : k \in DOMAIN queue[p] /\ batch[k] = queue[p][k]
  <2>1. CASE batch = queue[p]
    BY <2>1
  <2>2. CASE batch = <<>>
    BY <2>2
  <2> QED BY <2>1, <2>2
<1>4. \A k \in DOMAIN batch : batch[k].from = p
  BY <1>0, <1>3 DEF QueuesFit
<1>5. /\ recorded' \in Seq(ObservedEvents) /\ Len(recorded) \in Nat /\ Len(batch) \in Nat
      /\ Len(recorded') = Len(recorded) + Len(batch)
      /\ DOMAIN recorded = 1..Len(recorded) /\ DOMAIN recorded' = 1..(Len(recorded) + Len(batch))
      /\ \A i \in 1..Len(recorded) : recorded'[i] = recorded[i]
      /\ \A k \in 1..Len(batch) : recorded'[Len(recorded) + k] = batch[k]
      /\ \A i \in DOMAIN recorded' : i \in DOMAIN recorded \/ (i - Len(recorded)) \in 1..Len(batch)
  BY <1>0, <1>2, LogGrows
<1>b. DOMAIN batch = 1..Len(batch)
  BY <1>2, <1>3, <1>5
<1>6. /\ queue'[p] = <<>> /\ queue' \in [Processes -> Seq(ObservedEvents)]
      /\ scheduled' \in [Processes -> BOOLEAN]
      /\ \A q \in Processes : q # p => queue'[q] = queue[q] /\ scheduled'[q] = scheduled[q]
  BY <1>0, <1>1 DEF ActivityKinds
<1>7. ActivityKinds'
  BY <1>0, <1>5, <1>6 DEF ActivityKinds, pageVars
<1>8. QueuesFit'
  BY <1>0, <1>6 DEF QueuesFit
<1>9. ASSUME NEW i \in DOMAIN recorded'
      PROVE  \/ i \in DOMAIN recorded /\ recorded'[i] = recorded[i]
             \/ /\ i \notin DOMAIN recorded /\ (i - Len(recorded)) \in DOMAIN batch
                /\ recorded'[i] = batch[i - Len(recorded)]
  <2>1. CASE i \in DOMAIN recorded
    BY <1>5, <2>1
  <2>2. CASE i \notin DOMAIN recorded
    <3>1. i - Len(recorded) \in 1..Len(batch) /\ i \in Int
      BY <1>5, <2>2
    <3>2. i = Len(recorded) + (i - Len(recorded))
      BY <1>5, <3>1
    <3>3. recorded'[i] = batch[i - Len(recorded)]
      BY <1>5, <3>1, <3>2
    <3> QED BY <1>b, <2>2, <3>1, <3>3
  <2> QED BY <2>1, <2>2
<1>10. ReviewsBegun'
  <2>1. SUFFICES ASSUME ~reviewed
                 PROVE  /\ \A i \in DOMAIN recorded' : recorded'[i].context # "review"
                        /\ \A q \in Processes : \A k \in DOMAIN queue'[q] : queue'[q][k].context # "review"
    BY <1>0 DEF ReviewsBegun
  <2>2. \A k \in DOMAIN batch : batch[k].context # "review"
    BY <1>0, <1>3, <2>1 DEF ReviewsBegun
  <2>3. \A i \in DOMAIN recorded' : recorded'[i].context # "review"
    BY <1>0, <1>9, <2>1, <2>2 DEF ReviewsBegun
  <2>4. \A q \in Processes : \A k \in DOMAIN queue'[q] : queue'[q][k].context # "review"
    BY <1>0, <1>6, <2>1 DEF ReviewsBegun
  <2> QED BY <2>3, <2>4
<1>11. StoredWithoutGap'
  <2>1. PICK stored \in 0..emitted[p] : Numbered(p, stored)
    BY <1>0, StoredMeaning
  <2>2. /\ emitted[p] \in Nat /\ stored \in Nat /\ stored <= emitted[p]
        /\ {recorded[i].n : i \in IdsOf(p)} = 1..stored
        /\ \A i, j \in IdsOf(p) : i < j => recorded[i].n < recorded[j].n
        /\ \A k \in DOMAIN queue[p] : queue[p][k].n = stored + k
        /\ p \in alive => stored + Len(queue[p]) = emitted[p]
    <3>1. emitted[p] \in Nat
      BY <1>0 DEF ActivityKinds
    <3> QED BY <2>1, <3>1 DEF Numbered
  <2> DEFINE m == stored + Len(batch)
  <2>3. \A k \in DOMAIN batch : batch[k].n = stored + k
    BY <1>3, <2>2
  <2>4. batch = <<>> \/ (p \in alive /\ batch = queue[p])
    BY <1>0 DEF QueuesFit
  <2>5. m \in 0..emitted[p] /\ (p \in alive' => m = emitted[p])
    <3>1. CASE batch = <<>>
      <4>1. Len(batch) = 0 /\ m = stored
        BY <2>2, <3>1
      <4>2. p \in alive' => stored = emitted[p]
        BY <1>1, <2>2, <3>1, <4>1
      <4> QED BY <2>2, <4>1, <4>2
    <3>2. CASE p \in alive /\ batch = queue[p]
      BY <1>1, <2>2, <3>2
    <3> QED BY <2>4, <3>1, <3>2
  <2>6. \A i \in IdsOf(p) : i \in IdsOf(p)' /\ recorded'[i] = recorded[i] /\ i \in 1..Len(recorded)
    BY <1>5 DEF IdsOf
  <2>7. \A k \in DOMAIN batch : Len(recorded) + k \in IdsOf(p)' /\ recorded'[Len(recorded) + k].n = stored + k
    <3>1. SUFFICES ASSUME NEW k \in DOMAIN batch
                   PROVE  Len(recorded) + k \in IdsOf(p)' /\ recorded'[Len(recorded) + k].n = stored + k
      OBVIOUS
    <3>1a. k \in 1..Len(batch)
      BY <1>b
    <3>1b. Len(recorded) + k \in 1..(Len(recorded) + Len(batch))
      BY <1>5, <3>1a
    <3>2. Len(recorded) + k \in DOMAIN recorded' /\ recorded'[Len(recorded) + k] = batch[k]
      BY <1>5, <3>1a, <3>1b
    <3>3. batch[k].from = p /\ batch[k].n = stored + k
      BY <1>4, <2>3
    <3> QED BY <3>2, <3>3 DEF IdsOf
  <2>8. \A i \in IdsOf(p)' : \/ i \in IdsOf(p) /\ recorded'[i] = recorded[i] /\ recorded'[i].n \in 1..stored
                            \/ /\ i \notin DOMAIN recorded /\ (i - Len(recorded)) \in DOMAIN batch
                               /\ recorded'[i].n = stored + (i - Len(recorded))
    BY <1>9, <2>2, <2>3 DEF IdsOf
  <2>9. {recorded'[i].n : i \in IdsOf(p)'} = 1..m
    <3>1. ASSUME NEW i \in IdsOf(p)' PROVE recorded'[i].n \in 1..m
      <4>1. stored \in Nat /\ Len(batch) \in Nat /\ 1..stored \subseteq 1..m
        BY <1>5, <2>2
      <4>2. CASE recorded'[i].n \in 1..stored
        BY <4>1, <4>2
      <4>3. CASE (i - Len(recorded)) \in DOMAIN batch /\ recorded'[i].n = stored + (i - Len(recorded))
        <5>1. i - Len(recorded) \in 1..Len(batch)
          BY <1>b, <4>3
        <5>2. ASSUME NEW k \in 1..Len(batch) PROVE stored + k \in 1..m
          BY <4>1
        <5> QED BY <4>3, <5>1, <5>2
      <4> QED BY <2>8, <4>2, <4>3
    <3>2. ASSUME NEW x \in 1..m PROVE \E i \in IdsOf(p)' : recorded'[i].n = x
      <4>1. CASE x \in 1..stored
        <5>1. PICK i \in IdsOf(p) : recorded[i].n = x
          <6>1. x \in {recorded[i].n : i \in IdsOf(p)}
            BY <2>2, <4>1
          <6> QED BY <6>1
        <5> QED BY <2>6, <5>1
      <4>2. CASE x \notin 1..stored
        <5>1. x - stored \in DOMAIN batch /\ stored + (x - stored) = x
          BY <1>5, <1>b, <2>2, <4>2
        <5>2. /\ Len(recorded) + (x - stored) \in IdsOf(p)'
              /\ recorded'[Len(recorded) + (x - stored)].n = stored + (x - stored)
          BY <2>7, <5>1
        <5> QED BY <5>1, <5>2
      <4> QED BY <4>1, <4>2
    <3> HIDE DEF m
    <3> QED BY <3>1, <3>2
  <2>10. ASSUME NEW i \in IdsOf(p)', NEW j \in IdsOf(p)', i < j
         PROVE  recorded'[i].n < recorded'[j].n
    <3>1. i \in 1..(Len(recorded) + Len(batch)) /\ j \in 1..(Len(recorded) + Len(batch))
      BY <1>5 DEF IdsOf
    <3>2. CASE j \in DOMAIN recorded
      <4>1. i \in DOMAIN recorded
        BY <1>5, <2>10, <3>1, <3>2
      <4> QED BY <2>2, <2>8, <2>10, <3>2, <4>1
    <3>3. CASE j \notin DOMAIN recorded
      <4>1. j \in Int /\ i \in Int /\ (j - Len(recorded)) \in DOMAIN batch /\ recorded'[j].n = stored + (j - Len(recorded))
        BY <2>8, <3>1, <3>3 DEF IdsOf
      <4>2. CASE i \in DOMAIN recorded
        <5>1. recorded'[i].n \in 1..stored
          BY <2>8, <4>2
        <5>2. Len(recorded) \in Nat /\ Len(batch) \in Nat /\ stored \in Nat
          BY <1>5, <2>2
        <5>3. j - Len(recorded) \in 1..Len(batch)
          BY <1>b, <4>1
        <5>4. recorded'[i].n < stored + (j - Len(recorded))
          BY ONLY <4>1, <5>1, <5>2, <5>3, Apart
        <5> QED BY <4>1, <5>4
      <4>3. CASE i \notin DOMAIN recorded
        <5>1. recorded'[i].n = stored + (i - Len(recorded))
          BY <2>8, <4>3 DEF IdsOf
        <5>2. Len(recorded) \in Nat /\ stored \in Nat
          BY <1>5, <2>2
        <5>3. stored + (i - Len(recorded)) < stored + (j - Len(recorded))
          BY ONLY <2>10, <4>1, <5>2, Apart
        <5> QED BY <4>1, <5>1, <5>3
      <4> QED BY <4>2, <4>3
    <3> QED BY <3>2, <3>3
  <2>11. /\ \A k \in DOMAIN queue'[p] : queue'[p][k].n = m + k
         /\ p \in alive' => m + Len(queue'[p]) = emitted'[p]
    <3>1. Len(queue'[p]) = 0 /\ DOMAIN queue'[p] = {} /\ emitted'[p] = emitted[p]
      BY <1>6
    <3>2. m \in Int
      BY <2>5
    <3> HIDE DEF m
    <3> QED BY <2>5, <3>1, <3>2
  <2>12. Numbered(p, m)'
    <3> HIDE DEF m
    <3> QED BY <2>5, <2>9, <2>10, <2>11 DEF Numbered
  <2>13. emitted'[p] \in Nat /\ m \in 0..emitted'[p]
    BY <2>2, <2>5
  <2> HIDE DEF m
  <2>14. alive' \subseteq alive /\ \A q \in Processes : q # p => queue'[q] = queue[q] /\ emitted'[q] = emitted[q]
    BY <1>6
  <2> QED BY <1>2, <1>4, <2>12, <2>13, <2>14, StoredStays, ZenonT(40)
<1>12. ReplyFits' /\ StreamIsComplete'
  BY <1>5, PageStays
<1> QED BY <1>7, <1>8, <1>10, <1>11, <1>12 DEF ActivityInv

\* The store's part of the invariant, while nothing is stored or observed.
LEMMA StoreStays ==
  ASSUME ActivityInv, UNCHANGED storeVars
  PROVE  StoredWithoutGap'
BY DEF ActivityInv, StoredWithoutGap, storeVars

\* The lane may not matter to what is stored: a review begins with its row.
LEMMA KindsStay ==
  ASSUME ActivityInv, UNCHANGED storeVars, {lane', card'} \subseteq Lanes, failures' \in Nat,
         failures' >= failures, view' \in {"closed", "waiting", "answered", "stopped"},
         lane' = "review" => reviewed', reviewed' \in BOOLEAN, reviewed => reviewed'
  PROVE  ActivityKinds' /\ QueuesFit' /\ ReviewsBegun'
<1>1. ActivityKinds /\ QueuesFit /\ ReviewsBegun
  BY DEF ActivityInv
<1>2. ActivityKinds'
  BY <1>1 DEF ActivityKinds, storeVars
<1>3. QueuesFit'
  <2>1. failures > 0 => failures' > 0
    BY <1>1 DEF ActivityKinds
  <2> QED BY <1>1, <2>1 DEF QueuesFit, storeVars
<1>4. ReviewsBegun'
  BY <1>1 DEF ReviewsBegun, storeVars
<1> QED BY <1>2, <1>3, <1>4

LEMMA FlushFits ==
  ASSUME ActivityInv, NEW p \in Processes, Flush(p)
  PROVE  ActivityInv'
<1>0. /\ ActivityKinds /\ QueuesFit /\ ReviewsBegun /\ StoredWithoutGap /\ ReplyFits /\ StreamIsComplete
  BY DEF ActivityInv
<1>1. CASE /\ recorded' = recorded \o queue[p] /\ queue' = [queue EXCEPT ![p] = <<>>]
           /\ UNCHANGED failures
  <2>1. scheduled' = [scheduled EXCEPT ![p] = FALSE] /\ alive' \in {alive, alive \ {p}}
        /\ UNCHANGED <<emitted, lane, reviewed, starts, failures, pageVars>>
    BY <1>1 DEF Flush
  <2> DEFINE batch == queue[p]
  <2>2. batch \in {queue[p], <<>>} /\ recorded' = recorded \o batch /\ (batch = queue[p] \/ p \notin alive')
    BY <1>1
  <2> HIDE DEF batch
  <2> QED BY <1>1, <2>1, <2>2, QueueTaken
<1>2. CASE /\ failures < MaxFailures /\ failures' = failures + 1
           /\ queue' = [queue EXCEPT ![p] = Requeued(@)] /\ UNCHANGED recorded
  <2>1. /\ p \in alive /\ scheduled' = [scheduled EXCEPT ![p] = FALSE]
        /\ UNCHANGED <<alive, emitted, lane, reviewed, starts, pageVars>>
    BY DEF Flush
  <2>2. queue' = queue
    BY <1>0, <1>2 DEF Requeued, ActivityKinds
  <2>3. failures' \in Nat /\ failures' > 0
    BY <1>0, <1>2 DEF ActivityKinds
  <2>4. scheduled' \in [Processes -> BOOLEAN]
    BY <1>0, <2>1 DEF ActivityKinds
  <2>5. ActivityKinds'
    BY <1>0, <1>2, <2>1, <2>2, <2>3, <2>4 DEF ActivityKinds, pageVars
  <2>6. QueuesFit'
    BY <1>0, <2>1, <2>2, <2>3 DEF QueuesFit
  <2>7a. ReviewsBegun'
    BY <1>0, <1>2, <2>1, <2>2 DEF ReviewsBegun
  <2>7b. UNCHANGED <<alive, emitted, queue, recorded>>
    BY <1>2, <2>1, <2>2
  <2>7. StoredWithoutGap'
    BY <1>0, <2>7b DEF StoredWithoutGap
  <2>8. ReplyFits' /\ StreamIsComplete'
    BY <1>0, <1>2, <2>1 DEF ReplyFits, StreamIsComplete, OfRun, Ascending, pageVars
  <2> QED BY <2>5, <2>6, <2>7a, <2>7, <2>8 DEF ActivityInv
<1> QED BY <1>1, <1>2 DEF Flush

LEMMA ExitFits ==
  ASSUME ActivityInv, NEW p \in Processes, Exit(p)
  PROVE  ActivityInv'
<1>1. PICK batch \in {queue[p], <<>>} : recorded' = recorded \o batch
  BY DEF Exit
<1>2. /\ alive' = alive \ {p} /\ queue' = [queue EXCEPT ![p] = <<>>]
      /\ scheduled' = [scheduled EXCEPT ![p] = FALSE]
      /\ UNCHANGED <<emitted, lane, reviewed, starts, failures, pageVars>>
  BY DEF Exit
<1>3. p \notin alive' /\ alive' \in {alive, alive \ {p}}
  BY <1>2
<1> QED BY <1>1, <1>2, <1>3, QueueTaken

LEMMA RunAdvancesFits ==
  ASSUME ActivityInv, RunAdvances
  PROVE  ActivityInv'
<1>0. ActivityKinds /\ ReviewsBegun
  BY DEF ActivityInv
<1>1. UNCHANGED storeVars /\ UNCHANGED pageVars /\ failures' = failures /\ lane' \in Lanes
  BY DEF RunAdvances, Lanes, Live
<1>2. reviewed' = (reviewed \/ lane' = "review")
  BY DEF RunAdvances
<1>3. /\ reviewed' \in BOOLEAN /\ (reviewed => reviewed') /\ (lane' = "review" => reviewed')
  BY <1>0, <1>2 DEF ActivityKinds
<1>4. reviewed' = reviewed \/ (~reviewed /\ reviewed' = TRUE)
  BY <1>0, <1>2, <1>3 DEF ActivityKinds
<1>5. recorded' = recorded /\ Len(recorded) \in Nat
  BY <1>0, <1>1, Listed DEF ActivityKinds, storeVars
<1>6. ReplyFits' /\ StreamIsComplete'
  <2>1. Len(recorded') \in Nat /\ Len(recorded) <= Len(recorded') /\ \A i \in 1..Len(recorded) : recorded'[i] = recorded[i]
    BY <1>5
  <2>2. UNCHANGED pageVars
    BY <1>1
  <2> QED BY <1>4, <1>5, <2>1, <2>2, PageStays
<1>7. /\ {lane', card'} \subseteq Lanes /\ view' \in {"closed", "waiting", "answered", "stopped"}
      /\ failures' \in Nat /\ failures' >= failures
  BY <1>0, <1>1 DEF ActivityKinds, pageVars
<1>8. ActivityKinds' /\ QueuesFit' /\ ReviewsBegun'
  BY <1>1, <1>3, <1>7, KindsStay
<1>9. StoredWithoutGap'
  BY <1>1, StoreStays
<1> QED BY <1>6, <1>8, <1>9 DEF ActivityInv

\* An answer has the first of the rows that follow, so none of those before its last is missing.
LEMMA AnswerHasFirst ==
  ASSUME ActivityInv, after' = after, shown' = shown, recorded' = recorded, reviewed' = reviewed,
         reply' = Activity(after), view' = "answered"
  PROVE  ReplyFits'
<1>0. ReplyFits /\ Len(recorded) \in Nat /\ DOMAIN recorded = 1..Len(recorded)
  <2>1. ReplyFits /\ ActivityKinds
    BY DEF ActivityInv
  <2> QED BY <2>1, Listed DEF ActivityKinds
<1> DEFINE ids == {i \in DOMAIN recorded : i > after /\ OfRun(recorded[i])}
           EarlierIds(i) == {j \in ids : j < i}
<1>1. after \in Nat /\ after <= Len(recorded)
  BY <1>0 DEF ReplyFits
<1>2. reply' = {i \in ids : Cardinality(EarlierIds(i)) < Limit}
  BY DEF Activity
<1>3. \A i \in ids : i \in 1..Len(recorded) /\ after < i /\ OfRun(recorded[i])
  BY <1>0, <1>1
<1>4. ASSUME NEW i \in reply', NEW j \in 1..(i - 1), after < j, OfRun(recorded[j])
      PROVE  j \in reply'
  <2>1. i \in ids /\ Cardinality(EarlierIds(i)) < Limit /\ i \in 1..Len(recorded)
    BY <1>2, <1>3
  <2>2. j \in 1..Len(recorded) /\ j < i
    BY <1>0, <2>1
  <2>3. j \in ids
    BY <1>0, <1>1, <1>4, <2>2
  <2>4. EarlierIds(j) \subseteq EarlierIds(i)
    <3>1. ASSUME NEW k \in EarlierIds(j) PROVE k \in EarlierIds(i)
      <4>1. k \in ids /\ k \in 1..Len(recorded) /\ k < j
        BY <1>3
      <4>2. k < i
        BY <1>0, <2>1, <2>2, <4>1
      <4> QED BY <4>1, <4>2
    <3> QED BY <3>1
  <2>5. IsFiniteSet(EarlierIds(i)) /\ IsFiniteSet(EarlierIds(j))
    <3>1. IsFiniteSet(1..Len(recorded))
      BY <1>0, FS_Interval
    <3>2. EarlierIds(i) \subseteq 1..Len(recorded) /\ EarlierIds(j) \subseteq 1..Len(recorded)
      BY <1>3
    <3> QED BY <3>1, <3>2, FS_Subset
  <2>6. Cardinality(EarlierIds(j)) <= Cardinality(EarlierIds(i))
    BY <2>4, <2>5, FS_Subset
  <2>7. Cardinality(EarlierIds(j)) \in Nat /\ Cardinality(EarlierIds(i)) \in Nat /\ Limit \in Nat
    BY <2>5, FS_CardinalityType, ActivityAssumption
  <2>8. Cardinality(EarlierIds(j)) < Limit
    BY <2>1, <2>6, <2>7
  <2> QED BY <1>2, <2>3, <2>8
<1>5. \A i \in reply' : i \in 1..Len(recorded) /\ after < i /\ OfRun(recorded[i])
  BY <1>2, <1>3
<1> HIDE DEF ids
<1> QED BY <1>0, <1>4, <1>5 DEF ReplyFits, OfRun

LEMMA AscendingExtended ==
  ASSUME NEW A \in SUBSET Nat, NEW B \in SUBSET Nat, NEW s \in Seq(Nat), NEW t \in Seq(Nat),
         Ascending(s, A), Ascending(t, B), \A a \in A, b \in B : a < b
  PROVE  Ascending(s \o t, A \cup B)
<1>2. /\ s \o t \in Seq(Nat) /\ Len(s) \in Nat /\ Len(t) \in Nat /\ Len(s \o t) = Len(s) + Len(t)
      /\ DOMAIN s = 1..Len(s) /\ DOMAIN t = 1..Len(t) /\ DOMAIN (s \o t) = 1..(Len(s) + Len(t))
      /\ \A i \in 1..Len(s) : (s \o t)[i] = s[i]
      /\ \A k \in 1..Len(t) : (s \o t)[Len(s) + k] = t[k]
      /\ \A i \in 1..(Len(s) + Len(t)) : i \in 1..Len(s) \/ (i - Len(s)) \in 1..Len(t)
  BY Joined
<1>3. /\ {s[i] : i \in DOMAIN s} = A /\ {t[k] : k \in DOMAIN t} = B
      /\ \A i, j \in DOMAIN s : i < j => s[i] < s[j]
      /\ \A i, j \in DOMAIN t : i < j => t[i] < t[j]
  BY DEF Ascending, Range
<1>4. ASSUME NEW i \in DOMAIN (s \o t)
      PROVE  \/ i \in DOMAIN s /\ (s \o t)[i] = s[i] /\ s[i] \in A
             \/ /\ i \in Int /\ i \notin DOMAIN s /\ i - Len(s) \in DOMAIN t
                /\ (s \o t)[i] = t[i - Len(s)] /\ t[i - Len(s)] \in B
  <2>1. CASE i \in DOMAIN s
    BY <1>2, <1>3, <2>1
  <2>2. CASE i \notin DOMAIN s
    <3>1. i - Len(s) \in 1..Len(t) /\ i \in Int
      BY <1>2, <2>2
    <3>2. i = Len(s) + (i - Len(s))
      BY <1>2, <3>1
    <3>3. (s \o t)[i] = t[i - Len(s)]
      BY <1>2, <3>1, <3>2
    <3> QED BY <1>2, <1>3, <2>2, <3>1, <3>3
  <2> QED BY <2>1, <2>2
<1>5. Range(s \o t) = A \cup B
  <2>1. ASSUME NEW i \in DOMAIN (s \o t) PROVE (s \o t)[i] \in A \cup B
    BY <1>4
  <2>2. ASSUME NEW a \in A PROVE \E i \in DOMAIN (s \o t) : (s \o t)[i] = a
    <3>1. PICK i \in DOMAIN s : s[i] = a
      BY <1>3
    <3>2. i \in DOMAIN (s \o t)
      BY <1>2
    <3> QED BY <1>2, <3>1, <3>2
  <2>3. ASSUME NEW b \in B PROVE \E i \in DOMAIN (s \o t) : (s \o t)[i] = b
    <3>1. PICK k \in DOMAIN t : t[k] = b
      BY <1>3
    <3>2. k \in 1..Len(t)
      BY <1>2
    <3>3. Len(s) + k \in 1..(Len(s) + Len(t))
      BY <1>2, <3>2
    <3> QED BY <1>2, <3>1, <3>2, <3>3
  <2> QED BY <2>1, <2>2, <2>3 DEF Range
<1>6. ASSUME NEW i \in DOMAIN (s \o t), NEW j \in DOMAIN (s \o t), i < j
      PROVE  (s \o t)[i] < (s \o t)[j]
  <2>1. i \in 1..(Len(s) + Len(t)) /\ j \in 1..(Len(s) + Len(t))
    BY <1>2
  <2>2. CASE j \in DOMAIN s
    <3>1. i \in DOMAIN s
      BY <1>2, <1>6, <2>1, <2>2
    <3> QED BY <1>2, <1>3, <1>6, <2>2, <3>1
  <2>3. CASE j \notin DOMAIN s /\ i \in DOMAIN s
    BY <1>4, <2>3
  <2>4. CASE j \notin DOMAIN s /\ i \notin DOMAIN s
    <3>1. /\ i - Len(s) \in DOMAIN t /\ (s \o t)[i] = t[i - Len(s)]
          /\ j - Len(s) \in DOMAIN t /\ (s \o t)[j] = t[j - Len(s)]
      BY <1>4, <2>4
    <3>2. i - Len(s) < j - Len(s)
      BY <1>2, <1>6, <2>1
    <3>3. t[i - Len(s)] < t[j - Len(s)]
      BY <1>3, <3>1, <3>2
    <3> QED BY <3>1, <3>3
  <2> QED BY <2>2, <2>3, <2>4
<1> QED BY <1>5, <1>6 DEF Ascending

LEMMA LastOrBefore == ASSUME NEW a \in Int, NEW i \in 1..a PROVE i = a \/ i \in 1..(a - 1)
OBVIOUS

\* The page appends the rows of the answer, which are those up to the last it came with.
LEMMA PaintFits ==
  ASSUME ActivityInv, Paint
  PROVE  ReplyFits' /\ StreamIsComplete'
<1>0. /\ ReplyFits /\ StreamIsComplete /\ Len(recorded) \in Nat
      /\ UNCHANGED <<recorded, reviewed>> /\ reply' = {} /\ after' \in Seen(reply)
  <2>1. ReplyFits /\ StreamIsComplete /\ ActivityKinds
    BY DEF ActivityInv
  <2> QED BY <2>1, Listed DEF ActivityKinds, Paint, storeVars
<1> DEFINE rows == {i \in reply : recorded[i].row}
           Old  == {i \in 1..after : OfRun(recorded[i]) /\ recorded[i].row}
           New  == {i \in 1..after' : OfRun(recorded[i]) /\ recorded[i].row}
<1>1. PICK painted \in [1..Cardinality(rows) -> rows] : Ascending(painted, rows) /\ shown' = shown \o painted
  BY DEF Paint
<1>2. after \in Nat /\ after <= Len(recorded) /\ reply \subseteq 1..Len(recorded) /\ shown \in Seq(Nat)
  BY <1>0 DEF ReplyFits
<1>3. rows \subseteq Nat /\ Old \subseteq Nat /\ rows \subseteq 1..Len(recorded)
  <2>1. rows \subseteq reply /\ Old \subseteq 1..after
    OBVIOUS
  <2> HIDE DEF rows, Old
  <2> QED BY <1>0, <1>2, <2>1
<1>4. painted \in Seq(Nat)
  <2> HIDE DEF rows
  <2>1. IsFiniteSet(rows)
    <3>1. IsFiniteSet(1..Len(recorded))
      BY <1>0, FS_Interval
    <3> QED BY <1>3, <3>1, FS_Subset
  <2>2. Cardinality(rows) \in Nat
    BY <2>1, FS_CardinalityType
  <2>3. painted \in [1..Cardinality(rows) -> Nat]
    BY <1>1, <1>3
  <2> QED BY <2>2, <2>3
<1>5. Ascending(shown, Old)
  BY <1>0 DEF StreamIsComplete
<1>6. \A a \in Old, b \in rows : a < b
  BY <1>0, <1>2 DEF ReplyFits
<1>7. /\ after' \in Nat /\ after <= after' /\ after' <= Len(recorded)
      /\ after' = after \/ after' \in reply
      /\ \A j \in reply : j <= after'
  <2>1. (after' = after \/ after' \in reply) /\ \A j \in reply : j <= after'
    BY <1>0 DEF Seen
  <2>2. CASE after' = after
    BY <1>2, <2>1, <2>2
  <2>3. CASE after' \in reply
    <3>1. after < after' /\ after' \in 1..Len(recorded)
      BY <1>0, <1>2, <2>3 DEF ReplyFits
    <3> QED BY <1>0, <1>2, <2>1, <3>1
  <2> QED BY <2>1, <2>2, <2>3
<1>8. New = Old \cup rows
  <2>1. ASSUME NEW i \in New PROVE i \in Old \cup rows
    <3>1. i \in 1..after' /\ OfRun(recorded[i]) /\ recorded[i].row
      OBVIOUS
    <3>2. CASE i <= after
      BY <1>2, <1>7, <3>1, <3>2
    <3>3. CASE ~(i <= after)
      <4>1. after < i /\ after' \in reply
        BY <1>2, <1>7, <3>1, <3>3
      <4>2. i = after' \/ i \in 1..(after' - 1)
        <5>1. after' \in Int /\ i \in 1..after'
          BY <1>7, <3>1
        <5>2. \A a \in Int : \A k \in 1..a : k = a \/ k \in 1..(a - 1)
          BY LastOrBefore
        <5> QED BY ONLY <5>1, <5>2
      <4>3. i \in reply
        BY <1>0, <3>1, <4>1, <4>2 DEF ReplyFits
      <4> QED BY <3>1, <4>3
    <3> QED BY <3>2, <3>3
  <2>2. ASSUME NEW i \in Old PROVE i \in New
    BY <1>2, <1>7
  <2>3. ASSUME NEW i \in rows PROVE i \in New
    <3>1. i \in reply /\ recorded[i].row /\ OfRun(recorded[i]) /\ i \in 1..Len(recorded) /\ i <= after'
      BY <1>0, <1>2, <1>7 DEF ReplyFits
    <3> QED BY <1>0, <1>7, <3>1
  <2> HIDE DEF New, Old, rows
  <2> QED BY <2>1, <2>2, <2>3
<1>9. Ascending(shown \o painted, Old \cup rows)
  <2> HIDE DEF Old, rows
  <2> QED BY <1>1, <1>2, <1>3, <1>4, <1>5, <1>6, AscendingExtended
<1>10. Ascending(shown', New)
  BY <1>1, <1>8, <1>9
<1>11. StreamIsComplete'
  BY <1>0, <1>10 DEF StreamIsComplete, OfRun, Ascending
<1>12. shown' \in Seq(Nat)
  BY <1>1, <1>2, <1>4
<1>13. ReplyFits'
  BY <1>0, <1>7, <1>12 DEF ReplyFits
<1> QED BY <1>11, <1>13

LEMMA PageFits ==
  ASSUME ActivityInv, Open \/ Serve \/ Lose \/ Paint \/ LoadBoard
  PROVE  ActivityInv'
<1>0. ActivityKinds /\ ReplyFits /\ StreamIsComplete /\ ReviewsBegun
  BY DEF ActivityInv
<1>1. UNCHANGED storeVars /\ lane' = lane /\ reviewed' = reviewed
  BY DEF Open, Serve, Lose, Paint, LoadBoard
<1>2. card' \in Lanes /\ view' \in {"closed", "waiting", "answered", "stopped"}
  BY <1>0 DEF Open, Serve, Lose, Paint, LoadBoard, ActivityKinds, Lanes, Live
<1>3. failures' \in Nat /\ failures' >= failures
  BY <1>0 DEF Open, Serve, Lose, Paint, LoadBoard, ActivityKinds
<1>4. /\ {lane', card'} \subseteq Lanes /\ reviewed' \in BOOLEAN /\ (reviewed => reviewed')
      /\ (lane' = "review" => reviewed')
  BY <1>0, <1>1, <1>2 DEF ActivityKinds, ReviewsBegun
<1>5. ActivityKinds' /\ QueuesFit' /\ ReviewsBegun'
  BY <1>1, <1>2, <1>3, <1>4, KindsStay
<1>6. StoredWithoutGap'
  BY <1>1, StoreStays
<1>7. recorded' = recorded
  BY <1>1 DEF storeVars
<1>8. ReplyFits' /\ StreamIsComplete'
  <2>1. CASE Paint
    BY <2>1, PaintFits
  <2>2. CASE Serve
    <3>1. /\ after' = after /\ shown' = shown /\ reply' = Activity(after) /\ view' = "answered"
      BY <2>2 DEF Serve
    <3>2. ReplyFits'
      BY <1>1, <1>7, <3>1, AnswerHasFirst
    <3> QED BY <1>0, <1>1, <1>7, <3>1, <3>2 DEF StreamIsComplete, OfRun, Ascending
  <2>3. CASE Open \/ Lose \/ LoadBoard
    <3>1. after' = after /\ shown' = shown /\ (view' # "answered" => reply' = {}) /\ reply' \in {reply, {}}
      BY <1>0, <2>3 DEF Open, Lose, LoadBoard, ReplyFits
    <3> QED BY <1>0, <1>1, <1>7, <3>1 DEF ReplyFits, StreamIsComplete, OfRun, Ascending
  <2> QED BY <2>1, <2>2, <2>3
<1> QED BY <1>5, <1>6, <1>8 DEF ActivityInv

LEMMA ActivityBegins == ASSUME ActivityInit PROVE ActivityInv
<1>1. ActivityKinds
  <2> DEFINE T == ObservedEvents
  <2> HIDE DEF T
  <2>1. <<>> \in Seq(T)
    OBVIOUS
  <2>2. /\ queue \in [Processes -> Seq(T)] /\ recorded \in Seq(T)
    BY <2>1 DEF ActivityInit
  <2>3. /\ queue \in [Processes -> Seq(ObservedEvents)] /\ recorded \in Seq(ObservedEvents)
    BY <2>2 DEF T
  <2> QED BY <2>3 DEF ActivityKinds, ActivityInit, Lanes, Live
<1>2. QueuesFit /\ ReviewsBegun
  BY DEF ActivityInit, QueuesFit, ReviewsBegun
<1>3. StoredWithoutGap
  <2>1. SUFFICES ASSUME NEW p \in Processes PROVE \E stored \in 0..emitted[p] : Numbered(p, stored)
    BY DEF StoredWithoutGap, Numbered, IdsOf
  <2>2. /\ emitted[p] = 0 /\ queue[p] = <<>> /\ IdsOf(p) = {}
    BY DEF ActivityInit, IdsOf
  <2>3. Numbered(p, 0)
    BY <2>2 DEF Numbered
  <2>4. 0 \in 0..emitted[p]
    BY <2>2
  <2> QED BY <2>3, <2>4
<1>4. ReplyFits /\ StreamIsComplete
  BY DEF ActivityInit, ReplyFits, StreamIsComplete, Ascending, Range
<1> QED BY <1>1, <1>2, <1>3, <1>4 DEF ActivityInv

LEMMA ActivityStutters == ASSUME ActivityInv, UNCHANGED activityVars PROVE ActivityInv'
<1>1. UNCHANGED storeVars /\ UNCHANGED pageVars /\ UNCHANGED <<lane, reviewed, failures>>
  BY DEF activityVars, storeVars, pageVars
<1>2. ActivityKinds /\ QueuesFit /\ ReviewsBegun /\ ReplyFits /\ StreamIsComplete
  BY DEF ActivityInv
<1>3. ActivityKinds' /\ QueuesFit'
  BY <1>1, <1>2 DEF ActivityKinds, QueuesFit, storeVars, pageVars
<1>4. ReviewsBegun'
  BY <1>1, <1>2 DEF ReviewsBegun, storeVars
<1>5. StoredWithoutGap'
  BY <1>1, StoreStays
<1>6. ReplyFits' /\ StreamIsComplete'
  BY <1>1, <1>2 DEF ReplyFits, StreamIsComplete, OfRun, Ascending, storeVars, pageVars
<1> QED BY <1>3, <1>4, <1>5, <1>6 DEF ActivityInv

LEMMA ActivityStep == ASSUME ActivityInv, [ActivityNext]_activityVars PROVE ActivityInv'
<1>1. ASSUME NEW p \in Processes, NEW context \in Contexts, NEW row \in BOOLEAN, Observe(p, context, row)
      PROVE  ActivityInv'
  BY <1>1, ObserveFits
<1>2. ASSUME NEW p \in Processes, Flush(p) PROVE ActivityInv'
  BY <1>2, FlushFits
<1>3. ASSUME NEW p \in Processes, Exit(p) PROVE ActivityInv'
  BY <1>3, ExitFits
<1>4. CASE RunAdvances
  BY <1>4, RunAdvancesFits
<1>5. CASE Open \/ Serve \/ Lose \/ Paint \/ LoadBoard
  BY <1>5, PageFits
<1>6. CASE UNCHANGED activityVars
  BY <1>6, ActivityStutters
<1> QED BY <1>1, <1>2, <1>3, <1>4, <1>5, <1>6 DEF ActivityNext

LEMMA ActivityInvariant == ASSUME ActivityInv PROVE ActivityIsComplete
<1>1. ActivityKinds /\ QueuesFit /\ StoredWithoutGap /\ ReplyFits /\ StreamIsComplete
  BY DEF ActivityInv
<1>2. Len(recorded) \in Nat
  BY <1>1, Listed DEF ActivityKinds
<1>3. Range(shown) \subseteq 1..Len(recorded)
  <2>1. Range(shown) = {i \in 1..after : OfRun(recorded[i]) /\ recorded[i].row}
    BY <1>1 DEF StreamIsComplete, Ascending
  <2>2. after \in Nat /\ after <= Len(recorded)
    BY <1>1 DEF ReplyFits
  <2> QED BY <1>2, <2>1, <2>2
<1>4. ActivityTypeOK
  BY <1>1, <1>3 DEF ActivityTypeOK, ActivityKinds, QueuesFit, ReplyFits
<1> QED BY <1>1, <1>4 DEF ActivityIsComplete

LEMMA ActivityCompleteAlways == ActivitySpec => []ActivityIsComplete
<1>1. ActivityInv /\ [ActivityNext]_activityVars => ActivityInv'
  BY ActivityStep
<1> QED BY <1>1, ActivityBegins, ActivityInvariant, PTL DEF ActivitySpec

(***************************************************************************)
(* The integrated worktree.                                                *)
(***************************************************************************)
LEMMA TasksFinite == IsFiniteSet(Tasks) /\ \A i \in DOMAIN TaskOrder : TaskOrder[i] \in Tasks
<1>1. DOMAIN TaskOrder = 1..Len(TaskOrder) /\ Len(TaskOrder) \in Nat
  BY AssemblyAssumption
<1>2. TaskOrder \in Surjection(1..Len(TaskOrder), Tasks)
  BY <1>1, AssemblyAssumption DEF Surjection, Tasks, Range
<1>3. IsFiniteSet(1..Len(TaskOrder))
  BY <1>1, FS_Interval
<1> QED BY <1>2, <1>3, FS_Surjection DEF Tasks, Range

LEMMA PlanIsGraph ==
  ASSUME NEW d \in Plans
  PROVE  /\ Graph(d, Tasks) /\ DOMAIN d = Tasks /\ IsAcyclic(d) /\ Target \in Tasks /\ d[Target] # {}
         /\ \A t \in Tasks : t \notin d[t] /\ d[t] \subseteq Tasks
<1>1. d \in [Tasks -> SUBSET Tasks] /\ IsDependencyGraph(d) /\ d[Target] # {} /\ Target \in Tasks
  BY AssemblyAssumption
<1> QED BY <1>1 DEF Graph, IsDependencyGraph, NoSelfEdge

\* The layers of a plan are numbered from 1.
LEMMA LayersNumbered ==
  ASSUME NEW d \in Plans
  PROVE  DOMAIN Layers(d) = 1..Len(Layers(d)) /\ Len(Layers(d)) \in Nat
<1> DEFINE s == LayersOf(d)[Tasks]
<1>1. Graph(d, Tasks) /\ DOMAIN d = Tasks /\ IsAcyclic(d) /\ IsFiniteSet(Tasks)
  BY PlanIsGraph, TasksFinite
<1>2. LayersFit(d, Tasks, s)
  BY <1>1, LayersAreFit
<1>3. Layers(d) = s
  BY <1>1, <1>2 DEF Layers, LayersFit, Held
<1> HIDE DEF s
<1>4. s \in Seq(SUBSET Tasks)
  BY <1>2 DEF LayersFit
<1> QED BY <1>3, <1>4

LEMMA PlanLayers ==
  ASSUME NEW d \in Plans
  PROVE  /\ \A i, j \in DOMAIN Layers(d) : i # j => Layers(d)[i] \cap Layers(d)[j] = {}
         /\ \A i \in DOMAIN Layers(d) : \A t \in Layers(d)[i] :
              Ancestors(d)[t] \subseteq UNION {Layers(d)[j] : j \in 1..(i - 1)}
BY PlanIsGraph, TasksFinite, LayersFollow

\* Nothing comes before itself, nor before what it depends on.
LEMMA PrecedesFits ==
  ASSUME NEW d \in Plans, NEW t \in Tasks, NEW u \in Tasks, Precedes(d, t, u)
  PROVE  t # u /\ u \notin d[t]
<1> DEFINE layers == Layers(d)
<1>1. PICK i \in DOMAIN layers, j \in DOMAIN layers :
        /\ t \in layers[i] /\ u \in layers[j]
        /\ \/ i < j
           \/ i = j /\ \E k, l \in DOMAIN TaskOrder : k < l /\ TaskOrder[k] = t /\ TaskOrder[l] = u
  BY DEF Precedes
<1>2. DOMAIN layers = 1..Len(layers) /\ Len(layers) \in Nat
  BY LayersNumbered
<1>3. \A a, b \in DOMAIN layers : a # b => layers[a] \cap layers[b] = {}
  BY PlanLayers
<1>4. Ancestors(d)[t] \subseteq UNION {layers[c] : c \in 1..(i - 1)}
  BY <1>1, PlanLayers
<1> HIDE DEF layers
<1>5. i \in Nat /\ j \in Nat /\ i <= j
  BY <1>1, <1>2
<1>6. t # u
  <2>1. SUFFICES ASSUME t = u PROVE FALSE
    OBVIOUS
  <2>2. i = j
    BY <1>1, <1>3, <2>1
  <2>3. PICK k \in DOMAIN TaskOrder, l \in DOMAIN TaskOrder : k < l /\ TaskOrder[k] = t /\ TaskOrder[l] = u
    BY <1>1, <1>5, <2>2
  <2>4. k = l
    BY <2>1, <2>3, AssemblyAssumption
  <2>5. k \in Int
    BY AssemblyAssumption
  <2> QED BY <2>3, <2>4, <2>5
<1>7. ASSUME u \in d[t] PROVE FALSE
  <2>1. u \in Ancestors(d)[t]
    BY <1>7, PlanIsGraph DEF Ancestors
  <2>2. PICK c \in 1..(i - 1) : u \in layers[c]
    BY <1>4, <2>1
  <2>3. c \in DOMAIN layers /\ c # j
    BY <1>1, <1>2, <1>5, <2>2
  <2> QED BY <1>1, <1>3, <2>2, <2>3
<1> QED BY <1>6, <1>7

LEMMA NeededFits ==
  ASSUME NEW d \in Plans
  PROVE  /\ Prerequisites(d) \subseteq Tasks /\ IsFiniteSet(Prerequisites(d))
         /\ Cardinality(Prerequisites(d)) \in Nat /\ Prerequisites(d) # {}
         /\ d[Target] \subseteq Prerequisites(d)
         /\ \A t \in Prerequisites(d) : d[t] \subseteq Prerequisites(d)
         /\ \A S \in SUBSET Tasks : d[Target] \subseteq S /\ (\A t \in S : d[t] \subseteq S) => Prerequisites(d) \subseteq S
<1>1. /\ Graph(d, Tasks) /\ DOMAIN d = Tasks /\ Target \in Tasks /\ d[Target] # {}
      /\ \A t \in Tasks : d[t] \subseteq Tasks
  BY PlanIsGraph
<1>2. Prerequisites(d) =
        {a \in Tasks : \A S \in SUBSET Tasks : d[Target] \subseteq S /\ Closed(d, S) => a \in S}
  BY <1>1 DEF Prerequisites, Ancestors
<1>3. Prerequisites(d) \subseteq Tasks
  BY <1>2
<1>4. IsFiniteSet(Prerequisites(d))
  BY <1>3, TasksFinite, FS_Subset
<1>5. d[Target] \subseteq Prerequisites(d)
  BY <1>1, <1>2
<1>6. ASSUME NEW t \in Prerequisites(d) PROVE d[t] \subseteq Prerequisites(d)
  <2>1. \A S \in SUBSET Tasks : d[Target] \subseteq S /\ Closed(d, S) => d[t] \subseteq S
    BY <1>2 DEF Closed
  <2> QED BY <1>1, <1>2, <1>3, <2>1
<1>7. ASSUME NEW S \in SUBSET Tasks, d[Target] \subseteq S, \A t \in S : d[t] \subseteq S
      PROVE  Prerequisites(d) \subseteq S
  BY <1>2, <1>7 DEF Closed
<1> QED BY <1>1, <1>3, <1>4, <1>5, <1>6, <1>7, FS_CardinalityType

\* A stack has every prerequisite once, after those it depends on.
LEMMA StackFits ==
  ASSUME NEW d \in Plans, NEW s \in Stack(d)
  PROVE  /\ s \in Seq(Tasks) /\ s # <<>> /\ DOMAIN s = 1..Len(s) /\ Len(s) \in Nat
         /\ Range(s) = Prerequisites(d) /\ Len(s) = Cardinality(Range(s))
         /\ \A i, j \in DOMAIN s : s[i] \in d[s[j]] => i < j
<1> DEFINE needed == Prerequisites(d)
           n == Cardinality(needed)
<1>1. /\ needed \subseteq Tasks /\ IsFiniteSet(needed) /\ n \in Nat /\ needed # {}
  BY NeededFits
<1>2. s \in [1..n -> needed] /\ \A i, j \in DOMAIN s : i < j => Precedes(d, s[i], s[j])
  BY DEF Stack
<1>n. n # 0
  BY <1>1, FS_EmptySet
<1> HIDE DEF needed
<1> HIDE DEF n
<1>3. DOMAIN s = 1..n /\ \A i \in 1..n : s[i] \in needed /\ s[i] \in Tasks
  BY <1>1, <1>2
<1>4. s \in Seq(Tasks) /\ Len(s) = n /\ s # <<>>
  BY <1>1, <1>3, <1>2, <1>n
<1>5. ASSUME NEW i \in 1..n, NEW j \in 1..n, i # j PROVE s[i] # s[j]
  <2>1. i < j \/ j < i
    BY <1>1, <1>5
  <2>2. CASE i < j
    BY <1>2, <1>3, <2>2, PrecedesFits
  <2>3. CASE j < i
    BY <1>2, <1>3, <2>3, PrecedesFits
  <2> QED BY <2>1, <2>2, <2>3
<1>6. s \in Injection(1..n, needed)
  BY <1>2, <1>5 DEF Injection, IsInjective
<1>7. Cardinality(1..n) = n
  BY <1>1, FS_Interval
<1>8. s \in Surjection(1..n, needed)
  <2>1. Cardinality(1..n) = Cardinality(needed)
    BY <1>7 DEF n
  <2> QED BY <1>1, <1>6, <2>1, FS_Injection
<1>9. Range(s) = needed
  BY <1>2, <1>3, <1>8 DEF Surjection, Range
<1>10. ASSUME NEW i \in 1..n, NEW j \in 1..n, s[i] \in d[s[j]] PROVE i < j
  <2>1. SUFFICES ASSUME ~(i < j) PROVE FALSE
    OBVIOUS
  <2>2. i = j \/ j < i
    BY <1>1, <2>1
  <2>3. CASE i = j
    BY <1>3, <1>10, <2>3, PlanIsGraph
  <2>4. CASE j < i
    BY <1>2, <1>3, <1>10, <2>4, PrecedesFits
  <2> QED BY <2>2, <2>3, <2>4
<1> QED BY <1>1, <1>3, <1>4, <1>9, <1>10 DEF needed, n

\* Of two tasks of a plan one is applied before the other.
LEMMA PrecedesOrders ==
  ASSUME NEW d \in Plans, NEW t \in Tasks, NEW u \in Tasks
  PROVE  /\ t = u \/ Precedes(d, t, u) \/ Precedes(d, u, t)
         /\ Precedes(d, t, u) => t # u /\ ~Precedes(d, u, t)
         /\ \A w \in Tasks : Precedes(d, t, u) /\ Precedes(d, u, w) => Precedes(d, t, w)
<1> DEFINE layers == Layers(d)
           Sooner(x, y) == \E k, l \in DOMAIN TaskOrder : k < l /\ TaskOrder[k] = x /\ TaskOrder[l] = y
<1>1. DOMAIN layers \subseteq Int
  BY LayersNumbered
<1>2. \A i, j \in DOMAIN layers : i # j => layers[i] \cap layers[j] = {}
  BY PlanLayers
<1>3. UNION {layers[i] : i \in DOMAIN layers} = Tasks
  BY PlanIsGraph, TasksFinite, LayersFollow
<1>4. \A x, y : Precedes(d, x, y) <=> \E i, j \in DOMAIN layers : /\ x \in layers[i] /\ y \in layers[j]
                                                                  /\ i < j \/ (i = j /\ Sooner(x, y))
  BY DEF Precedes
<1>5. DOMAIN TaskOrder \subseteq Int /\ \A k, l \in DOMAIN TaskOrder : TaskOrder[k] = TaskOrder[l] => k = l
  BY AssemblyAssumption
<1>6. \A x \in Tasks : \E k \in DOMAIN TaskOrder : TaskOrder[k] = x
  BY DEF Tasks, Range
<1>i. \A a, b, c \in Int : /\ a = b \/ a < b \/ b < a
                           /\ a < b => a # b /\ ~(b < a)
                           /\ a < b /\ b < c => a < c
  OBVIOUS
<1> HIDE DEF layers
<1>7. \A x, y \in Tasks : x = y \/ Sooner(x, y) \/ Sooner(y, x)
  BY <1>5, <1>6, <1>i
<1>8. \A x, y : Sooner(x, y) => ~Sooner(y, x)
  BY <1>5, <1>i
<1>9. \A x, y, z : Sooner(x, y) /\ Sooner(y, z) => Sooner(x, z)
  BY <1>5, <1>i
<1> HIDE DEF Sooner
<1>10. PICK i \in DOMAIN layers, j \in DOMAIN layers : t \in layers[i] /\ u \in layers[j]
  BY <1>3
<1>11. \A a \in DOMAIN layers : (t \in layers[a] <=> a = i) /\ (u \in layers[a] <=> a = j)
  BY <1>2, <1>10
<1>12. Precedes(d, t, u) <=> i < j \/ (i = j /\ Sooner(t, u))
  BY <1>4, <1>10, <1>11
<1>13. Precedes(d, u, t) <=> j < i \/ (j = i /\ Sooner(u, t))
  BY <1>4, <1>10, <1>11
<1>14. i \in Int /\ j \in Int
  BY <1>1
<1>15. t = u \/ Precedes(d, t, u) \/ Precedes(d, u, t)
  BY <1>7, <1>12, <1>13, <1>14, <1>i
<1>16. Precedes(d, t, u) => t # u /\ ~Precedes(d, u, t)
  BY <1>8, <1>12, <1>13, <1>14, <1>i, PrecedesFits
<1>17. ASSUME NEW w \in Tasks, Precedes(d, t, u), Precedes(d, u, w) PROVE Precedes(d, t, w)
  <2>1. PICK k \in DOMAIN layers : w \in layers[k] /\ (j < k \/ (j = k /\ Sooner(u, w)))
    BY <1>4, <1>11, <1>17
  <2>2. i < j \/ (i = j /\ Sooner(t, u))
    BY <1>12, <1>17
  <2>3. k \in Int
    BY <1>1
  <2>4. i < k \/ (i = k /\ Sooner(t, w))
    BY <1>9, <1>14, <1>i, <2>1, <2>2, <2>3
  <2> QED BY <1>4, <1>10, <2>1, <2>4
<1> QED BY <1>15, <1>16, <1>17

\* The code sorts what the model only relates: for every plan there is one stack, so a
\* plan without blockers is never left without one, and no other is admitted.
THEOREM OneStack == \A d \in Plans : \E s : Stack(d) = {s}
<1> SUFFICES ASSUME NEW d \in Plans PROVE \E s : Stack(d) = {s}
  OBVIOUS
<1> DEFINE needed == Prerequisites(d)
           R == {p \in Tasks \X Tasks : Precedes(d, p[1], p[2])}
<1>1. needed \subseteq Tasks /\ IsFiniteSet(needed)
  BY NeededFits
<1>2. \A t, u \in Tasks : <<t, u>> \in R <=> Precedes(d, t, u)
  OBVIOUS
<1> HIDE DEF R
<1>3. \A t, u, w \in Tasks : /\ t = u \/ Precedes(d, t, u) \/ Precedes(d, u, t)
                             /\ Precedes(d, t, u) => t # u /\ ~Precedes(d, u, t)
                             /\ Precedes(d, t, u) /\ Precedes(d, u, w) => Precedes(d, t, w)
  BY PrecedesOrders
<1>4. Orders(R, needed)
  BY <1>1, <1>2, <1>3 DEF Orders
<1>5. \E s : Enumerations(R, needed) = {s}
  BY <1>1, <1>4, OneEnumeration
<1>6. \A s \in [1..Cardinality(needed) -> needed] : \A i, j \in DOMAIN s :
        <<s[i], s[j]>> \in R <=> Precedes(d, s[i], s[j])
  BY <1>1, <1>2
<1>7. Stack(d) = {s \in [1..Cardinality(needed) -> needed] :
                    \A i, j \in DOMAIN s : i < j => Precedes(d, s[i], s[j])}
  BY DEF Stack
<1> HIDE DEF needed
<1>8. Stack(d) = Enumerations(R, needed)
  BY <1>6, <1>7 DEF Enumerations
<1> QED BY <1>5, <1>8

\* What a result says of the stack it was made from.
Sound(r) ==
  /\ r.status \in {"assembled", "resolved", "passed", "blocked"} /\ r.reason \in Reasons
  /\ (r.status = "blocked") = (r.reason # "none")
  /\ r.applied \in Seq(Tasks) /\ IsPrefix(r.applied, order)
  /\ r.reason = "unresolved_conflict" => r.conflict # {}
  /\ r.status \in {"assembled", "resolved"} =>
       r.applied = order /\ r.conflict = {} /\ Writes(order) = Claimed

\* The stack is planned from evidence that nothing blocks.
Planned ==
  /\ deps \in Plans /\ evidence \in Submissions \cup {<<>>}
  /\ order # <<>> => order \in Stack(deps) /\ Blockers(deps, evidence) = {}

\* Each result follows the one before it.
InTurn ==
  /\ assembly # None => order # <<>>
  /\ threeWay # None => assembly # None
  /\ replayed # None => threeWay # None
  /\ call.made => replayed.status = "passed"
  /\ final # None => call.made

ResultsSound ==
  /\ assembly = None \/ Sound(assembly)
  /\ threeWay = None \/ Sound(threeWay)
  /\ replayed = None \/ Sound(replayed)
  /\ final = None \/ Sound(final)

\* The files and the worktree of the replay are of their kinds.
Kept ==
  /\ files \in [Tasks -> BOOLEAN]
  /\ tree = [head |-> tree.head, unmerged |-> tree.unmerged, others |-> tree.others,
             loose |-> tree.loose, markers |-> tree.markers]
  /\ tree.loose \in BOOLEAN /\ tree.markers \in BOOLEAN

AssemblyInv == Planned /\ InTurn /\ ResultsSound /\ Kept /\ ResolutionIsTrusted

LEMMA OrderKind ==
  ASSUME Planned
  PROVE  order \in Seq(Tasks) /\ DOMAIN order = 1..Len(order) /\ Len(order) \in Nat
         /\ Range(order) \subseteq Tasks
<1>1. CASE order = <<>>
  <2>1. <<>> \in Seq(Tasks) /\ DOMAIN <<>> = 1..0 /\ Len(<<>>) = 0 /\ Range(<<>>) = {}
    BY DEF Range
  <2> QED BY <1>1, <2>1
<1>2. CASE order # <<>>
  <2>1. deps \in Plans /\ order \in Stack(deps)
    BY <1>2 DEF Planned
  <2> QED BY <2>1, StackFits, NeededFits
<1> QED BY <1>1, <1>2

\* A nonempty set of places has a first.
LEMMA FirstPlace ==
  ASSUME NEW n \in Nat, NEW at, at \subseteq 1..n, at # {}
  PROVE  \E i \in at : \A j \in at : i <= j
<1> DEFINE Upto == {1..i : i \in at}
<1>1. IsFiniteSet(1..n)
  BY FS_Interval
<1>a. Upto \subseteq SUBSET (1..n)
  <2>1. \A i \in at : i \in Nat /\ i <= n
    OBVIOUS
  <2>2. \A i \in at : 1..i \subseteq 1..n
    BY <2>1
  <2> QED BY <2>2
<1>b. Upto # {}
  OBVIOUS
<1>2. PICK L \in Upto : \A K \in Upto : ~(K \subseteq L /\ K # L)
  <2> DEFINE D == 1..n
  <2> HIDE DEF Upto, D
  <2>1. IsFiniteSet(D) /\ Upto \subseteq SUBSET D
    BY <1>1, <1>a DEF D
  <2> QED BY <1>b, <2>1, SubsetsAreWellFounded
<1>3. PICK i \in at : L = 1..i
  OBVIOUS
<1>4. ASSUME NEW j \in at, ~(i <= j) PROVE FALSE
  <2>1. i \in Nat /\ j \in Nat /\ j < i /\ i >= 1
    BY <1>4
  <2>2. 1..j \subseteq 1..i /\ i \in 1..i /\ i \notin 1..j
    BY <2>1
  <2> QED BY <1>2, <1>3, <2>2
<1> QED BY <1>4

LEMMA StopsFirst ==
  ASSUME Planned, NEW stopping
  PROVE  /\ StopsAt(stopping) \in 1..(Len(order) + 1)
         /\ StopsAt(stopping) \in DOMAIN order => order[StopsAt(stopping)] \in stopping
         /\ StopsAt(stopping) \notin DOMAIN order => \A j \in DOMAIN order : order[j] \notin stopping
<1> DEFINE at == {i \in DOMAIN order : order[i] \in stopping}
           stop == StopsAt(stopping)
<1>1. DOMAIN order = 1..Len(order) /\ Len(order) \in Nat
  BY OrderKind
<1>2. stop = IF at = {} THEN Len(order) + 1 ELSE CHOOSE i \in at : \A j \in at : i <= j
  BY DEF StopsAt
<1>3. at \subseteq 1..Len(order)
  BY <1>1
<1>4. CASE at = {}
  BY <1>1, <1>2, <1>4
<1>5. CASE at # {}
  <2>1. \E i \in at : \A j \in at : i <= j
    <3> HIDE DEF at
    <3> QED BY <1>1, <1>3, <1>5, FirstPlace
  <2>2. stop \in at
    <3> HIDE DEF at, stop
    <3> QED BY <1>2, <1>5, <2>1
  <2>3. stop \in DOMAIN order /\ order[stop] \in stopping
    BY <2>2
  <2> HIDE DEF stop
  <2>4. stop \in 1..(Len(order) + 1)
    BY <1>1, <2>3
  <2> QED BY <2>3, <2>4 DEF stop
<1> QED BY <1>4, <1>5

LEMMA PrefixFits ==
  ASSUME Planned
  PROVE  /\ order \in Seq(Tasks) /\ IsPrefix(order, order) /\ <<>> \in Seq(Tasks) /\ IsPrefix(<<>>, order)
         /\ \A i \in 1..(Len(order) + 1) : Before(i) \in Seq(Tasks) /\ IsPrefix(Before(i), order)
<1>1. order \in Seq(Tasks) /\ DOMAIN order = 1..Len(order) /\ Len(order) \in Nat
  BY OrderKind
<1>2. \A i \in 1..Len(order) : order[i] \in Tasks
  BY <1>1
<1>3. ASSUME NEW i \in 1..(Len(order) + 1) PROVE Before(i) \in Seq(Tasks) /\ IsPrefix(Before(i), order)
  <2>1. i - 1 \in Int /\ 1 \in Int /\ i - 1 <= Len(order) /\ 0 <= i - 1 /\ \A k \in 1..(i - 1) : order[k] \in Tasks
    BY <1>1, <1>2
  <2>2. Len(SubSeq(order, 1, i - 1)) = IF 1 <= i - 1 THEN (i - 1) - 1 + 1 ELSE 0
    BY <2>1, SubSeqProperties
  <2>3. Len(SubSeq(order, 1, i - 1)) = i - 1
    BY <2>1, <2>2
  <2>4. SubSeq(order, 1, i - 1) \in Seq(Tasks)
    BY <2>1, SubSeqProperties
  <2> QED BY <2>1, <2>3, <2>4 DEF IsPrefix, Before
<1>4. IsPrefix(order, order)
  BY <1>1 DEF IsPrefix
<1>5. IsPrefix(<<>>, order)
  <2>1. Before(1) = <<>>
    <3>1. SubSeq(order, 1, 0) = <<>>
      BY SubSeqEmpty
    <3> QED BY <3>1 DEF Before
  <2>2. 1 \in 1..(Len(order) + 1)
    BY <1>1
  <2> QED BY <1>3, <2>1, <2>2
<1> QED BY <1>1, <1>3, <1>4, <1>5

\* A stack that applied is judged.
LEMMA JudgedSound ==
  ASSUME Planned, NEW ok \in {"assembled", "resolved"}, NEW found
  PROVE  Sound(Judged(ok, found))
BY PrefixFits DEF Judged, Sound, Result, Reasons

LEMMA BlockedSound ==
  ASSUME NEW reason \in Reasons \ {"none", "unresolved_conflict"}, NEW applied \in Seq(Tasks), IsPrefix(applied, order), NEW conflict
  PROVE  Sound(Result("blocked", reason, applied, conflict)) /\ Result("blocked", reason, applied, conflict).status = "blocked"
         /\ Result("blocked", reason, applied, conflict).applied = applied
BY DEF Sound, Result

\* The stack and its evidence stay: so does what was recorded about them.
LEMMA SoundStays ==
  ASSUME UNCHANGED <<order, evidence>>, NEW r, Sound(r)
  PROVE  Sound(r)'
BY DEF Sound, Writes, Claimed, PatchOf

LEMMA AssemblyBegins == ASSUME AssemblyInit PROVE AssemblyInv
<1>1. Planned /\ InTurn /\ ResultsSound /\ ResolutionIsTrusted
  BY DEF AssemblyInit, Planned, InTurn, ResultsSound, ResolutionIsTrusted, None
<1>2. Kept
  BY DEF AssemblyInit, Kept, Clean
<1> QED BY <1>1, <1>2 DEF AssemblyInv

\* Without evidence the stack is not planned.
LEMMA PlanFits == ASSUME AssemblyInv, Plan PROVE AssemblyInv'
<1>0. Planned /\ InTurn /\ ResultsSound /\ Kept /\ ResolutionIsTrusted
  BY DEF AssemblyInv
<1>1. PICK s \in Submissions :
        evidence' = s /\ order' \in IF Blockers(deps, s) = {} THEN Stack(deps) ELSE {<<>>}
  BY DEF Plan
<1>2. evidence = <<>> /\ UNCHANGED <<deps, fit, assembly, threeWay, replayed, final, files, tree, call, drifts>>
  BY DEF Plan
<1>3. order = <<>>
  <2>1. SUFFICES ASSUME order # <<>> PROVE FALSE
    OBVIOUS
  <2>2. Blockers(deps, <<>>) = {} /\ deps \in Plans
    BY <1>0, <1>2, <2>1 DEF Planned
  <2>3. PICK t \in Prerequisites(deps) : TRUE
    BY <2>2, NeededFits
  <2>4. <<t, "missing_evidence">> \in Blockers(deps, <<>>)
    BY <2>3 DEF Blockers
  <2> QED BY <2>2, <2>4
<1>4. Planned'
  BY <1>0, <1>1, <1>2 DEF Planned
<1>5. assembly = None /\ threeWay = None /\ replayed = None /\ ~call.made /\ final = None
  BY <1>0, <1>3 DEF InTurn, None
<1> QED BY <1>0, <1>2, <1>4, <1>5 DEF AssemblyInv, InTurn, ResultsSound, Kept, ResolutionIsTrusted, None

\* All but the evidence and the stack may move; what matters of them does not.
LEMMA RestFits ==
  ASSUME AssemblyInv, UNCHANGED <<deps, evidence, order>>
  PROVE  /\ Planned'
         /\ \A r : Sound(r) => Sound(r)'
         /\ (assembly' = assembly => assembly' = None \/ Sound(assembly)')
         /\ (threeWay' = threeWay => threeWay' = None \/ Sound(threeWay)')
         /\ (replayed' = replayed => replayed' = None \/ Sound(replayed)')
         /\ (final' = final => final' = None \/ Sound(final)')
<1>1. Planned'
  BY DEF AssemblyInv, Planned
<1>2. \A r : Sound(r) => Sound(r)'
  BY SoundStays
<1>3. ResultsSound
  BY DEF AssemblyInv
<1>4. assembly' = assembly => assembly' = None \/ Sound(assembly)'
  BY <1>2, <1>3 DEF ResultsSound
<1>5. threeWay' = threeWay => threeWay' = None \/ Sound(threeWay)'
  BY <1>2, <1>3 DEF ResultsSound
<1>6. replayed' = replayed => replayed' = None \/ Sound(replayed)'
  BY <1>2, <1>3 DEF ResultsSound
<1>7. final' = final => final' = None \/ Sound(final)'
  BY <1>2, <1>3 DEF ResultsSound
<1> QED BY <1>1, <1>2, <1>4, <1>5, <1>6, <1>7

LEMMA AssembleFits == ASSUME AssemblyInv, Assemble PROVE AssemblyInv'
<1>0. Planned /\ InTurn /\ ResultsSound /\ Kept /\ ResolutionIsTrusted
  BY DEF AssemblyInv
<1>1. order # <<>> /\ UNCHANGED <<deps, evidence, order, threeWay, replayed, final, files, tree, call, drifts>>
  BY DEF Assemble
<1>2. PICK f \in [Range(order) -> Fits], found \in {"base", "moved"} :
        LET i == StopsAt({t \in Range(order) : Lies(t) \/ (~Empty(t) /\ f[t] # "applies")}) IN
          assembly' = IF i \in DOMAIN order
                      THEN Result("blocked", "patch_rejected", Before(i), {})
                      ELSE Judged("assembled", found)
  BY DEF Assemble
<1> DEFINE i == StopsAt({t \in Range(order) : Lies(t) \/ (~Empty(t) /\ f[t] # "applies")})
<1>3. i \in 1..(Len(order) + 1)
  BY <1>0, StopsFirst
<1>4. assembly' = IF i \in DOMAIN order THEN Result("blocked", "patch_rejected", Before(i), {})
                                        ELSE Judged("assembled", found)
  BY <1>2
<1> HIDE DEF i
<1>5. Sound(Result("blocked", "patch_rejected", Before(i), {}))
  BY <1>0, <1>3, PrefixFits, BlockedSound DEF Reasons
<1>6. Sound(Judged("assembled", found))
  BY <1>0, JudgedSound
<1>7. Sound(assembly')
  BY <1>4, <1>5, <1>6
<1>8. Sound(assembly)' /\ Planned'
  <2>1. Sound(assembly)'
    BY <1>1, <1>7 DEF Sound, Writes, Claimed, PatchOf
  <2> QED BY <1>1, <2>1, RestFits
<1>9. ResultsSound'
  BY <1>1, <1>8, RestFits DEF ResultsSound
<1>10. InTurn'
  <2>1. assembly' = assembly \/ assembly = None
    BY DEF Assemble
  <2>2. assembly' # None
    BY <1>7 DEF Sound, None
  <2> QED BY <1>0, <1>1, <2>2 DEF InTurn
<1>11. Kept' /\ ResolutionIsTrusted'
  BY <1>0, <1>1 DEF Kept, ResolutionIsTrusted
<1> QED BY <1>8, <1>9, <1>10, <1>11 DEF AssemblyInv

\* What stops the three-way merge is not empty, so that a conflict has its paths.
LEMMA ThreeWaySound ==
  ASSUME Planned, NEW i \in 1..(Len(order) + 1), i \in DOMAIN order, Fails(order[i])
  PROVE  Sound(ThreeWay(i))
<1>1. Before(i) \in Seq(Tasks) /\ IsPrefix(Before(i), order)
  BY PrefixFits
<1>2. PatchOf(order[i]).writes # {}
  BY DEF Fails, Empty
<1> QED BY <1>1, <1>2 DEF ThreeWay, Sound, Result, Reasons

LEMMA ResolveFits == ASSUME AssemblyInv, ResolveStack PROVE AssemblyInv'
<1>0. Planned /\ InTurn /\ ResultsSound /\ Kept /\ ResolutionIsTrusted
  BY DEF AssemblyInv
<1>1. /\ UNCHANGED <<deps, evidence, order, fit, assembly, replayed, final, files, tree, call, drifts>>
      /\ assembly.status = "blocked" /\ threeWay = None
  BY DEF ResolveStack
<1> DEFINE i == StopsAt({t \in Range(order) : Lies(t) \/ Fails(t)})
<1>2. PICK found \in {"base", "moved"} :
        /\ i \in DOMAIN order => ~Lies(order[i])
        /\ threeWay' = IF i \in DOMAIN order THEN ThreeWay(i) ELSE Judged("resolved", found)
  BY DEF ResolveStack
<1>3. i \in 1..(Len(order) + 1) /\ (i \in DOMAIN order => order[i] \in {t \in Range(order) : Lies(t) \/ Fails(t)})
  BY <1>0, StopsFirst
<1>4. i \in DOMAIN order => Fails(order[i])
  BY <1>2, <1>3
<1> HIDE DEF i
<1>5. i \in DOMAIN order => Sound(ThreeWay(i))
  BY <1>0, <1>3, <1>4, ThreeWaySound
<1>6. Sound(Judged("resolved", found))
  BY <1>0, JudgedSound
<1>7. Sound(threeWay')
  BY <1>2, <1>5, <1>6
<1>8. Sound(threeWay)' /\ Planned'
  <2>1. Sound(threeWay)'
    BY <1>1, <1>7 DEF Sound, Writes, Claimed, PatchOf
  <2> QED BY <1>1, <2>1, RestFits
<1>9. ResultsSound'
  BY <1>1, <1>8, RestFits DEF ResultsSound
<1>10. InTurn'
  BY <1>0, <1>1 DEF InTurn, None
<1>11. Kept' /\ ResolutionIsTrusted'
  <2>1. final = None
    BY <1>0, <1>1 DEF InTurn, None
  <2> QED BY <1>0, <1>1, <2>1 DEF Kept, ResolutionIsTrusted, None
<1> QED BY <1>8, <1>9, <1>10, <1>11 DEF AssemblyInv

LEMMA DriftFits == ASSUME AssemblyInv, Drift PROVE AssemblyInv'
<1>0. Planned /\ InTurn /\ ResultsSound /\ Kept /\ ResolutionIsTrusted /\ Range(order) \subseteq Tasks
  BY OrderKind DEF AssemblyInv
<1>1. /\ final = None /\ UNCHANGED <<deps, evidence, order, assembly, threeWay, replayed, final, call>>
      /\ \/ UNCHANGED <<files, tree>>
         \/ \E t \in Range(order) : files' = [files EXCEPT ![t] = FALSE] /\ UNCHANGED <<fit, tree>>
         \/ /\ UNCHANGED files
            /\ \E h \in {"base", "moved"} : tree' = [tree EXCEPT !.head = h, !.others = "changed"]
  BY DEF Drift
<1>2. Planned' /\ ResultsSound'
  BY <1>1, RestFits DEF ResultsSound
<1>3. InTurn'
  BY <1>0, <1>1 DEF InTurn
<1>4. Kept'
  <2>1. CASE UNCHANGED <<files, tree>>
    BY <1>0, <2>1 DEF Kept
  <2>2. ASSUME NEW t \in Range(order), files' = [files EXCEPT ![t] = FALSE], UNCHANGED <<fit, tree>>
        PROVE  Kept'
    BY <1>0, <2>2 DEF Kept
  <2>3. ASSUME UNCHANGED files, NEW h \in {"base", "moved"}, tree' = [tree EXCEPT !.head = h, !.others = "changed"]
        PROVE  Kept'
    <3>1. tree' = [head |-> h, unmerged |-> tree.unmerged, others |-> "changed",
                   loose |-> tree.loose, markers |-> tree.markers]
      BY <1>0, <2>3 DEF Kept
    <3> QED BY <1>0, <2>3, <3>1 DEF Kept
  <2> QED BY <1>1, <2>1, <2>2, <2>3
<1>5. ResolutionIsTrusted'
  BY <1>1 DEF ResolutionIsTrusted, None
<1> QED BY <1>2, <1>3, <1>4, <1>5 DEF AssemblyInv

LEMMA ReplayStaysSound == ASSUME AssemblyInv, Replay PROVE AssemblyInv'
<1>0. Planned /\ InTurn /\ ResultsSound /\ Kept /\ ResolutionIsTrusted
  BY DEF AssemblyInv
<1>1. /\ threeWay.status = "blocked" /\ replayed = None
      /\ UNCHANGED <<deps, evidence, order, fit, assembly, threeWay, final, files, call, drifts>>
  BY DEF Replay
<1> DEFINE i == StopsAt({t \in Range(order) : Fails(t)})
<1>2. PICK ok \in BOOLEAN :
        /\ replayed' = IF ok THEN Result("passed", "none", Before(i), PatchOf(order[i]).writes)
                              ELSE Result("blocked", "violations", <<>>, {})
        /\ tree' = IF ok THEN [Clean EXCEPT !.unmerged = replayed'.conflict] ELSE tree
  <2> DEFINE ok(prepared) == /\ prepared /\ \A t \in Range(order) : files[t]
                             /\ \A j \in DOMAIN order : j < i => ~Lies(order[j])
                             /\ i \in DOMAIN order /\ SameConflict(i)
  <2>1. PICK prepared \in BOOLEAN :
        /\ replayed' = IF ok(prepared) THEN Result("passed", "none", Before(i), PatchOf(order[i]).writes)
                              ELSE Result("blocked", "violations", <<>>, {})
        /\ tree' = IF ok(prepared) THEN [Clean EXCEPT !.unmerged = replayed'.conflict] ELSE tree
    BY DEF Replay
  <2> HIDE DEF ok, i
  <2> QED BY <2>1
<1>3. i \in 1..(Len(order) + 1)
  BY <1>0, StopsFirst
<1> HIDE DEF i
<1>4. Sound(Result("passed", "none", Before(i), PatchOf(order[i]).writes))
  BY <1>0, <1>3, PrefixFits DEF Sound, Result, Reasons
<1>5. Sound(Result("blocked", "violations", <<>>, {}))
  BY <1>0, PrefixFits DEF Sound, Result, Reasons
<1>7. Sound(replayed')
  BY <1>2, <1>4, <1>5
<1>8. Sound(replayed)' /\ Planned'
  <2>1. Sound(replayed)'
    BY <1>1, <1>7 DEF Sound, Writes, Claimed, PatchOf
  <2> QED BY <1>1, <2>1, RestFits
<1>9. ResultsSound'
  BY <1>1, <1>8, RestFits DEF ResultsSound
<1>10. ~call.made /\ final = None
  BY <1>0, <1>1 DEF InTurn, None
<1>11. InTurn'
  BY <1>0, <1>1, <1>10 DEF InTurn, None
<1>12. Kept'
  <2>1. CASE tree' = tree
    BY <1>0, <1>1, <2>1 DEF Kept
  <2>2. CASE tree' = [Clean EXCEPT !.unmerged = replayed'.conflict]
    <3>1. tree' = [head |-> "base", unmerged |-> replayed'.conflict, others |-> "kept", loose |-> FALSE, markers |-> FALSE]
      BY <2>2 DEF Clean
    <3> QED BY <1>0, <1>1, <3>1 DEF Kept
  <2> QED BY <1>2, <2>1, <2>2
<1>13. ResolutionIsTrusted'
  BY <1>1, <1>10 DEF ResolutionIsTrusted, None
<1> QED BY <1>8, <1>9, <1>11, <1>12, <1>13 DEF AssemblyInv

LEMMA WorkFits == ASSUME AssemblyInv, Work PROVE AssemblyInv'
<1>0. Planned /\ InTurn /\ ResultsSound /\ Kept /\ ResolutionIsTrusted
  BY DEF AssemblyInv
<1>1. /\ replayed.status = "passed" /\ ~call.made
      /\ UNCHANGED <<deps, evidence, order, fit, assembly, threeWay, replayed, final, files, drifts>>
  BY DEF Work
<1>2. PICK d \in {"resolved", "blocked"}, reported \in {replayed.conflict, {}},
           left \in [head : {"base", "moved"}, unmerged : {{}, replayed.conflict},
                     others : {"kept", "changed"}, loose : BOOLEAN, markers : BOOLEAN] :
        call' = [made |-> TRUE, disposition |-> d, reported |-> reported] /\ tree' = left
  BY DEF Work
<1>3. Planned' /\ ResultsSound'
  BY <1>1, RestFits DEF ResultsSound
<1>4. final = None
  BY <1>0, <1>1 DEF InTurn
<1>5. InTurn'
  BY <1>0, <1>1, <1>2, <1>4 DEF InTurn
<1>6. Kept'
  BY <1>0, <1>1, <1>2 DEF Kept
<1>7. ResolutionIsTrusted'
  BY <1>1, <1>4 DEF ResolutionIsTrusted, None
<1> QED BY <1>3, <1>5, <1>6, <1>7 DEF AssemblyInv

\* Only a tree that holds nothing but the resolution is accepted.
LEMMA AcceptedIsClean == ASSUME Kept, Refused = "none" PROVE tree = Clean
BY DEF Kept, Refused, Clean

\* The patches behind the conflict, if none of them stops, are the files that were kept.
LEMMA RestIsKept ==
  ASSUME Planned, Kept, NEW failed \in Nat, failed >= 1, RestStopsAt(failed) \notin DOMAIN order
  PROVE  \A i \in (failed + 1)..Len(order) : files[order[i]]
<1> DEFINE rest  == SubSeq(order, failed + 1, Len(order))
           stopping == {t \in Range(rest) : ~files[t] \/ Empty(t) \/ fit[t] \in {"conflicts", "rejected"}}
<1>1. order \in Seq(Tasks) /\ DOMAIN order = 1..Len(order) /\ Len(order) \in Nat
  BY OrderKind
<1>2. \A j \in DOMAIN order : order[j] \notin stopping
  <2>1. StopsAt(stopping) \notin DOMAIN order
    BY DEF RestStopsAt
  <2> HIDE DEF stopping
  <2> QED BY <2>1, StopsFirst
<1>3. SUFFICES ASSUME NEW i \in (failed + 1)..Len(order) PROVE files[order[i]]
  OBVIOUS
<1>4. i \in DOMAIN order /\ order[i] \in Tasks
  BY <1>1
<1>5. order[i] \in Range(rest)
  <2>1. \A j \in (failed + 1)..Len(order) : order[j] \in Tasks
    BY <1>1
  <2>2. /\ rest \in Seq(Tasks)
        /\ Len(rest) = IF failed + 1 <= Len(order) THEN Len(order) - (failed + 1) + 1 ELSE 0
        /\ \A k \in 1..(Len(order) - (failed + 1) + 1) : rest[k] = order[(failed + 1) + k - 1]
    BY <1>1, <2>1, SubSeqProperties
  <2> HIDE DEF rest
  <2> DEFINE k == i - failed
  <2>3. k \in 1..(Len(order) - (failed + 1) + 1) /\ (failed + 1) + k - 1 = i /\ failed + 1 <= Len(order)
    BY <1>1
  <2>4. k \in DOMAIN rest
    BY <1>1, <2>2, <2>3
  <2>5. rest[k] = order[i]
    <3> HIDE DEF k
    <3>1. rest[k] = order[(failed + 1) + k - 1]
      BY <2>2, <2>3
    <3> QED BY <2>3, <3>1
  <2> QED BY <2>4, <2>5 DEF Range
<1>6. order[i] \notin stopping
  BY <1>2, <1>4
<1> HIDE DEF rest
<1>7. ~(~files[order[i]])
  BY <1>5, <1>6
<1> QED BY <1>7

LEMMA EvaluateFits == ASSUME AssemblyInv, Evaluate PROVE AssemblyInv'
<1>0. Planned /\ InTurn /\ ResultsSound /\ Kept /\ ResolutionIsTrusted
  BY DEF AssemblyInv
<1>1. /\ call.made /\ final = None
      /\ UNCHANGED <<deps, evidence, order, fit, assembly, threeWay, replayed, files, tree, call, drifts>>
  BY DEF Evaluate
<1> DEFINE failed == Len(threeWay.applied) + 1
           i == RestStopsAt(failed)
           conflicts == files[order[i]] /\ ~Empty(order[i]) /\ fit[order[i]] = "conflicts"
<1>2. PICK withinPolicy \in BOOLEAN :
        final' =
             IF Refused # "none"
               THEN Result("blocked", Refused, threeWay.applied, tree.unmerged)
             ELSE IF i \in DOMAIN order
               THEN Result("blocked", "remaining_patch_rejected", Before(i),
                           IF conflicts THEN PatchOf(order[i]).writes ELSE {})
             ELSE IF Writes(order) # Claimed
               THEN Result("blocked", "changed_path_mismatch", order, {})
             ELSE IF ~withinPolicy THEN Result("blocked", "policy_limit", order, {})
             ELSE Result("resolved", "none", order, {})
  BY DEF Evaluate
<1>3. i \in 1..(Len(order) + 1)
  BY <1>0, StopsFirst DEF RestStopsAt
<1>4. threeWay # None /\ Sound(threeWay)
  BY <1>0, <1>1 DEF InTurn, ResultsSound, None
<1>5. Refused \in Reasons \ {"unresolved_conflict"}
  BY DEF Refused, Reasons
<1>6. ASSUME Refused # "none" PROVE Sound(Result("blocked", Refused, threeWay.applied, tree.unmerged))
  BY <1>4, <1>5, <1>6 DEF Sound, Result
<1>7. Sound(Result("blocked", "remaining_patch_rejected", Before(i),
                   IF conflicts THEN PatchOf(order[i]).writes ELSE {}))
  <2> HIDE DEF i, conflicts
  <2> QED BY <1>0, <1>3, PrefixFits, BlockedSound DEF Reasons
<1>8. /\ Sound(Result("blocked", "changed_path_mismatch", order, {}))
      /\ Sound(Result("blocked", "policy_limit", order, {}))
  BY <1>0, PrefixFits, BlockedSound DEF Reasons
<1>9. Writes(order) = Claimed => Sound(Result("resolved", "none", order, {}))
  BY <1>0, PrefixFits DEF Sound, Result, Reasons
<1>10. Sound(final')
  <2> HIDE DEF i, conflicts
  <2> QED BY <1>2, <1>6, <1>7, <1>8, <1>9
<1>11. Sound(final)' /\ Planned'
  <2>1. Sound(final)'
    BY ONLY <1>1, <1>10 DEF Sound, Writes, Claimed, PatchOf
  <2> QED BY <1>1, <2>1, RestFits
<1>12. ResultsSound'
  BY <1>1, <1>11, RestFits DEF ResultsSound
<1>13. InTurn' /\ Kept'
  BY <1>0, <1>1 DEF InTurn, Kept
<1>14. ResolutionIsTrusted'
  <2>1. SUFFICES ASSUME final'.status = "resolved"
                 PROVE  tree = Clean /\ \A k \in (failed + 1)..Len(order) : files[order[k]]
    <3>1. \A n \in Nat : n + 2 = (n + 1) + 1
      OBVIOUS
    <3>2. Len(threeWay.applied) \in Nat
      BY <1>4 DEF Sound
    <3> QED BY <1>1, <3>1, <3>2 DEF ResolutionIsTrusted
  <2>2. Refused = "none" /\ i \notin DOMAIN order
    <3> HIDE DEF i, conflicts
    <3> QED BY <1>2, <2>1 DEF Result
  <2>3. failed \in Nat /\ failed >= 1
    BY <1>4 DEF Sound
  <2>4. \A k \in (failed + 1)..Len(order) : files[order[k]]
    <3> HIDE DEF failed
    <3> QED BY <1>0, <2>2, <2>3, RestIsKept DEF i
  <2> QED BY <1>0, <2>2, <2>4, AcceptedIsClean
<1> QED BY <1>11, <1>12, <1>13, <1>14 DEF AssemblyInv

LEMMA AssemblyStep == ASSUME AssemblyInv, [AssemblyNext]_assemblyVars PROVE AssemblyInv'
<1>1. CASE UNCHANGED assemblyVars
  <2>1. UNCHANGED <<deps, evidence, order, assembly, threeWay, replayed, final, files, tree, call>>
    BY <1>1 DEF assemblyVars
  <2>2. Planned' /\ ResultsSound'
    BY <2>1, RestFits DEF ResultsSound
  <2> QED BY <2>1, <2>2 DEF AssemblyInv, InTurn, Kept, ResolutionIsTrusted
<1> QED BY <1>1, PlanFits, AssembleFits, ResolveFits, DriftFits, ReplayStaysSound, WorkFits, EvaluateFits DEF AssemblyNext

LEMMA StackWhole == ASSUME AssemblyInv PROVE StackIsWhole
<1>1. Planned /\ InTurn /\ ResultsSound
  BY DEF AssemblyInv
<1>2. SUFFICES ASSUME NEW r \in Recorded, r.status \in {"assembled", "resolved"}
               PROVE  LET held == Range(r.applied)
                          closed(S) == deps[Target] \subseteq S /\ \A t \in S : deps[t] \subseteq S
                      IN  /\ closed(held) /\ \A S \in SUBSET Tasks : closed(S) => held \subseteq S
                          /\ Len(r.applied) = Cardinality(held)
                          /\ \A i, j \in DOMAIN r.applied : r.applied[i] \in deps[r.applied[j]] => i < j
                          /\ \A t \in held : PatchOf(t).base = "base" /\ InScope(t, PatchOf(t).paths)
                          /\ Writes(r.applied) = UNION {Range(PatchOf(t).paths) : t \in held}
  BY DEF StackIsWhole
<1>3. r.applied = order /\ Writes(order) = Claimed
  BY <1>1, <1>2 DEF Recorded, ResultsSound, Sound
<1>4. order # <<>>
  BY <1>1, <1>2 DEF Recorded, InTurn, None
<1>5. deps \in Plans /\ order \in Stack(deps) /\ Blockers(deps, evidence) = {}
  BY <1>1, <1>4 DEF Planned
<1>6. /\ Range(order) = Prerequisites(deps) /\ Len(order) = Cardinality(Range(order))
      /\ \A i, j \in DOMAIN order : order[i] \in deps[order[j]] => i < j
  BY <1>5, StackFits
<1>7. /\ deps[Target] \subseteq Range(order) /\ \A t \in Range(order) : deps[t] \subseteq Range(order)
      /\ \A S \in SUBSET Tasks : deps[Target] \subseteq S /\ (\A t \in S : deps[t] \subseteq S) => Range(order) \subseteq S
  BY <1>5, <1>6, NeededFits
<1>8. ASSUME NEW t \in Range(order) PROVE PatchOf(t).base = "base" /\ InScope(t, PatchOf(t).paths)
  <2>1. {i \in DOMAIN evidence : evidence[i].task = t} # {}
    <3>1. SUFFICES ASSUME {i \in DOMAIN evidence : evidence[i].task = t} = {} PROVE FALSE
      OBVIOUS
    <3>2. <<t, "missing_evidence">> \in Blockers(deps, evidence)
      BY <1>6, <3>1 DEF Blockers
    <3> QED BY <1>5, <3>2
  <2>2. ASSUME FirstOf(t, evidence).base # "base" PROVE FALSE
    <3>1. <<t, "base_mismatch">> \in Blockers(deps, evidence)
      BY <1>6, <2>1, <2>2 DEF Blockers
    <3> QED BY <1>5, <3>1
  <2>3. ASSUME ~InScope(t, FirstOf(t, evidence).paths) PROVE FALSE
    <3>1. <<t, "scope_violation">> \in Blockers(deps, evidence)
      BY <1>6, <2>1, <2>3 DEF Blockers
    <3> QED BY <1>5, <3>1
  <2> QED BY <2>2, <2>3 DEF PatchOf
<1>9. Writes(order) = UNION {Range(PatchOf(t).paths) : t \in Range(order)}
  BY <1>3 DEF Claimed
<1> QED BY <1>3, <1>6, <1>7, <1>8, <1>9

LEMMA AssemblyTrusts == ASSUME AssemblyInv PROVE AssemblyIsTrusted
<1>1. Planned /\ InTurn /\ ResultsSound /\ Kept /\ ResolutionIsTrusted
  BY DEF AssemblyInv
<1>2. ASSUME NEW r \in Recorded PROVE Sound(r) /\ order # <<>>
  BY <1>1, <1>2 DEF Recorded, ResultsSound, InTurn, None
<1>3. AssemblyTypeOK
  BY <1>1, <1>2, OrderKind DEF AssemblyTypeOK, Planned, InTurn, Kept, Sound
<1>4. ResultsAreReadable
  BY <1>2 DEF ResultsAreReadable, Sound
<1> QED BY <1>1, <1>3, <1>4, StackWhole DEF AssemblyIsTrusted

LEMMA AssemblyTrustedAlways == AssemblySpec => []AssemblyIsTrusted
<1>1. AssemblyInv /\ [AssemblyNext]_assemblyVars => AssemblyInv'
  BY AssemblyStep
<1> QED BY <1>1, AssemblyBegins, AssemblyTrusts, PTL DEF AssemblySpec

\* A replay that passed is of the recorded conflict.
ReplayIsRecorded ==
  replayed.status = "passed" =>
    /\ threeWay.status = "blocked" /\ replayed.applied = threeWay.applied /\ replayed.conflict = threeWay.conflict

LEMMA ReplayFits ==
  ASSUME ReplayIsRecorded, Replay
  PROVE  ReplayIsRecorded'
<1> SUFFICES ASSUME replayed'.status = "passed"
             PROVE  threeWay.status = "blocked" /\ replayed'.applied = threeWay.applied
                    /\ replayed'.conflict = threeWay.conflict
  BY DEF Replay, ReplayIsRecorded
<1> DEFINE i == StopsAt({t \in Range(order) : Fails(t)})
           ok(prepared) == /\ prepared /\ \A t \in Range(order) : files[t]
                           /\ \A j \in DOMAIN order : j < i => ~Lies(order[j])
                           /\ i \in DOMAIN order /\ SameConflict(i)
<1>1. PICK prepared \in BOOLEAN :
        replayed' = IF ok(prepared) THEN Result("passed", "none", Before(i), PatchOf(order[i]).writes)
                                    ELSE Result("blocked", "violations", <<>>, {})
  BY DEF Replay
<1>2. ok(prepared)
  BY <1>1 DEF Result
<1>3. Before(i) = threeWay.applied /\ PatchOf(order[i]).writes = threeWay.conflict
  BY <1>2 DEF SameConflict
<1>4. replayed'.applied = Before(i) /\ replayed'.conflict = PatchOf(order[i]).writes
  BY <1>1, <1>2 DEF Result
<1> QED BY <1>3, <1>4 DEF Replay

LEMMA CallSeesIt == AssemblySpec => CallSeesTheConflict
<1>1. AssemblyInit => ReplayIsRecorded
  BY DEF AssemblyInit, ReplayIsRecorded, None
<1>2. ReplayIsRecorded /\ [AssemblyNext]_assemblyVars => ReplayIsRecorded'
  <2> SUFFICES ASSUME ReplayIsRecorded, [AssemblyNext]_assemblyVars PROVE ReplayIsRecorded'
    OBVIOUS
  <2>1. CASE UNCHANGED <<threeWay, replayed>>
    BY <2>1 DEF ReplayIsRecorded
  <2>2. CASE ResolveStack
    BY <2>2 DEF ResolveStack, ReplayIsRecorded, None
  <2>3. CASE Plan \/ Assemble \/ Drift \/ Work \/ Evaluate \/ UNCHANGED assemblyVars
    BY <2>1, <2>3 DEF Plan, Assemble, Drift, Work, Evaluate, assemblyVars
  <2> QED BY <2>2, <2>3, ReplayFits DEF AssemblyNext
<1>3. ReplayIsRecorded /\ [AssemblyNext]_assemblyVars =>
        [~call.made /\ call'.made =>
           /\ tree.head = "base" /\ tree.unmerged = threeWay.conflict /\ tree.others = "kept"
           /\ replayed.applied = threeWay.applied]_assemblyVars
  BY DEF ReplayIsRecorded, AssemblyNext, Plan, Assemble, ResolveStack, Drift, Replay, Work, Unmoved, Evaluate
<1> QED BY <1>1, <1>2, <1>3, PTL DEF AssemblySpec, CallSeesTheConflict

(***************************************************************************)
(* Publication rebase.                                                     *)
(***************************************************************************)
\* Replays are admitted one after the other, the next when the one before it is blocked.
ReplaysFollow ==
  \A r \in Replays : replay[r].status # "none" => \A q \in 1..(r - 1) : replay[q].status = "blocked"

\* An execution belongs to a row that is running, or that was blocked under it.
ReplaysRun ==
  \A r \in Replays : replaying[r] # "idle" => replay[r].status \in {"running", "blocked"}

FreshFollow ==
  \A v \in FreshReviews : fresh[v].status # "none" =>
    fresh[v].replay \in Replays /\ \A u \in 1..(v - 1) : fresh[u].status # "none"

Engaging(v) == fresh[v].status \in ActiveReview \cup {"approved"} \/ fresh[v].calls = 1

OneReview ==
  \A u, v \in FreshReviews : Engaging(u) /\ Engaging(v) /\ fresh[u].replay = fresh[v].replay => u = v

LEMMA NextReplay ==
  ASSUME RebaseAssumption, ReplaysFollow
  PROVE  LatestReplay \in Nat /\ \A r \in Replays : replay[r].status # "none" <=> r <= LatestReplay
<1> DEFINE S == {r \in Replays : replay[r].status # "none"}
<1>1. MaxReplays \in Nat /\ S \in SUBSET (1..MaxReplays)
  BY DEF RebaseAssumption, Replays
<1>2. ASSUME NEW s \in S, NEW q \in 1..(s - 1) PROVE q \in S
  BY <1>2 DEF ReplaysFollow, Replays, RebaseAssumption
<1> HIDE DEF S
<1>3. Cardinality(S) \in Nat /\ \A q \in 1..MaxReplays : q \in S <=> q <= Cardinality(S)
  BY <1>1, <1>2, WithoutGap
<1> QED BY <1>3 DEF S, LatestReplay, Replays

LEMMA NextFresh ==
  ASSUME RebaseAssumption, FreshFollow, NEW v \in FreshReviews,
         v = Cardinality({u \in FreshReviews : fresh[u].status # "none"}) + 1
  PROVE  fresh[v].status = "none" /\ \A u \in 1..(v - 1) : fresh[u].status # "none"
<1> DEFINE S == {r \in FreshReviews : fresh[r].status # "none"}
<1>1. MaxFreshReviews \in Nat /\ S \in SUBSET (1..MaxFreshReviews)
  BY DEF RebaseAssumption, FreshReviews
<1>2. ASSUME NEW s \in S, NEW q \in 1..(s - 1) PROVE q \in S
  BY <1>2 DEF FreshFollow, FreshReviews, RebaseAssumption
<1> HIDE DEF S
<1>3. Cardinality(S) \in Nat /\ \A q \in 1..MaxFreshReviews : q \in S <=> q <= Cardinality(S)
  BY <1>1, <1>2, WithoutGap
<1>4. v \in 1..MaxFreshReviews /\ v = Cardinality(S) + 1
  BY DEF S, FreshReviews
<1>5. v \notin S
  BY <1>3, <1>4
<1>6. \A u \in 1..(v - 1) : u \in S
  BY <1>1, <1>3, <1>4
<1> QED BY <1>5, <1>6 DEF S

ReplayRow == [status : {"none", "pending", "running", "validated", "blocked"},
              reason : {"none", "refused", "unexpected_failure", "patch_conflict"},
              lease  : {"none", "held", "ended"}]
FreshRow == [status : {"none"} \cup ActiveReview \cup SettledReview, replay : 0..MaxReplays,
             calls : {0, 1}, lease  : {"none", "held", "ended"},
             claim  : {"none", "active", "released"}]

ReplaysTyped ==
  /\ replay \in [Replays -> ReplayRow]
  /\ replaying \in [Replays -> {"idle", "snapshot", "base", "prepare", "apply", "gates"}]
FreshTyped ==
  /\ fresh \in [FreshReviews -> FreshRow]
  /\ reviewing \in [FreshReviews -> {"idle", "preflight", "reviewer", "promotion"}]
  /\ recovered \in [FreshReviews -> {"none", "pending", "blocked"}]
FlagsTyped == {sourceIntact, permitted, superseder, resolution} \subseteq BOOLEAN

LEMMA RebaseTypes ==
  RebaseTypeOK <=> /\ ReplaysTyped /\ FreshTyped /\ FlagsTyped
                   /\ \A v \in FreshReviews : fresh[v].status = "approved" => fresh[v].calls = 1
<1>1. {ReplayPhases[i] : i \in DOMAIN ReplayPhases} = {"snapshot", "base", "prepare", "apply", "gates"}
  <2>1. DOMAIN ReplayPhases = {1, 2, 3, 4, 5}
    BY DEF ReplayPhases
  <2>2. ReplayPhases[1] = "snapshot" /\ ReplayPhases[2] = "base" /\ ReplayPhases[3] = "prepare"
        /\ ReplayPhases[4] = "apply" /\ ReplayPhases[5] = "gates"
    BY DEF ReplayPhases
  <2> QED BY <2>1, <2>2
<1>2. {"idle"} \cup {"snapshot", "base", "prepare", "apply", "gates"}
      = {"idle", "snapshot", "base", "prepare", "apply", "gates"}
  OBVIOUS
<1> QED BY <1>1, <1>2 DEF RebaseTypeOK, ReplaysTyped, FreshTyped, FlagsTyped, ReplayRow, FreshRow

ReplayInv == ReplaysTyped /\ ReplaysFollow /\ ReplaysRun

\* A verdict on a replay stands, and only an admission begins a row.
ReplaysStand ==
  \A r \in Replays : replay[r].status \in {"validated", "blocked"} => replay'[r].status = replay[r].status

RefusalReasons == {"refused", "unexpected_failure", "patch_conflict"}

LEMMA Earlier ==
  ASSUME RebaseAssumption
  PROVE  /\ \A r \in Replays : r \in Int /\ \A q \in 1..(r - 1) : q \in Replays /\ q < r
         /\ \A r, q \in Replays : q < r <=> q \in 1..(r - 1)
BY DEF RebaseAssumption, Replays

LEMMA Blocking ==
  ASSUME RebaseAssumption, ReplayInv, NEW r \in Replays, NEW reason \in RefusalReasons, BlockReplay(r, reason),
         replay[r].status \in {"pending", "running", "blocked"},
         replaying' = replaying \/ replaying' = [replaying EXCEPT ![r] = "idle"],
         replay[r].status # "pending" \/ replaying' = replaying
  PROVE  ReplayInv' /\ ReplaysStand
<1>1. replay' = [replay EXCEPT ![r] = [status |-> "blocked", reason |-> reason, lease |-> "none"]]
  BY DEF BlockReplay
<1>2. ReplaysTyped'
  BY <1>1 DEF ReplayInv, ReplaysTyped, ReplayRow, RefusalReasons
<1>3. \A q \in Replays : replay'[q].status = IF q = r THEN "blocked" ELSE replay[q].status
  BY <1>1 DEF ReplayInv, ReplaysTyped
<1>4. ReplaysFollow'
  BY <1>3, Earlier DEF ReplayInv, ReplaysFollow
<1>5. ReplaysRun'
  BY <1>3 DEF ReplayInv, ReplaysRun, ReplaysTyped
<1>6. ReplaysStand
  BY <1>3 DEF ReplaysStand
<1> QED BY <1>2, <1>4, <1>5, <1>6 DEF ReplayInv

LEMMA ReplayStep ==
  ASSUME RebaseAssumption, ReplayInv, [RebaseNext]_rebaseVars
  PROVE  ReplayInv' /\ ReplaysStand
<1>1. CASE UNCHANGED <<replay, replaying>>
  BY <1>1 DEF ReplayInv, ReplaysTyped, ReplaysFollow, ReplaysRun, ReplaysStand
<1>2. CASE ProcessStops
  BY <1>2 DEF ProcessStops, ReplayInv, ReplaysTyped, ReplaysFollow, ReplaysRun, ReplaysStand
<1>3. ASSUME NEW r \in Replays, AdmitReplay(r) PROVE ReplayInv' /\ ReplaysStand
  <2>1. /\ r = LatestReplay + 1 /\ ~Occupied /\ UNCHANGED replaying
        /\ replay' = [replay EXCEPT ![r].status = "pending"]
    BY <1>3 DEF AdmitReplay
  <2>2. \A q \in Replays : replay[q].status # "none" <=> q < r
    BY <2>1, NextReplay DEF ReplayInv, Replays
  <2>9. replay[r].status = "none"
    BY <2>2, Earlier
  <2>3. \A q \in Replays : q < r => replay[q].status = "blocked"
    BY <2>1, <2>2 DEF Occupied, ReplayInv, ReplaysTyped, ReplayRow
  <2>4. \A q \in Replays : replay'[q].status = IF q = r THEN "pending" ELSE replay[q].status
    BY <2>1 DEF ReplayInv, ReplaysTyped, ReplayRow
  <2>5. ReplaysTyped'
    BY <2>1 DEF ReplayInv, ReplaysTyped, ReplayRow
  <2>6. ReplaysFollow'
    <3>1. ASSUME NEW q \in Replays, replay'[q].status # "none", NEW o \in 1..(q - 1)
          PROVE  replay'[o].status = "blocked"
      <4>1. o \in Replays /\ o < q /\ q \in Int /\ r \in Int /\ o \in Int
        BY <3>1, Earlier
      <4>2. q = r \/ q < r
        BY <3>1, <2>2, <2>4
      <4>3. o < r
        BY <4>1, <4>2
      <4> QED BY <4>1, <4>3, <2>3, <2>4
    <3> QED BY <3>1 DEF ReplaysFollow
  <2>7. ReplaysRun'
    BY <2>1, <2>4, <2>9 DEF ReplayInv, ReplaysRun
  <2>8. ReplaysStand
    BY <2>4, <2>9 DEF ReplaysStand
  <2> QED BY <2>5, <2>6, <2>7, <2>8 DEF ReplayInv
<1>4. ASSUME NEW r \in Replays, ExecuteReplay(r) PROVE ReplayInv' /\ ReplaysStand
  <2>1. CASE sourceIntact
    <3>1. /\ replay[r].status = "pending"
          /\ replay' = [replay EXCEPT ![r].status = "running", ![r].lease = "held"]
          /\ replaying' = [replaying EXCEPT ![r] = "snapshot"]
      BY <1>4, <2>1 DEF ExecuteReplay, ReplayPhases
    <3>2. \A q \in Replays : replay'[q].status = IF q = r THEN "running" ELSE replay[q].status
      BY <3>1 DEF ReplayInv, ReplaysTyped, ReplayRow
    <3>3. ReplaysTyped'
      BY <3>1 DEF ReplayInv, ReplaysTyped, ReplayRow
    <3>4. ReplaysFollow'
      BY <3>1, <3>2, Earlier DEF ReplayInv, ReplaysFollow
    <3>5. ReplaysRun'
      BY <3>1, <3>2 DEF ReplayInv, ReplaysRun, ReplaysTyped
    <3> QED BY <3>1, <3>2, <3>3, <3>4, <3>5 DEF ReplayInv, ReplaysStand
  <2>2. CASE ~sourceIntact
    BY <1>4, <2>2, Blocking DEF ExecuteReplay, RefusalReasons
  <2> QED BY <2>1, <2>2
<1>5. ASSUME NEW r \in Replays, ExpireReplay(r) PROVE ReplayInv' /\ ReplaysStand
  BY <1>5, Blocking DEF ExpireReplay, RefusalReasons
<1>6. ASSUME NEW r \in Replays, ReplayAdvances(r) PROVE ReplayInv' /\ ReplaysStand
  <2>1. PICK i \in 1..(Len(ReplayPhases) - 1) : /\ replaying[r] = ReplayPhases[i]
                                              /\ replaying' = [replaying EXCEPT ![r] = ReplayPhases[i + 1]]
    BY <1>6 DEF ReplayAdvances
  <2>2. ReplayPhases[i] # "idle" /\ ReplayPhases[i + 1] \in {"snapshot", "base", "prepare", "apply", "gates"}
    BY <2>1 DEF ReplayPhases
  <2>3. UNCHANGED replay
    BY <1>6 DEF ReplayAdvances
  <2> QED BY <2>1, <2>2, <2>3 DEF ReplayInv, ReplaysTyped, ReplaysFollow, ReplaysRun, ReplaysStand
<1>7. ASSUME NEW r \in Replays, ReplayStops(r) PROVE ReplayInv' /\ ReplaysStand
  <2>1. PICK reason \in ReplayReasons(replaying[r]) : BlockReplay(r, reason)
    BY <1>7 DEF ReplayStops
  <2>2. reason \in RefusalReasons
    BY DEF ReplayReasons, RefusalReasons
  <2>3. replay[r].status \in {"running", "blocked"} /\ replaying' = [replaying EXCEPT ![r] = "idle"]
    BY <1>7 DEF ReplayStops, ReplayInv, ReplaysRun
  <2> QED BY <2>1, <2>2, <2>3, Blocking
<1>8. ASSUME NEW r \in Replays, SettleReplay(r) PROVE ReplayInv' /\ ReplaysStand
  <2>1. replay[r].status \in {"running", "blocked"} /\ replaying' = [replaying EXCEPT ![r] = "idle"]
    BY <1>8 DEF SettleReplay, ReplayInv, ReplaysRun
  <2>2. CASE replay[r].status = "running"
    <3>1. replay' = [replay EXCEPT ![r] = [status |-> "validated", reason |-> "none", lease |-> "none"]]
      BY <1>8, <2>2 DEF SettleReplay
    <3>2. \A q \in Replays : replay'[q].status = IF q = r THEN "validated" ELSE replay[q].status
      BY <3>1 DEF ReplayInv, ReplaysTyped
    <3>3. ReplaysTyped'
      BY <2>1, <3>1 DEF ReplayInv, ReplaysTyped, ReplayRow
    <3>4. ReplaysFollow'
      BY <2>2, <3>2, Earlier DEF ReplayInv, ReplaysFollow
    <3>5. ReplaysRun'
      BY <2>1, <3>2 DEF ReplayInv, ReplaysRun, ReplaysTyped
    <3> QED BY <2>2, <3>2, <3>3, <3>4, <3>5 DEF ReplayInv, ReplaysStand
  <2>3. CASE replay[r].status # "running"
    <3>1. BlockReplay(r, "unexpected_failure")
      BY <1>8, <2>3 DEF SettleReplay
    <3> QED BY <2>1, <3>1, Blocking DEF RefusalReasons
  <2> QED BY <2>2, <2>3
<1>9. ASSUME NEW r \in Replays, ReplayLeaseEnds(r) PROVE ReplayInv' /\ ReplaysStand
  <2>1. replay' = [replay EXCEPT ![r].lease = "ended"] /\ UNCHANGED replaying
    BY <1>9 DEF ReplayLeaseEnds
  <2>2. \A q \in Replays : replay'[q].status = replay[q].status
    BY <2>1 DEF ReplayInv, ReplaysTyped, ReplayRow
  <2>3. ReplaysTyped'
    BY <2>1 DEF ReplayInv, ReplaysTyped, ReplayRow
  <2> QED BY <2>1, <2>2, <2>3 DEF ReplayInv, ReplaysFollow, ReplaysRun, ReplaysStand
<1>10. CASE SourceChanges \/ PolicyChanges \/ SupersederMerges \/ Resolve \/ UNCHANGED rebaseVars
  BY <1>1, <1>10 DEF SourceChanges, PolicyChanges, SupersederMerges, Resolve, rebaseVars
<1>11. ASSUME NEW v \in FreshReviews,
              \/ \E r \in Replays : AdmitFresh(v, r)
              \/ \E answer \in SettledReview : EndFresh(v, answer)
              \/ StartFresh(v) \/ FailPreflight(v) \/ ClaimFresh(v) \/ CapacityRefused(v)
              \/ ExpireFresh(v) \/ FreshLeaseEnds(v) \/ StartRecovery(v) \/ InsertRecovered(v)
       PROVE UNCHANGED <<replay, replaying>>
  BY <1>11 DEF AdmitFresh, EndFresh, StartFresh, FailPreflight, ClaimFresh, CapacityRefused, ExpireFresh,
               FreshLeaseEnds, StartRecovery, InsertRecovered
<1> QED
  BY <1>1, <1>2, <1>3, <1>4, <1>5, <1>6, <1>7, <1>8, <1>9, <1>10, <1>11 DEF RebaseNext

\* What is known of one review: the parts of the invariant about v.
ReviewFits(v) ==
  /\ fresh[v].status # "none" => fresh[v].replay \in Replays
  /\ fresh[v].status \in {"none", "pending"} => fresh[v].calls = 0 /\ reviewing[v] = "idle"
  /\ fresh[v].status = "none" => recovered[v] = "none"
  /\ fresh[v].status \in {"running", "approved"} => fresh[v].calls = 1
  /\ reviewing[v] = "preflight" => fresh[v].calls = 0
  /\ reviewing[v] = "reviewer" => fresh[v].calls = 1
  /\ reviewing[v] = "promotion" \/ recovered[v] # "none" =>
       fresh[v].status = "approved" /\ replay[fresh[v].replay].status = "validated"
  /\ fresh[v].calls = 1 => fresh[v].claim = IF fresh[v].status = "running" THEN "active" ELSE "released"

FreshInOrder ==
  \A v \in FreshReviews : fresh[v].status # "none" => \A u \in 1..(v - 1) : fresh[u].status # "none"

FreshInv == FreshTyped /\ FreshInOrder /\ (\A v \in FreshReviews : ReviewFits(v)) /\ OneReview

\* The reviews other than the one that moves.
LEMMA OthersStay ==
  ASSUME FreshInv, ReplaysStand, NEW v \in FreshReviews, NEW u \in FreshReviews,
         fresh'[u] = fresh[u], reviewing'[u] = reviewing[u], recovered'[u] = recovered[u]
  PROVE  ReviewFits(u)'
BY DEF FreshInv, ReviewFits, ReplaysStand, Replays

LEMMA OneMoves ==
  ASSUME RebaseAssumption, FreshInv, ReplaysStand, NEW v \in FreshReviews, FreshTyped',
         \A u \in FreshReviews : u # v =>
           fresh'[u] = fresh[u] /\ reviewing'[u] = reviewing[u] /\ recovered'[u] = recovered[u],
         fresh[v].status # "none", fresh'[v].status # "none", fresh'[v].replay = fresh[v].replay,
         ReviewFits(v)', Engaging(v)' => Engaging(v)
  PROVE  FreshInv'
<1>1. ASSUME NEW u \in FreshReviews PROVE ReviewFits(u)'
  BY <1>1, OthersStay
<1>2. FreshInOrder'
  <2>1. \A u \in FreshReviews : fresh'[u].status = "none" <=> fresh[u].status = "none"
    OBVIOUS
  <2>2. \A w \in FreshReviews : \A u \in 1..(w - 1) : u \in FreshReviews
    BY DEF RebaseAssumption, FreshReviews
  <2>3. FreshInOrder
    BY DEF FreshInv
  <2> QED BY <2>1, <2>2, <2>3 DEF FreshInOrder
<1>3. OneReview'
  <2>1. \A u \in FreshReviews : /\ Engaging(u)' => Engaging(u)
                                /\ fresh'[u].replay = fresh[u].replay
    BY DEF Engaging
  <2>2. OneReview
    BY DEF FreshInv
  <2>3. ASSUME NEW u \in FreshReviews, NEW w \in FreshReviews, Engaging(u)', Engaging(w)',
               fresh'[u].replay = fresh'[w].replay
        PROVE  u = w
    <3>1. Engaging(u) /\ Engaging(w) /\ fresh[u].replay = fresh[w].replay
      BY <2>1, <2>3
    <3> QED BY <3>1, <2>2 DEF OneReview
  <2> QED BY <2>3 DEF OneReview
<1> QED BY <1>1, <1>2, <1>3 DEF FreshInv

\* A row keeps its kind when some of its fields are replaced.
LEMMA FieldsReplaced ==
  ASSUME NEW A, NEW B, NEW C, NEW D, NEW E,
         NEW f \in [status : A, replay : B, calls : C, lease : D, claim : E],
         NEW a \in A, NEW b \in B, NEW c \in C, NEW d \in D, NEW e \in E
  PROVE  /\ [f EXCEPT !.status = a, !.replay = b] \in [status : A, replay : B, calls : C, lease : D, claim : E]
         /\ [f EXCEPT !.status = a, !.lease = d] \in [status : A, replay : B, calls : C, lease : D, claim : E]
         /\ [f EXCEPT !.status = a, !.lease = d, !.claim = e]
              \in [status : A, replay : B, calls : C, lease : D, claim : E]
         /\ [f EXCEPT !.status = a, !.calls = c, !.lease = d, !.claim = e]
              \in [status : A, replay : B, calls : C, lease : D, claim : E]
OBVIOUS

\* A review is admitted for a replay that no other review engages.
LEMMA AdmitFreshFits ==
  ASSUME RebaseAssumption, FreshInv, ReplaysStand, NEW v \in FreshReviews, NEW r \in Replays,
         AdmitFresh(v, r)
  PROVE  FreshInv'
<1>1. /\ fresh' = [fresh EXCEPT ![v].status = "pending", ![v].replay = r]
      /\ UNCHANGED <<replay, reviewing, recovered>> /\ MayReview(r)
  BY DEF AdmitFresh
<1>2. fresh[v].status = "none" /\ \A u \in 1..(v - 1) : fresh[u].status # "none"
  <2>1. FreshFollow
    BY DEF FreshInv, FreshInOrder, ReviewFits, FreshFollow
  <2>2. v = Cardinality({u \in FreshReviews : fresh[u].status # "none"}) + 1
    BY DEF AdmitFresh
  <2> QED BY <2>1, <2>2, NextFresh
<1>3. FreshTyped'
  <2>1. r \in 0..MaxReplays
    BY DEF Replays, RebaseAssumption
  <2>2. fresh[v] \in FreshRow /\ "pending" \in {"none"} \cup ActiveReview \cup SettledReview
    BY DEF FreshInv, FreshTyped, ActiveReview
  <2>3. [fresh[v] EXCEPT !.status = "pending", !.replay = r] \in FreshRow
    BY <2>1, <2>2, FieldsReplaced, Zenon DEF FreshRow
  <2>4. fresh' = [fresh EXCEPT ![v] = [fresh[v] EXCEPT !.status = "pending", !.replay = r]]
    BY <1>1
  <2> QED BY <1>1, <2>3, <2>4 DEF FreshInv, FreshTyped
<1>4. /\ fresh'[v] = [fresh[v] EXCEPT !.status = "pending", !.replay = r]
      /\ \A u \in FreshReviews : u # v => fresh'[u] = fresh[u]
  BY <1>1 DEF FreshInv, FreshTyped, FreshRow
<1>5. fresh'[v].status = "pending" /\ fresh'[v].replay = r /\ fresh'[v].calls = fresh[v].calls
  BY <1>4 DEF FreshInv, FreshTyped, FreshRow
<1>6. ReviewFits(v)'
  BY <1>1, <1>2, <1>5 DEF FreshInv, ReviewFits
<1>7. \A u \in FreshReviews : ReviewFits(u)'
  BY <1>1, <1>4, <1>6, OthersStay
<1>8. FreshInOrder'
  <2>1. \A w \in FreshReviews : \A u \in 1..(w - 1) : u \in FreshReviews
    BY DEF RebaseAssumption, FreshReviews
  <2>2. \A u \in FreshReviews : fresh'[u].status # "none" <=> fresh[u].status # "none" \/ u = v
    BY <1>4, <1>5
  <2> QED BY <1>2, <2>1, <2>2 DEF FreshInv, FreshInOrder
<1>9. OneReview'
  <2>1. \A u \in FreshReviews : u # v =>
          /\ Engaging(u)' <=> Engaging(u)
          /\ fresh'[u].replay = fresh[u].replay
    BY <1>4 DEF Engaging
  <2>2. \A u \in FreshReviews : Engaging(u) => fresh[u].replay # r
    BY <1>1 DEF MayReview, Engaging, ActiveReview
  <2> QED BY <1>5, <2>1, <2>2 DEF FreshInv, OneReview
<1> QED BY <1>3, <1>7, <1>8, <1>9 DEF FreshInv

LEMMA FreshStep ==
  ASSUME RebaseAssumption, FreshInv, ReplaysStand, [RebaseNext]_rebaseVars
  PROVE  FreshInv'
<1> USE DEF ActiveReview, SettledReview
<1>0. FreshTyped
  BY DEF FreshInv
<1>1. CASE UNCHANGED <<fresh, reviewing, recovered>>
  <2>1. \A u \in FreshReviews : ReviewFits(u)'
    BY <1>1, OthersStay
  <2> QED BY <1>1, <2>1 DEF FreshInv, FreshTyped, FreshInOrder, OneReview, Engaging
<1>2. CASE ProcessStops
  <2>1. fresh' = fresh /\ recovered' = recovered /\ replay' = replay
        /\ reviewing' = [v \in FreshReviews |-> "idle"]
    BY <1>2 DEF ProcessStops
  <2>2. \A u \in FreshReviews : ReviewFits(u)'
    BY <2>1 DEF FreshInv, ReviewFits
  <2> QED BY <2>1, <2>2 DEF FreshInv, FreshTyped, FreshInOrder, OneReview, Engaging
<1>3. ASSUME NEW v \in FreshReviews, NEW r \in Replays, AdmitFresh(v, r) PROVE FreshInv'
  BY <1>3, AdmitFreshFits
<1>4. ASSUME NEW v \in FreshReviews, NEW s \in SettledReview, SettleFresh(v, s), ReviewFits(v),
             reviewing' = reviewing \/ reviewing' = [reviewing EXCEPT ![v] = "idle"],
             UNCHANGED <<replay, recovered>>, s = "approved" => fresh[v].calls = 1,
             fresh[v].status = "pending" \/ fresh[v].status # "pending"
      PROVE FreshInv'
  <2>1. /\ fresh' = [fresh EXCEPT ![v].status = s, ![v].lease = "none",
                            ![v].claim = IF @ = "active" THEN "released" ELSE @]
        /\ fresh[v].status \in ActiveReview
    BY <1>4 DEF SettleFresh
  <2>2. FreshTyped'
    <3>1. fresh[v] \in FreshRow /\ s \in {"none"} \cup ActiveReview \cup SettledReview
      BY <1>0, <1>4 DEF FreshTyped
    <3>2. PICK e \in {"none", "active", "released"} :
            e = IF fresh[v].claim = "active" THEN "released" ELSE fresh[v].claim
      BY <3>1 DEF FreshRow
    <3>3. [fresh[v] EXCEPT !.status = s, !.lease = "none", !.claim = e] \in FreshRow
      BY <3>1, <3>2, FieldsReplaced, Zenon DEF FreshRow
    <3>4. fresh' = [fresh EXCEPT ![v] = [fresh[v] EXCEPT !.status = s, !.lease = "none", !.claim = e]]
      BY <2>1, <3>2
    <3> QED BY <3>3, <3>4, <1>4, <1>0 DEF FreshTyped
  <2>3. /\ fresh'[v].status = s /\ fresh'[v].replay = fresh[v].replay /\ fresh'[v].calls = fresh[v].calls
        /\ fresh'[v].claim = IF fresh[v].claim = "active" THEN "released" ELSE fresh[v].claim
        /\ \A u \in FreshReviews : u # v => fresh'[u] = fresh[u]
    BY <2>1, <1>0 DEF FreshTyped, FreshRow
  <2>4. ReviewFits(v)'
    BY <2>1, <2>3, <1>4, <1>0 DEF ReviewFits, FreshTyped
  <2>5. Engaging(v)
    BY <2>1 DEF Engaging
  <2>6. \A u \in FreshReviews : u # v =>
           fresh'[u] = fresh[u] /\ reviewing'[u] = reviewing[u] /\ recovered'[u] = recovered[u]
    BY <2>3, <1>4, <1>0 DEF FreshTyped
  <2>7. fresh[v].status # "none" /\ fresh'[v].status # "none"
    BY <2>1, <2>3
  <2> QED BY <2>2, <2>3, <2>4, <2>5, <2>6, <2>7, OneMoves
\* The execution stops; its row stays.
<1>5. ASSUME NEW v \in FreshReviews, reviewing' = [reviewing EXCEPT ![v] = "idle"],
             UNCHANGED <<fresh, recovered, replay>>
      PROVE FreshInv'
  <2>1. \A u \in FreshReviews : ReviewFits(u)'
    BY <1>5, <1>0 DEF FreshInv, ReviewFits, FreshTyped
  <2>2. FreshTyped'
    BY <1>5, <1>0 DEF FreshTyped
  <2> QED BY <1>5, <2>1, <2>2 DEF FreshInv, FreshInOrder, OneReview, Engaging
<1>6. ASSUME NEW v \in FreshReviews PROVE ReviewFits(v)
  BY <1>6 DEF FreshInv
<1>7. ASSUME NEW v \in FreshReviews, NEW s \in SettledReview, EndFresh(v, s) PROVE FreshInv'
  <2>1. fresh[v].calls = 1
    BY <1>6, <1>7 DEF EndFresh, ReviewFits
  <2>2. SettleFresh(v, s) \/ UNCHANGED fresh
    BY <1>7 DEF EndFresh, SettleOrThrow
  <2>3. reviewing' = [reviewing EXCEPT ![v] = "idle"] /\ UNCHANGED <<replay, recovered>>
    BY <1>7 DEF EndFresh
  <2> QED BY <2>1, <2>2, <2>3, <1>4, <1>5, <1>6
<1>8. ASSUME NEW v \in FreshReviews, FailPreflight(v) PROVE FreshInv'
  <2>2. SettleFresh(v, "blocked") \/ UNCHANGED fresh
    BY <1>8 DEF FailPreflight, SettleOrThrow
  <2>3. reviewing' = [reviewing EXCEPT ![v] = "idle"] /\ UNCHANGED <<replay, recovered>>
    BY <1>8 DEF FailPreflight
  <2> QED BY <2>2, <2>3, <1>4, <1>5, <1>6
<1>9. ASSUME NEW v \in FreshReviews, CapacityRefused(v) PROVE FreshInv'
  BY <1>5, <1>9 DEF CapacityRefused
<1>10. ASSUME NEW v \in FreshReviews, ExpireFresh(v) PROVE FreshInv'
  <2>1. \E s \in {"failed", "blocked"} : SettleFresh(v, s)
    BY <1>10 DEF ExpireFresh
  <2>2. UNCHANGED <<replay, reviewing, recovered>>
    BY <1>10 DEF ExpireFresh
  <2> QED BY <2>1, <2>2, <1>4, <1>6
<1>11. ASSUME NEW v \in FreshReviews, StartFresh(v) PROVE FreshInv'
  <2>1. fresh[v].status = "pending" /\ UNCHANGED <<replay, recovered>>
    BY <1>11 DEF StartFresh
  <2>2. CASE SettleFresh(v, "blocked") /\ UNCHANGED reviewing
    BY <2>1, <2>2, <1>4, <1>6
  <2>3. CASE /\ fresh' = [fresh EXCEPT ![v].status = "preparing", ![v].lease = "held"]
             /\ reviewing' = [reviewing EXCEPT ![v] = "preflight"]
    <3>1. FreshTyped'
      <4>1. fresh[v] \in FreshRow /\ "preparing" \in {"none"} \cup ActiveReview \cup SettledReview
        BY <1>0 DEF FreshTyped
      <4>2. [fresh[v] EXCEPT !.status = "preparing", !.lease = "held"] \in FreshRow
        BY <4>1, FieldsReplaced, Zenon DEF FreshRow
      <4>3. fresh' = [fresh EXCEPT ![v] = [fresh[v] EXCEPT !.status = "preparing", !.lease = "held"]]
        BY <2>3
      <4> QED BY <4>2, <4>3, <2>1, <2>3, <1>0 DEF FreshTyped
    <3>2. /\ fresh'[v].status = "preparing" /\ fresh'[v].replay = fresh[v].replay
          /\ fresh'[v].calls = fresh[v].calls /\ fresh'[v].claim = fresh[v].claim
      BY <2>3, <1>0 DEF FreshTyped, FreshRow
    <3>3. ReviewFits(v)'
      BY <3>2, <2>1, <2>3, <1>6, <1>0 DEF ReviewFits, FreshTyped
    <3>4. \A u \in FreshReviews : u # v =>
           fresh'[u] = fresh[u] /\ reviewing'[u] = reviewing[u] /\ recovered'[u] = recovered[u]
      BY <2>1, <2>3, <1>0 DEF FreshTyped
    <3>5. Engaging(v)
      BY <2>1 DEF Engaging
    <3> QED BY <2>1, <3>1, <3>2, <3>3, <3>4, <3>5, OneMoves
  <2> QED BY <1>11, <2>2, <2>3 DEF StartFresh
<1>12. ASSUME NEW v \in FreshReviews, ClaimFresh(v) PROVE FreshInv'
  <2>1. reviewing[v] = "preflight" /\ UNCHANGED <<replay, recovered>>
    BY <1>12 DEF ClaimFresh
  <2>2. CASE fresh[v].status = "preparing"
    <3>0. /\ fresh' = [fresh EXCEPT ![v].status = "running", ![v].calls = 1,
                                    ![v].lease = "held", ![v].claim = "active"]
          /\ reviewing' = [reviewing EXCEPT ![v] = "reviewer"]
      BY <1>12, <2>2 DEF ClaimFresh
    <3>1. FreshTyped'
      <4>1. fresh[v] \in FreshRow /\ "running" \in {"none"} \cup ActiveReview \cup SettledReview
        BY <1>0 DEF FreshTyped
      <4>2. [fresh[v] EXCEPT !.status = "running", !.calls = 1, !.lease = "held", !.claim = "active"]
              \in FreshRow
        BY <4>1, FieldsReplaced, Zenon DEF FreshRow
      <4>3. fresh' = [fresh EXCEPT ![v] = [fresh[v] EXCEPT !.status = "running", !.calls = 1,
                                                           !.lease = "held", !.claim = "active"]]
        BY <3>0
      <4> QED BY <4>2, <4>3, <2>1, <3>0, <1>0 DEF FreshTyped
    <3>2. /\ fresh'[v].status = "running" /\ fresh'[v].replay = fresh[v].replay
          /\ fresh'[v].calls = 1 /\ fresh'[v].claim = "active"
      BY <3>0, <1>0 DEF FreshTyped, FreshRow
    <3>3. ReviewFits(v)'
      BY <3>2, <2>1, <2>2, <3>0, <1>6, <1>0 DEF ReviewFits, FreshTyped
    <3>4. \A u \in FreshReviews : u # v =>
           fresh'[u] = fresh[u] /\ reviewing'[u] = reviewing[u] /\ recovered'[u] = recovered[u]
      BY <2>1, <3>0, <1>0 DEF FreshTyped
    <3>5. Engaging(v)
      BY <2>2 DEF Engaging
    <3> QED BY <2>2, <3>1, <3>2, <3>3, <3>4, <3>5, OneMoves
  <2>3. CASE fresh[v].status # "preparing"
    <3>0. /\ fresh' = [fresh EXCEPT ![v].claim = "active"]
          /\ reviewing' = [reviewing EXCEPT ![v] = "idle"]
      BY <1>12, <2>3 DEF ClaimFresh
    <3>1. FreshTyped'
      BY <2>1, <3>0, <1>0 DEF FreshTyped, FreshRow
    <3>2. /\ fresh'[v].status = fresh[v].status /\ fresh'[v].replay = fresh[v].replay
          /\ fresh'[v].calls = fresh[v].calls
      BY <3>0, <1>0 DEF FreshTyped, FreshRow
    <3>6. fresh[v].calls = 0 /\ fresh[v].status # "none"
      BY <2>1, <1>6 DEF ReviewFits
    <3>3. ReviewFits(v)'
      BY <3>2, <3>6, <2>1, <3>0, <1>6, <1>0 DEF ReviewFits, FreshTyped
    <3>4. \A u \in FreshReviews : u # v =>
           fresh'[u] = fresh[u] /\ reviewing'[u] = reviewing[u] /\ recovered'[u] = recovered[u]
      BY <2>1, <3>0, <1>0 DEF FreshTyped
    <3>5. Engaging(v)' => Engaging(v)
      BY <3>2 DEF Engaging
    <3> QED BY <3>1, <3>2, <3>3, <3>4, <3>5, <3>6, OneMoves
  <2> QED BY <2>2, <2>3
<1>13. ASSUME NEW v \in FreshReviews, FreshLeaseEnds(v) PROVE FreshInv'
  <2>1. fresh' = [fresh EXCEPT ![v].lease = "ended"] /\ UNCHANGED <<replay, reviewing, recovered>>
    BY <1>13 DEF FreshLeaseEnds
  <2>2. FreshTyped'
    BY <2>1, <1>0 DEF FreshTyped, FreshRow
  <2>3. \A u \in FreshReviews : /\ fresh'[u].status = fresh[u].status /\ fresh'[u].replay = fresh[u].replay
                                /\ fresh'[u].calls = fresh[u].calls /\ fresh'[u].claim = fresh[u].claim
    BY <2>1, <1>0 DEF FreshTyped, FreshRow
  <2>4. \A u \in FreshReviews : ReviewFits(u)'
    BY <2>1, <2>3 DEF FreshInv, ReviewFits
  <2>5. FreshInOrder'
    <3>1. \A w \in FreshReviews : \A u \in 1..(w - 1) : u \in FreshReviews
      BY DEF RebaseAssumption, FreshReviews
    <3> QED BY <2>3, <3>1 DEF FreshInv, FreshInOrder
  <2> QED BY <2>2, <2>3, <2>4, <2>5 DEF FreshInv, OneReview, Engaging
<1>14. ASSUME NEW v \in FreshReviews, StartRecovery(v) PROVE FreshInv'
  <2>1. /\ fresh[v].status = "approved" /\ replay[fresh[v].replay].status = "validated"
        /\ fresh[v].calls = 1 /\ reviewing' = [reviewing EXCEPT ![v] = "promotion"]
        /\ UNCHANGED <<fresh, replay, recovered>>
    BY <1>14 DEF StartRecovery
  <2>2. \A u \in FreshReviews : ReviewFits(u)'
    BY <2>1, <1>0, <1>6 DEF ReviewFits, FreshTyped
  <2> QED BY <2>1, <2>2 DEF FreshInv, FreshTyped, FreshInOrder, OneReview, Engaging
<1>15. ASSUME NEW v \in FreshReviews, InsertRecovered(v) PROVE FreshInv'
  <2>1. PICK s \in {"pending", "blocked"} :
          recovered' = [recovered EXCEPT ![v] = IF @ = "none" THEN s ELSE @]
    BY <1>15 DEF InsertRecovered
  <2>2. reviewing[v] = "promotion" /\ reviewing' = [reviewing EXCEPT ![v] = "idle"]
        /\ UNCHANGED <<fresh, replay>>
    BY <1>15 DEF InsertRecovered
  <2>3. \A u \in FreshReviews : ReviewFits(u)'
    BY <2>1, <2>2, <1>0, <1>6 DEF ReviewFits, FreshTyped
  <2> QED BY <2>1, <2>2, <2>3 DEF FreshInv, FreshTyped, FreshInOrder, OneReview, Engaging
<1>16. CASE SourceChanges \/ PolicyChanges \/ SupersederMerges \/ Resolve \/ UNCHANGED rebaseVars
  BY <1>1, <1>16 DEF SourceChanges, PolicyChanges, SupersederMerges, Resolve, rebaseVars
<1>17. ASSUME NEW r \in Replays,
              \/ AdmitReplay(r) \/ ExecuteReplay(r) \/ ExpireReplay(r) \/ ReplayAdvances(r)
              \/ ReplayStops(r) \/ SettleReplay(r) \/ ReplayLeaseEnds(r)
       PROVE UNCHANGED <<fresh, reviewing, recovered>>
  BY <1>17 DEF AdmitReplay, ExecuteReplay, ExpireReplay, ReplayAdvances, ReplayStops, SettleReplay,
               ReplayLeaseEnds
<1> QED
  BY <1>1, <1>2, <1>3, <1>7, <1>8, <1>9, <1>10, <1>11, <1>12, <1>13, <1>14, <1>15, <1>16, <1>17 DEF RebaseNext

RebaseInv == FlagsTyped /\ ReplayInv /\ FreshInv

LEMMA RebaseStarts == RebaseInit => RebaseInv
<1> SUFFICES ASSUME RebaseInit PROVE RebaseInv
  OBVIOUS
<1> USE DEF RebaseInit
<1>1. FlagsTyped /\ ReplayInv
  BY DEF FlagsTyped, ReplayInv, ReplaysTyped, ReplayRow, ReplaysFollow, ReplaysRun, NoReplay
<1>2. fresh \in [FreshReviews -> FreshRow]
  <2>1. 0 \in 0..MaxReplays
    BY RebaseAssumption DEF RebaseAssumption
  <2>2. NoFresh \in FreshRow
    BY <2>1 DEF NoFresh, FreshRow
  <2> QED BY <2>2
<1>3. FreshTyped
  BY <1>2 DEF FreshTyped
<1>4. \A v \in FreshReviews : fresh[v].status = "none" /\ fresh[v].calls = 0
  BY DEF NoFresh
<1>5. FreshInOrder /\ (\A v \in FreshReviews : ReviewFits(v)) /\ OneReview
  BY <1>4 DEF FreshInOrder, ReviewFits, OneReview, Engaging, ActiveReview
<1> QED BY <1>1, <1>3, <1>5 DEF RebaseInv, FreshInv

LEMMA RebaseStep == RebaseInv /\ [RebaseNext]_rebaseVars => RebaseInv'
<1> SUFFICES ASSUME RebaseInv, [RebaseNext]_rebaseVars PROVE RebaseInv'
  OBVIOUS
<1>1. ReplayInv' /\ ReplaysStand
  BY ReplayStep, RebaseAssumption DEF RebaseInv
<1>2. FreshInv'
  BY <1>1, FreshStep, RebaseAssumption DEF RebaseInv
<1>3. FlagsTyped'
  BY ZenonT(40) DEF RebaseInv, FlagsTyped, RebaseNext, rebaseVars, SourceChanges, PolicyChanges, SupersederMerges,
         ProcessStops, Resolve, AdmitReplay, ExecuteReplay, ExpireReplay, ReplayAdvances, ReplayStops,
         SettleReplay, ReplayLeaseEnds, AdmitFresh, EndFresh, StartFresh, FailPreflight, ClaimFresh,
         CapacityRefused, ExpireFresh, FreshLeaseEnds, StartRecovery, InsertRecovered
<1> QED BY <1>1, <1>2, <1>3 DEF RebaseInv

\* At most one replay is open or validated, and it is the last.
LEMMA OneReplay ==
  ASSUME RebaseAssumption, ReplayInv, NEW r \in Replays, NEW q \in Replays,
         replay[r].status = "validated", replay[q].status \notin {"none", "blocked"}
  PROVE  r = q
<1>1. r \in Int /\ q \in Int
  BY Earlier
<1>2. ~(r < q) /\ ~(q < r)
  BY Earlier DEF ReplayInv, ReplaysFollow
<1> QED BY <1>1, <1>2

LEMMA RebaseSafe == RebaseInv => RecoveryIsSound
<1> SUFFICES ASSUME RebaseInv PROVE RecoveryIsSound
  OBVIOUS
<1>0. IsFiniteSet(FreshReviews)
  BY RebaseAssumption, FS_Interval DEF RebaseAssumption, FreshReviews
<1>1. RebaseTypeOK
  BY RebaseTypes DEF RebaseInv, ReplayInv, FreshInv, ReviewFits
<1>2. RecoveredOnce
  <2> DEFINE S == {v \in FreshReviews : recovered[v] # "none"}
  <2>1. \A v \in FreshReviews : recovered[v] # "none" =>
          /\ fresh[v].status = "approved" /\ replay[fresh[v].replay].status = "validated"
          /\ fresh[v].replay \in Replays
    BY DEF RebaseInv, FreshInv, ReviewFits
  <2>2. ASSUME NEW u \in S, NEW v \in S PROVE u = v
    <3>1. fresh[u].replay = fresh[v].replay
      BY <2>1, OneReplay, RebaseAssumption DEF RebaseInv
    <3> QED BY <3>1, <2>1 DEF RebaseInv, FreshInv, OneReview, Engaging
  <2>3. IsFiniteSet(S)
    BY <1>0, FS_Subset
  <2> HIDE DEF S
  <2>4. Cardinality(S) <= 1
    BY <2>2, <2>3, AtMostOne
  <2> QED BY <2>1, <2>4 DEF S, RecoveredOnce
<1>3. OneFreshCall
  <2> SUFFICES ASSUME NEW r \in Replays
               PROVE  Cardinality({v \in FreshReviews :
                        fresh[v].replay = r /\ (fresh[v].calls = 1 \/ reviewing[v] = "reviewer")}) <= 1
    BY DEF OneFreshCall
  <2> DEFINE S == {v \in FreshReviews :
                     fresh[v].replay = r /\ (fresh[v].calls = 1 \/ reviewing[v] = "reviewer")}
  <2>1. ASSUME NEW u \in S, NEW v \in S PROVE u = v
    BY DEF RebaseInv, FreshInv, ReviewFits, OneReview, Engaging
  <2>2. IsFiniteSet(S)
    BY <1>0, FS_Subset
  <2> HIDE DEF S
  <2>3. Cardinality(S) <= 1
    BY <2>1, <2>2, AtMostOne
  <2> QED BY <2>3 DEF S
<1>4. FreshCallsAreCounted
  BY DEF RebaseInv, FreshInv, ReviewFits, FreshCallsAreCounted
<1> QED BY <1>1, <1>2, <1>3, <1>4 DEF RecoveryIsSound

\* A review that is settled is out of reach of every settlement.
LEMMA SettledStays ==
  ASSUME RebaseInv, [RebaseNext]_rebaseVars, NEW v \in FreshReviews, fresh[v].status \in SettledReview
  PROVE  fresh'[v].status = fresh[v].status
<1>0. fresh \in [FreshReviews -> FreshRow] /\ FreshInv
  BY DEF RebaseInv, FreshInv, FreshTyped
<1>1. ASSUME NEW u \in FreshReviews, NEW s, SettleFresh(u, s) PROVE fresh'[v] = fresh[v]
  <2>1. u # v /\ fresh' = [fresh EXCEPT ![u] = fresh'[u]]
    BY <1>0, <1>1 DEF SettleFresh, ActiveReview, SettledReview
  <2> QED BY <1>0, <2>1
<1>2. ASSUME NEW u \in FreshReviews, NEW r \in Replays, AdmitFresh(u, r) PROVE fresh'[v] = fresh[v]
  <2>1. FreshFollow
    BY <1>0 DEF FreshInv, FreshInOrder, ReviewFits, FreshFollow
  <2>2. u = Cardinality({w \in FreshReviews : fresh[w].status # "none"}) + 1
    BY <1>2 DEF AdmitFresh
  <2>3. fresh[u].status = "none"
    BY <2>1, <2>2, NextFresh, RebaseAssumption
  <2>4. fresh' = [fresh EXCEPT ![u].status = "pending", ![u].replay = r]
    BY <1>2 DEF AdmitFresh
  <2> QED BY <1>0, <2>3, <2>4 DEF SettledReview
<1>3. ASSUME NEW u \in FreshReviews, StartFresh(u) PROVE fresh'[v] = fresh[v]
  BY <1>0, <1>1, <1>3 DEF StartFresh, SettledReview
<1>4. ASSUME NEW u \in FreshReviews, ClaimFresh(u) PROVE fresh'[v].status = fresh[v].status
  BY <1>0, <1>4 DEF ClaimFresh, SettledReview, FreshRow
<1>5. ASSUME NEW u \in FreshReviews, FreshLeaseEnds(u) PROVE fresh'[v].status = fresh[v].status
  BY <1>0, <1>5 DEF FreshLeaseEnds, FreshRow
<1>6. ASSUME NEW u \in FreshReviews,
             FailPreflight(u) \/ ExpireFresh(u) \/ \E answer \in SettledReview : EndFresh(u, answer)
      PROVE fresh'[v] = fresh[v]
  BY <1>1, <1>6 DEF FailPreflight, ExpireFresh, EndFresh, SettleOrThrow
<1>7. ASSUME NEW u \in FreshReviews, CapacityRefused(u) \/ StartRecovery(u) \/ InsertRecovered(u)
      PROVE UNCHANGED fresh
  BY <1>7 DEF CapacityRefused, StartRecovery, InsertRecovered
<1>8. CASE SourceChanges \/ PolicyChanges \/ SupersederMerges \/ Resolve \/ ProcessStops \/ UNCHANGED rebaseVars
  BY <1>8 DEF SourceChanges, PolicyChanges, SupersederMerges, Resolve, ProcessStops, rebaseVars
<1>9. ASSUME NEW r \in Replays,
             \/ AdmitReplay(r) \/ ExecuteReplay(r) \/ ExpireReplay(r) \/ ReplayAdvances(r)
             \/ ReplayStops(r) \/ SettleReplay(r) \/ ReplayLeaseEnds(r)
      PROVE UNCHANGED fresh
  BY <1>9 DEF AdmitReplay, ExecuteReplay, ExpireReplay, ReplayAdvances, ReplayStops, SettleReplay,
              ReplayLeaseEnds
<1> QED BY <1>2, <1>3, <1>4, <1>5, <1>6, <1>7, <1>8, <1>9 DEF RebaseNext

\* What is written off has no validated replay: the last one is blocked, and so are those before it.
LEMMA WrittenOff ==
  ASSUME RebaseInv, [RebaseNext]_rebaseVars, resolution' # resolution, NEW r \in Replays
  PROVE  replay[r].status # "validated"
<1>1. Resolve
  BY ZenonT(40) DEF RebaseNext, rebaseVars, SourceChanges, PolicyChanges, SupersederMerges,
         ProcessStops, AdmitReplay, ExecuteReplay, ExpireReplay, ReplayAdvances, ReplayStops,
         SettleReplay, ReplayLeaseEnds, AdmitFresh, EndFresh, StartFresh, FailPreflight, ClaimFresh,
         CapacityRefused, ExpireFresh, FreshLeaseEnds, StartRecovery, InsertRecovered
<1>2. LatestReplay > 0 /\ replay[LatestReplay].status = "blocked"
  BY <1>1 DEF Resolve
<1>3. LatestReplay \in Nat /\ \A q \in Replays : replay[q].status # "none" <=> q <= LatestReplay
  BY NextReplay, RebaseAssumption DEF RebaseInv, ReplayInv
<1>4. ASSUME replay[r].status = "validated" PROVE FALSE
  <2>1. r <= LatestReplay /\ r # LatestReplay /\ r \in 1..MaxReplays
    BY <1>2, <1>3, <1>4 DEF Replays
  <2>2. LatestReplay \in Replays
    <3>1. ASSUME LatestReplay > MaxReplays PROVE FALSE
      <4>1. {q \in Replays : replay[q].status # "none"} \in SUBSET (1..MaxReplays)
        BY DEF Replays
      <4>2. IsFiniteSet(1..MaxReplays) /\ Cardinality(1..MaxReplays) = MaxReplays /\ MaxReplays \in Nat
        BY <2>1, FS_Interval, RebaseAssumption DEF RebaseAssumption
      <4>3. LatestReplay <= MaxReplays
        BY <4>1, <4>2, FS_Subset DEF LatestReplay
      <4> QED BY <3>1, <4>2, <4>3, <1>3
    <3> QED BY <3>1, <1>2, <1>3, RebaseAssumption DEF RebaseAssumption, Replays
  <2>3. r \in 1..(LatestReplay - 1)
    BY <2>1, <1>3
  <2> QED BY <1>2, <1>4, <2>2, <2>3 DEF RebaseInv, ReplayInv, ReplaysFollow
<1> QED BY <1>4

LEMMA RecoverySoundAlways == RebaseSpec => []RecoveryIsSound
BY RebaseStarts, RebaseStep, RebaseSafe, PTL DEF RebaseSpec

LEMMA RecoveryStands == RebaseSpec => RecoveryVerdictsStand /\ ResolutionWritesOffNothing
<1>1. RebaseInv /\ [RebaseNext]_rebaseVars =>
        [/\ \A r \in Replays : replay[r].status \in {"validated", "blocked"} =>
               replay'[r].status = replay[r].status
         /\ \A v \in FreshReviews : fresh[v].status \in SettledReview =>
               fresh'[v].status = fresh[v].status]_rebaseVars
  BY ReplayStep, SettledStays, RebaseAssumption DEF RebaseInv, ReplaysStand
<1>2. RebaseInv /\ [RebaseNext]_rebaseVars =>
        [resolution' # resolution => \A r \in Replays : replay[r].status # "validated"]_rebaseVars
  BY WrittenOff
<1> QED BY <1>1, <1>2, RebaseStarts, RebaseStep, PTL
           DEF RebaseSpec, RecoveryVerdictsStand, ResolutionWritesOffNothing

(***************************************************************************)
(* Draft execution.                                                        *)
(***************************************************************************)
\* What each stage of an attempt has behind it.
StagesAreReached ==
  /\ stage \in {"created", "prepared"} => calls = 0
  /\ stage = "prepared" => preparation = "passed" /\ (claimed => head = "base" /\ changed = {})
  /\ stage \in {"worked", "gated"} => calls = 1 /\ disposition \in Dispositions

ExecutionInv ==
  /\ ExecutionTypeOK /\ head \in {"base", "moved"}
  /\ StagesAreReached
  /\ DraftIsWithinPolicy

LEMMA ExecutionStarts == ExecutionInit => ExecutionInv
<1> SUFFICES ASSUME ExecutionInit PROVE ExecutionInv
  OBVIOUS
<1>1. changed \subseteq Paths /\ head \in {"base", "moved"}
  BY DEF ExecutionInit
<1>2. passed \in 0..GateCount /\ calls \in 0..1
  BY ExecutionAssumption DEF ExecutionInit, ExecutionAssumption
<1> QED BY <1>1, <1>2 DEF ExecutionInit, ExecutionInv, ExecutionTypeOK, StagesAreReached, DraftIsWithinPolicy,
                          Stages

LEMMA CollectKeeps ==
  ASSUME ExecutionInv, Collect
  PROVE  ExecutionInv'
<1>0. stage' = "settled" /\ UNCHANGED <<claimed, preparation, changed, head, disposition, passed, calls>>
  BY DEF Collect, Settle
<1>1. stage \in {"worked", "gated"} /\ calls = 1 /\ disposition \in Dispositions
  BY DEF Collect, ExecutionInv, StagesAreReached
<1>2. draft'.paths = changed /\ draft'.head = head /\ draft'.violations = Violations(changed)
  BY DEF Collect, Diff
<1>3. outcome' = IF Violations(changed) = {} /\ passed = GateCount THEN "succeeded" ELSE "blocked"
  BY <1>2 DEF Collect, Settle
<1>4. ExecutionTypeOK'
  BY <1>0, <1>1, <1>2, <1>3 DEF ExecutionInv, ExecutionTypeOK, Stages
<1>5. DraftIsWithinPolicy'
  <2> SUFFICES ASSUME outcome' = "succeeded" PROVE DraftIsWithinPolicy'
    BY DEF DraftIsWithinPolicy
  <2>1. Violations(changed) = {} /\ passed = GateCount
    BY <1>3
  <2>2. \A v \in {"blocked", "no_patch", "unreported", "files", "head", "protected", "gates"} :
          v \notin Violations(changed)
    BY <2>1
  <2>3. disposition # "blocked"
    BY <2>2 DEF Violations
  <2>4. ~(disposition = "changed" /\ changed = {})
    BY <2>2 DEF Violations
  <2>5. ~(disposition = "no_change" /\ changed # {})
    BY <2>2 DEF Violations
  <2>6. ~(Cardinality(changed) > MaxFiles)
    BY <2>2 DEF Violations
  <2>7. head = "base"
    BY <2>2 DEF Violations
  <2>8. changed \cap Protected = {}
    BY <2>2 DEF Violations
  <2>9. Cardinality(changed) <= MaxFiles
    <3>1. IsFiniteSet(Paths) /\ MaxFiles \in Nat /\ changed \in SUBSET Paths
      BY ExecutionAssumption DEF ExecutionAssumption, ExecutionInv, ExecutionTypeOK
    <3>2. Cardinality(changed) \in Nat
      BY <3>1, FS_Subset, FS_CardinalityType
    <3> QED BY <2>6, <3>1, <3>2
  <2>10. disposition = IF changed = {} THEN "no_change" ELSE "changed"
    BY <1>1, <2>3, <2>4, <2>5 DEF Dispositions
  <2> QED BY <1>0, <1>2, <2>1, <2>7, <2>8, <2>9, <2>10 DEF DraftIsWithinPolicy
<1> QED BY <1>0, <1>4, <1>5 DEF ExecutionInv, StagesAreReached

LEMMA ExecutionStep == ExecutionInv /\ [ExecutionNext]_executionVars => ExecutionInv'
<1> SUFFICES ASSUME ExecutionInv, [ExecutionNext]_executionVars PROVE ExecutionInv'
  OBVIOUS
<1> USE DEF ExecutionInv, ExecutionTypeOK, StagesAreReached, DraftIsWithinPolicy, Stages
<1>g. GateCount \in Nat
  BY ExecutionAssumption DEF ExecutionAssumption
<1>1. CASE Fail
  BY <1>1 DEF Fail, Settle
<1>2. CASE TakeOver
  BY <1>2 DEF TakeOver, Settle, Prepared, Trusted
<1>3. CASE Collect
  BY <1>3, CollectKeeps
<1>4. ASSUME NEW left \in SUBSET Paths, NEW at \in {"base", "moved"}, NEW status \in {"passed", "failed", "timed_out"},
             Prepare(status, left, at)
      PROVE ExecutionInv'
  BY <1>4 DEF Prepare, Settle
<1>5. ASSUME NEW left \in SUBSET Paths, NEW at \in {"base", "moved"}, NEW d \in Dispositions,
             RunWorker(d, left, at)
      PROVE ExecutionInv'
  BY <1>5 DEF RunWorker
<1>6. ASSUME NEW left \in SUBSET Paths, NEW at \in {"base", "moved"}, NEW ok \in BOOLEAN, Gate(ok, left, at)
      PROVE ExecutionInv'
  <2>1. passed' \in 0..GateCount
    BY <1>6, <1>g DEF Gate
  <2> QED BY <1>6, <2>1 DEF Gate
<1>7. CASE UNCHANGED executionVars
  BY <1>7 DEF executionVars
<1> QED BY <1>1, <1>2, <1>3, <1>4, <1>5, <1>6, <1>7 DEF ExecutionNext

LEMMA DraftTrustedAlways == ExecutionSpec => []DraftIsTrusted
<1>1. ExecutionInv => DraftIsTrusted
  BY DEF ExecutionInv, DraftIsTrusted
<1> QED BY <1>1, ExecutionStarts, ExecutionStep, PTL DEF ExecutionSpec

LEMMA CallsArePrepared == ExecutionSpec => CallNeedsPreparation
<1>1. ExecutionInv /\ [ExecutionNext]_executionVars =>
        [calls' # calls =>
           preparation = "passed" /\ (claimed => head = "base" /\ changed = {})]_executionVars
  BY DEF ExecutionInv, StagesAreReached, ExecutionNext, Fail, TakeOver, Collect, Prepare, RunWorker, Gate
<1> QED BY <1>1, ExecutionStarts, ExecutionStep, PTL DEF ExecutionSpec, CallNeedsPreparation

(***************************************************************************)
(* Operator sessions.                                                      *)
(***************************************************************************)
CallbackRow == [login : Nat, at : Nat, step : {"none", "asked", "active", "inactive", "ended"}]
Pending(c) == callback[c].step \in {"asked", "active", "inactive"}

SessionKinds ==
  /\ time \in Nat /\ activeAt \in Nat /\ activeAt <= time /\ member \in BOOLEAN
  /\ begun \in 0..MaxLogins /\ stateCookie \in 0..begun
  /\ states \subseteq [login : 1..begun, expires : Nat]
  /\ sessions \subseteq [of : Callbacks, login : Nat, expires : Nat, revoked : BOOLEAN]
  /\ callback \in [Callbacks -> CallbackRow]
  /\ opened \in [Logins -> Nat]
  /\ served \in [at : Nat, activeAt : Nat]

\* Callbacks are received one after the other, for logins that were begun.
CallbacksFollow ==
  \A c \in Callbacks : callback[c].step # "none" =>
    /\ callback[c].login \in 1..begun /\ callback[c].at <= time
    /\ \A b \in 1..(c - 1) : callback[b].step # "none"

SessionsAreOf ==
  /\ \A s \in sessions : callback[s.of].step # "none" /\ s.expires <= callback[s.of].at + SessionTTL
  /\ sessionCookie = 0 \/ (sessionCookie \in Callbacks /\ callback[sessionCookie].step # "none")

\* A state is gone once a callback took it, and with a callback that still waits
\* its login has opened no session and has no other such callback.
LoginsAreSpent ==
  /\ \A c \in Callbacks : Pending(c) =>
       /\ opened[callback[c].login] = 0
       /\ \A s \in states : s.login # callback[c].login
       /\ \A b \in Callbacks : Pending(b) /\ callback[b].login = callback[c].login => b = c
  /\ \A l \in Logins : opened[l] <= 1 /\ (opened[l] > 0 => l <= begun /\ \A s \in states : s.login # l)

\* The person was a member when GitHub answered, which is after the clock was read.
MembershipIsSeen ==
  /\ member => activeAt = time
  /\ \A c \in Callbacks : callback[c].step = "active" => callback[c].at <= activeAt
  /\ \A s \in sessions : s.expires <= activeAt + SessionTTL
  /\ served.at < served.activeAt + SessionTTL

SessionInv == SessionKinds /\ CallbacksFollow /\ SessionsAreOf /\ LoginsAreSpent /\ MembershipIsSeen

LEMMA SessionStarts == SessionInit => SessionInv
<1> SUFFICES ASSUME SessionInit PROVE SessionInv
  OBVIOUS
<1> USE SessionAssumption DEF SessionAssumption, SessionInit
<1>1. SessionKinds
  BY DEF SessionKinds, CallbackRow
<1>2. CallbacksFollow /\ SessionsAreOf
  BY DEF CallbacksFollow, SessionsAreOf
<1>3. LoginsAreSpent
  BY DEF LoginsAreSpent, Pending
<1>4. MembershipIsSeen
  BY DEF MembershipIsSeen
<1> QED BY <1>1, <1>2, <1>3, <1>4 DEF SessionInv

\* The next callback to be received has not been received yet.
LEMMA NextCallback ==
  ASSUME SessionKinds, CallbacksFollow, NEW c \in Callbacks, c = Cardinality(Received) + 1
  PROVE  callback[c].step = "none" /\ \A b \in 1..(c - 1) : b \in Callbacks /\ callback[b].step # "none"
<1>1. MaxCallbacks \in Nat /\ Received \in SUBSET (1..MaxCallbacks)
  BY SessionAssumption DEF SessionAssumption, Received, Callbacks
<1>2. ASSUME NEW s \in Received, NEW q \in 1..(s - 1) PROVE q \in Received
  BY <1>1, <1>2 DEF CallbacksFollow, Received, Callbacks
<1>3. Cardinality(Received) \in Nat /\ \A q \in 1..MaxCallbacks : q \in Received <=> q <= Cardinality(Received)
  BY <1>1, <1>2, WithoutGap
<1>4. c \in 1..MaxCallbacks
  BY DEF Callbacks
<1>5. c \notin Received
  BY <1>3, <1>4
<1>6. \A b \in 1..(c - 1) : b \in Callbacks /\ b \in Received
  BY <1>1, <1>3, <1>4 DEF Callbacks
<1> QED BY <1>5, <1>6 DEF Received

LEMMA ReceiveFits ==
  ASSUME SessionInv, NEW l \in Logins, Receive(l)
  PROVE  SessionInv'
<1> USE DEF SessionInv
<1>1. PICK c \in Callbacks : c = Cardinality(Received) + 1
  BY DEF Receive
<1> DEFINE valid == stateCookie = l /\ \E s \in states : s.login = l /\ s.expires > time
           step == IF valid THEN "asked" ELSE "ended"
           row  == [login |-> l, at |-> time, step |-> step]
<1>2. /\ callback' = [callback EXCEPT ![c] = row] /\ l <= begun
      /\ IF valid THEN Consume(l) /\ UNCHANGED stateCookie ELSE UNCHANGED states /\ stateCookie' = 0
      /\ UNCHANGED <<time, begun, sessions, sessionCookie, member, activeAt, opened, served>>
  BY <1>1 DEF Receive
<1>3. callback[c].step = "none" /\ \A b \in 1..(c - 1) : b \in Callbacks /\ callback[b].step # "none"
  BY <1>1, NextCallback
<1>4. states' \subseteq states /\ stateCookie' \in 0..begun /\ (valid => \A s \in states' : s.login # l)
  BY <1>2 DEF Consume, SessionKinds
<1>5. l \in 1..begun /\ l \in Nat
  BY <1>2, SessionAssumption DEF Logins, SessionKinds, SessionAssumption
<1>6. step \in {"asked", "ended"} /\ (step = "asked" <=> valid)
  OBVIOUS
<1> HIDE DEF step, valid
<1>7. row \in CallbackRow /\ row.login = l /\ row.at = time /\ row.step = step
  BY <1>5, <1>6 DEF CallbackRow, SessionKinds
<1> HIDE DEF row
<1>8. /\ \A b \in Callbacks : b # c => callback'[b] = callback[b]
      /\ callback'[c] = row
  BY <1>2 DEF SessionKinds
<1>9. SessionKinds'
  BY <1>2, <1>4, <1>7 DEF SessionKinds
<1>10. CallbacksFollow'
  <2>1. callback'[c].step # "none" /\ callback'[c].login \in 1..begun /\ callback'[c].at <= time
    BY <1>5, <1>6, <1>7, <1>8 DEF SessionKinds
  <2>2. \A b \in Callbacks : callback[b].step # "none" => b # c
    BY <1>3
  <2>3. \A b \in Callbacks : \A a \in 1..(b - 1) : a \in Callbacks
    BY SessionAssumption DEF SessionAssumption, Callbacks
  <2>4. \A b \in Callbacks : callback[b].step # "none" => callback'[b].step # "none"
    BY <1>8, <2>1
  <2> QED BY <1>2, <1>3, <1>8, <2>1, <2>2, <2>3, <2>4 DEF CallbacksFollow
<1>11. SessionsAreOf'
  BY <1>2, <1>3, <1>6, <1>7, <1>8 DEF SessionsAreOf, SessionKinds
<1>12. LoginsAreSpent'
  <2>1. valid => opened[l] = 0 /\ \A b \in Callbacks : Pending(b) => callback[b].login # l
    <3>1. SUFFICES ASSUME valid PROVE opened[l] = 0 /\ \A b \in Callbacks : Pending(b) => callback[b].login # l
      OBVIOUS
    <3>2. PICK s \in states : s.login = l
      BY <3>1 DEF valid
    <3>3. opened[l] \in Nat /\ ~(opened[l] > 0)
      BY <3>2 DEF LoginsAreSpent, SessionKinds
    <3> QED BY <3>2, <3>3 DEF LoginsAreSpent
  <2>2. \A b \in Callbacks : b # c => (Pending(b)' <=> Pending(b))
    BY <1>8 DEF Pending
  <2>3. Pending(c)' <=> valid
    BY <1>6, <1>7, <1>8 DEF Pending
  <2>4. ~Pending(c)
    BY <1>3 DEF Pending
  <2>5. ASSUME NEW b \in Callbacks, Pending(b)'
        PROVE /\ opened'[callback'[b].login] = 0
              /\ \A s \in states' : s.login # callback'[b].login
              /\ \A a \in Callbacks : Pending(a)' /\ callback'[a].login = callback'[b].login => a = b
    <3>1. CASE b = c
      BY <3>1, <2>1, <2>2, <2>3, <2>5, <1>2, <1>4, <1>7, <1>8
    <3>2. CASE b # c
      BY <3>2, <2>1, <2>2, <2>3, <2>5, <1>2, <1>4, <1>7, <1>8 DEF LoginsAreSpent
    <3> QED BY <3>1, <3>2
  <2> QED BY <2>5, <1>2, <1>4 DEF LoginsAreSpent
<1>13. MembershipIsSeen'
  BY <1>2, <1>6, <1>7, <1>8 DEF MembershipIsSeen
<1> QED BY <1>9, <1>10, <1>11, <1>12, <1>13

LEMMA AnswerFits ==
  ASSUME SessionInv, NEW c \in Callbacks, GitHubAnswers(c)
  PROVE  SessionInv'
<1> USE DEF SessionInv
<1>1. PICK step \in {"active", "inactive", "ended"} :
        /\ callback' = [callback EXCEPT ![c].step = step] /\ (step = "active" => member)
        /\ stateCookie' \in {0, stateCookie}
  BY DEF GitHubAnswers
<1>2. callback[c].step = "asked"
      /\ UNCHANGED <<time, begun, states, sessions, sessionCookie, member, activeAt, opened, served>>
  BY DEF GitHubAnswers
<1>3. /\ \A b \in Callbacks : b # c => callback'[b] = callback[b]
      /\ callback'[c].step = step /\ callback'[c].login = callback[c].login /\ callback'[c].at = callback[c].at
      /\ callback' \in [Callbacks -> CallbackRow]
  BY <1>1 DEF SessionKinds, CallbackRow
<1>4. SessionKinds'
  BY <1>1, <1>2, <1>3 DEF SessionKinds
<1>5. CallbacksFollow' /\ SessionsAreOf'
  <2>1. \A b \in Callbacks : /\ callback'[b].step # "none" <=> callback[b].step # "none"
                             /\ callback'[b].at = callback[b].at /\ callback'[b].login = callback[b].login
    BY <1>2, <1>3
  <2>2. \A b \in Callbacks : \A a \in 1..(b - 1) : a \in Callbacks
    BY SessionAssumption DEF SessionAssumption, Callbacks
  <2>3. CallbacksFollow'
    BY <1>2, <2>1, <2>2 DEF CallbacksFollow
  <2>4. SessionsAreOf'
    BY <1>2, <2>1 DEF SessionsAreOf, SessionKinds
  <2> QED BY <2>3, <2>4
<1>6. LoginsAreSpent'
  <2>1. \A b \in Callbacks : /\ Pending(b)' => Pending(b)
                             /\ callback'[b].login = callback[b].login
    BY <1>2, <1>3 DEF Pending
  <2> QED BY <1>2, <2>1 DEF LoginsAreSpent
<1>7. MembershipIsSeen'
  <2>1. callback[c].at <= time
    BY <1>2 DEF CallbacksFollow
  <2> QED BY <1>1, <1>2, <1>3, <2>1 DEF MembershipIsSeen
<1> QED BY <1>4, <1>5, <1>6, <1>7

LEMMA FinishFits ==
  ASSUME SessionInv, NEW c \in Callbacks, Finish(c)
  PROVE  SessionInv'
<1> USE DEF SessionInv
<1>1. /\ callback[c].step \in {"active", "inactive"} /\ stateCookie' = 0
      /\ callback' = [callback EXCEPT ![c].step = "ended"]
      /\ UNCHANGED <<time, begun, states, member, activeAt, served>>
  BY DEF Finish
<1>2. /\ \A b \in Callbacks : b # c => callback'[b] = callback[b]
      /\ callback'[c].step = "ended" /\ callback'[c].login = callback[c].login /\ callback'[c].at = callback[c].at
      /\ callback' \in [Callbacks -> CallbackRow]
  BY <1>1 DEF SessionKinds, CallbackRow
<1>3. \A b \in Callbacks : /\ callback'[b].step # "none" <=> callback[b].step # "none"
                           /\ callback'[b].at = callback[b].at /\ callback'[b].login = callback[b].login
                           /\ callback[b].at \in Nat
  BY <1>1, <1>2 DEF SessionKinds, CallbackRow
<1>4. CallbacksFollow'
  <2>2. \A b \in Callbacks : \A a \in 1..(b - 1) : a \in Callbacks
    BY SessionAssumption DEF SessionAssumption, Callbacks
  <2> QED BY <1>1, <1>3, <2>2 DEF CallbacksFollow
<1> DEFINE l == callback[c].login
<1>5. l \in Logins /\ l \in 1..begun
  BY <1>1, SessionAssumption DEF CallbacksFollow, SessionKinds, Logins, SessionAssumption
<1>6. CASE callback[c].step = "active"
  <2> DEFINE s == [of |-> c, login |-> l, expires |-> callback[c].at + SessionTTL, revoked |-> FALSE]
  <2>1. /\ sessions' = sessions \cup {s} /\ opened' = [opened EXCEPT ![l] = @ + 1] /\ sessionCookie' = c
    BY <1>6 DEF Finish, Lives
  <2>2. s.of = c /\ s.expires = callback[c].at + SessionTTL /\ s.expires \in Nat
    BY <1>3, SessionAssumption DEF SessionAssumption
  <2>3. s \in [of : Callbacks, login : Nat, expires : Nat, revoked : BOOLEAN]
    BY <1>5, <2>2
  <2> HIDE DEF s
  <2>4. SessionKinds'
    BY <1>1, <1>2, <1>5, <2>1, <2>3 DEF SessionKinds
  <2>5. SessionsAreOf'
    BY <1>1, <1>3, <2>1, <2>2 DEF SessionsAreOf, SessionKinds
  <2>6. LoginsAreSpent'
    <3>1. opened[l] = 0 /\ opened'[l] = 1 /\ (\A k \in Logins : k # l => opened'[k] = opened[k])
      BY <1>1, <1>5, <2>1 DEF LoginsAreSpent, Pending, SessionKinds
    <3>2. \A b \in Callbacks : Pending(b)' => Pending(b) /\ b # c /\ callback'[b].login = callback[b].login
                                              /\ callback[b].login # l
      BY <1>1, <1>2 DEF Pending, LoginsAreSpent
    <3>3. \A b \in Callbacks : Pending(b) => callback[b].login \in Logins
      BY SessionAssumption DEF Pending, CallbacksFollow, SessionKinds, Logins, SessionAssumption
    <3>4. ASSUME NEW b \in Callbacks, Pending(b)'
          PROVE /\ opened'[callback'[b].login] = 0
                /\ \A x \in states' : x.login # callback'[b].login
                /\ \A a \in Callbacks : Pending(a)' /\ callback'[a].login = callback'[b].login => a = b
      BY <1>1, <3>1, <3>2, <3>3, <3>4 DEF LoginsAreSpent
    <3>5. \A k \in Logins : opened'[k] <= 1 /\ (opened'[k] > 0 => k <= begun /\ \A x \in states : x.login # k)
      BY <1>1, <1>5, <3>1 DEF LoginsAreSpent, Pending
    <3> QED BY <1>1, <3>4, <3>5 DEF LoginsAreSpent
  <2>7. MembershipIsSeen'
    <3>1. callback[c].at <= activeAt /\ callback[c].at + SessionTTL <= activeAt + SessionTTL
      BY <1>3, <1>6, SessionAssumption DEF MembershipIsSeen, SessionKinds, SessionAssumption
    <3> QED BY <1>1, <1>2, <2>1, <2>2, <3>1 DEF MembershipIsSeen
  <2> QED BY <1>4, <2>4, <2>5, <2>6, <2>7
<1>7. CASE callback[c].step # "active"
  <2>1. UNCHANGED <<sessions, opened, sessionCookie>>
    BY <1>7 DEF Finish
  <2>2. SessionKinds'
    BY <1>1, <1>2, <2>1 DEF SessionKinds
  <2>3. SessionsAreOf'
    BY <1>1, <1>3, <2>1 DEF SessionsAreOf, SessionKinds
  <2>4. LoginsAreSpent'
    <3>2. \A b \in Callbacks : Pending(b)' => Pending(b) /\ callback'[b].login = callback[b].login
      BY <1>1, <1>2 DEF Pending
    <3> QED BY <1>1, <2>1, <3>2 DEF LoginsAreSpent
  <2>5. MembershipIsSeen'
    BY <1>1, <1>2, <2>1 DEF MembershipIsSeen
  <2> QED BY <1>4, <2>2, <2>3, <2>4, <2>5
<1> QED BY <1>6, <1>7

LEMMA SessionStep == SessionInv /\ [SessionNext]_sessionVars => SessionInv'
<1> SUFFICES ASSUME SessionInv, [SessionNext]_sessionVars PROVE SessionInv'
  OBVIOUS
<1> USE DEF SessionInv
<1>1. CASE Begin
  <2>1. /\ begun < MaxLogins /\ begun' = begun + 1 /\ stateCookie' = begun'
        /\ states' = Unexpired \cup {[login |-> begun', expires |-> time + StateTTL]}
        /\ sessions' = Unrevoked
        /\ UNCHANGED <<time, sessionCookie, callback, member, activeAt, opened, served>>
    BY <1>1 DEF Begin
  <2>2. begun \in Nat /\ begun' \in 0..MaxLogins /\ begun' \in 1..begun' /\ 1..begun \subseteq 1..begun'
    BY <2>1, SessionAssumption DEF SessionKinds, SessionAssumption
  <2>3. Unexpired \subseteq states /\ Unrevoked \subseteq sessions
    BY DEF Unexpired, Unrevoked
  <2>4. [login |-> begun', expires |-> time + StateTTL] \in [login : 1..begun', expires : Nat]
    BY <2>2, SessionAssumption DEF SessionKinds, SessionAssumption
  <2>5. SessionKinds'
    <3>1. states' \subseteq [login : 1..begun', expires : Nat]
      BY <2>1, <2>2, <2>3, <2>4 DEF SessionKinds
    <3> QED BY <2>1, <2>2, <2>3, <3>1 DEF SessionKinds
  <2>6. CallbacksFollow' /\ SessionsAreOf'
    BY <2>1, <2>2, <2>3 DEF CallbacksFollow, SessionsAreOf
  <2>7. LoginsAreSpent'
    <3>1. \A b \in Callbacks : Pending(b) => callback[b].login # begun'
      BY <2>1, <2>2 DEF Pending, CallbacksFollow
    <3>2. \A k \in Logins : opened[k] > 0 => k # begun' /\ k <= begun'
      BY <2>1, <2>2 DEF LoginsAreSpent, Logins
    <3>3. \A s \in states' : s \in states \/ s.login = begun'
      BY <2>1, <2>3
    <3> QED BY <2>1, <3>1, <3>2, <3>3 DEF LoginsAreSpent, Pending
  <2>8. MembershipIsSeen'
    BY <2>1, <2>3 DEF MembershipIsSeen
  <2> QED BY <2>5, <2>6, <2>7, <2>8
<1>2. CASE Logout
  <2>1. /\ sessionCookie' = 0
        /\ sessions' = {IF s.of = sessionCookie THEN [s EXCEPT !.revoked = TRUE] ELSE s : s \in sessions}
        /\ UNCHANGED <<time, begun, states, stateCookie, callback, member, activeAt, opened, served>>
    BY <1>2 DEF Logout
  <2>2. ASSUME NEW t \in sessions'
        PROVE  /\ t \in [of : Callbacks, login : Nat, expires : Nat, revoked : BOOLEAN]
               /\ \E s \in sessions : t.of = s.of /\ t.expires = s.expires
    <3>1. PICK s \in sessions : t = IF s.of = sessionCookie THEN [s EXCEPT !.revoked = TRUE] ELSE s
      BY <2>1
    <3>2. s \in [of : Callbacks, login : Nat, expires : Nat, revoked : BOOLEAN]
      BY DEF SessionKinds
    <3> QED BY <3>1, <3>2
  <2>3. SessionKinds'
    BY <2>1, <2>2 DEF SessionKinds
  <2>4. SessionsAreOf'
    BY <2>1, <2>2 DEF SessionsAreOf
  <2>5. MembershipIsSeen'
    BY <2>1, <2>2 DEF MembershipIsSeen
  <2> QED BY <2>1, <2>3, <2>4, <2>5 DEF CallbacksFollow, LoginsAreSpent, Pending
<1>3. CASE Tick
  <2>1. /\ time' = time + 1 /\ activeAt' = IF member THEN time' ELSE activeAt
        /\ UNCHANGED <<begun, states, stateCookie, sessions, sessionCookie, callback, member, opened, served>>
    BY <1>3 DEF Tick
  <2>2. time' \in Nat /\ activeAt' \in Nat /\ activeAt' <= time' /\ activeAt <= activeAt' /\ time <= time'
    BY <2>1 DEF SessionKinds
  <2>3. SessionKinds' /\ SessionsAreOf' /\ LoginsAreSpent'
    BY <2>1, <2>2 DEF SessionKinds, SessionsAreOf, LoginsAreSpent, Pending
  <2>4. CallbacksFollow'
    BY <2>1, <2>2 DEF CallbacksFollow, SessionKinds, CallbackRow
  <2>5. MembershipIsSeen'
    <3>1. \A c \in Callbacks : callback[c].at \in Nat
      BY DEF SessionKinds, CallbackRow
    <3>2. \A s \in sessions : s.expires \in Nat
      BY DEF SessionKinds
    <3>3. SessionTTL \in Nat
      BY SessionAssumption DEF SessionAssumption
    <3> QED BY <2>1, <2>2, <3>1, <3>2, <3>3 DEF MembershipIsSeen, SessionKinds
  <2> QED BY <2>3, <2>4, <2>5
<1>4. CASE Leave
  BY <1>4 DEF Leave, SessionKinds, CallbacksFollow, SessionsAreOf, LoginsAreSpent, Pending, MembershipIsSeen
<1>5. ASSUME NEW c \in Callbacks, ResolveSession(c) PROVE SessionInv'
  <2>1. PICK s \in sessions : s.expires > time
    BY <1>5 DEF ResolveSession
  <2>2. /\ served' = [at |-> time, activeAt |-> activeAt]
        /\ UNCHANGED <<time, begun, states, sessions, stateCookie, sessionCookie, callback, member,
                 activeAt, opened>>
    BY <1>5 DEF ResolveSession
  <2>3. time < activeAt + SessionTTL
    <3>1. s.expires \in Nat /\ s.expires <= activeAt + SessionTTL
      BY DEF SessionKinds, MembershipIsSeen
    <3> QED BY <2>1, <3>1, SessionAssumption DEF SessionKinds, SessionAssumption
  <2>4. SessionKinds'
    BY <2>2 DEF SessionKinds
  <2> QED BY <2>2, <2>3, <2>4 DEF CallbacksFollow, SessionsAreOf, LoginsAreSpent, Pending, MembershipIsSeen
<1>6. CASE UNCHANGED sessionVars
  BY <1>6 DEF sessionVars, SessionKinds, CallbacksFollow, SessionsAreOf, LoginsAreSpent, Pending, MembershipIsSeen
<1> QED
  BY <1>1, <1>2, <1>3, <1>4, <1>5, <1>6, ReceiveFits, AnswerFits, FinishFits DEF SessionNext

LEMMA SessionSafe == SessionInv => SessionsAreEarned
<1> SUFFICES ASSUME SessionInv PROVE SessionsAreEarned
  OBVIOUS
<1> USE DEF SessionInv
<1>1. SessionTypeOK
  <2>1. {stateCookie} \cup {s.login : s \in states} \subseteq 0..begun
    BY DEF SessionKinds
  <2>2. sessionCookie \in Received \cup {0}
    BY DEF SessionsAreOf, Received
  <2>3. \A s \in sessions : s.of \in Received /\ s.expires <= callback[s.of].at + SessionTTL
    BY DEF SessionsAreOf, Received, SessionKinds
  <2>4. \A c \in Received : callback[c].step \in {"asked", "active", "inactive", "ended"}
    BY DEF Received, SessionKinds, CallbackRow
  <2> QED BY <2>1, <2>2, <2>3, <2>4 DEF SessionTypeOK, SessionKinds
<1>2. OneSessionPerLogin /\ ServedAfterMembership
  BY DEF OneSessionPerLogin, ServedAfterMembership, LoginsAreSpent, MembershipIsSeen
<1> QED BY <1>1, <1>2 DEF SessionsAreEarned

LEMMA SessionsEarnedAlways == SessionSpec => []SessionsAreEarned
BY SessionStarts, SessionStep, SessionSafe, PTL DEF SessionSpec

(***************************************************************************)
(* Webhook deliveries.                                                     *)
(***************************************************************************)
\* What a delivery can have been due for.
MayName(d) == {p \in PullSet : d \in Lifecycle /\ p \in Names(d)}

\* What a delivery was due for and is no longer due for.
LookedUp(d, p) == p \in lookedUp[d] \/ pull[p] # "refreshable"

LookedUpNext(d, p) == p \in lookedUp'[d] \/ pull'[p] # "refreshable"

WebhookKinds ==
  /\ delivered \in [Deliveries -> Contents \cup {"none"}]
  /\ pull \in [PullSet -> {"refreshable", "merged", "blocked"}]
  /\ handler \in [Handlers -> [on : Deliveries \cup {"none"}, todo : SUBSET PullSet]]
  /\ lookedUp \in [Deliveries -> SUBSET PullSet] /\ due \in [Deliveries -> SUBSET PullSet]
  /\ acknowledged \subseteq Deliveries

\* A handler serves a recorded lifecycle delivery and has no more to do than it may.
HandlersServe ==
  \A h \in Handlers :
    /\ handler[h].on = "none" <=> handler[h].todo = {}
    /\ handler[h].on # "none" => handler[h].on \in Lifecycle /\ delivered[handler[h].on] # "none"
    /\ Cardinality(handler[h].todo) <= MatchLimit

\* What a delivery was due for is done, or left to each of its handlers; once it is
\* acknowledged it is done.
DueIsDone ==
  /\ \A d \in Deliveries : due[d] \subseteq MayName(d)
  /\ \A d \in acknowledged : delivered[d] # "none" /\ \A p \in due[d] : LookedUp(d, p)
  /\ \A h \in Handlers : handler[h].on # "none" =>
       \A p \in due[handler[h].on] : p \in handler[h].todo \/ LookedUp(handler[h].on, p)

SnapshotsFit ==
  /\ installation \in Seq(Deliveries)
  /\ OneSnapshotPerDelivery

WebhookInv == WebhookKinds /\ HandlersServe /\ DueIsDone /\ SnapshotsFit

LEMMA PullsAreFinite == IsFiniteSet(PullSet)
<1>1. Pulls \in Seq(PullSet) /\ DOMAIN Pulls = 1..Len(Pulls) /\ Len(Pulls) \in Nat
  BY WebhookAssumption DEF WebhookAssumption, PullSet
<1>2. Pulls \in [1..Len(Pulls) -> PullSet]
  BY <1>1
<1>3. \A p \in PullSet : \E i \in 1..Len(Pulls) : Pulls[i] = p
  BY <1>1 DEF PullSet
<1>4. Pulls \in Surjection(1..Len(Pulls), PullSet)
  BY <1>2, <1>3 DEF Surjection
<1>5. IsFiniteSet(1..Len(Pulls))
  BY <1>1, FS_Interval
<1> QED BY <1>4, <1>5, FS_Surjection

LEMMA WebhookStarts == WebhookInit => WebhookInv
<1> SUFFICES ASSUME WebhookInit PROVE WebhookInv
  OBVIOUS
<1> USE DEF WebhookInit
<1>1. WebhookKinds
  BY DEF WebhookKinds, NoHandler
<1>2. HandlersServe
  <2>0. Cardinality({}) = 0 /\ MatchLimit \in Nat
    BY FS_EmptySet, WebhookAssumption DEF WebhookAssumption
  <2>1. Cardinality({}) <= MatchLimit
    BY <2>0
  <2>2. NoHandler.on = "none" /\ NoHandler.todo = {}
    BY DEF NoHandler
  <2>3. \A h \in Handlers : handler[h] = NoHandler
    OBVIOUS
  <2> QED
    <3> SUFFICES ASSUME NEW h \in Handlers
                 PROVE  /\ handler[h].on = "none" <=> handler[h].todo = {}
                        /\ handler[h].on # "none" => handler[h].on \in Lifecycle /\ delivered[handler[h].on] # "none"
                        /\ Cardinality(handler[h].todo) <= MatchLimit
      BY DEF HandlersServe
    <3> QED BY <2>1, <2>2, <2>3, Zenon
<1>3. DueIsDone
  BY DEF DueIsDone, NoHandler
<1>4. SnapshotsFit
  <2>1. \A d \in Installations : delivered[d] = "none"
    BY DEF Deliveries
  <2> QED BY <2>1 DEF SnapshotsFit, OneSnapshotPerDelivery
<1> QED BY <1>1, <1>2, <1>3, <1>4 DEF WebhookInv

\* Nothing is refreshable again, and what was looked up stays so.
LEMMA LookedUpStays ==
  ASSUME \A p \in PullSet : pull[p] # "refreshable" => pull'[p] # "refreshable",
         \A d \in Deliveries : lookedUp[d] \subseteq lookedUp'[d],
         NEW d \in Deliveries, NEW p \in PullSet, LookedUp(d, p)
  PROVE  LookedUpNext(d, p)
BY DEF LookedUp, LookedUpNext

\* The facts that make up DueIsDone after a step.
LEMMA DueIsDoneNext ==
  ASSUME WebhookKinds',
         \A e \in Deliveries : due'[e] \subseteq MayName(e),
         \A e \in Deliveries : e \in acknowledged' =>
            delivered'[e] # "none" /\ \A p \in due'[e] : LookedUpNext(e, p),
         \A g \in Handlers : handler'[g].on # "none" =>
            \A p \in PullSet : p \in due'[handler'[g].on] =>
               p \in handler'[g].todo \/ LookedUpNext(handler'[g].on, p)
  PROVE  DueIsDone'
<1>1. \A e \in acknowledged' : e \in Deliveries
  BY DEF WebhookKinds
<1>2. \A e \in Deliveries : due'[e] \subseteq PullSet
  BY DEF MayName
<1>3. \A g \in Handlers : handler'[g].on # "none" => handler'[g].on \in Deliveries
  BY DEF WebhookKinds
<1> QED BY <1>1, <1>2, <1>3 DEF DueIsDone, LookedUp, LookedUpNext, MayName

LEMMA SnapshotTaken ==
  ASSUME WebhookKinds, SnapshotsFit, NEW d \in Deliveries, NEW content \in Contents, RecordVerified(d, content)
  PROVE  SnapshotsFit'
<1>0. content # "none"
  BY WebhookAssumption DEF WebhookAssumption
<1>1. CASE delivered[d] # "none"
  BY <1>1 DEF RecordVerified, SnapshotsFit, OneSnapshotPerDelivery
<1>2. CASE delivered[d] = "none"
  <2>1. /\ delivered' = [delivered EXCEPT ![d] = content]
        /\ installation' = IF d \in Installations THEN Append(installation, d) ELSE installation
    BY <1>0, <1>2 DEF RecordVerified
  <2>2. {e \in Installations : delivered'[e] # "none"}
          = {e \in Installations : delivered[e] # "none"} \cup (IF d \in Installations THEN {d} ELSE {})
    BY <1>0, <2>1 DEF WebhookKinds, Deliveries
  <2>3. CASE d \in Installations
    <3>1. /\ installation' \in Seq(Deliveries) /\ Len(installation') = Len(installation) + 1
          /\ \A i \in 1..Len(installation) : installation'[i] = installation[i]
          /\ installation'[Len(installation) + 1] = d
      BY <2>1, <2>3 DEF SnapshotsFit
    <3>2. Len(installation) \in Nat /\ DOMAIN installation = 1..Len(installation)
          /\ DOMAIN installation' = 1..(Len(installation) + 1)
      BY <3>1 DEF SnapshotsFit
    <3>3. \A i \in DOMAIN installation : installation[i] # d
      BY <1>2 DEF SnapshotsFit, OneSnapshotPerDelivery
    <3>4. {installation'[i] : i \in DOMAIN installation'} = {installation[i] : i \in DOMAIN installation} \cup {d}
      <4>1. ASSUME NEW x \in {installation'[i] : i \in DOMAIN installation'}
            PROVE  x \in {installation[i] : i \in DOMAIN installation} \cup {d}
        <5>1. PICK i \in 1..(Len(installation) + 1) : x = installation'[i]
          BY <3>2
        <5>2. i = Len(installation) + 1 \/ i \in 1..Len(installation)
          BY <3>2
        <5> QED BY <3>1, <3>2, <5>1, <5>2
      <4>2. ASSUME NEW x \in {installation[i] : i \in DOMAIN installation} \cup {d}
            PROVE  x \in {installation'[i] : i \in DOMAIN installation'}
        <5>1. CASE x = d
          BY <3>1, <3>2, <5>1
        <5>2. CASE x # d
          <6>1. PICK i \in 1..Len(installation) : x = installation[i]
            BY <3>2, <5>2
          <6>2. i \in 1..(Len(installation) + 1)
            BY <3>2
          <6> QED BY <3>1, <3>2, <6>1, <6>2
        <5> QED BY <5>1, <5>2
      <4> QED BY <4>1, <4>2
    <3>5. \A i, j \in DOMAIN installation' : installation'[i] = installation'[j] => i = j
      <4>1. \A i, j \in 1..Len(installation) : installation[i] = installation[j] => i = j
        BY <3>2 DEF SnapshotsFit, OneSnapshotPerDelivery
      <4>2. \A i \in DOMAIN installation' : i = Len(installation) + 1 \/ i \in 1..Len(installation)
        BY <3>2
      <4>3. \A i \in 1..Len(installation) : installation[i] # d
        BY <3>2, <3>3
      <4> QED BY <3>1, <4>1, <4>2, <4>3
    <3>6. {installation'[i] : i \in DOMAIN installation'} = {e \in Installations : delivered'[e] # "none"}
      BY <2>2, <2>3, <3>4 DEF SnapshotsFit, OneSnapshotPerDelivery
    <3> QED BY <3>1, <3>5, <3>6 DEF SnapshotsFit, OneSnapshotPerDelivery
  <2>4. CASE d \notin Installations
    BY <2>1, <2>2, <2>4 DEF SnapshotsFit, OneSnapshotPerDelivery
  <2> QED BY <2>3, <2>4
<1> QED BY <1>1, <1>2

LEMMA ArriveFits ==
  ASSUME WebhookInv, NEW h \in Handlers, NEW d \in Deliveries, NEW content \in Contents, Arrive(h, d, content)
  PROVE  WebhookInv'
<1> USE DEF WebhookInv
<1>0. content # "none" /\ d # "none" /\ MatchLimit \in Nat
  BY WebhookAssumption DEF WebhookAssumption
<1>1. handler[h].on = "none" /\ UNCHANGED <<pull, lookedUp>>
  BY DEF Arrive
<1>2. CASE UNCHANGED <<delivered, installation, due, handler, acknowledged>>
  BY <1>1, <1>2 DEF WebhookKinds, HandlersServe, DueIsDone, LookedUp, SnapshotsFit, OneSnapshotPerDelivery
<1>3. CASE RecordVerified(d, content)
           /\ handler' = [handler EXCEPT ![h] = IF Refreshes(Named(d)) THEN [on |-> d, todo |-> Named(d)] ELSE @]
           /\ acknowledged' = IF Named(d) = {} THEN acknowledged \cup {d} ELSE acknowledged
  <2>1. SnapshotsFit'
    BY <1>3, SnapshotTaken
  <2>2. /\ delivered' \in [Deliveries -> Contents \cup {"none"}] /\ delivered'[d] = content
        /\ \A e \in Deliveries : e # d => delivered'[e] = delivered[e] /\ due'[e] = due[e]
        /\ \A e \in Deliveries : delivered[e] # "none" => delivered'[e] = delivered[e] /\ due'[e] = due[e]
        /\ due'[d] = due[d] \/ due'[d] = Named(d)
        /\ due' \in [Deliveries -> SUBSET PullSet]
    BY <1>3 DEF RecordVerified, WebhookKinds, Named
  <2>3. Named(d) \subseteq MayName(d) /\ Named(d) \subseteq PullSet
        /\ \A p \in MayName(d) : p \notin Named(d) => LookedUp(d, p)
    BY DEF Named, MayName, LookedUp
  <2>4. due'[d] \subseteq MayName(d)
    BY <2>2, <2>3 DEF DueIsDone
  <2>5. [on |-> d, todo |-> Named(d)] \in [on : Deliveries \cup {"none"}, todo : SUBSET PullSet]
    BY <2>3
  <2>6. handler' \in [Handlers -> [on : Deliveries \cup {"none"}, todo : SUBSET PullSet]]
    BY <1>3, <2>5 DEF WebhookKinds
  <2>7. \A g \in Handlers : g # h => handler'[g] = handler[g]
    BY <1>3 DEF WebhookKinds
  <2>8. handler'[h] = IF Refreshes(Named(d)) THEN [on |-> d, todo |-> Named(d)] ELSE handler[h]
    BY <1>3 DEF WebhookKinds
  <2>9. Refreshes(Named(d)) => /\ Named(d) # {} /\ Cardinality(Named(d)) <= MatchLimit
                               /\ d \in Lifecycle
    BY <1>0, FS_EmptySet DEF Refreshes, Named
  <2>10. WebhookKinds'
    BY <1>1, <1>3, <2>2, <2>6 DEF WebhookKinds
  <2>11. HandlersServe'
    <3>1. ASSUME NEW g \in Handlers, handler'[g] = handler[g]
          PROVE  /\ handler'[g].on = "none" <=> handler'[g].todo = {}
                 /\ handler'[g].on # "none" => handler'[g].on \in Lifecycle /\ delivered'[handler'[g].on] # "none"
                 /\ Cardinality(handler'[g].todo) <= MatchLimit
      <4>1. handler[g].on # "none" => handler[g].on \in Deliveries
        BY DEF HandlersServe, Deliveries
      <4> QED BY <2>2, <3>1, <4>1 DEF HandlersServe
    <3>2. ASSUME Refreshes(Named(d))
          PROVE  /\ handler'[h].on = "none" <=> handler'[h].todo = {}
                 /\ handler'[h].on # "none" => handler'[h].on \in Lifecycle /\ delivered'[handler'[h].on] # "none"
                 /\ Cardinality(handler'[h].todo) <= MatchLimit
      BY <1>0, <2>2, <2>8, <2>9, <3>2
    <3> QED BY <2>7, <2>8, <3>1, <3>2 DEF HandlersServe
  <2>12. DueIsDone'
    <3>1. \A e \in Deliveries : due'[e] \subseteq MayName(e)
      BY <2>2, <2>4 DEF DueIsDone
    <3>2. \A e \in Deliveries, p \in PullSet : LookedUpNext(e, p) <=> LookedUp(e, p)
      BY <1>1 DEF LookedUp, LookedUpNext
    <3>3. ASSUME NEW e \in Deliveries, e \in acknowledged'
          PROVE  delivered'[e] # "none" /\ \A p \in due'[e] : LookedUpNext(e, p)
      <4>1. CASE e \in acknowledged
        <5>1. delivered[e] # "none" /\ e \in Deliveries
          BY <4>1 DEF DueIsDone, WebhookKinds
        <5> QED BY <2>2, <3>2, <4>1, <5>1 DEF DueIsDone, WebhookKinds
      <4>2. CASE e \notin acknowledged
        <5>1. e = d /\ Named(d) = {}
          BY <1>3, <3>3, <4>2
        <5>2. \A p \in due'[d] : LookedUp(d, p)
          BY <2>3, <2>4, <5>1
        <5> QED BY <1>0, <2>2, <3>2, <5>1, <5>2
      <4> QED BY <4>1, <4>2
    <3>4. ASSUME NEW g \in Handlers, handler'[g].on # "none", NEW p \in PullSet, p \in due'[handler'[g].on]
          PROVE  p \in handler'[g].todo \/ LookedUpNext(handler'[g].on, p)
      <4>1. CASE handler'[g] = handler[g]
        <5>1. handler[g].on \in Deliveries /\ delivered[handler[g].on] # "none"
          BY <3>4, <4>1 DEF HandlersServe, Deliveries
        <5>2. p \in due[handler[g].on] /\ p \in PullSet
          BY <2>2, <3>4, <4>1, <5>1 DEF WebhookKinds
        <5> QED BY <3>2, <3>4, <4>1, <5>1, <5>2 DEF DueIsDone
      <4>2. CASE handler'[g] # handler[g]
        <5>1. g = h /\ handler'[g].on = d /\ handler'[g].todo = Named(d)
          BY <2>7, <2>8, <4>2
        <5>2. p \in MayName(d) /\ p \in PullSet
          BY <2>4, <3>4, <5>1 DEF MayName
        <5> QED BY <2>3, <3>2, <5>1, <5>2
      <4> QED BY <4>1, <4>2
    <3> QED BY <2>2, <2>10, <3>1, <3>3, <3>4, DueIsDoneNext
  <2> QED BY <2>1, <2>10, <2>11, <2>12
<1> QED BY <1>2, <1>3 DEF Arrive, ToRefresh

\* The handler's next publication is one of those left to it.
LEMMA NextIsLeft ==
  ASSUME NEW h \in Handlers, NEW p, IsNext(p, h)
  PROVE  p \in PullSet /\ p \in handler[h].todo
BY DEF IsNext, PullSet

LEMMA RefreshNextFits ==
  ASSUME WebhookInv, NEW h \in Handlers, NEW p \in PullSet, RefreshNext(h, p)
  PROVE  WebhookInv'
<1> USE DEF WebhookInv
<1> DEFINE d == handler[h].on
           rest == handler[h].todo \ {p}
<1>1. /\ d # "none" /\ p \in handler[h].todo /\ pull[p] # "blocked"
      /\ UNCHANGED <<delivered, installation, due>>
  BY NextIsLeft DEF RefreshNext
<1>2. PICK s \in {"refreshable", "merged"} : (pull[p] = "merged" => s = "merged") /\ pull' = [pull EXCEPT ![p] = s]
  BY DEF RefreshNext
<1>3. /\ lookedUp' = [e \in Deliveries |-> IF delivered[e] # "none" THEN lookedUp[e] \cup {p} ELSE lookedUp[e]]
      /\ handler' = [handler EXCEPT ![h] = IF rest = {} THEN NoHandler ELSE [@ EXCEPT !.todo = rest]]
      /\ acknowledged' = IF rest = {} THEN acknowledged \cup {d} ELSE acknowledged
  BY DEF RefreshNext
<1>4. d \in Deliveries /\ delivered[d] # "none" /\ d \in Lifecycle
  BY <1>1 DEF HandlersServe, Deliveries
<1>5. handler[h] \in [on : Deliveries \cup {"none"}, todo : SUBSET PullSet]
  BY DEF WebhookKinds
<1>6. rest \in SUBSET PullSet
  BY <1>5
<1>7. /\ \A g \in Handlers : g # h => handler'[g] = handler[g]
      /\ rest = {} => handler'[h] = NoHandler
      /\ rest # {} => handler'[h] = [handler[h] EXCEPT !.todo = rest]
  BY <1>3 DEF WebhookKinds
<1>8. rest # {} => handler'[h].on = d /\ handler'[h].todo = rest
  BY <1>5, <1>7
<1>9. WebhookKinds'
  <2>1. pull' \in [PullSet -> {"refreshable", "merged", "blocked"}]
    BY <1>2 DEF WebhookKinds
  <2>2. lookedUp' \in [Deliveries -> SUBSET PullSet]
    BY <1>3 DEF WebhookKinds
  <2>3. [handler[h] EXCEPT !.todo = rest] \in [on : Deliveries \cup {"none"}, todo : SUBSET PullSet]
    BY <1>5, <1>6
  <2>4. NoHandler \in [on : Deliveries \cup {"none"}, todo : SUBSET PullSet]
    BY DEF NoHandler
  <2>5. handler' \in [Handlers -> [on : Deliveries \cup {"none"}, todo : SUBSET PullSet]]
    BY <1>3, <2>3, <2>4 DEF WebhookKinds
  <2> QED BY <1>1, <1>3, <1>4, <2>1, <2>2, <2>5 DEF WebhookKinds
<1>10. HandlersServe'
  <2>1. Cardinality({}) = 0 /\ MatchLimit \in Nat
    BY FS_EmptySet, WebhookAssumption DEF WebhookAssumption
  <2>2. Cardinality(rest) <= MatchLimit
    <3>1. IsFiniteSet(handler[h].todo)
      BY <1>5, PullsAreFinite, FS_Subset
    <3>2. Cardinality(handler[h].todo) \in Nat /\ Cardinality(handler[h].todo) <= MatchLimit
      BY <3>1, FS_CardinalityType DEF HandlersServe
    <3>3. Cardinality(rest) = Cardinality(handler[h].todo) - 1
      BY <1>1, <3>1, FS_RemoveElement
    <3> QED BY <2>1, <3>2, <3>3
  <2>3. rest = {} => handler'[h].on = "none" /\ handler'[h].todo = {}
    BY <1>7 DEF NoHandler
  <2> HIDE DEF rest, d
  <2>4. \A g \in Handlers : g # h =>
           /\ handler'[g].on = "none" <=> handler'[g].todo = {}
           /\ handler'[g].on # "none" => handler'[g].on \in Lifecycle /\ delivered'[handler'[g].on] # "none"
           /\ Cardinality(handler'[g].todo) <= MatchLimit
    BY <1>1, <1>7 DEF HandlersServe
  <2>5. /\ handler'[h].on = "none" <=> handler'[h].todo = {}
        /\ handler'[h].on # "none" => handler'[h].on \in Lifecycle /\ delivered'[handler'[h].on] # "none"
        /\ Cardinality(handler'[h].todo) <= MatchLimit
    <3>1. CASE rest = {}
      BY <2>1, <2>3, <3>1
    <3>2. CASE rest # {}
      BY <1>1, <1>4, <1>8, <2>2, <3>2
    <3> QED BY <3>1, <3>2
  <2> QED BY <2>4, <2>5 DEF HandlersServe
<1>11. DueIsDone'
  <2>1. /\ \A q \in PullSet : pull[q] # "refreshable" => pull'[q] # "refreshable"
        /\ \A e \in Deliveries : lookedUp[e] \subseteq lookedUp'[e]
        /\ p \in lookedUp'[d]
    BY <1>1, <1>2, <1>3, <1>4 DEF WebhookKinds
  <2>2. \A e \in Deliveries, q \in PullSet : LookedUp(e, q) => LookedUpNext(e, q)
    BY <2>1, LookedUpStays
  <2>3. \A e \in Deliveries : due'[e] \subseteq MayName(e) /\ due'[e] = due[e] /\ due[e] \subseteq PullSet
    BY <1>1 DEF DueIsDone, MayName
  <2>4. \A q \in due[d] : q \in rest \/ LookedUpNext(d, q)
    <3>1. ASSUME NEW q \in due[d] PROVE q \in rest \/ LookedUpNext(d, q)
      <4>1. q \in handler[h].todo \/ LookedUp(d, q)
        BY <1>1, <3>1 DEF DueIsDone
      <4>2. CASE q = p
        BY <2>1, <4>2 DEF LookedUpNext
      <4>3. CASE q # p
        BY <1>4, <2>2, <2>3, <3>1, <4>1, <4>3
      <4> QED BY <4>2, <4>3
    <3> QED BY <3>1
  <2> HIDE DEF rest, d
  <2>5. ASSUME NEW e \in Deliveries, e \in acknowledged'
        PROVE  delivered'[e] # "none" /\ \A q \in due'[e] : LookedUpNext(e, q)
    <3>1. CASE e \in acknowledged
      BY <1>1, <2>2, <2>3, <3>1 DEF DueIsDone, WebhookKinds
    <3>2. CASE e \notin acknowledged
      <4>1. e = d /\ rest = {}
        BY <1>3, <2>5, <3>2
      <4> QED BY <1>1, <1>4, <2>3, <2>4, <4>1
    <3> QED BY <3>1, <3>2
  <2>6. ASSUME NEW g \in Handlers, handler'[g].on # "none", NEW q \in PullSet, q \in due'[handler'[g].on]
        PROVE  q \in handler'[g].todo \/ LookedUpNext(handler'[g].on, q)
    <3>1. CASE g # h
      <4>1. handler[g].on \in Deliveries /\ handler'[g] = handler[g]
        BY <1>7, <2>6, <3>1 DEF HandlersServe, Deliveries
      <4> QED BY <2>2, <2>3, <2>6, <4>1 DEF DueIsDone
    <3>2. CASE g = h
      <4>1. rest # {}
        BY <1>7, <2>6, <3>2 DEF NoHandler
      <4> QED BY <1>4, <1>8, <2>3, <2>4, <2>6, <3>2, <4>1
    <3> QED BY <3>1, <3>2
  <2> QED BY <1>9, <2>3, <2>5, <2>6, DueIsDoneNext
<1>12. SnapshotsFit'
  BY <1>1 DEF SnapshotsFit, OneSnapshotPerDelivery
<1> QED BY <1>9, <1>10, <1>11, <1>12

\* A handler that ends leaves the rest of its list.
LEMMA HandlersEnd ==
  ASSUME WebhookInv, UNCHANGED <<delivered, installation, acknowledged, due, lookedUp>>,
         handler' \in [Handlers -> [on : Deliveries \cup {"none"}, todo : SUBSET PullSet]],
         \A h \in Handlers : handler'[h] \in {handler[h], NoHandler},
         pull' \in [PullSet -> {"refreshable", "merged", "blocked"}],
         \A q \in PullSet : pull[q] # "refreshable" => pull'[q] # "refreshable"
  PROVE  WebhookInv'
<1> USE DEF WebhookInv
<1>1. WebhookKinds'
  BY DEF WebhookKinds
<1>2. HandlersServe'
  <2>0. Cardinality({}) = 0 /\ MatchLimit \in Nat
    BY FS_EmptySet, WebhookAssumption DEF WebhookAssumption
  <2>1. Cardinality({}) <= MatchLimit
    BY <2>0
  <2>2. NoHandler.on = "none" /\ NoHandler.todo = {}
    BY DEF NoHandler
  <2> QED
    <3> SUFFICES ASSUME NEW h \in Handlers
                 PROVE  /\ handler'[h].on = "none" <=> handler'[h].todo = {}
                        /\ handler'[h].on # "none" => handler'[h].on \in Lifecycle /\ delivered'[handler'[h].on] # "none"
                        /\ Cardinality(handler'[h].todo) <= MatchLimit
      BY DEF HandlersServe
    <3>1. CASE handler'[h] = NoHandler
      BY <2>1, <2>2, <3>1, Zenon
    <3>2. CASE handler'[h] = handler[h]
      BY <3>2, Zenon DEF HandlersServe
    <3> QED BY <3>1, <3>2
<1>3. DueIsDone'
  <2>1. \A e \in Deliveries, q \in PullSet : LookedUp(e, q) => LookedUpNext(e, q)
    BY DEF LookedUp, LookedUpNext
  <2>2. \A h \in Handlers : handler'[h].on # "none" => handler'[h] = handler[h] /\ handler[h].on \in Deliveries
    BY DEF NoHandler, WebhookKinds
  <2>3. acknowledged \subseteq Deliveries /\ \A e \in Deliveries : due[e] \subseteq PullSet
    BY DEF WebhookKinds
  <2>4. \A e \in Deliveries : due[e] \subseteq MayName(e)
    BY DEF DueIsDone
  <2>5. \A e \in Deliveries : e \in acknowledged' =>
           delivered'[e] # "none" /\ \A p \in due'[e] : LookedUpNext(e, p)
    BY <2>1, <2>3 DEF DueIsDone
  <2>6. \A g \in Handlers : handler'[g].on # "none" =>
           \A p \in PullSet : p \in due'[handler'[g].on] =>
              p \in handler'[g].todo \/ LookedUpNext(handler'[g].on, p)
    <3> SUFFICES ASSUME NEW g \in Handlers, handler'[g].on # "none", NEW p \in PullSet, p \in due[handler[g].on]
                 PROVE  p \in handler[g].todo \/ LookedUpNext(handler[g].on, p)
      BY <2>2
    <3>1. p \in handler[g].todo \/ LookedUp(handler[g].on, p)
      BY <2>2 DEF DueIsDone
    <3> QED BY <2>1, <2>2, <3>1
  <2> QED BY <1>1, <2>4, <2>5, <2>6, DueIsDoneNext
<1>4. SnapshotsFit'
  BY DEF SnapshotsFit, OneSnapshotPerDelivery
<1> QED BY <1>1, <1>2, <1>3, <1>4

LEMMA WebhookStep == WebhookInv /\ [WebhookNext]_webhookVars => WebhookInv'
<1> SUFFICES ASSUME WebhookInv, [WebhookNext]_webhookVars PROVE WebhookInv'
  OBVIOUS
<1>0. NoHandler \in [on : Deliveries \cup {"none"}, todo : SUBSET PullSet]
  BY DEF NoHandler
<1>1. ASSUME NEW h \in Handlers, NEW p \in PullSet, RefreshFails(h, p) PROVE WebhookInv'
  <2>1. /\ pull' \in {pull} \cup {[pull EXCEPT ![p] = IF @ = "refreshable" THEN "blocked" ELSE @]}
        /\ handler' = [handler EXCEPT ![h] = NoHandler]
        /\ UNCHANGED <<delivered, installation, acknowledged, due, lookedUp>>
    BY <1>1 DEF RefreshFails
  <2>2. /\ pull' \in [PullSet -> {"refreshable", "merged", "blocked"}]
        /\ \A q \in PullSet : pull[q] # "refreshable" => pull'[q] # "refreshable"
    BY <2>1 DEF WebhookInv, WebhookKinds
  <2>3. /\ handler' \in [Handlers -> [on : Deliveries \cup {"none"}, todo : SUBSET PullSet]]
        /\ \A g \in Handlers : handler'[g] \in {handler[g], NoHandler}
    BY <1>0, <2>1 DEF WebhookInv, WebhookKinds
  <2> QED BY <2>1, <2>2, <2>3, HandlersEnd
<1>2. CASE HandlersStop
  <2>1. /\ handler' = [h \in Handlers |-> NoHandler]
        /\ UNCHANGED <<delivered, installation, pull, acknowledged, due, lookedUp>>
    BY <1>2 DEF HandlersStop
  <2>2. pull' \in [PullSet -> {"refreshable", "merged", "blocked"}]
        /\ \A q \in PullSet : pull[q] # "refreshable" => pull'[q] # "refreshable"
    BY <2>1 DEF WebhookInv, WebhookKinds
  <2>3. /\ handler' \in [Handlers -> [on : Deliveries \cup {"none"}, todo : SUBSET PullSet]]
        /\ \A g \in Handlers : handler'[g] \in {handler[g], NoHandler}
    BY <1>0, <2>1
  <2> QED BY <2>1, <2>2, <2>3, HandlersEnd
<1>3. CASE UNCHANGED webhookVars
  BY <1>3 DEF webhookVars, WebhookInv, WebhookKinds, HandlersServe, DueIsDone, LookedUp, SnapshotsFit,
              OneSnapshotPerDelivery
<1> QED BY <1>1, <1>2, <1>3, ArriveFits, RefreshNextFits DEF WebhookNext

LEMMA DeliveriesAppliedAlways == WebhookSpec => []DeliveriesAreApplied
<1>1. WebhookInv => DeliveriesAreApplied
  <2>1. WebhookInv => WebhookTypeOK
    BY DEF WebhookInv, WebhookKinds, HandlersServe, DueIsDone, WebhookTypeOK
  <2>2. WebhookInv => AcknowledgedMeansRefreshed
    BY DEF WebhookInv, DueIsDone, LookedUp, AcknowledgedMeansRefreshed
  <2> QED BY <2>1, <2>2 DEF WebhookInv, SnapshotsFit, DeliveriesAreApplied
<1> QED BY <1>1, WebhookStarts, WebhookStep, PTL DEF WebhookSpec

LEMMA PayloadsStay == WebhookSpec => PayloadStands
<1>1. WebhookInv /\ [WebhookNext]_webhookVars =>
        [\A d \in Deliveries : delivered[d] # "none" => delivered'[d] = delivered[d]]_webhookVars
  BY DEF WebhookInv, WebhookKinds, WebhookNext, Arrive, RecordVerified, RefreshNext, RefreshFails, HandlersStop
<1> QED BY <1>1, WebhookStarts, WebhookStep, PTL DEF WebhookSpec, PayloadStands

(***************************************************************************)
(* Issue actions.                                                          *)
(***************************************************************************)
ActionRows == [status : {"none", "pending", "running", "succeeded", "failed", "blocked"},
               lease : {"none", "held", "ended"}]

ExecutionRows == [on : Actions \cup {"none"}, step : {"idle", "find", "post", "add", "remove", "done"},
                  rest : SUBSET RouteLabels, alone : BOOLEAN]

IssueKinds ==
  /\ action \in [Actions -> ActionRows]
  /\ executor \in [Executors -> ExecutionRows]
  /\ posted \in [Comments -> Nat] /\ expired \in [Comments -> Nat] /\ interrupted \in [Comments -> Nat]
  /\ labels \subseteq RouteLabels /\ writable \in BOOLEAN
  /\ \A a \in Actions : action[a].lease # "none" => action[a].status \in {"running", "blocked"}

\* A comment is looked for and posted, a label is added and the others removed; what is
\* done has its comment, and so has what succeeded.
StepsFit ==
  /\ \A p \in Executors :
       /\ executor[p].on = "none" => executor[p].step = "idle"
       /\ executor[p].on \in Comments => executor[p].step \in {"find", "post", "done"}
       /\ executor[p].on \in Labels => executor[p].step \in {"add", "remove"}
       /\ executor[p].on \in Comments /\ executor[p].step = "done" => posted[executor[p].on] > 0
  /\ \A a \in Comments : action[a].status = "succeeded" => posted[a] > 0

Executing(a) == {p \in Executors : executor[p].on = a}
Posting(a) == {p \in Executors : executor[p].on = a /\ executor[p].step = "post"}
Leased(a) == IF action[a].status = "running" /\ action[a].lease = "held" THEN 1 ELSE 0

\* Each execution of a comment but the leased one is one that outlived its lease or was
\* blocked; so is each comment posted or about to be, but for one.
OverlapsFit(a) ==
  /\ Cardinality(Executing(a)) <= expired[a] + interrupted[a] + Leased(a)
  /\ posted[a] + Cardinality(Posting(a)) <= 1 + expired[a] + interrupted[a]

\* An execution that is alone has the labels to itself.
AloneFits ==
  \A p \in Executors : executor[p].on # "none" /\ executor[p].alone =>
    /\ \A q \in Executors : q # p => executor[q].on = "none"
    /\ action[executor[p].on].status \in {"running", "blocked"}
    /\ executor[p].step = "remove" =>
         /\ executor[p].on \in labels /\ executor[p].on \notin executor[p].rest
         /\ labels \subseteq {executor[p].on} \cup executor[p].rest

IssueInv ==
  /\ IssueKinds /\ StepsFit /\ AloneFits
  /\ \A a \in Comments : OverlapsFit(a)

LEMMA ExecutionsFinite ==
  /\ MaxExecutions \in Nat /\ IsFiniteSet(Executors)
  /\ \A a : /\ IsFiniteSet(Executing(a)) /\ IsFiniteSet(Posting(a)) /\ Posting(a) \subseteq Executing(a)
            /\ Cardinality(Executing(a)) \in Nat /\ Cardinality(Posting(a)) \in Nat
            /\ Cardinality(Posting(a)) <= Cardinality(Executing(a))
<1>1. MaxExecutions \in Nat /\ IsFiniteSet(Executors)
  BY IssueAssumption, FS_Interval DEF IssueAssumption, Executors
<1>2. ASSUME NEW a
      PROVE  /\ IsFiniteSet(Executing(a)) /\ IsFiniteSet(Posting(a)) /\ Posting(a) \subseteq Executing(a)
             /\ Cardinality(Executing(a)) \in Nat /\ Cardinality(Posting(a)) \in Nat
             /\ Cardinality(Posting(a)) <= Cardinality(Executing(a))
  <2>1. Executing(a) \subseteq Executors /\ Posting(a) \subseteq Executing(a)
    BY DEF Executing, Posting
  <2>2. IsFiniteSet(Executing(a)) /\ IsFiniteSet(Posting(a))
    BY <1>1, <2>1, FS_Subset
  <2> QED BY <2>1, <2>2, FS_Subset, FS_CardinalityType
<1> QED BY <1>1, <1>2

LEMMA LeasedKind == \A a : Leased(a) \in {0, 1}
BY DEF Leased

LEMMA IssueStarts == IssueInit => IssueInv
<1> SUFFICES ASSUME IssueInit PROVE IssueInv
  OBVIOUS
<1> USE DEF IssueInit
<1>1. /\ \A p \in Executors : executor[p] = Nowhere
      /\ Nowhere.on = "none" /\ Nowhere.step = "idle" /\ Nowhere \in ExecutionRows
  BY DEF Nowhere, ExecutionRows
<1>2. "none" \notin Actions /\ "none" \notin Comments /\ "none" \notin Labels
  BY IssueAssumption DEF IssueAssumption, Actions
<1>3. [status |-> "none", lease |-> "none"] \in ActionRows
  BY DEF ActionRows
<1>4. IssueKinds
  BY <1>1, <1>3 DEF IssueKinds
<1>5. StepsFit
  BY <1>1, <1>2 DEF StepsFit, Actions
<1>6. AloneFits
  BY <1>1 DEF AloneFits
<1>7. ASSUME NEW a \in Comments PROVE OverlapsFit(a)
  <2>1. Executing(a) = {} /\ Posting(a) = {}
    BY <1>1, <1>2 DEF Executing, Posting
  <2>2. Cardinality({}) = 0
    BY FS_EmptySet
  <2> QED BY <2>1, <2>2, LeasedKind DEF OverlapsFit
<1> QED BY <1>4, <1>5, <1>6, <1>7 DEF IssueInv

\* A step that leaves the executions and GitHub as they are keeps the accounts when a
\* lease that goes is counted.
LEMMA RowsOnly ==
  ASSUME IssueInv, UNCHANGED <<executor, posted, labels>>, IssueKinds',
         \A a \in Comments : /\ expired[a] + interrupted[a] <= expired'[a] + interrupted'[a]
                             /\ expired[a] + interrupted[a] + Leased(a) <= expired'[a] + interrupted'[a] + Leased(a)',
         \A a \in Actions : action'[a].status # action[a].status => action'[a].status # "succeeded",
         \A p \in Executors : executor[p].on # "none" /\ executor[p].alone =>
           action'[executor[p].on].status \in {action[executor[p].on].status, "blocked"}
  PROVE  IssueInv'
<1> USE DEF IssueInv
<1>1. StepsFit'
  BY DEF StepsFit, Actions
<1>2. AloneFits'
  BY DEF AloneFits
<1>3. ASSUME NEW a \in Comments PROVE OverlapsFit(a)'
  <2>1. Executing(a)' = Executing(a) /\ Posting(a)' = Posting(a)
    BY DEF Executing, Posting
  <2>2. /\ Cardinality(Executing(a)) \in Nat /\ Cardinality(Posting(a)) \in Nat
        /\ posted[a] \in Nat /\ expired[a] \in Nat /\ interrupted[a] \in Nat
        /\ expired'[a] \in Nat /\ interrupted'[a] \in Nat /\ Leased(a) \in Nat
        /\ Leased(a)' \in Nat
    <3>1. Leased(a) \in {0, 1} /\ Leased(a)' \in {0, 1}
      BY DEF Leased
    <3> QED BY <3>1, ExecutionsFinite DEF IssueKinds
  <2>3. OverlapsFit(a)
    OBVIOUS
  <2>4. /\ Cardinality(Executing(a)') <= expired'[a] + interrupted'[a] + Leased(a)'
        /\ posted[a] + Cardinality(Posting(a)') <= 1 + expired'[a] + interrupted'[a]
    BY <2>1, <2>2, <2>3 DEF OverlapsFit
  <2> QED BY <2>4 DEF OverlapsFit
<1> QED BY <1>1, <1>2, <1>3

LEMMA PolicyFits == ASSUME IssueInv, PolicyFlips PROVE IssueInv'
<1>1. UNCHANGED <<action, executor, posted, labels, expired, interrupted>> /\ writable' = ~writable
  BY DEF PolicyFlips
<1>2. IssueKinds'
  BY <1>1 DEF IssueInv, IssueKinds
<1>3. \A a : Leased(a)' = Leased(a)
  BY <1>1 DEF Leased
<1>4. \A a \in Comments : expired[a] \in Nat /\ interrupted[a] \in Nat /\ Leased(a) \in Nat
  BY LeasedKind DEF IssueInv, IssueKinds
<1> QED BY <1>1, <1>2, <1>3, <1>4, RowsOnly

LEMMA AdmitFits == ASSUME IssueInv, NEW b \in Actions, AdmitAction(b) PROVE IssueInv'
<1>1. /\ UNCHANGED <<executor, writable, posted, labels, expired, interrupted>>
      /\ action[b].status = "none" /\ action[b] \in ActionRows
      /\ action' = [action EXCEPT ![b].status = IF writable THEN "pending" ELSE "blocked"]
  BY DEF AdmitAction, IssueInv, IssueKinds
<1>2. /\ action'[b].status \in {"pending", "blocked"} /\ action'[b].lease = "none"
      /\ action'[b] \in ActionRows /\ \A a \in Actions : a # b => action'[a] = action[a]
      /\ action' \in [Actions -> ActionRows]
  BY <1>1 DEF IssueInv, IssueKinds, ActionRows
<1>3. IssueKinds'
  BY <1>1, <1>2 DEF IssueInv, IssueKinds
<1>4. \A a \in Actions : Leased(a)' = Leased(a)
  BY <1>1, <1>2 DEF Leased
<1>5. \A a \in Comments : expired[a] \in Nat /\ interrupted[a] \in Nat /\ Leased(a) \in Nat
  BY LeasedKind DEF IssueInv, IssueKinds
<1>6. \A p \in Executors : executor[p].on # "none" /\ executor[p].alone =>
           action'[executor[p].on].status \in {action[executor[p].on].status, "blocked"}
  <2>1. \A p \in Executors : executor[p].on \in Actions \cup {"none"}
    BY DEF IssueInv, IssueKinds, ExecutionRows
  <2> QED BY <1>1, <1>2, <2>1 DEF IssueInv, AloneFits
<1> QED BY <1>1, <1>2, <1>3, <1>4, <1>5, <1>6, RowsOnly DEF Actions

LEMMA LeaseFits == ASSUME IssueInv, NEW b \in Actions, LeaseEnds(b) PROVE IssueInv'
<1>1. /\ UNCHANGED <<executor, writable, posted, labels, interrupted>>
      /\ action[b].lease = "held" /\ action[b] \in ActionRows
      /\ action' = [action EXCEPT ![b].lease = "ended"]
      /\ expired' = [c \in Comments |-> IF c = b THEN expired[c] + 1 ELSE expired[c]]
  BY DEF LeaseEnds, IssueInv, IssueKinds
<1>2. /\ action'[b].status = action[b].status /\ action'[b].lease = "ended"
      /\ action'[b] \in ActionRows /\ \A a \in Actions : a # b => action'[a] = action[a]
      /\ action' \in [Actions -> ActionRows]
  BY <1>1 DEF IssueInv, IssueKinds, ActionRows
<1>3. IssueKinds'
  BY <1>1, <1>2 DEF IssueInv, IssueKinds
<1>4. \A a \in Actions : a # b => Leased(a)' = Leased(a)
  BY <1>2 DEF Leased
<1>5. \A a \in Comments : /\ expired[a] \in Nat /\ interrupted[a] \in Nat /\ Leased(a) \in {0, 1}
                          /\ expired'[a] = IF a = b THEN expired[a] + 1 ELSE expired[a]
  BY <1>1, LeasedKind DEF IssueInv, IssueKinds
<1>6. Leased(b)' = 0
  BY <1>2 DEF Leased
<1>7. \A a \in Actions : action'[a].status = action[a].status
  BY <1>2
<1>8. \A p \in Executors : executor[p].on # "none" /\ executor[p].alone =>
           action'[executor[p].on].status \in {action[executor[p].on].status, "blocked"}
  BY <1>7 DEF IssueInv, IssueKinds, ExecutionRows
<1>9. \A a \in Comments : /\ expired[a] + interrupted[a] <= expired'[a] + interrupted'[a]
                          /\ expired[a] + interrupted[a] + Leased(a) <= expired'[a] + interrupted'[a] + Leased(a)'
  BY <1>1, <1>4, <1>5, <1>6 DEF Actions
<1> QED BY <1>1, <1>3, <1>7, <1>8, <1>9, RowsOnly

LEMMA BlockFits == ASSUME IssueInv, NEW b \in Actions, BlockByPolicy(b) PROVE IssueInv'
<1>1. /\ UNCHANGED <<executor, writable, posted, labels, expired>>
      /\ action[b].status \notin {"none", "succeeded"} /\ action[b] \in ActionRows
      /\ action' = [action EXCEPT ![b].status = "blocked"]
      /\ interrupted' = [c \in Comments |->
           IF c = b /\ action[b].status = "running" THEN interrupted[c] + 1 ELSE interrupted[c]]
  BY DEF BlockByPolicy, IssueInv, IssueKinds
<1>2. /\ action'[b].status = "blocked"
      /\ action'[b] \in ActionRows /\ \A a \in Actions : a # b => action'[a] = action[a]
      /\ action' \in [Actions -> ActionRows]
  BY <1>1 DEF IssueInv, IssueKinds, ActionRows
<1>3. IssueKinds'
  BY <1>1, <1>2 DEF IssueInv, IssueKinds
<1>4. \A a \in Actions : a # b => Leased(a)' = Leased(a)
  BY <1>2 DEF Leased
<1>5. \A a \in Comments : /\ expired[a] \in Nat /\ interrupted[a] \in Nat /\ Leased(a) \in {0, 1}
                          /\ interrupted'[a] = IF a = b /\ action[b].status = "running" THEN interrupted[a] + 1
                                               ELSE interrupted[a]
  BY <1>1, LeasedKind DEF IssueInv, IssueKinds
<1>6. Leased(b)' = 0 /\ (action[b].status # "running" => Leased(b) = 0)
  BY <1>2 DEF Leased
<1>7. \A a \in Actions : action'[a].status \in {action[a].status, "blocked"}
  BY <1>2
<1>8. \A p \in Executors : executor[p].on # "none" /\ executor[p].alone =>
           action'[executor[p].on].status \in {action[executor[p].on].status, "blocked"}
  BY <1>7 DEF IssueInv, IssueKinds, ExecutionRows
<1>9. \A a \in Comments : /\ expired[a] + interrupted[a] <= expired'[a] + interrupted'[a]
                          /\ expired[a] + interrupted[a] + Leased(a) <= expired'[a] + interrupted'[a] + Leased(a)'
  BY <1>1, <1>4, <1>5, <1>6 DEF Actions
<1> QED BY <1>1, <1>3, <1>7, <1>8, <1>9, RowsOnly

LEMMA StopFits == ASSUME IssueInv, ExecutorsStop PROVE IssueInv'
<1> USE DEF IssueInv
<1>1. /\ UNCHANGED <<action, writable, posted, labels, expired, interrupted>>
      /\ executor' = [p \in Executors |-> Nowhere]
  BY DEF ExecutorsStop
<1>2. /\ \A p \in Executors : executor'[p] = Nowhere
      /\ Nowhere.on = "none" /\ Nowhere.step = "idle" /\ Nowhere \in ExecutionRows
  BY <1>1 DEF Nowhere, ExecutionRows
<1>3. "none" \notin Actions /\ "none" \notin Comments /\ "none" \notin Labels
  BY IssueAssumption DEF IssueAssumption, Actions
<1>4. IssueKinds'
  BY <1>1, <1>2 DEF IssueKinds
<1>5. StepsFit'
  BY <1>1, <1>2, <1>3 DEF StepsFit
<1>6. AloneFits'
  BY <1>2 DEF AloneFits
<1>7. ASSUME NEW a \in Comments PROVE OverlapsFit(a)'
  <2>1. Executing(a)' = {} /\ Posting(a)' = {}
    BY <1>2, <1>3 DEF Executing, Posting
  <2>2. Cardinality({}) = 0
    BY FS_EmptySet
  <2>3. /\ Cardinality(Executing(a)) \in Nat /\ Cardinality(Posting(a)) \in Nat
        /\ posted[a] \in Nat /\ expired[a] \in Nat /\ interrupted[a] \in Nat
    BY ExecutionsFinite DEF IssueKinds
  <2>4. Leased(a)' \in {0, 1}
    BY DEF Leased
  <2>5. /\ Cardinality(Executing(a)') <= expired[a] + interrupted[a] + Leased(a)'
        /\ posted[a] + Cardinality(Posting(a)') <= 1 + expired[a] + interrupted[a]
    BY <2>1, <2>2, <2>3, <2>4 DEF OverlapsFit
  <2> QED BY <1>1, <2>5 DEF OverlapsFit
<1> QED BY <1>4, <1>5, <1>6, <1>7

LEMMA ClaimFits == ASSUME IssueInv, NEW p \in Executors, NEW b \in Actions, ClaimAction(p, b) PROVE IssueInv'
<1> USE DEF IssueInv
<1> DEFINE busy == {q \in Executors : executor[q].on # "none"}
<1>1. /\ UNCHANGED <<writable, posted, labels, expired, interrupted>>
      /\ executor[p].on = "none" /\ executor[p].step = "idle" /\ p \notin busy
      /\ action' = [action EXCEPT ![b] = [status |-> "running", lease |-> "held"]]
      /\ executor' = [q \in Executors |->
           IF q = p THEN [on |-> b, step |-> FirstStep(b), rest |-> {}, alone |-> busy = {}]
           ELSE [executor[q] EXCEPT !.alone = @ /\ q \notin busy]]
      /\ Claimable(b)
  BY DEF ClaimAction, StepsFit
<1>2. b \in Comments \cup Labels /\ "none" \notin Actions /\ Comments \cap Labels = {} /\ b # "none"
  BY IssueAssumption DEF IssueAssumption, Actions
<1>3. FirstStep(b) = IF b \in Comments THEN "find" ELSE "add"
  BY DEF FirstStep
<1>4. /\ \A q \in Executors : q # p =>
           /\ executor'[q].on = executor[q].on /\ executor'[q].step = executor[q].step
           /\ executor'[q].rest = executor[q].rest
           /\ executor'[q].alone = (executor[q].alone /\ q \notin busy)
           /\ executor'[q] \in ExecutionRows
      /\ executor'[p].on = b /\ executor'[p].step = FirstStep(b) /\ executor'[p].rest = {}
      /\ executor'[p].alone = (busy = {}) /\ executor'[p] \in ExecutionRows
  <2>1. ASSUME NEW q \in Executors, q # p
        PROVE  /\ executor'[q].on = executor[q].on /\ executor'[q].step = executor[q].step
               /\ executor'[q].rest = executor[q].rest
               /\ executor'[q].alone = (executor[q].alone /\ q \notin busy)
               /\ executor'[q] \in ExecutionRows
    <3>1. executor[q] \in ExecutionRows
      BY DEF IssueKinds
    <3>2. executor'[q] = [executor[q] EXCEPT !.alone = executor[q].alone /\ q \notin busy]
      BY <1>1, <2>1
    <3>3. (executor[q].alone /\ q \notin busy) \in BOOLEAN
      OBVIOUS
    <3> HIDE DEF busy
    <3> QED BY <3>1, <3>2, <3>3 DEF ExecutionRows
  <2>2. executor'[p] = [on |-> b, step |-> FirstStep(b), rest |-> {}, alone |-> busy = {}]
    BY <1>1
  <2>3. (busy = {}) \in BOOLEAN
    OBVIOUS
  <2> HIDE DEF busy
  <2>4. /\ executor'[p].on = b /\ executor'[p].step = FirstStep(b) /\ executor'[p].rest = {}
        /\ executor'[p].alone = (busy = {}) /\ executor'[p] \in ExecutionRows
    BY <1>2, <1>3, <2>2, <2>3 DEF ExecutionRows, Actions
  <2> QED BY <2>1, <2>4
<1>5. /\ action'[b].status = "running" /\ action'[b].lease = "held" /\ action'[b] \in ActionRows
      /\ \A a \in Actions : a # b => action'[a] = action[a]
      /\ action' \in [Actions -> ActionRows]
  <2>1. [status |-> "running", lease |-> "held"] \in ActionRows
    BY DEF ActionRows
  <2> QED BY <1>1, <2>1 DEF IssueKinds
<1>6. IssueKinds'
  <2>1. executor' \in [Executors -> ExecutionRows]
    <3>1. \A q \in Executors : executor'[q] \in ExecutionRows
      BY <1>4
    <3>2. executor' = [q \in Executors |-> executor'[q]]
      BY <1>1
    <3> QED BY <3>1, <3>2
  <2>2. \A a \in Actions : action'[a].lease # "none" => action'[a].status \in {"running", "blocked"}
    BY <1>5 DEF IssueKinds
  <2> QED BY <1>1, <1>5, <2>1, <2>2 DEF IssueKinds
<1>7. StepsFit'
  BY <1>1, <1>2, <1>3, <1>4, <1>5 DEF StepsFit, Actions
<1>8. AloneFits'
  <2>1. ASSUME NEW q \in Executors, executor'[q].on # "none", executor'[q].alone PROVE q = p /\ busy = {}
    <3>1. CASE q = p
      BY <1>4, <2>1, <3>1
    <3>2. CASE q # p
      BY <1>4, <2>1, <3>2
    <3> QED BY <3>1, <3>2
  <2>2. busy = {} => \A q \in Executors : q # p => executor'[q].on = "none"
    BY <1>4
  <2>3. executor'[p].step # "remove" /\ action'[executor'[p].on].status = "running"
    BY <1>3, <1>4, <1>5
  <2> HIDE DEF busy
  <2> QED BY <2>1, <2>2, <2>3 DEF AloneFits
<1>9. ASSUME NEW a \in Comments PROVE OverlapsFit(a)'
  <2>1. Posting(a)' = Posting(a)
    BY <1>1, <1>3, <1>4 DEF Posting
  <2>2. /\ Cardinality(Executing(a)) \in Nat /\ Cardinality(Posting(a)) \in Nat /\ IsFiniteSet(Executing(a))
        /\ posted[a] \in Nat /\ expired[a] \in Nat /\ interrupted[a] \in Nat
    BY ExecutionsFinite DEF IssueKinds
  <2>3. OverlapsFit(a)
    OBVIOUS
  <2>4. Cardinality(Executing(a)') <= expired[a] + interrupted[a] + Leased(a)'
    <3>1. CASE a = b
      <4>1. Executing(a)' = Executing(a) \cup {p} /\ p \notin Executing(a)
        BY <1>1, <1>2, <1>4, <3>1 DEF Executing
      <4>2. Cardinality(Executing(a)') = Cardinality(Executing(a)) + 1
        BY <2>2, <4>1, FS_AddElement
      <4>3. Leased(a) = 0 /\ Leased(a)' = 1
        BY <1>1, <1>5, <3>1 DEF Leased, Claimable
      <4> QED BY <2>2, <2>3, <4>2, <4>3 DEF OverlapsFit
    <3>2. CASE a # b
      <4>1. Executing(a)' = Executing(a)
        BY <1>1, <1>2, <1>4, <3>2 DEF Executing, Actions
      <4>2. Leased(a)' = Leased(a)
        BY <1>5, <3>2 DEF Leased, Actions
      <4> QED BY <2>3, <4>1, <4>2 DEF OverlapsFit
    <3> QED BY <3>1, <3>2
  <2>5. posted[a] + Cardinality(Posting(a)') <= 1 + expired[a] + interrupted[a]
    BY <2>1, <2>3 DEF OverlapsFit
  <2> QED BY <1>1, <2>4, <2>5 DEF OverlapsFit
<1> QED BY <1>6, <1>7, <1>8, <1>9

LEMMA FindFits == ASSUME IssueInv, NEW p \in Executors, FindComment(p) PROVE IssueInv'
<1> USE DEF IssueInv
<1>1. /\ UNCHANGED <<action, writable, posted, labels, expired, interrupted>>
      /\ executor[p].step = "find" /\ executor[p] \in ExecutionRows
      /\ executor' = [executor EXCEPT ![p].step = IF posted[executor[p].on] > 0 THEN "done" ELSE "post"]
  BY DEF FindComment, IssueKinds
<1>2. executor[p].on \in Comments /\ executor[p].on # "none"
  BY <1>1, IssueAssumption DEF StepsFit, ExecutionRows, Actions, IssueAssumption
<1>3. /\ \A q \in Executors : q # p => executor'[q] = executor[q]
      /\ executor'[p].on = executor[p].on /\ executor'[p].alone = executor[p].alone
      /\ executor'[p].step = IF posted[executor[p].on] > 0 THEN "done" ELSE "post"
      /\ executor' \in [Executors -> ExecutionRows]
  BY <1>1 DEF IssueKinds, ExecutionRows
<1>4. IssueKinds'
  BY <1>1, <1>3 DEF IssueKinds
<1>5. StepsFit'
  BY <1>1, <1>2, <1>3, IssueAssumption DEF StepsFit, IssueAssumption
<1>6. AloneFits'
  BY <1>1, <1>2, <1>3 DEF AloneFits
<1>7. ASSUME NEW a \in Comments PROVE OverlapsFit(a)'
  <2>1. Executing(a)' = Executing(a)
    BY <1>3 DEF Executing
  <2>2. /\ Cardinality(Executing(a)) \in Nat /\ Cardinality(Posting(a)) \in Nat /\ IsFiniteSet(Executing(a))
        /\ posted[a] \in Nat /\ expired[a] \in Nat /\ interrupted[a] \in Nat
    BY ExecutionsFinite DEF IssueKinds
  <2>3. OverlapsFit(a) /\ Leased(a)' = Leased(a) /\ Leased(a) \in {0, 1}
    BY <1>1, LeasedKind DEF Leased
  <2>4. posted[a] + Cardinality(Posting(a)') <= 1 + expired[a] + interrupted[a]
    <3>1. CASE posted[a] > 0
      <4>1. Posting(a)' = Posting(a)
        BY <1>1, <1>3, <3>1 DEF Posting
      <4> QED BY <2>3, <4>1 DEF OverlapsFit
    <3>2. CASE posted[a] = 0
      <4>1. Posting(a)' \subseteq Executing(a)
        BY <2>1 DEF Executing, Posting
      <4>2. Cardinality(Posting(a)') <= Cardinality(Executing(a)) /\ Cardinality(Posting(a)') \in Nat
        BY <2>2, <4>1, FS_Subset, FS_CardinalityType
      <4> QED BY <2>2, <2>3, <3>2, <4>2 DEF OverlapsFit
    <3> QED BY <2>2, <3>1, <3>2
  <2> QED BY <1>1, <2>1, <2>3, <2>4 DEF OverlapsFit
<1> QED BY <1>4, <1>5, <1>6, <1>7

LEMMA PostFits == ASSUME IssueInv, NEW p \in Executors, PostComment(p) PROVE IssueInv'
<1> USE DEF IssueInv
<1>1. /\ UNCHANGED <<action, writable, labels, expired, interrupted>>
      /\ executor[p].step = "post" /\ executor[p] \in ExecutionRows
      /\ executor' = [executor EXCEPT ![p].step = "done"]
      /\ posted' = [posted EXCEPT ![executor[p].on] = @ + 1]
  BY DEF PostComment, IssueKinds
<1>2. executor[p].on \in Comments /\ executor[p].on # "none"
  BY <1>1, IssueAssumption DEF StepsFit, ExecutionRows, Actions, IssueAssumption
<1>3. /\ \A q \in Executors : q # p => executor'[q] = executor[q]
      /\ executor'[p].on = executor[p].on /\ executor'[p].alone = executor[p].alone
      /\ executor'[p].step = "done"
      /\ executor' \in [Executors -> ExecutionRows]
  BY <1>1 DEF IssueKinds, ExecutionRows
<1>4. /\ posted' \in [Comments -> Nat] /\ posted'[executor[p].on] = posted[executor[p].on] + 1
      /\ \A a \in Comments : a # executor[p].on => posted'[a] = posted[a]
      /\ \A a \in Comments : posted[a] > 0 => posted'[a] > 0
      /\ posted'[executor[p].on] > 0
  BY <1>1, <1>2 DEF IssueKinds
<1>5. IssueKinds'
  BY <1>1, <1>3, <1>4 DEF IssueKinds
<1>6. StepsFit'
  BY <1>1, <1>2, <1>3, <1>4, IssueAssumption DEF StepsFit, IssueAssumption
<1>7. AloneFits'
  BY <1>1, <1>2, <1>3 DEF AloneFits
<1>8. ASSUME NEW a \in Comments PROVE OverlapsFit(a)'
  <2>1. Executing(a)' = Executing(a)
    BY <1>3 DEF Executing
  <2>2. /\ Cardinality(Executing(a)) \in Nat /\ Cardinality(Posting(a)) \in Nat /\ IsFiniteSet(Posting(a))
        /\ posted[a] \in Nat /\ expired[a] \in Nat /\ interrupted[a] \in Nat
    BY ExecutionsFinite DEF IssueKinds
  <2>3. OverlapsFit(a) /\ Leased(a)' = Leased(a)
    BY <1>1 DEF Leased
  <2>4. posted'[a] + Cardinality(Posting(a)') <= 1 + expired[a] + interrupted[a]
    <3>1. CASE a = executor[p].on
      <4>1. Posting(a)' = Posting(a) \ {p} /\ p \in Posting(a)
        BY <1>1, <1>3, <3>1 DEF Posting
      <4>2. Cardinality(Posting(a)') = Cardinality(Posting(a)) - 1
        BY <2>2, <4>1, FS_RemoveElement
      <4> QED BY <1>4, <2>2, <2>3, <3>1, <4>2 DEF OverlapsFit
    <3>2. CASE a # executor[p].on
      <4>1. Posting(a)' = Posting(a)
        BY <1>3, <3>2 DEF Posting
      <4> QED BY <1>4, <2>3, <3>2, <4>1 DEF OverlapsFit
    <3> QED BY <3>1, <3>2
  <2> QED BY <1>1, <2>1, <2>3, <2>4 DEF OverlapsFit
<1> QED BY <1>5, <1>6, <1>7, <1>8

\* A step of a label's execution leaves the accounts of the comments.
LEMMA LabelsOnly ==
  ASSUME IssueInv, NEW p \in Executors, executor[p].step \in {"add", "remove"},
         UNCHANGED <<action, writable, posted, expired, interrupted>>,
         labels' \subseteq RouteLabels, executor' \in [Executors -> ExecutionRows],
         \A q \in Executors : q # p => executor'[q] = executor[q],
         executor'[p].on = executor[p].on, executor'[p].alone = executor[p].alone,
         executor'[p].step = "remove",
         executor[p].alone =>
           /\ executor[p].on \in labels' /\ executor[p].on \notin executor'[p].rest
           /\ labels' \subseteq {executor[p].on} \cup executor'[p].rest
  PROVE  IssueInv'
<1> USE DEF IssueInv
<1>1. executor[p].on \in Labels /\ executor[p].on # "none" /\ executor[p].on \notin Comments
  BY IssueAssumption DEF StepsFit, ExecutionRows, Actions, IssueAssumption, IssueKinds
<1>2. IssueKinds'
  BY DEF IssueKinds
<1>3. StepsFit'
  BY <1>1 DEF StepsFit
<1>4. AloneFits'
  <2>1. \A q \in Executors : executor'[q].on = executor[q].on /\ executor'[q].alone = executor[q].alone
    OBVIOUS
  <2>2. ASSUME NEW q \in Executors, executor[q].on # "none", executor[q].alone PROVE q = p
    BY <1>1, <2>2 DEF AloneFits
  <2> QED BY <1>1, <2>1, <2>2 DEF AloneFits
<1>5. ASSUME NEW a \in Comments PROVE OverlapsFit(a)'
  <2>1. Executing(a)' = Executing(a) /\ Posting(a)' = Posting(a)
    BY <1>1 DEF Executing, Posting
  <2>2. Leased(a)' = Leased(a)
    BY DEF Leased
  <2> QED BY <2>1, <2>2 DEF OverlapsFit
<1> QED BY <1>2, <1>3, <1>4, <1>5

LEMMA StepTaken ==
  ASSUME NEW O, NEW S, NEW R, NEW A, NEW x \in [on : O, step : S, rest : R, alone : A], NEW s \in S, NEW r \in R
  PROVE  LET y == [x EXCEPT !.step = s, !.rest = r] IN
           /\ y.on = x.on /\ y.alone = x.alone /\ y.step = s /\ y.rest = r
           /\ y \in [on : O, step : S, rest : R, alone : A]
OBVIOUS

LEMMA AddFits == ASSUME IssueInv, NEW p \in Executors, AddLabel(p) PROVE IssueInv'
<1>1. /\ UNCHANGED <<action, writable, posted, expired, interrupted>>
      /\ executor[p].step = "add" /\ executor[p] \in ExecutionRows
      /\ labels' = labels \cup {executor[p].on}
      /\ executor' = [executor EXCEPT ![p].step = "remove", ![p].rest = RouteLabels \ {executor[p].on}]
  BY DEF AddLabel, IssueInv, IssueKinds
<1>2. executor[p].on \in RouteLabels /\ labels \subseteq RouteLabels
  BY <1>1, IssueAssumption DEF IssueInv, IssueKinds, StepsFit, ExecutionRows, Actions, IssueAssumption, RouteLabels
<1>3. executor'[p] = [executor[p] EXCEPT !.step = "remove", !.rest = RouteLabels \ {executor[p].on}]
  BY <1>1 DEF IssueInv, IssueKinds
<1>4. /\ executor'[p].on = executor[p].on /\ executor'[p].alone = executor[p].alone
      /\ executor'[p].step = "remove" /\ executor'[p].rest = RouteLabels \ {executor[p].on}
      /\ executor'[p] \in ExecutionRows
  <2>1. "remove" \in {"idle", "find", "post", "add", "remove", "done"}
        /\ (RouteLabels \ {executor[p].on}) \in SUBSET RouteLabels
    OBVIOUS
  <2>2. LET y == [executor[p] EXCEPT !.step = "remove", !.rest = RouteLabels \ {executor[p].on}] IN
          /\ y.on = executor[p].on /\ y.alone = executor[p].alone
          /\ y.step = "remove" /\ y.rest = RouteLabels \ {executor[p].on}
          /\ y \in ExecutionRows
    BY <1>1, <2>1, StepTaken, Zenon DEF ExecutionRows
  <2> QED BY <1>3, <2>2
<1>5. /\ \A q \in Executors : q # p => executor'[q] = executor[q]
      /\ executor' \in [Executors -> ExecutionRows]
  BY <1>1, <1>4 DEF IssueInv, IssueKinds
<1> QED BY <1>1, <1>2, <1>4, <1>5, LabelsOnly

LEMMA RemoveFits == ASSUME IssueInv, NEW p \in Executors, RemoveLabel(p) PROVE IssueInv'
<1>1. PICK l \in RouteLabels :
        /\ UNCHANGED <<action, writable, posted, expired, interrupted>>
        /\ executor[p].step = "remove" /\ executor[p] \in ExecutionRows
        /\ l \in executor[p].rest
        /\ labels' = labels \ {l}
        /\ executor' = [executor EXCEPT ![p].rest = @ \ {l}]
  BY DEF RemoveLabel, IssueInv, IssueKinds, RouteLabels
<1>2. labels \subseteq RouteLabels
  BY DEF IssueInv, IssueKinds
<1>3. executor'[p] = [executor[p] EXCEPT !.rest = executor[p].rest \ {l}]
  BY <1>1 DEF IssueInv, IssueKinds
<1>4. /\ executor'[p].on = executor[p].on /\ executor'[p].alone = executor[p].alone
      /\ executor'[p].step = "remove" /\ executor'[p].rest = executor[p].rest \ {l}
      /\ executor'[p] \in ExecutionRows
  BY <1>1, <1>3 DEF ExecutionRows
<1>5. /\ \A q \in Executors : q # p => executor'[q] = executor[q]
      /\ executor' \in [Executors -> ExecutionRows]
  BY <1>1, <1>4 DEF IssueInv, IssueKinds
<1>6. executor[p].alone =>
        /\ executor[p].on \in labels /\ executor[p].on \notin executor[p].rest
        /\ labels \subseteq {executor[p].on} \cup executor[p].rest
  BY <1>1 DEF IssueInv, AloneFits, StepsFit
<1> QED BY <1>1, <1>2, <1>4, <1>5, <1>6, LabelsOnly

LEMMA SettleFits ==
  ASSUME IssueInv, NEW p \in Executors, NEW status \in {"succeeded", "failed"}, Settles(p, status),
         executor[p].on # "none",
         executor[p].on \in Comments /\ status = "succeeded" => posted[executor[p].on] > 0
  PROVE  IssueInv'
<1> USE DEF IssueInv
<1> DEFINE b == executor[p].on
<1>1. /\ UNCHANGED <<writable, posted, labels, expired, interrupted>>
      /\ executor' = [executor EXCEPT ![p] = Nowhere]
      /\ action' = [action EXCEPT ![b].status = status, ![b].lease = "none"]
  BY DEF Settles
<1>2. b \in Actions
  BY DEF IssueKinds, ExecutionRows
<1>3. /\ \A q \in Executors : q # p => executor'[q] = executor[q]
      /\ executor'[p].on = "none" /\ executor'[p].step = "idle" /\ executor' \in [Executors -> ExecutionRows]
  BY <1>1 DEF Nowhere, ExecutionRows, IssueKinds
<1>4. "none" \notin Actions /\ "none" \notin Comments /\ "none" \notin Labels /\ Comments \subseteq Actions
  BY IssueAssumption DEF IssueAssumption, Actions
<1> HIDE DEF b
<1>5. /\ action'[b].status = status /\ action'[b].lease = "none"
      /\ action'[b] \in ActionRows /\ \A a \in Actions : a # b => action'[a] = action[a]
      /\ action' \in [Actions -> ActionRows]
  <2>1. action'[b] = [action[b] EXCEPT !.status = status, !.lease = "none"] /\ action[b] \in ActionRows
    BY <1>1, <1>2 DEF IssueKinds
  <2>2. action'[b].status = status /\ action'[b].lease = "none" /\ action'[b] \in ActionRows
    BY <2>1 DEF ActionRows
  <2> QED BY <1>1, <1>2, <2>2 DEF IssueKinds
<1>6. IssueKinds'
  BY <1>1, <1>3, <1>5 DEF IssueKinds
<1>7. StepsFit'
  BY <1>1, <1>3, <1>4, <1>5 DEF StepsFit, b
<1>8. AloneFits'
  <2>1. ASSUME NEW q \in Executors, executor'[q].on # "none", executor'[q].alone PROVE FALSE
    <3>1. q # p /\ executor[q].on # "none" /\ executor[q].alone
      BY <1>3, <2>1
    <3> QED BY <3>1 DEF AloneFits
  <2> QED BY <2>1 DEF AloneFits
<1>9. ASSUME NEW a \in Comments PROVE OverlapsFit(a)'
  <2>1. /\ Cardinality(Executing(a)) \in Nat /\ Cardinality(Posting(a)) \in Nat
        /\ IsFiniteSet(Executing(a)) /\ IsFiniteSet(Posting(a))
        /\ posted[a] \in Nat /\ expired[a] \in Nat /\ interrupted[a] \in Nat
    BY ExecutionsFinite DEF IssueKinds
  <2>2. OverlapsFit(a) /\ Leased(a) \in {0, 1}
    BY LeasedKind
  <2>3. Leased(a)' \in {0, 1}
    BY DEF Leased
  <2>4. Cardinality(Posting(a)') <= Cardinality(Posting(a)) /\ Cardinality(Posting(a)') \in Nat
    <3>1. Posting(a)' \subseteq Posting(a)
      BY <1>3, <1>4 DEF Posting
    <3> QED BY <2>1, <3>1, FS_Subset, FS_CardinalityType
  <2>5. Cardinality(Executing(a)') <= expired[a] + interrupted[a] + Leased(a)'
    <3>1. CASE a = b
      <4>1. Executing(a)' = Executing(a) \ {p} /\ p \in Executing(a)
        BY <1>3, <1>4, <3>1 DEF Executing, b
      <4>2. Cardinality(Executing(a)') = Cardinality(Executing(a)) - 1
        BY <2>1, <4>1, FS_RemoveElement
      <4> QED BY <2>1, <2>2, <2>3, <4>2 DEF OverlapsFit
    <3>2. CASE a # b
      <4>1. Executing(a)' = Executing(a)
        BY <1>3, <1>4, <3>2 DEF Executing, b
      <4>2. Leased(a)' = Leased(a)
        BY <1>4, <1>5, <3>2 DEF Leased
      <4> QED BY <2>2, <4>1, <4>2 DEF OverlapsFit
    <3> QED BY <3>1, <3>2
  <2>6. posted[a] + Cardinality(Posting(a)') <= 1 + expired[a] + interrupted[a]
    BY <2>1, <2>2, <2>4 DEF OverlapsFit
  <2> QED BY <1>1, <2>5, <2>6 DEF OverlapsFit
<1> QED BY <1>6, <1>7, <1>8, <1>9

LEMMA IssueStep == IssueInv /\ [IssueNext]_issueVars => IssueInv'
<1> SUFFICES ASSUME IssueInv, [IssueNext]_issueVars PROVE IssueInv'
  OBVIOUS
<1>1. ASSUME NEW p \in Executors, SettleSuccess(p) PROVE IssueInv'
  <2>1. Settles(p, "succeeded") /\ executor[p].step \in {"done", "remove"}
    BY <1>1 DEF SettleSuccess
  <2>2. executor[p].on # "none" /\ (executor[p].on \in Comments => posted[executor[p].on] > 0)
    BY <2>1 DEF IssueInv, StepsFit
  <2> QED BY <2>1, <2>2, SettleFits
<1>2. ASSUME NEW p \in Executors, SettleActionFailure(p) PROVE IssueInv'
  BY <1>2, SettleFits DEF SettleActionFailure
<1>3. CASE UNCHANGED issueVars
  BY <1>3 DEF issueVars, IssueInv, IssueKinds, StepsFit, AloneFits, OverlapsFit, Executing, Posting, Leased
<1> QED BY <1>1, <1>2, <1>3, PolicyFits, StopFits, AdmitFits, LeaseFits, BlockFits, ClaimFits, FindFits,
           PostFits, AddFits, RemoveFits DEF IssueNext

LEMMA CommentsAccountedAlways == IssueSpec => []CommentsAreAccounted
<1>1. IssueInv => CommentsAreAccounted
  <2> SUFFICES ASSUME IssueInv PROVE CommentsAreAccounted
    OBVIOUS
  <2>1. IssueTypeOK
    BY DEF IssueInv, IssueKinds, IssueTypeOK, ActionRows, ExecutionRows
  <2>2. DuplicatesAreExplained
    <3>1. ASSUME NEW a \in Comments PROVE posted[a] <= 1 + expired[a] + interrupted[a]
      <4>1. OverlapsFit(a) /\ Cardinality(Posting(a)) \in Nat
            /\ posted[a] \in Nat /\ expired[a] \in Nat /\ interrupted[a] \in Nat
        BY ExecutionsFinite DEF IssueInv, IssueKinds
      <4> QED BY <4>1 DEF OverlapsFit
    <3> QED BY <3>1 DEF DuplicatesAreExplained
  <2>3. SucceededCommentExists
    BY DEF IssueInv, StepsFit, SucceededCommentExists
  <2> QED BY <2>1, <2>2, <2>3 DEF CommentsAreAccounted
<1> QED BY <1>1, IssueStarts, IssueStep, PTL DEF IssueSpec

LEMMA SuccessesStand == IssueSpec => LabelIsExclusive /\ SuccessStandsUnlessOvertaken
<1>1. ASSUME IssueInv, IssueNext, NEW p \in Executors, executor[p].on \in Labels, executor[p].alone,
             executor'[p].on = "none", action'[executor[p].on].status = "succeeded"
      PROVE  labels = {executor[p].on}
  <2> USE DEF IssueInv
  <2>1. /\ executor[p].on # "none" /\ executor[p].on \in Actions /\ executor[p].on \notin Comments
        /\ action[executor[p].on] \in ActionRows /\ executor[p].step \in {"add", "remove"}
        /\ executor[p] \in ExecutionRows
    BY <1>1, IssueAssumption DEF IssueAssumption, Actions, IssueKinds, StepsFit
  <2>2. action[executor[p].on].status # "succeeded" /\ \A q \in Executors : q # p => executor[q].step = "idle"
    BY <1>1, <2>1 DEF AloneFits, StepsFit
  <2>3. executor'[p].on # executor[p].on /\ action' # action
    BY <1>1, <2>1, <2>2
  <2>4. PICK q \in Executors : SettleSuccess(q) \/ SettleActionFailure(q)
    <3>1. ASSUME NEW a \in Actions, NEW q \in Executors, ClaimAction(q, a) PROVE FALSE
      <4>1. executor'[p].on = executor[p].on
        <5>1. q # p
          BY <2>1, <3>1 DEF ClaimAction
        <5>2. executor'[p] = [executor[p] EXCEPT !.alone = executor'[p].alone]
          BY <2>1, <3>1, <5>1 DEF ClaimAction, ExecutionRows
        <5> QED BY <2>1, <5>2 DEF ExecutionRows
      <4> QED BY <2>3, <4>1
    <3> QED BY <1>1, <2>3, <3>1 DEF IssueNext, PolicyFlips, ExecutorsStop, AdmitAction, LeaseEnds, BlockByPolicy,
                 FindComment, PostComment, AddLabel, RemoveLabel
  <2>5. q = p
    BY <1>1, <2>3, <2>4 DEF SettleSuccess, SettleActionFailure, Settles, IssueKinds
  <2>6. SettleSuccess(p)
    <3>1. SettleActionFailure(p) => action'[executor[p].on].status = "failed"
      <4> SUFFICES ASSUME SettleActionFailure(p) PROVE action'[executor[p].on].status = "failed"
        OBVIOUS
      <4>1. action'[executor[p].on] = [action[executor[p].on] EXCEPT !.status = "failed", !.lease = "none"]
        BY <1>1, <2>1 DEF SettleActionFailure, Settles, IssueKinds
      <4> QED BY <2>1, <4>1 DEF ActionRows
    <3> QED BY <1>1, <2>4, <2>5, <3>1
  <2>7. executor[p].step = "remove" /\ executor[p].rest = {}
    BY <2>1, <2>6 DEF SettleSuccess
  <2> QED BY <1>1, <2>1, <2>7 DEF AloneFits
<1>2. ASSUME IssueInv, IssueNext, NEW a \in Actions, action[a].status = "succeeded", action'[a].status # "succeeded"
      PROVE  \E p \in Executors : executor[p].on = a
  <2>1. action[a] \in ActionRows /\ action \in [Actions -> ActionRows]
    BY <1>2 DEF IssueInv, IssueKinds
  <2>2. ASSUME NEW p \in Executors, NEW s, Settles(p, s) PROVE executor[p].on = a
    BY <1>2, <2>1, <2>2 DEF Settles
  <2>3. ASSUME NEW b \in Actions, AdmitAction(b) \/ BlockByPolicy(b) \/ LeaseEnds(b) PROVE FALSE
    BY <1>2, <2>1, <2>3 DEF AdmitAction, BlockByPolicy, LeaseEnds, ActionRows
  <2>4. ASSUME NEW b \in Actions, NEW p \in Executors, ClaimAction(p, b) PROVE FALSE
    BY <1>2, <2>1, <2>4 DEF ClaimAction, Claimable
  <2> QED BY <1>2, <2>2, <2>3, <2>4 DEF IssueNext, PolicyFlips, ExecutorsStop, FindComment, PostComment, AddLabel,
                 RemoveLabel, SettleSuccess, SettleActionFailure
<1>3. IssueInv /\ [IssueNext]_issueVars =>
        /\ [\A p \in Executors :
              /\ executor[p].on \in Labels /\ executor[p].alone
              /\ executor'[p].on = "none" /\ action'[executor[p].on].status = "succeeded"
              => labels = {executor[p].on}]_issueVars
        /\ [\A a \in Actions : action[a].status = "succeeded" /\ action'[a].status # "succeeded" =>
              \E p \in Executors : executor[p].on = a]_issueVars
  BY <1>1, <1>2
<1> QED BY <1>3, IssueStarts, IssueStep, PTL DEF IssueSpec, LabelIsExclusive, SuccessStandsUnlessOvertaken

(***************************************************************************)
(* The credential file.                                                    *)
(***************************************************************************)
JobSteps == {"idle", "waiting", "refreshing", "writing", "done", "stalled", "dead"}
Copies == {<<>>} \cup [Providers -> Nat]
JobRows == [step : JobSteps, p : Providers \cup {"none"}, copy : Copies, new : Nat]

\* Tokens are those that were issued, jobs are of their kinds, and one process at most
\* takes the lock for its own.
CredentialKinds ==
  /\ issued \in Nat /\ usable \subseteq 1..issued /\ expiring \subseteq 1..issued
  /\ authFile \in [Providers -> Nat] /\ latest \in [Providers -> Nat]
  /\ \A p \in Providers : authFile[p] <= issued
  /\ mishap \in BOOLEAN /\ refused \in BOOLEAN
  /\ lock = {} \/ \E w \in Workers : lock = {w}
  /\ job \in [Workers -> JobRows]
  /\ \A w \in Workers :
       /\ job[w].new <= issued
       /\ job[w].step \in {"waiting", "refreshing", "stalled", "writing"} => job[w].p \in Providers
       /\ job[w].step \in {"refreshing", "stalled", "writing"} =>
            job[w].copy \in [Providers -> Nat] /\ \A p \in Providers : job[w].copy[p] <= issued

\* Short of a mishap, who is in its transaction has the lock.
HoldersLock ==
  \A w \in Workers : job[w].step \in {"refreshing", "stalled", "writing", "done"} => lock = {w}

\* Its copy is the file, and the file with the new token once there is one.
CopiesFit ==
  \A w \in Workers :
    /\ job[w].step \in {"refreshing", "stalled"} => job[w].copy = authFile /\ job[w].copy[job[w].p] # 0
    /\ job[w].step = "writing" =>
         job[w].new # 0 /\ job[w].copy = [authFile EXCEPT ![job[w].p] = job[w].new]

\* A job has a token that is not yet in the file.
Carries(w) == job[w].step \in {"waiting", "writing"} /\ job[w].new # 0

\* The file keeps no token twice, nor one that is still to be written; those are good.
TokensApart ==
  /\ \A p, q \in Providers : authFile[p] = authFile[q] /\ authFile[p] # 0 => p = q
  /\ \A w \in Workers : job[w].step \in {"waiting", "writing"} /\ job[w].new # 0 =>
       job[w].new \in usable /\ \A q \in Providers : authFile[q] # job[w].new
  /\ \A v, w \in Workers : Carries(v) /\ Carries(w) /\ job[v].new = job[w].new => v = w

\* What FileIsCurrent says without a mishap.
TokensGood ==
  \A p \in Providers :
    /\ authFile[p] = latest[p]
    /\ authFile[p] \in usable \cup {0} \/ \E w \in Workers : job[w].step = "writing" /\ job[w].p = p

CredentialsFit == HoldersLock /\ CopiesFit /\ TokensApart /\ TokensGood /\ ~refused

CredentialInv == CredentialKinds /\ (~mishap => CredentialsFit)

LEMMA CredentialStarts == CredentialInit => CredentialInv
<1> SUFFICES ASSUME CredentialInit PROVE CredentialInv
  OBVIOUS
<1>1. Idle.step = "idle" /\ Idle.new = 0 /\ Idle \in JobRows
  BY DEF Idle, JobRows, JobSteps, Copies
<1>2. \A w \in Workers : job[w] = Idle
  BY DEF CredentialInit
<1>3. CredentialKinds
  <2>1. /\ issued = 0 /\ usable = {} /\ expiring = {} /\ lock = {} /\ mishap = FALSE /\ refused = FALSE
        /\ \A p \in Providers : authFile[p] = 0
        /\ authFile \in [Providers -> Nat] /\ latest \in [Providers -> Nat]
    BY DEF CredentialInit
  <2>2. job \in [Workers -> JobRows]
    BY <1>1 DEF CredentialInit
  <2>3. \A w \in Workers : job[w].step = "idle" /\ job[w].new = 0
    BY <1>1, <1>2
  <2>4. \A p \in Providers : authFile[p] <= issued
    BY <2>1
  <2>5. \A w \in Workers :
          /\ job[w].new <= issued
          /\ job[w].step \in {"waiting", "refreshing", "stalled", "writing"} => job[w].p \in Providers
          /\ job[w].step \in {"refreshing", "stalled", "writing"} =>
               job[w].copy \in [Providers -> Nat] /\ \A p \in Providers : job[w].copy[p] <= issued
    BY <2>1, <2>3
  <2>6. issued \in Nat /\ usable \subseteq 1..issued /\ expiring \subseteq 1..issued
        /\ mishap \in BOOLEAN /\ refused \in BOOLEAN
    BY <2>1
  <2> QED BY <2>1, <2>2, <2>4, <2>5, <2>6 DEF CredentialKinds
<1>4. CredentialsFit
  BY <1>1, <1>2 DEF CredentialInit, CredentialsFit, HoldersLock, CopiesFit, TokensApart, Carries, TokensGood
<1> QED BY <1>3, <1>4 DEF CredentialInv

LEMMA DoneRow == Done.step = "done" /\ Done.new = 0 /\ Done \in JobRows
BY DEF Done, Idle, JobRows, JobSteps, Copies

\* A job changes to one that is no longer in the middle of anything.
LEMMA JobEnds ==
  ASSUME CredentialInv, NEW w \in Workers, NEW row \in JobRows, row.new = 0,
         row.step \in {"idle", "done", "dead"}, job' = [job EXCEPT ![w] = row],
         UNCHANGED <<authFile, expiring, issued, usable, latest>>,
         mishap' \in BOOLEAN, mishap => mishap', job[w].step = "writing" => mishap',
         refused' \in BOOLEAN, ~mishap' => refused' = refused,
         lock' = {} \/ lock' = lock,
         ~mishap' => (row.step = "done" => lock' = {w}),
         ~mishap' => \A v \in Workers : v # w /\ lock = {v} => lock' = {v}
  PROVE  CredentialInv'
<1>1. /\ \A v \in Workers : v # w => job'[v] = job[v]
      /\ job'[w] = row
      /\ job' \in [Workers -> JobRows]
  BY DEF CredentialInv, CredentialKinds
<1>2. CredentialKinds'
  BY <1>1 DEF CredentialInv, CredentialKinds
<1>3. ASSUME ~mishap' PROVE CredentialsFit'
  <2>1. CredentialsFit /\ ~refused'
    BY <1>3 DEF CredentialInv, CredentialsFit
  <2>2. HoldersLock'
    BY <1>1, <1>3, <2>1 DEF CredentialsFit, HoldersLock
  <2>3. CopiesFit'
    BY <1>1, <2>1 DEF CredentialsFit, CopiesFit
  <2>4. TokensApart'
    BY <1>1, <2>1 DEF CredentialsFit, TokensApart, Carries
  <2>5. TokensGood'
    BY <1>1, <1>3, <2>1 DEF CredentialsFit, TokensGood
  <2> QED BY <2>1, <2>2, <2>3, <2>4, <2>5 DEF CredentialsFit
<1> QED BY <1>2, <1>3 DEF CredentialInv

LEMMA ProviderFailsFits == ASSUME CredentialInv, NEW w \in Workers, ProviderFails(w) PROVE CredentialInv'
<1>1. /\ job[w].step = "refreshing" /\ job' = [job EXCEPT ![w] = Done]
      /\ UNCHANGED <<authFile, expiring, lock, issued, usable, latest, refused, mishap>>
  BY DEF ProviderFails
<1>2. mishap' \in BOOLEAN /\ refused' \in BOOLEAN /\ (~mishap => lock = {w})
  BY <1>1 DEF CredentialInv, CredentialKinds, CredentialsFit, HoldersLock
<1> QED BY <1>1, <1>2, DoneRow, JobEnds

LEMMA ReleaseFits == ASSUME CredentialInv, NEW w \in Workers, Release(w) PROVE CredentialInv'
<1>1. /\ job[w].step = "done" /\ job' = [job EXCEPT ![w] = Idle] /\ lock' = lock \ {w}
      /\ UNCHANGED <<authFile, expiring, issued, usable, latest, refused, mishap>>
  BY DEF Release
<1>2. mishap' \in BOOLEAN /\ refused' \in BOOLEAN /\ (lock' = {} \/ lock' = lock)
  BY <1>1 DEF CredentialInv, CredentialKinds
<1>3. Idle \in JobRows /\ Idle.new = 0 /\ Idle.step = "idle"
  BY DEF Idle, JobRows, JobSteps, Copies
<1> QED BY <1>1, <1>2, <1>3, JobEnds

LEMMA DieFits == ASSUME CredentialInv, NEW w \in Workers, Die(w) PROVE CredentialInv'
<1> DEFINE row == [Idle EXCEPT !.step = "dead"]
<1>1. /\ mishap' = (mishap \/ job[w].step = "writing") /\ job' = [job EXCEPT ![w] = row]
      /\ UNCHANGED <<authFile, expiring, lock, issued, usable, latest, refused>>
  BY DEF Die
<1>2. mishap' \in BOOLEAN /\ refused' \in BOOLEAN
  BY <1>1 DEF CredentialInv, CredentialKinds
<1>3. row \in JobRows /\ row.new = 0 /\ row.step = "dead"
  BY DEF Idle, JobRows, JobSteps, Copies
<1> HIDE DEF row
<1> QED BY <1>1, <1>2, <1>3, JobEnds

\* A job begins to wait, with or without a new token.
LEMMA JobWaits ==
  ASSUME CredentialInv, NEW w \in Workers, NEW p \in Providers, NEW n \in Nat, NEW row \in JobRows,
         row.step = "waiting", job[w].step = "idle", row.p = p, row.new = n, job' = [job EXCEPT ![w] = row],
         UNCHANGED <<authFile, expiring, lock, latest, refused, mishap>>,
         \/ n = 0 /\ UNCHANGED <<issued, usable>>
         \/ n = issued + 1 /\ issued' = issued + 1 /\ usable' = usable \cup {n}
  PROVE  CredentialInv'
<1>0. row.step = "waiting" /\ row.p = p /\ row.new = n /\ row \in JobRows
  OBVIOUS
<1>1. /\ \A v \in Workers : v # w => job'[v] = job[v]
      /\ job'[w] = row
      /\ job' \in [Workers -> JobRows]
  BY <1>0 DEF CredentialInv, CredentialKinds
<1>2. /\ issued \in Nat /\ issued' \in Nat /\ issued <= issued' /\ usable \subseteq usable' /\ n <= issued'
      /\ usable' \subseteq usable \cup {n} /\ usable' \subseteq 1..issued' /\ expiring' \subseteq 1..issued'
      /\ n # 0 => n \in usable' /\ n = issued + 1
  <2>1. issued \in Nat /\ usable \subseteq 1..issued /\ expiring \subseteq 1..issued
    BY DEF CredentialInv, CredentialKinds
  <2>2. CASE n = 0 /\ UNCHANGED <<issued, usable>>
    BY <2>1, <2>2
  <2>3. CASE n = issued + 1 /\ issued' = issued + 1 /\ usable' = usable \cup {n}
    BY <2>1, <2>3
  <2> QED BY <2>2, <2>3
<1>3. \A v \in Workers : job[v].new \in Nat /\ job[v].copy \in Copies
  BY DEF CredentialInv, CredentialKinds, JobRows
<1>4. \A q \in Providers : authFile[q] \in Nat /\ authFile[q] <= issued
  BY DEF CredentialInv, CredentialKinds
<1>5. CredentialKinds'
  <2>1. \A v \in Workers :
          /\ job'[v].new <= issued'
          /\ job'[v].step \in {"waiting", "refreshing", "stalled", "writing"} => job'[v].p \in Providers
          /\ job'[v].step \in {"refreshing", "stalled", "writing"} =>
               job'[v].copy \in [Providers -> Nat] /\ \A q \in Providers : job'[v].copy[q] <= issued'
    <3>1. ASSUME NEW v \in Workers, v # w
          PROVE  /\ job[v].new <= issued'
                 /\ job[v].step \in {"waiting", "refreshing", "stalled", "writing"} => job[v].p \in Providers
                 /\ job[v].step \in {"refreshing", "stalled", "writing"} =>
                      job[v].copy \in [Providers -> Nat] /\ \A q \in Providers : job[v].copy[q] <= issued'
      <4>1. /\ job[v].new <= issued
            /\ job[v].step \in {"waiting", "refreshing", "stalled", "writing"} => job[v].p \in Providers
            /\ job[v].step \in {"refreshing", "stalled", "writing"} =>
                 job[v].copy \in [Providers -> Nat] /\ \A q \in Providers : job[v].copy[q] <= issued
        BY DEF CredentialInv, CredentialKinds
      <4> QED BY <1>2, <1>3, <4>1
    <3>2. job'[w].new <= issued' /\ job'[w].p \in Providers /\ job'[w].step = "waiting"
      BY <1>0, <1>1, <1>2
    <3> QED BY <1>1, <3>1, <3>2
  <2>2. \A q \in Providers : authFile'[q] <= issued'
    BY <1>2, <1>4
  <2> QED BY <1>1, <1>2, <2>1, <2>2 DEF CredentialInv, CredentialKinds
<1>6. ASSUME ~mishap PROVE CredentialsFit'
  <2>1. CredentialsFit
    BY <1>6 DEF CredentialInv
  <2>2. HoldersLock'
    BY <1>0, <1>1, <2>1 DEF CredentialsFit, HoldersLock
  <2>3. CopiesFit'
    BY <1>0, <1>1, <2>1 DEF CredentialsFit, CopiesFit
  <2>4. TokensApart'
    <3>1. n # 0 => \A q \in Providers : authFile[q] # n
      BY <1>2, <1>4
    <3>2. \A v \in Workers : job[v].new # issued + 1
      BY DEF CredentialInv, CredentialKinds, JobRows
    <3>3. \A v \in Workers : v # w => (Carries(v)' <=> Carries(v)) /\ job'[v].new = job[v].new
      BY <1>1 DEF Carries
    <3>4. \A u, v \in Workers : Carries(u)' /\ Carries(v)' /\ job'[u].new = job'[v].new => u = v
      <4>1. \A u, v \in Workers : Carries(u) /\ Carries(v) /\ job[u].new = job[v].new => u = v
        BY <2>1 DEF CredentialsFit, TokensApart
      <4>2. Carries(w)' => job'[w].new = issued + 1
        BY <1>0, <1>1, <1>2 DEF Carries
      <4> QED BY <3>2, <3>3, <4>1, <4>2
    <3>5. \A v \in Workers : Carries(v)' =>
            job'[v].new \in usable' /\ \A q \in Providers : authFile[q] # job'[v].new
      <4>1. \A v \in Workers : Carries(v) => job[v].new \in usable /\ \A q \in Providers : authFile[q] # job[v].new
        BY <2>1 DEF CredentialsFit, TokensApart, Carries
      <4>2. Carries(w)' => n # 0 /\ job'[w].new = n
        BY <1>0, <1>1 DEF Carries
      <4> QED BY <1>2, <3>1, <3>3, <4>1, <4>2
    <3> QED BY <2>1, <3>4, <3>5 DEF CredentialsFit, TokensApart, Carries
  <2>5. TokensGood'
    <3> SUFFICES ASSUME NEW q \in Providers
                 PROVE  /\ authFile[q] = latest[q]
                        /\ authFile[q] \in usable' \cup {0}
                             \/ \E v \in Workers : job'[v].step = "writing" /\ job'[v].p = q
      BY DEF TokensGood
    <3>1. authFile[q] = latest[q] /\ (authFile[q] \in usable \cup {0} \/ \E v \in Workers : job[v].step = "writing" /\ job[v].p = q)
      BY <2>1 DEF CredentialsFit, TokensGood
    <3>2. \A v \in Workers : job[v].step = "writing" => job'[v] = job[v]
      BY <1>1
    <3> QED BY <1>2, <3>1, <3>2
  <2> QED BY <2>1, <2>2, <2>3, <2>4, <2>5 DEF CredentialsFit
<1> QED BY <1>5, <1>6 DEF CredentialInv

LEMMA LogInFits == ASSUME CredentialInv, NEW w \in Workers, NEW p \in Providers, LogIn(w, p) PROVE CredentialInv'
<1> DEFINE row == [Idle EXCEPT !.step = "waiting", !.p = p, !.new = issued']
<1>1. issued' = issued + 1 /\ issued + 1 \in Nat
  BY DEF CredentialInv, CredentialKinds, LogIn, Issue
<1>2. row \in JobRows /\ row.step = "waiting" /\ row.p = p /\ row.new = issued + 1
  BY <1>1 DEF Idle, JobRows, JobSteps, Copies
<1>3. /\ job' = [job EXCEPT ![w] = row] /\ usable' = usable \cup {issued + 1}
      /\ UNCHANGED <<authFile, expiring, lock, latest, refused, mishap>>
  BY <1>1 DEF LogIn
<1>4. job[w].step = "idle"
  BY DEF LogIn
<1> HIDE DEF row
<1> QED BY <1>1, <1>2, <1>3, <1>4, JobWaits

LEMMA NeedFits == ASSUME CredentialInv, NEW w \in Workers, NEW p \in Providers, NeedCredential(w, p)
                  PROVE  CredentialInv'
<1> DEFINE row == [Idle EXCEPT !.step = "waiting", !.p = p]
<1>1. row \in JobRows /\ row.step = "waiting" /\ row.p = p /\ row.new = 0
  BY DEF Idle, JobRows, JobSteps, Copies
<1>2. /\ job' = [job EXCEPT ![w] = row]
      /\ UNCHANGED <<authFile, expiring, lock, latest, refused, mishap>> /\ UNCHANGED <<issued, usable>>
  BY DEF NeedCredential
<1>3. job[w].step = "idle" /\ 0 \in Nat
  BY DEF NeedCredential
<1> HIDE DEF row
<1> QED BY <1>1, <1>2, <1>3, JobWaits

LEMMA ExpiresFits == ASSUME CredentialInv, AccessExpires PROVE CredentialInv'
<1>1. PICK p \in Providers : authFile[p] # 0 /\ expiring' = expiring \cup {authFile[p]}
  BY DEF AccessExpires
<1>2. UNCHANGED <<authFile, lock, job, issued, usable, latest, refused, mishap>>
  BY DEF AccessExpires
<1>3. expiring' \subseteq 1..issued'
  <2>1. issued \in Nat /\ authFile[p] \in Nat /\ authFile[p] <= issued /\ expiring \subseteq 1..issued
    BY DEF CredentialInv, CredentialKinds
  <2>2. \A t \in expiring' : t \in 1..issued
    BY <1>1, <2>1
  <2> QED BY <1>2, <2>2
<1>4. CredentialKinds'
  BY <1>2, <1>3 DEF CredentialInv, CredentialKinds
<1>5. CredentialsFit => CredentialsFit'
  BY <1>2 DEF CredentialsFit, HoldersLock, CopiesFit, TokensApart, Carries, TokensGood
<1> QED BY <1>2, <1>4, <1>5 DEF CredentialInv

LEMMA StallFits == ASSUME CredentialInv, NEW w \in Workers, Stall(w) PROVE CredentialInv'
<1>1. UNCHANGED <<authFile, expiring, lock, issued, usable, latest, refused, mishap>>
  BY DEF Stall
<1>2. PICK s \in {"refreshing", "stalled"} :
        /\ job[w].step \in {"refreshing", "stalled"} /\ job' = [job EXCEPT ![w].step = s]
  BY DEF Stall
<1>3. job[w] \in JobRows /\ job' = [job EXCEPT ![w] = [job[w] EXCEPT !.step = s]]
  BY <1>2 DEF CredentialInv, CredentialKinds
<1>4. /\ \A v \in Workers : v # w => job'[v] = job[v]
      /\ job'[w].step = s /\ job'[w].p = job[w].p /\ job'[w].copy = job[w].copy /\ job'[w].new = job[w].new
      /\ job' \in [Workers -> JobRows]
  BY <1>3 DEF CredentialInv, CredentialKinds, JobRows, JobSteps
<1>5. CredentialKinds'
  BY <1>1, <1>2, <1>4 DEF CredentialInv, CredentialKinds
<1>6. ASSUME CredentialsFit PROVE CredentialsFit'
  <2>1. HoldersLock'
    BY <1>1, <1>2, <1>4, <1>6 DEF CredentialsFit, HoldersLock
  <2>2. CopiesFit'
    BY <1>1, <1>2, <1>4, <1>6 DEF CredentialsFit, CopiesFit
  <2>3. TokensApart'
    BY <1>1, <1>2, <1>4, <1>6 DEF CredentialsFit, TokensApart, Carries
  <2>4. TokensGood'
    BY <1>1, <1>2, <1>4, <1>6 DEF CredentialsFit, TokensGood
  <2> QED BY <1>1, <1>6, <2>1, <2>2, <2>3, <2>4 DEF CredentialsFit
<1> QED BY <1>1, <1>5, <1>6 DEF CredentialInv

LEMMA ReadFits == ASSUME CredentialInv, NEW w \in Workers, ReadFile(w) PROVE CredentialInv'
<1> DEFINE p == job[w].p
           newest == job[w].new
           read == [authFile EXCEPT ![p] = IF newest # 0 THEN newest ELSE @]
<1>1. /\ job[w].step = "waiting" /\ p \in Providers /\ newest \in Nat /\ newest <= issued
      /\ job[w] \in JobRows
  BY DEF ReadFile, CredentialInv, CredentialKinds, JobRows
<1>2. /\ lock \subseteq {v \in Workers : job[v].step \in {"stalled", "dead"}} /\ lock' = {w}
      /\ mishap' = (mishap \/ \E v \in lock : job[v].step = "stalled")
      /\ UNCHANGED <<authFile, expiring, issued, usable, latest, refused>>
  BY DEF ReadFile, Locked
<1>3. PICK step \in {"writing", "refreshing", "done"} :
        /\ step = "writing" <=> newest # 0
        /\ step = "refreshing" => authFile[p] \in expiring
        /\ job' = [job EXCEPT ![w] = IF step = "done" THEN Done ELSE [@ EXCEPT !.step = step, !.copy = read]]
  BY DEF ReadFile
<1>4. \A v \in Workers : v # w => job'[v] = job[v]
  BY <1>3 DEF CredentialInv, CredentialKinds
<1>5. /\ read \in [Providers -> Nat] /\ \A q \in Providers : read[q] <= issued
      /\ newest # 0 => read = [authFile EXCEPT ![p] = newest]
      /\ newest = 0 => read = authFile
  BY <1>1 DEF CredentialInv, CredentialKinds
<1> HIDE DEF read
<1>6. /\ job'[w] \in JobRows /\ job'[w].step = step
      /\ step # "done" => job'[w].copy = read /\ job'[w].p = p /\ job'[w].new = newest
      /\ step = "done" => job'[w].new = 0
  <2>1. CASE step = "done"
    BY <1>3, <2>1, DoneRow DEF CredentialInv, CredentialKinds
  <2>2. CASE step # "done"
    <3>1. job'[w] = [job[w] EXCEPT !.step = step, !.copy = read]
      BY <1>3, <2>2 DEF CredentialInv, CredentialKinds
    <3>2. step \in JobSteps /\ read \in Copies
      BY <1>5 DEF JobSteps, Copies
    <3> QED BY <1>1, <2>2, <3>1, <3>2 DEF JobRows
  <2> QED BY <2>1, <2>2
<1>7. job' \in [Workers -> JobRows]
  BY <1>3, <1>4, <1>6 DEF CredentialInv, CredentialKinds
<1> HIDE DEF p, newest
<1>8. CredentialKinds'
  <2>1. \A v \in Workers :
          /\ job'[v].new <= issued'
          /\ job'[v].step \in {"waiting", "refreshing", "stalled", "writing"} => job'[v].p \in Providers
          /\ job'[v].step \in {"refreshing", "stalled", "writing"} =>
               job'[v].copy \in [Providers -> Nat] /\ \A q \in Providers : job'[v].copy[q] <= issued'
    <3>1. ASSUME NEW v \in Workers, v # w
          PROVE  /\ job'[v].new <= issued'
                 /\ job'[v].step \in {"waiting", "refreshing", "stalled", "writing"} => job'[v].p \in Providers
                 /\ job'[v].step \in {"refreshing", "stalled", "writing"} =>
                      job'[v].copy \in [Providers -> Nat] /\ \A q \in Providers : job'[v].copy[q] <= issued'
      BY <1>2, <1>4, <3>1 DEF CredentialInv, CredentialKinds
    <3>2. 0 <= issued
      BY DEF CredentialInv, CredentialKinds
    <3>3. /\ job'[w].new <= issued' /\ (step # "done" => job'[w].p \in Providers)
          /\ step # "done" => job'[w].copy \in [Providers -> Nat] /\ \A q \in Providers : job'[w].copy[q] <= issued'
      BY <1>1, <1>2, <1>5, <1>6, <3>2
    <3> QED BY <1>6, <3>1, <3>3
  <2>2. mishap' \in BOOLEAN /\ lock' = {w}
    BY <1>2
  <2> QED BY <1>2, <1>7, <2>1, <2>2 DEF CredentialInv, CredentialKinds
<1>9. ASSUME ~mishap' PROVE CredentialsFit'
  <2>1. CredentialsFit /\ ~\E v \in lock : job[v].step = "stalled"
    BY <1>2, <1>9 DEF CredentialInv
  <2>2. \A v \in Workers : v # w => job[v].step \notin {"refreshing", "stalled", "writing", "done"}
    BY <1>2, <2>1 DEF CredentialsFit, HoldersLock
  <2>3. HoldersLock'
    BY <1>2, <1>4, <2>2 DEF HoldersLock
  <2>4. CopiesFit'
    <3>1. step = "refreshing" => read = authFile /\ read[p] # 0
      <4>1. expiring \subseteq 1..issued /\ issued \in Nat
        BY DEF CredentialInv, CredentialKinds
      <4> QED BY <1>3, <1>5, <4>1
    <3>2. step = "writing" => newest # 0 /\ read = [authFile EXCEPT ![p] = newest]
      BY <1>3, <1>5
    <3> QED BY <1>2, <1>4, <1>6, <2>2, <3>1, <3>2 DEF CopiesFit
  <2>5. TokensApart'
    <3>1. /\ \A a, q \in Providers : authFile[a] = authFile[q] /\ authFile[a] # 0 => a = q
          /\ \A v \in Workers : Carries(v) =>
               job[v].new \in usable /\ \A q \in Providers : authFile[q] # job[v].new
          /\ \A u, v \in Workers : Carries(u) /\ Carries(v) /\ job[u].new = job[v].new => u = v
      BY <2>1 DEF CredentialsFit, TokensApart, Carries
    <3>2. \A v \in Workers : Carries(v)' => Carries(v) /\ job'[v].new = job[v].new
      BY <1>1, <1>4, <1>6 DEF newest, Carries
    <3> QED BY <1>2, <3>1, <3>2 DEF TokensApart, Carries
  <2>6. TokensGood'
    BY <1>1, <1>2, <1>4, <2>1, <2>2 DEF CredentialsFit, TokensGood
  <2> QED BY <1>2, <2>1, <2>3, <2>4, <2>5, <2>6 DEF CredentialsFit
<1> QED BY <1>8, <1>9 DEF CredentialInv

LEMMA RefreshedFits == ASSUME CredentialInv, NEW w \in Workers, Refresh(w) PROVE CredentialInv'
<1> DEFINE p == job[w].p
           own == job[w].copy[p]
<1>1. /\ job[w].step = "refreshing" /\ p \in Providers /\ job[w] \in JobRows
      /\ job[w].copy \in [Providers -> Nat] /\ \A q \in Providers : job[w].copy[q] <= issued
      /\ UNCHANGED <<authFile, expiring, lock, latest, mishap>>
  BY DEF Refresh, CredentialInv, CredentialKinds
<1>2. ~mishap => /\ CredentialsFit /\ lock = {w} /\ job[w].copy = authFile /\ own # 0
                 /\ own \in usable
                 /\ \A v \in Workers : v # w => job[v].step \notin {"refreshing", "stalled", "writing", "done"}
  <2> SUFFICES ASSUME ~mishap
               PROVE  /\ CredentialsFit /\ lock = {w} /\ job[w].copy = authFile /\ own # 0
                      /\ own \in usable
                      /\ \A v \in Workers : v # w => job[v].step \notin {"refreshing", "stalled", "writing", "done"}
    OBVIOUS
  <2>1. CredentialsFit
    BY DEF CredentialInv
  <2>2. lock = {w} /\ job[w].copy = authFile /\ own # 0
    BY <1>1, <2>1 DEF CredentialsFit, HoldersLock, CopiesFit
  <2>3. \A v \in Workers : v # w => job[v].step \notin {"refreshing", "stalled", "writing", "done"}
    BY <2>1, <2>2 DEF CredentialsFit, HoldersLock
  <2>4. own \in usable
    BY <1>1, <2>1, <2>2, <2>3 DEF CredentialsFit, TokensGood
  <2> QED BY <2>1, <2>2, <2>3, <2>4
<1>3. CASE own \notin usable
  <2>1. refused' = TRUE /\ job' = [job EXCEPT ![w] = Done] /\ UNCHANGED <<issued, usable>> /\ mishap
    BY <1>2, <1>3 DEF Refresh, CredentialInv, CredentialKinds
  <2>2. mishap' = TRUE /\ mishap' \in BOOLEAN
    BY <1>1, <2>1 DEF CredentialInv, CredentialKinds
  <2> QED BY <1>1, <2>1, <2>2, DoneRow, JobEnds
<1>4. CASE own \in usable
  <2>1. /\ issued' = issued + 1 /\ usable' = (usable \ {own}) \cup {issued'} /\ UNCHANGED refused
        /\ job' = [job EXCEPT ![w].step = "writing", ![w].new = issued', ![w].copy[job[w].p] = issued']
    BY <1>4 DEF Refresh, Issue
  <2>2. issued \in Nat /\ issued' \in Nat /\ issued < issued' /\ issued' # 0
    BY <2>1 DEF CredentialInv, CredentialKinds
  <2> DEFINE copy == [job[w].copy EXCEPT ![p] = issued']
  <2>3. copy \in [Providers -> Nat] /\ \A q \in Providers : copy[q] <= issued'
    BY <1>1, <2>2
  <2>4. job'[w] = [job[w] EXCEPT !.step = "writing", !.new = issued', !.copy = copy]
    BY <2>1 DEF CredentialInv, CredentialKinds
  <2>5. \A v \in Workers : v # w => job'[v] = job[v]
    BY <2>1 DEF CredentialInv, CredentialKinds
  <2> HIDE DEF copy
  <2>6. /\ job'[w].step = "writing" /\ job'[w].new = issued' /\ job'[w].copy = copy /\ job'[w].p = p
        /\ job'[w] \in JobRows
    <3>1. "writing" \in JobSteps /\ copy \in Copies
      BY <2>3 DEF JobSteps, Copies
    <3> QED BY <1>1, <2>2, <2>4, <3>1 DEF JobRows
  <2>7. job' \in [Workers -> JobRows]
    BY <2>1, <2>5, <2>6 DEF CredentialInv, CredentialKinds
  <2> HIDE DEF p, own
  <2>8. CredentialKinds'
    <3>1. \A v \in Workers :
            /\ job'[v].new <= issued'
            /\ job'[v].step \in {"waiting", "refreshing", "stalled", "writing"} => job'[v].p \in Providers
            /\ job'[v].step \in {"refreshing", "stalled", "writing"} =>
                 job'[v].copy \in [Providers -> Nat] /\ \A q \in Providers : job'[v].copy[q] <= issued'
      <4>1. ASSUME NEW v \in Workers, v # w
            PROVE  /\ job[v].new <= issued'
                   /\ job[v].step \in {"waiting", "refreshing", "stalled", "writing"} => job[v].p \in Providers
                   /\ job[v].step \in {"refreshing", "stalled", "writing"} =>
                        job[v].copy \in [Providers -> Nat] /\ \A q \in Providers : job[v].copy[q] <= issued'
        <5>1. /\ job[v].new <= issued /\ job[v].new \in Nat
              /\ job[v].step \in {"waiting", "refreshing", "stalled", "writing"} => job[v].p \in Providers
              /\ job[v].step \in {"refreshing", "stalled", "writing"} =>
                   job[v].copy \in [Providers -> Nat] /\ \A q \in Providers : job[v].copy[q] <= issued
          BY DEF CredentialInv, CredentialKinds, JobRows
        <5> QED BY <2>2, <5>1
      <4>2. /\ job'[w].new <= issued' /\ job'[w].p \in Providers
            /\ job'[w].copy \in [Providers -> Nat] /\ \A q \in Providers : job'[w].copy[q] <= issued'
        BY <1>1, <2>2, <2>3, <2>6
      <4> QED BY <2>5, <4>1, <4>2
    <3>2. \A q \in Providers : authFile'[q] <= issued'
      BY <1>1, <2>2 DEF CredentialInv, CredentialKinds
    <3>3. usable' \subseteq 1..issued' /\ expiring' \subseteq 1..issued'
      <4>1. usable \subseteq 1..issued /\ expiring \subseteq 1..issued
        BY DEF CredentialInv, CredentialKinds
      <4> QED BY <1>1, <2>1, <2>2, <4>1
    <3> QED BY <1>1, <2>1, <2>2, <2>7, <3>1, <3>2, <3>3 DEF CredentialInv, CredentialKinds
  <2>9. ASSUME ~mishap' PROVE CredentialsFit'
    <3>1. /\ CredentialsFit /\ lock = {w} /\ job[w].copy = authFile /\ own # 0 /\ own = authFile[p]
          /\ \A v \in Workers : v # w => job[v].step \notin {"refreshing", "stalled", "writing", "done"}
      BY <1>1, <1>2, <2>9 DEF own, p
    <3>2. HoldersLock'
      BY <1>1, <2>5, <3>1 DEF HoldersLock
    <3>3. CopiesFit'
      <4>1. copy = [authFile EXCEPT ![p] = issued']
        BY <3>1 DEF copy
      <4> QED BY <1>1, <2>2, <2>5, <2>6, <3>1, <4>1 DEF CopiesFit
    <3>4. TokensApart'
      <4>1. /\ \A a, q \in Providers : authFile[a] = authFile[q] /\ authFile[a] # 0 => a = q
            /\ \A v \in Workers : Carries(v) =>
                 job[v].new \in usable /\ \A q \in Providers : authFile[q] # job[v].new
            /\ \A u, v \in Workers : Carries(u) /\ Carries(v) /\ job[u].new = job[v].new => u = v
        BY <3>1 DEF CredentialsFit, TokensApart, Carries
      <4>2. \A v \in Workers : Carries(v) => job[v].new \in usable'
        BY <1>1, <2>1, <3>1, <4>1
      <4>3. /\ \A q \in Providers : authFile[q] # issued'
            /\ \A v \in Workers : job[v].new # issued'
        BY <2>1, <2>2 DEF CredentialInv, CredentialKinds, JobRows
      <4>4. \A v \in Workers : v # w => (Carries(v)' <=> Carries(v)) /\ job'[v].new = job[v].new
        BY <2>5 DEF Carries
      <4>5. \A u, v \in Workers : Carries(u)' /\ Carries(v)' /\ job'[u].new = job'[v].new => u = v
        BY <2>6, <4>1, <4>3, <4>4
      <4>6. \A v \in Workers : Carries(v)' =>
              job'[v].new \in usable' /\ \A q \in Providers : authFile[q] # job'[v].new
        <5>1. issued' \in usable' /\ job'[w].new = issued'
          BY <2>1, <2>6
        <5>2. ASSUME NEW v \in Workers, v # w, Carries(v)'
              PROVE  job'[v].new \in usable' /\ \A q \in Providers : authFile[q] # job'[v].new
          BY <4>1, <4>2, <4>4, <5>2
        <5> QED BY <4>3, <5>1, <5>2
      <4> QED BY <1>1, <4>1, <4>5, <4>6 DEF TokensApart, Carries
    <3>5. TokensGood'
      <4> SUFFICES ASSUME NEW q \in Providers
                   PROVE  /\ authFile[q] = latest[q]
                          /\ authFile[q] \in usable' \cup {0}
                               \/ \E v \in Workers : job'[v].step = "writing" /\ job'[v].p = q
        BY <1>1 DEF TokensGood
      <4>1. /\ authFile[q] = latest[q]
            /\ authFile[q] \in usable \cup {0} \/ \E v \in Workers : job[v].step = "writing" /\ job[v].p = q
        BY <3>1 DEF CredentialsFit, TokensGood
      <4>2. CASE q = p
        BY <2>6, <4>1, <4>2
      <4>3. CASE q # p
        <5>1. authFile[q] \in usable \cup {0}
          BY <1>1, <3>1, <4>1
        <5>2. authFile[q] # own
          BY <1>1, <3>1, <4>3 DEF CredentialsFit, TokensApart, Carries
        <5> QED BY <2>1, <4>1, <5>1, <5>2
      <4> QED BY <4>2, <4>3
    <3> QED BY <2>1, <3>1, <3>2, <3>3, <3>4, <3>5 DEF CredentialsFit
  <2> QED BY <2>8, <2>9 DEF CredentialInv
<1> QED BY <1>3, <1>4

LEMMA WriteFits == ASSUME CredentialInv, NEW w \in Workers, WriteFile(w) PROVE CredentialInv'
<1> DEFINE p == job[w].p
           newest == job[w].new
<1>1. /\ job[w].step = "writing" /\ p \in Providers /\ job[w] \in JobRows /\ newest \in Nat
      /\ job[w].copy \in [Providers -> Nat] /\ \A q \in Providers : job[w].copy[q] <= issued
      /\ authFile' = job[w].copy /\ job' = [job EXCEPT ![w] = Done]
      /\ latest' = [latest EXCEPT ![p] = newest]
      /\ UNCHANGED <<expiring, lock, issued, usable, refused, mishap>>
  BY DEF WriteFile, CredentialInv, CredentialKinds, JobRows
<1>2. /\ \A v \in Workers : v # w => job'[v] = job[v]
      /\ job'[w].step = "done" /\ job'[w].new = 0 /\ job' \in [Workers -> JobRows]
  BY <1>1, DoneRow DEF CredentialInv, CredentialKinds
<1>3. CredentialKinds'
  <2>1. latest' \in [Providers -> Nat] /\ 0 <= issued
    BY <1>1 DEF CredentialInv, CredentialKinds
  <2> QED BY <1>1, <1>2, <2>1 DEF CredentialInv, CredentialKinds
<1>4. ASSUME ~mishap' PROVE CredentialsFit'
  <2>1. CredentialsFit /\ lock = {w}
    BY <1>1, <1>4 DEF CredentialInv, CredentialsFit, HoldersLock
  <2>2. \A v \in Workers : v # w => job[v].step \notin {"refreshing", "stalled", "writing", "done"}
    BY <2>1 DEF CredentialsFit, HoldersLock
  <2>3. newest # 0 /\ authFile' = [authFile EXCEPT ![p] = newest]
    BY <1>1, <2>1 DEF CredentialsFit, CopiesFit
  <2>4. /\ newest \in usable /\ \A q \in Providers : authFile[q] # newest
        /\ authFile'[p] = newest /\ latest'[p] = newest
        /\ \A q \in Providers : q # p => authFile'[q] = authFile[q] /\ latest'[q] = latest[q]
    BY <1>1, <2>1, <2>3 DEF CredentialsFit, TokensApart, CredentialInv, CredentialKinds
  <2>5. HoldersLock'
    BY <1>1, <1>2, <2>1, <2>2 DEF HoldersLock
  <2>6. CopiesFit'
    BY <1>2, <2>2 DEF CopiesFit
  <2>7. TokensApart'
    <3>1. \A v \in Workers : Carries(v)' => v # w /\ Carries(v) /\ job[v].new = job'[v].new
      BY <1>2, <2>2 DEF Carries
    <3>2. \A v \in Workers : v # w /\ Carries(v) => job[v].new # newest
      BY <1>1, <2>1, <2>3 DEF CredentialsFit, TokensApart, Carries
    <3>3. /\ \A a, q \in Providers : authFile[a] = authFile[q] /\ authFile[a] # 0 => a = q
          /\ \A v \in Workers : Carries(v) =>
               job[v].new \in usable /\ \A q \in Providers : authFile[q] # job[v].new
          /\ \A u, v \in Workers : Carries(u) /\ Carries(v) /\ job[u].new = job[v].new => u = v
      BY <2>1 DEF CredentialsFit, TokensApart, Carries
    <3>4. \A a, q \in Providers : authFile'[a] = authFile'[q] /\ authFile'[a] # 0 => a = q
      BY <2>4, <3>3
    <3>5. \A v \in Workers : Carries(v)' =>
            job'[v].new \in usable' /\ \A q \in Providers : authFile'[q] # job'[v].new
      BY <1>1, <2>4, <3>1, <3>2, <3>3
    <3> QED BY <3>1, <3>3, <3>4, <3>5 DEF TokensApart, Carries
  <2>8. TokensGood'
    <3>1. ASSUME NEW q \in Providers, q # p PROVE authFile[q] = latest[q] /\ authFile[q] \in usable \cup {0}
      BY <1>1, <2>1, <2>2, <3>1 DEF CredentialsFit, TokensGood
    <3> QED BY <1>1, <2>4, <3>1 DEF TokensGood
  <2> QED BY <1>1, <2>1, <2>5, <2>6, <2>7, <2>8 DEF CredentialsFit
<1> QED BY <1>3, <1>4 DEF CredentialInv

LEMMA CredentialStep == CredentialInv /\ [CredentialNext]_credentialVars => CredentialInv'
<1> SUFFICES ASSUME CredentialInv, [CredentialNext]_credentialVars PROVE CredentialInv'
  OBVIOUS
<1>1. CASE UNCHANGED credentialVars
  BY <1>1 DEF credentialVars, CredentialInv, CredentialKinds, CredentialsFit, HoldersLock, CopiesFit, TokensApart,
              Carries, TokensGood
<1> QED BY <1>1, ExpiresFits, ReadFits, RefreshedFits, ProviderFailsFits, WriteFits, ReleaseFits, DieFits, StallFits,
           LogInFits, NeedFits DEF CredentialNext

LEMMA CredentialsKeptAlways == CredentialSpec => []CredentialsAreKept
<1>1. CredentialInv => CredentialsAreKept
  <2> SUFFICES ASSUME CredentialInv PROVE CredentialsAreKept
    OBVIOUS
  <2>1. lock \in SUBSET Workers /\ Cardinality(lock) <= 1
    <3>1. CASE lock = {}
      BY <3>1, FS_EmptySet
    <3>2. ASSUME NEW w \in Workers, lock = {w} PROVE lock \in SUBSET Workers /\ Cardinality(lock) <= 1
      <4>1. Cardinality({w}) = 1
        BY FS_Singleton
      <4> QED BY <3>2, <4>1
    <3> QED BY <3>1, <3>2 DEF CredentialInv, CredentialKinds
  <2>2. CredentialTypeOK
    BY <2>1 DEF CredentialInv, CredentialKinds, CredentialTypeOK, JobRows, JobSteps
  <2>3. FileIsCurrent
    BY DEF CredentialInv, CredentialsFit, TokensGood, FileIsCurrent
  <2>4. TokenSpentOnce
    BY DEF CredentialInv, CredentialsFit, TokenSpentOnce
  <2> QED BY <2>2, <2>3, <2>4 DEF CredentialsAreKept
<1> QED BY <1>1, CredentialStarts, CredentialStep, PTL DEF CredentialSpec

(***************************************************************************)
(* Conversational intake.                                                  *)
(***************************************************************************)
Turns == Seq([role : {"operator", "assistant"}, brief : Briefs])
ConversationRows == [status : {"none", "active", "cancelled", "finalized"}, version : Nat, turns : Turns,
                     brief : Briefs, corrects : 0..MaxConversations, retries : 0..MaxConversations]
RevisionRows == [on : 0..MaxConversations, base : Nat,
                 status : {"none", "reserved", "running", "succeeded", "failed"},
                 calls : {0, 1}, claim : {"none", "active", "released"}]

ConversationKinds ==
  /\ conversation \in [Conversations -> ConversationRows]
  /\ revision \in [Revisions -> RevisionRows]

\* What ReadsVerify says of a conversation, and of the row of one that has not begun.
ConversationReads(c) ==
  /\ Len(conversation[c].turns) <= TurnLimit
  /\ conversation[c].corrects < c /\ conversation[c].retries < c
  /\ conversation[c].status = "none" => conversation[c].corrects = 0 /\ conversation[c].retries = 0
  /\ conversation[c].status = "active" => conversation[c].version = Len(conversation[c].turns) + 1
  /\ conversation[c].status \in {"cancelled", "finalized"} =>
       conversation[c].version = Len(conversation[c].turns) + 2
  /\ conversation[c].status # "none" /\ conversation[c].turns # <<>> =>
       conversation[c].turns[Len(conversation[c].turns)].brief = conversation[c].brief
  /\ snapshot[c].made <=> conversation[c].status = "finalized"
  /\ snapshot[c].made => /\ snapshot[c].version + 1 = conversation[c].version
                         /\ snapshot[c].turns = conversation[c].turns
                         /\ snapshot[c].brief = conversation[c].brief

InUse(r) == revision[r].status \in {"reserved", "running"}

\* A revision has its turn; one in use has the last, and the conversation waits for it.
RevisionReads(r) ==
  LET row == conversation[revision[r].on]
      b == revision[r].base
  IN  /\ revision[r].status = "none" <=> revision[r].on = 0
      /\ revision[r].on # 0 =>
           /\ row.status # "none" /\ b \in 1..Len(row.turns) /\ row.turns[b].role = "operator"
           /\ revision[r].status = "succeeded" =>
                b < Len(row.turns) /\ row.turns[b + 1] = [role |-> "assistant", brief |-> r]
           /\ InUse(r) => row.status = "active" /\ b = Len(row.turns) /\ b + 1 <= TurnLimit

OneInUse == \A r, s \in Revisions : InUse(r) /\ InUse(s) /\ revision[r].on = revision[s].on => r = s

\* Conversations are numbered without a gap.
ConversationsFollow ==
  \A c, d \in Conversations : d < c /\ conversation[c].status # "none" => conversation[d].status # "none"

ReadsInv ==
  /\ ConversationKinds /\ OneInUse /\ ConversationsFollow
  /\ \A c \in Conversations : ConversationReads(c)
  /\ \A r \in Revisions : RevisionReads(r)

LEMMA TurnAppended ==
  ASSUME NEW T, NEW s \in Seq(T), NEW e \in T
  PROVE  /\ Append(s, e) \in Seq(T) /\ Len(s) \in Nat /\ Len(Append(s, e)) = Len(s) + 1
         /\ Append(s, e)[Len(s) + 1] = e /\ Append(s, e) # <<>>
         /\ \A i \in 1..Len(s) : Append(s, e)[i] = s[i]
OBVIOUS

LEMMA ConversationReplaced ==
  ASSUME NEW S, NEW V, NEW T, NEW B, NEW C, NEW R,
         NEW x \in [status : S, version : V, turns : T, brief : B, corrects : C, retries : R],
         NEW s \in S, NEW v \in V, NEW t \in T, NEW b \in B, NEW c \in C, NEW r \in R
  PROVE  /\ LET y == [x EXCEPT !.turns = t, !.version = v, !.brief = b] IN
              /\ y \in [status : S, version : V, turns : T, brief : B, corrects : C, retries : R]
              /\ y.status = x.status /\ y.version = v /\ y.turns = t /\ y.brief = b
              /\ y.corrects = x.corrects /\ y.retries = x.retries
         /\ LET y == [x EXCEPT !.status = s, !.version = v] IN
              /\ y \in [status : S, version : V, turns : T, brief : B, corrects : C, retries : R]
              /\ y.status = s /\ y.version = v /\ y.turns = x.turns /\ y.brief = x.brief
              /\ y.corrects = x.corrects /\ y.retries = x.retries
         /\ LET y == [x EXCEPT !.status = s, !.version = v, !.brief = b, !.corrects = c, !.retries = r] IN
              /\ y \in [status : S, version : V, turns : T, brief : B, corrects : C, retries : R]
              /\ y.status = s /\ y.version = v /\ y.turns = x.turns /\ y.brief = b
              /\ y.corrects = c /\ y.retries = r
OBVIOUS

LEMMA RevisionReplaced ==
  ASSUME NEW O, NEW N, NEW S, NEW K, NEW C,
         NEW x \in [on : O, base : N, status : S, calls : K, claim : C],
         NEW o \in O, NEW b \in N, NEW s \in S, NEW k \in K, NEW c \in C
  PROVE  /\ LET y == [x EXCEPT !.on = o, !.status = s, !.base = b] IN
              /\ y \in [on : O, base : N, status : S, calls : K, claim : C]
              /\ y.on = o /\ y.base = b /\ y.status = s /\ y.calls = x.calls /\ y.claim = x.claim
         /\ LET y == [x EXCEPT !.status = s, !.calls = k, !.claim = c] IN
              /\ y \in [on : O, base : N, status : S, calls : K, claim : C]
              /\ y.on = x.on /\ y.base = x.base /\ y.status = s /\ y.calls = k /\ y.claim = c
         /\ LET y == [x EXCEPT !.status = s, !.claim = c] IN
              /\ y \in [on : O, base : N, status : S, calls : K, claim : C]
              /\ y.on = x.on /\ y.base = x.base /\ y.status = s /\ y.calls = x.calls /\ y.claim = c
OBVIOUS

LEMMA IntakeBounds ==
  /\ MaxConversations \in Nat /\ MaxRevisions \in Nat /\ MaxTriages \in Nat /\ TurnLimit \in Nat
  /\ Conversations \subseteq Nat /\ 0 \notin Conversations /\ 0 \in Briefs
  /\ \A r \in Revisions : r \in Briefs
BY IntakeAssumption DEF IntakeAssumption, Conversations, Briefs, Revisions

LEMMA FirstRows ==
  /\ NoConversation \in ConversationRows /\ NoConversation.status = "none" /\ NoConversation.turns = <<>>
  /\ NoConversation.corrects = 0 /\ NoConversation.retries = 0 /\ NoConversation.brief = 0
  /\ NoRevision \in RevisionRows /\ NoRevision.status = "none" /\ NoRevision.on = 0
  /\ NoRevision.claim = "none" /\ NoRevision.calls = 0
<1>1. <<>> \in Turns
  BY DEF Turns
<1>2. 0 \in 0..MaxConversations /\ 0 \in Briefs
  BY IntakeBounds
<1>3. NoConversation \in ConversationRows
  BY <1>1, <1>2 DEF NoConversation, ConversationRows
<1>4. NoRevision \in RevisionRows
  BY <1>2 DEF NoRevision, RevisionRows
<1> QED BY <1>3, <1>4 DEF NoConversation, NoRevision

LEMMA ReadsStart == IntakeInit => ReadsInv
<1> SUFFICES ASSUME IntakeInit PROVE ReadsInv
  OBVIOUS
<1>1. /\ \A c \in Conversations : conversation[c] = NoConversation /\ snapshot[c] = NoSnapshot
      /\ \A r \in Revisions : revision[r] = NoRevision
      /\ NoSnapshot.made = FALSE
  BY DEF IntakeInit, NoSnapshot
<1>2. ConversationKinds
  BY FirstRows DEF IntakeInit, ConversationKinds
<1>3. OneInUse /\ ConversationsFollow
  BY <1>1, FirstRows DEF OneInUse, InUse, ConversationsFollow
<1>4. ASSUME NEW c \in Conversations PROVE ConversationReads(c)
  <2>1. c \in Nat /\ c # 0 /\ TurnLimit \in Nat /\ Len(NoConversation.turns) = 0
    BY IntakeBounds, FirstRows
  <2> QED BY <1>1, <2>1, FirstRows DEF ConversationReads
<1>5. \A r \in Revisions : RevisionReads(r)
  BY <1>1, FirstRows DEF RevisionReads
<1> QED BY <1>2, <1>3, <1>4, <1>5 DEF ReadsInv

LEMMA RevisionOn ==
  ASSUME ReadsInv, NEW r \in Revisions, revision[r].on # 0
  PROVE  /\ revision[r].on \in Conversations /\ revision[r].base \in Nat
         /\ conversation[revision[r].on].status # "none"
<1>1. revision[r] \in RevisionRows /\ RevisionReads(r)
  BY DEF ReadsInv, ConversationKinds
<1>2. revision[r].on \in 0..MaxConversations /\ revision[r].base \in Nat
  BY <1>1 DEF RevisionRows
<1> QED BY <1>1, <1>2, IntakeBounds DEF Conversations, RevisionReads

LEMMA RowKind ==
  ASSUME ReadsInv, NEW c \in Conversations
  PROVE  /\ conversation[c] \in ConversationRows /\ conversation[c].turns \in Turns
         /\ conversation[c].brief \in Briefs /\ conversation[c].version \in Nat
         /\ conversation[c].corrects \in 0..MaxConversations /\ conversation[c].retries \in 0..MaxConversations
         /\ Len(conversation[c].turns) \in Nat /\ ConversationReads(c)
<1>1. conversation[c] \in ConversationRows /\ ConversationReads(c)
  BY DEF ReadsInv, ConversationKinds
<1>2. conversation[c].turns \in Turns
  BY <1>1 DEF ConversationRows
<1>3. Len(conversation[c].turns) \in Nat
  BY <1>2 DEF Turns
<1> QED BY <1>1, <1>2, <1>3 DEF ConversationRows

\* A revision's turn stays where it is while the conversation only grows.
LEMMA RevisionStays ==
  ASSUME ReadsInv, NEW r \in Revisions, revision'[r] = revision[r],
         conversation' \in [Conversations -> ConversationRows],
         revision[r].on # 0 =>
           LET row == conversation[revision[r].on]
               next == conversation'[revision[r].on]
           IN  /\ next.status # "none"
               /\ Len(row.turns) <= Len(next.turns)
               /\ \A i \in 1..Len(row.turns) : next.turns[i] = row.turns[i]
               /\ InUse(r) => next = row
  PROVE  RevisionReads(r)'
<1>1. RevisionReads(r)
  BY DEF ReadsInv
<1>2. InUse(r)' <=> InUse(r)
  BY DEF InUse
<1>3. CASE revision[r].on = 0
  BY <1>1, <1>3 DEF RevisionReads
<1>4. CASE revision[r].on # 0
  <2> DEFINE row == conversation[revision[r].on]
             next == conversation'[revision[r].on]
  <2>1. revision[r].on \in Conversations /\ revision[r].base \in Nat
    BY <1>4, RevisionOn
  <2>2. /\ Len(row.turns) \in Nat /\ Len(next.turns) \in Nat
    BY <2>1 DEF ReadsInv, ConversationKinds, ConversationRows, Turns
  <2> DEFINE b == revision[r].base
  <2>3. /\ row.status # "none" /\ b \in 1..Len(row.turns) /\ row.turns[b].role = "operator"
        /\ revision[r].status = "succeeded" =>
             b < Len(row.turns) /\ row.turns[b + 1] = [role |-> "assistant", brief |-> r]
        /\ InUse(r) => row.status = "active" /\ b = Len(row.turns) /\ b + 1 <= TurnLimit
    BY <1>1, <1>4 DEF RevisionReads
  <2>4. /\ next.status # "none" /\ Len(row.turns) <= Len(next.turns)
        /\ \A i \in 1..Len(row.turns) : next.turns[i] = row.turns[i]
        /\ InUse(r) => next = row
    BY <1>4
  <2>5. revision[r].status = "none" <=> revision[r].on = 0
    BY <1>1 DEF RevisionReads
  <2> HIDE DEF row, next, b
  <2>6. /\ next.status # "none" /\ b \in 1..Len(next.turns) /\ next.turns[b].role = "operator"
        /\ revision[r].status = "succeeded" =>
             b < Len(next.turns) /\ next.turns[b + 1] = [role |-> "assistant", brief |-> r]
        /\ InUse(r) => next.status = "active" /\ b = Len(next.turns) /\ b + 1 <= TurnLimit
    BY <2>2, <2>3, <2>4
  <2> QED BY <1>2, <2>5, <2>6 DEF RevisionReads, next, b
<1> QED BY <1>3, <1>4

\* A conversation whose own row and snapshot stay reads as before.
LEMMA ConversationStays ==
  ASSUME NEW c \in Conversations, ConversationReads(c), conversation'[c] = conversation[c], snapshot'[c] = snapshot[c]
  PROVE  ConversationReads(c)'
BY DEF ConversationReads

LEMMA ConversationBegins ==
  ASSUME ReadsInv, NEW d \in Conversations, Fresh(conversation, d), NEW row \in ConversationRows,
         row.status = "active", row.version = 1, row.turns = <<>>, row.corrects < d, row.retries < d,
         conversation' = [conversation EXCEPT ![d] = row], UNCHANGED <<revision, snapshot>>
  PROVE  ReadsInv'
<1>1. /\ conversation[d].status = "none"
      /\ \A c \in Conversations : c < d => conversation[c].status # "none"
  BY DEF Fresh, ReadsInv, ConversationKinds
<1>2. /\ conversation'[d] = row /\ \A c \in Conversations : c # d => conversation'[c] = conversation[c]
      /\ conversation' \in [Conversations -> ConversationRows]
  BY DEF ReadsInv, ConversationKinds
<1>3. ConversationKinds'
  BY <1>2 DEF ReadsInv, ConversationKinds
<1>4. OneInUse'
  BY DEF ReadsInv, OneInUse, InUse
<1>5. ConversationsFollow'
  BY <1>1, <1>2 DEF ReadsInv, ConversationsFollow
<1>6. ASSUME NEW c \in Conversations PROVE ConversationReads(c)'
  <2>1. CASE c = d
    <3>1. ~snapshot[d].made /\ d \in Nat
      BY <1>1, IntakeBounds DEF ReadsInv, ConversationReads
    <3>2. Len(row.turns) = 0 /\ TurnLimit \in Nat
      BY IntakeBounds
    <3> QED BY <1>2, <2>1, <3>1, <3>2 DEF ConversationReads
  <2>2. CASE c # d
    BY <1>2, <2>2, ConversationStays DEF ReadsInv
  <2> QED BY <2>1, <2>2
<1>7. ASSUME NEW r \in Revisions PROVE RevisionReads(r)'
  <2>1. revision[r].on # 0 => revision[r].on # d /\ revision[r].on \in Conversations
                              /\ conversation[revision[r].on].status # "none"
    BY <1>1, RevisionOn
  <2>2. revision[r].on # 0 => Len(conversation[revision[r].on].turns) \in Nat
    BY <2>1 DEF ReadsInv, ConversationKinds, ConversationRows, Turns
  <2> QED BY <1>2, <2>1, <2>2, RevisionStays
<1> QED BY <1>3, <1>4, <1>5, <1>6, <1>7 DEF ReadsInv

LEMMA CreateReads == ASSUME ReadsInv, NEW c \in Conversations, Create(c) PROVE ReadsInv'
<1> DEFINE row == [NoConversation EXCEPT !.status = "active", !.version = 1]
<1>1. "active" \in {"none", "active", "cancelled", "finalized"} /\ 1 \in Nat
  OBVIOUS
<1>2. row \in ConversationRows /\ row.status = "active" /\ row.version = 1 /\ row.turns = <<>>
      /\ row.corrects = 0 /\ row.retries = 0
  BY <1>1, FirstRows DEF NoConversation, ConversationRows
<1>3. /\ Fresh(conversation, c) /\ conversation' = [conversation EXCEPT ![c] = row]
      /\ UNCHANGED <<revision, snapshot>> /\ 0 < c
  BY IntakeBounds DEF Create
<1> HIDE DEF row
<1> QED BY <1>2, <1>3, ConversationBegins

\* What a correction starts from.
LEMMA CorrectionBegins ==
  ASSUME ReadsInv, NEW c \in Conversations, NEW d \in Conversations, Correct(c, d)
  PROVE  \E prior \in Corrections(c) \cup {0}, row \in ConversationRows :
           /\ row.status = "active" /\ row.version = 1 /\ row.turns = <<>>
           /\ row.corrects = c /\ row.retries = prior /\ c < d /\ prior < d
           /\ conversation' = [conversation EXCEPT ![d] = row]
           /\ prior = 0 => Corrections(c) = {}
           /\ \A e \in Corrections(c) : conversation[e].retries # prior \/ prior = 0
<1>1. PICK prior \in Corrections(c) \cup {0} :
       /\ prior = 0 => Corrections(c) = {}
       /\ \A e \in Corrections(c) : conversation[e].retries # prior \/ prior = 0
       /\ conversation' = [conversation EXCEPT ![d] =
            [NoConversation EXCEPT !.status = "active", !.version = 1, !.brief = snapshot[c].brief,
                                   !.corrects = c, !.retries = prior]]
  BY DEF Correct
<1> DEFINE row == [NoConversation EXCEPT !.status = "active", !.version = 1, !.brief = snapshot[c].brief,
                                         !.corrects = c, !.retries = prior]
<1>2. /\ conversation[c].status = "finalized" /\ snapshot[c].made /\ conversation[d].status = "none"
      /\ \A e \in Conversations : e < d => conversation[e].status # "none"
  BY DEF Correct, Fresh, ReadsInv, ConversationKinds
<1>3. snapshot[c].brief \in Briefs /\ snapshot[c].brief = conversation[c].brief
  BY <1>2 DEF ReadsInv, ConversationReads, ConversationKinds, ConversationRows
<1>4. ASSUME NEW e \in Conversations, conversation[e].status # "none" PROVE e < d /\ e \in 0..MaxConversations
  <2>1. e # d /\ ~(d < e)
    BY <1>2, <1>4 DEF ReadsInv, ConversationsFollow
  <2> QED BY <2>1, IntakeBounds DEF Conversations
<1>5. \A e \in Corrections(c) : e \in Conversations /\ conversation[e].status # "none"
  BY IntakeBounds, ZenonT(40) DEF Corrections, ReadsInv, ConversationReads
<1>6. prior < d /\ prior \in 0..MaxConversations
  <2>1. CASE prior = 0
    BY <2>1, IntakeBounds DEF Conversations
  <2>2. CASE prior # 0
    BY <1>4, <1>5, <2>2
  <2> QED BY <2>1, <2>2
<1>7. c < d /\ c \in 0..MaxConversations
  BY <1>2, <1>4
<1>8. "active" \in {"none", "active", "cancelled", "finalized"} /\ 1 \in Nat
  OBVIOUS
<1>9. row \in ConversationRows /\ row.status = "active" /\ row.version = 1 /\ row.turns = <<>>
      /\ row.corrects = c /\ row.retries = prior
  BY <1>3, <1>6, <1>7, <1>8, FirstRows, ConversationReplaced, Zenon DEF ConversationRows
<1> HIDE DEF row
<1> QED BY <1>1, <1>6, <1>7, <1>9 DEF row

LEMMA CorrectReads ==
  ASSUME ReadsInv, NEW c \in Conversations, NEW d \in Conversations, Correct(c, d)
  PROVE  ReadsInv'
<1>1. Fresh(conversation, d) /\ UNCHANGED <<revision, snapshot>>
  BY DEF Correct
<1>2. PICK prior \in Corrections(c) \cup {0}, row \in ConversationRows :
           /\ row.status = "active" /\ row.version = 1 /\ row.turns = <<>>
           /\ row.corrects = c /\ row.retries = prior /\ c < d /\ prior < d
           /\ conversation' = [conversation EXCEPT ![d] = row]
  BY CorrectionBegins
<1> QED BY <1>1, <1>2, ConversationBegins

\* No revision in use is on the conversation.
LEMMA NotInUse ==
  ASSUME NEW c \in Conversations, NoActiveRevision(c)
  PROVE  \A r \in Revisions : InUse(r) => revision[r].on # c
BY DEF NoActiveRevision, InUse

LEMMA ConversationEnds ==
  ASSUME ReadsInv, NEW c \in Conversations, NEW s \in {"cancelled", "finalized"}, conversation[c].status = "active",
         NoActiveRevision(c), conversation' = [conversation EXCEPT ![c].status = s, ![c].version = @ + 1],
         s = "cancelled" => snapshot' = snapshot,
         s = "finalized" => snapshot' = [snapshot EXCEPT ![c] = [made |-> TRUE, version |-> conversation[c].version,
                                          turns |-> conversation[c].turns, brief |-> conversation[c].brief]],
         snapshot \in [Conversations -> [made : BOOLEAN, version : Nat, turns : Turns, brief : Briefs]],
         revision' = revision
  PROVE  ReadsInv'
<1>1. conversation[c] \in ConversationRows /\ conversation[c].version \in Nat /\ conversation[c].version + 1 \in Nat
      /\ Len(conversation[c].turns) \in Nat
  BY RowKind
<1>2. conversation' = [conversation EXCEPT ![c] = [conversation[c] EXCEPT !.status = s, !.version = conversation[c].version + 1]]
  BY DEF ReadsInv, ConversationKinds
<1> DEFINE row == [conversation[c] EXCEPT !.status = s, !.version = conversation[c].version + 1]
<1>3. s \in {"none", "active", "cancelled", "finalized"}
  OBVIOUS
<1>4. row \in ConversationRows /\ row.status = s /\ row.version = conversation[c].version + 1
      /\ row.turns = conversation[c].turns /\ row.brief = conversation[c].brief
      /\ row.corrects = conversation[c].corrects /\ row.retries = conversation[c].retries
  BY <1>1, <1>3, RowKind, ConversationReplaced, Zenon DEF ConversationRows
<1> HIDE DEF row
<1>5. /\ conversation'[c] = row /\ \A d \in Conversations : d # c => conversation'[d] = conversation[d]
      /\ conversation' \in [Conversations -> ConversationRows]
  BY <1>2, <1>4 DEF ReadsInv, ConversationKinds, row
<1>6. \A d \in Conversations : d # c => snapshot'[d] = snapshot[d]
  OBVIOUS
<1>7. ConversationKinds'
  BY <1>5 DEF ReadsInv, ConversationKinds
<1>8. OneInUse'
  BY DEF ReadsInv, OneInUse, InUse
<1>9. ConversationsFollow'
  BY <1>4, <1>5 DEF ReadsInv, ConversationsFollow
<1>10. ConversationReads(c)'
  <2>1. ConversationReads(c) /\ ~snapshot[c].made
    BY DEF ReadsInv, ConversationReads
  <2>2. s = "cancelled" => snapshot'[c] = snapshot[c]
    OBVIOUS
  <2>3. s = "finalized" => snapshot'[c].made /\ snapshot'[c].version = conversation[c].version
                           /\ snapshot'[c].turns = conversation[c].turns /\ snapshot'[c].brief = conversation[c].brief
    OBVIOUS
  <2> QED BY <1>1, <1>4, <1>5, <2>1, <2>2, <2>3 DEF ConversationReads
<1>11. \A d \in Conversations : ConversationReads(d)'
  BY <1>5, <1>6, <1>10, ConversationStays DEF ReadsInv
<1>12. ASSUME NEW r \in Revisions PROVE RevisionReads(r)'
  <2>1. revision[r].on # 0 => revision[r].on \in Conversations /\ conversation[revision[r].on].status # "none"
    BY RevisionOn
  <2>2. InUse(r) => revision[r].on # c
    BY NotInUse
  <2>3. \A d \in Conversations : /\ conversation'[d].turns = conversation[d].turns
                                 /\ conversation[d].status # "none" => conversation'[d].status # "none"
    BY <1>4, <1>5
  <2>4. \A d \in Conversations : Len(conversation[d].turns) \in Nat
    BY DEF ReadsInv, ConversationKinds, ConversationRows, Turns
  <2> QED BY <1>5, <2>1, <2>2, <2>3, <2>4, RevisionStays
<1> QED BY <1>7, <1>8, <1>9, <1>11, <1>12 DEF ReadsInv

\* What WithTurn makes of an active conversation.
TurnAdded(old, row, role, brief) ==
  LET n == Len(old.turns) IN
    /\ row \in ConversationRows /\ row.status = "active" /\ n \in Nat
    /\ row.version = n + 2 /\ old.version = n + 1
    /\ row.brief = brief /\ Len(row.turns) = n + 1 /\ row.turns # <<>>
    /\ row.turns[n + 1] = [role |-> role, brief |-> brief]
    /\ row.turns[n + 1].role = role /\ row.turns[n + 1].brief = brief
    /\ \A i \in 1..n : row.turns[i] = old.turns[i]
    /\ row.corrects = old.corrects /\ row.retries = old.retries

LEMMA TurnTaken ==
  ASSUME ReadsInv, NEW c \in Conversations, conversation[c].status = "active",
         NEW role \in {"operator", "assistant"}, NEW brief \in Briefs
  PROVE  TurnAdded(conversation[c], WithTurn(conversation[c], role, brief), role, brief)
<1> DEFINE turn == [role |-> role, brief |-> brief]
           more == Append(conversation[c].turns, turn)
           T == [role : {"operator", "assistant"}, brief : Briefs]
<1>1. conversation[c].turns \in Seq(T) /\ turn \in T
  BY RowKind DEF Turns
<1> HIDE DEF T, turn
<1>2. /\ more \in Seq(T) /\ Len(conversation[c].turns) \in Nat /\ Len(more) = Len(conversation[c].turns) + 1
      /\ more[Len(conversation[c].turns) + 1] = turn /\ more # <<>>
      /\ \A i \in 1..Len(conversation[c].turns) : more[i] = conversation[c].turns[i]
  BY <1>1, TurnAppended
<1> HIDE DEF more
<1>3. more \in Turns /\ conversation[c].version + 1 \in Nat
  BY <1>2, RowKind DEF Turns, T
<1>4. WithTurn(conversation[c], role, brief)
        = [conversation[c] EXCEPT !.turns = more, !.version = conversation[c].version + 1, !.brief = brief]
  BY DEF WithTurn, more, turn
<1>5. conversation[c] \in [status : {"none", "active", "cancelled", "finalized"}, version : Nat, turns : Turns,
                     brief : Briefs, corrects : 0..MaxConversations, retries : 0..MaxConversations]
  BY RowKind DEF ConversationRows
<1>6. LET y == [conversation[c] EXCEPT !.turns = more, !.version = conversation[c].version + 1, !.brief = brief] IN
        /\ y \in ConversationRows
        /\ y.status = conversation[c].status /\ y.version = conversation[c].version + 1 /\ y.turns = more
        /\ y.brief = brief /\ y.corrects = conversation[c].corrects /\ y.retries = conversation[c].retries
  BY <1>3, <1>5, RowKind, ConversationReplaced, Zenon DEF ConversationRows
<1>7. conversation[c].version = Len(conversation[c].turns) + 1
  BY RowKind DEF ConversationReads
<1>8. turn.role = role /\ turn.brief = brief
  BY DEF turn
<1> DEFINE row == WithTurn(conversation[c], role, brief)
<1>9. /\ row \in ConversationRows /\ row.status = "active" /\ row.version = conversation[c].version + 1
      /\ row.turns = more /\ row.brief = brief
      /\ row.corrects = conversation[c].corrects /\ row.retries = conversation[c].retries
  BY <1>4, <1>6
<1> HIDE DEF row
<1>10. conversation[c].version + 1 = Len(conversation[c].turns) + 2
  BY <1>2, <1>7
<1>11. TurnAdded(conversation[c], row, role, brief)
  BY <1>2, <1>7, <1>8, <1>9, <1>10 DEF TurnAdded, turn
<1> QED BY <1>11 DEF row

\* An active conversation takes a turn; its revisions are left to the caller.
LEMMA TurnReads ==
  ASSUME ReadsInv, NEW c \in Conversations, conversation[c].status = "active",
         NEW role \in {"operator", "assistant"}, NEW brief \in Briefs, Len(conversation[c].turns) < TurnLimit,
         conversation' = [conversation EXCEPT ![c] = WithTurn(conversation[c], role, brief)],
         UNCHANGED snapshot, revision' \in [Revisions -> RevisionRows], OneInUse',
         \A r \in Revisions : (revision'[r] = revision[r] /\ (InUse(r) => revision[r].on # c)) \/ RevisionReads(r)'
  PROVE  ReadsInv'
<1> DEFINE row == WithTurn(conversation[c], role, brief)
           n == Len(conversation[c].turns)
<1>1. /\ row \in ConversationRows /\ row.status = "active" /\ n \in Nat
      /\ row.version = n + 2 /\ row.brief = brief /\ Len(row.turns) = n + 1 /\ row.turns # <<>>
      /\ row.turns[n + 1].brief = brief
      /\ \A i \in 1..n : row.turns[i] = conversation[c].turns[i]
      /\ row.corrects = conversation[c].corrects /\ row.retries = conversation[c].retries
  <2>1. TurnAdded(conversation[c], row, role, brief)
    BY TurnTaken
  <2> HIDE DEF row
  <2> QED BY <2>1 DEF TurnAdded
<1> HIDE DEF row
<1>2. /\ conversation'[c] = row /\ \A d \in Conversations : d # c => conversation'[d] = conversation[d]
      /\ conversation' \in [Conversations -> ConversationRows]
  BY <1>1 DEF ReadsInv, ConversationKinds, row
<1>3. ConversationKinds'
  BY <1>2 DEF ConversationKinds
<1>4. ConversationsFollow'
  BY <1>1, <1>2 DEF ReadsInv, ConversationsFollow
<1>5. ConversationReads(c)'
  <2>1. ConversationReads(c) /\ TurnLimit \in Nat
    BY RowKind, IntakeBounds
  <2>2. Len(row.turns) <= TurnLimit
    BY <1>1, <2>1
  <2> QED BY <1>1, <1>2, <2>1, <2>2 DEF ConversationReads
<1>6. \A d \in Conversations : ConversationReads(d)'
  BY <1>2, <1>5, ConversationStays DEF ReadsInv
<1>7. ASSUME NEW r \in Revisions PROVE RevisionReads(r)'
  <2>1. CASE RevisionReads(r)'
    BY <2>1
  <2>2. CASE revision'[r] = revision[r] /\ (InUse(r) => revision[r].on # c)
    <3>1. revision[r].on # 0 => /\ revision[r].on \in Conversations /\ conversation[revision[r].on].status # "none"
                                /\ Len(conversation[revision[r].on].turns) \in Nat
      BY RevisionOn, RowKind
    <3>2. CASE revision[r].on = c
      BY <1>1, <1>2, <2>2, <3>1, <3>2, RevisionStays
    <3>3. CASE revision[r].on # c
      BY <1>2, <2>2, <3>1, <3>3, RevisionStays
    <3> QED BY <3>2, <3>3
  <2> QED BY <2>1, <2>2
<1> QED BY <1>3, <1>4, <1>6, <1>7 DEF ReadsInv

LEMMA AppendReads == ASSUME ReadsInv, NEW c \in Conversations, AppendTurn(c, "operator", 0) PROVE ReadsInv'
<1>1. /\ conversation[c].status = "active" /\ NoActiveRevision(c) /\ Len(conversation[c].turns) < TurnLimit
      /\ conversation' = [conversation EXCEPT ![c] = WithTurn(conversation[c], "operator", 0)]
      /\ UNCHANGED <<revision, snapshot>>
  BY DEF AppendTurn, ReadsInv, ConversationKinds
<1>2. \A r \in Revisions : revision'[r] = revision[r] /\ (InUse(r) => revision[r].on # c)
  BY <1>1, NotInUse
<1>3. OneInUse' /\ revision' \in [Revisions -> RevisionRows]
  BY <1>1 DEF ReadsInv, OneInUse, InUse, ConversationKinds
<1>4. "operator" \in {"operator", "assistant"} /\ 0 \in Briefs
  BY IntakeBounds
<1> QED BY <1>1, <1>2, <1>3, <1>4, TurnReads

LEMMA ReserveReads ==
  ASSUME ReadsInv, NEW r \in Revisions, NEW c \in Conversations, ReserveRevision(r, c)
  PROVE  ReadsInv'
<1> DEFINE row == [NoRevision EXCEPT !.on = c, !.status = "reserved", !.base = conversation[c].version]
           n == Len(conversation[c].turns)
           next == WithTurn(conversation[c], "operator", conversation[c].brief)
<1>1. /\ revision[r].status = "none" /\ conversation[c].status = "active" /\ NoActiveRevision(c)
      /\ n + 2 <= TurnLimit /\ revision' = [revision EXCEPT ![r] = row]
      /\ conversation' = [conversation EXCEPT ![c] = next] /\ UNCHANGED snapshot
  BY DEF ReserveRevision, Fresh, ReadsInv, ConversationKinds
<1>2. n \in Nat /\ conversation[c].version = n + 1 /\ conversation[c].brief \in Briefs /\ TurnLimit \in Nat
      /\ conversation[c].version \in Nat
  BY <1>1, RowKind, IntakeBounds DEF ConversationReads
<1>3. row \in RevisionRows /\ row.on = c /\ row.base = n + 1 /\ row.status = "reserved"
  <2>1. NoRevision \in [on : 0..MaxConversations, base : Nat,
                 status : {"none", "reserved", "running", "succeeded", "failed"},
                 calls : {0, 1}, claim : {"none", "active", "released"}]
        /\ NoRevision.calls \in {0, 1} /\ NoRevision.claim \in {"none", "active", "released"}
    BY FirstRows DEF RevisionRows
  <2>2. c \in 0..MaxConversations /\ "reserved" \in {"none", "reserved", "running", "succeeded", "failed"}
    BY IntakeBounds DEF Conversations
  <2>3. row \in RevisionRows /\ row.on = c /\ row.base = conversation[c].version /\ row.status = "reserved"
    BY <1>2, <2>1, <2>2, RevisionReplaced, Zenon DEF RevisionRows
  <2> QED BY <1>2, <2>3
<1>4. /\ next.status = "active" /\ Len(next.turns) = n + 1
      /\ next.turns[n + 1].role = "operator"
  <2>0. "operator" \in {"operator", "assistant"}
    OBVIOUS
  <2>1. TurnAdded(conversation[c], next, "operator", conversation[c].brief)
    BY <1>1, <1>2, <2>0, TurnTaken
  <2> HIDE DEF next
  <2> QED BY <2>1 DEF TurnAdded
<1> HIDE DEF row, next, n
<1>5. /\ revision'[r] = row /\ \A s \in Revisions : s # r => revision'[s] = revision[s]
      /\ revision' \in [Revisions -> RevisionRows] /\ conversation'[c] = next
  BY <1>1, <1>3 DEF ReadsInv, ConversationKinds
<1>6. \A s \in Revisions : InUse(s) => revision[s].on # c
  BY <1>1, NotInUse
<1>7. OneInUse'
  BY <1>3, <1>5, <1>6 DEF ReadsInv, OneInUse, InUse
<1>8. RevisionReads(r)'
  <2>1. c # 0 /\ n + 1 \in 1..(n + 1) /\ (n + 1) + 1 <= TurnLimit
    BY <1>1, <1>2, IntakeBounds
  <2> QED BY <1>3, <1>4, <1>5, <2>1 DEF RevisionReads
<1>9. \A s \in Revisions : (revision'[s] = revision[s] /\ (InUse(s) => revision[s].on # c)) \/ RevisionReads(s)'
  BY <1>5, <1>6, <1>8
<1>10. n < TurnLimit
  BY <1>1, <1>2
<1> QED BY <1>1, <1>2, <1>5, <1>7, <1>9, <1>10, TurnReads DEF next, n

\* Only the row of a revision changes, and it is in use only if it was.
LEMMA RevisionOnly ==
  ASSUME ReadsInv, NEW r \in Revisions, NEW row \in RevisionRows, UNCHANGED <<conversation, snapshot>>,
         revision' = [revision EXCEPT ![r] = row], row.on = revision[r].on, row.base = revision[r].base,
         InUse(r), row.status \in {"running", "failed"}
  PROVE  ReadsInv'
<1>1. /\ revision'[r] = row /\ \A s \in Revisions : s # r => revision'[s] = revision[s]
      /\ revision' \in [Revisions -> RevisionRows]
  BY DEF ReadsInv, ConversationKinds
<1>2. ConversationKinds'
  BY <1>1 DEF ReadsInv, ConversationKinds
<1>3. OneInUse' /\ ConversationsFollow'
  BY <1>1 DEF ReadsInv, OneInUse, InUse, ConversationsFollow
<1>4. \A c \in Conversations : ConversationReads(c)'
  BY ConversationStays DEF ReadsInv
<1>5. ASSUME NEW s \in Revisions PROVE RevisionReads(s)'
  <2>1. RevisionReads(s) /\ RevisionReads(r)
    BY DEF ReadsInv
  <2>2. CASE s = r
    BY <1>1, <2>1, <2>2 DEF RevisionReads, InUse
  <2>3. CASE s # r
    BY <1>1, <2>1, <2>3 DEF RevisionReads, InUse
  <2> QED BY <2>2, <2>3
<1> QED BY <1>2, <1>3, <1>4, <1>5 DEF ReadsInv

LEMMA RevisionKind ==
  ASSUME ReadsInv, NEW r \in Revisions
  PROVE  /\ revision[r] \in [on : 0..MaxConversations, base : Nat,
                 status : {"none", "reserved", "running", "succeeded", "failed"},
                 calls : {0, 1}, claim : {"none", "active", "released"}]
         /\ revision[r].on \in 0..MaxConversations /\ revision[r].base \in Nat /\ revision[r].calls \in {0, 1}
         /\ revision[r].claim \in {"none", "active", "released"}
<1>1. revision[r] \in RevisionRows
  BY DEF ReadsInv, ConversationKinds
<1> QED BY <1>1 DEF RevisionRows

LEMMA ClaimReads == ASSUME ReadsInv, NEW r \in Revisions, ClaimRevision(r) PROVE ReadsInv'
<1> DEFINE row == [revision[r] EXCEPT !.status = "running", !.calls = 1, !.claim = "active"]
<1>1. /\ revision[r].status = "reserved" /\ UNCHANGED <<conversation, snapshot>>
      /\ revision' = [revision EXCEPT ![r] = row]
  BY DEF ClaimRevision, ReadsInv, ConversationKinds
<1>2. "running" \in {"none", "reserved", "running", "succeeded", "failed"} /\ 1 \in {0, 1}
      /\ "active" \in {"none", "active", "released"}
  OBVIOUS
<1>2a. /\ revision[r] \in [on : 0..MaxConversations, base : Nat,
                 status : {"none", "reserved", "running", "succeeded", "failed"},
                 calls : {0, 1}, claim : {"none", "active", "released"}]
       /\ revision[r].on \in 0..MaxConversations /\ revision[r].base \in Nat /\ revision[r].calls \in {0, 1}
       /\ revision[r].claim \in {"none", "active", "released"}
  BY RevisionKind
<1>3. row \in RevisionRows /\ row.on = revision[r].on /\ row.base = revision[r].base /\ row.status = "running"
  BY <1>2, <1>2a, RevisionReplaced, Zenon DEF RevisionRows
<1> HIDE DEF row
<1> QED BY <1>1, <1>3, RevisionOnly DEF InUse

LEMMA FailReads ==
  ASSUME ReadsInv, NEW r \in Revisions, FailRevision(r), revision[r].status = "running"
  PROVE  ReadsInv'
<1> DEFINE row == [revision[r] EXCEPT !.status = "failed", !.claim = "released"]
<1>1. /\ UNCHANGED <<conversation, snapshot>> /\ revision' = [revision EXCEPT ![r] = row]
  BY DEF FailRevision, ReadsInv, ConversationKinds
<1>2. "failed" \in {"none", "reserved", "running", "succeeded", "failed"}
      /\ "released" \in {"none", "active", "released"}
  OBVIOUS
<1>2a. /\ revision[r] \in [on : 0..MaxConversations, base : Nat,
                 status : {"none", "reserved", "running", "succeeded", "failed"},
                 calls : {0, 1}, claim : {"none", "active", "released"}]
       /\ revision[r].on \in 0..MaxConversations /\ revision[r].base \in Nat /\ revision[r].calls \in {0, 1}
       /\ revision[r].claim \in {"none", "active", "released"}
  BY RevisionKind
<1>3. row \in RevisionRows /\ row.on = revision[r].on /\ row.base = revision[r].base /\ row.status = "failed"
  BY <1>2, <1>2a, RevisionReplaced, Zenon DEF RevisionRows
<1> HIDE DEF row
<1> QED BY <1>1, <1>3, RevisionOnly DEF InUse

\* A revision in use finds its conversation where its reservation left it.
LEMMA ContextStands ==
  ASSUME ReadsInv, NEW r \in Revisions, InUse(r)
  PROVE  /\ InContext(r) /\ revision[r].on \in Conversations /\ revision[r].on # 0
         /\ conversation[revision[r].on].status = "active"
         /\ revision[r].base = Len(conversation[revision[r].on].turns) /\ revision[r].base + 1 <= TurnLimit
<1>1. revision[r].on # 0
  BY DEF ReadsInv, RevisionReads, InUse
<1>2. revision[r].on \in Conversations
  BY <1>1, RevisionOn
<1>3. conversation[revision[r].on].status = "active" /\ revision[r].base + 1 <= TurnLimit
      /\ revision[r].base = Len(conversation[revision[r].on].turns)
  BY <1>1 DEF ReadsInv, RevisionReads
<1>4. conversation[revision[r].on].version = Len(conversation[revision[r].on].turns) + 1
  BY <1>2, <1>3 DEF ReadsInv, ConversationReads
<1> QED BY <1>1, <1>2, <1>3, <1>4 DEF InContext

LEMMA SucceedReads ==
  ASSUME ReadsInv, NEW r \in Revisions, SucceedRevision(r), revision[r].status = "running"
  PROVE  ReadsInv'
<1> DEFINE row == [revision[r] EXCEPT !.status = "succeeded", !.claim = "released"]
           c == revision[r].on
           n == Len(conversation[c].turns)
           next == WithTurn(conversation[c], "assistant", r)
<1>1. /\ InContext(r) /\ c \in Conversations /\ c # 0 /\ conversation[c].status = "active"
      /\ revision[r].base = n /\ n + 1 <= TurnLimit
  BY ContextStands DEF InUse
<1>2. /\ revision' = [revision EXCEPT ![r] = row] /\ conversation' = [conversation EXCEPT ![c] = next]
      /\ UNCHANGED snapshot
  BY <1>1 DEF SucceedRevision, ReadsInv, ConversationKinds
<1>3. n \in Nat /\ TurnLimit \in Nat /\ r \in Briefs
  BY <1>1, RowKind, IntakeBounds
<1>4. "succeeded" \in {"none", "reserved", "running", "succeeded", "failed"}
      /\ "released" \in {"none", "active", "released"}
  OBVIOUS
<1>4a. /\ revision[r] \in [on : 0..MaxConversations, base : Nat,
                 status : {"none", "reserved", "running", "succeeded", "failed"},
                 calls : {0, 1}, claim : {"none", "active", "released"}]
       /\ revision[r].on \in 0..MaxConversations /\ revision[r].base \in Nat /\ revision[r].calls \in {0, 1}
       /\ revision[r].claim \in {"none", "active", "released"}
  BY RevisionKind
<1>5. row \in RevisionRows /\ row.on = c /\ row.base = revision[r].base /\ row.status = "succeeded"
  BY <1>4, <1>4a, RevisionReplaced, Zenon DEF RevisionRows
<1>6. /\ next.status = "active" /\ Len(next.turns) = n + 1
      /\ next.turns[n + 1] = [role |-> "assistant", brief |-> r]
      /\ \A i \in 1..n : next.turns[i] = conversation[c].turns[i]
  <2>0. "assistant" \in {"operator", "assistant"}
    OBVIOUS
  <2>1. TurnAdded(conversation[c], next, "assistant", r)
    BY <1>1, <1>3, <2>0, TurnTaken
  <2> HIDE DEF next
  <2> QED BY <2>1 DEF TurnAdded
<1>6a. n \in 1..n /\ conversation[c].turns[n].role = "operator"
  <2>1. RevisionReads(r)
    BY DEF ReadsInv
  <2>2. revision[r].base \in 1..Len(conversation[c].turns) /\ conversation[c].turns[revision[r].base].role = "operator"
    BY <1>1, <2>1 DEF RevisionReads
  <2> QED BY <1>1, <2>2
<1> HIDE DEF row, next
<1>7. /\ revision'[r] = row /\ \A s \in Revisions : s # r => revision'[s] = revision[s]
      /\ revision' \in [Revisions -> RevisionRows] /\ conversation'[c] = next
  BY <1>1, <1>2, <1>5 DEF ReadsInv, ConversationKinds
<1>8. \A s \in Revisions : s # r /\ InUse(s) => revision[s].on # c
  BY DEF ReadsInv, OneInUse, InUse
<1> HIDE DEF c, n
<1>9. OneInUse'
  BY <1>5, <1>7 DEF ReadsInv, OneInUse, InUse
<1>10. RevisionReads(r)'
  <2>1. next.turns[n] = conversation[c].turns[n] /\ n \in 1..(n + 1) /\ n < n + 1
    BY <1>3, <1>6, <1>6a
  <2>2. revision'[r].on = c /\ revision'[r].base = n /\ revision'[r].status = "succeeded"
    BY <1>1, <1>5, <1>7
  <2> QED BY <1>1, <1>6, <1>6a, <1>7, <2>1, <2>2 DEF RevisionReads, InUse
<1>11. \A s \in Revisions : (revision'[s] = revision[s] /\ (InUse(s) => revision[s].on # c)) \/ RevisionReads(s)'
  BY <1>7, <1>8, <1>10
<1>12. n < TurnLimit
  BY <1>1, <1>3
<1> QED BY <1>1, <1>2, <1>3, <1>7, <1>9, <1>11, <1>12, TurnReads DEF next, n

SnapshotKinds == snapshot \in [Conversations -> [made : BOOLEAN, version : Nat, turns : Turns, brief : Briefs]]

TriageRows == [on : 0..MaxConversations,
               status : {"none", "reserved", "running", "succeeded", "blocked", "failed"},
               contract : Contracts, calls : {0, 1}, claim : {"none", "active", "released"}]

\* Calls under way are awaited or lost, and nothing else holds capacity.
CallsInv ==
  /\ asked \subseteq ({"revision"} \X Revisions) \cup ({"triage"} \X Triages)
  /\ lost \subseteq ({"revision"} \X Revisions) \cup ({"triage"} \X Triages)
  /\ asked \cap lost = {}
  /\ \A r \in Revisions :
       /\ revision[r].status = "running" <=> revision[r].claim = "active"
       /\ revision[r].status = "running" <=> <<"revision", r>> \in asked \cup lost
  /\ \A t \in Triages :
       /\ triage[t].status = "running" <=> triage[t].claim = "active"
       /\ triage[t].status = "running" <=> <<"triage", t>> \in asked \cup lost

\* Of the triages of a snapshot all but one were blocked before their call.
TriagesInv ==
  /\ triage \in [Triages -> TriageRows]
  /\ \A t \in Triages :
       /\ triage[t].status = "none" <=> triage[t].on = 0
       /\ triage[t].status \in {"none", "reserved", "blocked"} => triage[t].calls = 0
  /\ \A t, u \in Triages :
       triage[t].on # 0 /\ triage[t].on = triage[u].on /\ triage[t].status # "blocked" /\ triage[u].status # "blocked"
         => t = u

\* A snapshot has one live correction or an admission, and its corrections one chain.
WorkInv ==
  /\ admission \in [Triages -> [status : {"none", "reserved", "succeeded"}, run : Nat]]
  /\ \A t \in Triages : admission[t].status # "none" => triage[t].status = "succeeded"
  /\ \A c \in Conversations :
       /\ \A d, e \in LiveCorrections(c) : d = e
       /\ HasAdmission(c) => LiveCorrections(c) = {}
       /\ \A d, e \in Corrections(c) : conversation[d].retries = conversation[e].retries => d = e

\* Runs are of admissions, one each, under the contract of the triage.
RunsInv ==
  /\ enrolled \in Contracts
  /\ runs \in Seq([key : Triages, contract : Contracts])
  /\ \A k \in 1..Len(runs) : /\ admission[runs[k].key].status # "none"
                             /\ runs[k].contract = triage[runs[k].key].contract
  /\ \A j, k \in 1..Len(runs) : runs[j].key = runs[k].key => j = k
  /\ \A t \in Triages : /\ admission[t].run <= Len(runs)
                        /\ admission[t].status = "succeeded" =>
                             admission[t].run \in 1..Len(runs) /\ runs[admission[t].run].key = t

IntakeInv == ReadsInv /\ SnapshotKinds /\ CallsInv /\ TriagesInv /\ WorkInv /\ RunsInv

LEMMA IntakeStarts == IntakeInit => IntakeInv
<1> SUFFICES ASSUME IntakeInit PROVE IntakeInv
  OBVIOUS
<1>1. /\ \A c \in Conversations : conversation[c] = NoConversation
      /\ \A r \in Revisions : revision[r] = NoRevision
      /\ \A t \in Triages : triage[t] = NoTriage /\ admission[t] = NoAdmission
      /\ NoTriage.status = "none" /\ NoTriage.on = 0 /\ NoTriage.calls = 0 /\ NoTriage.claim = "none"
      /\ NoAdmission.status = "none" /\ NoAdmission.run = 0
  BY DEF IntakeInit, NoTriage, NoAdmission
<1>2. SnapshotKinds
  <2>1. <<>> \in Turns /\ 0 \in Briefs
    BY IntakeBounds DEF Turns
  <2>2. NoSnapshot \in [made : BOOLEAN, version : Nat, turns : Turns, brief : Briefs]
    BY <2>1 DEF NoSnapshot
  <2> QED BY <2>2 DEF IntakeInit, SnapshotKinds
<1>3. CallsInv
  BY <1>1, FirstRows DEF IntakeInit, CallsInv
<1>4. TriagesInv
  <2>1. 0 \in 0..MaxConversations /\ 0 \in Contracts
    BY IntakeBounds DEF Contracts
  <2>2. NoTriage \in TriageRows
    BY <2>1 DEF NoTriage, TriageRows
  <2>3. triage \in [Triages -> TriageRows]
    BY <2>2 DEF IntakeInit
  <2> QED BY <1>1, <2>3 DEF TriagesInv
<1>5. WorkInv
  <2>1. \A c \in Conversations : Corrections(c) = {} /\ LiveCorrections(c) = {}
    BY <1>1, FirstRows, IntakeBounds DEF Corrections, LiveCorrections
  <2>2. NoAdmission \in [status : {"none", "reserved", "succeeded"}, run : Nat]
    BY DEF NoAdmission
  <2> QED BY <1>1, <2>1, <2>2 DEF IntakeInit, WorkInv
<1>6. RunsInv
  <2>1. runs = <<>> /\ Len(runs) = 0 /\ enrolled \in Contracts /\ runs \in Seq([key : Triages, contract : Contracts])
    BY DEF IntakeInit, Contracts
  <2> QED BY <1>1, <2>1 DEF RunsInv
<1> QED BY <1>2, <1>3, <1>4, <1>5, <1>6, ReadsStart DEF IntakeInv

LEMMA AskedRuns ==
  ASSUME CallsInv
  PROVE  /\ \A r \in Revisions : <<"revision", r>> \in asked => revision[r].status = "running"
         /\ \A t \in Triages : <<"triage", t>> \in asked => triage[t].status = "running"
BY DEF CallsInv

LEMMA ReadsStep == ASSUME IntakeInv, IntakeNext PROVE ReadsInv' /\ SnapshotKinds'
<1> USE DEF IntakeInv
<1>1. ASSUME UNCHANGED <<conversation, revision, snapshot>> PROVE ReadsInv'
  BY <1>1 DEF ReadsInv, ConversationKinds, OneInUse, InUse, ConversationsFollow, ConversationReads, RevisionReads
<1>2. ASSUME NEW c \in Conversations, Cancel(c) PROVE ReadsInv'
  BY <1>2, ConversationEnds DEF Cancel, SnapshotKinds
<1>3. ASSUME NEW c \in Conversations, Finalize(c) PROVE ReadsInv'
  BY <1>3, ConversationEnds DEF Finalize, SnapshotKinds
<1>4. ASSUME NEW r \in Revisions, SucceedRevision(r) PROVE ReadsInv'
  BY <1>4, AskedRuns, SucceedReads DEF SucceedRevision
<1>5. ASSUME NEW r \in Revisions, FailRevision(r) PROVE ReadsInv'
  BY <1>5, AskedRuns, FailReads DEF FailRevision
<1>6. ReadsInv'
  <2>1. CASE ContractEdited \/ IntakeStops
    BY <1>1, <2>1 DEF ContractEdited, IntakeStops
  <2>2. ASSUME NEW c \in Conversations, NEW t \in Triages, ReserveTriage(t, c) PROVE ReadsInv'
    BY <1>1, <2>2 DEF ReserveTriage
  <2>3. ASSUME NEW t \in Triages, ClaimTriage(t) \/ SettleTriage(t) \/ ReserveAdmission(t) \/ Admit(t) \/ AdmitAndStop(t)
        PROVE  ReadsInv'
    BY <1>1, <2>3 DEF ClaimTriage, SettleTriage, ReserveAdmission, Admit, AdmitAndStop
  <2> QED BY <1>2, <1>3, <1>4, <1>5, <2>1, <2>2, <2>3, CreateReads, CorrectReads, AppendReads, ReserveReads, ClaimReads
          DEF IntakeNext
<1>7. SnapshotKinds'
  <2>1. ASSUME NEW c \in Conversations, Finalize(c) PROVE SnapshotKinds'
    <3>1. [made |-> TRUE, version |-> conversation[c].version, turns |-> conversation[c].turns,
           brief |-> conversation[c].brief] \in [made : BOOLEAN, version : Nat, turns : Turns, brief : Briefs]
      BY RowKind
    <3> QED BY <2>1, <3>1 DEF Finalize, SnapshotKinds
  <2>2. CASE snapshot' = snapshot
    BY <2>2 DEF SnapshotKinds
  <2>3. snapshot' = snapshot \/ \E c \in Conversations : Finalize(c)
    BY ZenonT(40)
       DEF IntakeNext, ContractEdited, IntakeStops, Create, Cancel, Correct, AppendTurn, ReserveRevision, ReserveTriage,
           ClaimRevision, SucceedRevision, FailRevision, ClaimTriage, SettleTriage, ReserveAdmission, Admit, AdmitAndStop
  <2> QED BY <2>1, <2>2, <2>3
<1> QED BY <1>6, <1>7

\* The row of a revision is replaced, and the calls under way with it.
LEMMA RevisionCalls ==
  ASSUME ReadsInv, CallsInv, NEW r \in Revisions, \A s \in Revisions : s # r => revision'[s] = revision[s],
         UNCHANGED <<triage, lost>>,
         revision'[r].status = "running" <=> revision'[r].claim = "active",
         revision'[r].status = "running" <=> <<"revision", r>> \in asked',
         <<"revision", r>> \notin lost,
         asked' \cup {<<"revision", r>>} = asked \cup {<<"revision", r>>}
  PROVE  CallsInv'
<1>1. /\ \A s \in Revisions : s # r => <<"revision", s>> # <<"revision", r>>
      /\ \A t \in Triages : <<"triage", t>> # <<"revision", r>>
      /\ <<"revision", r>> \in ({"revision"} \X Revisions) \cup ({"triage"} \X Triages)
  OBVIOUS
<1>2. \A x : x # <<"revision", r>> => (x \in asked' <=> x \in asked)
  OBVIOUS
<1>3. /\ asked' \subseteq ({"revision"} \X Revisions) \cup ({"triage"} \X Triages)
      /\ asked' \cap lost = {}
  BY <1>1, <1>2 DEF CallsInv
<1>4. ASSUME NEW s \in Revisions
      PROVE  /\ revision'[s].status = "running" <=> revision'[s].claim = "active"
             /\ revision'[s].status = "running" <=> <<"revision", s>> \in asked' \cup lost
  <2>1. CASE s = r
    BY <2>1
  <2>2. CASE s # r
    BY <1>1, <1>2, <2>2 DEF CallsInv
  <2> QED BY <2>1, <2>2
<1>5. \A t \in Triages :
        /\ triage[t].status = "running" <=> triage[t].claim = "active"
        /\ triage[t].status = "running" <=> <<"triage", t>> \in asked' \cup lost
  BY <1>1, <1>2 DEF CallsInv
<1>6. lost \subseteq ({"revision"} \X Revisions) \cup ({"triage"} \X Triages)
  BY DEF CallsInv
<1> QED BY <1>3, <1>4, <1>5, <1>6 DEF CallsInv

LEMMA TriageCalls ==
  ASSUME CallsInv, NEW t \in Triages, \A u \in Triages : u # t => triage'[u] = triage[u],
         UNCHANGED <<revision, lost>>,
         triage'[t].status = "running" <=> triage'[t].claim = "active",
         triage'[t].status = "running" <=> <<"triage", t>> \in asked',
         <<"triage", t>> \notin lost,
         asked' \cup {<<"triage", t>>} = asked \cup {<<"triage", t>>}
  PROVE  CallsInv'
<1>1. /\ \A u \in Triages : u # t => <<"triage", u>> # <<"triage", t>>
      /\ \A r \in Revisions : <<"revision", r>> # <<"triage", t>>
      /\ <<"triage", t>> \in ({"revision"} \X Revisions) \cup ({"triage"} \X Triages)
  OBVIOUS
<1>2. \A x : x # <<"triage", t>> => (x \in asked' <=> x \in asked)
  OBVIOUS
<1>3. /\ asked' \subseteq ({"revision"} \X Revisions) \cup ({"triage"} \X Triages)
      /\ asked' \cap lost = {}
  BY <1>1, <1>2 DEF CallsInv
<1>4. ASSUME NEW u \in Triages
      PROVE  /\ triage'[u].status = "running" <=> triage'[u].claim = "active"
             /\ triage'[u].status = "running" <=> <<"triage", u>> \in asked' \cup lost
  <2>1. CASE u = t
    BY <2>1
  <2>2. CASE u # t
    BY <1>1, <1>2, <2>2 DEF CallsInv
  <2> QED BY <2>1, <2>2
<1>5. \A r \in Revisions :
        /\ revision[r].status = "running" <=> revision[r].claim = "active"
        /\ revision[r].status = "running" <=> <<"revision", r>> \in asked' \cup lost
  BY <1>1, <1>2 DEF CallsInv
<1>6. lost \subseteq ({"revision"} \X Revisions) \cup ({"triage"} \X Triages)
  BY DEF CallsInv
<1> QED BY <1>3, <1>4, <1>5, <1>6 DEF CallsInv

\* The rows of a revision and of a triage before and after a step.
LEMMA RevisionMoves ==
  ASSUME ReadsInv, NEW r \in Revisions, NEW s \in {"reserved", "running", "succeeded", "failed"},
         \/ s = "reserved" /\ \E c \in Conversations : ReserveRevision(r, c)
         \/ s = "running" /\ ClaimRevision(r)
         \/ s = "succeeded" /\ SucceedRevision(r) /\ InUse(r)
         \/ s = "failed" /\ FailRevision(r)
  PROVE  /\ \A q \in Revisions : q # r => revision'[q] = revision[q]
         /\ revision'[r].status = s
         /\ revision'[r].claim = CASE s = "reserved" -> "none" [] s = "running" -> "active" [] OTHER -> "released"
         /\ revision'[r].calls = CASE s = "reserved" -> 0 [] s = "running" -> 1 [] OTHER -> revision[r].calls
<1>1. revision \in [Revisions -> RevisionRows] /\ revision[r] \in RevisionRows
  BY DEF ReadsInv, ConversationKinds
<1>2. ASSUME NEW c \in Conversations, ReserveRevision(r, c), s = "reserved"
      PROVE  /\ \A q \in Revisions : q # r => revision'[q] = revision[q]
             /\ revision'[r].status = s /\ revision'[r].claim = "none" /\ revision'[r].calls = 0
  BY <1>1, <1>2 DEF ReserveRevision, NoRevision
<1>3. ASSUME ClaimRevision(r), s = "running"
      PROVE  /\ \A q \in Revisions : q # r => revision'[q] = revision[q]
             /\ revision'[r].status = s /\ revision'[r].claim = "active" /\ revision'[r].calls = 1
  BY <1>1, <1>3 DEF ClaimRevision, RevisionRows
<1>4. ASSUME SucceedRevision(r), InUse(r), s = "succeeded"
      PROVE  /\ \A q \in Revisions : q # r => revision'[q] = revision[q]
             /\ revision'[r].status = s /\ revision'[r].claim = "released" /\ revision'[r].calls = revision[r].calls
  <2>1. InContext(r)
    BY <1>4, ContextStands
  <2> QED BY <1>1, <1>4, <2>1 DEF SucceedRevision, RevisionRows
<1>5. ASSUME FailRevision(r), s = "failed"
      PROVE  /\ \A q \in Revisions : q # r => revision'[q] = revision[q]
             /\ revision'[r].status = s /\ revision'[r].claim = "released" /\ revision'[r].calls = revision[r].calls
  BY <1>1, <1>5 DEF FailRevision, RevisionRows
<1> QED BY <1>2, <1>3, <1>4, <1>5

LEMMA TriageReplaced ==
  ASSUME NEW O, NEW S, NEW P, NEW K, NEW C,
         NEW x \in [on : O, status : S, contract : P, calls : K, claim : C],
         NEW o \in O, NEW s \in S, NEW p \in P, NEW k \in K, NEW c \in C
  PROVE  /\ LET y == [x EXCEPT !.on = o, !.status = s, !.contract = p] IN
              /\ y \in [on : O, status : S, contract : P, calls : K, claim : C]
              /\ y.on = o /\ y.status = s /\ y.contract = p /\ y.calls = x.calls /\ y.claim = x.claim
         /\ LET y == [x EXCEPT !.status = s] IN
              /\ y \in [on : O, status : S, contract : P, calls : K, claim : C]
              /\ y.on = x.on /\ y.status = s /\ y.contract = x.contract /\ y.calls = x.calls /\ y.claim = x.claim
         /\ LET y == [x EXCEPT !.status = s, !.calls = k, !.claim = c] IN
              /\ y \in [on : O, status : S, contract : P, calls : K, claim : C]
              /\ y.on = x.on /\ y.status = s /\ y.contract = x.contract /\ y.calls = k /\ y.claim = c
         /\ LET y == [x EXCEPT !.status = s, !.claim = c] IN
              /\ y \in [on : O, status : S, contract : P, calls : K, claim : C]
              /\ y.on = x.on /\ y.status = s /\ y.contract = x.contract /\ y.calls = x.calls /\ y.claim = c
OBVIOUS

LEMMA TriageKind ==
  ASSUME TriagesInv, NEW t \in Triages
  PROVE  /\ triage[t] \in [on : 0..MaxConversations,
               status : {"none", "reserved", "running", "succeeded", "blocked", "failed"},
               contract : Contracts, calls : {0, 1}, claim : {"none", "active", "released"}]
         /\ triage[t].on \in 0..MaxConversations /\ triage[t].calls \in {0, 1} /\ triage[t].contract \in Contracts
         /\ triage[t].claim \in {"none", "active", "released"}
<1>1. triage[t] \in TriageRows
  BY DEF TriagesInv
<1> QED BY <1>1 DEF TriageRows

LEMMA TriageWords ==
  /\ "reserved" \in {"none", "reserved", "running", "succeeded", "blocked", "failed"}
  /\ "running" \in {"none", "reserved", "running", "succeeded", "blocked", "failed"}
  /\ "succeeded" \in {"none", "reserved", "running", "succeeded", "blocked", "failed"}
  /\ "blocked" \in {"none", "reserved", "running", "succeeded", "blocked", "failed"}
  /\ "failed" \in {"none", "reserved", "running", "succeeded", "blocked", "failed"}
  /\ "none" \in {"none", "active", "released"} /\ "active" \in {"none", "active", "released"}
  /\ "released" \in {"none", "active", "released"} /\ 1 \in {0, 1} /\ 0 \in {0, 1}
OBVIOUS

\* A triage moves from its reservation to its settlement: what it was made of stays.
TriageMoved(t) ==
  /\ triage' \in [Triages -> TriageRows]
  /\ \A u \in Triages : u # t => triage'[u] = triage[u]
  /\ triage[t].status \in {"none", "reserved", "running"}
  /\ \/ /\ triage[t].status = "none" /\ \A u \in Triages : triage[u].on = triage'[t].on => triage[u].status = "blocked"
        /\ triage'[t].on \in Conversations /\ triage'[t].status = "reserved" /\ triage'[t].calls = 0
        /\ triage'[t].claim = "none" /\ asked' = asked
     \/ /\ triage[t].status # "none" /\ triage'[t].on = triage[t].on /\ triage'[t].contract = triage[t].contract
        /\ \/ triage[t].status = "reserved" /\ triage'[t].status = "blocked" /\ triage'[t].calls = triage[t].calls
              /\ triage'[t].claim = triage[t].claim /\ asked' = asked
           \/ triage[t].status = "reserved" /\ triage'[t].status = "running" /\ triage'[t].calls = 1
              /\ triage'[t].claim = "active" /\ asked' = asked \cup {<<"triage", t>>}
           \/ triage[t].status = "running" /\ triage'[t].status \in {"succeeded", "failed"}
              /\ triage'[t].claim = "released" /\ <<"triage", t>> \in asked /\ asked' = asked \ {<<"triage", t>>}
  /\ UNCHANGED <<conversation, revision, snapshot, admission, runs, enrolled, lost>>

LEMMA TriageMoves ==
  ASSUME IntakeInv, NEW t \in Triages,
         (\E c \in Conversations : ReserveTriage(t, c)) \/ ClaimTriage(t) \/ SettleTriage(t)
  PROVE  TriageMoved(t)
<1> USE DEF IntakeInv
<1>1. triage \in [Triages -> TriageRows] /\ enrolled \in Contracts
  BY DEF TriagesInv, RunsInv
<1>1a. /\ triage[t] \in [on : 0..MaxConversations,
               status : {"none", "reserved", "running", "succeeded", "blocked", "failed"},
               contract : Contracts, calls : {0, 1}, claim : {"none", "active", "released"}]
       /\ triage[t].on \in 0..MaxConversations /\ triage[t].calls \in {0, 1} /\ triage[t].contract \in Contracts
       /\ triage[t].claim \in {"none", "active", "released"}
  BY TriageKind
<1> HIDE DEF IntakeInv
<1>2. ASSUME NEW c \in Conversations, ReserveTriage(t, c) PROVE TriageMoved(t)
  <2> DEFINE row == [NoTriage EXCEPT !.on = c, !.status = "reserved", !.contract = enrolled]
  <2>1. /\ triage' = [triage EXCEPT ![t] = row] /\ triage[t].status = "none"
        /\ \A u \in Triages : triage[u].on = c => triage[u].status = "blocked"
        /\ UNCHANGED <<conversation, revision, snapshot, admission, runs, enrolled, lost, asked>>
    BY <1>1, <1>2 DEF ReserveTriage, Fresh, MayTriage
  <2>2. /\ row \in TriageRows /\ row.on = c /\ row.status = "reserved" /\ row.calls = 0 /\ row.claim = "none"
    <3>1. c \in 0..MaxConversations
      BY IntakeBounds DEF Conversations
    <3> QED BY <1>1, <3>1 DEF NoTriage, TriageRows
  <2> HIDE DEF row
  <2>3. triage'[t] = row /\ \A u \in Triages : u # t => triage'[u] = triage[u]
    BY <1>1, <2>1
  <2>4. triage' \in [Triages -> TriageRows]
    BY <1>1, <2>1, <2>2
  <2> QED BY <2>1, <2>2, <2>3, <2>4 DEF TriageMoved
<1>3. ASSUME ClaimTriage(t), enrolled # triage[t].contract PROVE TriageMoved(t)
  <2> DEFINE row == [triage[t] EXCEPT !.status = "blocked"]
  <2>1. /\ triage' = [triage EXCEPT ![t] = row] /\ triage[t].status = "reserved"
        /\ UNCHANGED <<conversation, revision, snapshot, admission, runs, enrolled, lost, asked>>
    BY <1>1, <1>3 DEF ClaimTriage
  <2>2. /\ row \in TriageRows /\ row.on = triage[t].on /\ row.status = "blocked" /\ row.calls = triage[t].calls
        /\ row.claim = triage[t].claim /\ row.contract = triage[t].contract
    BY <1>1a, TriageWords, TriageReplaced, Zenon DEF TriageRows
  <2> HIDE DEF row
  <2>3. triage'[t] = row /\ \A u \in Triages : u # t => triage'[u] = triage[u]
    BY <1>1, <2>1
  <2>4. triage' \in [Triages -> TriageRows]
    BY <1>1, <2>1, <2>2
  <2> QED BY <2>1, <2>2, <2>3, <2>4 DEF TriageMoved
<1>4. ASSUME ClaimTriage(t), enrolled = triage[t].contract PROVE TriageMoved(t)
  <2> DEFINE row == [triage[t] EXCEPT !.status = "running", !.calls = 1, !.claim = "active"]
  <2>1. /\ triage' = [triage EXCEPT ![t] = row] /\ triage[t].status = "reserved"
        /\ asked' = asked \cup {<<"triage", t>>}
        /\ UNCHANGED <<conversation, revision, snapshot, admission, runs, enrolled, lost>>
    BY <1>1, <1>4 DEF ClaimTriage
  <2>2. /\ row \in TriageRows /\ row.on = triage[t].on /\ row.status = "running" /\ row.calls = 1
        /\ row.claim = "active" /\ row.contract = triage[t].contract
    BY <1>1a, TriageWords, TriageReplaced, Zenon DEF TriageRows
  <2> HIDE DEF row
  <2>3. triage'[t] = row /\ \A u \in Triages : u # t => triage'[u] = triage[u]
    BY <1>1, <2>1
  <2>4. triage' \in [Triages -> TriageRows]
    BY <1>1, <2>1, <2>2
  <2> QED BY <2>1, <2>2, <2>3, <2>4 DEF TriageMoved
<1>5. ASSUME SettleTriage(t) PROVE TriageMoved(t)
  <2>0. PICK s \in {"succeeded", "failed"} : triage' = [triage EXCEPT ![t].status = s, ![t].claim = "released"]
    BY <1>5 DEF SettleTriage
  <2> DEFINE row == [triage[t] EXCEPT !.status = s, !.claim = "released"]
  <2>1. /\ triage' = [triage EXCEPT ![t] = row] /\ triage[t].status = "running"
        /\ <<"triage", t>> \in asked /\ asked' = asked \ {<<"triage", t>>}
        /\ UNCHANGED <<conversation, revision, snapshot, admission, runs, enrolled, lost>>
    BY <1>1, <1>5, <2>0, AskedRuns DEF SettleTriage, IntakeInv
  <2>2. s \in {"none", "reserved", "running", "succeeded", "blocked", "failed"}
    OBVIOUS
  <2>3. /\ row \in TriageRows /\ row.on = triage[t].on /\ row.status = s
        /\ row.claim = "released" /\ row.contract = triage[t].contract
    BY <1>1a, <2>2, TriageWords, TriageReplaced, Zenon DEF TriageRows
  <2> HIDE DEF row
  <2>4. triage'[t] = row /\ \A u \in Triages : u # t => triage'[u] = triage[u]
    BY <1>1, <2>1
  <2>5. triage' \in [Triages -> TriageRows]
    BY <1>1, <2>1, <2>3
  <2> QED BY <2>1, <2>3, <2>4, <2>5 DEF TriageMoved
<1> QED BY <1>2, <1>3, <1>4, <1>5

LEMMA TriageMovedFits ==
  ASSUME IntakeInv, NEW t \in Triages, TriageMoved(t)
  PROVE  TriagesInv' /\ CallsInv'
<1> USE DEF IntakeInv
<1>1. /\ \A u \in Triages : u # t => triage'[u] = triage[u]
      /\ UNCHANGED <<revision, lost>> /\ triage'[t] \in TriageRows
  BY DEF TriageMoved
<1>2. triage[t].status = "running" <=> <<"triage", t>> \in asked \cup lost
  BY DEF CallsInv
<1>3. <<"triage", t>> \in asked => <<"triage", t>> \notin lost
  BY DEF CallsInv
<1>4. triage[t].status = "running" <=> triage[t].claim = "active"
  BY DEF CallsInv
<1>5. CallsInv'
  <2>1. <<"triage", t>> \notin lost
    BY <1>2, <1>3 DEF TriageMoved
  <2>2. triage'[t].status = "running" <=> triage'[t].claim = "active"
    BY <1>4 DEF TriageMoved
  <2>3. triage'[t].status = "running" <=> <<"triage", t>> \in asked'
    BY <1>2, <2>1 DEF TriageMoved
  <2>4. asked' \cup {<<"triage", t>>} = asked \cup {<<"triage", t>>}
    BY DEF TriageMoved
  <2> QED BY <1>1, <2>1, <2>2, <2>3, <2>4, TriageCalls
<1>6. TriagesInv'
  <2>1. triage' \in [Triages -> TriageRows]
    BY DEF TriageMoved
  <2>2. ASSUME NEW u \in Triages
        PROVE  /\ triage'[u].status = "none" <=> triage'[u].on = 0
               /\ triage'[u].status \in {"none", "reserved", "blocked"} => triage'[u].calls = 0
    <3>1. CASE u # t
      BY <1>1, <3>1 DEF TriagesInv
    <3>2. CASE u = t
      <4>1. /\ triage[t].status = "none" <=> triage[t].on = 0
            /\ triage[t].status \in {"none", "reserved", "blocked"} => triage[t].calls = 0
        BY DEF TriagesInv
      <4> QED BY <3>2, <4>1, IntakeBounds DEF TriageMoved
    <3> QED BY <3>1, <3>2
  <2>3. ASSUME NEW u \in Triages, NEW v \in Triages, triage'[u].on # 0, triage'[u].on = triage'[v].on,
               triage'[u].status # "blocked", triage'[v].status # "blocked"
        PROVE  u = v
    <3>1. CASE triage[t].status = "none"
      BY <1>1, <2>3, <3>1 DEF TriageMoved, TriagesInv
    <3>2. CASE triage[t].status # "none"
      <4>1. /\ triage'[t].on = triage[t].on /\ triage[t].status # "blocked"
        BY <3>2 DEF TriageMoved
      <4> QED BY <1>1, <2>3, <4>1 DEF TriagesInv
    <3> QED BY <3>1, <3>2
  <2> QED BY <2>1, <2>2, <2>3 DEF TriagesInv
<1> QED BY <1>5, <1>6

\* A step is one of a triage, or leaves the triages alone.
LEMMA TriagesMove ==
  ASSUME IntakeInv, IntakeNext
  PROVE  UNCHANGED triage \/ \E t \in Triages : TriageMoved(t)
<1>1. ASSUME NEW t \in Triages, (\E c \in Conversations : ReserveTriage(t, c)) \/ ClaimTriage(t) \/ SettleTriage(t)
      PROVE  TriageMoved(t)
  BY <1>1, TriageMoves
<1>2. ASSUME NEW c \in Conversations,
             Create(c) \/ Cancel(c) \/ Finalize(c) \/ (\E d \in Conversations : Correct(c, d))
             \/ AppendTurn(c, "operator", 0) \/ (\E r \in Revisions : ReserveRevision(r, c))
      PROVE  UNCHANGED triage
  BY <1>2 DEF Create, Cancel, Finalize, Correct, AppendTurn, ReserveRevision
<1>3. ASSUME NEW r \in Revisions, ClaimRevision(r) \/ SucceedRevision(r) \/ FailRevision(r) PROVE UNCHANGED triage
  BY <1>3 DEF ClaimRevision, SucceedRevision, FailRevision
<1>4. ASSUME NEW t \in Triages, ReserveAdmission(t) \/ Admit(t) \/ AdmitAndStop(t) PROVE UNCHANGED triage
  BY <1>4 DEF ReserveAdmission, Admit, AdmitAndStop
<1>5. CASE ContractEdited \/ IntakeStops
  BY <1>5 DEF ContractEdited, IntakeStops
<1> QED BY <1>1, <1>2, <1>3, <1>4, <1>5 DEF IntakeNext

LEMMA RevisionsMove ==
  ASSUME IntakeInv, NEW r \in Revisions,
         (\E c \in Conversations : ReserveRevision(r, c)) \/ ClaimRevision(r) \/ SucceedRevision(r) \/ FailRevision(r)
  PROVE  CallsInv' /\ revision'[r].calls \in {0, 1} /\ UNCHANGED triage
<1> USE DEF IntakeInv
<1>1. /\ <<"revision", r>> \in asked => <<"revision", r>> \notin lost
      /\ revision[r].status = "running" <=> <<"revision", r>> \in asked \cup lost
  BY DEF CallsInv
<1>2. revision[r].calls \in {0, 1}
  BY RevisionKind
<1>3. UNCHANGED <<triage, lost>>
  BY DEF ReserveRevision, ClaimRevision, SucceedRevision, FailRevision
<1>4. ASSUME NEW c \in Conversations, ReserveRevision(r, c) PROVE CallsInv' /\ revision'[r].calls \in {0, 1}
  <2>1. revision[r].status = "none" /\ asked' = asked
    BY <1>4 DEF ReserveRevision, Fresh
  <2>2. /\ \A q \in Revisions : q # r => revision'[q] = revision[q]
        /\ revision'[r].status = "reserved" /\ revision'[r].claim = "none" /\ revision'[r].calls = 0
    BY <1>4, RevisionMoves
  <2> QED BY <1>1, <1>3, <2>1, <2>2, RevisionCalls
<1>5. ASSUME ClaimRevision(r) PROVE CallsInv' /\ revision'[r].calls \in {0, 1}
  <2>1. revision[r].status = "reserved" /\ asked' = asked \cup {<<"revision", r>>}
    BY <1>5 DEF ClaimRevision
  <2>2. /\ \A q \in Revisions : q # r => revision'[q] = revision[q]
        /\ revision'[r].status = "running" /\ revision'[r].claim = "active" /\ revision'[r].calls = 1
    BY <1>5, RevisionMoves
  <2> QED BY <1>1, <1>3, <2>1, <2>2, RevisionCalls
<1>6. ASSUME SucceedRevision(r) PROVE CallsInv' /\ revision'[r].calls \in {0, 1}
  <2>1. <<"revision", r>> \in asked /\ asked' = asked \ {<<"revision", r>>}
    BY <1>6 DEF SucceedRevision
  <2>2. InUse(r)
    BY <1>1, <2>1 DEF InUse
  <2>3. /\ \A q \in Revisions : q # r => revision'[q] = revision[q]
        /\ revision'[r].status = "succeeded" /\ revision'[r].claim = "released" /\ revision'[r].calls = revision[r].calls
    BY <1>6, <2>2, RevisionMoves
  <2> QED BY <1>1, <1>2, <1>3, <2>1, <2>3, RevisionCalls
<1>7. ASSUME FailRevision(r) PROVE CallsInv' /\ revision'[r].calls \in {0, 1}
  <2>1. <<"revision", r>> \in asked /\ asked' = asked \ {<<"revision", r>>}
    BY <1>7 DEF FailRevision
  <2>2. /\ \A q \in Revisions : q # r => revision'[q] = revision[q]
        /\ revision'[r].status = "failed" /\ revision'[r].claim = "released" /\ revision'[r].calls = revision[r].calls
    BY <1>7, RevisionMoves
  <2> QED BY <1>1, <1>2, <1>3, <2>1, <2>2, RevisionCalls
<1> QED BY <1>3, <1>4, <1>5, <1>6, <1>7

LEMMA CallsStep == ASSUME IntakeInv, IntakeNext PROVE CallsInv' /\ TriagesInv'
<1>1. ASSUME UNCHANGED triage PROVE TriagesInv'
  BY <1>1 DEF IntakeInv, TriagesInv
<1>2. ASSUME UNCHANGED <<revision, triage, asked, lost>> PROVE CallsInv'
  BY <1>2 DEF IntakeInv, CallsInv
<1>3. ASSUME UNCHANGED <<revision, triage>>, asked' = {}, lost' = lost \cup asked PROVE CallsInv'
  BY <1>3 DEF IntakeInv, CallsInv
<1>4. ASSUME NEW t \in Triages, (\E c \in Conversations : ReserveTriage(t, c)) \/ ClaimTriage(t) \/ SettleTriage(t)
      PROVE  CallsInv' /\ TriagesInv'
  BY <1>4, TriageMoves, TriageMovedFits
<1>5. ASSUME NEW c \in Conversations,
             Create(c) \/ Cancel(c) \/ Finalize(c) \/ (\E d \in Conversations : Correct(c, d))
             \/ AppendTurn(c, "operator", 0)
      PROVE  CallsInv' /\ TriagesInv'
  BY <1>1, <1>2, <1>5 DEF Create, Cancel, Finalize, Correct, AppendTurn
<1>6. ASSUME NEW r \in Revisions, (\E c \in Conversations : ReserveRevision(r, c)) \/ ClaimRevision(r)
                                  \/ SucceedRevision(r) \/ FailRevision(r)
      PROVE  CallsInv' /\ TriagesInv'
  BY <1>1, <1>6, RevisionsMove
<1>7. ASSUME NEW t \in Triages, ReserveAdmission(t) \/ Admit(t) \/ AdmitAndStop(t)
      PROVE  CallsInv' /\ TriagesInv'
  <2>1. CASE ReserveAdmission(t) \/ Admit(t)
    BY <1>1, <1>2, <2>1 DEF ReserveAdmission, Admit
  <2>2. CASE AdmitAndStop(t)
    BY <1>1, <1>3, <2>2 DEF AdmitAndStop
  <2> QED BY <1>7, <2>1, <2>2
<1>8. CASE ContractEdited \/ IntakeStops
  BY <1>1, <1>2, <1>3, <1>8 DEF ContractEdited, IntakeStops
<1> QED BY <1>4, <1>5, <1>6, <1>7, <1>8 DEF IntakeNext

\* What an admitted triage was made of stays, and no triage changes its snapshot.
LEMMA AdmittedStays ==
  ASSUME IntakeInv, IntakeNext
  PROVE  /\ \A t \in Triages : admission[t].status # "none" => triage'[t] = triage[t]
         /\ \A t \in Triages : triage[t].on # 0 => triage'[t].on = triage[t].on
<1>1. \A t \in Triages : admission[t].status # "none" => triage[t].status = "succeeded"
  BY DEF IntakeInv, WorkInv
<1>2. \A t \in Triages : triage[t].status = "none" <=> triage[t].on = 0
  BY DEF IntakeInv, TriagesInv
<1>3. CASE UNCHANGED triage
  BY <1>3
<1>4. ASSUME NEW u \in Triages, TriageMoved(u)
      PROVE  /\ \A t \in Triages : admission[t].status # "none" => triage'[t] = triage[t]
             /\ \A t \in Triages : triage[t].on # 0 => triage'[t].on = triage[t].on
  BY <1>1, <1>2, <1>4 DEF TriageMoved
<1> QED BY <1>3, <1>4, TriagesMove

\* Short of a correction conversations correct and retry what they did, and none that
\* was cancelled comes back.
CorrectionsStay ==
  \A d \in Conversations :
    /\ conversation'[d].corrects = conversation[d].corrects /\ conversation'[d].retries = conversation[d].retries
    /\ conversation'[d].status # "cancelled" => conversation[d].status # "cancelled"

LEMMA ConversationsMove ==
  ASSUME IntakeInv, IntakeNext
  PROVE  CorrectionsStay \/ \E c, d \in Conversations : Correct(c, d)
<1> USE DEF IntakeInv
<1>0. conversation \in [Conversations -> ConversationRows]
  BY DEF ReadsInv, ConversationKinds
<1>1. ASSUME UNCHANGED conversation PROVE CorrectionsStay
  BY <1>1 DEF CorrectionsStay
<1>2. ASSUME NEW c \in Conversations, Create(c) PROVE CorrectionsStay
  <2> DEFINE row == [NoConversation EXCEPT !.status = "active", !.version = 1]
  <2>1. conversation' = [conversation EXCEPT ![c] = row] /\ conversation[c].status = "none"
    BY <1>2 DEF Create, Fresh
  <2>2. row.corrects = 0 /\ row.retries = 0
    BY DEF NoConversation
  <2>3. conversation[c].corrects = 0 /\ conversation[c].retries = 0
    BY <2>1, RowKind DEF ConversationReads
  <2> HIDE DEF row
  <2> QED BY <1>0, <2>1, <2>2, <2>3 DEF CorrectionsStay
<1>3. ASSUME NEW c \in Conversations, Cancel(c) \/ Finalize(c) PROVE CorrectionsStay
  <2>1. PICK s \in {"cancelled", "finalized"} :
          conversation' = [conversation EXCEPT ![c].status = s, ![c].version = @ + 1]
    BY <1>3 DEF Cancel, Finalize
  <2>2. conversation[c].status = "active" /\ conversation[c] \in ConversationRows
    BY <1>0, <1>3 DEF Cancel, Finalize
  <2>3. /\ conversation'[c].corrects = conversation[c].corrects /\ conversation'[c].retries = conversation[c].retries
        /\ \A d \in Conversations : d # c => conversation'[d] = conversation[d]
    BY <1>0, <2>1, <2>2 DEF ConversationRows
  <2> QED BY <2>2, <2>3 DEF CorrectionsStay
<1>4. ASSUME NEW c \in Conversations, conversation[c].status = "active", NEW role \in {"operator", "assistant"},
             NEW brief \in Briefs, conversation' = [conversation EXCEPT ![c] = WithTurn(conversation[c], role, brief)]
      PROVE  CorrectionsStay
  <2>1. TurnAdded(conversation[c], WithTurn(conversation[c], role, brief), role, brief)
    BY <1>4, TurnTaken
  <2>2. /\ conversation'[c].corrects = conversation[c].corrects /\ conversation'[c].retries = conversation[c].retries
        /\ \A d \in Conversations : d # c => conversation'[d] = conversation[d]
    BY <1>0, <1>4, <2>1 DEF TurnAdded
  <2> QED BY <1>4, <2>2 DEF CorrectionsStay
<1>5. ASSUME NEW c \in Conversations, AppendTurn(c, "operator", 0) PROVE CorrectionsStay
  <2>1. conversation' = [conversation EXCEPT ![c] = WithTurn(conversation[c], "operator", 0)]
        /\ conversation[c].status = "active"
    BY <1>0, <1>5 DEF AppendTurn
  <2> QED BY <1>4, <2>1, IntakeBounds
<1>6. ASSUME NEW c \in Conversations, NEW r \in Revisions, ReserveRevision(r, c) PROVE CorrectionsStay
  <2>1. conversation' = [conversation EXCEPT ![c] = WithTurn(conversation[c], "operator", conversation[c].brief)]
        /\ conversation[c].status = "active" /\ conversation[c].brief \in Briefs
    BY <1>0, <1>6, RowKind DEF ReserveRevision
  <2> QED BY <1>4, <2>1
<1>7. ASSUME NEW r \in Revisions, SucceedRevision(r) PROVE CorrectionsStay
  <2>1. InUse(r)
    BY <1>7, AskedRuns DEF SucceedRevision, InUse
  <2>2. revision[r].on \in Conversations /\ conversation[revision[r].on].status = "active" /\ InContext(r)
    BY <2>1, ContextStands
  <2>3. conversation' = [conversation EXCEPT ![revision[r].on] = WithTurn(conversation[revision[r].on], "assistant", r)]
    BY <1>0, <1>7, <2>2 DEF SucceedRevision
  <2> QED BY <1>4, <2>2, <2>3, IntakeBounds
<1>8. ASSUME NEW r \in Revisions, ClaimRevision(r) \/ FailRevision(r) PROVE CorrectionsStay
  BY <1>1, <1>8 DEF ClaimRevision, FailRevision
<1>9. ASSUME NEW t \in Triages, \/ (\E c \in Conversations : ReserveTriage(t, c)) \/ ClaimTriage(t) \/ SettleTriage(t)
                                \/ ReserveAdmission(t) \/ Admit(t) \/ AdmitAndStop(t)
      PROVE CorrectionsStay
  BY <1>1, <1>9 DEF ReserveTriage, ClaimTriage, SettleTriage, ReserveAdmission, Admit, AdmitAndStop
<1>10. CASE ContractEdited \/ IntakeStops
  BY <1>1, <1>10 DEF ContractEdited, IntakeStops
<1> QED BY <1>2, <1>3, <1>5, <1>6, <1>7, <1>8, <1>9, <1>10 DEF IntakeNext

\* The row of an admission, and the runs, before and after a step.
AdmissionRows == [status : {"none", "reserved", "succeeded"}, run : Nat]

AdmissionReserved(t) ==
  /\ triage[t].status = "succeeded" /\ LiveCorrections(triage[t].on) = {} /\ admission[t].status = "none"
  /\ admission'[t].status = "reserved" /\ admission'[t].run = admission[t].run
  /\ UNCHANGED <<conversation, triage, runs, enrolled>>

RunMade(t) ==
  \/ RunsOf(t) # {} /\ runs' = runs
  \/ RunsOf(t) = {} /\ runs' = Append(runs, [key |-> t, contract |-> triage[t].contract])

AdmissionMoved(t) ==
  /\ admission' \in [Triages -> AdmissionRows]
  /\ \A u \in Triages : u # t => admission'[u] = admission[u]
  /\ \/ AdmissionReserved(t)
     \/ /\ admission[t].status = "reserved" /\ RunMade(t) /\ UNCHANGED <<conversation, triage, enrolled>>
        /\ \/ admission'[t].status = "succeeded" /\ admission'[t].run \in DOMAIN runs'
              /\ runs'[admission'[t].run].key = t
           \/ admission'[t] = admission[t]

LEMMA RunKind ==
  ASSUME IntakeInv
  PROVE  /\ runs \in Seq([key : Triages, contract : Contracts]) /\ DOMAIN runs = 1..Len(runs) /\ Len(runs) \in Nat
         /\ admission \in [Triages -> AdmissionRows]
BY DEF IntakeInv, RunsInv, WorkInv, AdmissionRows

LEMMA RunAppended ==
  ASSUME IntakeInv, NEW t \in Triages
  PROVE  LET more == Append(runs, [key |-> t, contract |-> triage[t].contract]) IN
           /\ more \in Seq([key : Triages, contract : Contracts]) /\ Len(more) = Len(runs) + 1
           /\ DOMAIN more = 1..Len(more)
           /\ more[Len(runs) + 1].key = t /\ more[Len(runs) + 1].contract = triage[t].contract
           /\ \A k \in 1..Len(runs) : more[k] = runs[k]
<1> DEFINE run == [key |-> t, contract |-> triage[t].contract]
           T == [key : Triages, contract : Contracts]
<1>1. runs \in Seq(T)
  BY RunKind
<1>2. triage[t].contract \in Contracts
  BY TriageKind DEF IntakeInv
<1>3. run \in T /\ run.key = t /\ run.contract = triage[t].contract
  BY <1>2
<1> HIDE DEF run, T
<1>4. LET more == Append(runs, run) IN
        /\ more \in Seq(T) /\ Len(more) = Len(runs) + 1 /\ DOMAIN more = 1..Len(more)
        /\ more[Len(runs) + 1] = run /\ \A k \in 1..Len(runs) : more[k] = runs[k]
  BY <1>1, <1>3
<1> QED BY <1>3, <1>4 DEF run, T

LEMMA AdmissionMoves ==
  ASSUME IntakeInv, NEW t \in Triages, ReserveAdmission(t) \/ Admit(t) \/ AdmitAndStop(t)
  PROVE  AdmissionMoved(t)
<1>0. /\ admission \in [Triages -> AdmissionRows] /\ admission[t] \in AdmissionRows
      /\ DOMAIN runs = 1..Len(runs) /\ Len(runs) \in Nat
  BY RunKind
<1>1. ASSUME ReserveAdmission(t) PROVE AdmissionMoved(t)
  <2>1. /\ admission' = [admission EXCEPT ![t].status = "reserved"] /\ triage[t].status = "succeeded"
        /\ LiveCorrections(triage[t].on) = {} /\ admission[t].status = "none"
        /\ UNCHANGED <<conversation, triage, runs, enrolled>>
    BY <1>1 DEF ReserveAdmission
  <2>2. /\ admission' \in [Triages -> AdmissionRows] /\ \A u \in Triages : u # t => admission'[u] = admission[u]
        /\ admission'[t].status = "reserved" /\ admission'[t].run = admission[t].run
    BY <1>0, <2>1 DEF AdmissionRows
  <2> QED BY <2>1, <2>2 DEF AdmissionMoved, AdmissionReserved
<1>2. ASSUME LedgerAdmits(t) PROVE RunMade(t)
  BY <1>2 DEF LedgerAdmits, RunMade
<1>3. ASSUME RunMade(t) PROVE DOMAIN runs' \in SUBSET Nat
  <2>1. CASE runs' = runs
    BY <1>0, <2>1
  <2>2. CASE runs' = Append(runs, [key |-> t, contract |-> triage[t].contract])
    <3>1. DOMAIN runs' = 1..Len(runs') /\ Len(runs') = Len(runs) + 1
      BY <2>2, RunAppended
    <3> QED BY <1>0, <3>1
  <2> QED BY <1>3, <2>1, <2>2 DEF RunMade
<1>4. ASSUME Admit(t) PROVE AdmissionMoved(t)
  <2>1. PICK k \in DOMAIN runs' : runs'[k].key = t /\ admission' = [admission EXCEPT ![t] = [status |-> "succeeded", run |-> k]]
    BY <1>4 DEF Admit
  <2>2. RunMade(t) /\ admission[t].status = "reserved" /\ UNCHANGED <<conversation, triage, enrolled>> /\ k \in Nat
    BY <1>2, <1>3, <1>4 DEF Admit
  <2> DEFINE row == [status |-> "succeeded", run |-> k]
  <2>3. row \in AdmissionRows /\ row.status = "succeeded" /\ row.run = k
    BY <2>2 DEF AdmissionRows
  <2> HIDE DEF row
  <2>4. /\ admission' \in [Triages -> AdmissionRows] /\ \A u \in Triages : u # t => admission'[u] = admission[u]
        /\ admission'[t] = row
    BY <1>0, <2>1, <2>3 DEF row
  <2> QED BY <2>1, <2>2, <2>3, <2>4 DEF AdmissionMoved
<1>5. ASSUME AdmitAndStop(t) PROVE AdmissionMoved(t)
  <2>1. RunMade(t) /\ admission[t].status = "reserved" /\ UNCHANGED <<conversation, triage, enrolled, admission>>
    BY <1>2, <1>5 DEF AdmitAndStop
  <2> QED BY <1>0, <2>1 DEF AdmissionMoved
<1> QED BY <1>1, <1>4, <1>5

\* A step is one of an admission, or leaves admissions and runs alone.
LEMMA AdmissionsMove ==
  ASSUME IntakeInv, IntakeNext
  PROVE  UNCHANGED <<admission, runs>> \/ \E t \in Triages : AdmissionMoved(t)
<1>1. ASSUME NEW t \in Triages, ReserveAdmission(t) \/ Admit(t) \/ AdmitAndStop(t)
      PROVE  AdmissionMoved(t)
  BY <1>1, AdmissionMoves
<1>2. ASSUME NEW c \in Conversations,
             \/ Create(c) \/ Cancel(c) \/ Finalize(c) \/ (\E d \in Conversations : Correct(c, d))
             \/ AppendTurn(c, "operator", 0) \/ (\E r \in Revisions : ReserveRevision(r, c))
             \/ \E t \in Triages : ReserveTriage(t, c)
      PROVE  UNCHANGED <<admission, runs>>
  BY <1>2 DEF Create, Cancel, Finalize, Correct, AppendTurn, ReserveRevision, ReserveTriage
<1>3. ASSUME NEW r \in Revisions, ClaimRevision(r) \/ SucceedRevision(r) \/ FailRevision(r)
      PROVE  UNCHANGED <<admission, runs>>
  BY <1>3 DEF ClaimRevision, SucceedRevision, FailRevision
<1>4. ASSUME NEW t \in Triages, ClaimTriage(t) \/ SettleTriage(t) PROVE UNCHANGED <<admission, runs>>
  BY <1>4 DEF ClaimTriage, SettleTriage
<1>5. CASE ContractEdited \/ IntakeStops
  BY <1>5 DEF ContractEdited, IntakeStops
<1> QED BY <1>1, <1>2, <1>3, <1>4, <1>5 DEF IntakeNext

\* An admission that was begun has a triage that succeeded, and it still has.
LEMMA AdmittedSucceeded ==
  ASSUME IntakeInv, IntakeNext
  PROVE  /\ admission' \in [Triages -> AdmissionRows]
         /\ \A t \in Triages : admission'[t].status # "none" =>
              triage[t].status = "succeeded" /\ triage'[t] = triage[t]
<1>1. \A t \in Triages : admission[t].status # "none" => triage[t].status = "succeeded"
  BY DEF IntakeInv, WorkInv
<1>2. \A t \in Triages : admission[t].status # "none" => triage'[t] = triage[t]
  BY AdmittedStays
<1>3. CASE UNCHANGED admission
  BY <1>1, <1>2, <1>3, RunKind
<1>4. ASSUME NEW u \in Triages, AdmissionMoved(u)
      PROVE  /\ admission' \in [Triages -> AdmissionRows]
             /\ \A t \in Triages : admission'[t].status # "none" =>
                  triage[t].status = "succeeded" /\ triage'[t] = triage[t]
  BY <1>1, <1>2, <1>4 DEF AdmissionMoved, AdmissionReserved
<1> QED BY <1>3, <1>4, AdmissionsMove

\* The pieces of work a snapshot leads to.
WorkOf(c) ==
  /\ \A d, e \in LiveCorrections(c) : d = e
  /\ HasAdmission(c) => LiveCorrections(c) = {}
  /\ \A d, e \in Corrections(c) : conversation[d].retries = conversation[e].retries => d = e

LEMMA HasAdmissionStays ==
  ASSUME IntakeInv, IntakeNext, NEW c \in Conversations, HasAdmission(c)'
  PROVE  HasAdmission(c) \/ \E t \in Triages : triage[t].on = c /\ AdmissionReserved(t)
<1>1. PICK t \in Triages : triage'[t].on = c /\ admission'[t].status # "none"
  BY DEF HasAdmission
<1>2. triage[t].on = c
  BY <1>1, AdmittedSucceeded
<1>3. CASE UNCHANGED admission
  BY <1>1, <1>2, <1>3 DEF HasAdmission
<1>4. ASSUME NEW u \in Triages, AdmissionMoved(u)
      PROVE  HasAdmission(c) \/ \E v \in Triages : triage[v].on = c /\ AdmissionReserved(v)
  BY <1>1, <1>2, <1>4 DEF HasAdmission, AdmissionMoved, AdmissionReserved
<1> QED BY <1>3, <1>4, AdmissionsMove

LEMMA CorrectWork ==
  ASSUME IntakeInv, NEW b \in Conversations, NEW d \in Conversations, Correct(b, d), NEW c \in Conversations
  PROVE  WorkOf(c)'
<1> USE DEF IntakeInv
<1>1. PICK prior \in Corrections(b) \cup {0}, row \in ConversationRows :
           /\ row.status = "active" /\ row.corrects = b /\ row.retries = prior
           /\ conversation' = [conversation EXCEPT ![d] = row]
           /\ prior = 0 => Corrections(b) = {}
           /\ \A e \in Corrections(b) : conversation[e].retries # prior \/ prior = 0
  BY CorrectionBegins
<1>2. /\ ~HasAdmission(b) /\ LiveCorrections(b) = {} /\ conversation[d].status = "none"
      /\ UNCHANGED <<triage, admission>>
  BY DEF Correct, Fresh
<1>3. conversation[d].corrects = 0 /\ c # 0 /\ c \in Nat
  BY <1>2, RowKind, IntakeBounds DEF ConversationReads
<1>4. /\ conversation'[d] = row /\ \A e \in Conversations : e # d => conversation'[e] = conversation[e]
  BY <1>1 DEF ReadsInv, ConversationKinds
<1>5. HasAdmission(c)' <=> HasAdmission(c)
  BY <1>2 DEF HasAdmission
<1>6. WorkOf(c)
  BY DEF WorkInv, WorkOf
<1>7. CASE c = b
  <2>1. \A e \in Conversations : e \in Corrections(c)' <=> e \in Corrections(c) \/ e = d
    BY <1>1, <1>4, <1>7 DEF Corrections
  <2>2. \A e \in LiveCorrections(c)' : e = d
    BY <1>2, <1>4, <1>7, <2>1 DEF LiveCorrections, Corrections
  <2>3. ASSUME NEW e \in Corrections(c)', NEW f \in Corrections(c)', conversation'[e].retries = conversation'[f].retries
        PROVE  e = f
    <3>1. e \in Conversations /\ f \in Conversations
      BY DEF Corrections
    <3>2. \A g \in Corrections(c) : g # d => conversation[g].retries # prior
      BY <1>1, <1>7
    <3>3. conversation'[d].retries = prior
      BY <1>1, <1>4
    <3> QED BY <1>4, <1>6, <2>1, <2>3, <3>1, <3>2, <3>3 DEF WorkOf
  <2>4. ~HasAdmission(c)'
    BY <1>2, <1>5, <1>7
  <2> QED BY <2>2, <2>3, <2>4 DEF WorkOf
<1>8. CASE c # b
  <2>1. \A e \in Conversations : /\ e \in Corrections(c)' <=> e \in Corrections(c)
                                 /\ e \in Corrections(c) => e # d
    BY <1>1, <1>3, <1>4, <1>8 DEF Corrections
  <2>2. Corrections(c)' = Corrections(c)
    BY <2>1 DEF Corrections
  <2>3. \A e \in Corrections(c) : conversation'[e] = conversation[e]
    BY <1>4, <2>1 DEF Corrections
  <2>4. LiveCorrections(c)' = LiveCorrections(c)
    BY <2>2, <2>3 DEF LiveCorrections
  <2>5. \A e, f \in Corrections(c)' : conversation'[e].retries = conversation'[f].retries => e = f
    BY <1>6, <2>2, <2>3 DEF WorkOf
  <2> QED BY <1>5, <1>6, <2>4, <2>5 DEF WorkOf
<1> QED BY <1>7, <1>8

LEMMA WorkStep == ASSUME IntakeInv, IntakeNext PROVE WorkInv'
<1>1. admission' \in [Triages -> AdmissionRows]
  BY AdmittedSucceeded
<1>2. \A t \in Triages : admission'[t].status # "none" => triage'[t].status = "succeeded"
  BY AdmittedSucceeded
<1>3. ASSUME NEW c \in Conversations PROVE WorkOf(c)'
  <2>1. CASE \E b, d \in Conversations : Correct(b, d)
    BY <2>1, CorrectWork
  <2>2. CASE CorrectionsStay
    <3>1. WorkOf(c)
      BY DEF IntakeInv, WorkInv, WorkOf
    <3>2. Corrections(c)' = Corrections(c) /\ LiveCorrections(c)' \subseteq LiveCorrections(c)
      BY <2>2 DEF CorrectionsStay, Corrections, LiveCorrections
    <3>3. \A d \in Corrections(c) : conversation'[d].retries = conversation[d].retries
      BY <2>2 DEF CorrectionsStay, Corrections
    <3>4. HasAdmission(c)' => HasAdmission(c) \/ LiveCorrections(c) = {}
      BY HasAdmissionStays DEF AdmissionReserved
    <3> QED BY <3>1, <3>2, <3>3, <3>4 DEF WorkOf
  <2> QED BY <2>1, <2>2, ConversationsMove
<1> QED BY <1>1, <1>2, <1>3 DEF WorkInv, WorkOf, AdmissionRows


LEMMA EnrolledKind == ASSUME IntakeInv, IntakeNext PROVE enrolled' \in Contracts
<1>1. enrolled \in Contracts
  BY DEF IntakeInv, RunsInv
<1>2. UNCHANGED enrolled \/ ContractEdited
  BY ZenonT(40) DEF IntakeNext, IntakeStops, Create, Cancel, Finalize, Correct, AppendTurn, ReserveRevision, ReserveTriage,
         ClaimRevision, SucceedRevision, FailRevision, ClaimTriage, SettleTriage, ReserveAdmission, LedgerAdmits, Admit,
         AdmitAndStop
<1> QED BY <1>1, <1>2 DEF ContractEdited

\* What RunsInv says of each run and of each admission.
RunsFit ==
  /\ \A k \in 1..Len(runs) : /\ admission[runs[k].key].status # "none"
                             /\ runs[k].contract = triage[runs[k].key].contract
  /\ \A j, k \in 1..Len(runs) : runs[j].key = runs[k].key => j = k
AdmissionsFit ==
  \A t \in Triages : /\ admission[t].run <= Len(runs)
                     /\ admission[t].status = "succeeded" =>
                          admission[t].run \in 1..Len(runs) /\ runs[admission[t].run].key = t

LEMMA ElementKind ==
  ASSUME NEW T, NEW s \in Seq(T), NEW k \in 1..Len(s)
  PROVE  s[k] \in T
OBVIOUS

LEMMA RunsStep == ASSUME IntakeInv, IntakeNext PROVE RunsInv'
<1>1. /\ runs \in Seq([key : Triages, contract : Contracts]) /\ DOMAIN runs = 1..Len(runs) /\ Len(runs) \in Nat
      /\ admission \in [Triages -> AdmissionRows]
  BY RunKind
<1>2. \A k \in 1..Len(runs) : runs[k].key \in Triages
  <2>1. ASSUME NEW k \in 1..Len(runs) PROVE runs[k] \in [key : Triages, contract : Contracts]
    BY <1>1, <2>1, ElementKind, Zenon
  <2> QED BY <2>1
<1>3. RunsFit /\ AdmissionsFit
  BY DEF IntakeInv, RunsInv, RunsFit, AdmissionsFit
<1>4. /\ \A t \in Triages : admission[t].status # "none" => triage'[t] = triage[t]
      /\ admission' \in [Triages -> AdmissionRows]
  BY AdmittedStays, AdmittedSucceeded
<1>5. enrolled' \in Contracts
  BY EnrolledKind
<1>6. ASSUME UNCHANGED <<admission, runs>>
      PROVE  runs' \in Seq([key : Triages, contract : Contracts]) /\ RunsFit' /\ AdmissionsFit'
  BY <1>1, <1>2, <1>3, <1>4, <1>6 DEF RunsFit, AdmissionsFit
<1>7. ASSUME NEW t \in Triages, AdmissionMoved(t)
      PROVE  runs' \in Seq([key : Triages, contract : Contracts]) /\ RunsFit' /\ AdmissionsFit'
  <2>1. /\ \A u \in Triages : u # t => admission'[u] = admission[u]
        /\ \A u \in Triages : admission[u].status # "none" => admission'[u].status # "none"
        /\ admission[t].run <= Len(runs) /\ admission[t].run \in Nat
    <3>1. /\ \A u \in Triages : u # t => admission'[u] = admission[u]
          /\ admission[t].status # "none" => admission'[t].status # "none"
      BY <1>7 DEF AdmissionMoved, AdmissionReserved
    <3>2. admission[t] \in AdmissionRows
      BY <1>1
    <3> QED BY <1>3, <3>1, <3>2 DEF AdmissionsFit, AdmissionRows
  <2>2. CASE runs' = runs
    <3>1. RunsFit'
      BY <1>2, <1>3, <1>4, <2>1, <2>2 DEF RunsFit
    <3>2. /\ admission'[t].run <= Len(runs')
          /\ admission'[t].status = "succeeded" =>
               admission'[t].run \in 1..Len(runs') /\ runs'[admission'[t].run].key = t
      <4>1. CASE AdmissionReserved(t)
        BY <2>1, <2>2, <4>1 DEF AdmissionReserved
      <4>2. CASE admission'[t] = admission[t]
        BY <1>3, <2>2, <4>2 DEF AdmissionsFit
      <4>3. CASE admission'[t].run \in DOMAIN runs' /\ runs'[admission'[t].run].key = t
        BY <1>1, <2>2, <4>3
      <4> QED BY <1>7, <4>1, <4>2, <4>3 DEF AdmissionMoved
    <3>3. AdmissionsFit'
      BY <1>3, <2>1, <2>2, <3>2 DEF AdmissionsFit
    <3> QED BY <1>1, <2>2, <3>1, <3>3
  <2>3. CASE runs' # runs
    <3>1. /\ RunsOf(t) = {} /\ runs' = Append(runs, [key |-> t, contract |-> triage[t].contract])
          /\ admission[t].status = "reserved"
          /\ \/ admission'[t].status = "succeeded" /\ admission'[t].run \in DOMAIN runs'
                /\ runs'[admission'[t].run].key = t
             \/ admission'[t] = admission[t]
      BY <1>7, <2>3 DEF AdmissionMoved, AdmissionReserved, RunMade
    <3>2. /\ runs' \in Seq([key : Triages, contract : Contracts]) /\ Len(runs') = Len(runs) + 1
          /\ DOMAIN runs' = 1..Len(runs')
          /\ runs'[Len(runs) + 1].key = t /\ runs'[Len(runs) + 1].contract = triage[t].contract
          /\ \A k \in 1..Len(runs) : runs'[k] = runs[k]
      BY <3>1, RunAppended
    <3>3. \A k \in 1..Len(runs) : runs[k].key # t
      BY <1>1, <3>1 DEF RunsOf
    <3>4. triage'[t] = triage[t] /\ admission'[t].status # "none"
      BY <1>4, <2>1, <3>1
    <3>5. \A k \in 1..Len(runs') : k \in 1..Len(runs) \/ k = Len(runs) + 1
      BY <1>1, <3>2
    <3>6. \A k \in 1..Len(runs') : /\ admission'[runs'[k].key].status # "none"
                                   /\ runs'[k].contract = triage'[runs'[k].key].contract
      BY <1>2, <1>3, <1>4, <2>1, <3>2, <3>4, <3>5 DEF RunsFit
    <3>7. \A j, k \in 1..Len(runs') : runs'[j].key = runs'[k].key => j = k
      BY <1>3, <3>2, <3>3, <3>5 DEF RunsFit
    <3>8. /\ admission'[t].run <= Len(runs')
          /\ admission'[t].status = "succeeded" =>
               admission'[t].run \in 1..Len(runs') /\ runs'[admission'[t].run].key = t
      <4>1. CASE admission'[t] = admission[t]
        <5>1. admission[t].run <= Len(runs) + 1
          BY <1>1, <2>1
        <5> QED BY <3>1, <3>2, <4>1, <5>1
      <4>2. CASE admission'[t].run \in DOMAIN runs' /\ runs'[admission'[t].run].key = t
        BY <1>1, <3>2, <4>2
      <4> QED BY <3>1, <4>1, <4>2
    <3>9. AdmissionsFit'
      <4>1. ASSUME NEW u \in Triages, u # t
            PROVE  /\ admission'[u].run <= Len(runs')
                   /\ admission'[u].status = "succeeded" =>
                        admission'[u].run \in 1..Len(runs') /\ runs'[admission'[u].run].key = u
        <5>1. admission'[u] = admission[u] /\ admission[u].run \in Nat
          BY <1>1, <2>1, <4>1 DEF AdmissionRows
        <5>2. /\ admission[u].run <= Len(runs)
              /\ admission[u].status = "succeeded" =>
                   admission[u].run \in 1..Len(runs) /\ runs[admission[u].run].key = u
          BY <1>3 DEF AdmissionsFit
        <5> QED BY <1>1, <3>2, <5>1, <5>2
      <4> QED BY <3>8, <4>1 DEF AdmissionsFit
    <3> QED BY <3>2, <3>6, <3>7, <3>9 DEF RunsFit
  <2> QED BY <2>2, <2>3
<1>8. runs' \in Seq([key : Triages, contract : Contracts]) /\ RunsFit' /\ AdmissionsFit'
  BY <1>6, <1>7, AdmissionsMove
<1> QED BY <1>5, <1>8, Zenon DEF RunsInv, RunsFit, AdmissionsFit

LEMMA IntakeStep == ASSUME IntakeInv, [IntakeNext]_intakeVars PROVE IntakeInv'
<1>1. CASE IntakeNext
  BY <1>1, ReadsStep, CallsStep, WorkStep, RunsStep DEF IntakeInv
<1>2. CASE UNCHANGED intakeVars
  <2>1. UNCHANGED <<conversation, revision, snapshot, triage, admission, runs, enrolled, asked, lost>>
    BY <1>2 DEF intakeVars
  <2>2. ReadsInv' /\ SnapshotKinds'
    BY <2>1 DEF IntakeInv, ReadsInv, ConversationKinds, OneInUse, InUse, ConversationsFollow, ConversationReads,
                RevisionReads, SnapshotKinds
  <2>3. CallsInv' /\ TriagesInv'
    BY <2>1 DEF IntakeInv, CallsInv, TriagesInv
  <2>4. WorkInv'
    BY <2>1 DEF IntakeInv, WorkInv, LiveCorrections, Corrections, HasAdmission
  <2>5. RunsInv'
    BY <2>1 DEF IntakeInv, RunsInv
  <2> QED BY <2>2, <2>3, <2>4, <2>5 DEF IntakeInv
<1> QED BY <1>1, <1>2

LEMMA TypesHold == IntakeInv => IntakeTypeOK
<1> SUFFICES ASSUME IntakeInv PROVE IntakeTypeOK
  OBVIOUS
<1> USE DEF IntakeInv
<1>1. ASSUME NEW c \in Conversations
      PROVE  /\ conversation[c].status \in {"none", "active", "cancelled", "finalized"}
             /\ conversation[c].brief \in Briefs /\ Len(conversation[c].turns) <= TurnLimit
             /\ {conversation[c].corrects, conversation[c].retries} \subseteq 0..(c - 1)
  <2>1. /\ conversation[c] \in ConversationRows /\ ConversationReads(c)
        /\ conversation[c].corrects \in Nat /\ conversation[c].retries \in Nat /\ c \in Nat
    BY RowKind, IntakeBounds
  <2>2. /\ conversation[c].corrects < c /\ conversation[c].retries < c /\ Len(conversation[c].turns) <= TurnLimit
    BY <2>1 DEF ConversationReads
  <2>3. conversation[c].corrects \in 0..(c - 1) /\ conversation[c].retries \in 0..(c - 1)
    BY <2>1, <2>2
  <2> QED BY <2>1, <2>2, <2>3 DEF ConversationRows
<1>2. ASSUME NEW r \in Revisions
      PROVE  /\ revision[r].status \in {"none", "reserved", "running", "succeeded", "failed"}
             /\ revision[r].on \in 0..MaxConversations
             /\ [calls |-> revision[r].calls, claim |-> revision[r].claim] \in Call
  <2>1. /\ revision[r].status \in {"none", "reserved", "running", "succeeded", "failed"}
        /\ revision[r].calls \in {0, 1} /\ revision[r].claim \in {"none", "active", "released"}
        /\ revision[r].on \in 0..MaxConversations
    BY RevisionKind
  <2> QED BY <2>1 DEF Call
<1>3. ASSUME NEW t \in Triages
      PROVE  /\ triage[t].status \in {"none", "reserved", "running", "succeeded", "blocked", "failed"}
             /\ triage[t].contract \in Contracts /\ triage[t].on \in 0..MaxConversations
             /\ [calls |-> triage[t].calls, claim |-> triage[t].claim] \in Call
             /\ admission[t].status \in {"none", "reserved", "succeeded"} /\ admission[t].run \in 0..Len(runs)
  <2>1. /\ triage[t].status \in {"none", "reserved", "running", "succeeded", "blocked", "failed"}
        /\ triage[t].calls \in {0, 1} /\ triage[t].claim \in {"none", "active", "released"}
        /\ triage[t].contract \in Contracts /\ triage[t].on \in 0..MaxConversations
    BY TriageKind
  <2>2. [calls |-> triage[t].calls, claim |-> triage[t].claim] \in Call
    BY <2>1 DEF Call
  <2>3. admission[t].status \in {"none", "reserved", "succeeded"} /\ admission[t].run \in Nat
    BY DEF WorkInv
  <2>4. admission[t].run <= Len(runs) /\ Len(runs) \in Nat
    BY RunKind DEF RunsInv
  <2> QED BY <2>1, <2>2, <2>3, <2>4
<1>4. enrolled \in Contracts /\ asked \cup lost \subseteq ({"revision"} \X Revisions) \cup ({"triage"} \X Triages)
  BY DEF RunsInv, CallsInv
<1> QED BY <1>1, <1>2, <1>3, <1>4 DEF IntakeTypeOK

LEMMA ReadsHold == IntakeInv => ReadsVerify
<1> SUFFICES ASSUME ReadsInv PROVE ReadsVerify
  BY DEF IntakeInv
<1>1. ASSUME NEW c \in Conversations
      PROVE  LET row == conversation[c]
                 end == IF row.status \in {"cancelled", "finalized"} THEN 1 ELSE 0
             IN  row.status # "none" =>
                   /\ row.version = Len(row.turns) + 1 + end
                   /\ row.turns # <<>> => row.turns[Len(row.turns)].brief = row.brief
                   /\ snapshot[c].made <=> row.status = "finalized"
                   /\ snapshot[c].made => snapshot[c].version + 1 = row.version
                   /\ snapshot[c].made => snapshot[c].turns = row.turns /\ snapshot[c].brief = row.brief
  <2>1. ConversationReads(c) /\ Len(conversation[c].turns) \in Nat
        /\ conversation[c].status \in {"none", "active", "cancelled", "finalized"}
    BY RowKind DEF ConversationRows
  <2>2. conversation[c].status = "active" => conversation[c].version = Len(conversation[c].turns) + 1 + 0
    BY <2>1 DEF ConversationReads
  <2>3. conversation[c].status \in {"cancelled", "finalized"} =>
          conversation[c].version = Len(conversation[c].turns) + 1 + 1
    BY <2>1 DEF ConversationReads
  <2>4. conversation[c].status # "none" =>
          conversation[c].version = Len(conversation[c].turns) + 1
                                    + (IF conversation[c].status \in {"cancelled", "finalized"} THEN 1 ELSE 0)
    BY <2>1, <2>2, <2>3
  <2> QED BY <2>1, <2>4 DEF ConversationReads
<1>2. ASSUME NEW r \in Revisions, revision[r].on # 0
      PROVE  LET row == conversation[revision[r].on]  b == revision[r].base
             IN  /\ b <= Len(row.turns) /\ row.turns[b].role = "operator"
                 /\ revision[r].status = "succeeded" =>
                      b < Len(row.turns) /\ row.turns[b + 1] = [role |-> "assistant", brief |-> r]
  <2>1. RevisionReads(r)
    BY DEF ReadsInv
  <2>2. Len(conversation[revision[r].on].turns) \in Nat
    BY <1>2, RevisionOn, RowKind
  <2> QED BY <1>2, <2>1, <2>2 DEF RevisionReads
<1> QED BY <1>1, <1>2 DEF ReadsVerify

LEMMA WorkHolds == IntakeInv => NoCompetingWork /\ OneTriageCall /\ OneRunPerAdmission
<1> SUFFICES ASSUME IntakeInv PROVE NoCompetingWork /\ OneTriageCall /\ OneRunPerAdmission
  OBVIOUS
<1> USE DEF IntakeInv
<1>0. IsFiniteSet(Conversations) /\ IsFiniteSet(Triages)
  BY IntakeBounds, FS_Interval DEF Conversations, Triages
<1>1. ASSUME NEW c \in Conversations
      PROVE  Cardinality(LiveCorrections(c)) + (IF HasAdmission(c) THEN 1 ELSE 0) <= 1
  <2>1. IsFiniteSet(LiveCorrections(c))
    BY <1>0, FS_Subset DEF LiveCorrections, Corrections
  <2>2. \A d, e \in LiveCorrections(c) : d = e
    BY DEF WorkInv
  <2>3. Cardinality(LiveCorrections(c)) <= 1 /\ Cardinality(LiveCorrections(c)) \in Nat
    BY <2>1, <2>2, AtMostOne, FS_CardinalityType
  <2>4. HasAdmission(c) => Cardinality(LiveCorrections(c)) = 0
    BY FS_EmptySet DEF WorkInv
  <2> QED BY <2>3, <2>4
<1>2. ASSUME NEW c \in Conversations
      PROVE  \A d, e \in Corrections(c) : conversation[d].retries = conversation[e].retries => d = e
  BY DEF WorkInv
<1>3. ASSUME NEW c \in Conversations
      PROVE  Cardinality({t \in Triages : triage[t].on = c /\ triage[t].calls = 1}) <= 1
  <2> DEFINE S == {t \in Triages : triage[t].on = c /\ triage[t].calls = 1}
  <2>1. ASSUME NEW t \in S, NEW u \in S PROVE t = u
    <3>1. c # 0
      BY IntakeBounds
    <3>2. triage[t].status # "blocked" /\ triage[u].status # "blocked"
      BY DEF TriagesInv
    <3> QED BY <3>1, <3>2 DEF TriagesInv
  <2>2. IsFiniteSet(S)
    BY <1>0, FS_Subset
  <2> HIDE DEF S
  <2>3. Cardinality(S) <= 1
    BY <2>1, <2>2, AtMostOne
  <2> QED BY <2>3 DEF S
<1>4. ASSUME NEW t \in Triages
      PROVE  /\ Cardinality(RunsOf(t)) <= 1
             /\ \A k \in RunsOf(t) : runs[k].contract = triage[t].contract
             /\ admission[t].status = "succeeded" => RunsOf(t) = {admission[t].run}
  <2>1. DOMAIN runs = 1..Len(runs) /\ Len(runs) \in Nat
    BY RunKind
  <2>2. \A k \in RunsOf(t) : k \in 1..Len(runs) /\ runs[k].key = t
    BY <2>1 DEF RunsOf
  <2>3. \A j, k \in RunsOf(t) : j = k
    BY <2>2 DEF RunsInv
  <2>4. IsFiniteSet(RunsOf(t))
    <3>1. IsFiniteSet(1..Len(runs))
      BY <2>1, FS_Interval
    <3> QED BY <2>2, <3>1, FS_Subset
  <2>5. Cardinality(RunsOf(t)) <= 1
    BY <2>3, <2>4, AtMostOne
  <2>6. \A k \in RunsOf(t) : runs[k].contract = triage[t].contract
    BY <2>2 DEF RunsInv
  <2>7. admission[t].status = "succeeded" => RunsOf(t) = {admission[t].run}
    <3>1. admission[t].status = "succeeded" => admission[t].run \in RunsOf(t)
      BY <2>1 DEF RunsInv, RunsOf
    <3> QED BY <2>3, <3>1
  <2> QED BY <2>5, <2>6, <2>7
<1> QED BY <1>1, <1>2, <1>3, <1>4 DEF NoCompetingWork, OneTriageCall, OneRunPerAdmission

LEMMA IntakeSoundAlways == IntakeSpec => []IntakeIsSound
<1>1. IntakeInv => IntakeIsSound
  <2>1. IntakeInv => RunningCallsAreAwaited
    BY DEF IntakeInv, CallsInv, RunningCallsAreAwaited
  <2> QED BY <2>1, TypesHold, ReadsHold, WorkHolds DEF IntakeIsSound
<1> QED BY <1>1, IntakeStarts, IntakeStep, PTL DEF IntakeSpec

\* No action that is left to a finalized conversation touches it.
LEMMA SnapshotStays ==
  ASSUME IntakeInv, [IntakeNext]_intakeVars, NEW c \in Conversations, snapshot[c].made
  PROVE  snapshot'[c] = snapshot[c] /\ conversation'[c] = conversation[c]
<1> USE DEF IntakeInv
<1>1. /\ conversation[c].status = "finalized" /\ conversation \in [Conversations -> ConversationRows]
      /\ SnapshotKinds
  BY RowKind DEF ConversationReads, ReadsInv, ConversationKinds
<1>2. ASSUME NEW d \in Conversations, Create(d) \/ (\E b \in Conversations : Correct(b, d))
      PROVE  snapshot'[c] = snapshot[c] /\ conversation'[c] = conversation[c]
  <2>1. c # d /\ UNCHANGED snapshot
    BY <1>1, <1>2 DEF Create, Correct, Fresh
  <2> QED BY <1>1, <1>2, <2>1 DEF Create, Correct
<1>3. ASSUME NEW d \in Conversations, Cancel(d) \/ Finalize(d) \/ AppendTurn(d, "operator", 0)
             \/ \E r \in Revisions : ReserveRevision(r, d)
      PROVE  snapshot'[c] = snapshot[c] /\ conversation'[c] = conversation[c]
  <2>1. c # d
    BY <1>1, <1>3 DEF Cancel, Finalize, AppendTurn, ReserveRevision
  <2> QED BY <1>1, <1>3, <2>1 DEF Cancel, Finalize, AppendTurn, ReserveRevision, SnapshotKinds
<1>4. ASSUME NEW r \in Revisions, SucceedRevision(r)
      PROVE  snapshot'[c] = snapshot[c] /\ conversation'[c] = conversation[c]
  <2>1. InUse(r)
    BY <1>4, AskedRuns DEF SucceedRevision, InUse
  <2>2. revision[r].on # c
    BY <1>1, <2>1, ContextStands
  <2> QED BY <1>1, <1>4, <2>2 DEF SucceedRevision
<1>5. ASSUME UNCHANGED <<conversation, snapshot>>
      PROVE  snapshot'[c] = snapshot[c] /\ conversation'[c] = conversation[c]
  BY <1>5
<1>6. CASE ContractEdited \/ IntakeStops \/ UNCHANGED intakeVars
  BY <1>5, <1>6 DEF ContractEdited, IntakeStops, intakeVars
<1>7. ASSUME NEW r \in Revisions, ClaimRevision(r) \/ FailRevision(r) PROVE UNCHANGED <<conversation, snapshot>>
  BY <1>7 DEF ClaimRevision, FailRevision
<1>8. ASSUME NEW t \in Triages, \/ (\E d \in Conversations : ReserveTriage(t, d)) \/ ClaimTriage(t) \/ SettleTriage(t)
                                \/ ReserveAdmission(t) \/ Admit(t) \/ AdmitAndStop(t)
      PROVE UNCHANGED <<conversation, snapshot>>
  BY <1>8 DEF ReserveTriage, ClaimTriage, SettleTriage, ReserveAdmission, Admit, AdmitAndStop
<1> QED BY <1>2, <1>3, <1>4, <1>5, <1>6, <1>7, <1>8 DEF IntakeNext

LEMMA EvidenceStands == IntakeSpec => FinalizedEvidenceStands
<1>1. IntakeInv /\ [IntakeNext]_intakeVars =>
        [\A c \in Conversations : snapshot[c].made =>
           /\ snapshot'[c] = snapshot[c]
           /\ conversation'[c] = conversation[c]]_intakeVars
  BY SnapshotStays
<1> QED BY <1>1, IntakeStarts, IntakeStep, PTL DEF IntakeSpec, FinalizedEvidenceStands

(***************************************************************************)
(* Repository enrollment.                                                  *)
(***************************************************************************)
EventRows == [id : Ids, policy : Policies, enabled : BOOLEAN, key : 0..MaxRequests, since : Nat]
RequestStages == {"none", "identify", "policy", "record", "answered", "disabled"}
RequestRows == [repo : Repos \cup {"none"}, expected : Nat, id : Ids \cup {NoId}, stage : RequestStages,
                policy : Policies \cup {NoPolicy}, since : Nat]
CheckRows == [stage : {"none", "inspect", "ended"}, seen : [Repos -> Nat],
              status : [Repos -> {"none", "aligned", "drifted", "unavailable"}]]

GitHubKinds == named \in [Repos -> Ids \cup {NoId}] /\ file \in [Ids -> Policies]

\* An enrolled name keeps its identity, which is no other's, and its enabled versions
\* were read after the version before.
EventsFit ==
  /\ events \in [Repos -> Seq(EventRows)]
  /\ NeverResurrected /\ IdentityIsStable

\* A request expects a version that there was; what it read, it read since then.
RequestsFit ==
  /\ request \in [Requests -> RequestRows]
  /\ \A q \in Requests :
       /\ request[q].stage # "none" => request[q].repo \in Repos /\ request[q].expected <= Len(events[request[q].repo])
       /\ request[q].stage \in {"policy", "record"} => request[q].id \in Ids
       /\ request[q].stage = "record" => /\ request[q].policy \in Policies
                                         /\ request[q].expected <= request[q].since
                                         /\ request[q].since <= Len(events[request[q].repo])

\* A check captured versions that were enabled, and is recorded when it ends.
CheckFits(c) ==
  /\ check[c].stage = "none" => \A r \in Repos : check[c].status[r] = "none" /\ check[c].seen[r] = 0
  /\ check[c].stage = "ended" => \A r \in Repos : check[c].status[r] = "none"
  /\ \A r \in Repos :
       /\ check[c].seen[r] # 0 => check[c].seen[r] \in 1..Len(events[r]) /\ events[r][check[c].seen[r]].enabled
       /\ check[c].status[r] # "none" => check[c].seen[r] # 0

ChecksFit ==
  /\ check \in [Checks -> CheckRows]
  /\ \A c \in Checks : CheckFits(c)

ObservedFit ==
  /\ \A o \in observed :
       /\ o.batch \in Checks /\ check[o.batch].stage = "ended"
       /\ o.repo \in Repos /\ o.version \in 1..Len(events[o.repo])
       /\ Contract(o.repo, o.version) = o.contract /\ o.contract.enabled
  /\ BatchIsWhole

EnrollmentInv == GitHubKinds /\ EventsFit /\ RequestsFit /\ ChecksFit /\ ObservedFit

LEMMA EventKind ==
  ASSUME EventsFit, NEW r \in Repos
  PROVE  /\ events[r] \in Seq(EventRows) /\ Len(events[r]) \in Nat /\ DOMAIN events[r] = 1..Len(events[r])
         /\ \A n \in 1..Len(events[r]) :
              /\ events[r][n] \in EventRows /\ events[r][n].id \in Ids /\ events[r][n].policy \in Policies
              /\ events[r][n].enabled \in BOOLEAN /\ events[r][n].key \in 0..MaxRequests
              /\ events[r][n].since \in Nat
         /\ Enrolled(r) => Len(events[r]) \in 1..Len(events[r])
         /\ ~Enrolled(r) <=> Len(events[r]) = 0
<1>1. events[r] \in Seq(EventRows)
  BY DEF EventsFit
<1>2. /\ Len(events[r]) \in Nat /\ DOMAIN events[r] = 1..Len(events[r])
      /\ \A n \in 1..Len(events[r]) : events[r][n] \in EventRows
      /\ events[r] = <<>> <=> Len(events[r]) = 0
  <2> DEFINE T == EventRows
  <2>1. events[r] \in Seq(T)
    BY <1>1
  <2> HIDE DEF T
  <2>2. /\ Len(events[r]) \in Nat /\ DOMAIN events[r] = 1..Len(events[r])
        /\ \A n \in 1..Len(events[r]) : events[r][n] \in T
        /\ events[r] = <<>> <=> Len(events[r]) = 0
    BY <2>1
  <2> QED BY <2>2 DEF T
<1>3. \A e \in EventRows : /\ e.id \in Ids /\ e.policy \in Policies /\ e.enabled \in BOOLEAN
                           /\ e.key \in 0..MaxRequests /\ e.since \in Nat
  BY DEF EventRows
<1> QED BY <1>1, <1>2, <1>3 DEF Enrolled

\* One more version, of the identity the name has, or of one that no name has.
EventAdded(r, e) ==
  /\ e \in EventRows /\ events' = [events EXCEPT ![r] = Append(events[r], e)]
  /\ e.enabled /\ e.key # 0 => e.since = Len(events[r])
  /\ Enrolled(r) => e.id = events[r][Len(events[r])].id
  /\ ~Enrolled(r) => \A s \in Repos \ {r} : Enrolled(s) => events[s][Len(events[s])].id # e.id

\* Versions stay; only new ones come.
EventsGrow ==
  \A r \in Repos : /\ Len(events[r]) <= Len(events'[r])
                   /\ \A n \in 1..Len(events[r]) : events'[r][n] = events[r][n]

LEMMA EventAddedFits ==
  ASSUME EnrollmentInv, NEW r \in Repos, NEW e, EventAdded(r, e)
  PROVE  EventsFit' /\ EventsGrow
<1> DEFINE n == Len(events[r])
           more == Append(events[r], e)
<1>0. EventsFit /\ e \in EventRows
  BY DEF EnrollmentInv, EventAdded
<1>1. /\ more \in Seq(EventRows) /\ Len(more) = n + 1 /\ n \in Nat /\ DOMAIN more = 1..(n + 1)
      /\ more[n + 1] = e /\ \A i \in 1..n : more[i] = events[r][i]
  <2> DEFINE T == EventRows
  <2>1. events[r] \in Seq(T) /\ e \in T
    BY <1>0, EventKind
  <2> HIDE DEF T
  <2>2. /\ more \in Seq(T) /\ Len(more) = n + 1 /\ n \in Nat /\ DOMAIN more = 1..(n + 1)
        /\ more[n + 1] = e /\ \A i \in 1..n : more[i] = events[r][i]
    BY <2>1
  <2> QED BY <2>2 DEF T
<1> HIDE DEF more
<1>2. /\ events'[r] = more /\ \A s \in Repos : s # r => events'[s] = events[s]
      /\ events' \in [Repos -> Seq(EventRows)]
  BY <1>0, <1>1 DEF EventAdded, EventsFit, more
<1>3. \A s \in Repos : /\ events[s] \in Seq(EventRows) /\ Len(events[s]) \in Nat
                       /\ DOMAIN events[s] = 1..Len(events[s])
                       /\ Enrolled(s) => Len(events[s]) \in 1..Len(events[s])
                       /\ ~Enrolled(s) <=> Len(events[s]) = 0
  BY <1>0, EventKind
<1>4. EventsGrow
  BY <1>1, <1>2, <1>3 DEF EventsGrow
<1>5. NeverResurrected'
  <2>1. ASSUME NEW s \in Repos, NEW i \in DOMAIN events'[s], events'[s][i].enabled, events'[s][i].key # 0
        PROVE  events'[s][i].since = i - 1
    <3>1. CASE s # r
      BY <1>0, <1>2, <2>1, <3>1 DEF EventsFit, NeverResurrected
    <3>2. CASE s = r /\ i = n + 1
      <4>1. e.enabled /\ e.key # 0
        BY <1>1, <1>2, <2>1, <3>2
      <4>2. e.since = n /\ n = (n + 1) - 1
        BY <1>1, <4>1 DEF EventAdded
      <4> QED BY <1>1, <1>2, <3>2, <4>2
    <3>3. CASE s = r /\ i # n + 1
      <4>1. i \in 1..n /\ i \in DOMAIN events[r]
        BY <1>1, <1>2, <1>3, <3>3
      <4> QED BY <1>0, <1>1, <1>2, <2>1, <3>3, <4>1 DEF EventsFit, NeverResurrected
    <3> QED BY <3>1, <3>2, <3>3
  <2> QED BY <2>1 DEF NeverResurrected
<1>6. \A s \in Repos : \A i \in DOMAIN events'[s] : events'[s][i].id = events'[s][1].id
  <2>1. ASSUME NEW s \in Repos, s # r, NEW i \in DOMAIN events'[s] PROVE events'[s][i].id = events'[s][1].id
    BY <1>0, <1>2, <2>1 DEF EventsFit, IdentityIsStable
  <2>2. ASSUME NEW i \in DOMAIN events'[r] PROVE events'[r][i].id = events'[r][1].id
    <3>1. \A j \in 1..n : events[r][j].id = events[r][1].id
      BY <1>0, <1>3 DEF EventsFit, IdentityIsStable
    <3>2. CASE n = 0
      BY <1>1, <1>2, <2>2, <3>2
    <3>3. CASE n # 0
      <4>1. e.id = events[r][n].id /\ n \in 1..n /\ 1 \in 1..n
        BY <1>1, <1>3, <3>3 DEF EventAdded
      <4>2. e.id = events[r][1].id /\ events'[r][1] = events[r][1]
        BY <1>1, <1>2, <3>1, <4>1
      <4>3. CASE i = n + 1
        BY <1>1, <1>2, <4>2, <4>3
      <4>4. CASE i # n + 1
        <5>1. i \in 1..n
          BY <1>1, <1>2, <2>2, <4>4
        <5> QED BY <1>1, <1>2, <3>1, <4>2, <5>1
      <4> QED BY <4>3, <4>4
    <3> QED BY <3>2, <3>3
  <2> QED BY <2>1, <2>2
<1> DEFINE last(s) == events[s][Len(events[s])].id
           lastNext(s) == events'[s][Len(events'[s])].id
<1>7. \A s, u \in Repos : s # u /\ events[s] # <<>> /\ events[u] # <<>> => last(s) # last(u)
  BY <1>0 DEF EventsFit, IdentityIsStable, Enrolled, Current, Contract, Version
<1>8. /\ lastNext(r) = e.id /\ \A s \in Repos : s # r => lastNext(s) = last(s)
  BY <1>1, <1>2
<1>9. /\ events[r] # <<>> => e.id = last(r)
      /\ events[r] = <<>> => \A s \in Repos \ {r} : events[s] # <<>> => last(s) # e.id
  BY DEF EventAdded, Enrolled
<1> HIDE DEF last, lastNext
<1>10. \A s, u \in Repos : s # u /\ events'[s] # <<>> /\ events'[u] # <<>> => lastNext(s) # lastNext(u)
  <2>1. \A s \in Repos : s # r /\ events'[s] # <<>> => events[s] # <<>> /\ lastNext(s) # e.id
    BY <1>2, <1>7, <1>8, <1>9
  <2> QED BY <1>2, <1>7, <1>8, <2>1
<1>11. IdentityIsStable'
  BY <1>6, <1>10 DEF IdentityIsStable, Enrolled, Current, Contract, Version, lastNext
<1> QED BY <1>2, <1>4, <1>5, <1>11 DEF EventsFit

\* What is checked, asked and observed stands as the versions grow.
LEMMA GrowthKeeps ==
  ASSUME EnrollmentInv, EventsGrow, EventsFit'
  PROVE  /\ UNCHANGED request => RequestsFit'
         /\ UNCHANGED check => ChecksFit'
         /\ UNCHANGED <<check, observed>> => ObservedFit'
<1>1. \A r \in Repos : Len(events[r]) \in Nat /\ Len(events'[r]) \in Nat
  BY EventKind DEF EnrollmentInv, EventsFit
<1>2. /\ RequestsFit /\ ChecksFit /\ ObservedFit
  BY DEF EnrollmentInv
<1>3. ASSUME UNCHANGED request PROVE RequestsFit'
  <2>1. \A q \in Requests : request[q].expected \in Nat /\ request[q].since \in Nat
    BY <1>2 DEF RequestsFit, RequestRows
  <2>2. \A q \in Requests :
       /\ request[q].stage # "none" =>
            request[q].repo \in Repos /\ request[q].expected <= Len(events'[request[q].repo])
       /\ request[q].stage = "record" => request[q].since <= Len(events'[request[q].repo])
    BY <1>1, <1>2, <2>1 DEF RequestsFit, EventsGrow
  <2> QED BY <1>2, <1>3, <2>2 DEF RequestsFit
<1>4. ASSUME UNCHANGED check PROVE ChecksFit'
  <2>1. ASSUME NEW c \in Checks PROVE CheckFits(c)'
    <3>1. CheckFits(c)
      BY <1>2 DEF ChecksFit
    <3>2. ASSUME NEW r \in Repos, check[c].seen[r] # 0
          PROVE  check[c].seen[r] \in 1..Len(events'[r]) /\ events'[r][check[c].seen[r]].enabled
      <4>1. check[c].seen[r] \in 1..Len(events[r]) /\ events[r][check[c].seen[r]].enabled
        BY <3>1, <3>2 DEF CheckFits
      <4> QED BY <1>1, <4>1 DEF EventsGrow
    <3> QED BY <1>4, <3>1, <3>2 DEF CheckFits
  <2> QED BY <1>2, <1>4, <2>1 DEF ChecksFit
<1>5. ASSUME UNCHANGED <<check, observed>> PROVE ObservedFit'
  <2>1. BatchIsWhole'
    BY <1>2, <1>5 DEF ObservedFit, BatchIsWhole, Captured
  <2>2. ASSUME NEW o \in observed
        PROVE  /\ o.version \in 1..Len(events'[o.repo])
               /\ events'[o.repo][o.version] = events[o.repo][o.version]
    BY <1>1, <1>2 DEF ObservedFit, EventsGrow
  <2> QED BY <1>2, <1>5, <2>1, <2>2 DEF ObservedFit, Contract
<1> QED BY <1>3, <1>4, <1>5

LEMMA EnrollmentStarts == EnrollmentInit => EnrollmentInv
<1> SUFFICES ASSUME EnrollmentInit PROVE EnrollmentInv
  OBVIOUS
<1> USE DEF EnrollmentInit
<1>1. GitHubKinds
  BY EnrollmentAssumption DEF EnrollmentAssumption, GitHubKinds
<1>2. EventsFit
  <2> DEFINE row(r) == [id |-> FirstNamed[r], policy |-> file[FirstNamed[r]], enabled |-> TRUE, key |-> 0, since |-> 0]
  <2>1. ASSUME NEW r \in Repos
        PROVE  /\ row(r) \in EventRows /\ row(r).id = FirstNamed[r] /\ row(r).key = 0
               /\ <<row(r)>> \in Seq(EventRows) /\ <<>> \in Seq(EventRows)
    <3>1. FirstNamed[r] \in Ids /\ file[FirstNamed[r]] \in Policies /\ 0 \in 0..MaxRequests
      BY EnrollmentAssumption DEF EnrollmentAssumption
    <3>2. row(r) \in EventRows
      BY <3>1 DEF EventRows
    <3> QED BY <3>2
  <2>2. ASSUME NEW r \in Repos
        PROVE  events[r] = IF r \in Bootstrap THEN <<row(r)>> ELSE <<>>
    OBVIOUS
  <2>3. ASSUME NEW r \in Repos, NEW n \in DOMAIN events[r]
        PROVE  r \in Bootstrap /\ n = 1 /\ events[r][n] = row(r) /\ events[r][1] = row(r)
    <3>0. DOMAIN <<>> = {}
      OBVIOUS
    <3>1. r \in Bootstrap /\ events[r] = <<row(r)>>
      <4> HIDE DEF row, EnrollmentInit
      <4>1. r \notin Bootstrap => events[r] = <<>>
        BY <2>2
      <4>2. r \notin Bootstrap => FALSE
        BY <2>3, <3>0, <4>1
      <4> QED BY <2>2, <4>2
    <3>2. DOMAIN <<row(r)>> = {1} /\ <<row(r)>>[1] = row(r)
      OBVIOUS
    <3> QED BY <2>3, <3>1, <3>2
  <2>4. ASSUME NEW r \in Repos, events[r] # <<>>
        PROVE  Len(events[r]) = 1 /\ events[r][1] = row(r)
    <3>1. events[r] = <<row(r)>>
      BY <2>2, <2>4
    <3> QED BY <3>1
  <2> HIDE DEF row
  <2>5. events \in [Repos -> Seq(EventRows)]
    <3>1. events = [r \in Repos |-> events[r]]
      OBVIOUS
    <3>2. \A r \in Repos : events[r] \in Seq(EventRows)
      BY <2>1, <2>2
    <3> QED BY <3>1, <3>2
  <2>6. NeverResurrected
    BY <2>1, <2>3 DEF NeverResurrected
  <2>7. IdentityIsStable
    <3>1. \A r \in Repos : \A n \in DOMAIN events[r] : events[r][n].id = events[r][1].id
      BY <2>3
    <3>2. \A r, s \in Repos : r # s /\ Enrolled(r) /\ Enrolled(s) => Current(r).id # Current(s).id
      <4>1. \A r, s \in Repos : FirstNamed[r] = FirstNamed[s] => r = s
        BY EnrollmentAssumption DEF EnrollmentAssumption
      <4>2. \A r \in Repos : Enrolled(r) => Current(r).id = FirstNamed[r]
        BY <2>1, <2>4 DEF Enrolled, Current, Contract, Version
      <4> QED BY <4>1, <4>2
    <3> QED BY <3>1, <3>2 DEF IdentityIsStable
  <2> QED BY <2>5, <2>6, <2>7 DEF EventsFit
<1>3. RequestsFit
  <2>1. NoRequest \in RequestRows /\ NoRequest.stage = "none"
    BY DEF NoRequest, RequestRows, RequestStages
  <2> QED BY <2>1 DEF RequestsFit
<1>4. ChecksFit
  <2>1. NoCheck \in CheckRows /\ NoCheck.stage = "none"
        /\ \A r \in Repos : NoCheck.seen[r] = 0 /\ NoCheck.status[r] = "none"
    BY DEF NoCheck, CheckRows
  <2> QED BY <2>1 DEF ChecksFit, CheckFits
<1>5. ObservedFit
  BY DEF ObservedFit, BatchIsWhole
<1> QED BY <1>1, <1>2, <1>3, <1>4, <1>5 DEF EnrollmentInv

LEMMA RequestReplaced ==
  ASSUME NEW R, NEW E, NEW I, NEW S, NEW P, NEW N,
         NEW x \in [repo : R, expected : E, id : I, stage : S, policy : P, since : N],
         NEW r \in R, NEW e \in E, NEW i \in I, NEW s \in S, NEW p \in P, NEW n \in N
  PROVE  /\ LET y == [x EXCEPT !.repo = r, !.expected = e, !.stage = s] IN
              /\ y \in [repo : R, expected : E, id : I, stage : S, policy : P, since : N]
              /\ y.repo = r /\ y.expected = e /\ y.id = x.id /\ y.stage = s /\ y.policy = x.policy /\ y.since = x.since
         /\ LET y == [x EXCEPT !.id = i, !.stage = s] IN
              /\ y \in [repo : R, expected : E, id : I, stage : S, policy : P, since : N]
              /\ y.repo = x.repo /\ y.expected = x.expected /\ y.id = i /\ y.stage = s /\ y.policy = x.policy
              /\ y.since = x.since
         /\ LET y == [x EXCEPT !.policy = p, !.stage = s, !.since = n] IN
              /\ y \in [repo : R, expected : E, id : I, stage : S, policy : P, since : N]
              /\ y.repo = x.repo /\ y.expected = x.expected /\ y.id = x.id /\ y.stage = s /\ y.policy = p
              /\ y.since = n
         /\ LET y == [x EXCEPT !.stage = s, !.id = i, !.policy = p, !.since = n] IN
              /\ y \in [repo : R, expected : E, id : I, stage : S, policy : P, since : N]
              /\ y.repo = x.repo /\ y.expected = x.expected /\ y.id = i /\ y.stage = s /\ y.policy = p
              /\ y.since = n
         /\ LET y == [x EXCEPT !.stage = s] IN
              /\ y \in [repo : R, expected : E, id : I, stage : S, policy : P, since : N]
              /\ y.repo = x.repo /\ y.expected = x.expected /\ y.id = x.id /\ y.stage = s /\ y.policy = x.policy
              /\ y.since = x.since
OBVIOUS

LEMMA RequestKind ==
  ASSUME RequestsFit, NEW q \in Requests
  PROVE  /\ request[q] \in [repo : Repos \cup {"none"}, expected : Nat, id : Ids \cup {NoId}, stage : RequestStages,
                               policy : Policies \cup {NoPolicy}, since : Nat]
         /\ NoRequest \in [repo : Repos \cup {"none"}, expected : Nat, id : Ids \cup {NoId}, stage : RequestStages,
                           policy : Policies \cup {NoPolicy}, since : Nat]
         /\ request[q].repo \in Repos \cup {"none"} /\ request[q].expected \in Nat /\ request[q].id \in Ids \cup {NoId}
         /\ request[q].policy \in Policies \cup {NoPolicy} /\ request[q].since \in Nat
         /\ NoId \in Ids \cup {NoId} /\ NoPolicy \in Policies \cup {NoPolicy} /\ 0 \in Nat
<1>1. request[q] \in RequestRows
  BY DEF RequestsFit
<1>2. NoRequest \in RequestRows
  BY DEF NoRequest, RequestRows, RequestStages
<1> QED BY <1>1, <1>2 DEF RequestRows, RequestStages

\* One request is replaced by one that fits as well; events only grow.
LEMMA RequestMoves ==
  ASSUME EnrollmentInv, NEW q \in Requests, NEW row \in RequestRows, request' = [request EXCEPT ![q] = row],
         UNCHANGED <<named, file, check, observed>>, EventsGrow, EventsFit',
         row.stage # "none" => row.repo \in Repos /\ row.expected <= Len(events'[row.repo]),
         row.stage \in {"policy", "record"} => row.id \in Ids,
         row.stage = "record" => /\ row.policy \in Policies /\ row.expected <= row.since
                                 /\ row.since <= Len(events'[row.repo])
  PROVE  EnrollmentInv'
<1>1. GitHubKinds' /\ ChecksFit' /\ ObservedFit'
  BY GrowthKeeps DEF EnrollmentInv, GitHubKinds
<1>2. \A r \in Repos : Len(events[r]) \in Nat /\ Len(events'[r]) \in Nat
  BY EventKind DEF EnrollmentInv, EventsFit
<1>3. RequestsFit
  BY DEF EnrollmentInv
<1>4. /\ request' \in [Requests -> RequestRows] /\ request'[q] = row
      /\ \A p \in Requests : p # q => request'[p] = request[p]
  BY <1>3 DEF RequestsFit
<1>5. ASSUME NEW p \in Requests, p # q
      PROVE  /\ request[p].stage # "none" =>
                  request[p].repo \in Repos /\ request[p].expected <= Len(events'[request[p].repo])
             /\ request[p].stage \in {"policy", "record"} => request[p].id \in Ids
             /\ request[p].stage = "record" => /\ request[p].policy \in Policies
                                               /\ request[p].expected <= request[p].since
                                               /\ request[p].since <= Len(events'[request[p].repo])
  <2>1. request[p].expected \in Nat /\ request[p].since \in Nat
    BY <1>3, RequestKind
  <2> QED BY <1>2, <1>3, <2>1 DEF RequestsFit, EventsGrow
<1>6. RequestsFit'
  BY <1>4, <1>5 DEF RequestsFit
<1> QED BY <1>1, <1>6 DEF EnrollmentInv

LEMMA Unchanging ==
  ASSUME EnrollmentInv, UNCHANGED events
  PROVE  EventsGrow /\ EventsFit'
<1>1. \A r \in Repos : Len(events[r]) \in Nat
  BY EventKind DEF EnrollmentInv
<1> QED BY <1>1 DEF EnrollmentInv, EventsGrow, EventsFit, NeverResurrected, IdentityIsStable, Enrolled, Current, Contract, Version

LEMMA AskFits ==
  ASSUME EnrollmentInv, NEW q \in Requests, AskEnroll(q)
  PROVE  EnrollmentInv'
<1>0. PICK r \in Repos : \E n \in 0..Version(r) :
        request' = [request EXCEPT ![q] = [NoRequest EXCEPT !.repo = r, !.expected = n, !.stage = "identify"]]
  BY DEF AskEnroll
<1>1. PICK n \in 0..Version(r) :
        request' = [request EXCEPT ![q] = [NoRequest EXCEPT !.repo = r, !.expected = n, !.stage = "identify"]]
  BY <1>0
<1>9. /\ request[q] \in [repo : Repos \cup {"none"}, expected : Nat, id : Ids \cup {NoId}, stage : RequestStages,
                            policy : Policies \cup {NoPolicy}, since : Nat]
      /\ NoRequest \in [repo : Repos \cup {"none"}, expected : Nat, id : Ids \cup {NoId}, stage : RequestStages,
                        policy : Policies \cup {NoPolicy}, since : Nat]
      /\ request[q].repo \in Repos \cup {"none"} /\ request[q].expected \in Nat /\ request[q].id \in Ids \cup {NoId}
      /\ request[q].policy \in Policies \cup {NoPolicy} /\ request[q].since \in Nat
      /\ NoId \in Ids \cup {NoId} /\ NoPolicy \in Policies \cup {NoPolicy} /\ 0 \in Nat
  BY RequestKind DEF EnrollmentInv
<1>2. Len(events[r]) \in Nat /\ n \in Nat /\ n <= Len(events[r]) /\ UNCHANGED <<named, file, events, check, observed>>
  BY EventKind DEF EnrollmentInv, AskEnroll, Version
<1> DEFINE row == [NoRequest EXCEPT !.repo = r, !.expected = n, !.stage = "identify"]
<1>3. r \in Repos \cup {"none"} /\ "identify" \in RequestStages
  BY DEF RequestStages
<1>4. row \in RequestRows /\ row.repo = r /\ row.expected = n /\ row.stage = "identify"
  <2>1. RequestsFit
    BY DEF EnrollmentInv
  <2> QED BY <1>2, <1>3, <2>1, <1>9, RequestReplaced, Zenon DEF RequestRows
<1> HIDE DEF row
<1>5. request' = [request EXCEPT ![q] = row]
  BY <1>1 DEF row
<1>6. EventsGrow /\ EventsFit'
  BY <1>2, Unchanging
<1> QED BY <1>2, <1>4, <1>5, <1>6, RequestMoves

LEMMA IdentifyFits ==
  ASSUME EnrollmentInv, NEW q \in Requests, Identify(q)
  PROVE  EnrollmentInv'
<1> DEFINE row == [request[q] EXCEPT !.id = named[request[q].repo], !.stage = "policy"]
<1>0. RequestsFit /\ GitHubKinds
  BY DEF EnrollmentInv
<1>1. /\ request[q].stage = "identify" /\ request' = [request EXCEPT ![q] = row]
      /\ named[request[q].repo] # NoId /\ UNCHANGED <<named, file, events, check, observed>>
  BY <1>0 DEF Identify, RequestsFit
<1>9. /\ request[q] \in [repo : Repos \cup {"none"}, expected : Nat, id : Ids \cup {NoId}, stage : RequestStages,
                            policy : Policies \cup {NoPolicy}, since : Nat]
      /\ NoRequest \in [repo : Repos \cup {"none"}, expected : Nat, id : Ids \cup {NoId}, stage : RequestStages,
                        policy : Policies \cup {NoPolicy}, since : Nat]
      /\ request[q].repo \in Repos \cup {"none"} /\ request[q].expected \in Nat /\ request[q].id \in Ids \cup {NoId}
      /\ request[q].policy \in Policies \cup {NoPolicy} /\ request[q].since \in Nat
      /\ NoId \in Ids \cup {NoId} /\ NoPolicy \in Policies \cup {NoPolicy} /\ 0 \in Nat
  BY RequestKind DEF EnrollmentInv
<1>2. request[q].repo \in Repos /\ request[q].expected <= Len(events[request[q].repo])
  BY <1>0, <1>1 DEF RequestsFit
<1>3. named[request[q].repo] \in Ids /\ named[request[q].repo] \in Ids \cup {NoId} /\ "policy" \in RequestStages
  BY <1>0, <1>1, <1>2 DEF GitHubKinds, RequestStages
<1>4. row \in RequestRows /\ row.repo = request[q].repo /\ row.expected = request[q].expected /\ row.stage = "policy"
      /\ row.id = named[request[q].repo]
  BY <1>0, <1>3, <1>9, RequestReplaced, Zenon DEF RequestRows
<1> HIDE DEF row
<1>5. EventsGrow /\ EventsFit'
  BY <1>1, Unchanging
<1> QED BY <1>1, <1>2, <1>3, <1>4, <1>5, RequestMoves

LEMMA ReadPolicyFits ==
  ASSUME EnrollmentInv, NEW q \in Requests, ReadPolicy(q)
  PROVE  EnrollmentInv'
<1> DEFINE row == [request[q] EXCEPT !.policy = file[request[q].id], !.stage = "record", !.since = Version(request[q].repo)]
<1>0. RequestsFit /\ GitHubKinds /\ EventsFit
  BY DEF EnrollmentInv
<1>1. /\ request[q].stage = "policy" /\ request' = [request EXCEPT ![q] = row]
      /\ UNCHANGED <<named, file, events, check, observed>>
  BY <1>0 DEF ReadPolicy, RequestsFit
<1>9. /\ request[q] \in [repo : Repos \cup {"none"}, expected : Nat, id : Ids \cup {NoId}, stage : RequestStages,
                            policy : Policies \cup {NoPolicy}, since : Nat]
      /\ NoRequest \in [repo : Repos \cup {"none"}, expected : Nat, id : Ids \cup {NoId}, stage : RequestStages,
                        policy : Policies \cup {NoPolicy}, since : Nat]
      /\ request[q].repo \in Repos \cup {"none"} /\ request[q].expected \in Nat /\ request[q].id \in Ids \cup {NoId}
      /\ request[q].policy \in Policies \cup {NoPolicy} /\ request[q].since \in Nat
      /\ NoId \in Ids \cup {NoId} /\ NoPolicy \in Policies \cup {NoPolicy} /\ 0 \in Nat
  BY RequestKind DEF EnrollmentInv
<1>2. /\ request[q].repo \in Repos /\ request[q].expected <= Len(events[request[q].repo])
      /\ request[q].id \in Ids
  BY <1>0, <1>1 DEF RequestsFit
<1>3. /\ file[request[q].id] \in Policies /\ file[request[q].id] \in Policies \cup {NoPolicy} /\ "record" \in RequestStages
      /\ Version(request[q].repo) \in Nat /\ Version(request[q].repo) = Len(events[request[q].repo])
  BY <1>0, <1>2, EventKind DEF GitHubKinds, RequestStages, Version
<1>4. row \in RequestRows /\ row.repo = request[q].repo /\ row.expected = request[q].expected /\ row.stage = "record"
      /\ row.id = request[q].id /\ row.policy = file[request[q].id] /\ row.since = Version(request[q].repo)
  BY <1>0, <1>3, <1>9, RequestReplaced, Zenon DEF RequestRows
<1> HIDE DEF row
<1>5. EventsGrow /\ EventsFit'
  BY <1>1, Unchanging
<1>6. row.since <= Len(events'[row.repo]) /\ row.expected <= row.since /\ row.expected <= Len(events'[row.repo])
  BY <1>1, <1>2, <1>3, <1>4
<1> QED BY <1>1, <1>2, <1>3, <1>4, <1>5, <1>6, RequestMoves

\* A request is answered or asked again; its version was there.
LEMMA AnsweredFits ==
  ASSUME EnrollmentInv, NEW q \in Requests, request[q].stage # "none", EventsGrow, EventsFit',
         UNCHANGED <<named, file, check, observed>>,
         \/ request' = [request EXCEPT ![q].stage = "answered", ![q].id = NoId, ![q].policy = NoPolicy, ![q].since = 0]
         \/ request' = [request EXCEPT ![q].stage = "identify"]
  PROVE  EnrollmentInv'
<1> DEFINE ended == [request[q] EXCEPT !.stage = "answered", !.id = NoId, !.policy = NoPolicy, !.since = 0]
           again == [request[q] EXCEPT !.stage = "identify"]
<1>0. RequestsFit
  BY DEF EnrollmentInv
<1>1. request' = [request EXCEPT ![q] = ended] \/ request' = [request EXCEPT ![q] = again]
  BY <1>0 DEF RequestsFit
<1>9. /\ request[q] \in [repo : Repos \cup {"none"}, expected : Nat, id : Ids \cup {NoId}, stage : RequestStages,
                            policy : Policies \cup {NoPolicy}, since : Nat]
      /\ NoRequest \in [repo : Repos \cup {"none"}, expected : Nat, id : Ids \cup {NoId}, stage : RequestStages,
                        policy : Policies \cup {NoPolicy}, since : Nat]
      /\ request[q].repo \in Repos \cup {"none"} /\ request[q].expected \in Nat /\ request[q].id \in Ids \cup {NoId}
      /\ request[q].policy \in Policies \cup {NoPolicy} /\ request[q].since \in Nat
      /\ NoId \in Ids \cup {NoId} /\ NoPolicy \in Policies \cup {NoPolicy} /\ 0 \in Nat
  BY RequestKind DEF EnrollmentInv
<1>2. "answered" \in RequestStages /\ "identify" \in RequestStages
  BY DEF RequestStages
<1>3. ended \in RequestRows /\ ended.repo = request[q].repo /\ ended.expected = request[q].expected
      /\ ended.stage = "answered"
  BY <1>0, <1>2, <1>9, RequestReplaced, Zenon DEF RequestRows
<1>4. again \in RequestRows /\ again.repo = request[q].repo /\ again.expected = request[q].expected
      /\ again.stage = "identify"
  BY <1>0, <1>2, <1>9, RequestReplaced, Zenon DEF RequestRows
<1> HIDE DEF ended, again
<1>5. request[q].repo \in Repos /\ request[q].expected <= Len(events'[request[q].repo])
  <2>1. request[q].repo \in Repos /\ request[q].expected <= Len(events[request[q].repo]) /\ request[q].expected \in Nat
    BY <1>0, RequestKind DEF RequestsFit
  <2>2. Len(events[request[q].repo]) \in Nat /\ Len(events'[request[q].repo]) \in Nat
    BY <2>1, EventKind DEF EnrollmentInv, EventsFit
  <2> QED BY <2>1, <2>2 DEF EventsGrow
<1>6. CASE request' = [request EXCEPT ![q] = ended]
  BY <1>3, <1>5, <1>6, RequestMoves
<1>7. CASE request' = [request EXCEPT ![q] = again]
  BY <1>4, <1>5, <1>7, RequestMoves
<1> QED BY <1>1, <1>6, <1>7

LEMMA RecordFits ==
  ASSUME EnrollmentInv, NEW q \in Requests, RecordEnrollment(q)
  PROVE  EnrollmentInv'
<1> DEFINE r == request[q].repo
           e == [id |-> request[q].id, policy |-> request[q].policy, enabled |-> TRUE, key |-> q,
                 since |-> request[q].since]
<1>0. RequestsFit /\ EventsFit
  BY DEF EnrollmentInv
<1>1. /\ request[q].stage = "record" /\ UNCHANGED <<named, file, check, observed>>
      /\ request' = [request EXCEPT ![q].stage = "answered", ![q].id = NoId, ![q].policy = NoPolicy, ![q].since = 0]
      /\ r \in Repos /\ request[q].id \in Ids /\ request[q].policy \in Policies
      /\ request[q].expected <= request[q].since /\ request[q].since <= Len(events[r])
  BY <1>0 DEF RecordEnrollment, RequestsFit
<1>2. Len(events[r]) \in Nat /\ request[q].since \in Nat /\ request[q].expected \in Nat
  BY <1>0, <1>1, EventKind, RequestKind
<1>3. CASE MayRecord(q, r, request[q].id)
  <2>1. events' = [events EXCEPT ![r] = Append(events[r], e)]
    BY <1>0, <1>1, <1>3 DEF RecordEnrollment, EventsFit
  <2>2. request[q].since = Len(events[r])
    BY <1>1, <1>2, <1>3 DEF MayRecord, Version
  <2>3. e \in EventRows /\ e.since = request[q].since /\ e.id = request[q].id
    <3>1. q \in 0..MaxRequests
      BY EnrollmentAssumption DEF EnrollmentAssumption, Requests
    <3> QED BY <1>1, <1>2, <3>1 DEF EventRows
  <2>4. EventAdded(r, e)
    <3>1. Enrolled(r) => request[q].id = events[r][Len(events[r])].id
      BY <1>3 DEF MayRecord, Current, Contract, Version
    <3>2. \A s \in Repos \ {r} : Enrolled(s) => events[s][Len(events[s])].id # request[q].id
      BY <1>3 DEF MayRecord, Current, Contract, Version
    <3> HIDE DEF e
    <3> QED BY <2>1, <2>2, <2>3, <3>1, <3>2 DEF EventAdded
  <2>5. EventsGrow /\ EventsFit'
    BY <1>1, <2>4, EventAddedFits
  <2> QED BY <1>1, <2>5, AnsweredFits
<1>4. CASE ~MayRecord(q, r, request[q].id)
  <2>1. EventsGrow /\ EventsFit'
    BY <1>4, Unchanging DEF RecordEnrollment
  <2> QED BY <1>1, <2>1, AnsweredFits
<1> QED BY <1>3, <1>4

LEMMA DisableFits ==
  ASSUME EnrollmentInv, NEW q \in Requests, Disable(q)
  PROVE  EnrollmentInv'
<1>0. PICK r \in Repos : \E n \in 1..Version(r) :
        /\ request' = [request EXCEPT ![q] = [NoRequest EXCEPT !.repo = r, !.expected = n, !.stage = "disabled"]]
        /\ IF n = Version(r)
             THEN events' = [events EXCEPT ![r] = Append(@, [@[n] EXCEPT !.enabled = FALSE, !.key = q, !.since = n])]
             ELSE UNCHANGED events
  BY DEF Disable
<1>1. PICK n \in 1..Version(r) :
        /\ request' = [request EXCEPT ![q] = [NoRequest EXCEPT !.repo = r, !.expected = n, !.stage = "disabled"]]
        /\ IF n = Version(r)
             THEN events' = [events EXCEPT ![r] = Append(@, [@[n] EXCEPT !.enabled = FALSE, !.key = q, !.since = n])]
             ELSE UNCHANGED events
  BY <1>0
<1>9. /\ request[q] \in [repo : Repos \cup {"none"}, expected : Nat, id : Ids \cup {NoId}, stage : RequestStages,
                            policy : Policies \cup {NoPolicy}, since : Nat]
      /\ NoRequest \in [repo : Repos \cup {"none"}, expected : Nat, id : Ids \cup {NoId}, stage : RequestStages,
                        policy : Policies \cup {NoPolicy}, since : Nat]
      /\ request[q].repo \in Repos \cup {"none"} /\ request[q].expected \in Nat /\ request[q].id \in Ids \cup {NoId}
      /\ request[q].policy \in Policies \cup {NoPolicy} /\ request[q].since \in Nat
      /\ NoId \in Ids \cup {NoId} /\ NoPolicy \in Policies \cup {NoPolicy} /\ 0 \in Nat
  BY RequestKind DEF EnrollmentInv
<1>2. /\ EventsFit /\ RequestsFit /\ Len(events[r]) \in Nat /\ n \in 1..Len(events[r]) /\ n \in Nat
      /\ Version(r) = Len(events[r]) /\ UNCHANGED <<named, file, check, observed>>
  BY EventKind DEF EnrollmentInv, Version, Disable
<1>3. EventsGrow /\ EventsFit'
  <2>1. CASE n = Version(r)
    <3> DEFINE e == [events[r][n] EXCEPT !.enabled = FALSE, !.key = q, !.since = n]
    <3>1. events' = [events EXCEPT ![r] = Append(events[r], e)]
      BY <1>1, <1>2, <2>1 DEF EventsFit
    <3>2. events[r][n] \in EventRows /\ q \in 0..MaxRequests
      BY <1>2, EventKind, EnrollmentAssumption DEF EnrollmentAssumption, Requests
    <3>3. e \in EventRows /\ e.id = events[r][n].id /\ e.enabled = FALSE
      BY <1>2, <3>2 DEF EventRows
    <3>4. Enrolled(r)
      BY <1>2, EventKind
    <3> HIDE DEF e
    <3>5. EventAdded(r, e)
      BY <1>2, <2>1, <3>1, <3>3, <3>4 DEF EventAdded
    <3> QED BY <3>5, EventAddedFits
  <2>2. CASE n # Version(r)
    BY <1>1, <2>2, Unchanging
  <2> QED BY <2>1, <2>2
<1> DEFINE row == [NoRequest EXCEPT !.repo = r, !.expected = n, !.stage = "disabled"]
<1>4. r \in Repos \cup {"none"} /\ "disabled" \in RequestStages
  BY DEF RequestStages
<1>5. row \in RequestRows /\ row.repo = r /\ row.expected = n /\ row.stage = "disabled"
  BY <1>2, <1>4, <1>9, RequestReplaced, Zenon DEF RequestRows
<1> HIDE DEF row
<1>6. request' = [request EXCEPT ![q] = row] /\ n <= Len(events'[r])
  <2>1. Len(events'[r]) \in Nat
    BY <1>3, EventKind DEF EventsFit
  <2>2. Len(events[r]) <= Len(events'[r])
    BY <1>3 DEF EventsGrow
  <2>3. request' = [request EXCEPT ![q] = row]
    BY <1>1 DEF row
  <2> QED BY <1>2, <2>1, <2>2, <2>3
<1> QED BY <1>2, <1>3, <1>5, <1>6, RequestMoves

LEMMA CheckReplaced ==
  ASSUME NEW S, NEW V, NEW T, NEW x \in [stage : S, seen : V, status : T], NEW s \in S, NEW v \in V, NEW t \in T
  PROVE  /\ LET y == [x EXCEPT !.stage = s, !.seen = v] IN
              y \in [stage : S, seen : V, status : T] /\ y.stage = s /\ y.seen = v /\ y.status = x.status
         /\ LET y == [x EXCEPT !.status = t] IN
              y \in [stage : S, seen : V, status : T] /\ y.stage = x.stage /\ y.seen = x.seen /\ y.status = t
         /\ LET y == [x EXCEPT !.stage = s, !.status = t] IN
              y \in [stage : S, seen : V, status : T] /\ y.stage = s /\ y.seen = x.seen /\ y.status = t
OBVIOUS

LEMMA CheckKind ==
  ASSUME ChecksFit, NEW c \in Checks
  PROVE  /\ check[c] \in [stage : {"none", "inspect", "ended"}, seen : [Repos -> Nat],
                          status : [Repos -> {"none", "aligned", "drifted", "unavailable"}]]
         /\ check[c].stage \in {"none", "inspect", "ended"} /\ check[c].seen \in [Repos -> Nat]
         /\ check[c].status \in [Repos -> {"none", "aligned", "drifted", "unavailable"}]
         /\ CheckFits(c)
<1>1. check[c] \in CheckRows /\ CheckFits(c)
  BY DEF ChecksFit
<1> QED BY <1>1 DEF CheckRows

\* The row of one check is replaced: what it saw stays once something is observed of it.
LEMMA CheckMoves ==
  ASSUME EnrollmentInv, NEW c \in Checks, NEW row \in CheckRows, check' = [check EXCEPT ![c] = row],
         UNCHANGED <<named, file, events, request>>, CheckFits(c)'
  PROVE  /\ GitHubKinds' /\ EventsFit' /\ RequestsFit' /\ ChecksFit'
         /\ check'[c] = row /\ \A d \in Checks : d # c => check'[d] = check[d]
<1>1. GitHubKinds' /\ EventsFit' /\ RequestsFit'
  BY Unchanging, GrowthKeeps DEF EnrollmentInv, GitHubKinds
<1>2. /\ check'[c] = row /\ \A d \in Checks : d # c => check'[d] = check[d]
      /\ check' \in [Checks -> CheckRows]
  BY DEF EnrollmentInv, ChecksFit
<1>3. \A d \in Checks : CheckFits(d)'
  BY <1>2 DEF EnrollmentInv, ChecksFit, CheckFits
<1> QED BY <1>1, <1>2, <1>3 DEF ChecksFit

LEMMA StartFits ==
  ASSUME EnrollmentInv, NEW c \in Checks, StartCheck(c)
  PROVE  EnrollmentInv'
<1> DEFINE seen == [r \in Repos |-> IF Enabled(r) THEN Version(r) ELSE 0]
           row == [check[c] EXCEPT !.stage = "inspect", !.seen = seen]
<1>0. ChecksFit /\ ObservedFit /\ EventsFit
  BY DEF EnrollmentInv
<1>1. /\ check[c].stage = "none" /\ check' = [check EXCEPT ![c] = row]
      /\ UNCHANGED <<named, file, events, request, observed>>
  BY <1>0 DEF StartCheck, ChecksFit
<1>2. /\ check[c] \in [stage : {"none", "inspect", "ended"}, seen : [Repos -> Nat],
                          status : [Repos -> {"none", "aligned", "drifted", "unavailable"}]]
      /\ check[c].status \in [Repos -> {"none", "aligned", "drifted", "unavailable"}] /\ CheckFits(c)
  BY <1>0, CheckKind
<1>3. seen \in [Repos -> Nat] /\ \A r \in Repos : seen[r] # 0 => /\ seen[r] = Len(events[r])
                                                                 /\ seen[r] \in 1..Len(events[r])
                                                                 /\ events[r][seen[r]].enabled
  <2>1. ASSUME NEW r \in Repos
        PROVE  /\ seen[r] = IF Enabled(r) THEN Len(events[r]) ELSE 0
               /\ seen[r] \in Nat
               /\ seen[r] # 0 => seen[r] = Len(events[r]) /\ seen[r] \in 1..Len(events[r]) /\ events[r][seen[r]].enabled
    BY <1>0, EventKind DEF Enabled, Version
  <2>2. seen = [r \in Repos |-> seen[r]]
    OBVIOUS
  <2> HIDE DEF seen
  <2> QED BY <2>1, <2>2
<1>4. "inspect" \in {"none", "inspect", "ended"}
  OBVIOUS
<1> HIDE DEF seen
<1>5. row \in CheckRows /\ row.stage = "inspect" /\ row.seen = seen /\ row.status = check[c].status
  BY <1>2, <1>3, <1>4, CheckReplaced, Zenon DEF CheckRows
<1> HIDE DEF row
<1>6. check'[c] = row
  BY <1>0, <1>1 DEF ChecksFit
<1>7. CheckFits(c)'
  BY <1>1, <1>2, <1>3, <1>5, <1>6 DEF CheckFits
<1>8. /\ GitHubKinds' /\ EventsFit' /\ RequestsFit' /\ ChecksFit'
      /\ \A d \in Checks : d # c => check'[d] = check[d]
  BY <1>1, <1>5, <1>7, CheckMoves
<1>9. \A o \in observed : o.batch \in Checks /\ o.batch # c
  BY <1>0, <1>1 DEF ObservedFit
<1>10. BatchIsWhole'
  <2>1. ASSUME NEW d \in Checks
        PROVE  {o.repo : o \in {x \in observed : x.batch = d}} \in {{}, Captured(d)'}
    <3>1. CASE d = c
      BY <1>9, <3>1
    <3>2. CASE d # c
      BY <1>0, <1>8, <3>2 DEF ObservedFit, BatchIsWhole, Captured
    <3> QED BY <3>1, <3>2
  <2> QED BY <1>1, <2>1 DEF BatchIsWhole
<1>11. ObservedFit'
  BY <1>0, <1>1, <1>8, <1>9, <1>10 DEF ObservedFit, Contract
<1> QED BY <1>8, <1>11 DEF EnrollmentInv

LEMMA InspectFits ==
  ASSUME EnrollmentInv, NEW c \in Checks, NEW r \in Repos, Inspect(c, r)
  PROVE  EnrollmentInv'
<1>0. ChecksFit /\ ObservedFit /\ EventsFit
  BY DEF EnrollmentInv
<1>1. PICK s \in {"aligned", "drifted", "unavailable"} : check' = [check EXCEPT ![c].status[r] = s]
  BY DEF Inspect
<1> DEFINE status == [check[c].status EXCEPT ![r] = s]
           row == [check[c] EXCEPT !.status = status]
<1>2. /\ check[c].stage = "inspect" /\ check[c].seen[r] # 0 /\ check' = [check EXCEPT ![c] = row]
      /\ UNCHANGED <<named, file, events, request, observed>>
  BY <1>0, <1>1 DEF Inspect, ChecksFit
<1>3. /\ check[c] \in [stage : {"none", "inspect", "ended"}, seen : [Repos -> Nat],
                          status : [Repos -> {"none", "aligned", "drifted", "unavailable"}]]
      /\ check[c].stage \in {"none", "inspect", "ended"} /\ check[c].seen \in [Repos -> Nat]
      /\ check[c].status \in [Repos -> {"none", "aligned", "drifted", "unavailable"}] /\ CheckFits(c)
  BY <1>0, CheckKind
<1>4. /\ status \in [Repos -> {"none", "aligned", "drifted", "unavailable"}]
      /\ \A x \in Repos : x # r => status[x] = check[c].status[x]
  BY <1>3
<1> HIDE DEF status
<1>5. row \in CheckRows /\ row.stage = check[c].stage /\ row.seen = check[c].seen /\ row.status = status
  BY <1>3, <1>4, CheckReplaced, Zenon DEF CheckRows
<1> HIDE DEF row
<1>6. check'[c] = row
  BY <1>0, <1>2 DEF ChecksFit
<1>7. CheckFits(c)'
  BY <1>2, <1>3, <1>4, <1>5, <1>6 DEF CheckFits
<1>8. /\ GitHubKinds' /\ EventsFit' /\ RequestsFit' /\ ChecksFit'
      /\ \A d \in Checks : d # c => check'[d] = check[d]
  BY <1>2, <1>5, <1>7, CheckMoves
<1>9. \A d \in Checks : check'[d].stage = check[d].stage /\ check'[d].seen = check[d].seen
  BY <1>5, <1>6, <1>8
<1>10. BatchIsWhole'
  BY <1>0, <1>2, <1>9 DEF ObservedFit, BatchIsWhole, Captured
<1>11. ObservedFit'
  BY <1>0, <1>2, <1>9, <1>10 DEF ObservedFit, Contract
<1> QED BY <1>8, <1>11 DEF EnrollmentInv

\* The batch binds each captured contract to the version that is current, which says the same.
LEMMA EndFits ==
  ASSUME EnrollmentInv, NEW c \in Checks, EndCheck(c)
  PROVE  EnrollmentInv'
<1> DEFINE status == [r \in Repos |-> "none"]
           row == [check[c] EXCEPT !.stage = "ended", !.status = status]
<1>0. ChecksFit /\ ObservedFit /\ EventsFit
  BY DEF EnrollmentInv
<1>1. /\ check[c].stage = "inspect" /\ check' = [check EXCEPT ![c] = row] /\ Records(c)
      /\ UNCHANGED <<named, file, events, request>>
  BY <1>0 DEF EndCheck, ChecksFit
<1>2. /\ check[c] \in [stage : {"none", "inspect", "ended"}, seen : [Repos -> Nat],
                          status : [Repos -> {"none", "aligned", "drifted", "unavailable"}]]
      /\ check[c].seen \in [Repos -> Nat] /\ CheckFits(c)
  BY <1>0, CheckKind
<1>3. status \in [Repos -> {"none", "aligned", "drifted", "unavailable"}] /\ "ended" \in {"none", "inspect", "ended"}
      /\ \A r \in Repos : status[r] = "none"
  OBVIOUS
<1> HIDE DEF status
<1>4. row \in CheckRows /\ row.stage = "ended" /\ row.seen = check[c].seen /\ row.status = status
  BY <1>2, <1>3, CheckReplaced, Zenon DEF CheckRows
<1> HIDE DEF row
<1>5. check'[c] = row
  BY <1>0, <1>1 DEF ChecksFit
<1>6. CheckFits(c)'
  BY <1>1, <1>2, <1>3, <1>4, <1>5 DEF CheckFits
<1>7. /\ GitHubKinds' /\ EventsFit' /\ RequestsFit' /\ ChecksFit'
      /\ \A d \in Checks : d # c => check'[d] = check[d]
  BY <1>1, <1>4, <1>6, CheckMoves
<1>8. \A d \in Checks : Captured(d)' = Captured(d)
  BY <1>4, <1>5, <1>7 DEF Captured
<1>9. \A o \in observed : o.batch \in Checks /\ o.batch # c
  BY <1>0, <1>1 DEF ObservedFit
<1>10. observed' = observed \/ /\ observed' = observed \cup Observations(c, Captured(c))
                               /\ \A r \in Captured(c) : Current(r) = Contract(r, check[c].seen[r])
  BY <1>1 DEF Records
<1>11. \A o \in Observations(c, Captured(c)) :
         \E r \in Captured(c) : /\ o.batch = c /\ o.repo = r /\ o.version = Version(r)
                                /\ o.contract = Contract(r, check[c].seen[r])
  BY DEF Observations
<1>12. ASSUME NEW r \in Captured(c)
       PROVE  \E o \in Observations(c, Captured(c)) : o.batch = c /\ o.repo = r
  <2> DEFINE made == [batch |-> c, repo |-> r, version |-> Version(r),
                      contract |-> Contract(r, check[c].seen[r]), status |-> check[c].status[r]]
  <2>1. made \in Observations(c, Captured(c))
    BY DEF Observations
  <2>2. made.batch = c /\ made.repo = r
    OBVIOUS
  <2> HIDE DEF made
  <2> QED BY <2>1, <2>2
<1>13. ASSUME NEW o \in observed'
       PROVE  /\ o.batch \in Checks /\ check'[o.batch].stage = "ended"
              /\ o.repo \in Repos /\ o.version \in 1..Len(events[o.repo])
              /\ Contract(o.repo, o.version) = o.contract /\ o.contract.enabled
  <2>1. CASE o \in observed
    BY <1>0, <1>7, <1>9, <2>1 DEF ObservedFit
  <2>2. CASE o \notin observed
    <3>1. PICK r \in Captured(c) : /\ o.batch = c /\ o.repo = r /\ o.version = Version(r)
                                   /\ o.contract = Contract(r, check[c].seen[r])
      BY <1>10, <1>11, <1>13, <2>2
    <3>2. r \in Repos /\ check[c].seen[r] \in 1..Len(events[r]) /\ events[r][check[c].seen[r]].enabled
      BY <1>2, <3>1 DEF Captured, CheckFits
    <3>3. Len(events[r]) \in 1..Len(events[r])
      <4>1. Len(events[r]) \in Nat
        BY <1>0, <3>2, EventKind
      <4> QED BY <3>2, <4>1
    <3>4. Contract(r, Version(r)) = Contract(r, check[c].seen[r])
      BY <1>10, <1>13, <2>2, <3>1 DEF Current
    <3>5. o.contract.enabled
      BY <3>1, <3>2 DEF Contract
    <3> QED BY <1>4, <1>5, <3>1, <3>2, <3>3, <3>4, <3>5 DEF Version
  <2> QED BY <2>1, <2>2
<1>14. ASSUME NEW d \in Checks
       PROVE  {o.repo : o \in {x \in observed' : x.batch = d}} \in {{}, Captured(d)}
  <2>1. CASE d # c
    <3>1. {x \in observed' : x.batch = d} = {x \in observed : x.batch = d}
      BY <1>10, <1>11, <2>1
    <3> QED BY <1>0, <3>1 DEF ObservedFit, BatchIsWhole
  <2>2. CASE d = c
    <3>1. CASE observed' = observed
      BY <1>9, <2>2, <3>1
    <3>2. CASE observed' = observed \cup Observations(c, Captured(c))
      <4>1. {x \in observed' : x.batch = c} = Observations(c, Captured(c))
        BY <1>9, <1>11, <3>2
      <4>2. {o.repo : o \in Observations(c, Captured(c))} = Captured(c)
        BY <1>11, <1>12
      <4> QED BY <2>2, <4>1, <4>2
    <3> QED BY <1>10, <3>1, <3>2
  <2> QED BY <2>1, <2>2
<1>15. BatchIsWhole'
  BY <1>8, <1>14 DEF BatchIsWhole
<1>16. \A o \in observed' : Contract(o.repo, o.version)' = Contract(o.repo, o.version)
  BY <1>1 DEF Contract
<1>17. ObservedFit'
  BY <1>1, <1>13, <1>15, <1>16 DEF ObservedFit, Contract
<1> QED BY <1>7, <1>17 DEF EnrollmentInv

LEMMA EnrollmentStep == ASSUME EnrollmentInv, [EnrollmentNext]_enrollmentVars PROVE EnrollmentInv'
<1>1. ASSUME GitHubKinds', UNCHANGED <<events, request, check, observed>> PROVE EnrollmentInv'
  <2>1. EventsFit' /\ RequestsFit' /\ ChecksFit' /\ ObservedFit'
    BY <1>1, Unchanging, GrowthKeeps
  <2> QED BY <1>1, <2>1 DEF EnrollmentInv
<1>2. GitHubKinds
  BY DEF EnrollmentInv
<1>3. ASSUME NEW i \in Ids, PolicyRevised(i) PROVE EnrollmentInv'
  BY <1>1, <1>2, <1>3 DEF PolicyRevised, GitHubKinds
<1>4. ASSUME NEW r \in Repos, NEW s \in Repos, Renamed(r, s) PROVE EnrollmentInv'
  <2>1. named' \in [Repos -> Ids \cup {NoId}]
    BY <1>2, <1>4 DEF Renamed, GitHubKinds
  <2> QED BY <1>1, <1>2, <1>4, <2>1 DEF Renamed, GitHubKinds
<1>5. ASSUME NEW r \in Repos, Deleted(r) PROVE EnrollmentInv'
  BY <1>1, <1>2, <1>5 DEF Deleted, GitHubKinds
<1>6. ASSUME NEW q \in Requests, Refuse(q) \/ AskAgain(q) PROVE EnrollmentInv'
  <2>1. /\ request[q].stage # "none" /\ UNCHANGED <<named, file, events, check, observed>>
        /\ \/ request' = [request EXCEPT ![q].stage = "answered", ![q].id = NoId, ![q].policy = NoPolicy,
                                         ![q].since = 0]
           \/ request' = [request EXCEPT ![q].stage = "identify"]
    BY <1>6 DEF Refuse, AskAgain
  <2>2. EventsGrow /\ EventsFit'
    BY <2>1, Unchanging
  <2> QED BY <2>1, <2>2, AnsweredFits, ZenonT(40)
<1>7. CASE UNCHANGED enrollmentVars
  BY <1>1, <1>2, <1>7 DEF enrollmentVars, GitHubKinds
<1> QED BY <1>3, <1>4, <1>5, <1>6, <1>7, AskFits, IdentifyFits, ReadPolicyFits, RecordFits, DisableFits, StartFits,
           InspectFits, EndFits DEF EnrollmentNext

LEMMA EnrollmentSoundAlways == EnrollmentSpec => []EnrollmentIsSound
<1>1. EnrollmentInv => EnrollmentIsSound
  <2> SUFFICES ASSUME EnrollmentInv PROVE EnrollmentIsSound
    OBVIOUS
  <2>1. \A r \in Repos : \A n \in DOMAIN events[r] : events[r][n] \in EventRows
    BY EventKind DEF EnrollmentInv
  <2>2. ASSUME NEW c \in Checks, NEW r \in Repos, check[c].status[r] # "none"
        PROVE  check[c].stage = "inspect" /\ check[c].seen[r] \in 1..Version(r)
    <3>1. CheckFits(c) /\ check[c].stage \in {"none", "inspect", "ended"}
      BY CheckKind DEF EnrollmentInv
    <3> QED BY <2>2, <3>1 DEF CheckFits, Version
  <2>3. EnrollmentTypeOK
    BY <2>1, <2>2 DEF EnrollmentInv, GitHubKinds, RequestsFit, RequestRows, RequestStages, EventRows, EnrollmentTypeOK
  <2>4. ObservationsVerify
    BY DEF EnrollmentInv, ObservedFit, ObservationsVerify
  <2> QED BY <2>3, <2>4 DEF EnrollmentInv, EventsFit, ObservedFit, EnrollmentIsSound
<1> QED BY <1>1, EnrollmentStarts, EnrollmentStep, PTL DEF EnrollmentSpec

(***************************************************************************)
(* The components together.                                                *)
(***************************************************************************)
\* A behaviour that follows one component is a behaviour of each: of the one it
\* follows, and of the others, which stand still.
LEMMA PartsStandAlone ==
  RequestsSpec => /\ RebaseSpec /\ ExecutionSpec /\ SessionSpec /\ WebhookSpec /\ IssueSpec
                  /\ CredentialSpec /\ AssemblySpec /\ IntakeSpec /\ EnrollmentSpec
                  /\ ActivitySpec
<1>1. RequestsInit => /\ RebaseInit /\ ExecutionInit /\ SessionInit /\ WebhookInit /\ IssueInit
                      /\ CredentialInit /\ AssemblyInit /\ IntakeInit /\ EnrollmentInit
                      /\ ActivityInit
  BY DEF RequestsInit
<1>2. [RequestsNext]_<<part, rebaseVars, intakeVars, issueVars, webhookVars, enrollmentVars,
                       assemblyVars, sessionVars, activityVars, credentialVars, executionVars>> =>
        /\ [RebaseNext]_rebaseVars /\ [ExecutionNext]_executionVars /\ [SessionNext]_sessionVars
        /\ [WebhookNext]_webhookVars /\ [IssueNext]_issueVars /\ [CredentialNext]_credentialVars
        /\ [AssemblyNext]_assemblyVars /\ [IntakeNext]_intakeVars /\ [EnrollmentNext]_enrollmentVars
        /\ [ActivityNext]_activityVars
  BY DEF RequestsNext
<1> QED BY <1>1, <1>2, PTL DEF RequestsSpec, RebaseSpec, ExecutionSpec, SessionSpec, WebhookSpec, IssueSpec,
                               CredentialSpec, AssemblySpec, IntakeSpec, EnrollmentSpec, ActivitySpec

\* For any number of replays and reviews: a draft is recovered once and from a validated
\* replay, and each replay pays for one review.
THEOREM RecoverySound == RequestsSpec => []SoundRecovery
<1>1. RecoveryIsSound => SoundRecovery
  BY DEF SoundRecovery
<1> QED BY <1>1, PartsStandAlone, RecoverySoundAlways, PTL

\* Whatever the worker, the gates and the processes that take over do: a draft that
\* succeeded passed every gate, within its claim, and stands on its base.
THEOREM DraftTrusted == RequestsSpec => []TrustedDraft
<1>1. DraftIsTrusted => TrustedDraft
  BY DEF TrustedDraft
<1> QED BY <1>1, PartsStandAlone, DraftTrustedAlways, PTL

\* For any number of logins and callbacks: a login opens one session, and nobody is
\* served longer than a session after GitHub called them a member.
THEOREM SessionsEarned == RequestsSpec => []EarnedSessions
<1>1. SessionsAreEarned => EarnedSessions
  BY DEF EarnedSessions
<1> QED BY <1>1, PartsStandAlone, SessionsEarnedAlways, PTL

\* For any deliveries, handlers and publications: an acknowledged delivery was applied to
\* all that it was due for, and an installation is snapshot once per delivery.
THEOREM DeliveriesApplied == RequestsSpec => []AppliedDeliveries
<1>1. DeliveriesAreApplied => AppliedDeliveries
  BY DEF AppliedDeliveries
<1> QED BY <1>1, PartsStandAlone, DeliveriesAppliedAlways, PTL

\* For any actions and executors: a comment is posted again only for a lease that ran out
\* or an execution that was blocked meanwhile.
THEOREM CommentsAccounted == RequestsSpec => []AccountedComments
<1>1. CommentsAreAccounted => AccountedComments
  BY DEF AccountedComments
<1> QED BY <1>1, PartsStandAlone, CommentsAccountedAlways, PTL

\* For any workers and providers: short of a mishap the file has the newest credential of
\* each provider, and one process at a time replaces it.
THEOREM CredentialsKept == RequestsSpec => []KeptCredentials
<1>1. CredentialsAreKept => KeptCredentials
  BY DEF KeptCredentials
<1> QED BY <1>1, PartsStandAlone, CredentialsKeptAlways, PTL

\* For any number of turns, revisions, triages and stops: every conversation reads back, a
\* snapshot is shown to the triage model once and leads to one run or one correction, and a
\* row runs exactly while its call is awaited or its process has stopped.
THEOREM IntakeSound == RequestsSpec => []SoundIntake
<1>1. IntakeIsSound => SoundIntake
  BY DEF SoundIntake
<1> QED BY <1>1, PartsStandAlone, IntakeSoundAlways, PTL

\* For any repositories, requests and checks, whatever GitHub renames and its policy files
\* become: an enrolled name keeps its identity, what an enabled version says was read after
\* the version before, and a batch is recorded whole, each row about a version that reads back.
THEOREM EnrollmentSound == RequestsSpec => []SoundEnrollment
<1>1. EnrollmentIsSound => SoundEnrollment
  BY DEF SoundEnrollment
<1> QED BY <1>1, PartsStandAlone, EnrollmentSoundAlways, PTL

\* For any plan whose graph was accepted, any evidence and whatever Git, the kept files and
\* the worker do: what counts as assembled or resolved has the patch of every task the target
\* waits for, once and after those it depends on, and a resolution leaves nothing but itself.
THEOREM AssemblyTrusted == RequestsSpec => []TrustedAssembly
<1>1. AssemblyIsTrusted => TrustedAssembly
  BY DEF TrustedAssembly
<1> QED BY <1>1, PartsStandAlone, AssemblyTrustedAlways, PTL

\* For any processes, events, refused batches and lost answers: what a process observed is
\* stored in its order without a gap, and the page shows every row up to the last it has seen.
THEOREM ActivityCompleted == RequestsSpec => []CompleteActivity
<1>1. ActivityIsComplete => CompleteActivity
  BY DEF CompleteActivity
<1> QED BY <1>1, PartsStandAlone, ActivityCompleteAlways, PTL

\* In no component does a later step undo a verdict, a finalized conversation, a payload or
\* a success, and a call is spent on the recorded conflict and after what prepares it.
THEOREM RecordsFinal == RequestsSpec => RecordsAreFinal
<1> QED BY PartsStandAlone, RecoveryStands, EvidenceStands, SuccessesStand, PayloadsStay, CallSeesIt,
           CallsArePrepared DEF RecordsAreFinal
=============================================================================
