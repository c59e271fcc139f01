----------------------------- MODULE RealmLogProofs -----------------------------
(***************************************************************************)
(* Three structures by which realms hear of each other's changes:          *)
(*                                                                         *)
(*  - the observers of a row (ObservationInfos): the list that an          *)
(*    observation info is threaded into holds every info of its row,       *)
(*    whatever the order in which they are made, destroyed and moved;      *)
(*  - the log of a transaction (TransactLog): what another group makes of  *)
(*    it is what the transaction made, although the encoder writes a       *)
(*    selection only where its cache says another one is in force;         *)
(*    and the log read by TransactReverser and applied in reverse gives    *)
(*    back what the transaction began with, as far as RollbackRestores     *)
(*    says.  The invariant is of any group that differs from what the      *)
(*    transaction has in nothing but what is new: whatever is undone later *)
(*    need not be exactly undone for what comes before it to come back;    *)
(*  - the numbers of a log (TransactLogInts): whoever reads one with a     *)
(*    type that holds it takes what was written, and ends where it ends.   *)
(***************************************************************************)
EXTENDS ObservationInfos, TransactLog, TransactLogInts, InductionLemmas, SequenceTheorems

-----------------------------------------------------------------------------
(* The observers of a row.  What a list reaches from an info is put together *)
(* step by step; as every step but the last adds an info, there are as many  *)
(* steps as it needs.                                                        *)
LinkMaps == [Infos -> Infos \union {Nil}]

Closed(S, link) == \A j \in S : link[j] # Nil => link[j] \in S

Onward(S, link) == S \union ({link[j] : j \in S} \ {Nil})

IsReach(f, link, i) ==
  /\ f[0] = {i}
  /\ \A n \in 1 .. Cardinality(Infos) : f[n] = Onward(f[n - 1], link)

HowReached(link, i) ==
  \E f \in [0 .. Cardinality(Infos) -> SUBSET Infos] :
    IsReach(f, link, i) /\ Reached(link, i) = f[Cardinality(Infos)]

LEMMA ReachedBySteps ==
  ASSUME NEW link \in LinkMaps, NEW i \in Infos
  PROVE  HowReached(link, i)
<1> DEFINE N == Cardinality(Infos)
           upTo == CHOOSE f : f = [n \in 0 .. N |->
                     IF n = 0 THEN {i}
                     ELSE f[n - 1] \union ({link[j] : j \in f[n - 1]} \ {Nil})]
<1>1. Reached(link, i) = upTo[N]
  BY DEF Reached
<1>2. PICK k \in Nat : k = N
  BY ObservationInfosAssumption, FS_CardinalityType
<1>3. PICK step : step = [n \in 1 .. k |-> [s \in SUBSET Infos |-> Onward(s, link)]]
  OBVIOUS
<1>4. StaysIn(SUBSET Infos, k, step)
  BY <1>3 DEF StaysIn, Onward, LinkMaps
<1>5. HasIteration(SUBSET Infos, k, {i}, step)
  BY <1>4, Iterated
<1>6. PICK f \in [0 .. k -> SUBSET Infos] :
        f[0] = {i} /\ \A n \in 1 .. k : f[n] = step[n][f[n - 1]]
  BY <1>5 DEF HasIteration
<1>7. \A n \in 1 .. k : f[n] = Onward(f[n - 1], link)
  <2>1. \A n \in 1 .. k : n - 1 \in 0 .. k
    OBVIOUS
  <2> QED
    BY <1>3, <1>6, <2>1
<1>8. f = [n \in 0 .. N |->
             IF n = 0 THEN {i} ELSE f[n - 1] \union ({link[j] : j \in f[n - 1]} \ {Nil})]
  <2>1. \A n \in 0 .. k : n # 0 => n \in 1 .. k
    OBVIOUS
  <2> QED
    BY <1>2, <1>6, <1>7, <2>1 DEF Onward
<1>9. upTo = [n \in 0 .. N |->
                IF n = 0 THEN {i}
                ELSE upTo[n - 1] \union ({link[j] : j \in upTo[n - 1]} \ {Nil})]
  BY <1>8
<1>10. PICK h : h = upTo
  OBVIOUS
<1>11. h = [n \in 0 .. k |->
              IF n = 0 THEN {i} ELSE h[n - 1] \union ({link[j] : j \in h[n - 1]} \ {Nil})]
  BY <1>2, <1>9, <1>10
<1> HIDE DEF upTo, N
<1>12. h[0] = {i} /\ \A n \in 1 .. k : h[n] = Onward(h[n - 1], link)
  <2>1. 0 \in 0 .. k /\ \A n \in 1 .. k : n \in 0 .. k /\ n # 0
    OBVIOUS
  <2> QED
    BY <1>11, <2>1 DEF Onward
<1>13. \A n \in 0 .. k : h[n] = f[n]
  <2>1. PICK K : K = {n \in Nat : n <= k => h[n] = f[n]}
    OBVIOUS
  <2>2. 0 \in K
    BY <1>6, <1>12, <2>1
  <2>3. ASSUME NEW n \in Nat, n \in K PROVE n + 1 \in K
    <3> SUFFICES ASSUME n + 1 <= k PROVE h[n + 1] = f[n + 1]
      BY <2>1
    <3>1. n + 1 \in 1 .. k /\ (n + 1) - 1 = n
      OBVIOUS
    <3>2. h[n] = f[n]
      BY <2>1, <2>3
    <3>3. h[n + 1] = Onward(h[n], link) /\ f[n + 1] = Onward(f[n], link)
      BY <1>7, <1>12, <3>1
    <3> QED
      BY <3>2, <3>3
  <2>4. \A n \in Nat : n \in K
    BY <2>2, <2>3, SetInduction
  <2> QED
    BY <2>1, <2>4
<1>14. Reached(link, i) = f[k]
  BY <1>1, <1>2, <1>10, <1>13
<1>15. IsReach(f, link, i)
  BY <1>2, <1>6, <1>7 DEF IsReach, N
<1> QED
  BY <1>2, <1>14, <1>15 DEF HowReached, N

LEMMA ReachedIsLeast ==
  ASSUME NEW link \in LinkMaps, NEW i \in Infos, NEW S, i \in S, Closed(S, link)
  PROVE  Reached(link, i) \subseteq S
<1>1. PICK f \in [0 .. Cardinality(Infos) -> SUBSET Infos] :
        IsReach(f, link, i) /\ Reached(link, i) = f[Cardinality(Infos)]
  BY ReachedBySteps DEF HowReached
<1>2. PICK k \in Nat : k = Cardinality(Infos)
  BY ObservationInfosAssumption, FS_CardinalityType
<1>3. PICK K : K = {n \in Nat : n <= k => f[n] \subseteq S}
  OBVIOUS
<1>4. 0 \in K
  BY <1>1, <1>3 DEF IsReach
<1>5. ASSUME NEW n \in Nat, n \in K PROVE n + 1 \in K
  <2> SUFFICES ASSUME n + 1 <= k PROVE f[n + 1] \subseteq S
    BY <1>3
  <2>1. n + 1 \in 1 .. k /\ (n + 1) - 1 = n
    OBVIOUS
  <2>2. f[n + 1] = Onward(f[n], link)
    BY <1>1, <1>2, <2>1 DEF IsReach
  <2>3. f[n] \subseteq S
    BY <1>3, <1>5
  <2> QED
    BY <2>2, <2>3 DEF Onward, Closed
<1>6. k \in K
  BY <1>4, <1>5, SetInduction
<1> QED
  BY <1>1, <1>2, <1>3, <1>6

LEMMA ReachedIsClosed ==
  ASSUME NEW link \in LinkMaps, NEW i \in Infos
  PROVE  /\ i \in Reached(link, i) /\ Reached(link, i) \subseteq Infos
         /\ Closed(Reached(link, i), link)
<1>1. PICK f \in [0 .. Cardinality(Infos) -> SUBSET Infos] :
        IsReach(f, link, i) /\ Reached(link, i) = f[Cardinality(Infos)]
  BY ReachedBySteps DEF HowReached
<1>2. PICK k \in Nat : k = Cardinality(Infos)
  BY ObservationInfosAssumption, FS_CardinalityType
<1>3. PICK K : K = {n \in Nat : n <= k =>
                      i \in f[n] /\ (Closed(f[n], link) \/ Cardinality(f[n]) > n)}
  OBVIOUS
<1>4. 0 \in K
  <2>1. f[0] = {i}
    BY <1>1 DEF IsReach
  <2>2. Cardinality({i}) = 1
    BY FS_Singleton
  <2>3. Cardinality(f[0]) = 1
    BY <2>1, <2>2, Zenon
  <2>4. i \in f[0]
    BY <2>1
  <2> QED
    BY <1>3, <2>3, <2>4
<1>5. ASSUME NEW n \in Nat, n \in K PROVE n + 1 \in K
  <2> SUFFICES ASSUME n + 1 <= k
               PROVE  i \in f[n + 1] /\ (Closed(f[n + 1], link) \/ Cardinality(f[n + 1]) > n + 1)
    BY <1>3
  <2>1. n + 1 \in 1 .. k /\ (n + 1) - 1 = n /\ n \in 0 .. k /\ n + 1 \in 0 .. k
    OBVIOUS
  <2>2. PICK a \in SUBSET Infos : a = f[n]
    BY <1>2, <2>1
  <2>3. PICK b \in SUBSET Infos : b = f[n + 1]
    BY <1>2, <2>1
  <2>4. b = Onward(a, link)
    BY <1>1, <1>2, <2>1, <2>2, <2>3 DEF IsReach
  <2>5. i \in a /\ (Closed(a, link) \/ Cardinality(a) > n)
    BY <1>3, <1>5, <2>2
  <2>6. CASE Closed(a, link)
    <3>1. b = a
      BY <2>4, <2>6 DEF Onward, Closed
    <3> QED
      BY <2>2, <2>3, <2>5, <2>6, <3>1
  <2>7. CASE ~Closed(a, link)
    <3>1. a \subseteq b /\ a # b
      BY <2>4, <2>7 DEF Onward, Closed
    <3>2. IsFiniteSet(b)
      BY ObservationInfosAssumption, FS_Subset
    <3>3. Cardinality(a) < Cardinality(b) /\ Cardinality(a) \in Nat /\ Cardinality(b) \in Nat
      BY <3>1, <3>2, FS_Subset, FS_CardinalityType
    <3> QED
      BY <2>3, <2>5, <2>7, <3>1, <3>3
  <2> QED
    BY <2>6, <2>7
<1>6. k \in K
  BY <1>4, <1>5, SetInduction
<1>7. f[k] \subseteq Infos
  BY <1>2
<1>8. Cardinality(f[k]) <= k
  BY <1>2, <1>7, ObservationInfosAssumption, FS_Subset
<1>9. Cardinality(f[k]) \in Nat
  BY <1>7, ObservationInfosAssumption, FS_Subset, FS_CardinalityType
<1> QED
  BY <1>1, <1>2, <1>3, <1>6, <1>7, <1>8, <1>9

(* Who is reached and is not the first was reached from another. *)
LEMMA ReachedFromReached ==
  ASSUME NEW link \in LinkMaps, NEW i \in Infos
  PROVE  \A j \in Reached(link, i) : j = i \/ \E k \in Reached(link, i) : link[k] = j
<1>1. PICK S : S = {j \in Reached(link, i) : j = i \/ \E k \in Reached(link, i) : link[k] = j}
  OBVIOUS
<1>2. i \in S /\ Closed(S, link)
  BY <1>1, ReachedIsClosed DEF Closed
<1>3. Reached(link, i) \subseteq S
  BY <1>2, ReachedIsLeast
<1> QED
  BY <1>1, <1>3

-----------------------------------------------------------------------------
(* The invariant. *)
InfosTypeOK ==
  /\ tableRows \subseteq Rows
  /\ live \subseteq Infos /\ infoInvalidated \subseteq Infos
  /\ next \in LinkMaps /\ prev \in LinkMaps
  /\ row \in [Infos -> Rows \union {Gone}]
  /\ observedObjects \in Seq(Infos)
  /\ cleared \in BOOLEAN

OnceEach(s) == \A a, b \in DOMAIN s : s[a] = s[b] => a = b

(* The two links of a list are each other's reverse, and a list is of one row. *)
Linked ==
  \A i \in live :
    /\ prev[i] # Nil => prev[i] \in live /\ next[prev[i]] = i /\ row[prev[i]] = row[i]
    /\ next[i] # Nil => next[i] \in live /\ prev[next[i]] = i

(* Following prev comes to an end. *)
NoCircle == \A S \in SUBSET live : S # {} => \E i \in S : prev[i] \notin S

(* The schema has the first of each list, once, and one for a row; a first  *)
(* that it does not have is alone, and its row is gone.                     *)
HeadsLead ==
  /\ \A h \in Heads : h \in live /\ prev[h] = Nil
  /\ \A g, h \in Heads : row[g] = row[h] /\ row[g] # Gone => g = h
  /\ \A i \in live : prev[i] = Nil /\ i \notin Heads => next[i] = Nil /\ row[i] = Gone

RowsExist == \A i \in live : row[i] # Gone => row[i] \in tableRows

ListsKept ==
  /\ OnceEach(observedObjects)
  /\ Linked /\ NoCircle /\ HeadsLead /\ RowsExist
  /\ GoneMeansInvalidated

ObserversInd == InfosTypeOK /\ (~cleared => ListsKept)

-----------------------------------------------------------------------------
(* What the invariant says of lists: who is reached from an info, either     *)
(* way, observes its row, and the list is all there is.                      *)
LEMMA ReachedObserve ==
  ASSUME InfosTypeOK, Linked, NEW i \in live
  PROVE  /\ Reached(prev, i) \subseteq Observing(i) /\ Reached(next, i) \subseteq Observing(i)
         /\ Observing(i) \subseteq live
<1>1. i \in Infos /\ prev \in LinkMaps /\ next \in LinkMaps
  BY DEF InfosTypeOK
<1>2. i \in Observing(i) /\ Observing(i) \subseteq live
  BY DEF Observing
<1>3. Closed(Observing(i), prev) /\ Closed(Observing(i), next)
  <2>1. \A j \in live : j # Nil
    BY ObservationInfosAssumption DEF InfosTypeOK
  <2> QED
    BY <2>1 DEF Closed, Observing, Linked
<1>4. PICK S : S = Observing(i)
  OBVIOUS
<1>5. Reached(prev, i) \subseteq S /\ Reached(next, i) \subseteq S
  BY <1>1, <1>2, <1>3, <1>4, ReachedIsLeast
<1> QED
  BY <1>2, <1>4, <1>5

LEMMA ListClosed ==
  ASSUME InfosTypeOK, Linked, NEW i \in live
  PROVE  Closed(ForEach(i), prev) /\ Closed(ForEach(i), next)
<1>1. i \in Infos /\ prev \in LinkMaps /\ next \in LinkMaps
  BY DEF InfosTypeOK
<1>2. PICK P : P = Reached(prev, i)
  OBVIOUS
<1>3. PICK N : N = Reached(next, i)
  OBVIOUS
<1>4. i \in P /\ P \subseteq live /\ Closed(P, prev)
  BY <1>1, <1>2, ReachedIsClosed, ReachedObserve
<1>5. i \in N /\ N \subseteq live /\ Closed(N, next)
  BY <1>1, <1>3, ReachedIsClosed, ReachedObserve
<1>6. \A j \in P : j = i \/ \E k \in P : prev[k] = j
  BY <1>1, <1>2, ReachedFromReached
<1>7. \A j \in N : j = i \/ \E k \in N : next[k] = j
  BY <1>1, <1>3, ReachedFromReached
<1>8. \A j \in live : j # Nil
  BY ObservationInfosAssumption DEF InfosTypeOK
<1>9. Closed(P \union N, prev)
  <2> SUFFICES ASSUME NEW j \in N, j \notin P, prev[j] # Nil PROVE prev[j] \in N
    BY <1>4 DEF Closed
  <2>1. PICK k \in N : next[k] = j
    BY <1>4, <1>7
  <2>2. prev[j] = k
    BY <1>5, <1>8, <2>1 DEF Linked
  <2> QED
    BY <2>2
<1>10. Closed(P \union N, next)
  <2> SUFFICES ASSUME NEW j \in P, j \notin N, next[j] # Nil PROVE next[j] \in P
    BY <1>5 DEF Closed
  <2>1. PICK k \in P : prev[k] = j
    BY <1>5, <1>6
  <2>2. next[j] = k
    BY <1>4, <1>8, <2>1 DEF Linked
  <2> QED
    BY <2>2
<1> QED
  BY <1>2, <1>3, <1>9, <1>10 DEF ForEach

(* Every list has a first. *)
LEMMA ListHasFirst ==
  ASSUME InfosTypeOK, Linked, NoCircle, NEW i \in live
  PROVE  \E h \in Reached(prev, i) : prev[h] = Nil
<1>1. PICK P : P = Reached(prev, i)
  OBVIOUS
<1>2. i \in P /\ P \subseteq live /\ Closed(P, prev)
  BY <1>1, ReachedIsClosed, ReachedObserve DEF InfosTypeOK
<1>3. \E h \in P : prev[h] \notin P
  BY <1>2 DEF NoCircle
<1> QED
  BY <1>1, <1>2, <1>3 DEF Closed

(* A row that is observed has one first, which the schema has, and its list  *)
(* is of all who observe the row.                                            *)
LEMMA ListOfRow ==
  ASSUME InfosTypeOK, ListsKept, NEW i \in live, row[i] # Gone
  PROVE  /\ ForEach(i) = Observing(i)
         /\ \E h \in Observing(i) : Heads \intersect Observing(i) = {h} /\ prev[h] = Nil
<1>1. Linked /\ NoCircle /\ HeadsLead
  BY DEF ListsKept
<1>2. PICK h \in Reached(prev, i) : prev[h] = Nil
  BY <1>1, ListHasFirst
<1>3. h \in Observing(i) /\ h \in live /\ row[h] = row[i]
  BY <1>1, <1>2, ReachedObserve DEF Observing
<1>4. h \in Heads
  BY <1>1, <1>2, <1>3 DEF HeadsLead
<1>5. \A j \in Observing(i) : prev[j] = Nil => j = h
  BY <1>1, <1>3, <1>4 DEF HeadsLead, Observing
<1>6. Heads \intersect Observing(i) = {h}
  BY <1>1, <1>3, <1>4, <1>5 DEF HeadsLead
<1>7. PICK C : C = ForEach(i)
  OBVIOUS
<1>8. C \subseteq Observing(i) /\ h \in C
  BY <1>1, <1>2, <1>7, ReachedObserve DEF ForEach
<1>9. Closed(C, next)
  BY <1>1, <1>7, ListClosed
<1>10. Observing(i) \subseteq C
  <2> SUFFICES ASSUME Observing(i) \ C # {} PROVE FALSE
    OBVIOUS
  <2>1. Observing(i) \ C \subseteq live
    BY DEF Observing
  <2>2. PICK j \in Observing(i) \ C : prev[j] \notin Observing(i) \ C
    BY <1>1, <2>1 DEF NoCircle
  <2>3. prev[j] # Nil
    BY <1>5, <1>8, <2>2
  <2>4. prev[j] \in Observing(i) /\ next[prev[j]] = j
    BY <1>1, <2>2, <2>3 DEF Linked, Observing
  <2>5. prev[j] \in C
    BY <2>2, <2>4
  <2>6. j # Nil
    BY <2>1, <2>2, ObservationInfosAssumption DEF InfosTypeOK
  <2> QED
    BY <1>9, <2>2, <2>4, <2>5, <2>6 DEF Closed
<1> QED
  BY <1>2, <1>3, <1>6, <1>7, <1>8, <1>10

(* From the first of a row, next leads to all of them. *)
LEMMA FirstLeadsToAll ==
  ASSUME InfosTypeOK, ListsKept, NEW h \in Heads, row[h] # Gone
  PROVE  Observing(h) \subseteq Reached(next, h)
<1>1. h \in live /\ prev[h] = Nil
  BY DEF ListsKept, HeadsLead
<1>2. Reached(prev, h) \subseteq {h}
  <2>1. Closed({h}, prev) /\ h \in {h}
    BY <1>1 DEF Closed
  <2> QED
    BY <1>1, <2>1, ReachedIsLeast DEF InfosTypeOK
<1>3. h \in Reached(next, h)
  BY <1>1, ReachedIsClosed DEF InfosTypeOK
<1>4. ForEach(h) = Observing(h)
  BY <1>1, ListOfRow
<1> QED
  BY <1>2, <1>3, <1>4 DEF ForEach

LEMMA KeptFromInd ==
  ASSUME ObserversInd
  PROVE  ObserversKept
<1> SUFFICES ASSUME ~cleared PROVE ObserversKept
  BY DEF ObserversKept, EveryObserverReached, GoneMeansInvalidated
<1>1. InfosTypeOK /\ ListsKept
  BY DEF ObserversInd
<1>2. EveryObserverReached
  BY <1>1, ListOfRow DEF EveryObserverReached
<1> QED
  BY <1>1, <1>2 DEF ListsKept, ObserversKept

-----------------------------------------------------------------------------
(* observedObjects. *)
LEMMA PlaceInSequence ==
  ASSUME NEW s \in Seq(Infos), NEW I, I \subseteq 1 .. Len(s)
  PROVE  LET at == IF I # {} THEN Min(I) ELSE 0 IN
         /\ at = 0 <=> I = {}
         /\ I # {} => at \in I
<1>1. I \subseteq Nat /\ 0 \notin I
  OBVIOUS
<1>2. I # {} => Min(I) \in I
  BY <1>1, Smallest
<1> QED
  BY <1>1, <1>2

(* The schema's info for a row, if it has one. *)
LEMMA HeadOfRow ==
  ASSUME InfosTypeOK, NEW r
  PROVE  /\ HeadOf(r) = 0 <=> \A h \in Heads : row[h] # r
         /\ HeadOf(r) # 0 => /\ HeadOf(r) \in DOMAIN observedObjects
                             /\ observedObjects[HeadOf(r)] \in Heads
                             /\ row[observedObjects[HeadOf(r)]] = r
<1>1. PICK I : I = {a \in 1 .. Len(observedObjects) : row[observedObjects[a]] = r}
  OBVIOUS
<1>2. HeadOf(r) = IF I # {} THEN Min(I) ELSE 0
  BY <1>1 DEF HeadOf, SelectInSeq
<1>3. observedObjects \in Seq(Infos)
  BY DEF InfosTypeOK
<1>4. /\ HeadOf(r) = 0 <=> I = {}
      /\ I # {} => HeadOf(r) \in I
  BY <1>1, <1>2, <1>3, PlaceInSequence
<1>5. DOMAIN observedObjects = 1 .. Len(observedObjects)
  BY <1>3
<1> QED
  BY <1>1, <1>4, <1>5 DEF Heads, Range

PlaceOfInfo(i) == SelectInSeq(observedObjects, LAMBDA j : j = i)

LEMMA PlaceOfHead ==
  ASSUME InfosTypeOK, NEW i
  PROVE  /\ PlaceOfInfo(i) = 0 <=> i \notin Heads
         /\ PlaceOfInfo(i) # 0 => /\ PlaceOfInfo(i) \in DOMAIN observedObjects
                                  /\ observedObjects[PlaceOfInfo(i)] = i
<1>1. PICK I : I = {a \in 1 .. Len(observedObjects) : observedObjects[a] = i}
  OBVIOUS
<1>2. PlaceOfInfo(i) = IF I # {} THEN Min(I) ELSE 0
  BY <1>1 DEF PlaceOfInfo, SelectInSeq
<1>3. observedObjects \in Seq(Infos)
  BY DEF InfosTypeOK
<1>4. /\ PlaceOfInfo(i) = 0 <=> I = {}
      /\ I # {} => PlaceOfInfo(i) \in I
  BY <1>1, <1>2, <1>3, PlaceInSequence
<1>5. DOMAIN observedObjects = 1 .. Len(observedObjects)
  BY <1>3
<1> QED
  BY <1>1, <1>4, <1>5 DEF Heads, Range

HoldsOnce(s, S) == s \in Seq(Infos) /\ OnceEach(s) /\ Range(s) = S

LEMMA OneAppended ==
  ASSUME NEW s \in Seq(Infos), OnceEach(s), NEW i \in Infos, i \notin Range(s)
  PROVE  HoldsOnce(Append(s, i), Range(s) \union {i})
<1>1. PICK n \in Nat : n = Len(s)
  OBVIOUS
<1>2. PICK u \in Seq(Infos) : u = Append(s, i)
  BY AppendProperties
<1>3. DOMAIN s = 1 .. n /\ DOMAIN u = 1 .. (n + 1)
  BY <1>1, <1>2
<1>4. u[n + 1] = i /\ \A a \in 1 .. n : u[a] = s[a]
  BY <1>1, <1>2
<1>5. \A a \in 1 .. (n + 1) : a = n + 1 \/ a \in 1 .. n
  OBVIOUS
<1>6. \A a \in 1 .. n : s[a] # i
  BY <1>3 DEF Range
<1>7. OnceEach(u)
  BY <1>3, <1>4, <1>5, <1>6 DEF OnceEach
<1>8. Range(u) = Range(s) \union {i}
  <2>1. \A a \in 1 .. n : a \in 1 .. (n + 1)
    OBVIOUS
  <2>2. n + 1 \in 1 .. (n + 1)
    OBVIOUS
  <2> QED
    BY <1>3, <1>4, <1>5, <2>1, <2>2 DEF Range
<1> QED
  BY <1>2, <1>7, <1>8 DEF HoldsOnce

LEMMA OneReplaced ==
  ASSUME NEW s \in Seq(Infos), OnceEach(s), NEW at \in DOMAIN s, NEW i \in Infos, i \notin Range(s)
  PROVE  HoldsOnce([s EXCEPT ![at] = i], (Range(s) \ {s[at]}) \union {i})
<1>1. PICK u \in Seq(Infos) : u = [s EXCEPT ![at] = i]
  <2>1. at \in 1 .. Len(s)
    OBVIOUS
  <2> QED
    BY <2>1, ExceptSeq
<1>2. DOMAIN u = DOMAIN s /\ u[at] = i /\ \A a \in DOMAIN s : a # at => u[a] = s[a]
  BY <1>1
<1>3. OnceEach(u)
  BY <1>2 DEF OnceEach, Range
<1>4. Range(u) = (Range(s) \ {s[at]}) \union {i}
  BY <1>2 DEF OnceEach, Range
<1> QED
  BY <1>1, <1>3, <1>4 DEF HoldsOnce

(* The last takes the place of the one that goes. *)
LEMMA OneTaken ==
  ASSUME NEW s \in Seq(Infos), OnceEach(s), NEW at \in DOMAIN s
  PROVE  HoldsOnce(Front([s EXCEPT ![at] = Last(s)]), Range(s) \ {s[at]})
<1>1. PICK n \in Nat : n = Len(s)
  OBVIOUS
<1>2. DOMAIN s = 1 .. n /\ n \in 1 .. n /\ at \in 1 .. n
  BY <1>1
<1>3. PICK u \in Seq(Infos) : u = [s EXCEPT ![at] = s[n]]
  <2>1. s[n] \in Infos
    BY <1>2
  <2> QED
    BY <1>1, <1>2, <2>1, ExceptSeq
<1>4. Len(u) = n /\ \A a \in 1 .. n : u[a] = IF a = at THEN s[n] ELSE s[a]
  BY <1>1, <1>2, <1>3
<1>5. PICK v \in Seq(Infos) : v = SubSeq(u, 1, n - 1)
  <2>1. \A a \in 1 .. (n - 1) : u[a] \in Infos
    BY <1>3, <1>4
  <2>2. n - 1 \in Int /\ 1 \in Int
    OBVIOUS
  <2>3. SubSeq(u, 1, n - 1) \in Seq(Infos)
    BY <2>1, <2>2, SubSeqProperties
  <2> QED
    BY <2>3
<1>6. DOMAIN v = 1 .. (n - 1) /\ \A a \in 1 .. (n - 1) : v[a] = IF a = at THEN s[n] ELSE s[a]
  <2>1. \A a \in 1 .. (n - 1) : a \in 1 .. n
    OBVIOUS
  <2>2. Len(v) = n - 1 /\ \A a \in 1 .. (n - 1) : v[a] = u[a]
    BY <1>2, <1>4, <1>5
  <2> QED
    BY <1>4, <2>1, <2>2
<1>7. Front([s EXCEPT ![at] = Last(s)]) = v
  BY <1>1, <1>3, <1>4, <1>5 DEF Front, Last
<1>8. \A a, b \in 1 .. n : s[a] = s[b] => a = b
  BY <1>2 DEF OnceEach
<1>9. \A a \in 1 .. n : a = n \/ a \in 1 .. (n - 1)
  OBVIOUS
<1>10. \A a \in 1 .. (n - 1) : a \in 1 .. n /\ a # n
  OBVIOUS
<1>11. OnceEach(v)
  BY <1>2, <1>6, <1>8, <1>10 DEF OnceEach
<1>12. Range(v) = Range(s) \ {s[at]}
  <2>1. ASSUME NEW a \in 1 .. (n - 1) PROVE v[a] \in Range(s) \ {s[at]}
    BY <1>2, <1>6, <1>8, <1>10 DEF Range
  <2>2. ASSUME NEW a \in 1 .. n, s[a] # s[at] PROVE \E b \in 1 .. (n - 1) : v[b] = s[a]
    <3>1. CASE a = n
      BY <1>2, <1>6, <1>9, <2>2, <3>1
    <3>2. CASE a # n
      BY <1>6, <1>9, <2>2, <3>2
    <3> QED
      BY <3>1, <3>2
  <2>3. \A e : e \in Range(v) <=> \E a \in 1 .. (n - 1) : e = v[a]
    BY <1>6 DEF Range
  <2>4. \A e : e \in Range(s) <=> \E a \in 1 .. n : e = s[a]
    BY <1>2 DEF Range
  <2>5. Range(v) \subseteq Range(s) \ {s[at]}
    BY <2>1, <2>3
  <2>6. Range(s) \ {s[at]} \subseteq Range(v)
    BY <2>2, <2>3, <2>4
  <2> QED
    BY <2>5, <2>6
<1> QED
  BY <1>5, <1>7, <1>11, <1>12 DEF HoldsOnce

-----------------------------------------------------------------------------
(* The steps, one by one. *)
LEMMA InfosInitInd == InfosInit => ObserversInd
<1> SUFFICES ASSUME InfosInit PROVE InfosTypeOK /\ ListsKept
  BY DEF ObserversInd
<1> USE DEF InfosInit
<1>1. InfosTypeOK
  <2>1. observedObjects \in Seq(Infos)
    BY EmptySeq
  <2>2. next \in LinkMaps /\ prev \in LinkMaps /\ row \in [Infos -> Rows \union {Gone}]
    BY DEF LinkMaps
  <2> QED
    BY <2>1, <2>2 DEF InfosTypeOK
<1>2. OnceEach(observedObjects) /\ Heads = {}
  BY DEF OnceEach, Heads, Range
<1> QED
  BY <1>1, <1>2 DEF ListsKept, Linked, NoCircle, HeadsLead, RowsExist, GoneMeansInvalidated

LEMMA AddRowStep ==
  ASSUME ObserversInd, NEW r \in Rows, AddRow(r)
  PROVE  ObserversInd'
<1> USE DEF AddRow
<1>1. InfosTypeOK'
  BY DEF ObserversInd, InfosTypeOK
<1> SUFFICES ASSUME ~cleared PROVE ListsKept'
  BY <1>1 DEF ObserversInd
<1>2. ListsKept
  BY DEF ObserversInd
<1>3. RowsExist'
  BY <1>2 DEF ListsKept, RowsExist
<1> QED
  BY <1>2, <1>3 DEF ListsKept, Linked, NoCircle, HeadsLead, Heads, GoneMeansInvalidated

(* Who observes the row is told by its head, and nobody does without one.    *)
LEMMA DeleteRowStep ==
  ASSUME ObserversInd, NEW r \in Rows, DeleteRow(r)
  PROVE  ObserversInd'
<1> USE DEF DeleteRow
<1>1. InfosTypeOK /\ r # Gone
  BY ObservationInfosAssumption DEF ObserversInd
<1>2. HeadOf(r) # 0 => Reached(next, observedObjects[HeadOf(r)]) \subseteq Infos
  <2>1. observedObjects \in Seq(Infos) /\ next \in LinkMaps
    BY <1>1 DEF InfosTypeOK
  <2>2. HeadOf(r) # 0 => observedObjects[HeadOf(r)] \in Infos
    BY <1>1, <2>1, HeadOfRow
  <2> QED
    BY <2>1, <2>2, ReachedIsClosed
<1>3. InfosTypeOK'
  BY <1>1, <1>2 DEF InfosTypeOK
<1> SUFFICES ASSUME ~cleared PROVE ListsKept'
  BY <1>3 DEF ObserversInd
<1>4. ListsKept
  BY DEF ObserversInd
<1>5. \A i \in live : row'[i] = IF row[i] = r THEN Gone ELSE row[i]
  BY <1>1 DEF InfosTypeOK
<1>6. Linked'
  BY <1>4, <1>5 DEF ListsKept, Linked
<1>7. HeadsLead'
  <2>1. Heads' = Heads
    BY DEF Heads
  <2> QED
    BY <1>4, <1>5, <2>1 DEF ListsKept, HeadsLead
<1>8. RowsExist'
  BY <1>4, <1>5 DEF ListsKept, RowsExist
<1>9. GoneMeansInvalidated'
  <2> SUFFICES ASSUME NEW i \in live, row'[i] = Gone PROVE i \in infoInvalidated'
    BY DEF GoneMeansInvalidated
  <2>1. CASE row[i] = Gone
    BY <1>4, <2>1 DEF ListsKept, GoneMeansInvalidated
  <2>2. CASE row[i] # Gone
    <3>1. row[i] = r
      BY <1>5, <2>2
    <3>2. PICK h \in Observing(i) : h \in Heads
      BY <1>1, <1>4, <2>2, ListOfRow
    <3>3. row[h] = r
      BY <3>1, <3>2 DEF Observing
    <3>4. PICK g \in Heads : g = observedObjects[HeadOf(r)] /\ row[g] = r /\ HeadOf(r) # 0
      BY <1>1, <3>2, <3>3, HeadOfRow
    <3>5. Observing(g) \subseteq Reached(next, g)
      BY <1>1, <1>4, <3>4, FirstLeadsToAll
    <3>6. i \in Reached(next, g)
      BY <3>1, <3>4, <3>5 DEF Observing
    <3> QED
      BY <3>4, <3>6
  <2> QED
    BY <2>1, <2>2
<1> QED
  BY <1>4, <1>6, <1>7, <1>8, <1>9 DEF ListsKept, NoCircle

(* If no list is longer than its head, every info is left alone. *)
LEMMA ClearStep ==
  ASSUME ObserversInd, RLMClearTable
  PROVE  ObserversInd'
<1> USE DEF RLMClearTable
<1>1. InfosTypeOK
  BY DEF ObserversInd
<1>2. Heads \subseteq Infos
  BY <1>1 DEF InfosTypeOK, Heads, Range
<1>3. \A h \in Heads : Reached(next, h) \subseteq Infos /\ h \in Reached(next, h)
  BY <1>1, <1>2, ReachedIsClosed DEF InfosTypeOK
<1>4. cleared' \in BOOLEAN
  OBVIOUS
<1>5. infoInvalidated' \subseteq Infos
  BY <1>1, <1>3 DEF InfosTypeOK
<1>6. InfosTypeOK'
  BY <1>1, <1>4, <1>5 DEF InfosTypeOK
<1> SUFFICES ASSUME ~cleared' PROVE ListsKept'
  BY <1>6 DEF ObserversInd
<1>7. ListsKept /\ \A h \in Heads : next[h] = Nil
  BY DEF ObserversInd
<1>8. \A i \in live : next[i] = Nil /\ prev[i] = Nil
  <2>1. ASSUME NEW i \in live, prev[i] = Nil PROVE next[i] = Nil
    BY <1>7, <2>1 DEF ListsKept, HeadsLead
  <2>2. ASSUME NEW i \in live, prev[i] # Nil PROVE FALSE
    <3>1. PICK S : S = {j \in live : prev[j] # Nil}
      OBVIOUS
    <3>2. PICK j \in S : prev[j] \notin S
      BY <1>7, <2>2, <3>1 DEF ListsKept, NoCircle
    <3>3. prev[j] \in live /\ next[prev[j]] = j
      BY <1>7, <3>1, <3>2 DEF ListsKept, Linked
    <3>4. next[prev[j]] = Nil
      BY <2>1, <3>1, <3>2, <3>3
    <3> QED
      BY <1>1, <3>1, <3>2, <3>3, <3>4, ObservationInfosAssumption DEF InfosTypeOK
  <2> QED
    BY <2>1, <2>2
<1>9. Heads' = {} /\ OnceEach(observedObjects)'
  BY DEF Heads, Range, OnceEach
<1>10. \A i \in live : row'[i] = Gone
  BY <1>1 DEF InfosTypeOK
<1>11. \A i \in live : i \in infoInvalidated'
  <2> SUFFICES ASSUME NEW i \in live PROVE i \in infoInvalidated'
    OBVIOUS
  <2>1. CASE i \in Heads
    BY <1>3, <2>1
  <2>2. CASE i \notin Heads
    BY <1>7, <1>8, <2>2 DEF ListsKept, HeadsLead, GoneMeansInvalidated
  <2> QED
    BY <2>1, <2>2
<1>12. live' = live /\ \A i \in live : next'[i] = Nil /\ prev'[i] = Nil
  BY <1>8
<1>13. Nil \notin live
  BY <1>1, ObservationInfosAssumption DEF InfosTypeOK
<1>14. NoCircle'
  BY <1>12, <1>13 DEF NoCircle
<1>15. Linked' /\ HeadsLead' /\ RowsExist' /\ GoneMeansInvalidated'
  BY <1>9, <1>10, <1>11, <1>12 DEF Linked, HeadsLead, RowsExist, GoneMeansInvalidated
<1> QED
  BY <1>9, <1>14, <1>15 DEF ListsKept

(* The steps of a list: what changes of the links and the heads. *)
LEMMA NewHeadStep ==
  ASSUME InfosTypeOK, ListsKept, NEW i \in Infos, NEW r \in Rows,
         Observe(i, r), HeadOf(r) = 0
  PROVE  ListsKept'
<1> USE DEF Observe
<1>1. Nil \notin Infos /\ r # Gone
  BY ObservationInfosAssumption
<1>2. live \subseteq Infos /\ i \notin live /\ live' = live \union {i} /\ r \in tableRows
  BY DEF InfosTypeOK
<1>3. prev'[i] = Nil /\ next'[i] = Nil /\ row'[i] = r
  BY DEF InfosTypeOK, LinkMaps
<1>4. \A j \in live : prev'[j] = prev[j] /\ next'[j] = next[j] /\ row'[j] = row[j]
  BY <1>2 DEF InfosTypeOK, LinkMaps
<1>5. \A h \in Heads : row[h] # r /\ h \in live
  BY HeadOfRow DEF ListsKept, HeadsLead
<1>6. OnceEach(observedObjects)' /\ Heads' = Heads \union {i}
  <2>1. i \notin Range(observedObjects) /\ observedObjects \in Seq(Infos)
    BY <1>2, <1>5 DEF Heads, InfosTypeOK
  <2>2. HoldsOnce(Append(observedObjects, i), Range(observedObjects) \union {i})
    BY <2>1, OneAppended DEF ListsKept
  <2> QED
    BY <2>2 DEF HoldsOnce, Heads
<1>7. Linked'
  BY <1>1, <1>2, <1>3, <1>4 DEF ListsKept, Linked
<1>8. NoCircle'
  <2> SUFFICES ASSUME NEW S, S \subseteq live', S # {} PROVE \E j \in S : prev'[j] \notin S
    BY DEF NoCircle
  <2>1. Nil \notin S
    BY <1>1, <1>2
  <2>2. CASE i \in S
    BY <1>3, <2>1, <2>2
  <2>3. CASE i \notin S
    BY <1>2, <1>4, <2>3 DEF ListsKept, NoCircle
  <2> QED
    BY <2>2, <2>3
<1>9. HeadsLead'
  BY <1>2, <1>3, <1>4, <1>5, <1>6 DEF ListsKept, HeadsLead
<1>10. RowsExist'
  BY <1>2, <1>3, <1>4 DEF ListsKept, RowsExist
<1>11. GoneMeansInvalidated'
  BY <1>1, <1>2, <1>3, <1>4 DEF ListsKept, GoneMeansInvalidated
<1> QED
  BY <1>6, <1>7, <1>8, <1>9, <1>10, <1>11 DEF ListsKept

LEMMA BehindHeadStep ==
  ASSUME InfosTypeOK, ListsKept, NEW i \in Infos, NEW r \in Rows,
         Observe(i, r), HeadOf(r) # 0
  PROVE  ListsKept'
<1>1. Nil \notin Infos /\ r # Gone
  BY ObservationInfosAssumption
<1>2. live \subseteq Infos /\ i \notin live /\ live' = live \union {i} /\ r \in tableRows
  BY DEF InfosTypeOK, Observe
<1>3. PICK h \in Heads : h = observedObjects[HeadOf(r)] /\ row[h] = r
  BY HeadOfRow
<1>4. h \in live /\ prev[h] = Nil /\ h # i
  BY <1>2 DEF ListsKept, HeadsLead
<1>5. PICK n \in Infos \union {Nil} : n = next[h]
  BY <1>2, <1>4 DEF InfosTypeOK, LinkMaps
<1>6. n # Nil => n \in live /\ prev[n] = h /\ n # h /\ n # i /\ row[n] = r
  BY <1>1, <1>2, <1>3, <1>4, <1>5 DEF ListsKept, Linked
<1>7. /\ next' = [next EXCEPT ![i] = n, ![h] = i]
      /\ prev' = Set([prev EXCEPT ![i] = h], n, i)
      /\ observedObjects' = observedObjects
      /\ row' = [row EXCEPT ![i] = r] /\ tableRows' = tableRows
      /\ infoInvalidated' = infoInvalidated \ {i} /\ cleared' = cleared
  BY <1>3, <1>5 DEF Observe, PrevBehind
<1>8. next \in LinkMaps /\ prev \in LinkMaps /\ row \in [Infos -> Rows \union {Gone}] /\ h \in Infos
  BY <1>2, <1>4 DEF InfosTypeOK
<1>9. next'[i] = n /\ next'[h] = i /\ \A j \in live : j # h => next'[j] = next[j]
  BY <1>2, <1>4, <1>7, <1>8 DEF LinkMaps
<1>10. prev'[i] = h /\ (n # Nil => prev'[n] = i) /\ \A j \in live : j # n => prev'[j] = prev[j]
  BY <1>2, <1>5, <1>6, <1>7, <1>8 DEF LinkMaps, Set
<1>11. row'[i] = r /\ \A j \in live : row'[j] = row[j]
  BY <1>2, <1>7, <1>8
<1>12. Linked'
  <2>1. ASSUME NEW j \in live', prev'[j] # Nil
        PROVE  prev'[j] \in live' /\ next'[prev'[j]] = j /\ row'[prev'[j]] = row'[j]
    <3>1. CASE j = i
      BY <1>2, <1>3, <1>4, <1>9, <1>10, <1>11, <3>1
    <3>2. CASE j = n /\ j # i
      BY <1>1, <1>2, <1>3, <1>4, <1>6, <1>9, <1>10, <1>11, <3>2
    <3>3. CASE j # n /\ j # i
      <4>1. j \in live /\ prev'[j] = prev[j]
        BY <1>2, <1>10, <3>3
      <4>2. prev[j] \in live /\ next[prev[j]] = j /\ row[prev[j]] = row[j]
        BY <2>1, <4>1 DEF ListsKept, Linked
      <4>3. prev[j] # h
        BY <1>5, <3>3, <4>2
      <4> QED
        BY <1>2, <1>9, <1>11, <4>1, <4>2, <4>3
    <3> QED
      BY <3>1, <3>2, <3>3
  <2>2. ASSUME NEW j \in live', next'[j] # Nil
        PROVE  next'[j] \in live' /\ prev'[next'[j]] = j
    <3>1. CASE j = i
      BY <1>2, <1>6, <1>9, <1>10, <2>2, <3>1
    <3>2. CASE j = h
      BY <1>2, <1>9, <1>10, <3>2
    <3>3. CASE j # h /\ j # i
      <4>1. j \in live /\ next'[j] = next[j]
        BY <1>2, <1>9, <3>3
      <4>2. next[j] \in live /\ prev[next[j]] = j
        BY <2>2, <4>1 DEF ListsKept, Linked
      <4>3. next[j] # n
        BY <1>2, <1>1, <1>6, <3>3, <4>2
      <4> QED
        BY <1>2, <1>10, <4>1, <4>2, <4>3
    <3> QED
      BY <3>1, <3>2, <3>3
  <2> QED
    BY <2>1, <2>2 DEF Linked
<1>13. NoCircle'
  <2> SUFFICES ASSUME NEW S, S \subseteq live', S # {} PROVE \E j \in S : prev'[j] \notin S
    BY DEF NoCircle
  <2>1. Nil \notin S
    BY <1>1, <1>2
  <2>2. CASE h \in S
    <3>1. prev'[h] = Nil
      BY <1>1, <1>4, <1>6, <1>8, <1>10
    <3> QED
      BY <2>1, <2>2, <3>1
  <2>3. CASE i \in S /\ h \notin S
    BY <1>10, <2>3
  <2>4. CASE i \notin S /\ h \notin S
    <3>1. PICK j \in S : prev[j] \notin S
      BY <1>2, <2>4 DEF ListsKept, NoCircle
    <3>2. prev'[j] = prev[j] \/ prev'[j] = i
      BY <1>2, <1>10, <2>1, <2>4, <3>1
    <3> QED
      BY <2>4, <3>1, <3>2
  <2> QED
    BY <2>2, <2>3, <2>4
<1>14. Heads' = Heads /\ OnceEach(observedObjects)'
  BY <1>7 DEF Heads, ListsKept, OnceEach
<1>15. HeadsLead'
  <2>1. \A g \in Heads : g \in live /\ prev[g] = Nil
    BY DEF ListsKept, HeadsLead
  <2>2. \A g \in Heads : g \in live' /\ prev'[g] = Nil /\ row'[g] = row[g]
    BY <1>1, <1>2, <1>4, <1>6, <1>8, <1>10, <1>11, <2>1
  <2>3. \A j \in live' : prev'[j] = Nil /\ j \notin Heads => next'[j] = Nil /\ row'[j] = Gone
    <3> SUFFICES ASSUME NEW j \in live', prev'[j] = Nil, j \notin Heads
                 PROVE  next'[j] = Nil /\ row'[j] = Gone
      OBVIOUS
    <3>1. j # i /\ j # n
      BY <1>1, <1>2, <1>6, <1>8, <1>10
    <3>2. j \in live /\ prev[j] = Nil /\ j # h
      BY <1>2, <1>10, <3>1
    <3> QED
      BY <1>9, <1>11, <3>2 DEF ListsKept, HeadsLead
  <2> QED
    BY <1>14, <2>2, <2>3 DEF ListsKept, HeadsLead
<1>16. RowsExist'
  BY <1>2, <1>7, <1>11 DEF ListsKept, RowsExist
<1>17. GoneMeansInvalidated'
  BY <1>1, <1>2, <1>7, <1>11 DEF ListsKept, GoneMeansInvalidated
<1> QED
  BY <1>12, <1>13, <1>14, <1>15, <1>16, <1>17 DEF ListsKept

LEMMA ObserveStep ==
  ASSUME ObserversInd, NEW i \in Infos, NEW r \in Rows, Observe(i, r)
  PROVE  ObserversInd'
<1>1. InfosTypeOK
  BY DEF ObserversInd
<1>2. InfosTypeOK'
  <2>1. CASE HeadOf(r) = 0
    <3>1. next' \in LinkMaps /\ prev' \in LinkMaps
      BY <1>1, <2>1 DEF Observe, InfosTypeOK, LinkMaps
    <3>2. observedObjects' \in Seq(Infos)
      BY <1>1, <2>1, AppendProperties DEF Observe, InfosTypeOK
    <3> QED
      BY <1>1, <3>1, <3>2 DEF Observe, InfosTypeOK
  <2>2. CASE HeadOf(r) # 0
    <3>1. PICK h \in Infos : h = observedObjects[HeadOf(r)]
      BY <1>1, <2>2, HeadOfRow DEF InfosTypeOK
    <3>2. next \in LinkMaps /\ prev \in LinkMaps /\ next[h] \in Infos \union {Nil}
      BY <1>1 DEF InfosTypeOK, LinkMaps
    <3>3. next' \in LinkMaps /\ prev' \in LinkMaps /\ observedObjects' = observedObjects
      BY <2>2, <3>1, <3>2 DEF Observe, PrevBehind, Set, LinkMaps
    <3> QED
      BY <1>1, <3>3 DEF Observe, InfosTypeOK
  <2> QED
    BY <2>1, <2>2
<1>3. cleared' = cleared
  BY DEF Observe
<1>4. ~cleared => ListsKept'
  BY <1>1, NewHeadStep, BehindHeadStep DEF ObserversInd
<1> QED
  BY <1>2, <1>3, <1>4 DEF ObserversInd

(* An info that goes is linked out; its two neighbours are not itself and   *)
(* not one and the same.                                                     *)
LEMMA Apart ==
  ASSUME InfosTypeOK, Linked, NoCircle, NEW i \in live
  PROVE  /\ prev[i] # i /\ next[i] # i
         /\ prev[i] # Nil => prev[i] # next[i]
<1>1. Nil \notin live
  BY ObservationInfosAssumption DEF InfosTypeOK
<1>2. prev[i] # i
  <2>1. {i} \subseteq live /\ {i} # {}
    OBVIOUS
  <2>2. \E j \in {i} : prev[j] \notin {i}
    BY <2>1 DEF NoCircle
  <2> QED
    BY <2>2
<1>3. next[i] # i
  <2> SUFFICES ASSUME next[i] = i PROVE FALSE
    OBVIOUS
  <2>1. prev[i] = i
    BY <1>1 DEF Linked
  <2> QED
    BY <1>2, <2>1
<1>4. ASSUME prev[i] # Nil, prev[i] = next[i] PROVE FALSE
  <2>1. PICK p \in live : p = prev[i]
    BY <1>4 DEF Linked
  <2>2. prev[p] = i
    BY <1>1, <1>4, <2>1 DEF Linked
  <2>3. {i, p} \subseteq live /\ {i, p} # {}
    OBVIOUS
  <2>4. PICK j \in {i, p} : prev[j] \notin {i, p}
    BY <2>3 DEF NoCircle
  <2> QED
    BY <2>1, <2>2, <2>4
<1> QED
  BY <1>2, <1>3, <1>4

LEMMA MiddleStep ==
  ASSUME InfosTypeOK, ListsKept, NEW i \in live, Release(i), prev[i] # Nil
  PROVE  ListsKept'
<1>1. Nil \notin Infos /\ live \subseteq Infos /\ next \in LinkMaps /\ prev \in LinkMaps
  BY ObservationInfosAssumption DEF InfosTypeOK
<1>2. Linked /\ NoCircle /\ HeadsLead
  BY DEF ListsKept
<1>3. PICK p \in live : p = prev[i] /\ next[p] = i /\ row[p] = row[i]
  BY <1>2 DEF Linked
<1>4. PICK n \in Infos \union {Nil} : n = next[i]
  BY <1>1 DEF LinkMaps
<1>5. p # i /\ n # i /\ p # n
  BY <1>2, <1>3, <1>4, Apart
<1>6. n # Nil => n \in live /\ prev[n] = i /\ row[n] = row[i]
  BY <1>1, <1>2, <1>4 DEF Linked
<1>7. /\ next' = [next EXCEPT ![p] = n] /\ prev' = Set(prev, n, p)
      /\ observedObjects' = observedObjects /\ live' = live \ {i}
      /\ UNCHANGED <<tableRows, row, infoInvalidated, cleared>>
  BY <1>1, <1>3, <1>4 DEF Release, Set
<1>9. next'[p] = n /\ \A j \in live : j # p => next'[j] = next[j]
  BY <1>1, <1>7 DEF LinkMaps
<1>10. (n # Nil => prev'[n] = p) /\ \A j \in live : j # n => prev'[j] = prev[j]
  BY <1>1, <1>4, <1>7 DEF LinkMaps, Set
<1>11. i \notin Heads
  BY <1>2 DEF HeadsLead
<1>12. Linked'
  <2>1. ASSUME NEW j \in live', prev'[j] # Nil
        PROVE  prev'[j] \in live' /\ next'[prev'[j]] = j /\ row'[prev'[j]] = row'[j]
    <3>1. CASE j = n
      BY <1>1, <1>3, <1>5, <1>6, <1>7, <1>9, <1>10, <3>1
    <3>2. CASE j # n
      <4>1. j \in live /\ j # i /\ prev'[j] = prev[j]
        BY <1>7, <1>10, <3>2
      <4>2. prev[j] \in live /\ next[prev[j]] = j /\ row[prev[j]] = row[j]
        BY <1>2, <2>1, <4>1 DEF Linked
      <4>3. prev[j] # p /\ prev[j] # i
        BY <1>3, <1>4, <3>2, <4>1, <4>2
      <4> QED
        BY <1>7, <1>9, <4>1, <4>2, <4>3
    <3> QED
      BY <3>1, <3>2
  <2>2. ASSUME NEW j \in live', next'[j] # Nil
        PROVE  next'[j] \in live' /\ prev'[next'[j]] = j
    <3>1. CASE j = p
      BY <1>5, <1>6, <1>7, <1>9, <1>10, <2>2, <3>1
    <3>2. CASE j # p
      <4>1. j \in live /\ j # i /\ next'[j] = next[j]
        BY <1>7, <1>9, <3>2
      <4>2. next[j] \in live /\ prev[next[j]] = j
        BY <1>2, <2>2, <4>1 DEF Linked
      <4>3. next[j] # n /\ next[j] # i
        BY <1>1, <1>3, <1>6, <3>2, <4>1, <4>2
      <4> QED
        BY <1>7, <1>10, <4>1, <4>2, <4>3
    <3> QED
      BY <3>1, <3>2
  <2> QED
    BY <2>1, <2>2 DEF Linked
<1>13. NoCircle'
  <2> SUFFICES ASSUME NEW S, S \subseteq live', S # {} PROVE \E j \in S : prev'[j] \notin S
    BY DEF NoCircle
  <2>1. S \subseteq live /\ i \notin S /\ S \union {i} \subseteq live /\ S \union {i} # {}
    BY <1>7
  <2>2. CASE n \notin S
    <3>1. PICK j \in S : prev[j] \notin S
      BY <1>2, <2>1 DEF NoCircle
    <3> QED
      BY <1>10, <2>1, <2>2, <3>1
  <2>3. CASE n \in S /\ p \notin S
    <3>1. prev'[n] = p
      BY <1>1, <1>10, <2>1, <2>3
    <3> QED
      BY <2>3, <3>1
  <2>4. CASE n \in S /\ p \in S
    <3>1. PICK j \in S \union {i} : prev[j] \notin S \union {i}
      BY <1>2, <2>1 DEF NoCircle
    <3>2. j # i /\ j # n
      BY <1>1, <1>3, <1>6, <2>1, <2>4, <3>1
    <3>3. prev'[j] = prev[j] /\ j \in S
      BY <1>10, <2>1, <3>1, <3>2
    <3> QED
      BY <3>1, <3>3
  <2> QED
    BY <2>2, <2>3, <2>4
<1>14. Heads' = Heads /\ OnceEach(observedObjects)'
  BY <1>7 DEF Heads, ListsKept, OnceEach
<1>15. HeadsLead'
  <2>1. \A g \in Heads : g \in live' /\ prev'[g] = Nil
    <3> SUFFICES ASSUME NEW g \in Heads PROVE g \in live' /\ prev'[g] = Nil
      OBVIOUS
    <3>1. g \in live /\ prev[g] = Nil /\ g # i
      BY <1>2, <1>11 DEF HeadsLead
    <3>2. g # n
      BY <1>1, <1>6, <3>1
    <3> QED
      BY <1>7, <1>10, <3>1, <3>2
  <2>2. \A j \in live' : prev'[j] = Nil /\ j \notin Heads => next'[j] = Nil /\ row'[j] = Gone
    <3> SUFFICES ASSUME NEW j \in live', prev'[j] = Nil, j \notin Heads
                 PROVE  next'[j] = Nil /\ row'[j] = Gone
      OBVIOUS
    <3>1. j # n /\ j \in live
      BY <1>1, <1>3, <1>7, <1>10
    <3>2. prev[j] = Nil
      BY <1>10, <3>1
    <3>3. next[j] = Nil /\ row[j] = Gone
      BY <1>2, <3>1, <3>2 DEF HeadsLead
    <3>4. j # p
      BY <1>1, <1>3, <3>3
    <3> QED
      BY <1>7, <1>9, <3>1, <3>3, <3>4
  <2> QED
    BY <1>2, <1>7, <1>14, <2>1, <2>2 DEF HeadsLead
<1>16. RowsExist' /\ GoneMeansInvalidated'
  BY <1>7 DEF ListsKept, RowsExist, GoneMeansInvalidated
<1> QED
  BY <1>12, <1>13, <1>14, <1>15, <1>16 DEF ListsKept

(* The first of a list goes: the second takes its place, if there is one.    *)
LEMMA FirstStep ==
  ASSUME InfosTypeOK, ListsKept, NEW i \in live, Release(i), prev[i] = Nil, i \in Heads
  PROVE  ListsKept'
<1>1. Nil \notin Infos /\ live \subseteq Infos /\ next \in LinkMaps /\ prev \in LinkMaps
  BY ObservationInfosAssumption DEF InfosTypeOK
<1>2. Linked /\ NoCircle /\ HeadsLead /\ OnceEach(observedObjects)
  BY DEF ListsKept
<1>3. PICK n \in Infos \union {Nil} : n = next[i]
  BY <1>1 DEF LinkMaps
<1>4. n # i /\ (n # Nil => n \in live /\ prev[n] = i /\ row[n] = row[i])
  BY <1>1, <1>2, <1>3, Apart DEF Linked
<1>5. PICK at \in DOMAIN observedObjects : at = PlaceOfInfo(i) /\ observedObjects[at] = i
  BY PlaceOfHead
<1>6. PlaceOfInfo(i) # 0
  BY PlaceOfHead
<1>7. /\ observedObjects' = ObservedAfter(i, at) /\ prev' = Set(prev, n, Nil) /\ next' = next
      /\ live' = live \ {i} /\ UNCHANGED <<tableRows, row, infoInvalidated, cleared>>
  BY <1>3, <1>5, <1>6 DEF Release, PlaceOfInfo
<1>8. (n # Nil => prev'[n] = Nil) /\ \A j \in live : j # n => prev'[j] = prev[j]
  BY <1>1, <1>3, <1>7 DEF LinkMaps, Set
<1>9. HoldsOnce(observedObjects', (Heads \ {i}) \union ({n} \ {Nil}))
  <2>1. observedObjects \in Seq(Infos)
    BY DEF InfosTypeOK
  <2>2. CASE n # Nil
    <3>1. n \in Infos /\ n \notin Range(observedObjects)
      BY <1>1, <1>2, <1>4, <2>2 DEF HeadsLead, Heads
    <3>2. HoldsOnce([observedObjects EXCEPT ![at] = n], (Range(observedObjects) \ {i}) \union {n})
      BY <1>2, <1>5, <2>1, <3>1, OneReplaced
    <3>3. observedObjects' = [observedObjects EXCEPT ![at] = n]
      BY <1>3, <1>7, <2>2 DEF ObservedAfter
    <3>4. {n} \ {Nil} = {n}
      BY <2>2
    <3> QED
      BY <3>2, <3>3, <3>4 DEF Heads
  <2>3. CASE n = Nil
    <3>1. HoldsOnce(Front([observedObjects EXCEPT ![at] = Last(observedObjects)]),
                    Range(observedObjects) \ {i})
      BY <1>2, <1>5, <2>1, OneTaken
    <3>2. observedObjects' = Front([observedObjects EXCEPT ![at] = Last(observedObjects)])
      BY <1>3, <1>7, <2>3 DEF ObservedAfter
    <3>3. (Heads \ {i}) \union ({n} \ {Nil}) = Heads \ {i}
      BY <2>3
    <3> QED
      BY <3>1, <3>2, <3>3 DEF Heads
  <2> QED
    BY <2>2, <2>3
<1>10. /\ observedObjects' \in Seq(Infos) /\ OnceEach(observedObjects)'
       /\ Heads' = (Heads \ {i}) \union ({n} \ {Nil})
  BY <1>9 DEF HoldsOnce, OnceEach, Heads
<1>12. Linked'
  <2>1. ASSUME NEW j \in live', prev'[j] # Nil
        PROVE  prev'[j] \in live' /\ next'[prev'[j]] = j /\ row'[prev'[j]] = row'[j]
    <3>1. j # n /\ j \in live
      BY <1>1, <1>7, <1>8, <2>1
    <3>2. prev'[j] = prev[j]
      BY <1>8, <3>1
    <3>3. prev[j] \in live /\ next[prev[j]] = j /\ row[prev[j]] = row[j]
      BY <1>2, <2>1, <3>1, <3>2 DEF Linked
    <3>4. prev[j] # i
      BY <1>3, <3>1, <3>3
    <3> QED
      BY <1>7, <3>2, <3>3, <3>4
  <2>2. ASSUME NEW j \in live', next'[j] # Nil
        PROVE  next'[j] \in live' /\ prev'[next'[j]] = j
    <3>1. j \in live /\ j # i /\ next'[j] = next[j]
      BY <1>7
    <3>2. next[j] \in live /\ prev[next[j]] = j
      BY <1>2, <2>2, <3>1 DEF Linked
    <3>3. next[j] # n /\ next[j] # i
      BY <1>1, <1>4, <3>1, <3>2
    <3> QED
      BY <1>7, <1>8, <3>1, <3>2, <3>3
  <2> QED
    BY <2>1, <2>2 DEF Linked
<1>13. NoCircle'
  <2> SUFFICES ASSUME NEW S, S \subseteq live', S # {} PROVE \E j \in S : prev'[j] \notin S
    BY DEF NoCircle
  <2>1. S \subseteq live /\ Nil \notin S
    BY <1>1, <1>7
  <2>2. PICK j \in S : prev[j] \notin S
    BY <1>2, <2>1 DEF NoCircle
  <2>3. prev'[j] = prev[j] \/ prev'[j] = Nil
    BY <1>8, <2>1
  <2> QED
    BY <2>1, <2>2, <2>3
<1>14. HeadsLead'
  <2>1. \A g \in Heads' : g \in live' /\ prev'[g] = Nil
    <3> SUFFICES ASSUME NEW g \in Heads' PROVE g \in live' /\ prev'[g] = Nil
      OBVIOUS
    <3>1. CASE g = n
      <4>1. n # Nil
        BY <1>1, <1>2, <1>10, <3>1 DEF HeadsLead
      <4> QED
        BY <1>4, <1>7, <1>8, <3>1, <4>1
    <3>2. CASE g # n
      BY <1>2, <1>7, <1>8, <1>10, <3>2 DEF HeadsLead
    <3> QED
      BY <3>1, <3>2
  <2>2. \A g, h \in Heads' : row'[g] = row'[h] /\ row'[g] # Gone => g = h
    <3>1. \A g \in Heads' : g = n \/ (g \in Heads /\ g # i)
      BY <1>10
    <3>2. n \in Heads' => n # Nil
      BY <1>1, <1>2, <1>10 DEF HeadsLead
    <3> QED
      BY <1>2, <1>4, <1>7, <3>1, <3>2 DEF HeadsLead
  <2>3. \A j \in live' : prev'[j] = Nil /\ j \notin Heads' => next'[j] = Nil /\ row'[j] = Gone
    <3> SUFFICES ASSUME NEW j \in live', prev'[j] = Nil, j \notin Heads'
                 PROVE  next'[j] = Nil /\ row'[j] = Gone
      OBVIOUS
    <3>1. j \in live /\ j # i /\ j # Nil
      BY <1>1, <1>7
    <3>2. j # n /\ j \notin Heads
      BY <1>10, <3>1
    <3> QED
      BY <1>2, <1>7, <1>8, <3>1, <3>2 DEF HeadsLead
  <2> QED
    BY <2>1, <2>2, <2>3 DEF HeadsLead
<1>15. RowsExist' /\ GoneMeansInvalidated'
  BY <1>7 DEF ListsKept, RowsExist, GoneMeansInvalidated
<1> QED
  BY <1>10, <1>12, <1>13, <1>14, <1>15 DEF ListsKept

LEMMA AloneStep ==
  ASSUME InfosTypeOK, ListsKept, NEW i \in live, Release(i), prev[i] = Nil, i \notin Heads
  PROVE  ListsKept'
<1>1. Nil \notin Infos /\ live \subseteq Infos
  BY ObservationInfosAssumption DEF InfosTypeOK
<1>2. Linked /\ NoCircle /\ HeadsLead /\ OnceEach(observedObjects)
  BY DEF ListsKept
<1>3. PlaceOfInfo(i) = 0
  BY PlaceOfHead
<1>4. /\ UNCHANGED <<next, prev, observedObjects, tableRows, row, infoInvalidated, cleared>>
      /\ live' = live \ {i}
  BY <1>3 DEF Release, PlaceOfInfo
<1>5. next[i] = Nil
  BY <1>2 DEF HeadsLead
<1>7. \A j \in live : prev[j] # i /\ next[j] # i
  BY <1>1, <1>2, <1>5 DEF Linked
<1>8. Linked'
  BY <1>2, <1>4, <1>7 DEF Linked
<1>9. NoCircle'
  BY <1>2, <1>4 DEF NoCircle
<1>10. Heads' = Heads /\ OnceEach(observedObjects)'
  BY <1>2, <1>4 DEF Heads, OnceEach
<1>11. HeadsLead'
  BY <1>2, <1>4, <1>10 DEF HeadsLead
<1>12. RowsExist' /\ GoneMeansInvalidated'
  BY <1>4 DEF ListsKept, RowsExist, GoneMeansInvalidated
<1> QED
  BY <1>8, <1>9, <1>10, <1>11, <1>12 DEF ListsKept

LEMMA ReleaseTypes ==
  ASSUME InfosTypeOK, NEW i \in Infos, Release(i)
  PROVE  InfosTypeOK'
<1>1. next \in LinkMaps /\ prev \in LinkMaps /\ observedObjects \in Seq(Infos)
  BY DEF InfosTypeOK
<1>2. next[i] \in Infos \union {Nil} /\ prev[i] \in Infos \union {Nil}
  BY <1>1 DEF LinkMaps
<1>3. \A k \in Infos \union {Nil} : Set(prev, next[i], k) \in LinkMaps /\ Set(next, prev[i], k) \in LinkMaps
  BY <1>1, <1>2 DEF Set, LinkMaps
<1>4. PlaceOfInfo(i) # 0 => ObservedAfter(i, PlaceOfInfo(i)) \in Seq(Infos)
  <2> SUFFICES ASSUME PlaceOfInfo(i) # 0
               PROVE  ObservedAfter(i, PlaceOfInfo(i)) \in Seq(Infos)
    OBVIOUS
  <2>1. PICK at \in 1 .. Len(observedObjects) : at = PlaceOfInfo(i)
    BY <1>1, PlaceOfHead
  <2>2. PICK n \in Nat : n = Len(observedObjects)
    BY <1>1
  <2>3. CASE next[i] # Nil
    BY <1>1, <1>2, <2>1, <2>3, ExceptSeq DEF ObservedAfter
  <2>4. CASE next[i] = Nil
    <3>1. PICK e \in Infos : e = Last(observedObjects)
      BY <1>1, <2>1, <2>2 DEF Last
    <3>2. PICK u \in Seq(Infos) : u = [observedObjects EXCEPT ![at] = e]
      BY <1>1, <2>1, ExceptSeq
    <3>3. \A a \in 1 .. (Len(u) - 1) : u[a] \in Infos
      BY <3>2
    <3>4. Len(u) - 1 \in Int /\ 1 \in Int
      BY <3>2
    <3>5. SubSeq(u, 1, Len(u) - 1) \in Seq(Infos)
      BY <3>3, <3>4, SubSeqProperties
    <3> QED
      BY <2>1, <2>4, <3>1, <3>2, <3>5 DEF ObservedAfter, Front
  <2> QED
    BY <2>3, <2>4
<1>5. CASE prev[i] # Nil
  BY <1>2, <1>3, <1>5 DEF Release, InfosTypeOK
<1>6. CASE prev[i] = Nil /\ PlaceOfInfo(i) # 0
  BY <1>3, <1>4, <1>6 DEF Release, InfosTypeOK, PlaceOfInfo
<1>7. CASE prev[i] = Nil /\ PlaceOfInfo(i) = 0
  BY <1>7 DEF Release, InfosTypeOK, PlaceOfInfo
<1> QED
  BY <1>5, <1>6, <1>7

LEMMA ReleaseStep ==
  ASSUME ObserversInd, NEW i \in Infos, Release(i)
  PROVE  ObserversInd'
<1>1. InfosTypeOK /\ i \in live
  BY DEF ObserversInd, Release
<1>2. InfosTypeOK'
  BY <1>1, ReleaseTypes
<1>3. cleared' = cleared
  BY DEF Release
<1>4. ~cleared => ListsKept'
  BY <1>1, MiddleStep, FirstStep, AloneStep DEF ObserversInd
<1> QED
  BY <1>2, <1>3, <1>4 DEF ObserversInd

-----------------------------------------------------------------------------
(* Until a table is cleared of a row with several observers, a change of a  *)
(* row is told to all who observe it, found from the schema, and a row that *)
(* is deleted does not vanish under any of them.                            *)
THEOREM EveryObserverTold == InfosSpec => []ObserversKept
<1>1. InfosInit => ObserversInd
  BY InfosInitInd
<1>2. ObserversInd /\ [InfosNext]_infoVars => ObserversInd'
  <2> SUFFICES ASSUME ObserversInd, [InfosNext]_infoVars PROVE ObserversInd'
    OBVIOUS
  <2>1. ASSUME NEW i \in Infos, Release(i) PROVE ObserversInd'
    BY <2>1, ReleaseStep
  <2>2. ASSUME NEW i \in Infos, NEW r \in Rows, Observe(i, r) PROVE ObserversInd'
    BY <2>2, ObserveStep
  <2>3. ASSUME NEW r \in Rows, DeleteRow(r) PROVE ObserversInd'
    BY <2>3, DeleteRowStep
  <2>4. ASSUME NEW r \in Rows, AddRow(r) PROVE ObserversInd'
    BY <2>4, AddRowStep
  <2>5. CASE RLMClearTable
    BY <2>5, ClearStep
  <2>6. CASE UNCHANGED infoVars
    BY <2>6 DEF infoVars, ObserversInd, InfosTypeOK, ListsKept, OnceEach, Linked, NoCircle,
                HeadsLead, Heads, RowsExist, GoneMeansInvalidated
  <2> QED
    BY <2>1, <2>2, <2>3, <2>4, <2>5, <2>6 DEF InfosNext
<1>3. ObserversInd => ObserversKept
  BY KeptFromInd
<1> QED
  BY <1>1, <1>2, <1>3, PTL DEF InfosSpec

-----------------------------------------------------------------------------
(* The log of a transaction.  What it makes of a group is a recursive        *)
(* function over its instructions: there is one, and its last value takes    *)
(* one more step with one more instruction.                                  *)
AppliesTo(f, instrs, g) ==
  /\ DOMAIN f = 0 .. Len(instrs)
  /\ f[0] = Start(g)
  /\ \A n \in 1 .. Len(instrs) : f[n] = Apply(f[n - 1], instrs[n])

HowApplied(instrs, g) ==
  \E f : AppliesTo(f, instrs, g) /\ After(instrs, g) = f[Len(instrs)]

LEMMA AppliedBySteps ==
  ASSUME NEW S, NEW instrs \in Seq(S), NEW g
  PROVE  HowApplied(instrs, g)
<1> DEFINE L == Len(instrs)
           upTo == CHOOSE f : f = [n \in 0 .. L |->
                     IF n = 0 THEN Start(g) ELSE Apply(f[n - 1], instrs[n])]
           Follows(f, n) == f[n] = IF n = 0 THEN Start(g) ELSE Apply(f[n - 1], instrs[n])
           Built(k) == \E f : DOMAIN f = 0 .. k /\ \A n \in 0 .. k : Follows(f, n)
<1>1. After(instrs, g) = upTo[L]
  BY DEF After
<1>2. PICK l \in Nat : l = L
  OBVIOUS
<1> HIDE DEF L
<1>3. Built(0)
  <2>1. PICK f : f = [n \in 0 .. 0 |-> Start(g)]
    OBVIOUS
  <2>2. DOMAIN f = 0 .. 0 /\ \A n \in 0 .. 0 : Follows(f, n)
    BY <2>1
  <2> QED
    BY <2>2
<1>4. ASSUME NEW k \in Nat, Built(k) PROVE Built(k + 1)
  <2>1. PICK f : DOMAIN f = 0 .. k /\ \A n \in 0 .. k : Follows(f, n)
    BY <1>4
  <2>2. PICK last : last = Apply(f[k], instrs[k + 1])
    OBVIOUS
  <2>3. PICK h : h = [n \in 0 .. (k + 1) |-> IF n = k + 1 THEN last ELSE f[n]]
    OBVIOUS
  <2>4. DOMAIN h = 0 .. (k + 1)
    BY <2>3
  <2>5. h[k + 1] = last /\ h[k] = f[k] /\ k + 1 # 0 /\ (k + 1) - 1 = k
    BY <2>3
  <2>6. Follows(h, k + 1)
    BY <2>2, <2>5, Zenon
  <2>7. ASSUME NEW n \in 0 .. k PROVE Follows(h, n)
    <3>1. h[n] = f[n] /\ (n # 0 => h[n - 1] = f[n - 1])
      BY <2>3
    <3> QED
      BY <2>1, <3>1
  <2>8. \A n \in 0 .. (k + 1) : n = k + 1 \/ n \in 0 .. k
    OBVIOUS
  <2> HIDE DEF Follows
  <2>9. \A n \in 0 .. (k + 1) : Follows(h, n)
    BY <2>6, <2>7, <2>8
  <2> QED
    BY <2>4, <2>9
<1>5. Built(l)
  <2> HIDE DEF Built
  <2>1. PICK K : K = {k \in Nat : Built(k)}
    OBVIOUS
  <2>2. 0 \in K /\ \A k \in Nat : k \in K => k + 1 \in K
    BY <1>3, <1>4, <2>1
  <2>3. \A k \in Nat : k \in K
    BY <2>2, SetInduction
  <2> QED
    BY <2>1, <2>3
<1>6. PICK f : DOMAIN f = 0 .. l /\ \A n \in 0 .. l : Follows(f, n)
  BY <1>5
<1>7. PICK e : e = [n \in 0 .. l |-> f[n]]
  OBVIOUS
<1>8. e = [n \in 0 .. L |-> IF n = 0 THEN Start(g) ELSE Apply(e[n - 1], instrs[n])]
  <2>1. \A n \in 0 .. l : n # 0 => n - 1 \in 0 .. l
    OBVIOUS
  <2>2. \A n \in 0 .. l : e[n] = f[n]
    BY <1>7
  <2>3. \A n \in 0 .. l : e[n] = IF n = 0 THEN Start(g) ELSE Apply(e[n - 1], instrs[n])
    BY <1>6, <2>1, <2>2
  <2> QED
    BY <1>2, <1>7, <2>3
<1>9. upTo = [n \in 0 .. L |-> IF n = 0 THEN Start(g) ELSE Apply(upTo[n - 1], instrs[n])]
  BY <1>8
<1>10. PICK h : h = upTo
  OBVIOUS
<1>11. h = [n \in 0 .. L |-> IF n = 0 THEN Start(g) ELSE Apply(h[n - 1], instrs[n])]
  BY <1>9, <1>10
<1> HIDE DEF upTo
<1>12. DOMAIN h = 0 .. L /\ \A n \in 0 .. L : Follows(h, n)
  BY <1>11
<1>13. 0 \in 0 .. L /\ \A n \in 1 .. L : n \in 0 .. L /\ n # 0
  BY <1>2
<1>14. h[0] = Start(g) /\ \A n \in 1 .. L : h[n] = Apply(h[n - 1], instrs[n])
  BY <1>12, <1>13
<1>15. AppliesTo(h, instrs, g)
  BY <1>12, <1>14 DEF AppliesTo, L
<1>16. After(instrs, g) = h[Len(instrs)]
  BY <1>1, <1>10 DEF L
<1> QED
  BY <1>15, <1>16 DEF HowApplied

LEMMA NothingApplied == \A g : After(<<>>, g) = Start(g)
<1> SUFFICES ASSUME NEW g PROVE After(<<>>, g) = Start(g)
  OBVIOUS
<1>1. <<>> \in Seq(Nat) /\ Len(<<>>) = 0
  BY EmptySeq
<1>2. HowApplied(<<>>, g)
  BY <1>1, AppliedBySteps
<1> QED
  BY <1>1, <1>2 DEF HowApplied, AppliesTo

LEMMA OneMoreApplied ==
  ASSUME NEW S, NEW instrs \in Seq(S), NEW i \in S, NEW g
  PROVE  After(Append(instrs, i), g) = Apply(After(instrs, g), i)
<1>1. PICK more \in Seq(S) : more = Append(instrs, i)
  BY AppendProperties
<1>2. PICK l \in Nat : l = Len(instrs)
  OBVIOUS
<1>3. Len(more) = l + 1 /\ more[l + 1] = i /\ \A n \in 1 .. l : more[n] = instrs[n]
  BY <1>1, <1>2, AppendProperties
<1>4. PICK f : AppliesTo(f, instrs, g) /\ After(instrs, g) = f[l]
  <2>1. HowApplied(instrs, g)
    BY AppliedBySteps
  <2> QED
    BY <1>2, <2>1 DEF HowApplied
<1>5. PICK h : AppliesTo(h, more, g) /\ After(more, g) = h[l + 1]
  <2>1. HowApplied(more, g)
    BY AppliedBySteps
  <2> QED
    BY <1>3, <2>1 DEF HowApplied
<1>6. \A n \in 0 .. l : h[n] = f[n]
  <2>1. PICK K : K = {n \in Nat : n <= l => h[n] = f[n]}
    OBVIOUS
  <2>2. 0 \in K
    BY <1>4, <1>5, <2>1 DEF AppliesTo
  <2>3. ASSUME NEW n \in Nat, n \in K PROVE n + 1 \in K
    <3> SUFFICES ASSUME n + 1 <= l PROVE h[n + 1] = f[n + 1]
      BY <2>1
    <3>1. n + 1 \in 1 .. l /\ (n + 1) - 1 = n /\ n + 1 \in 1 .. (l + 1)
      OBVIOUS
    <3>2. h[n] = f[n]
      BY <2>1, <2>3
    <3>3. f[n + 1] = Apply(f[n], instrs[n + 1])
      BY <1>2, <1>4, <3>1 DEF AppliesTo
    <3>4. h[n + 1] = Apply(h[n], more[n + 1])
      BY <1>3, <1>5, <3>1 DEF AppliesTo
    <3>5. more[n + 1] = instrs[n + 1]
      BY <1>3, <3>1
    <3> QED
      BY <3>2, <3>3, <3>4, <3>5, Zenon
  <2>4. \A n \in Nat : n \in K
    BY <2>2, <2>3, SetInduction
  <2> QED
    BY <2>1, <2>4
<1>7. l + 1 \in 1 .. (l + 1) /\ (l + 1) - 1 = l /\ l \in 0 .. l
  OBVIOUS
<1>8. h[l + 1] = Apply(h[l], more[l + 1])
  BY <1>3, <1>5, <1>7 DEF AppliesTo
<1>9. h[l] = f[l]
  BY <1>6, <1>7
<1> QED
  BY <1>1, <1>3, <1>4, <1>5, <1>8, <1>9, Zenon

-----------------------------------------------------------------------------
(* What an instruction does where a table, or a list, is selected.          *)
RowRecords == [id : Nat, value : Nat, links : Nat]
GroupSet == [Tables -> [rows : Seq(RowRecords), columns : Seq(Nat)]]
Operations ==
  {"SelectTable", "SelectDescriptor", "SelectList", "Set", "InsertRow", "EraseRow", "Clear",
   "InsertColumn", "EraseColumn", "ListInsert", "ListErase", "ListClear"}
Instructions == [op : Operations, a : Tables \union Nat, b : Nat]

State(g, t, place) == [group |-> g, table |-> t, list |-> place]

WithRows(g, t, rows) == [g EXCEPT ![t].rows = rows]

LEMMA ApplySet ==
  ASSUME NEW g \in GroupSet, NEW t \in Tables, NEW place, NEW i \in 1 .. Len(g[t].rows)
  PROVE  Apply(State(g, t, place), Instr("Set", i, 1))
           = State([g EXCEPT ![t].rows[i].value = 1], t, place)
<1>1. i \in DOMAIN g[t].rows
  BY DEF GroupSet
<1> QED
  BY <1>1 DEF State, Instr, Apply, ApplyRows, GroupSet

LEMMA ApplyInsertRow ==
  ASSUME NEW g \in GroupSet, NEW t \in Tables, NEW place, NEW a, NEW b
  PROVE  Apply(State(g, t, place), Instr("InsertRow", a, b))
           = State(WithRows(g, t, Append(g[t].rows, NewRow)), t, place)
BY DEF State, Instr, Apply, ApplyRows, GroupSet, WithRows

LEMMA ApplyEraseRow ==
  ASSUME NEW g \in GroupSet, NEW t \in Tables, NEW place, NEW a, NEW b
  PROVE  Apply(State(g, t, place), Instr("EraseRow", a, b))
           = State(WithRows(g, t, EraseUnordered(g[t].rows, a)), t,
                   AfterErase(place, t, a, Len(g[t].rows)))
BY DEF State, Instr, Apply, ApplyRows, GroupSet, WithRows

LEMMA ApplyClear ==
  ASSUME NEW g \in GroupSet, NEW t \in Tables, NEW place, NEW a, NEW b
  PROVE  Apply(State(g, t, place), Instr("Clear", a, b))
           = State(WithRows(g, t, <<>>), t, IF place[1] = t THEN Detached ELSE place)
BY DEF State, Instr, Apply, ApplyRows, GroupSet, WithRows

ColumnChanges(g, t, place, c) ==
  /\ Apply(State(g, t, place), Instr("InsertColumn", c, 0))
       = State([g EXCEPT ![t].columns = InsertAt(@, c, 0)], t, place)
  /\ Apply(State(g, t, place), Instr("EraseColumn", c, 0))
       = State([g EXCEPT ![t].columns = RemoveAt(@, c)], t, place)

LEMMA ApplyColumn ==
  ASSUME NEW g \in GroupSet, NEW t \in Tables, NEW place, NEW c
  PROVE  ColumnChanges(g, t, place, c)
BY DEF ColumnChanges, State, Instr, Apply, ApplyColumns, GroupSet

WithLinks(g, u, r, links) == [g EXCEPT ![u].rows[r].links = links]

ListApplies(g, t, u, r, a) ==
  /\ Apply(State(g, t, <<u, r>>), Instr("ListInsert", a, 0))
       = State(WithLinks(g, u, r, g[u].rows[r].links + 1), t, <<u, r>>)
  /\ g[u].rows[r].links > 0 =>
       Apply(State(g, t, <<u, r>>), Instr("ListErase", a, 0))
         = State(WithLinks(g, u, r, g[u].rows[r].links - 1), t, <<u, r>>)
  /\ Apply(State(g, t, <<u, r>>), Instr("ListClear", a, 0))
       = State(WithLinks(g, u, r, 0), t, <<u, r>>)

LEMMA ApplyListChange ==
  ASSUME NEW g \in GroupSet, NEW t, NEW u \in Tables, NEW r \in 1 .. Len(g[u].rows), NEW a
  PROVE  ListApplies(g, t, u, r, a)
<1>1. Attached(<<u, r>>)
  BY TransactLogAssumption DEF Attached, None, Detached
<1>2. g[u].rows[r].links \in Nat
  <2>1. g[u].rows \in Seq(RowRecords)
    BY DEF GroupSet
  <2>2. g[u].rows[r] \in RowRecords
    BY <2>1
  <2> QED
    BY <2>2 DEF RowRecords
<1>3. Apply(State(g, t, <<u, r>>), Instr("ListInsert", a, 0))
        = State(WithLinks(g, u, r, g[u].rows[r].links + 1), t, <<u, r>>)
  BY <1>1 DEF State, WithLinks, Instr, Apply, ApplyList
<1>4. g[u].rows[r].links > 0 =>
        Apply(State(g, t, <<u, r>>), Instr("ListErase", a, 0))
          = State(WithLinks(g, u, r, g[u].rows[r].links - 1), t, <<u, r>>)
  <2> SUFFICES ASSUME g[u].rows[r].links # 0
               PROVE  Apply(State(g, t, <<u, r>>), Instr("ListErase", a, 0))
                        = State(WithLinks(g, u, r, g[u].rows[r].links - 1), t, <<u, r>>)
    BY <1>2
  <2> QED
    BY <1>1 DEF State, WithLinks, Instr, Apply, ApplyList
<1>5. Apply(State(g, t, <<u, r>>), Instr("ListClear", a, 0))
        = State(WithLinks(g, u, r, 0), t, <<u, r>>)
  BY <1>1 DEF State, WithLinks, Instr, Apply, ApplyList
<1> QED
  BY <1>3, <1>4, <1>5 DEF ListApplies

LEMMA ApplySelection ==
  ASSUME NEW g \in GroupSet, NEW t \in Tables \union {0}, NEW place, NEW u \in Tables
  PROVE  /\ Apply(State(g, t, place), Instr("SelectTable", u, 0)) = State(g, u, None)
         /\ Apply(State(g, t, place), Instr("SelectDescriptor", 0, 0)) = State(g, t, place)
         /\ \A c \in DOMAIN g[u].columns, r \in DOMAIN g[u].rows : g[u].columns[c] = Links =>
              Apply(State(g, u, place), Instr("SelectList", c, r)) = State(g, u, <<u, r>>)
<1>1. u # 0
  BY TransactLogAssumption
<1> QED
  BY <1>1, ZenonT(40) DEF State, Instr, Apply, ListAt

-----------------------------------------------------------------------------
(* The invariant: what the log makes of the group before is the group, with  *)
(* selected what the encoder's cache says.                                   *)
Caches ==
  [table : Tables \union {0}, descriptor : Tables \union {0}, list : Addresses \union {0}]

LogTypeOK ==
  /\ group \in GroupSet
  /\ view \in [Addresses -> (Tables \X Nat) \union {None, Detached}]
  /\ cache \in Caches
  /\ log \in Seq(Instructions)
  /\ modifications \in Nat

(* A table keeps its column of lists, and an accessor is of a row there is.  *)
Columned(g) == \A t \in Tables : \E c \in DOMAIN g[t].columns : g[t].columns[c] = Links
ListColumns == Columned(group)

RowsThere == \A a \in Addresses : Attached(view[a]) => view[a][2] \in 1 .. Count(view[a][1])

(* The place of the list selected is that of the accessor the cache has.     *)
CacheFollows(c, t, place) ==
  /\ c.table # 0 => t = c.table
  /\ c.descriptor # 0 => c.table = c.descriptor
  /\ c.list # 0 => view[c.list] # None /\ place = view[c.list]

Selects(s) ==
  /\ s = State(group, s.table, s.list)
  /\ s.table \in Tables \union {0}
  /\ CacheFollows(cache, s.table, s.list)

LogInd ==
  /\ LogTypeOK /\ ListColumns /\ RowsThere
  /\ Selects(After(log, Before))

(* How an instruction finds its table or its list.                           *)
Reaches(instr, t, place) ==
  /\ After(log', Before) = Apply(State(group, t, place), instr)
  /\ log' \in Seq(Instructions) /\ modifications' \in Nat
  /\ cache' \in Caches /\ CacheFollows(cache', t, place)

LEMMA InitLogInd == LogInit => LogInd
<1> SUFFICES ASSUME LogInit PROVE LogInd
  OBVIOUS
<1> USE DEF LogInit
<1>1. Before \in GroupSet
  <2>1. \A t \in Tables : Before[t].columns = <<1, Links>>
    BY DEF Before
  <2>2. <<1, Links>> \in Seq(Nat)
    BY DEF Links
  <2>3. [i \in 1 .. RowsAtStart |-> [id |-> i, value |-> 0, links |-> 1]] \in Seq(RowRecords)
    <3>1. \A i \in 1 .. RowsAtStart : [id |-> i, value |-> 0, links |-> 1] \in RowRecords
      BY DEF RowRecords
    <3> QED
      BY <3>1, TransactLogAssumption, IsASeq
  <2> QED
    BY <2>1, <2>2, <2>3 DEF Before, GroupSet
<1>2. LogTypeOK
  <2>1. <<>> \in Seq(Instructions)
    BY EmptySeq
  <2> QED
    BY <1>1, <2>1 DEF LogTypeOK, NoCache, Caches
<1>3. ListColumns
  <2>1. \A t \in Tables : group[t].columns = <<1, Links>>
    BY DEF Before
  <2>2. 2 \in DOMAIN <<1, Links>> /\ <<1, Links>>[2] = Links
    OBVIOUS
  <2> QED
    BY <2>1, <2>2 DEF ListColumns, Columned
<1>4. RowsThere
  BY DEF RowsThere, Attached
<1>5. Selects(After(log, Before))
  <2>1. After(log, Before) = State(group, 0, None)
    BY NothingApplied DEF Start, State
  <2>2. cache.table = 0 /\ cache.descriptor = 0 /\ cache.list = 0
    BY DEF NoCache
  <2> QED
    BY <2>1, <2>2 DEF Selects, State, CacheFollows
<1> QED
  BY <1>2, <1>3, <1>4, <1>5 DEF LogInd

(* Logging one, two or three instructions. *)
LEMMA LoggedOnce ==
  ASSUME log \in Seq(Instructions), modifications \in Nat, NEW i \in Instructions, Log(<<i>>)
  PROVE  /\ log' \in Seq(Instructions) /\ modifications' \in Nat
         /\ After(log', Before) = Apply(After(log, Before), i)
<1>1. log' = Append(log, i)
  BY AppendIsConcat DEF Log
<1>2. modifications' \in Nat
  BY DEF Log
<1>3. log' \in Seq(Instructions)
  BY <1>1, AppendProperties
<1>4. After(log', Before) = Apply(After(log, Before), i)
  BY <1>1, OneMoreApplied
<1> QED
  BY <1>2, <1>3, <1>4

LEMMA LoggedTwice ==
  ASSUME log \in Seq(Instructions), modifications \in Nat,
         NEW i \in Instructions, NEW j \in Instructions, Log(<<i>> \o <<j>>)
  PROVE  /\ log' \in Seq(Instructions) /\ modifications' \in Nat
         /\ After(log', Before) = Apply(Apply(After(log, Before), i), j)
<1>1. PICK one \in Seq(Instructions) : one = Append(log, i)
  BY AppendProperties
<1>2. one = log \o <<i>>
  BY <1>1, AppendIsConcat
<1>3. <<i>> \in Seq(Instructions) /\ <<j>> \in Seq(Instructions)
  OBVIOUS
<1>4. log' = one \o <<j>>
  BY <1>2, <1>3, ConcatAssociative DEF Log
<1>5. log' = Append(one, j)
  BY <1>4, AppendIsConcat
<1>6. After(one, Before) = Apply(After(log, Before), i)
  BY <1>1, OneMoreApplied
<1>7. After(log', Before) = Apply(After(one, Before), j)
  BY <1>5, OneMoreApplied
<1>8. log' \in Seq(Instructions)
  BY <1>5, AppendProperties
<1>13. modifications' \in Nat
  BY DEF Log
<1> QED
  BY <1>6, <1>7, <1>8, <1>13

LEMMA LoggedThrice ==
  ASSUME log \in Seq(Instructions), modifications \in Nat,
         NEW i \in Instructions, NEW j \in Instructions, NEW k \in Instructions,
         Log(<<i>> \o <<j, k>>)
  PROVE  /\ log' \in Seq(Instructions) /\ modifications' \in Nat
         /\ After(log', Before) = Apply(Apply(Apply(After(log, Before), i), j), k)
<1>1. PICK one \in Seq(Instructions) : one = Append(log, i)
  BY AppendProperties
<1>2. one = log \o <<i>>
  BY <1>1, AppendIsConcat
<1>3. PICK two \in Seq(Instructions) : two = Append(one, j)
  BY AppendProperties
<1>4. two = one \o <<j>>
  BY <1>3, AppendIsConcat
<1>5. /\ <<i>> \in Seq(Instructions) /\ <<j>> \in Seq(Instructions) /\ <<k>> \in Seq(Instructions)
      /\ <<j, k>> \in Seq(Instructions) /\ <<j, k>> = <<j>> \o <<k>>
  <2>1. <<i>> \in Seq(Instructions)
    OBVIOUS
  <2>2. <<j>> \in Seq(Instructions)
    OBVIOUS
  <2>3. <<k>> \in Seq(Instructions)
    OBVIOUS
  <2>4. <<j, k>> \in Seq(Instructions)
    OBVIOUS
  <2>5. <<j, k>> = Append(<<j>>, k)
    OBVIOUS
  <2>6. Append(<<j>>, k) = <<j>> \o <<k>>
    BY <2>2, AppendIsConcat
  <2> QED
    BY <2>1, <2>2, <2>3, <2>4, <2>5, <2>6
<1>6. log' = one \o <<j, k>>
  BY <1>2, <1>5, ConcatAssociative DEF Log
<1>7. log' = two \o <<k>>
  <2>1. one \o (<<j>> \o <<k>>) = (one \o <<j>>) \o <<k>>
    BY <1>5, ConcatAssociative
  <2> QED
    BY <1>4, <1>5, <1>6, <2>1, Zenon
<1>8. log' = Append(two, k)
  BY <1>7, AppendIsConcat
<1>9. After(one, Before) = Apply(After(log, Before), i)
  BY <1>1, OneMoreApplied
<1>10. After(two, Before) = Apply(After(one, Before), j)
  BY <1>3, OneMoreApplied
<1>11. After(log', Before) = Apply(After(two, Before), k)
  BY <1>8, OneMoreApplied
<1>12. log' \in Seq(Instructions)
  BY <1>8, AppendProperties
<1>13. modifications' \in Nat
  BY DEF Log
<1> QED
  BY <1>9, <1>10, <1>11, <1>12, <1>13

LEMMA TableReached ==
  ASSUME LogInd, NEW t \in Tables, NEW instr \in Instructions, OnTable(t, instr)
  PROVE  \E place : Reaches(instr, t, place)
<1>1. PICK s : s = After(log, Before)
  OBVIOUS
<1>2. LogTypeOK /\ Selects(s)
  BY <1>1 DEF LogInd
<1>3. s = State(group, s.table, s.list) /\ group \in GroupSet /\ s.table \in Tables \union {0}
  BY <1>2 DEF LogTypeOK, Selects
<1>4. PICK select \in Instructions : select = Instr("SelectTable", t, 0)
  BY DEF Instr, Instructions, Operations
<1>5. log \in Seq(Instructions) /\ modifications \in Nat
  BY <1>2 DEF LogTypeOK
<1>6. t # 0
  BY TransactLogAssumption
<1>7. CASE cache.table = t
  <2>1. s = State(group, t, s.list)
    BY <1>2, <1>3, <1>6, <1>7 DEF Selects, CacheFollows
  <2>2. cache' = cache
    BY <1>7 DEF OnTable, TableSelected
  <2>3. SelectTable(t) \o <<instr>> = <<instr>>
    BY <1>7 DEF SelectTable
  <2>4. Log(<<instr>>)
    BY <2>3 DEF OnTable
  <2>5. cache' \in Caches /\ CacheFollows(cache', t, s.list)
    BY <1>2, <1>6, <1>7, <2>2 DEF CacheFollows, LogTypeOK, Selects
  <2>6. /\ log' \in Seq(Instructions) /\ modifications' \in Nat
        /\ After(log', Before) = Apply(s, instr)
    BY <1>1, <1>5, <2>4, LoggedOnce
  <2> QED
    BY <2>1, <2>5, <2>6 DEF Reaches
<1>8. CASE cache.table # t
  <2>1. cache' = [table |-> t, descriptor |-> 0, list |-> 0]
    BY <1>8 DEF OnTable, TableSelected, NoCache
  <2>2. Log(<<select>> \o <<instr>>)
    BY <1>4, <1>8 DEF OnTable, SelectTable
  <2>3. /\ log' \in Seq(Instructions) /\ modifications' \in Nat
        /\ After(log', Before) = Apply(Apply(s, select), instr)
    BY <1>1, <1>5, <2>2, LoggedTwice
  <2>4. Apply(s, select) = State(group, t, None)
    BY <1>3, <1>4, ApplySelection
  <2>5. cache' \in Caches /\ CacheFollows(cache', t, None)
    BY <2>1 DEF CacheFollows, Caches
  <2> QED
    BY <2>3, <2>4, <2>5 DEF Reaches
<1> QED
  BY <1>7, <1>8

LEMMA DescriptorReached ==
  ASSUME LogInd, NEW t \in Tables, NEW instr \in Instructions, OnDescriptor(t, instr)
  PROVE  \E place : Reaches(instr, t, place)
<1>1. PICK s : s = After(log, Before)
  OBVIOUS
<1>2. LogTypeOK /\ Selects(s)
  BY <1>1 DEF LogInd
<1>3. s = State(group, s.table, s.list) /\ group \in GroupSet /\ s.table \in Tables \union {0}
  BY <1>2 DEF LogTypeOK, Selects
<1>4. PICK select \in Instructions : select = Instr("SelectTable", t, 0)
  BY DEF Instr, Instructions, Operations
<1>5. PICK descend \in Instructions : descend = Instr("SelectDescriptor", 0, 0)
  BY DEF Instr, Instructions, Operations
<1>6. log \in Seq(Instructions) /\ modifications \in Nat
  BY <1>2 DEF LogTypeOK
<1>7. t # 0
  BY TransactLogAssumption
<1>8. CASE cache.descriptor = t
  <2>1. cache.table = t /\ s = State(group, t, s.list)
    BY <1>2, <1>3, <1>7, <1>8 DEF Selects, CacheFollows
  <2>2. cache' = cache /\ Log(<<instr>>)
    BY <1>8 DEF OnDescriptor
  <2>3. cache' \in Caches /\ CacheFollows(cache', t, s.list)
    BY <1>2, <1>7, <1>8, <2>1, <2>2 DEF CacheFollows, LogTypeOK, Selects
  <2>4. /\ log' \in Seq(Instructions) /\ modifications' \in Nat
        /\ After(log', Before) = Apply(s, instr)
    BY <1>1, <1>6, <2>2, LoggedOnce
  <2> QED
    BY <2>1, <2>3, <2>4 DEF Reaches
<1>9. CASE cache.descriptor # t
  <2>1. cache' = [table |-> t, descriptor |-> t, list |-> 0]
    BY <1>9 DEF OnDescriptor
  <2>2. cache' \in Caches /\ \A place : CacheFollows(cache', t, place)
    BY <2>1 DEF CacheFollows, Caches
  <2>3. Log(SelectTable(t) \o <<descend, instr>>)
    BY <1>5, <1>9 DEF OnDescriptor
  <2>4. CASE cache.table = t
    <3>1. s = State(group, t, s.list)
      BY <1>2, <1>3, <1>7, <2>4 DEF Selects, CacheFollows
    <3>2. SelectTable(t) \o <<descend, instr>> = <<descend>> \o <<instr>>
      BY <2>4 DEF SelectTable
    <3>3. Log(<<descend>> \o <<instr>>)
      BY <2>3, <3>2
    <3>4. /\ log' \in Seq(Instructions) /\ modifications' \in Nat
          /\ After(log', Before) = Apply(Apply(s, descend), instr)
      BY <1>1, <1>6, <3>3, LoggedTwice
    <3>5. Apply(s, descend) = State(group, t, s.list)
      BY <1>3, <1>5, <3>1, ApplySelection
    <3> QED
      BY <2>2, <3>4, <3>5 DEF Reaches
  <2>5. CASE cache.table # t
    <3>1. Log(<<select>> \o <<descend, instr>>)
      BY <1>4, <2>3, <2>5 DEF SelectTable
    <3>2. /\ log' \in Seq(Instructions) /\ modifications' \in Nat
          /\ After(log', Before) = Apply(Apply(Apply(s, select), descend), instr)
      BY <1>1, <1>6, <3>1, LoggedThrice
    <3>3. Apply(s, select) = State(group, t, None)
      BY <1>3, <1>4, ApplySelection
    <3>4. Apply(State(group, t, None), descend) = State(group, t, None)
      BY <1>3, <1>5, ApplySelection
    <3> QED
      BY <2>2, <3>2, <3>3, <3>4 DEF Reaches
  <2> QED
    BY <2>4, <2>5
<1> QED
  BY <1>8, <1>9

(* The column of lists is found where it is. *)
LEMMA ListColumnFound ==
  ASSUME LogTypeOK, ListColumns, NEW t \in Tables
  PROVE  PlaceOf(t, Links) \in DOMAIN group[t].columns /\ group[t].columns[PlaceOf(t, Links)] = Links
<1>1. PICK s \in Seq(Nat) : s = group[t].columns
  BY DEF LogTypeOK, GroupSet
<1>2. PICK I : I = {c \in 1 .. Len(s) : s[c] = Links}
  OBVIOUS
<1>3. I \subseteq Nat /\ I # {}
  BY <1>1, <1>2 DEF ListColumns, Columned
<1>4. PlaceOf(t, Links) = Min(I)
  BY <1>1, <1>2, <1>3 DEF PlaceOf, SelectInSeq
<1>5. Min(I) \in I
  BY <1>3, Smallest
<1> QED
  BY <1>1, <1>2, <1>4, <1>5

LEMMA ListReached ==
  ASSUME LogInd, NEW a \in Addresses, Attached(view[a]), NEW instr \in Instructions,
         OnList(a, instr)
  PROVE  \E t \in Tables \union {0} : Reaches(instr, t, view[a]) /\ cache'.list = a
<1>1. PICK s : s = After(log, Before)
  OBVIOUS
<1>2. LogTypeOK /\ Selects(s) /\ ListColumns /\ RowsThere
  BY <1>1 DEF LogInd
<1>3. s = State(group, s.table, s.list) /\ group \in GroupSet /\ s.table \in Tables \union {0}
  BY <1>2 DEF LogTypeOK, Selects
<1>4. log \in Seq(Instructions) /\ modifications \in Nat /\ a # 0
  BY <1>2, TransactLogAssumption DEF LogTypeOK
<1>5. PICK t \in Tables, r \in Nat : view[a] = <<t, r>>
  BY <1>2 DEF LogTypeOK, Attached
<1>6. r \in 1 .. Len(group[t].rows)
  BY <1>2, <1>5 DEF RowsThere, Count
<1>7. r \in DOMAIN group[t].rows
  BY <1>2, <1>5, <1>6 DEF LogTypeOK, GroupSet
<1>8. PICK c \in Nat : /\ c = PlaceOf(t, Links)
                       /\ c \in DOMAIN group[t].columns /\ group[t].columns[c] = Links
  BY <1>2, ListColumnFound DEF LogTypeOK, GroupSet
<1>9. PICK select \in Instructions : select = Instr("SelectTable", t, 0)
  BY DEF Instr, Instructions, Operations
<1>10. PICK choose \in Instructions : choose = Instr("SelectList", c, r)
  BY DEF Instr, Instructions, Operations
<1>11. view[a] # None
  BY DEF Attached
<1>12. CASE cache.list = a
  <2>1. cache' = cache /\ Log(<<instr>>)
    BY <1>12 DEF OnList
  <2>2. s.list = view[a]
    BY <1>2, <1>4, <1>12 DEF Selects, CacheFollows
  <2>3. /\ log' \in Seq(Instructions) /\ modifications' \in Nat
        /\ After(log', Before) = Apply(s, instr)
    BY <1>1, <1>4, <2>1, LoggedOnce
  <2>4. s = State(group, s.table, view[a]) /\ CacheFollows(cache', s.table, view[a])
    BY <1>2, <1>3, <1>11, <2>1, <2>2 DEF Selects, CacheFollows
  <2>5. Reaches(instr, s.table, view[a]) /\ cache'.list = a
    BY <1>2, <1>12, <2>1, <2>3, <2>4 DEF Reaches, LogTypeOK
  <2> QED
    BY <1>3, <2>5
<1>13. CASE cache.list # a
  <2>1. cache' = [TableSelected(t) EXCEPT !.list = a]
    BY <1>5, <1>13 DEF OnList
  <2>2. cache' \in Caches /\ CacheFollows(cache', t, view[a]) /\ cache'.list = a
    <3>1. CASE cache.table = t
      <4>1. cache' = [cache EXCEPT !.list = a]
        BY <2>1, <3>1 DEF TableSelected
      <4> QED
        BY <1>2, <1>11, <3>1, <4>1 DEF LogTypeOK, CacheFollows, Selects, Caches
    <3>2. CASE cache.table # t
      <4>1. cache' = [table |-> t, descriptor |-> 0, list |-> a]
        BY <2>1, <3>2 DEF TableSelected, NoCache
      <4> QED
        BY <1>11, <4>1 DEF CacheFollows, Caches
    <3> QED
      BY <3>1, <3>2
  <2>3. Log(SelectTable(t) \o <<choose, instr>>)
    BY <1>5, <1>8, <1>10, <1>13 DEF OnList
  <2>4. \A q : Apply(State(group, t, q), choose) = State(group, t, view[a])
    BY <1>3, <1>5, <1>7, <1>8, <1>10, ApplySelection
  <2>5. CASE cache.table = t
    <3>1. t # 0
      BY TransactLogAssumption
    <3>2. s = State(group, t, s.list)
      BY <1>2, <1>3, <2>5, <3>1 DEF Selects, CacheFollows
    <3>3. SelectTable(t) \o <<choose, instr>> = <<choose>> \o <<instr>>
      BY <2>5 DEF SelectTable
    <3>4. Log(<<choose>> \o <<instr>>)
      BY <2>3, <3>3
    <3>5. /\ log' \in Seq(Instructions) /\ modifications' \in Nat
          /\ After(log', Before) = Apply(Apply(s, choose), instr)
      BY <1>1, <1>4, <3>4, LoggedTwice
    <3>6. Apply(s, choose) = State(group, t, view[a])
      BY <2>4, <3>2
    <3> QED
      BY <2>2, <3>5, <3>6 DEF Reaches
  <2>6. CASE cache.table # t
    <3>1. Log(<<select>> \o <<choose, instr>>)
      BY <1>9, <2>3, <2>6 DEF SelectTable
    <3>2. /\ log' \in Seq(Instructions) /\ modifications' \in Nat
          /\ After(log', Before) = Apply(Apply(Apply(s, select), choose), instr)
      BY <1>1, <1>4, <3>1, LoggedThrice
    <3>3. Apply(s, select) = State(group, t, None)
      BY <1>3, <1>9, ApplySelection
    <3>4. Apply(State(group, t, None), choose) = State(group, t, view[a])
      BY <2>4
    <3> QED
      BY <2>2, <3>2, <3>3, <3>4 DEF Reaches
  <2> QED
    BY <2>5, <2>6
<1> QED
  BY <1>12, <1>13

-----------------------------------------------------------------------------
(* Sequences of rows and of columns. *)
HasAll(new, old) == \A k \in DOMAIN old : \E l \in DOMAIN new : new[l] = old[k]
HasOthers(new, old, c) ==
  \A k \in DOMAIN old : k # c => \E l \in DOMAIN new : new[l] = old[k]

LEMMA RowsErased ==
  ASSUME NEW S, NEW rows \in Seq(S), NEW i \in 1 .. Len(rows)
  PROVE  EraseUnordered(rows, i) \in Seq(S) /\ Len(EraseUnordered(rows, i)) = Len(rows) - 1
<1>1. PICK l \in Nat : l = Len(rows)
  OBVIOUS
<1>2. i \in Nat /\ 1 <= i /\ i <= l /\ rows[l] \in S
  BY <1>1
<1>7. PICK front : front = SubSeq(rows, 1, l - 1)
  OBVIOUS
<1>8. front = Front(rows)
  BY <1>1, <1>7 DEF Front
<1>3. front \in Seq(S) /\ Len(front) = l - 1
  <2>1. \A k \in 1 .. (l - 1) : rows[k] \in S
    BY <1>1
  <2>3. 1 \in Int /\ l - 1 \in Int
    BY <1>2
  <2>2. /\ front \in Seq(S)
        /\ Len(front) = IF 1 <= l - 1 THEN (l - 1) - 1 + 1 ELSE 0
    BY <1>7, <2>1, <2>3, SubSeqProperties
  <2> QED
    BY <1>2, <2>2
<1>4. CASE i = l
  BY <1>1, <1>3, <1>4, <1>8 DEF EraseUnordered
<1>5. CASE i # l
  <2>1. i \in 1 .. Len(front)
    BY <1>2, <1>3, <1>5
  <2>2. EraseUnordered(rows, i) = [front EXCEPT ![i] = rows[l]]
    BY <1>1, <1>5, <1>8 DEF EraseUnordered, Last
  <2> QED
    BY <1>1, <1>2, <1>3, <2>1, <2>2, ExceptSeq
<1> QED
  BY <1>4, <1>5

LEMMA ColumnInserted ==
  ASSUME NEW S, NEW columns \in Seq(S), NEW c \in 1 .. Len(columns) + 1, NEW e \in S
  PROVE  InsertAt(columns, c, e) \in Seq(S) /\ HasAll(InsertAt(columns, c, e), columns)
<1>1. PICK all \in Seq(S) : all = InsertAt(columns, c, e)
  BY OneMore
<1>2. HasOneMore(all, columns, c, e)
  BY <1>1, OneMore
<1>3. DOMAIN all = 1 .. Len(all) /\ DOMAIN columns = 1 .. Len(columns)
  OBVIOUS
<1>4. ASSUME NEW k \in 1 .. Len(columns) PROVE \E l \in 1 .. Len(all) : all[l] = columns[k]
  <2>1. PICK l : l = IF k < c THEN k ELSE k + 1
    OBVIOUS
  <2>2. l \in 1 .. Len(all)
    BY <1>2, <2>1 DEF HasOneMore
  <2>3. all[l] = columns[k]
    BY <1>2, <2>1 DEF HasOneMore
  <2> QED
    BY <2>2, <2>3
<1> QED
  BY <1>1, <1>3, <1>4 DEF HasAll

LEMMA ColumnRemoved ==
  ASSUME NEW S, NEW columns \in Seq(S), NEW c \in 1 .. Len(columns)
  PROVE  RemoveAt(columns, c) \in Seq(S) /\ HasOthers(RemoveAt(columns, c), columns, c)
<1>1. PICK all \in Seq(S) : all = RemoveAt(columns, c)
  BY OneLess
<1>2. HasOneLess(all, columns, c)
  BY <1>1, OneLess
<1>3. DOMAIN all = 1 .. Len(all) /\ DOMAIN columns = 1 .. Len(columns)
  OBVIOUS
<1>4. ASSUME NEW k \in 1 .. Len(columns), k # c
      PROVE  \E l \in 1 .. Len(all) : all[l] = columns[k]
  <2>1. PICK l : l = IF k < c THEN k ELSE k - 1
    OBVIOUS
  <2>2. l \in 1 .. Len(all) /\ (IF l < c THEN l = k ELSE l + 1 = k)
    BY <1>2, <1>4, <2>1, LenProperties DEF HasOneLess
  <2>3. all[l] = columns[k]
    BY <1>2, <2>2 DEF HasOneLess
  <2> QED
    BY <2>2, <2>3
<1> QED
  BY <1>1, <1>3, <1>4 DEF HasOthers

-----------------------------------------------------------------------------
(* Groups with other rows, or other columns. *)
RowsAre(g, h, t, rows) ==
  /\ h \in GroupSet /\ Columned(h) /\ h[t].rows = rows
  /\ \A u \in Tables : u # t => h[u].rows = g[u].rows

LEMMA RowsReplaced ==
  ASSUME NEW g \in GroupSet, Columned(g), NEW t \in Tables, NEW rows \in Seq(RowRecords)
  PROVE  RowsAre(g, WithRows(g, t, rows), t, rows)
<1> DEFINE h == WithRows(g, t, rows)
<1>1. /\ h[t].rows = rows /\ h[t].columns = g[t].columns
      /\ \A u \in Tables : u # t => h[u] = g[u]
  BY DEF GroupSet, WithRows
<1>2. h \in GroupSet
  BY DEF GroupSet, WithRows
<1>3. \A u \in Tables : h[u].columns = g[u].columns
  BY <1>1
<1>4. Columned(h)
  BY <1>3 DEF Columned
<1> QED
  BY <1>1, <1>2, <1>4 DEF RowsAre

WithColumns(g, t, columns) == [g EXCEPT ![t].columns = columns]

LEMMA ColumnsReplaced ==
  ASSUME NEW g \in GroupSet, Columned(g), NEW t \in Tables, NEW columns \in Seq(Nat), NEW h,
         h = WithColumns(g, t, columns),
         \E c \in DOMAIN columns : columns[c] = Links
  PROVE  h \in GroupSet /\ Columned(h) /\ \A u \in Tables : h[u].rows = g[u].rows
<1>1. /\ h[t].rows = g[t].rows /\ h[t].columns = columns
      /\ \A u \in Tables : u # t => h[u] = g[u]
  BY DEF GroupSet, WithColumns
<1>2. h \in GroupSet
  BY DEF GroupSet, WithColumns
<1>3. Columned(h)
  BY <1>1 DEF Columned
<1> QED
  BY <1>1, <1>2, <1>3

-----------------------------------------------------------------------------
(* The cache follows whatever the accessors, and the list selected, follow.  *)
StillThere(place, after) ==
  \A b \in Addresses : view[b] # None /\ place = view[b] => view'[b] # None /\ after = view'[b]

LEMMA CacheStillFollows ==
  ASSUME NEW c \in Caches, NEW t, NEW place, NEW after,
         CacheFollows(c, t, place), StillThere(place, after)
  PROVE  /\ c.table # 0 => t = c.table
         /\ c.descriptor # 0 => c.table = c.descriptor
         /\ c.list # 0 => view'[c.list] # None /\ after = view'[c.list]
BY DEF Caches, CacheFollows, StillThere

LEMMA Selected ==
  ASSUME NEW instr, NEW t \in Tables \union {0}, NEW place, NEW after,
         Reaches(instr, t, place), StillThere(place, after),
         Apply(State(group, t, place), instr) = State(group', t, after)
  PROVE  Selects(After(log, Before))'
<1>1. After(log', Before) = State(group', t, after)
  BY DEF Reaches
<1>2. cache' \in Caches /\ CacheFollows(cache', t, place)
  BY DEF Reaches
<1>3. /\ cache'.table # 0 => t = cache'.table
      /\ cache'.descriptor # 0 => cache'.table = cache'.descriptor
      /\ cache'.list # 0 => view'[cache'.list] # None /\ after = view'[cache'.list]
  BY <1>2, CacheStillFollows
<1>4. PICK s : s = After(log', Before)
  OBVIOUS
<1>5. s = State(group', s.table, s.list) /\ s.table = t /\ s.list = after
  BY <1>1, <1>4 DEF State
<1> QED
  BY <1>3, <1>4, <1>5 DEF Selects, CacheFollows

LEMMA NothingMoved ==
  ASSUME view' = view, NEW place
  PROVE  StillThere(place, place)
BY DEF StillThere

(* What a step leaves to show once its instruction is known to be reached.   *)
LEMMA LogStep ==
  ASSUME LogInd, NEW instr, NEW t \in Tables \union {0}, NEW place, NEW after,
         Reaches(instr, t, place), StillThere(place, after),
         Apply(State(group, t, place), instr) = State(group', t, after),
         group' \in GroupSet, Columned(group'),
         view' \in [Addresses -> (Tables \X Nat) \union {None, Detached}], RowsThere'
  PROVE  LogInd'
<1>1. Selects(After(log, Before))'
  BY Selected
<1>2. LogTypeOK'
  BY DEF LogTypeOK, Reaches
<1>3. ListColumns'
  BY DEF ListColumns
<1> QED
  BY <1>1, <1>2, <1>3 DEF LogInd

LEMMA RowsStillThere ==
  ASSUME LogInd, view' = view, \A t \in Tables : Len(group[t].rows) <= Len(group'[t].rows),
         group' \in GroupSet
  PROVE  RowsThere'
<1> SUFFICES ASSUME NEW a \in Addresses, Attached(view[a])
             PROVE  view[a][2] \in 1 .. Len(group'[view[a][1]].rows)
  BY DEF RowsThere, Count
<1>1. PICK t \in Tables, r \in Nat : view[a] = <<t, r>>
  BY DEF LogInd, LogTypeOK, Attached
<1>2. r \in 1 .. Len(group[t].rows)
  BY <1>1 DEF LogInd, RowsThere, Count
<1>3. PICK rows \in Seq(RowRecords) : rows = group'[t].rows
  BY DEF GroupSet
<1>4. PICK old \in Seq(RowRecords) : old = group[t].rows
  BY DEF LogInd, LogTypeOK, GroupSet
<1>5. Len(old) <= Len(rows) /\ r \in 1 .. Len(old)
  BY <1>2, <1>3, <1>4
<1>6. r \in 1 .. Len(rows)
  BY <1>5
<1> QED
  BY <1>1, <1>3, <1>6

-----------------------------------------------------------------------------
(* One lemma for each modification.                                          *)
LEMMA GroupFacts ==
  ASSUME LogInd
  PROVE  /\ group \in GroupSet /\ Columned(group)
         /\ \A t \in Tables : group[t].rows \in Seq(RowRecords) /\ group[t].columns \in Seq(Nat)
         /\ view \in [Addresses -> (Tables \X Nat) \union {None, Detached}]
BY DEF LogInd, LogTypeOK, GroupSet, ListColumns

LEMMA InstructionsLogged ==
  /\ \A op \in {"Set", "InsertRow", "EraseRow", "Clear", "InsertColumn", "EraseColumn",
                "ListInsert", "ListErase", "ListClear"} :
       \A a, b \in Nat : Instr(op, a, b) \in Instructions
BY DEF Instr, Instructions, Operations

LEMMA SetValueStep ==
  ASSUME LogInd, NEW t \in Tables, NEW i, SetValue(t, i)
  PROVE  LogInd'
<1>1. PICK rows \in Seq(RowRecords) : rows = group[t].rows
  BY GroupFacts
<1>2. i \in 1 .. Len(rows) /\ i \in Nat
  BY <1>1 DEF SetValue, Count
<1>3. PICK set : set = [rows[i] EXCEPT !.value = 1]
  OBVIOUS
<1>4. set \in RowRecords
  <2>1. rows[i] \in RowRecords
    BY <1>2
  <2> QED
    BY <1>3, <2>1 DEF RowRecords
<1>5. PICK new : new = [rows EXCEPT ![i] = set]
  OBVIOUS
<1>6. new \in Seq(RowRecords) /\ Len(new) = Len(rows)
  BY <1>2, <1>4, <1>5, ExceptSeq
<1>7. group' = WithRows(group, t, new)
  <2>1. group' = [group EXCEPT ![t].rows[i].value = 1]
    BY DEF SetValue
  <2> QED
    BY <1>1, <1>3, <1>5, <2>1 DEF WithRows
<1>8. /\ group' \in GroupSet /\ Columned(group') /\ group'[t].rows = new
      /\ \A u \in Tables : u # t => group'[u].rows = group[u].rows
  <2>1. group \in GroupSet /\ Columned(group)
    BY GroupFacts
  <2>2. RowsAre(group, WithRows(group, t, new), t, new)
    BY <1>6, <2>1, RowsReplaced
  <2> QED
    BY <1>7, <2>2 DEF RowsAre
<1>9. view' = view
  BY DEF SetValue
<1>10. RowsThere'
  <2>1. \A u \in Tables : Len(group[u].rows) <= Len(group'[u].rows)
    <3> SUFFICES ASSUME NEW u \in Tables PROVE Len(group[u].rows) <= Len(group'[u].rows)
      OBVIOUS
    <3>1. Len(group[u].rows) \in Nat /\ Len(group'[u].rows) = Len(group[u].rows)
      BY <1>1, <1>6, <1>8, GroupFacts
    <3> QED
      BY <3>1
  <2> QED
    BY <1>8, <1>9, <2>1, RowsStillThere
<1>11. PICK instr \in Instructions : instr = Instr("Set", i, 1)
  BY <1>2, InstructionsLogged
<1>12. OnTable(t, instr)
  BY <1>11 DEF SetValue
<1>13. PICK place : Reaches(instr, t, place)
  BY <1>12, TableReached
<1>14. Apply(State(group, t, place), instr) = State(group', t, place)
  <2>1. Apply(State(group, t, place), Instr("Set", i, 1))
          = State([group EXCEPT ![t].rows[i].value = 1], t, place)
    <3>1. group \in GroupSet /\ i \in 1 .. Len(group[t].rows)
      BY <1>1, <1>2, GroupFacts
    <3> QED
      BY <3>1, ApplySet
  <2> QED
    BY <1>11, <2>1 DEF SetValue
<1> QED
  BY <1>8, <1>9, <1>10, <1>13, <1>14, GroupFacts, LogStep, NothingMoved

LEMMA InsertRowStep ==
  ASSUME LogInd, NEW t \in Tables, InsertRow(t)
  PROVE  LogInd'
<1>1. PICK rows \in Seq(RowRecords) : rows = group[t].rows
  BY GroupFacts
<1>2. NewRow \in RowRecords
  BY DEF NewRow, RowRecords
<1>3. PICK new : new = Append(rows, NewRow)
  OBVIOUS
<1>4. new \in Seq(RowRecords) /\ Len(new) = Len(rows) + 1
  BY <1>2, <1>3, AppendProperties
<1>5. group' = WithRows(group, t, new)
  BY <1>1, <1>3 DEF InsertRow, WithRows
<1>6. /\ group' \in GroupSet /\ Columned(group') /\ group'[t].rows = new
      /\ \A u \in Tables : u # t => group'[u].rows = group[u].rows
  <2>1. group \in GroupSet /\ Columned(group)
    BY GroupFacts
  <2>2. RowsAre(group, WithRows(group, t, new), t, new)
    BY <1>4, <2>1, RowsReplaced
  <2> QED
    BY <1>5, <2>2 DEF RowsAre
<1>7. view' = view
  BY DEF InsertRow
<1>8. RowsThere'
  <2>1. \A u \in Tables : Len(group[u].rows) <= Len(group'[u].rows)
    <3> SUFFICES ASSUME NEW u \in Tables PROVE Len(group[u].rows) <= Len(group'[u].rows)
      OBVIOUS
    <3>1. Len(group[u].rows) \in Nat
      BY GroupFacts
    <3>2. CASE u = t
      BY <1>1, <1>4, <1>6, <3>1, <3>2
    <3>3. CASE u # t
      BY <1>6, <3>1, <3>3
    <3> QED
      BY <3>2, <3>3
  <2> QED
    BY <1>6, <1>7, <2>1, RowsStillThere
<1>9. PICK n \in Nat : n = Count(t)
  BY <1>1 DEF Count
<1>10. PICK instr \in Instructions : instr = Instr("InsertRow", n + 1, n)
  BY InstructionsLogged
<1>11. OnTable(t, instr)
  BY <1>9, <1>10 DEF InsertRow
<1>12. PICK place : Reaches(instr, t, place)
  BY <1>11, TableReached
<1>13. Apply(State(group, t, place), instr) = State(group', t, place)
  <2>1. Apply(State(group, t, place), instr) = State(WithRows(group, t, new), t, place)
    BY <1>1, <1>3, <1>10, GroupFacts, ApplyInsertRow
  <2> QED
    BY <1>5, <2>1
<1> QED
  BY <1>6, <1>7, <1>8, <1>12, <1>13, GroupFacts, LogStep, NothingMoved

LEMMA EraseRowStep ==
  ASSUME LogInd, NEW t \in Tables, NEW i, EraseRow(t, i)
  PROVE  LogInd'
<1>1. PICK rows \in Seq(RowRecords) : rows = group[t].rows
  BY GroupFacts
<1>2. PICK n \in Nat : n = Len(rows)
  OBVIOUS
<1>3. i \in 1 .. n /\ Count(t) = n
  BY <1>1, <1>2 DEF EraseRow, Count
<1>4. PICK new \in Seq(RowRecords) : new = EraseUnordered(rows, i) /\ Len(new) = n - 1
  BY <1>2, <1>3, RowsErased
<1>5. group' = WithRows(group, t, new)
  BY <1>1, <1>4 DEF EraseRow, WithRows
<1>6. /\ group' \in GroupSet /\ Columned(group') /\ group'[t].rows = new
      /\ \A u \in Tables : u # t => group'[u].rows = group[u].rows
  <2>1. group \in GroupSet /\ Columned(group)
    BY GroupFacts
  <2>2. RowsAre(group, WithRows(group, t, new), t, new)
    BY <2>1, RowsReplaced
  <2> QED
    BY <1>5, <2>2 DEF RowsAre
<1>7. view' = [a \in Addresses |-> AfterErase(view[a], t, i, n)]
  BY <1>3 DEF EraseRow
<1>8. t # 0 /\ i # 0 /\ n # 0
  BY <1>3, TransactLogAssumption
<1>9. view' \in [Addresses -> (Tables \X Nat) \union {None, Detached}]
  <2> SUFFICES ASSUME NEW a \in Addresses
               PROVE  AfterErase(view[a], t, i, n) \in (Tables \X Nat) \union {None, Detached}
    BY <1>7
  <2>1. view[a] \in (Tables \X Nat) \union {None, Detached} /\ <<t, i>> \in Tables \X Nat
    BY <1>3, GroupFacts
  <2> QED
    BY <2>1 DEF AfterErase
<1>10. RowsThere'
  <2> SUFFICES ASSUME NEW a \in Addresses, Attached(view'[a])
               PROVE  view'[a][2] \in 1 .. Len(group'[view'[a][1]].rows)
    BY DEF RowsThere, Count
  <2>1. view'[a] = AfterErase(view[a], t, i, n) /\ Attached(AfterErase(view[a], t, i, n))
    BY <1>7
  <2>2. view[a] # <<t, i>>
    BY <2>1 DEF AfterErase, Attached
  <2>3. CASE view[a] = <<t, n>>
    <3>1. view'[a] = <<t, i>> /\ i # n
      BY <2>1, <2>2, <2>3 DEF AfterErase
    <3> QED
      BY <1>3, <1>4, <1>6, <3>1
  <2>4. CASE view[a] # <<t, n>>
    <3>1. view'[a] = view[a] /\ Attached(view[a])
      BY <2>1, <2>2, <2>4 DEF AfterErase
    <3>2. PICK u \in Tables, r \in Nat : view[a] = <<u, r>>
      BY <3>1, GroupFacts DEF Attached
    <3>3. r \in 1 .. Len(group[u].rows)
      BY <3>1, <3>2, SMTT(30) DEF LogInd, RowsThere, Count
    <3>4. CASE u = t
      <4>1. r \in 1 .. n /\ r # n
        BY <1>1, <1>2, <2>4, <3>2, <3>3, <3>4
      <4> QED
        BY <1>4, <1>6, <3>1, <3>2, <3>4, <4>1
    <3>5. CASE u # t
      BY <1>6, <3>1, <3>2, <3>3, <3>5
    <3> QED
      BY <3>4, <3>5
  <2> QED
    BY <2>3, <2>4
<1>11. PICK instr \in Instructions : instr = Instr("EraseRow", i, n)
  BY <1>3, InstructionsLogged
<1>12. OnTable(t, instr)
  BY <1>3, <1>11 DEF EraseRow
<1>13. PICK place : Reaches(instr, t, place)
  BY <1>12, TableReached
<1>14. PICK after : after = AfterErase(place, t, i, n)
  OBVIOUS
<1>15. StillThere(place, after)
  <2> SUFFICES ASSUME NEW b \in Addresses, view[b] # None, place = view[b]
               PROVE  view'[b] # None /\ after = view'[b]
    BY DEF StillThere
  <2>1. view'[b] = AfterErase(view[b], t, i, n)
    BY <1>7
  <2>2. AfterErase(view[b], t, i, n) # None
    BY <1>8 DEF AfterErase, None, Detached
  <2> QED
    BY <1>14, <2>1, <2>2
<1>16. Apply(State(group, t, place), instr) = State(group', t, after)
  <2>1. Apply(State(group, t, place), instr) = State(WithRows(group, t, new), t, after)
    BY <1>1, <1>2, <1>4, <1>11, <1>14, GroupFacts, ApplyEraseRow
  <2> QED
    BY <1>5, <2>1
<1> QED
  BY <1>6, <1>9, <1>10, <1>13, <1>15, <1>16, LogStep

LEMMA ClearTableStep ==
  ASSUME LogInd, NEW t \in Tables, ClearTable(t)
  PROVE  LogInd'
<1>1. PICK new \in Seq(RowRecords) : new = <<>>
  BY EmptySeq
<1>2. group' = WithRows(group, t, new)
  BY <1>1 DEF ClearTable, WithRows
<1>3. /\ group' \in GroupSet /\ Columned(group') /\ group'[t].rows = new
      /\ \A u \in Tables : u # t => group'[u].rows = group[u].rows
  <2>1. group \in GroupSet /\ Columned(group)
    BY GroupFacts
  <2>2. RowsAre(group, WithRows(group, t, new), t, new)
    BY <2>1, RowsReplaced
  <2> QED
    BY <1>2, <2>2 DEF RowsAre
<1>4. view' = [a \in Addresses |-> IF view[a][1] = t THEN Detached ELSE view[a]]
  BY DEF ClearTable
<1>5. view' \in [Addresses -> (Tables \X Nat) \union {None, Detached}]
  BY <1>4, GroupFacts
<1>6. RowsThere'
  <2> SUFFICES ASSUME NEW a \in Addresses, Attached(view'[a])
               PROVE  view'[a][2] \in 1 .. Len(group'[view'[a][1]].rows)
    BY DEF RowsThere, Count
  <2>1. view'[a] = view[a] /\ view[a][1] # t /\ Attached(view[a])
    BY <1>4 DEF Attached
  <2>2. PICK u \in Tables, r \in Nat : view[a] = <<u, r>>
    BY <2>1, GroupFacts DEF Attached
  <2>3. r \in 1 .. Len(group[u].rows) /\ u # t
    BY <2>1, <2>2 DEF LogInd, RowsThere, Count
  <2> QED
    BY <1>3, <2>1, <2>2, <2>3
<1>7. PICK instr \in Instructions : instr = Instr("Clear", 0, 0)
  BY InstructionsLogged
<1>8. OnTable(t, instr)
  BY <1>7 DEF ClearTable
<1>9. PICK place : Reaches(instr, t, place)
  BY <1>8, TableReached
<1>10. PICK after : after = IF place[1] = t THEN Detached ELSE place
  OBVIOUS
<1>11. StillThere(place, after)
  <2> SUFFICES ASSUME NEW b \in Addresses, view[b] # None, place = view[b]
               PROVE  view'[b] # None /\ after = view'[b]
    BY DEF StillThere
  <2>1. view'[b] = IF view[b][1] = t THEN Detached ELSE view[b]
    BY <1>4
  <2>2. Detached # None
    BY DEF Detached, None
  <2> QED
    BY <1>10, <2>1, <2>2
<1>12. Apply(State(group, t, place), instr) = State(group', t, after)
  <2>1. Apply(State(group, t, place), instr) = State(WithRows(group, t, new), t, after)
    BY <1>1, <1>7, <1>10, GroupFacts, ApplyClear
  <2> QED
    BY <1>2, <2>1
<1> QED
  BY <1>3, <1>5, <1>6, <1>9, <1>11, <1>12, LogStep

(* No row moves when a column does.                                          *)
LEMMA ColumnStep ==
  ASSUME LogInd, NEW t \in Tables, NEW columns \in Seq(Nat), NEW instr \in Instructions,
         \E k \in DOMAIN columns : columns[k] = Links,
         group' = WithColumns(group, t, columns), view' = view,
         \A place : Apply(State(group, t, place), instr) = State(group', t, place),
         OnDescriptor(t, instr)
  PROVE  LogInd'
<1>1. group \in GroupSet /\ Columned(group)
  BY GroupFacts
<1>2. /\ group' \in GroupSet /\ Columned(group')
      /\ \A u \in Tables : group'[u].rows = group[u].rows
  BY <1>1, ColumnsReplaced
<1>3. RowsThere'
  <2>1. \A u \in Tables : Len(group[u].rows) <= Len(group'[u].rows)
    <3> SUFFICES ASSUME NEW u \in Tables PROVE Len(group[u].rows) <= Len(group'[u].rows)
      OBVIOUS
    <3>1. Len(group[u].rows) \in Nat /\ Len(group'[u].rows) = Len(group[u].rows)
      BY <1>2, GroupFacts
    <3> QED
      BY <3>1
  <2> QED
    BY <1>2, <2>1, RowsStillThere
<1>4. PICK place : Reaches(instr, t, place)
  BY DescriptorReached
<1> QED
  BY <1>2, <1>3, <1>4, GroupFacts, LogStep, NothingMoved

LEMMA InsertColumnStep ==
  ASSUME LogInd, NEW t \in Tables, NEW c, InsertColumn(t, c)
  PROVE  LogInd'
<1>1. PICK old \in Seq(Nat) : old = group[t].columns
  BY GroupFacts
<1>2. c \in 1 .. Len(old) + 1 /\ c \in Nat
  BY <1>1 DEF InsertColumn
<1>3. PICK columns : columns = InsertAt(old, c, 0)
  OBVIOUS
<1>4. columns \in Seq(Nat) /\ HasAll(columns, old)
  BY <1>2, <1>3, ColumnInserted
<1>5. \E k \in DOMAIN columns : columns[k] = Links
  BY <1>1, <1>4, GroupFacts DEF Columned, HasAll
<1>6. group' = WithColumns(group, t, columns)
  BY <1>1, <1>3 DEF InsertColumn, WithColumns
<1>7. PICK instr \in Instructions : instr = Instr("InsertColumn", c, 0)
  BY <1>2, InstructionsLogged
<1>8. OnDescriptor(t, instr) /\ view' = view
  BY <1>7 DEF InsertColumn
<1>9. ASSUME NEW place PROVE Apply(State(group, t, place), instr) = State(group', t, place)
  <2>1. Apply(State(group, t, place), instr)
          = State([group EXCEPT ![t].columns = InsertAt(@, c, 0)], t, place)
    <3>1. group \in GroupSet
      BY GroupFacts
    <3>2. ColumnChanges(group, t, place, c)
      BY <3>1, ApplyColumn
    <3> QED
      BY <1>7, <3>2 DEF ColumnChanges
  <2> QED
    BY <2>1 DEF InsertColumn
<1> QED
  BY <1>4, <1>5, <1>6, <1>8, <1>9, ColumnStep

LEMMA EraseColumnStep ==
  ASSUME LogInd, NEW t \in Tables, NEW c, EraseColumn(t, c)
  PROVE  LogInd'
<1>1. PICK old \in Seq(Nat) : old = group[t].columns
  BY GroupFacts
<1>2. c \in 1 .. Len(old) /\ c \in Nat /\ old[c] # Links
  BY <1>1 DEF EraseColumn
<1>3. PICK columns : columns = RemoveAt(old, c)
  OBVIOUS
<1>4. columns \in Seq(Nat) /\ HasOthers(columns, old, c)
  BY <1>2, <1>3, ColumnRemoved
<1>5. \E k \in DOMAIN columns : columns[k] = Links
  <2>1. PICK k \in DOMAIN old : old[k] = Links
    BY <1>1, GroupFacts DEF Columned
  <2> QED
    BY <1>2, <1>4, <2>1 DEF HasOthers
<1>6. group' = WithColumns(group, t, columns)
  BY <1>1, <1>3 DEF EraseColumn, WithColumns
<1>7. PICK instr \in Instructions : instr = Instr("EraseColumn", c, 0)
  BY <1>2, InstructionsLogged
<1>8. OnDescriptor(t, instr) /\ view' = view
  BY <1>7 DEF EraseColumn
<1>9. ASSUME NEW place PROVE Apply(State(group, t, place), instr) = State(group', t, place)
  <2>1. Apply(State(group, t, place), instr)
          = State([group EXCEPT ![t].columns = RemoveAt(@, c)], t, place)
    <3>1. group \in GroupSet
      BY GroupFacts
    <3>2. ColumnChanges(group, t, place, c)
      BY <3>1, ApplyColumn
    <3> QED
      BY <1>7, <3>2 DEF ColumnChanges
  <2> QED
    BY <2>1 DEF EraseColumn
<1> QED
  BY <1>4, <1>5, <1>6, <1>8, <1>9, ColumnStep

(* Changing a list changes the links of the row it is of, and nothing else.  *)
LEMMA ListStep ==
  ASSUME LogInd, NEW a \in Addresses, Attached(view[a]), NEW links \in Nat,
         NEW instr \in Instructions, OnList(a, instr), view' = view,
         NEW u \in Tables, NEW r \in Nat, view[a] = <<u, r>>,
         group' = WithLinks(group, u, r, links),
         \A t : Apply(State(group, t, <<u, r>>), instr) = State(group', t, <<u, r>>)
  PROVE  LogInd'
<1>1. PICK rows \in Seq(RowRecords) : rows = group[u].rows
  BY GroupFacts
<1>2. r \in 1 .. Len(rows)
  <2>1. RowsThere
    BY DEF LogInd
  <2> QED
    BY <1>1, <2>1 DEF RowsThere, Count
<1>3. PICK changed : changed = [rows[r] EXCEPT !.links = links]
  OBVIOUS
<1>4. changed \in RowRecords
  <2>1. rows[r] \in RowRecords
    BY <1>2
  <2> QED
    BY <1>3, <2>1 DEF RowRecords
<1>5. PICK new : new = [rows EXCEPT ![r] = changed]
  OBVIOUS
<1>6. new \in Seq(RowRecords) /\ Len(new) = Len(rows)
  BY <1>2, <1>4, <1>5, ExceptSeq
<1>7. group' = WithRows(group, u, new)
  BY <1>1, <1>3, <1>5 DEF WithRows, WithLinks
<1>8. /\ group' \in GroupSet /\ Columned(group') /\ group'[u].rows = new
      /\ \A v \in Tables : v # u => group'[v].rows = group[v].rows
  <2>1. group \in GroupSet /\ Columned(group)
    BY GroupFacts
  <2>2. RowsAre(group, WithRows(group, u, new), u, new)
    BY <1>6, <2>1, RowsReplaced
  <2> QED
    BY <1>7, <2>2 DEF RowsAre
<1>9. RowsThere'
  <2>1. \A v \in Tables : Len(group[v].rows) <= Len(group'[v].rows)
    <3> SUFFICES ASSUME NEW v \in Tables PROVE Len(group[v].rows) <= Len(group'[v].rows)
      OBVIOUS
    <3>1. Len(group[v].rows) \in Nat /\ Len(group'[v].rows) = Len(group[v].rows)
      BY <1>1, <1>6, <1>8, GroupFacts
    <3> QED
      BY <3>1
  <2> QED
    BY <1>8, <2>1, RowsStillThere
<1>10. PICK t \in Tables \union {0} : Reaches(instr, t, view[a])
  BY ListReached
<1>11. Apply(State(group, t, view[a]), instr) = State(group', t, view[a])
  OBVIOUS
<1> QED
  BY <1>8, <1>9, <1>10, <1>11, GroupFacts, LogStep, NothingMoved

LEMMA AttachedPlace ==
  ASSUME LogInd, NEW a \in Addresses, Attached(view[a])
  PROVE  \E u \in Tables, r \in Nat :
           /\ view[a] = <<u, r>> /\ r \in 1 .. Len(group[u].rows)
           /\ group[u].rows[r].links \in Nat /\ LinksOf(a) = group[u].rows[r].links
<1>1. PICK u \in Tables, r \in Nat : view[a] = <<u, r>>
  BY GroupFacts DEF Attached
<1>2. r \in 1 .. Len(group[u].rows)
  BY <1>1 DEF LogInd, RowsThere, Count
<1>3. PICK rows \in Seq(RowRecords) : rows = group[u].rows
  BY GroupFacts
<1>4. rows[r] \in RowRecords
  BY <1>2, <1>3
<1>5. rows[r].links \in Nat
  BY <1>4 DEF RowRecords
<1> QED
  BY <1>1, <1>2, <1>3, <1>5 DEF LinksOf

LEMMA ListInsertStep ==
  ASSUME LogInd, NEW a \in Addresses, ListInsert(a)
  PROVE  LogInd'
<1>1. Attached(view[a]) /\ ChangeList(a, "ListInsert", LinksOf(a) + 1)
  BY DEF ListInsert
<1>2. PICK u \in Tables, r \in Nat :
        /\ view[a] = <<u, r>> /\ r \in 1 .. Len(group[u].rows)
        /\ group[u].rows[r].links \in Nat /\ LinksOf(a) = group[u].rows[r].links
  BY <1>1, AttachedPlace
<1>3. PICK links \in Nat : links = group[u].rows[r].links + 1
  BY <1>2
<1>4. PICK instr \in Instructions : instr = Instr("ListInsert", 1, 0)
  BY InstructionsLogged
<1>5. OnList(a, instr) /\ view' = view /\ group' = WithLinks(group, u, r, links)
  BY <1>1, <1>2, <1>3, <1>4 DEF ChangeList, WithLinks
<1>6. ASSUME NEW t PROVE Apply(State(group, t, <<u, r>>), instr) = State(group', t, <<u, r>>)
  <2>1. Apply(State(group, t, <<u, r>>), instr)
          = State(WithLinks(group, u, r, group[u].rows[r].links + 1), t, <<u, r>>)
    <3>1. group \in GroupSet
      BY GroupFacts
    <3>2. ListApplies(group, t, u, r, 1)
      BY <1>2, <3>1, ApplyListChange
    <3> QED
      BY <1>4, <3>2 DEF ListApplies
  <2> QED
    BY <1>3, <1>5, <2>1
<1> QED
  BY <1>1, <1>2, <1>5, <1>6, ListStep

LEMMA ListEraseStep ==
  ASSUME LogInd, NEW a \in Addresses, ListErase(a)
  PROVE  LogInd'
<1>1. Attached(view[a]) /\ LinksOf(a) > 0 /\ ChangeList(a, "ListErase", LinksOf(a) - 1)
  BY DEF ListErase
<1>2. PICK u \in Tables, r \in Nat :
        /\ view[a] = <<u, r>> /\ r \in 1 .. Len(group[u].rows)
        /\ group[u].rows[r].links \in Nat /\ LinksOf(a) = group[u].rows[r].links
  BY <1>1, AttachedPlace
<1>3. PICK links \in Nat : links = group[u].rows[r].links - 1
  BY <1>1, <1>2
<1>4. PICK instr \in Instructions : instr = Instr("ListErase", 1, 0)
  BY InstructionsLogged
<1>5. OnList(a, instr) /\ view' = view /\ group' = WithLinks(group, u, r, links)
  BY <1>1, <1>2, <1>3, <1>4 DEF ChangeList, WithLinks
<1>6. ASSUME NEW t PROVE Apply(State(group, t, <<u, r>>), instr) = State(group', t, <<u, r>>)
  <2>1. Apply(State(group, t, <<u, r>>), instr)
          = State(WithLinks(group, u, r, group[u].rows[r].links - 1), t, <<u, r>>)
    <3>1. group \in GroupSet
      BY GroupFacts
    <3>2. ListApplies(group, t, u, r, 1)
      BY <1>2, <3>1, ApplyListChange
    <3> QED
      BY <1>1, <1>2, <1>4, <3>2 DEF ListApplies
  <2> QED
    BY <1>3, <1>5, <2>1
<1> QED
  BY <1>1, <1>2, <1>5, <1>6, ListStep

LEMMA ListClearStep ==
  ASSUME LogInd, NEW a \in Addresses, ListClear(a)
  PROVE  LogInd'
<1>1. Attached(view[a]) /\ ChangeList(a, "ListClear", 0)
  BY DEF ListClear
<1>2. PICK u \in Tables, r \in Nat :
        /\ view[a] = <<u, r>> /\ r \in 1 .. Len(group[u].rows)
        /\ group[u].rows[r].links \in Nat /\ LinksOf(a) = group[u].rows[r].links
  BY <1>1, AttachedPlace
<1>3. PICK old \in Nat : old = group[u].rows[r].links
  BY <1>2
<1>4. PICK instr \in Instructions : instr = Instr("ListClear", old, 0)
  BY InstructionsLogged
<1>5. OnList(a, instr) /\ view' = view /\ group' = WithLinks(group, u, r, 0)
  BY <1>1, <1>2, <1>3, <1>4 DEF ChangeList, WithLinks
<1>6. ASSUME NEW t PROVE Apply(State(group, t, <<u, r>>), instr) = State(group', t, <<u, r>>)
  <2>1. Apply(State(group, t, <<u, r>>), instr)
          = State(WithLinks(group, u, r, 0), t, <<u, r>>)
    <3>1. group \in GroupSet
      BY GroupFacts
    <3>2. ListApplies(group, t, u, r, old)
      BY <1>2, <3>1, ApplyListChange
    <3> QED
      BY <1>4, <3>2 DEF ListApplies
  <2> QED
    BY <1>5, <2>1
<1> QED
  BY <1>1, <1>2, <1>5, <1>6, ListStep

(* Accessors come and go: the cache never has one that is gone.              *)
LEMMA AccessorStep ==
  ASSUME LogInd, UNCHANGED <<group, log, modifications>>, cache' \in Caches,
         view' \in [Addresses -> (Tables \X Nat) \union {None, Detached}], RowsThere',
         cache'.table = cache.table, cache'.descriptor = cache.descriptor,
         cache'.list # 0 => /\ cache'.list = cache.list
                            /\ view[cache.list] # None => view'[cache.list] = view[cache.list]
  PROVE  LogInd'
<1>1. PICK s : s = After(log, Before)
  OBVIOUS
<1>2. s = After(log', Before)
  BY <1>1
<1>3. Selects(s)
  BY <1>1 DEF LogInd
<1>4. Selects(s)'
  BY <1>3 DEF Selects, CacheFollows
<1>5. LogTypeOK' /\ ListColumns'
  BY DEF LogInd, LogTypeOK, ListColumns
<1>6. Selects(After(log, Before))'
  BY <1>2, <1>4 DEF Selects, CacheFollows
<1> QED
  BY <1>5, <1>6 DEF LogInd

LEMMA OpenListStep ==
  ASSUME LogInd, NEW a \in Addresses, NEW t \in Tables, NEW i, OpenList(a, t, i)
  PROVE  LogInd'
<1>1. Len(group[t].rows) \in Nat
  BY GroupFacts
<1>2. /\ view[a] = None /\ i \in 1 .. Len(group[t].rows) /\ <<t, i>> \in Tables \X Nat
      /\ view' = [view EXCEPT ![a] = <<t, i>>]
      /\ UNCHANGED <<group, cache, log, modifications>>
  BY <1>1 DEF OpenList, Count
<1>3. view' \in [Addresses -> (Tables \X Nat) \union {None, Detached}]
  BY <1>2, GroupFacts
<1>4. RowsThere'
  <2> SUFFICES ASSUME NEW b \in Addresses, Attached(view'[b])
               PROVE  view'[b][2] \in 1 .. Len(group'[view'[b][1]].rows)
    BY DEF RowsThere, Count
  <2>1. CASE b = a
    <3>1. view'[b] = <<t, i>>
      BY <1>2, <2>1, GroupFacts
    <3> QED
      BY <1>2, <3>1
  <2>2. CASE b # a
    <3>1. view'[b] = view[b]
      BY <1>2, <2>2, GroupFacts
    <3> QED
      BY <1>2, <3>1 DEF LogInd, RowsThere, Count
  <2> QED
    BY <2>1, <2>2
<1>5. cache \in Caches
  BY DEF LogInd, LogTypeOK
<1>6. ASSUME cache.list # 0, view[cache.list] # None
      PROVE  view'[cache.list] = view[cache.list]
  <2>1. cache.list \in Addresses /\ cache.list # a
    BY <1>2, <1>5, <1>6 DEF Caches
  <2> QED
    BY <1>2, <2>1, GroupFacts
<1> QED
  BY <1>2, <1>3, <1>4, <1>5, <1>6, AccessorStep

LEMMA DestroyListStep ==
  ASSUME LogInd, NEW a \in Addresses, DestroyList(a)
  PROVE  LogInd'
<1>1. /\ view[a] # None /\ view' = [view EXCEPT ![a] = None]
      /\ cache' = OnListDestroyed(a) /\ UNCHANGED <<group, log, modifications>>
  BY DEF DestroyList
<1>2. view' \in [Addresses -> (Tables \X Nat) \union {None, Detached}]
  BY <1>1, GroupFacts
<1>3. RowsThere'
  <2> SUFFICES ASSUME NEW b \in Addresses, Attached(view'[b])
               PROVE  view'[b][2] \in 1 .. Len(group'[view'[b][1]].rows)
    BY DEF RowsThere, Count
  <2>1. view'[b] = view[b]
    BY <1>1, GroupFacts DEF Attached
  <2> QED
    BY <1>1, <2>1 DEF LogInd, RowsThere, Count
<1>4. cache \in Caches
  BY DEF LogInd, LogTypeOK
<1>5. /\ cache' \in Caches
      /\ cache'.table = cache.table /\ cache'.descriptor = cache.descriptor
      /\ cache'.list # 0 => cache'.list = cache.list /\ cache.list # a /\ cache.list \in Addresses
  BY <1>1, <1>4 DEF OnListDestroyed, Caches
<1>6. cache'.list # 0 => view'[cache.list] = view[cache.list]
  BY <1>1, <1>5, GroupFacts
<1> QED
  BY <1>1, <1>2, <1>3, <1>5, <1>6, AccessorStep

-----------------------------------------------------------------------------
LEMMA NextLogInd ==
  ASSUME LogInd, LogNext \/ UNCHANGED logVars
  PROVE  LogInd'
<1>1. CASE LogNext
  <2>1. ASSUME NEW t \in Tables, InsertRow(t) \/ ClearTable(t) PROVE LogInd'
    BY <2>1, InsertRowStep, ClearTableStep
  <2>2. ASSUME NEW t \in Tables, NEW i, SetValue(t, i) \/ EraseRow(t, i) PROVE LogInd'
    BY <2>2, SetValueStep, EraseRowStep
  <2>3. ASSUME NEW t \in Tables, NEW c, InsertColumn(t, c) \/ EraseColumn(t, c) PROVE LogInd'
    BY <2>3, InsertColumnStep, EraseColumnStep
  <2>4. ASSUME NEW t \in Tables, NEW a \in Addresses, NEW i, OpenList(a, t, i) PROVE LogInd'
    BY <2>4, OpenListStep
  <2>5. ASSUME NEW a \in Addresses,
               ListInsert(a) \/ ListErase(a) \/ ListClear(a) \/ DestroyList(a)
        PROVE  LogInd'
    BY <2>5, ListInsertStep, ListEraseStep, ListClearStep, DestroyListStep
  <2> QED
    BY <1>1, <2>1, <2>2, <2>3, <2>4, <2>5 DEF LogNext
<1>2. CASE UNCHANGED logVars
  <2>1. /\ group' = group /\ view' = view /\ cache' = cache /\ log' = log
        /\ modifications' = modifications
    BY <1>2 DEF logVars
  <2> QED
    BY <2>1 DEF LogInd, LogTypeOK, ListColumns, RowsThere, Count, Selects, CacheFollows
<1> QED
  BY <1>1, <1>2

(* Whatever a transaction modifies, in whatever order, with list accessors   *)
(* that come, go and leave their address to others in between, another group *)
(* that applies its log (Group::advance_transact) has what the transaction   *)
(* has: select_table, select_desc and select_link_list leave a selection out *)
(* only where it is in force (transact_log.hpp:664-685), erasing a row or    *)
(* clearing a table moves the list selected with its row, and                *)
(* on_link_list_destroyed forgets an address before it is used again.        *)
THEOREM LogReadsAlike == LogSpec => []AnotherGroupFollows
<1>1. LogInit => LogInd
  BY InitLogInd
<1>2. LogInd /\ [LogNext]_logVars => LogInd'
  BY NextLogInd
<1>3. LogInd => AnotherGroupFollows
  BY DEF LogInd, Selects, State, AnotherGroupFollows, Applied
<1> QED
  BY <1>1, <1>2, <1>3, PTL DEF LogSpec

-----------------------------------------------------------------------------
(* The log of a transaction read by TransactReverser: a recursive function   *)
(* over its instructions too.                                                *)
ParsesTo(f, instrs) ==
  /\ DOMAIN f = 0 .. Len(instrs)
  /\ f[0] = Reverser
  /\ \A n \in 1 .. Len(instrs) : f[n] = Reversing(f[n - 1], instrs[n])

HowParsed(instrs) ==
  \E f : ParsesTo(f, instrs) /\ Parsed(instrs) = f[Len(instrs)]

LEMMA ParsedBySteps ==
  ASSUME NEW S, NEW instrs \in Seq(S)
  PROVE  HowParsed(instrs)
<1> DEFINE L == Len(instrs)
           upTo == CHOOSE f : f = [n \in 0 .. L |->
                     IF n = 0 THEN Reverser ELSE Reversing(f[n - 1], instrs[n])]
           Follows(f, n) == f[n] = IF n = 0 THEN Reverser ELSE Reversing(f[n - 1], instrs[n])
           Built(k) == \E f : DOMAIN f = 0 .. k /\ \A n \in 0 .. k : Follows(f, n)
<1>1. Parsed(instrs) = upTo[L]
  BY DEF Parsed
<1>2. PICK l \in Nat : l = L
  OBVIOUS
<1> HIDE DEF L
<1>3. Built(0)
  <2>1. PICK f : f = [n \in 0 .. 0 |-> Reverser]
    OBVIOUS
  <2>2. DOMAIN f = 0 .. 0 /\ \A n \in 0 .. 0 : Follows(f, n)
    BY <2>1
  <2> QED
    BY <2>2
<1>4. ASSUME NEW k \in Nat, Built(k) PROVE Built(k + 1)
  <2>1. PICK f : DOMAIN f = 0 .. k /\ \A n \in 0 .. k : Follows(f, n)
    BY <1>4
  <2>2. PICK last : last = Reversing(f[k], instrs[k + 1])
    OBVIOUS
  <2>3. PICK h : h = [n \in 0 .. (k + 1) |-> IF n = k + 1 THEN last ELSE f[n]]
    OBVIOUS
  <2>4. DOMAIN h = 0 .. (k + 1)
    BY <2>3
  <2>5. h[k + 1] = last /\ h[k] = f[k] /\ k + 1 # 0 /\ (k + 1) - 1 = k
    BY <2>3
  <2>6. Follows(h, k + 1)
    BY <2>2, <2>5, Zenon
  <2>7. ASSUME NEW n \in 0 .. k PROVE Follows(h, n)
    <3>1. h[n] = f[n] /\ (n # 0 => h[n - 1] = f[n - 1])
      BY <2>3
    <3> QED
      BY <2>1, <3>1
  <2>8. \A n \in 0 .. (k + 1) : n = k + 1 \/ n \in 0 .. k
    OBVIOUS
  <2> HIDE DEF Follows
  <2>9. \A n \in 0 .. (k + 1) : Follows(h, n)
    BY <2>6, <2>7, <2>8
  <2> QED
    BY <2>4, <2>9
<1>5. Built(l)
  <2> HIDE DEF Built
  <2>1. PICK K : K = {k \in Nat : Built(k)}
    OBVIOUS
  <2>2. 0 \in K /\ \A k \in Nat : k \in K => k + 1 \in K
    BY <1>3, <1>4, <2>1
  <2>3. \A k \in Nat : k \in K
    BY <2>2, SetInduction
  <2> QED
    BY <2>1, <2>3
<1>6. PICK f : DOMAIN f = 0 .. l /\ \A n \in 0 .. l : Follows(f, n)
  BY <1>5
<1>7. PICK e : e = [n \in 0 .. l |-> f[n]]
  OBVIOUS
<1>8. e = [n \in 0 .. L |-> IF n = 0 THEN Reverser ELSE Reversing(e[n - 1], instrs[n])]
  <2>1. \A n \in 0 .. l : n # 0 => n - 1 \in 0 .. l
    OBVIOUS
  <2>2. \A n \in 0 .. l : e[n] = f[n]
    BY <1>7
  <2>3. \A n \in 0 .. l : e[n] = IF n = 0 THEN Reverser ELSE Reversing(e[n - 1], instrs[n])
    BY <1>6, <2>1, <2>2
  <2> QED
    BY <1>2, <1>7, <2>3
<1>9. upTo = [n \in 0 .. L |-> IF n = 0 THEN Reverser ELSE Reversing(upTo[n - 1], instrs[n])]
  BY <1>8
<1>10. PICK h : h = upTo
  OBVIOUS
<1>11. h = [n \in 0 .. L |-> IF n = 0 THEN Reverser ELSE Reversing(h[n - 1], instrs[n])]
  BY <1>9, <1>10
<1> HIDE DEF upTo
<1>12. DOMAIN h = 0 .. L /\ \A n \in 0 .. L : Follows(h, n)
  BY <1>11
<1>13. 0 \in 0 .. L /\ \A n \in 1 .. L : n \in 0 .. L /\ n # 0
  BY <1>2
<1>14. h[0] = Reverser /\ \A n \in 1 .. L : h[n] = Reversing(h[n - 1], instrs[n])
  BY <1>12, <1>13
<1>15. ParsesTo(h, instrs)
  BY <1>12, <1>14 DEF ParsesTo, L
<1>16. Parsed(instrs) = h[Len(instrs)]
  BY <1>1, <1>10 DEF L
<1> QED
  BY <1>15, <1>16 DEF HowParsed

LEMMA NothingParsed == Parsed(<<>>) = Reverser
<1>1. <<>> \in Seq(Nat) /\ Len(<<>>) = 0
  BY EmptySeq
<1>2. HowParsed(<<>>)
  BY <1>1, ParsedBySteps
<1> QED
  BY <1>1, <1>2 DEF HowParsed, ParsesTo

LEMMA OneMoreParsed ==
  ASSUME NEW S, NEW instrs \in Seq(S), NEW i \in S
  PROVE  Parsed(Append(instrs, i)) = Reversing(Parsed(instrs), i)
<1>1. PICK more \in Seq(S) : more = Append(instrs, i)
  BY AppendProperties
<1>2. PICK l \in Nat : l = Len(instrs)
  OBVIOUS
<1>3. Len(more) = l + 1 /\ more[l + 1] = i /\ \A n \in 1 .. l : more[n] = instrs[n]
  BY <1>1, <1>2, AppendProperties
<1>4. PICK f : ParsesTo(f, instrs) /\ Parsed(instrs) = f[l]
  <2>1. HowParsed(instrs)
    BY ParsedBySteps
  <2> QED
    BY <1>2, <2>1 DEF HowParsed
<1>5. PICK h : ParsesTo(h, more) /\ Parsed(more) = h[l + 1]
  <2>1. HowParsed(more)
    BY ParsedBySteps
  <2> QED
    BY <1>3, <2>1 DEF HowParsed
<1>6. \A n \in 0 .. l : h[n] = f[n]
  <2>1. PICK K : K = {n \in Nat : n <= l => h[n] = f[n]}
    OBVIOUS
  <2>2. 0 \in K
    BY <1>4, <1>5, <2>1 DEF ParsesTo
  <2>3. ASSUME NEW n \in Nat, n \in K PROVE n + 1 \in K
    <3> SUFFICES ASSUME n + 1 <= l PROVE h[n + 1] = f[n + 1]
      BY <2>1
    <3>1. n + 1 \in 1 .. l /\ (n + 1) - 1 = n /\ n + 1 \in 1 .. (l + 1)
      OBVIOUS
    <3>2. h[n] = f[n]
      BY <2>1, <2>3
    <3>3. f[n + 1] = Reversing(f[n], instrs[n + 1])
      BY <1>2, <1>4, <3>1 DEF ParsesTo
    <3>4. h[n + 1] = Reversing(h[n], more[n + 1])
      BY <1>3, <1>5, <3>1 DEF ParsesTo
    <3>5. more[n + 1] = instrs[n + 1]
      BY <1>3, <3>1
    <3> QED
      BY <3>2, <3>3, <3>4, <3>5, Zenon
  <2>4. \A n \in Nat : n \in K
    BY <2>2, <2>3, SetInduction
  <2> QED
    BY <2>1, <2>4
<1>7. l + 1 \in 1 .. (l + 1) /\ (l + 1) - 1 = l /\ l \in 0 .. l
  OBVIOUS
<1>8. h[l + 1] = Reversing(h[l], more[l + 1])
  BY <1>3, <1>5, <1>7 DEF ParsesTo
<1>9. h[l] = f[l]
  BY <1>6, <1>7
<1> QED
  BY <1>1, <1>3, <1>4, <1>5, <1>8, <1>9, Zenon
-----------------------------------------------------------------------------
(* What the reversed stream does, from the end of what was gathered for it   *)
(* to its beginning.                                                         *)
BackTo(f, out, s) ==
  /\ DOMAIN f = 0 .. Len(out)
  /\ f[Len(out)] = s
  /\ \A n \in 1 .. Len(out) : f[n - 1] = Apply(f[n], out[n])

Unwinds(out, s, e) == \E f : BackTo(f, out, s) /\ e = f[0]

LEMMA ReversedUnwinds ==
  ASSUME NEW S, NEW out \in Seq(S), NEW g
  PROVE  Unwinds(out, Start(g), After(Reverse(out), g))
<1>1. PICK l \in Nat : l = Len(out)
  OBVIOUS
<1>2. PICK back : back = Reverse(out)
  OBVIOUS
<1>3. back = [n \in 1 .. l |-> out[(l - n) + 1]]
  BY <1>1, <1>2 DEF Reverse
<1>4. back \in Seq(S)
  <2>1. \A n \in 1 .. l : out[(l - n) + 1] \in S
    BY <1>1
  <2> QED
    BY <1>3, <2>1, IsASeq
<1>5. Len(back) = l
  BY <1>3, <1>4
<1>6. PICK h : AppliesTo(h, back, g) /\ After(back, g) = h[l]
  <2>1. HowApplied(back, g)
    BY <1>4, AppliedBySteps
  <2> QED
    BY <1>5, <2>1 DEF HowApplied
<1>7. PICK f : f = [n \in 0 .. l |-> h[l - n]]
  OBVIOUS
<1>8. DOMAIN f = 0 .. l /\ f[l] = h[0] /\ f[0] = h[l]
  BY <1>7
<1>9. ASSUME NEW n \in 1 .. l PROVE f[n - 1] = Apply(f[n], out[n])
  <2>1. PICK m \in 1 .. l : m = l - n + 1
    OBVIOUS
  <2>2. f[n - 1] = h[m] /\ f[n] = h[m - 1]
    <3>1. n - 1 \in 0 .. l /\ n \in 0 .. l /\ l - (n - 1) = m /\ l - n = m - 1
      BY <2>1
    <3> QED
      BY <1>7, <3>1
  <2>3. back[m] = out[n]
    <3>1. (l - m) + 1 = n
      BY <2>1
    <3> QED
      BY <1>3, <3>1
  <2>4. h[m] = Apply(h[m - 1], back[m])
    BY <1>5, <1>6 DEF AppliesTo
  <2> QED
    BY <2>2, <2>3, <2>4, Zenon
<1>10. f[l] = Start(g)
  BY <1>6, <1>8 DEF AppliesTo
<1>11. BackTo(f, out, Start(g))
  BY <1>1, <1>8, <1>9, <1>10 DEF BackTo
<1> QED
  BY <1>2, <1>6, <1>8, <1>11 DEF Unwinds

LEMMA UnwindsOver ==
  ASSUME NEW S, NEW out \in Seq(S), NEW i \in S, NEW s, NEW e, Unwinds(Append(out, i), s, e)
  PROVE  Unwinds(out, Apply(s, i), e)
<1>1. PICK l \in Nat : l = Len(out)
  OBVIOUS
<1>2. PICK more \in Seq(S) : more = Append(out, i)
  BY AppendProperties
<1>3. Len(more) = l + 1 /\ more[l + 1] = i /\ \A n \in 1 .. l : more[n] = out[n]
  BY <1>1, <1>2, AppendProperties
<1>4. PICK f : BackTo(f, more, s) /\ e = f[0]
  BY <1>2 DEF Unwinds
<1>5. PICK h : h = [n \in 0 .. l |-> f[n]]
  OBVIOUS
<1>6. DOMAIN h = 0 .. l /\ h[0] = f[0] /\ h[l] = f[l]
  BY <1>5
<1>7. f[l] = Apply(s, i)
  <2>1. f[(l + 1) - 1] = Apply(f[l + 1], more[l + 1])
    BY <1>3, <1>4 DEF BackTo
  <2>2. (l + 1) - 1 = l /\ f[l + 1] = s
    BY <1>3, <1>4 DEF BackTo
  <2> QED
    BY <1>3, <2>1, <2>2
<1>8. ASSUME NEW n \in 1 .. l PROVE h[n - 1] = Apply(h[n], out[n])
  <2>1. h[n - 1] = f[n - 1] /\ h[n] = f[n]
    BY <1>5
  <2>2. f[n - 1] = Apply(f[n], more[n])
    BY <1>3, <1>4 DEF BackTo
  <2> QED
    BY <1>3, <2>1, <2>2
<1>9. BackTo(h, out, Apply(s, i))
  BY <1>1, <1>6, <1>7, <1>8 DEF BackTo
<1> QED
  BY <1>4, <1>6, <1>9 DEF Unwinds

LEMMA UnwindsNothing ==
  ASSUME NEW s, NEW e, Unwinds(<<>>, s, e)
  PROVE  e = s
BY EmptySeq DEF Unwinds, BackTo

-----------------------------------------------------------------------------
(* What undoing gives back, with what the transaction did not do: "links"    *)
(* if it erased no row and no column and inserted no column, "rows" if it    *)
(* cleared no table, "any" in any case.  A group h is undone up to g when it *)
(* differs from g in what is new in h, or, in any case, when a table of h    *)
(* has only new rows.                                                        *)
Modes == {"any", "rows", "links"}
Barred(k) ==
  (IF k = "any" THEN {} ELSE {"Clear"})
    \union (IF k = "links" THEN {"EraseRow", "InsertColumn", "EraseColumn"} ELSE {})

RowUndone(k, x, y) ==
  (x.id = y.id \/ (k # "links" /\ x.id = 0)) /\ (k = "links" => x.links = y.links)

RowsUndone(k, x, y) ==
  \/ Len(x) = Len(y) /\ \A n \in 1 .. Len(x) : RowUndone(k, x[n], y[n])
  \/ k = "any" /\ \A n \in 1 .. Len(x) : x[n].id = 0

ColumnsUndone(k, x, y) ==
  /\ Len(x) = Len(y)
  /\ \A n \in 1 .. Len(x) : x[n] = y[n] \/ (k # "links" /\ x[n] = 0)

TableUndone(k, x, y) == RowsUndone(k, x.rows, y.rows) /\ ColumnsUndone(k, x.columns, y.columns)

Undone(k, h, g) == \A t \in Tables : TableUndone(k, h[t], g[t])

(* The reverser: what it has gathered, and the selections pending.           *)
Backs ==
  [op : Operations \union {"EraseLastRow", "InsertUnordered", "Nothing"},
   a : Tables \union Nat, b : Nat]

PendingTables == {<<>>} \union {<<Instr("SelectTable", t, 0)>> : t \in Tables}
PendingDescriptors == {<<>>, <<Instr("SelectDescriptor", 0, 0)>>}
PendingLists == {<<>>} \union {<<Instr("SelectList", c, i)>> : c \in Nat, i \in Nat}

ReverserSet ==
  [out : Seq(Backs), table : PendingTables, descriptor : PendingDescriptors, list : PendingLists]

ReverserOK(r) == r \in ReverserSet /\ (r.table = <<>> => r = Reverser)

(* The tables and lists that may be selected where what was gathered begins: *)
(* those pending, for they are going to be gathered after it.                *)
Spots == (Tables \union {0}) \X Nat
TablesOf(r) == IF r.table = <<>> THEN Tables \union {0} ELSE {r.table[1].a}
PlacesOf(k, r) ==
  IF k = "links" /\ r.list # <<>> THEN {<<r.table[1].a, r.list[1].b>>} ELSE Spots

(* From any group undone up to g, what was gathered leads to one undone up   *)
(* to what the transaction began with.                                       *)
BackWhere(k, g) == g \in GroupSet /\ Undone(k, g, Before)

Undoes(k, out, Ts, Ps, g) ==
  \A h \in GroupSet, t \in Ts, p \in Ps :
    Undone(k, h, g) => \A e : Unwinds(out, State(h, t, p), e) => BackWhere(k, e.group)

ListFound(g, t, c, i) ==
  c \in DOMAIN g[t].columns /\ g[t].columns[c] = Links /\ i \in DOMAIN g[t].rows

ListInPlace(k, r, g) ==
  k = "links" /\ r.list # <<>> =>
    /\ r.table # <<>>
    /\ ListFound(g, r.table[1].a, r.list[1].a, r.list[1].b)

Undoing(k, r, g) == ListInPlace(k, r, g) /\ Undoes(k, r.out, TablesOf(r), PlacesOf(k, r), g)

LEMMA NothingPending ==
  <<>> \in PendingTables /\ <<>> \in PendingDescriptors /\ <<>> \in PendingLists
BY DEF PendingTables, PendingDescriptors, PendingLists

LEMMA PendingTable ==
  ASSUME NEW r, ReverserOK(r), r.table # <<>>
  PROVE  \E t \in Tables : /\ r.table = <<Instr("SelectTable", t, 0)>>
                           /\ r.table[1].a = t /\ TablesOf(r) = {t}
<1>1. PICK t \in Tables : r.table = <<Instr("SelectTable", t, 0)>>
  BY DEF ReverserOK, ReverserSet, PendingTables
<1>2. r.table[1] = Instr("SelectTable", t, 0)
  BY <1>1
<1>3. r.table[1].a = t
  BY <1>2 DEF Instr
<1> QED
  BY <1>1, <1>3 DEF TablesOf

LEMMA PendingList ==
  ASSUME NEW r, ReverserOK(r), r.list # <<>>
  PROVE  /\ r.table # <<>>
         /\ \E c \in Nat, i \in Nat : /\ r.list = <<Instr("SelectList", c, i)>>
                                      /\ r.list[1].a = c /\ r.list[1].b = i
<1>1. PICK c \in Nat, i \in Nat : r.list = <<Instr("SelectList", c, i)>>
  BY DEF ReverserOK, ReverserSet, PendingLists
<1>2. r.list[1] = Instr("SelectList", c, i)
  BY <1>1
<1>3. r.list[1].a = c /\ r.list[1].b = i
  BY <1>2 DEF Instr
<1>4. r.table # <<>>
  BY DEF ReverserOK, Reverser
<1> QED
  BY <1>1, <1>3, <1>4

(* One instruction more behind what was gathered. *)
Gathered(r, i) == [r EXCEPT !.out = Append(@, i)]

GoesBack(k, i, Ts, Ps, g2, Us, Qs, g) ==
  \A h \in GroupSet, t \in Ts, p \in Ps :
    Undone(k, h, g2) =>
      \E h2 \in GroupSet, u \in Us, q \in Qs :
        Apply(State(h, t, p), i) = State(h2, u, q) /\ Undone(k, h2, g)

LEMMA GatheredUndoes ==
  ASSUME NEW k, NEW out \in Seq(Backs), NEW i \in Backs, NEW Ts, NEW Ps, NEW Us, NEW Qs,
         NEW g, NEW g2, Undoes(k, out, Us, Qs, g), GoesBack(k, i, Ts, Ps, g2, Us, Qs, g)
  PROVE  Undoes(k, Append(out, i), Ts, Ps, g2)
<1> SUFFICES ASSUME NEW h \in GroupSet, NEW t \in Ts, NEW p \in Ps, Undone(k, h, g2), NEW e,
                    Unwinds(Append(out, i), State(h, t, p), e)
             PROVE  BackWhere(k, e.group)
  BY DEF Undoes
<1>1. PICK h2 \in GroupSet, u \in Us, q \in Qs :
        Apply(State(h, t, p), i) = State(h2, u, q) /\ Undone(k, h2, g)
  BY DEF GoesBack
<1>2. Unwinds(out, State(h2, u, q), e)
  BY <1>1, UnwindsOver
<1> QED
  BY <1>1, <1>2 DEF Undoes

(* The selections pending, gathered: whatever is selected before, they lead  *)
(* to what was gathered under them.                                          *)
LEMMA LinkviewSynced ==
  ASSUME NEW k, NEW r, ReverserOK(r), NEW g \in GroupSet, Undoing(k, r, g)
  PROVE  /\ ReverserOK(SyncLinkview(r)) /\ Undoing(k, SyncLinkview(r), g)
         /\ SyncLinkview(r).list = <<>> /\ SyncLinkview(r).table = r.table
<1>1. r \in ReverserSet
  BY DEF ReverserOK
<1>2. CASE r.list = <<>>
  <2>1. r.out \o r.list = r.out
    BY <1>1, <1>2, ConcatEmptySeq DEF ReverserSet
  <2>2. SyncLinkview(r) = r
    BY <1>1, <1>2, <2>1 DEF SyncLinkview, ReverserSet
  <2> QED
    BY <1>2, <2>2
<1>3. CASE r.list # <<>>
  <2>1. PICK c \in Nat, i \in Nat : /\ r.list = <<Instr("SelectList", c, i)>>
                                    /\ r.list[1].a = c /\ r.list[1].b = i
    BY <1>3, PendingList
  <2>2. r.table # <<>>
    BY <1>3, PendingList
  <2>3. PICK T \in Tables : r.table[1].a = T /\ TablesOf(r) = {T}
    BY <2>2, PendingTable
  <2>4. PICK select \in Backs : select = Instr("SelectList", c, i)
    BY DEF Instr, Backs, Operations
  <2>5. PICK s : s = [r EXCEPT !.out = Append(r.out, select), !.list = <<>>]
    OBVIOUS
  <2>6. SyncLinkview(r) = s
    <3>1. r.out \o r.list = Append(r.out, select)
      BY <1>1, <2>1, <2>4, AppendIsConcat DEF ReverserSet
    <3> QED
      BY <1>1, <2>5, <3>1 DEF SyncLinkview, ReverserSet
  <2>7. s \in ReverserSet /\ s.list = <<>> /\ s.table = r.table /\ s.out = Append(r.out, select)
    <3>1. Append(r.out, select) \in Seq(Backs)
      BY <1>1, AppendProperties DEF ReverserSet
    <3> QED
      BY <1>1, <2>5, <3>1, NothingPending DEF ReverserSet
  <2>8. TablesOf(s) = {T} /\ PlacesOf(k, s) = Spots
    BY <2>2, <2>3, <2>7 DEF TablesOf, PlacesOf
  <2>9. GoesBack(k, select, {T}, Spots, g, {T}, PlacesOf(k, r), g)
    <3> SUFFICES ASSUME NEW h \in GroupSet, NEW p \in Spots, Undone(k, h, g)
                 PROVE  \E q \in PlacesOf(k, r) :
                          Apply(State(h, T, p), select) = State(h, T, q)
      BY DEF GoesBack
    <3>1. PICK q : q = ListAt(State(h, T, p), c, i)
      OBVIOUS
    <3>2. Apply(State(h, T, p), select) = State(h, T, q)
      BY <2>4, <3>1 DEF Apply, Instr, State
    <3>3. q = <<T, i>> \/ q = None
      BY <3>1 DEF ListAt, State
    <3>4. q \in Spots
      BY <3>3 DEF Spots, None
    <3>5. CASE k = "links"
      <4>1. ListFound(g, T, c, i)
        BY <1>3, <2>1, <2>3, <3>5 DEF Undoing, ListInPlace
      <4>2. TableUndone(k, h[T], g[T])
        BY DEF Undone
      <4>3. ListFound(h, T, c, i)
        <5>1. /\ h[T].rows \in Seq(RowRecords) /\ h[T].columns \in Seq(Nat)
              /\ g[T].rows \in Seq(RowRecords) /\ g[T].columns \in Seq(Nat)
          BY DEF GroupSet
        <5>2. /\ Len(h[T].rows) = Len(g[T].rows) /\ Len(h[T].columns) = Len(g[T].columns)
              /\ \A n \in 1 .. Len(h[T].columns) : h[T].columns[n] = g[T].columns[n]
          BY <3>5, <4>2 DEF TableUndone, RowsUndone, ColumnsUndone
        <5>3. DOMAIN h[T].rows = DOMAIN g[T].rows /\ DOMAIN h[T].columns = DOMAIN g[T].columns
          BY <5>1, <5>2
        <5> QED
          BY <4>1, <5>2, <5>3 DEF ListFound
      <4>4. q = <<T, i>>
        <5>1. T # 0
          BY TransactLogAssumption
        <5> QED
          BY <3>1, <4>3, <5>1 DEF ListAt, State, ListFound
      <4>5. PlacesOf(k, r) = {<<T, i>>}
        BY <1>3, <2>1, <2>3, <3>5 DEF PlacesOf
      <4> QED
        BY <3>2, <4>4, <4>5
    <3>6. CASE k # "links"
      <4>1. PlacesOf(k, r) = Spots
        BY <3>6 DEF PlacesOf
      <4> QED
        BY <3>2, <3>4, <4>1
    <3> QED
      BY <3>5, <3>6
  <2>10. Undoes(k, Append(r.out, select), {T}, Spots, g)
    <3>1. r.out \in Seq(Backs)
      BY <1>1 DEF ReverserSet
    <3>2. Undoes(k, r.out, {T}, PlacesOf(k, r), g)
      BY <2>3 DEF Undoing
    <3> QED
      BY <2>9, <3>1, <3>2, GatheredUndoes
  <2>11. Undoing(k, s, g)
    BY <2>7, <2>8, <2>10 DEF Undoing, ListInPlace
  <2> QED
    BY <2>2, <2>6, <2>7, <2>11 DEF ReverserOK
<1> QED
  BY <1>2, <1>3

LEMMA DescriptorSynced ==
  ASSUME NEW k, NEW r, ReverserOK(r), NEW g \in GroupSet, Undoing(k, r, g)
  PROVE  /\ ReverserOK(SyncDescriptor(r)) /\ Undoing(k, SyncDescriptor(r), g)
         /\ SyncDescriptor(r).list = <<>> /\ SyncDescriptor(r).table = r.table
         /\ SyncDescriptor(r).descriptor = <<>>
<1>1. PICK s : s = SyncLinkview(r)
  OBVIOUS
<1>2. ReverserOK(s) /\ Undoing(k, s, g) /\ s.list = <<>> /\ s.table = r.table
  BY <1>1, LinkviewSynced
<1>3. SyncDescriptor(r) = [s EXCEPT !.out = @ \o s.descriptor, !.descriptor = <<>>]
  BY <1>1 DEF SyncDescriptor
<1>4. s \in ReverserSet
  BY <1>2 DEF ReverserOK
<1>5. CASE s.descriptor = <<>>
  <2>1. s.out \o s.descriptor = s.out
    BY <1>4, <1>5, ConcatEmptySeq DEF ReverserSet
  <2>2. SyncDescriptor(r) = s
    BY <1>3, <1>4, <1>5, <2>1 DEF ReverserSet
  <2> QED
    BY <1>2, <1>5, <2>2
<1>6. CASE s.descriptor # <<>>
  <2>1. PICK select \in Backs : select = Instr("SelectDescriptor", 0, 0)
    BY DEF Instr, Backs, Operations
  <2>2. s.descriptor = <<select>>
    BY <1>4, <1>6, <2>1 DEF ReverserSet, PendingDescriptors
  <2>3. PICK d : d = [s EXCEPT !.out = Append(s.out, select), !.descriptor = <<>>]
    OBVIOUS
  <2>4. SyncDescriptor(r) = d
    <3>1. s.out \o s.descriptor = Append(s.out, select)
      BY <1>4, <2>2, AppendIsConcat DEF ReverserSet
    <3> QED
      BY <1>3, <1>4, <2>3, <3>1 DEF ReverserSet
  <2>5. /\ d \in ReverserSet /\ d.list = <<>> /\ d.table = r.table /\ d.descriptor = <<>>
        /\ d.out = Append(s.out, select)
    <3>1. Append(s.out, select) \in Seq(Backs)
      BY <1>4, AppendProperties DEF ReverserSet
    <3> QED
      BY <1>2, <1>4, <2>3, <3>1, NothingPending DEF ReverserSet
  <2>6. s.table # <<>>
    BY <1>2, <1>6 DEF ReverserOK, Reverser
  <2>7. TablesOf(d) = TablesOf(s) /\ PlacesOf(k, d) = Spots /\ PlacesOf(k, s) = Spots
    BY <1>2, <2>5 DEF TablesOf, PlacesOf
  <2>8. GoesBack(k, select, TablesOf(s), Spots, g, TablesOf(s), Spots, g)
    <3> SUFFICES ASSUME NEW h \in GroupSet, NEW t \in TablesOf(s), NEW p \in Spots
                 PROVE  Apply(State(h, t, p), select) = State(h, t, p)
      BY DEF GoesBack
    <3> QED
      BY <2>1 DEF Apply, Instr
  <2>9. Undoes(k, Append(s.out, select), TablesOf(s), Spots, g)
    <3>1. s.out \in Seq(Backs) /\ Undoes(k, s.out, TablesOf(s), Spots, g)
      BY <1>2, <1>4, <2>7 DEF ReverserSet, Undoing
    <3> QED
      BY <2>8, <3>1, GatheredUndoes
  <2>10. Undoing(k, d, g)
    BY <2>5, <2>7, <2>9 DEF Undoing, ListInPlace
  <2> QED
    BY <1>2, <2>4, <2>5, <2>6, <2>10 DEF ReverserOK
<1> QED
  BY <1>5, <1>6

(* With the table gathered too, nothing needs to be selected any more.       *)
LEMMA TableSynced ==
  ASSUME NEW k, NEW r, ReverserOK(r), NEW g \in GroupSet, Undoing(k, r, g)
  PROVE  /\ Undoes(k, SyncTable(r).out, Tables \union {0}, Spots, g)
         /\ SyncTable(r) \in ReverserSet /\ SyncTable(r).list = <<>>
<1>1. PICK s : s = SyncDescriptor(r)
  OBVIOUS
<1>2. /\ ReverserOK(s) /\ Undoing(k, s, g)
      /\ s.list = <<>> /\ s.descriptor = <<>>
  BY <1>1, DescriptorSynced
<1>3. SyncTable(r) = [s EXCEPT !.out = @ \o s.table, !.table = <<>>]
  BY <1>1 DEF SyncTable
<1>4. s \in ReverserSet /\ s.out \in Seq(Backs)
  BY <1>2 DEF ReverserOK, ReverserSet
<1>5. ASSUME s.out \o s.table \in Seq(Backs)
      PROVE  SyncTable(r) \in ReverserSet /\ SyncTable(r).list = <<>>
  BY <1>2, <1>3, <1>4, <1>5, NothingPending DEF ReverserSet
<1>6. SyncTable(r).out = s.out \o s.table
  BY <1>3, <1>4 DEF ReverserSet
<1>7. PlacesOf(k, s) = Spots
  BY <1>2 DEF PlacesOf
<1>8. CASE s.table = <<>>
  <2>1. s.out \o s.table = s.out
    BY <1>4, <1>8, ConcatEmptySeq
  <2>2. TablesOf(s) = Tables \union {0}
    BY <1>8 DEF TablesOf
  <2> QED
    BY <1>2, <1>4, <1>5, <1>6, <1>7, <2>1, <2>2 DEF Undoing
<1>9. CASE s.table # <<>>
  <2>1. PICK T \in Tables : s.table = <<Instr("SelectTable", T, 0)>> /\ TablesOf(s) = {T}
    BY <1>2, <1>9, PendingTable
  <2>2. PICK select \in Backs : select = Instr("SelectTable", T, 0)
    BY DEF Instr, Backs, Operations
  <2>3. s.out \o s.table = Append(s.out, select)
    BY <1>4, <2>1, <2>2, AppendIsConcat
  <2>4. GoesBack(k, select, Tables \union {0}, Spots, g, {T}, Spots, g)
    <3> SUFFICES ASSUME NEW h \in GroupSet, NEW t \in Tables \union {0}, NEW p \in Spots
                 PROVE  \E q \in Spots : Apply(State(h, t, p), select) = State(h, T, q)
      BY DEF GoesBack
    <3>1. Apply(State(h, t, p), select) = State(h, T, None)
      BY <2>2, ApplySelection
    <3>2. None \in Spots
      BY DEF Spots, None
    <3> QED
      BY <3>1, <3>2
  <2>5. Undoes(k, s.out, {T}, Spots, g)
    BY <1>2, <1>7, <2>1 DEF Undoing
  <2>6. Undoes(k, Append(s.out, select), Tables \union {0}, Spots, g)
    BY <1>4, <2>4, <2>5, GatheredUndoes
  <2> QED
    BY <1>4, <1>5, <1>6, <2>3, <2>6, AppendProperties
<1> QED
  BY <1>8, <1>9

-----------------------------------------------------------------------------
(* The selections of the log, read.                                          *)
LEMMA TableRead ==
  ASSUME NEW k, NEW r, ReverserOK(r), NEW g \in GroupSet, Undoing(k, r, g), NEW t \in Tables,
         NEW s, s = Reversing(r, Instr("SelectTable", t, 0))
  PROVE  /\ ReverserOK(s) /\ Undoing(k, s, g)
         /\ s.table = <<Instr("SelectTable", t, 0)>> /\ s.list = <<>>
<1>1. PICK select : select = Instr("SelectTable", t, 0)
  OBVIOUS
<1>2. s = [SyncTable(r) EXCEPT !.table = <<select>>]
  BY <1>1 DEF Reversing, Instr, Selections, Select
<1>3. PICK old : old = SyncTable(r)
  OBVIOUS
<1>4. /\ Undoes(k, old.out, Tables \union {0}, Spots, g)
      /\ old \in ReverserSet /\ old.list = <<>>
  BY <1>3, TableSynced
<1>5. <<select>> \in PendingTables /\ <<select>> # <<>>
  BY <1>1 DEF PendingTables
<1>6. s = [old EXCEPT !.table = <<select>>]
  BY <1>2, <1>3
<1>7. /\ s \in ReverserSet /\ s.table = <<select>> /\ s.list = <<>> /\ s.out = old.out
  BY <1>4, <1>5, <1>6 DEF ReverserSet
<1>8. ReverserOK(s)
  BY <1>5, <1>7 DEF ReverserOK
<1>9. TablesOf(s) = {t} /\ PlacesOf(k, s) = Spots
  BY <1>1, <1>5, <1>7 DEF TablesOf, PlacesOf, Instr
<1>10. Undoing(k, s, g)
  BY <1>4, <1>7, <1>9 DEF Undoing, Undoes, ListInPlace
<1> QED
  BY <1>1, <1>7, <1>8, <1>10

LEMMA DescriptorRead ==
  ASSUME NEW k, NEW r, ReverserOK(r), r.table # <<>>, NEW g \in GroupSet, Undoing(k, r, g),
         NEW s, s = Reversing(r, Instr("SelectDescriptor", 0, 0))
  PROVE  /\ ReverserOK(s) /\ Undoing(k, s, g)
         /\ s.table = r.table /\ s.list = <<>>
<1>1. PICK select : select = Instr("SelectDescriptor", 0, 0)
  OBVIOUS
<1>2. s = [SyncDescriptor(r) EXCEPT !.descriptor = <<select>>]
  BY <1>1 DEF Reversing, Instr, Selections, Select
<1>3. PICK old : old = SyncDescriptor(r)
  OBVIOUS
<1>4. /\ ReverserOK(old) /\ Undoing(k, old, g)
      /\ old.list = <<>> /\ old.table = r.table /\ old.descriptor = <<>>
  BY <1>3, DescriptorSynced
<1>5. <<select>> \in PendingDescriptors
  BY <1>1 DEF PendingDescriptors
<1>6. s = [old EXCEPT !.descriptor = <<select>>]
  BY <1>2, <1>3
<1>7. /\ s \in ReverserSet /\ s.table = old.table /\ s.list = <<>> /\ s.out = old.out
  BY <1>4, <1>5, <1>6 DEF ReverserSet, ReverserOK
<1>8. ReverserOK(s)
  BY <1>4, <1>7 DEF ReverserOK
<1>9. TablesOf(s) = TablesOf(old) /\ PlacesOf(k, s) = PlacesOf(k, old)
  BY <1>4, <1>7 DEF TablesOf, PlacesOf
<1>10. Undoing(k, s, g)
  BY <1>4, <1>7, <1>9 DEF Undoing, ListInPlace
<1> QED
  BY <1>4, <1>7, <1>8, <1>10

ListPends(k, s, r, g, c, i) ==
  /\ ReverserOK(s) /\ Undoing(k, s, g)
  /\ s.table = r.table /\ s.list = <<Instr("SelectList", c, i)>>

LEMMA ListRead ==
  ASSUME NEW k, NEW r, ReverserOK(r), NEW g \in GroupSet, Undoing(k, r, g),
         NEW t \in Tables, r.table = <<Instr("SelectTable", t, 0)>>,
         NEW c \in Nat, NEW i \in Nat, ListFound(g, t, c, i),
         NEW s, s = Reversing(r, Instr("SelectList", c, i))
  PROVE  ListPends(k, s, r, g, c, i)
<1>1. PICK select : select = Instr("SelectList", c, i)
  OBVIOUS
<1>2. s = [SyncLinkview(r) EXCEPT !.list = <<select>>]
  BY <1>1 DEF Reversing, Instr, Selections, Select
<1>3. PICK old : old = SyncLinkview(r)
  OBVIOUS
<1>4. /\ ReverserOK(old) /\ Undoing(k, old, g)
      /\ old.list = <<>> /\ old.table = r.table
  BY <1>3, LinkviewSynced
<1>5. <<select>> \in PendingLists
  BY <1>1 DEF PendingLists
<1>6. s = [old EXCEPT !.list = <<select>>]
  BY <1>2, <1>3
<1>7. /\ s \in ReverserSet /\ s.table = r.table /\ s.list = <<select>> /\ s.out = old.out
  BY <1>4, <1>5, <1>6 DEF ReverserSet, ReverserOK
<1>8. r.table # <<>> /\ r.table[1].a = t /\ <<select>> # <<>> /\ <<select>>[1].a = c
      /\ <<select>>[1].b = i
  BY <1>1 DEF Instr
<1>9. ReverserOK(s)
  BY <1>7, <1>8 DEF ReverserOK
<1>10. TablesOf(s) = TablesOf(old) /\ PlacesOf(k, old) = Spots /\ PlacesOf(k, s) \subseteq Spots
  <2>1. TablesOf(s) = TablesOf(old) /\ PlacesOf(k, old) = Spots
    BY <1>4, <1>7 DEF TablesOf, PlacesOf
  <2>2. <<t, i>> \in Spots
    BY DEF Spots
  <2>3. <<s.table[1].a, s.list[1].b>> = <<t, i>>
    BY <1>7, <1>8
  <2>4. PlacesOf(k, s) \in {{<<s.table[1].a, s.list[1].b>>}, Spots}
    BY DEF PlacesOf
  <2> QED
    BY <2>1, <2>2, <2>3, <2>4
<1>11. Undoes(k, s.out, TablesOf(s), PlacesOf(k, s), g)
  BY <1>4, <1>7, <1>10 DEF Undoing, Undoes
<1>12. ListInPlace(k, s, g)
  BY <1>7, <1>8 DEF ListInPlace
<1> QED
  BY <1>1, <1>7, <1>9, <1>11, <1>12 DEF Undoing, ListPends

(* And the inverse of a modification, read: it has to lead back from what    *)
(* the modification made.                                                    *)
LEMMA InverseRead ==
  ASSUME NEW k, NEW r, ReverserOK(r), r.table # <<>>, NEW g, NEW g2, Undoing(k, r, g),
         NEW i \in Backs,
         GoesBack(k, i, TablesOf(r), PlacesOf(k, r), g2, TablesOf(r), PlacesOf(k, r), g),
         ListInPlace(k, r, g2), NEW s, s = Gathered(r, i)
  PROVE  /\ ReverserOK(s) /\ Undoing(k, s, g2)
         /\ s.table = r.table /\ s.list = r.list
<1>1. r \in ReverserSet
  BY DEF ReverserOK
<1>2. Append(r.out, i) \in Seq(Backs)
  BY <1>1, AppendProperties DEF ReverserSet
<1>3. /\ s \in ReverserSet /\ s.table = r.table /\ s.list = r.list
      /\ s.out = Append(r.out, i)
  BY <1>1, <1>2 DEF ReverserSet, Gathered
<1>4. ReverserOK(s)
  BY <1>3 DEF ReverserOK
<1>5. TablesOf(s) = TablesOf(r) /\ PlacesOf(k, s) = PlacesOf(k, r)
  BY <1>3 DEF TablesOf, PlacesOf
<1>6. Undoes(k, Append(r.out, i), TablesOf(r), PlacesOf(k, r), g2)
  <2>1. r.out \in Seq(Backs) /\ Undoes(k, r.out, TablesOf(r), PlacesOf(k, r), g)
    BY <1>1 DEF ReverserSet, Undoing
  <2> QED
    BY <2>1, GatheredUndoes
<1>7. ListInPlace(k, s, g2)
  BY <1>3 DEF ListInPlace
<1> QED
  BY <1>3, <1>4, <1>5, <1>6, <1>7 DEF Undoing

-----------------------------------------------------------------------------
(* What each inverse gives back.                                             *)
LEMMA RowsGoBack ==
  ASSUME NEW k, NEW h \in GroupSet, NEW g \in GroupSet, NEW t \in Tables,
         NEW new \in Seq(RowRecords), NEW back \in Seq(RowRecords),
         Undone(k, h, WithRows(g, t, new)), RowsUndone(k, back, g[t].rows)
  PROVE  WithRows(h, t, back) \in GroupSet /\ Undone(k, WithRows(h, t, back), g)
<1>1. PICK g2 : g2 = WithRows(g, t, new)
  OBVIOUS
<1>2. PICK h2 : h2 = WithRows(h, t, back)
  OBVIOUS
<1>3. h2 \in GroupSet
  BY <1>2 DEF WithRows, GroupSet
<1>4. /\ h2[t].rows = back /\ h2[t].columns = h[t].columns
      /\ g2[t].columns = g[t].columns
      /\ \A u \in Tables : u # t => h2[u] = h[u] /\ g2[u] = g[u]
  BY <1>1, <1>2 DEF WithRows, GroupSet
<1>5. TableUndone(k, h[t], g2[t])
  BY <1>1 DEF Undone
<1>6. TableUndone(k, h2[t], g[t])
  BY <1>4, <1>5 DEF TableUndone
<1>7. Undone(k, h2, g)
  BY <1>1, <1>4, <1>6 DEF Undone
<1> QED
  BY <1>2, <1>3, <1>7

LEMMA ColumnsGoBack ==
  ASSUME NEW k, NEW h \in GroupSet, NEW g \in GroupSet, NEW t \in Tables,
         NEW new \in Seq(Nat), NEW back \in Seq(Nat),
         Undone(k, h, WithColumns(g, t, new)), ColumnsUndone(k, back, g[t].columns)
  PROVE  WithColumns(h, t, back) \in GroupSet /\ Undone(k, WithColumns(h, t, back), g)
<1>1. PICK g2 : g2 = WithColumns(g, t, new)
  OBVIOUS
<1>2. PICK h2 : h2 = WithColumns(h, t, back)
  OBVIOUS
<1>3. h2 \in GroupSet
  BY <1>2 DEF WithColumns, GroupSet
<1>4. /\ h2[t].columns = back /\ h2[t].rows = h[t].rows
      /\ g2[t].rows = g[t].rows
      /\ \A u \in Tables : u # t => h2[u] = h[u] /\ g2[u] = g[u]
  BY <1>1, <1>2 DEF WithColumns, GroupSet
<1>5. TableUndone(k, h[t], g2[t])
  BY <1>1 DEF Undone
<1>6. TableUndone(k, h2[t], g[t])
  BY <1>4, <1>5 DEF TableUndone
<1>7. Undone(k, h2, g)
  BY <1>1, <1>4, <1>6 DEF Undone
<1> QED
  BY <1>2, <1>3, <1>7

(* Set: what a value was is not kept. *)
SameRows(x, y) ==
  Len(x) = Len(y) /\ \A n \in 1 .. Len(x) : x[n].id = y[n].id /\ x[n].links = y[n].links

LEMMA WithValue ==
  ASSUME NEW x \in Seq(RowRecords), NEW i \in 1 .. Len(x), NEW v \in Nat
  PROVE  /\ [x EXCEPT ![i].value = v] \in Seq(RowRecords)
         /\ SameRows([x EXCEPT ![i].value = v], x)
<1>1. PICK rec : rec = [x[i] EXCEPT !.value = v]
  OBVIOUS
<1>2. rec \in RowRecords /\ rec.id = x[i].id /\ rec.links = x[i].links
  <2>1. x[i] \in RowRecords
    OBVIOUS
  <2> QED
    BY <1>1, <2>1 DEF RowRecords
<1>3. PICK x2 : x2 = [x EXCEPT ![i] = rec]
  OBVIOUS
<1>4. x2 \in Seq(RowRecords) /\ Len(x2) = Len(x)
  BY <1>2, <1>3, ExceptSeq
<1>5. \A n \in 1 .. Len(x) : x2[n] = IF n = i THEN rec ELSE x[n]
  BY <1>3
<1>6. SameRows(x2, x)
  BY <1>2, <1>4, <1>5 DEF SameRows
<1>7. [x EXCEPT ![i].value = v] = x2
  BY <1>1, <1>3
<1> QED
  BY <1>4, <1>6, <1>7

LEMMA RowsOfSet ==
  ASSUME NEW k, NEW x, NEW x2, NEW y, NEW y2, Len(x) \in Nat,
         SameRows(x2, x), SameRows(y2, y), RowsUndone(k, x, y2)
  PROVE  RowsUndone(k, x2, y)
BY DEF SameRows, RowsUndone, RowUndone

(* InsertRow: the last row goes, the one inserted.                           *)
LEMMA FrontOf ==
  ASSUME NEW S, NEW rows \in Seq(S)
  PROVE  /\ Front(rows) \in Seq(S)
         /\ Len(Front(rows)) = IF Len(rows) = 0 THEN 0 ELSE Len(rows) - 1
         /\ \A n \in 1 .. Len(Front(rows)) : n \in 1 .. Len(rows) /\ Front(rows)[n] = rows[n]
<1>1. PICK l \in Nat : l = Len(rows)
  OBVIOUS
<1>2. PICK front : front = SubSeq(rows, 1, l - 1)
  OBVIOUS
<1>3. front = Front(rows)
  BY <1>1, <1>2 DEF Front
<1>4. \A n \in 1 .. (l - 1) : rows[n] \in S
  BY <1>1
<1>5. 1 \in Int /\ l - 1 \in Int
  OBVIOUS
<1>6. /\ front \in Seq(S)
      /\ Len(front) = IF 1 <= l - 1 THEN (l - 1) - 1 + 1 ELSE 0
      /\ \A n \in 1 .. (l - 1) - 1 + 1 : front[n] = rows[1 + n - 1]
  BY <1>2, <1>4, <1>5, SubSeqProperties
<1>7. Len(front) = IF l = 0 THEN 0 ELSE l - 1
  BY <1>6
<1>8. ASSUME NEW n \in 1 .. Len(front) PROVE n \in 1 .. l /\ front[n] = rows[n]
  <2>1. n \in 1 .. (l - 1) - 1 + 1 /\ n \in 1 .. l
    BY <1>7
  <2>2. 1 + n - 1 = n
    BY <2>1
  <2> QED
    BY <1>6, <2>1, <2>2
<1> QED
  BY <1>1, <1>3, <1>6, <1>7, <1>8

LEMMA RowsOfInsert ==
  ASSUME NEW k, NEW y \in Seq(RowRecords), NEW y2 \in Seq(RowRecords), y2 = Append(y, NewRow),
         NEW x \in Seq(RowRecords), RowsUndone(k, x, y2)
  PROVE  Front(x) \in Seq(RowRecords) /\ RowsUndone(k, Front(x), y)
<1>1. PICK front \in Seq(RowRecords) : front = Front(x)
  BY FrontOf
<1>2. /\ Len(front) = IF Len(x) = 0 THEN 0 ELSE Len(x) - 1
      /\ \A n \in 1 .. Len(front) : n \in 1 .. Len(x) /\ front[n] = x[n]
  BY <1>1, FrontOf
<1>3. Len(y2) = Len(y) + 1 /\ \A n \in 1 .. Len(y) : y2[n] = y[n]
  BY AppendProperties
<1>4. CASE Len(x) = Len(y2) /\ \A n \in 1 .. Len(x) : RowUndone(k, x[n], y2[n])
  <2>1. Len(front) = Len(y)
    BY <1>2, <1>3, <1>4
  <2>2. \A n \in 1 .. Len(front) : RowUndone(k, front[n], y[n])
    <3> SUFFICES ASSUME NEW n \in 1 .. Len(front) PROVE RowUndone(k, front[n], y[n])
      OBVIOUS
    <3>1. n \in 1 .. Len(x) /\ front[n] = x[n] /\ y2[n] = y[n]
      BY <1>2, <1>3, <2>1
    <3> QED
      BY <1>4, <3>1
  <2> QED
    BY <1>1, <2>1, <2>2 DEF RowsUndone
<1>5. CASE k = "any" /\ \A n \in 1 .. Len(x) : x[n].id = 0
  BY <1>1, <1>2, <1>5 DEF RowsUndone
<1> QED
  BY <1>4, <1>5 DEF RowsUndone

(* EraseRow: a new row takes the place of the one erased, and the row that   *)
(* was moved there goes back to the end.                                     *)
ErasedAt(new, old, i) ==
  /\ Len(old) \in Nat /\ i \in 1 .. Len(old)
  /\ Len(new) = Len(old) - 1
  /\ \A n \in 1 .. Len(new) : new[n] = IF n = i THEN old[Len(old)] ELSE old[n]

LEMMA RowErased ==
  ASSUME NEW S, NEW rows \in Seq(S), NEW i \in 1 .. Len(rows)
  PROVE  EraseUnordered(rows, i) \in Seq(S) /\ ErasedAt(EraseUnordered(rows, i), rows, i)
<1>1. PICK l \in Nat : l = Len(rows)
  OBVIOUS
<1>2. PICK front \in Seq(S) : front = Front(rows)
  BY FrontOf
<1>3. i \in 1 .. l /\ rows[l] \in S
  BY <1>1
<1>4. Len(front) = l - 1 /\ \A n \in 1 .. Len(front) : front[n] = rows[n]
  <2>1. Len(front) = IF Len(rows) = 0 THEN 0 ELSE Len(rows) - 1
    BY <1>2, FrontOf
  <2>2. \A n \in 1 .. Len(front) : n \in 1 .. Len(rows) /\ front[n] = rows[n]
    BY <1>2, FrontOf
  <2> QED
    BY <1>1, <1>3, <2>1, <2>2
<1>5. CASE i = l
  <2>1. EraseUnordered(rows, i) = front
    BY <1>1, <1>2, <1>5 DEF EraseUnordered
  <2>2. \A n \in 1 .. Len(front) : n # i
    BY <1>4, <1>5
  <2> QED
    BY <1>1, <1>2, <1>3, <1>4, <2>1, <2>2 DEF ErasedAt
<1>6. CASE i # l
  <2>1. i \in 1 .. Len(front)
    BY <1>3, <1>4, <1>6
  <2>2. PICK new : new = [front EXCEPT ![i] = rows[l]]
    OBVIOUS
  <2>3. EraseUnordered(rows, i) = new
    BY <1>1, <1>2, <1>6, <2>2 DEF EraseUnordered, Last
  <2>4. new \in Seq(S) /\ Len(new) = l - 1
    BY <1>3, <1>4, <2>1, <2>2, ExceptSeq
  <2>5. \A n \in 1 .. Len(new) : new[n] = IF n = i THEN rows[l] ELSE front[n]
    BY <1>4, <2>2, <2>4
  <2>6. \A n \in 1 .. Len(new) : new[n] = IF n = i THEN rows[l] ELSE rows[n]
    BY <1>4, <2>4, <2>5
  <2> QED
    BY <1>1, <1>3, <2>3, <2>4, <2>6 DEF ErasedAt
<1> QED
  BY <1>5, <1>6

InsertedAt(new, old, i) ==
  /\ Len(new) = Len(old) + 1
  /\ \A n \in 1 .. Len(new) :
       new[n] = IF n = i \/ (n > Len(old) /\ i > Len(old)) THEN NewRow
                ELSE IF n > Len(old) THEN old[i] ELSE old[n]

LEMMA RowInserted ==
  ASSUME NEW rows \in Seq(RowRecords), NEW i \in Nat, i # 0
  PROVE  /\ InsertUnordered(rows, i) \in Seq(RowRecords)
         /\ InsertedAt(InsertUnordered(rows, i), rows, i)
<1>1. PICK l \in Nat : l = Len(rows)
  OBVIOUS
<1>2. NewRow \in RowRecords
  BY DEF NewRow, RowRecords
<1>3. CASE i > l
  <2>1. PICK new \in Seq(RowRecords) : new = Append(rows, NewRow)
    BY <1>2, AppendProperties
  <2>2. Len(new) = l + 1 /\ new[l + 1] = NewRow /\ \A n \in 1 .. l : new[n] = rows[n]
    BY <1>1, <1>2, <2>1, AppendProperties
  <2>3. InsertUnordered(rows, i) = new
    BY <1>1, <1>3, <2>1 DEF InsertUnordered
  <2>4. InsertedAt(new, rows, i)
    BY <1>1, <1>3, <2>2 DEF InsertedAt
  <2> QED
    BY <2>1, <2>3, <2>4
<1>4. CASE ~(i > l)
  <2>1. i \in 1 .. l /\ rows[i] \in RowRecords
    BY <1>1, <1>4
  <2>2. PICK mid : mid = [rows EXCEPT ![i] = NewRow]
    OBVIOUS
  <2>3. mid \in Seq(RowRecords) /\ Len(mid) = l
    BY <1>1, <1>2, <2>1, <2>2, ExceptSeq
  <2>4. \A n \in 1 .. l : mid[n] = IF n = i THEN NewRow ELSE rows[n]
    BY <1>1, <2>2
  <2>5. PICK last \in RowRecords : last = rows[i]
    BY <2>1
  <2>6. PICK new \in Seq(RowRecords) : new = Append(mid, last)
    BY <2>3, AppendProperties
  <2>7. Len(new) = l + 1 /\ new[l + 1] = last /\ \A n \in 1 .. l : new[n] = mid[n]
    BY <2>3, <2>6, AppendProperties
  <2>8. InsertUnordered(rows, i) = new
    BY <1>1, <1>4, <2>2, <2>5, <2>6 DEF InsertUnordered
  <2>9. \A n \in 1 .. l + 1 : new[n] = IF n = i THEN NewRow ELSE IF n > l THEN rows[i] ELSE rows[n]
    <3> SUFFICES ASSUME NEW n \in 1 .. l + 1
                 PROVE  new[n] = IF n = i THEN NewRow ELSE IF n > l THEN rows[i] ELSE rows[n]
      OBVIOUS
    <3>1. CASE n = l + 1
      BY <2>1, <2>5, <2>7, <3>1
    <3>2. CASE n \in 1 .. l
      <4>1. new[n] = IF n = i THEN NewRow ELSE rows[n]
        BY <2>4, <2>7, <3>2
      <4> QED
        BY <3>2, <4>1
    <3> QED
      BY <3>1, <3>2
  <2>10. InsertedAt(new, rows, i)
    <3>1. Len(new) = Len(rows) + 1 /\ ~(i > Len(rows))
      BY <1>1, <1>4, <2>3, <2>7
    <3>2. \A n \in 1 .. Len(new) :
            new[n] = IF n = i THEN NewRow ELSE IF n > Len(rows) THEN rows[i] ELSE rows[n]
      BY <1>1, <2>9, <3>1
    <3> QED
      BY <3>1, <3>2 DEF InsertedAt
  <2> QED
    BY <2>6, <2>8, <2>10
<1> QED
  BY <1>3, <1>4

LEMMA RowsOfErase ==
  ASSUME NEW k, k # "links", NEW y \in Seq(RowRecords), NEW i \in 1 .. Len(y),
         NEW x \in Seq(RowRecords), RowsUndone(k, x, EraseUnordered(y, i))
  PROVE  InsertUnordered(x, i) \in Seq(RowRecords) /\ RowsUndone(k, InsertUnordered(x, i), y)
<1>1. PICK y2 : y2 = EraseUnordered(y, i)
  OBVIOUS
<1>2. ErasedAt(y2, y, i)
  BY <1>1, RowErased
<1>3. i \in Nat /\ i # 0
  OBVIOUS
<1>4. PICK x2 \in Seq(RowRecords) : x2 = InsertUnordered(x, i)
  BY <1>3, RowInserted
<1>5. InsertedAt(x2, x, i)
  BY <1>3, <1>4, RowInserted
<1>6. PICK l \in Nat : l = Len(y) /\ i \in 1 .. l
  OBVIOUS
<1>7. PICK m \in Nat : m = Len(x)
  OBVIOUS
<1>8. /\ Len(y2) = l - 1 /\ \A n \in 1 .. l - 1 : y2[n] = IF n = i THEN y[l] ELSE y[n]
      /\ Len(x2) = m + 1
      /\ \A n \in 1 .. m + 1 : x2[n] = IF n = i \/ (n > m /\ i > m) THEN NewRow
                                       ELSE IF n > m THEN x[i] ELSE x[n]
  BY <1>2, <1>5, <1>6, <1>7 DEF ErasedAt, InsertedAt
<1>9. NewRow.id = 0
  BY DEF NewRow
<1>10. CASE m = l - 1 /\ \A n \in 1 .. m : RowUndone(k, x[n], y2[n])
  <2>1. ASSUME NEW n \in 1 .. l PROVE x2[n].id = 0 \/ x2[n].id = y[n].id
    <3>1. CASE n = i
      <4>1. n \in 1 .. m + 1
        BY <1>10
      <4>2. x2[n] = NewRow
        BY <1>8, <3>1, <4>1
      <4> QED
        BY <1>9, <4>2
    <3>2. CASE n # i /\ n = l
      <4>1. i \in 1 .. l - 1 /\ i \in 1 .. m
        BY <1>6, <1>10, <3>2
      <4>2. x2[n] = x[i] /\ y2[i] = y[l]
        BY <1>8, <1>10, <3>2, <4>1
      <4> QED
        BY <1>10, <3>2, <4>1, <4>2 DEF RowUndone
    <3>3. CASE n # i /\ n # l
      <4>1. n \in 1 .. m /\ n \in 1 .. l - 1
        BY <1>10, <3>3
      <4>2. x2[n] = x[n] /\ y2[n] = y[n]
        BY <1>8, <3>3, <4>1
      <4> QED
        BY <1>10, <4>1, <4>2 DEF RowUndone
    <3> QED
      BY <3>1, <3>2, <3>3
  <2>2. Len(x2) = l /\ \A n \in 1 .. l : RowUndone(k, x2[n], y[n])
    BY <1>8, <1>10, <2>1 DEF RowUndone
  <2> QED
    BY <1>4, <1>6, <2>2 DEF RowsUndone
<1>11. CASE k = "any" /\ \A n \in 1 .. m : x[n].id = 0
  <2>1. ASSUME NEW n \in 1 .. m + 1 PROVE x2[n].id = 0
    BY <1>3, <1>8, <1>9, <1>11, SMTT(40)
  <2> QED
    BY <1>4, <1>8, <1>11, <2>1 DEF RowsUndone
<1> QED
  BY <1>1, <1>6, <1>7, <1>8, <1>10, <1>11 DEF RowsUndone

(* Columns: the one inserted goes; a new one takes the place of the one      *)
(* erased.                                                                   *)
LEMMA ColumnsOfInsert ==
  ASSUME NEW k, k # "links", NEW y \in Seq(Nat), NEW c \in 1 .. Len(y) + 1,
         NEW x \in Seq(Nat), ColumnsUndone(k, x, InsertAt(y, c, 0))
  PROVE  RemoveAt(x, c) \in Seq(Nat) /\ ColumnsUndone(k, RemoveAt(x, c), y)
<1>1. PICK y2 \in Seq(Nat) : y2 = InsertAt(y, c, 0)
  BY OneMore
<1>2. HasOneMore(y2, y, c, 0)
  BY <1>1, OneMore
<1>3. PICK l \in Nat : l = Len(y) /\ c \in 1 .. l + 1 /\ c \in Nat
  OBVIOUS
<1>4. Len(x) = l + 1 /\ \A n \in 1 .. l + 1 : x[n] = y2[n] \/ x[n] = 0
  BY <1>1, <1>2, <1>3 DEF ColumnsUndone, HasOneMore
<1>5. c \in 1 .. Len(x)
  BY <1>3, <1>4
<1>6. PICK x2 \in Seq(Nat) : x2 = RemoveAt(x, c)
  BY <1>5, OneLess
<1>7. HasOneLess(x2, x, c)
  BY <1>5, <1>6, OneLess
<1>8. Len(x2) = l
  <2>1. Len(x2) \in Nat /\ Len(x2) + 1 = l + 1
    BY <1>4, <1>7 DEF HasOneLess
  <2> QED
    BY <2>1
<1>9. ASSUME NEW n \in 1 .. l PROVE x2[n] = y[n] \/ x2[n] = 0
  <2>1. PICK m : m = IF n < c THEN n ELSE n + 1
    OBVIOUS
  <2>2. m \in 1 .. l + 1
    BY <1>3, <2>1
  <2>3. y2[m] = y[n]
    BY <1>2, <1>3, <2>1 DEF HasOneMore
  <2>4. x2[n] = x[m]
    BY <1>7, <1>8, <2>1 DEF HasOneLess
  <2> QED
    BY <1>4, <2>2, <2>3, <2>4
<1>10. Len(x2) = Len(y)
  BY <1>3, <1>8
<1>11. \A n \in 1 .. Len(x2) : x2[n] = y[n] \/ (k # "links" /\ x2[n] = 0)
  BY <1>8, <1>9
<1>12. ColumnsUndone(k, x2, y)
  BY <1>10, <1>11 DEF ColumnsUndone
<1> QED
  BY <1>6, <1>12

LEMMA ColumnsOfErase ==
  ASSUME NEW k, k # "links", NEW y \in Seq(Nat), NEW c \in 1 .. Len(y),
         NEW x \in Seq(Nat), ColumnsUndone(k, x, RemoveAt(y, c))
  PROVE  InsertAt(x, c, 0) \in Seq(Nat) /\ ColumnsUndone(k, InsertAt(x, c, 0), y)
<1>1. PICK y2 \in Seq(Nat) : y2 = RemoveAt(y, c)
  BY OneLess
<1>2. HasOneLess(y2, y, c)
  BY <1>1, OneLess
<1>3. PICK l \in Nat : l = Len(y) /\ c \in 1 .. l /\ c \in Nat
  OBVIOUS
<1>4. PICK m \in Nat : m = Len(x)
  OBVIOUS
<1>5. m + 1 = l /\ \A n \in 1 .. m : x[n] = y2[n] \/ x[n] = 0
  BY <1>1, <1>2, <1>3, <1>4 DEF ColumnsUndone, HasOneLess
<1>6. c \in 1 .. Len(x) + 1
  BY <1>3, <1>4, <1>5
<1>7. PICK x2 \in Seq(Nat) : x2 = InsertAt(x, c, 0)
  BY <1>6, OneMore
<1>8. HasOneMore(x2, x, c, 0)
  BY <1>6, <1>7, OneMore
<1>9. Len(x2) = l /\ \A n \in 1 .. l :
        x2[n] = IF n < c THEN x[n] ELSE IF n = c THEN 0 ELSE x[n - 1]
  BY <1>4, <1>5, <1>8 DEF HasOneMore
<1>10. \A n \in 1 .. m : y2[n] = IF n < c THEN y[n] ELSE y[n + 1]
  <2>1. Len(y2) = m
    <3>1. Len(y2) \in Nat /\ Len(y2) + 1 = l
      BY <1>2, <1>3 DEF HasOneLess
    <3> QED
      BY <1>5, <3>1
  <2> QED
    BY <1>2, <2>1 DEF HasOneLess
<1>11. ASSUME NEW n \in 1 .. l PROVE x2[n] = y[n] \/ x2[n] = 0
  <2>1. CASE n < c
    <3>1. n \in 1 .. m
      BY <1>3, <1>5, <2>1
    <3> QED
      BY <1>5, <1>9, <1>10, <2>1, <3>1
  <2>2. CASE n = c
    BY <1>3, <1>9, <2>2
  <2>3. CASE n > c
    <3>1. PICK j \in 1 .. m : j = n - 1 /\ ~(j < c) /\ j + 1 = n
      BY <1>3, <1>5, <2>3
    <3>2. x2[n] = x[j]
      BY <1>3, <1>9, <2>3, <3>1
    <3>3. y2[j] = y[n]
      BY <1>10, <3>1
    <3> QED
      BY <1>5, <3>2, <3>3
  <2> QED
    BY <1>3, <2>1, <2>2, <2>3
<1>12. Len(x2) = Len(y)
  BY <1>3, <1>9
<1>13. \A n \in 1 .. Len(x2) : x2[n] = y[n] \/ (k # "links" /\ x2[n] = 0)
  BY <1>9, <1>11
<1>14. ColumnsUndone(k, x2, y)
  BY <1>12, <1>13 DEF ColumnsUndone
<1> QED
  BY <1>7, <1>14

(* The links of a list: wherever a list instruction goes, it leaves the rows *)
(* and the columns; where it goes to the list it is for, it gives the links  *)
(* back.                                                                     *)
SameRowIds(x, y) == Len(x) = Len(y) /\ \A n \in 1 .. Len(x) : x[n].id = y[n].id

SameShape(h2, h) ==
  \A u \in Tables : h2[u].columns = h[u].columns /\ SameRowIds(h2[u].rows, h[u].rows)

LEMMA OtherLinks ==
  ASSUME NEW h \in GroupSet, NEW u \in Tables \union {0}, NEW j \in Nat, NEW n,
         u # 0 /\ j \in 1 .. Len(h[u].rows) => n \in Nat
  PROVE  WithLinks(h, u, j, n) \in GroupSet /\ SameShape(WithLinks(h, u, j, n), h)
<1>1. PICK h2 : h2 = WithLinks(h, u, j, n)
  OBVIOUS
<1>2. ASSUME NEW v \in Tables PROVE Len(h[v].rows) \in Nat
  BY DEF GroupSet
<1>3. SameShape(h, h)
  BY DEF SameShape, SameRowIds
<1>4. CASE u = 0
  <2>1. 0 \notin DOMAIN h
    BY TransactLogAssumption DEF GroupSet
  <2>2. h2 = h
    BY <1>1, <1>4, <2>1 DEF WithLinks, GroupSet
  <2> QED
    BY <1>1, <1>3, <2>2
<1>5. CASE u # 0
  <2>1. u \in Tables
    BY <1>5
  <2>2. PICK rows \in Seq(RowRecords) : rows = h[u].rows
    BY <2>1 DEF GroupSet
  <2>3. PICK new : new = [rows EXCEPT ![j].links = n]
    OBVIOUS
  <2>4. new \in Seq(RowRecords) /\ SameRowIds(new, rows)
    <3>1. CASE j \in 1 .. Len(rows)
      <4>1. PICK rec : rec = [rows[j] EXCEPT !.links = n]
        OBVIOUS
      <4>2. rec \in RowRecords /\ rec.id = rows[j].id
        <5>1. rows[j] \in RowRecords /\ n \in Nat
          BY <1>5, <2>2, <3>1
        <5> QED
          BY <4>1, <5>1 DEF RowRecords
      <4>3. PICK with : with = [rows EXCEPT ![j] = rec]
        OBVIOUS
      <4>4. with \in Seq(RowRecords) /\ Len(with) = Len(rows)
        BY <3>1, <4>2, <4>3, ExceptSeq
      <4>5. \A k \in 1 .. Len(rows) : with[k] = IF k = j THEN rec ELSE rows[k]
        BY <4>3
      <4>6. SameRowIds(with, rows)
        BY <4>2, <4>4, <4>5 DEF SameRowIds
      <4>7. new = with
        BY <2>3, <4>1, <4>3
      <4> QED
        BY <4>4, <4>6, <4>7
    <3>2. CASE j \notin 1 .. Len(rows)
      <4>1. new = rows
        BY <2>3, <3>2
      <4> QED
        BY <4>1 DEF SameRowIds
    <3> QED
      BY <3>1, <3>2
  <2>5. h2 = WithRows(h, u, new)
    BY <1>1, <2>2, <2>3 DEF WithLinks, WithRows
  <2>6. /\ h2[u].rows = new /\ h2[u].columns = h[u].columns
        /\ \A v \in Tables : v # u => h2[v] = h[v]
    BY <2>1, <2>5 DEF WithRows, GroupSet
  <2>7. h2 \in GroupSet
    BY <2>1, <2>4, <2>5 DEF WithRows, GroupSet
  <2>8. SameShape(h2, h)
    BY <1>3, <2>2, <2>4, <2>6 DEF SameShape
  <2> QED
    BY <1>1, <2>7, <2>8
<1> QED
  BY <1>4, <1>5

LEMMA ShapeUndone ==
  ASSUME NEW k, k # "links", NEW h \in GroupSet, NEW h2, NEW g, NEW g2,
         SameShape(h2, h), SameShape(g2, g), Undone(k, h, g2)
  PROVE  Undone(k, h2, g)
<1> SUFFICES ASSUME NEW u \in Tables PROVE TableUndone(k, h2[u], g[u])
  BY DEF Undone
<1>1. /\ h2[u].columns = h[u].columns /\ SameRowIds(h2[u].rows, h[u].rows)
      /\ g2[u].columns = g[u].columns /\ SameRowIds(g2[u].rows, g[u].rows)
  BY DEF SameShape
<1>2. TableUndone(k, h[u], g2[u])
  BY DEF Undone
<1>3. Len(h[u].rows) \in Nat
  BY DEF GroupSet
<1>4. RowsUndone(k, h2[u].rows, g[u].rows)
  BY <1>1, <1>2, <1>3 DEF TableUndone, RowsUndone, RowUndone, SameRowIds
<1> QED
  BY <1>1, <1>2, <1>4 DEF TableUndone

(* What the inverses make of the links of a list.                            *)
Undo(op, links) ==
  CASE op = "ListInsert" -> links + 1
    [] op = "ListErase" -> IF links = 0 THEN 0 ELSE links - 1

LEMMA ListUndone ==
  ASSUME NEW h \in GroupSet, NEW t, NEW u \in Tables \union {0}, NEW j \in Nat,
         NEW op \in {"ListInsert", "ListErase"}, NEW a, Attached(<<u, j>>)
  PROVE  Apply(State(h, t, <<u, j>>), Instr(op, a, 0))
           = State(WithLinks(h, u, j, Undo(op, h[u].rows[j].links)), t, <<u, j>>)
<1>1. CASE op = "ListInsert"
  BY <1>1 DEF State, WithLinks, Instr, Apply, ApplyList, Undo
<1>2. CASE op = "ListErase"
  BY <1>2 DEF State, WithLinks, Instr, Apply, ApplyList, Undo
<1> QED
  BY <1>1, <1>2

LinksAre(x2, x, j, n) ==
  /\ Len(x2) = Len(x)
  /\ \A i \in 1 .. Len(x) :
       x2[i].id = x[i].id /\ x2[i].links = IF i = j THEN n ELSE x[i].links

LEMMA RowWithLinks ==
  ASSUME NEW x \in Seq(RowRecords), NEW j \in 1 .. Len(x), NEW n
  PROVE  LinksAre([x EXCEPT ![j].links = n], x, j, n)
<1>1. PICK rec : rec = [x[j] EXCEPT !.links = n]
  OBVIOUS
<1>2. rec.id = x[j].id /\ rec.links = n
  <2>1. x[j] \in RowRecords
    OBVIOUS
  <2> QED
    BY <1>1, <2>1 DEF RowRecords
<1>3. PICK x2 : x2 = [x EXCEPT ![j] = rec]
  OBVIOUS
<1>4. Len(x2) = Len(x) /\ \A i \in 1 .. Len(x) : x2[i] = IF i = j THEN rec ELSE x[i]
  BY <1>3
<1>5. LinksAre(x2, x, j, n)
  BY <1>2, <1>4 DEF LinksAre
<1>6. [x EXCEPT ![j].links = n] = x2
  BY <1>1, <1>3
<1> QED
  BY <1>5, <1>6

LEMMA LinksGoBack ==
  ASSUME NEW k, NEW g \in GroupSet, NEW h \in GroupSet,
         NEW u \in Tables, NEW j \in 1 .. Len(g[u].rows), NEW m \in Nat, NEW n,
         n = g[u].rows[j].links, Undone("links", h, WithLinks(g, u, j, m))
  PROVE  /\ h[u].rows[j].links = m
         /\ Undone("links", WithLinks(h, u, j, n), g)
<1>1. PICK y \in Seq(RowRecords) : y = g[u].rows
  BY DEF GroupSet
<1>2. PICK x \in Seq(RowRecords) : x = h[u].rows
  BY DEF GroupSet
<1>3. PICK y2 : y2 = [y EXCEPT ![j].links = m]
  OBVIOUS
<1>4. PICK g2 : g2 = WithRows(g, u, y2)
  OBVIOUS
<1>5. g2 = WithLinks(g, u, j, m)
  BY <1>1, <1>3, <1>4 DEF WithLinks, WithRows
<1>6. PICK x2 : x2 = [x EXCEPT ![j].links = n]
  OBVIOUS
<1>7. PICK h2 : h2 = WithRows(h, u, x2)
  OBVIOUS
<1>8. h2 = WithLinks(h, u, j, n)
  BY <1>2, <1>6, <1>7 DEF WithLinks, WithRows
<1>9. /\ h2[u].rows = x2 /\ h2[u].columns = h[u].columns
      /\ g2[u].rows = y2 /\ g2[u].columns = g[u].columns
      /\ \A v \in Tables : v # u => h2[v] = h[v] /\ g2[v] = g[v]
  BY <1>4, <1>7 DEF WithRows, GroupSet
<1>10. TableUndone("links", h[u], g2[u])
  BY <1>5 DEF Undone
<1>11. LinksAre(y2, y, j, m) /\ Len(y) \in Nat /\ j \in 1 .. Len(y)
  <2>1. j \in 1 .. Len(y)
    BY <1>1
  <2>2. LinksAre([y EXCEPT ![j].links = m], y, j, m)
    BY <2>1, RowWithLinks
  <2> QED
    BY <1>3, <2>1, <2>2
<1>12. Len(x) = Len(y) /\ \A i \in 1 .. Len(y) : RowUndone("links", x[i], y2[i])
  BY <1>2, <1>9, <1>10, <1>11 DEF TableUndone, RowsUndone, LinksAre
<1>13. LinksAre(x2, x, j, n)
  BY <1>6, <1>11, <1>12, RowWithLinks
<1>18. x[j].links = m
  BY <1>11, <1>12 DEF RowUndone, LinksAre
<1>19. ASSUME NEW i \in 1 .. Len(y) PROVE RowUndone("links", x2[i], y[i])
  BY <1>1, <1>11, <1>12, <1>13 DEF RowUndone, LinksAre
<1>21. RowsUndone("links", x2, y)
  BY <1>12, <1>13, <1>19 DEF RowsUndone, LinksAre
<1>22. TableUndone("links", h2[u], g[u])
  BY <1>1, <1>9, <1>10, <1>21 DEF TableUndone
<1>23. Undone("links", h2, g)
  BY <1>5, <1>9, <1>22 DEF Undone
<1> QED
  BY <1>2, <1>8, <1>18, <1>23

(* One link of a list given back, by the inverse of inserting or erasing it. *)
LEMMA LinkGoesBack ==
  ASSUME NEW k, NEW g \in GroupSet, NEW u \in Tables, NEW j \in 1 .. Len(g[u].rows),
         NEW m \in Nat, NEW op \in {"ListInsert", "ListErase"}, NEW a,
         g[u].rows[j].links = Undo(op, m),
         NEW Ts, NEW Ps \in SUBSET Spots, k = "links" => Ps = {<<u, j>>}
  PROVE  GoesBack(k, Instr(op, a, 0), Ts, Ps, WithLinks(g, u, j, m), Ts, Ps, g)
<1> SUFFICES ASSUME NEW h \in GroupSet, NEW t \in Ts, NEW p \in Ps,
                    Undone(k, h, WithLinks(g, u, j, m))
             PROVE  \E h2 \in GroupSet :
                      /\ Apply(State(h, t, p), Instr(op, a, 0)) = State(h2, t, p)
                      /\ Undone(k, h2, g)
  BY DEF GoesBack
<1>1. j \in Nat /\ u # 0
  BY TransactLogAssumption
<1>2. SameShape(WithLinks(g, u, j, m), g)
  BY <1>1, OtherLinks
<1>3. PICK v \in Tables \union {0}, i \in Nat : p = <<v, i>>
  BY DEF Spots
<1>4. CASE k = "links"
  <2>1. p = <<u, j>> /\ Undone("links", h, WithLinks(g, u, j, m))
    BY <1>4
  <2>2. PICK n : n = g[u].rows[j].links
    OBVIOUS
  <2>3. h[u].rows[j].links = m /\ Undone("links", WithLinks(h, u, j, n), g)
    BY <2>1, <2>2, LinksGoBack
  <2>4. Attached(<<u, j>>)
    BY <1>1 DEF Attached, None, Detached
  <2>5. Apply(State(h, t, <<u, j>>), Instr(op, a, 0))
          = State(WithLinks(h, u, j, Undo(op, h[u].rows[j].links)), t, <<u, j>>)
    <3>1. v = u /\ i = j
      BY <1>3, <2>1
    <3>2. Apply(State(h, t, <<v, i>>), Instr(op, a, 0))
            = State(WithLinks(h, v, i, Undo(op, h[v].rows[i].links)), t, <<v, i>>)
      <4>1. Attached(<<v, i>>)
        BY <2>4, <3>1
      <4> QED
        BY <4>1, ListUndone, SMTT(60)
    <3> QED
      BY <3>1, <3>2
  <2>6. Undo(op, h[u].rows[j].links) = n
    BY <2>2, <2>3
  <2>7. n \in Nat
    <3>1. g[u].rows \in Seq(RowRecords)
      BY DEF GroupSet
    <3>2. g[u].rows[j] \in RowRecords
      BY <3>1
    <3> QED
      BY <2>2, <3>2 DEF RowRecords
  <2>8. WithLinks(h, u, j, n) \in GroupSet
    BY <1>1, <2>7, OtherLinks
  <2> QED
    BY <1>4, <2>1, <2>3, <2>5, <2>6, <2>8
<1>5. CASE k # "links" /\ ~Attached(p)
  <2>1. Apply(State(h, t, p), Instr(op, a, 0)) = State(h, t, p)
    BY <1>5 DEF State, Instr, Apply, ApplyList
  <2>2. SameShape(h, h)
    BY DEF SameShape, SameRowIds
  <2>3. Undone(k, h, g)
    BY <1>2, <1>5, <2>2, ShapeUndone
  <2> QED
    BY <2>1, <2>3
<1>6. CASE k # "links" /\ Attached(p)
  <2>1. PICK n : n = Undo(op, h[v].rows[i].links)
    OBVIOUS
  <2>2. Apply(State(h, t, p), Instr(op, a, 0)) = State(WithLinks(h, v, i, n), t, p)
    BY <1>3, <1>6, <2>1, ListUndone
  <2>3. v # 0 /\ i \in 1 .. Len(h[v].rows) => n \in Nat
    <3> SUFFICES ASSUME v \in Tables, i \in 1 .. Len(h[v].rows) PROVE n \in Nat
      OBVIOUS
    <3>1. h[v].rows \in Seq(RowRecords)
      BY DEF GroupSet
    <3>2. h[v].rows[i] \in RowRecords
      BY <3>1
    <3>3. h[v].rows[i].links \in Nat
      BY <3>2 DEF RowRecords
    <3>4. PICK l \in Nat : l = h[v].rows[i].links
      BY <3>3
    <3>5. Undo(op, l) \in Nat
      BY DEF Undo
    <3> QED
      BY <2>1, <3>4, <3>5
  <2>4. WithLinks(h, v, i, n) \in GroupSet /\ SameShape(WithLinks(h, v, i, n), h)
    BY <2>3, OtherLinks
  <2>5. Undone(k, WithLinks(h, v, i, n), g)
    BY <1>2, <1>6, <2>4, ShapeUndone
  <2> QED
    BY <2>2, <2>4, <2>5
<1> QED
  BY <1>4, <1>5, <1>6

(* The inverses of the modifications of rows and of columns, at the table.   *)
StateWith(s, t, rows, q) == [s EXCEPT !.group[t].rows = rows, !.list = q]

LEMMA RowsReplacedInState ==
  ASSUME NEW g \in GroupSet, NEW t \in Tables, NEW place, NEW rows, NEW q
  PROVE  StateWith(State(g, t, place), t, rows, q) = State(WithRows(g, t, rows), t, q)
<1>1. PICK s : s = State(g, t, place)
  OBVIOUS
<1>2. PICK e : e = [s EXCEPT !.group[t].rows = rows, !.list = q]
  OBVIOUS
<1>3. PICK g2 : g2 = [g EXCEPT ![t].rows = rows]
  OBVIOUS
<1>4. e.list = q
  BY <1>1, <1>2 DEF State
<1>5. e.table = t
  BY <1>1, <1>2 DEF State
<1>6. e.group = g2
  BY <1>1, <1>2, <1>3 DEF State
<1>7. e = [group |-> e.group, table |-> e.table, list |-> e.list]
  BY <1>1, <1>2 DEF State
<1> QED
  BY <1>1, <1>2, <1>3, <1>4, <1>5, <1>6, <1>7 DEF State, WithRows, StateWith

LEMMA ApplyEraseLast ==
  ASSUME NEW g \in GroupSet, NEW t \in Tables, NEW place, NEW a, NEW b
  PROVE  Apply(State(g, t, place), Instr("EraseLastRow", a, b))
           = State(WithRows(g, t, Front(g[t].rows)), t,
                   AfterErase(place, t, Len(g[t].rows), Len(g[t].rows)))
<1>1. PICK s : s = State(g, t, place)
  OBVIOUS
<1>2. PICK instr : instr = Instr("EraseLastRow", a, b)
  OBVIOUS
<1>3. PICK rows : rows = Front(g[t].rows)
  OBVIOUS
<1>4. PICK q : q = AfterErase(place, t, Len(g[t].rows), Len(g[t].rows))
  OBVIOUS
<1>5. s.table = t /\ s.group = g /\ s.list = place /\ instr.op = "EraseLastRow" /\ instr.a = a
  BY <1>1, <1>2 DEF State, Instr
<1>6. Apply(s, instr) = ApplyRows(s, instr)
  BY <1>5 DEF Apply
<1>7. ApplyRows(s, instr) = StateWith(s, t, rows, q)
  BY <1>3, <1>4, <1>5 DEF ApplyRows, StateWith
<1>8. StateWith(s, t, rows, q) = State(WithRows(g, t, rows), t, q)
  BY <1>1, RowsReplacedInState
<1> QED
  BY <1>1, <1>2, <1>3, <1>4, <1>6, <1>7, <1>8

LEMMA ApplyInsertUnordered ==
  ASSUME NEW g \in GroupSet, NEW t \in Tables, NEW place, NEW i, NEW b
  PROVE  Apply(State(g, t, place), Instr("InsertUnordered", i, b))
           = State(WithRows(g, t, InsertUnordered(g[t].rows, i)), t,
                   AfterInsert(place, t, i, Len(g[t].rows)))
<1>1. PICK s : s = State(g, t, place)
  OBVIOUS
<1>2. PICK instr : instr = Instr("InsertUnordered", i, b)
  OBVIOUS
<1>3. PICK rows : rows = InsertUnordered(g[t].rows, i)
  OBVIOUS
<1>4. PICK q : q = AfterInsert(place, t, i, Len(g[t].rows))
  OBVIOUS
<1>5. s.table = t /\ s.group = g /\ s.list = place /\ instr.op = "InsertUnordered" /\ instr.a = i
  BY <1>1, <1>2 DEF State, Instr
<1>6. Apply(s, instr) = ApplyRows(s, instr)
  BY <1>5 DEF Apply
<1>7. ApplyRows(s, instr) = StateWith(s, t, rows, q)
  BY <1>3, <1>4, <1>5 DEF ApplyRows, StateWith
<1>8. StateWith(s, t, rows, q) = State(WithRows(g, t, rows), t, q)
  BY <1>1, RowsReplacedInState
<1> QED
  BY <1>1, <1>2, <1>3, <1>4, <1>6, <1>7, <1>8

LEMMA ApplySetNowhere ==
  ASSUME NEW g \in GroupSet, NEW t \in Tables, NEW place, NEW i, i \notin DOMAIN g[t].rows
  PROVE  Apply(State(g, t, place), Instr("Set", i, 1)) = State(g, t, place)
<1>1. PICK s : s = State(g, t, place)
  OBVIOUS
<1>2. PICK instr : instr = Instr("Set", i, 1)
  OBVIOUS
<1>3. s.table = t /\ s.group = g /\ instr.op = "Set" /\ instr.a = i
  BY <1>1, <1>2 DEF State, Instr
<1>4. Apply(s, instr) = ApplyRows(s, instr)
  BY <1>3 DEF Apply
<1>5. ApplyRows(s, instr) = s
  BY <1>3 DEF ApplyRows
<1> QED
  BY <1>1, <1>2, <1>4, <1>5

SetApplies(g, t, place, i) ==
  Apply(State(g, t, place), Instr("Set", i, 1))
    = State([g EXCEPT ![t].rows[i].value = 1], t, place)

LEMMA SetSomewhere ==
  ASSUME NEW g \in GroupSet, NEW t \in Tables, NEW place, NEW i \in 1 .. Len(g[t].rows)
  PROVE  SetApplies(g, t, place, i)
BY ApplySet DEF SetApplies

LEMMA SetGoesBack ==
  ASSUME NEW k, NEW g \in GroupSet, NEW t \in Tables, NEW i \in 1 .. Len(g[t].rows), NEW Ps,
         NEW g2, g2 = [g EXCEPT ![t].rows[i].value = 1]
  PROVE  GoesBack(k, Instr("Set", i, 1), {t}, Ps, g2, {t}, Ps, g)
<1> SUFFICES ASSUME NEW h \in GroupSet, NEW p \in Ps, Undone(k, h, g2)
             PROVE  \E h2 \in GroupSet :
                      /\ Apply(State(h, t, p), Instr("Set", i, 1)) = State(h2, t, p)
                      /\ Undone(k, h2, g)
  BY DEF GoesBack
<1>1. PICK y \in Seq(RowRecords) : y = g[t].rows
  BY DEF GroupSet
<1>2. PICK x \in Seq(RowRecords) : x = h[t].rows
  BY DEF GroupSet
<1>3. PICK y2 : y2 = [y EXCEPT ![i].value = 1]
  OBVIOUS
<1>4. y2 \in Seq(RowRecords) /\ SameRows(y2, y)
  <2>1. i \in 1 .. Len(y) /\ 1 \in Nat
    BY <1>1
  <2>2. [y EXCEPT ![i].value = 1] \in Seq(RowRecords) /\ SameRows([y EXCEPT ![i].value = 1], y)
    BY <2>1, WithValue
  <2> QED
    BY <1>3, <2>2
<1>5. g2 = WithRows(g, t, y2)
  BY <1>1, <1>3 DEF WithRows
<1>6. RowsUndone(k, x, y2)
  <2>1. TableUndone(k, h[t], g2[t])
    BY DEF Undone
  <2>2. g2[t].rows = y2
    BY <1>5 DEF WithRows, GroupSet
  <2> QED
    BY <1>2, <2>1, <2>2 DEF TableUndone
<1>7. CASE i \in DOMAIN x
  <2>1. PICK x2 : x2 = [x EXCEPT ![i].value = 1]
    OBVIOUS
  <2>2. x2 \in Seq(RowRecords) /\ SameRows(x2, x)
    <3>1. i \in 1 .. Len(x) /\ 1 \in Nat
      BY <1>7
    <3>2. [x EXCEPT ![i].value = 1] \in Seq(RowRecords) /\ SameRows([x EXCEPT ![i].value = 1], x)
      BY <3>1, WithValue
    <3> QED
      BY <2>1, <3>2
  <2>3. RowsUndone(k, x2, y)
    BY <1>4, <1>6, <2>2, RowsOfSet, LenProperties
  <2>4. WithRows(h, t, x2) \in GroupSet /\ Undone(k, WithRows(h, t, x2), g)
    BY <1>1, <1>4, <1>5, <2>2, <2>3, RowsGoBack
  <2>5. Apply(State(h, t, p), Instr("Set", i, 1)) = State(WithRows(h, t, x2), t, p)
    <3>1. i \in 1 .. Len(h[t].rows)
      BY <1>2, <1>7
    <3>2. Apply(State(h, t, p), Instr("Set", i, 1))
            = State([h EXCEPT ![t].rows[i].value = 1], t, p)
      <4>1. SetApplies(h, t, p, i)
        BY <3>1, SetSomewhere
      <4> QED
        BY <4>1, Zenon DEF SetApplies
    <3>3. [h EXCEPT ![t].rows[i].value = 1] = WithRows(h, t, x2)
      BY <1>2, <2>1 DEF WithRows
    <3> QED
      BY <3>2, <3>3
  <2> QED
    BY <2>4, <2>5
<1>8. CASE i \notin DOMAIN x
  <2>1. Apply(State(h, t, p), Instr("Set", i, 1)) = State(h, t, p)
    BY <1>2, <1>8, ApplySetNowhere
  <2>2. SameRows(x, x)
    BY DEF SameRows
  <2>3. RowsUndone(k, x, y)
    BY <1>4, <1>6, <2>2, RowsOfSet, LenProperties
  <2>4. WithRows(h, t, x) \in GroupSet /\ Undone(k, WithRows(h, t, x), g)
    BY <1>1, <1>4, <1>5, <2>3, RowsGoBack
  <2>5. WithRows(h, t, x) = h
    BY <1>2 DEF WithRows, GroupSet
  <2> QED
    BY <2>1, <2>4, <2>5
<1> QED
  BY <1>7, <1>8

LEMMA InsertGoesBack ==
  ASSUME NEW k, NEW g \in GroupSet, NEW t \in Tables, NEW a, NEW b, NEW Ps,
         \/ Ps = Spots
         \/ k = "links" /\ \E u \in Tables, j \in Nat :
              Ps = {<<u, j>>} /\ (u = t => j \in 1 .. Len(g[t].rows)),
         NEW g2, g2 = WithRows(g, t, Append(g[t].rows, NewRow))
  PROVE  GoesBack(k, Instr("EraseLastRow", a, b), {t}, Ps, g2, {t}, Ps, g)
<1> SUFFICES ASSUME NEW h \in GroupSet, NEW p \in Ps, Undone(k, h, g2)
             PROVE  \E h2 \in GroupSet, q \in Ps :
                      /\ Apply(State(h, t, p), Instr("EraseLastRow", a, b)) = State(h2, t, q)
                      /\ Undone(k, h2, g)
  BY DEF GoesBack
<1>1. PICK y \in Seq(RowRecords) : y = g[t].rows
  BY DEF GroupSet
<1>2. PICK x \in Seq(RowRecords) : x = h[t].rows
  BY DEF GroupSet
<1>3. PICK y2 \in Seq(RowRecords) : y2 = Append(y, NewRow)
  <2>1. NewRow \in RowRecords
    BY DEF NewRow, RowRecords
  <2> QED
    BY <2>1, AppendProperties
<1>4. g2 = WithRows(g, t, y2)
  BY <1>1, <1>3
<1>5. RowsUndone(k, x, y2)
  <2>1. TableUndone(k, h[t], g2[t])
    BY DEF Undone
  <2>2. g2[t].rows = y2
    BY <1>4 DEF WithRows, GroupSet
  <2> QED
    BY <1>2, <2>1, <2>2 DEF TableUndone
<1>6. PICK x2 \in Seq(RowRecords) : x2 = Front(x)
  BY FrontOf
<1>7. RowsUndone(k, x2, y)
  BY <1>3, <1>5, <1>6, RowsOfInsert
<1>8. WithRows(h, t, x2) \in GroupSet /\ Undone(k, WithRows(h, t, x2), g)
  BY <1>1, <1>4, <1>7, RowsGoBack
<1>9. PICK n \in Nat : n = Len(x)
  OBVIOUS
<1>10. PICK q : q = AfterErase(p, t, n, n)
  OBVIOUS
<1>11. Apply(State(h, t, p), Instr("EraseLastRow", a, b)) = State(WithRows(h, t, x2), t, q)
  BY <1>2, <1>6, <1>9, <1>10, ApplyEraseLast
<1>12. q \in Ps
  <2>1. CASE Ps = Spots
    <3>1. Detached \in Spots /\ <<t, n>> \in Spots
      BY DEF Detached, Spots
    <3> QED
      BY <1>10, <2>1, <3>1 DEF AfterErase
  <2>2. CASE Ps # Spots
    <3>1. k = "links" /\ \E u \in Tables, j \in Nat :
             Ps = {<<u, j>>} /\ (u = t => j \in 1 .. Len(g[t].rows))
      BY <2>2
    <3>2. PICK u \in Tables, j \in Nat :
             Ps = {<<u, j>>} /\ (u = t => j \in 1 .. Len(g[t].rows))
      BY <3>1
    <3>3. n = Len(y) + 1
      <4>1. Len(x) = Len(y2)
        BY <1>5, <3>1 DEF RowsUndone
      <4>2. Len(y2) = Len(y) + 1
        BY <1>3, AppendProperties
      <4> QED
        BY <1>9, <4>1, <4>2
    <3>4. u # t \/ j # n
      BY <1>1, <3>2, <3>3
    <3>5. p = <<u, j>> /\ p # <<t, n>>
      BY <3>2, <3>4
    <3>6. q = p
      BY <1>10, <3>5 DEF AfterErase
    <3> QED
      BY <3>6
  <2> QED
    BY <2>1, <2>2
<1> QED
  BY <1>8, <1>11, <1>12

LEMMA EraseGoesBack ==
  ASSUME NEW k, k # "links", NEW g \in GroupSet, NEW t \in Tables,
         NEW i \in 1 .. Len(g[t].rows), NEW b,
         NEW g2, g2 = WithRows(g, t, EraseUnordered(g[t].rows, i))
  PROVE  GoesBack(k, Instr("InsertUnordered", i, b), {t}, Spots, g2, {t}, Spots, g)
<1> SUFFICES ASSUME NEW h \in GroupSet, NEW p \in Spots, Undone(k, h, g2)
             PROVE  \E h2 \in GroupSet, q \in Spots :
                      /\ Apply(State(h, t, p), Instr("InsertUnordered", i, b)) = State(h2, t, q)
                      /\ Undone(k, h2, g)
  BY DEF GoesBack
<1>1. PICK y \in Seq(RowRecords) : y = g[t].rows
  BY DEF GroupSet
<1>2. PICK x \in Seq(RowRecords) : x = h[t].rows
  BY DEF GroupSet
<1>3. i \in 1 .. Len(y) /\ i \in Nat /\ i # 0
  BY <1>1
<1>4. PICK y2 \in Seq(RowRecords) : y2 = EraseUnordered(y, i)
  BY <1>3, RowErased
<1>5. g2 = WithRows(g, t, y2)
  BY <1>1, <1>4
<1>6. RowsUndone(k, x, y2)
  <2>1. TableUndone(k, h[t], g2[t])
    BY DEF Undone
  <2>2. g2[t].rows = y2
    BY <1>5 DEF WithRows, GroupSet
  <2> QED
    BY <1>2, <2>1, <2>2 DEF TableUndone
<1>7. PICK x2 \in Seq(RowRecords) : x2 = InsertUnordered(x, i)
  BY <1>3, RowInserted
<1>8. RowsUndone(k, x2, y)
  BY <1>3, <1>4, <1>6, <1>7, RowsOfErase
<1>9. WithRows(h, t, x2) \in GroupSet /\ Undone(k, WithRows(h, t, x2), g)
  BY <1>1, <1>5, <1>8, RowsGoBack
<1>10. PICK q : q = AfterInsert(p, t, i, Len(x))
  OBVIOUS
<1>11. Apply(State(h, t, p), Instr("InsertUnordered", i, b)) = State(WithRows(h, t, x2), t, q)
  BY <1>2, <1>7, <1>10, ApplyInsertUnordered
<1>12. q \in Spots
  <2>1. Len(x) + 1 \in Nat
    OBVIOUS
  <2>2. <<t, Len(x) + 1>> \in Spots
    BY <2>1 DEF Spots
  <2> QED
    BY <1>10, <2>2 DEF AfterInsert
<1> QED
  BY <1>9, <1>11, <1>12

(* A table that was cleared has no rows, or only new ones: in any case.      *)
LEMMA ClearGoesBack ==
  ASSUME NEW g \in GroupSet, NEW t \in Tables, NEW a, NEW b, NEW Ts, NEW Ps,
         NEW g2, g2 = WithRows(g, t, <<>>)
  PROVE  GoesBack("any", Instr("Nothing", a, b), Ts, Ps, g2, Ts, Ps, g)
<1>0. PICK inv : inv = Instr("Nothing", a, b)
  OBVIOUS
<1> SUFFICES ASSUME NEW h \in GroupSet, NEW u \in Ts, NEW p \in Ps, Undone("any", h, g2)
             PROVE  Apply(State(h, u, p), inv) = State(h, u, p) /\ Undone("any", h, g)
  BY <1>0, Zenon DEF GoesBack
<1>1. Apply(State(h, u, p), inv) = State(h, u, p)
  <2>1. PICK s : s = State(h, u, p)
    OBVIOUS
  <2>2. inv.op = "Nothing"
    BY <1>0 DEF Instr
  <2>3. Apply(s, inv) = ApplyRows(s, inv)
    BY <2>2 DEF Apply
  <2>4. ApplyRows(s, inv) = s
    BY <2>2 DEF ApplyRows
  <2> QED
    BY <2>1, <2>3, <2>4
<1>2. PICK x \in Seq(RowRecords) : x = h[t].rows
  BY DEF GroupSet
<1>3. g2[t].rows = <<>>
  BY DEF WithRows, GroupSet
<1>4. RowsUndone("any", x, <<>>)
  BY <1>2, <1>3 DEF Undone, TableUndone
<1>5. \A n \in 1 .. Len(x) : x[n].id = 0
  <2>1. Len(<<>>) = 0
    OBVIOUS
  <2>2. Len(x) = 0 => 1 .. Len(x) = {}
    OBVIOUS
  <2> QED
    BY <1>4, <2>1, <2>2 DEF RowsUndone
<1>6. RowsUndone("any", x, g[t].rows)
  BY <1>5 DEF RowsUndone
<1>7. <<>> \in Seq(RowRecords)
  BY EmptySeq
<1>8. WithRows(h, t, x) \in GroupSet /\ Undone("any", WithRows(h, t, x), g)
  BY <1>6, <1>7, RowsGoBack
<1>9. WithRows(h, t, x) = h
  BY <1>2 DEF WithRows, GroupSet
<1> QED
  BY <1>1, <1>8, <1>9

LEMMA InsertedColumnGoesBack ==
  ASSUME NEW k, k # "links", NEW g \in GroupSet, NEW t \in Tables,
         NEW c \in 1 .. Len(g[t].columns) + 1, NEW Ps,
         NEW g2, g2 = WithColumns(g, t, InsertAt(g[t].columns, c, 0))
  PROVE  GoesBack(k, Instr("EraseColumn", c, 0), {t}, Ps, g2, {t}, Ps, g)
<1> SUFFICES ASSUME NEW h \in GroupSet, NEW p \in Ps, Undone(k, h, g2)
             PROVE  \E h2 \in GroupSet :
                      /\ Apply(State(h, t, p), Instr("EraseColumn", c, 0)) = State(h2, t, p)
                      /\ Undone(k, h2, g)
  BY DEF GoesBack
<1>1. PICK y \in Seq(Nat) : y = g[t].columns
  BY DEF GroupSet
<1>2. PICK x \in Seq(Nat) : x = h[t].columns
  BY DEF GroupSet
<1>3. c \in 1 .. Len(y) + 1
  BY <1>1
<1>4. PICK y2 \in Seq(Nat) : y2 = InsertAt(y, c, 0)
  BY <1>3, OneMore
<1>5. g2 = WithColumns(g, t, y2)
  BY <1>1, <1>4
<1>6. ColumnsUndone(k, x, y2)
  <2>1. TableUndone(k, h[t], g2[t])
    BY DEF Undone
  <2>2. g2[t].columns = y2
    BY <1>5 DEF WithColumns, GroupSet
  <2> QED
    BY <1>2, <2>1, <2>2 DEF TableUndone
<1>7. PICK x2 : x2 = RemoveAt(x, c)
  OBVIOUS
<1>8. x2 \in Seq(Nat) /\ ColumnsUndone(k, x2, y)
  BY <1>3, <1>4, <1>6, <1>7, ColumnsOfInsert
<1>9. WithColumns(h, t, x2) \in GroupSet /\ Undone(k, WithColumns(h, t, x2), g)
  BY <1>1, <1>5, <1>8, ColumnsGoBack
<1>10. ColumnChanges(h, t, p, c)
  BY ApplyColumn
<1>11. Apply(State(h, t, p), Instr("EraseColumn", c, 0)) = State(WithColumns(h, t, x2), t, p)
  BY <1>2, <1>7, <1>10 DEF ColumnChanges, WithColumns
<1> QED
  BY <1>9, <1>11

LEMMA ErasedColumnGoesBack ==
  ASSUME NEW k, k # "links", NEW g \in GroupSet, NEW t \in Tables,
         NEW c \in 1 .. Len(g[t].columns), NEW Ps,
         NEW g2, g2 = WithColumns(g, t, RemoveAt(g[t].columns, c))
  PROVE  GoesBack(k, Instr("InsertColumn", c, 0), {t}, Ps, g2, {t}, Ps, g)
<1> SUFFICES ASSUME NEW h \in GroupSet, NEW p \in Ps, Undone(k, h, g2)
             PROVE  \E h2 \in GroupSet :
                      /\ Apply(State(h, t, p), Instr("InsertColumn", c, 0)) = State(h2, t, p)
                      /\ Undone(k, h2, g)
  BY DEF GoesBack
<1>1. PICK y \in Seq(Nat) : y = g[t].columns
  BY DEF GroupSet
<1>2. PICK x \in Seq(Nat) : x = h[t].columns
  BY DEF GroupSet
<1>3. c \in 1 .. Len(y)
  BY <1>1
<1>4. PICK y2 \in Seq(Nat) : y2 = RemoveAt(y, c)
  BY <1>3, OneLess
<1>5. g2 = WithColumns(g, t, y2)
  BY <1>1, <1>4
<1>6. ColumnsUndone(k, x, y2)
  <2>1. TableUndone(k, h[t], g2[t])
    BY DEF Undone
  <2>2. g2[t].columns = y2
    BY <1>5 DEF WithColumns, GroupSet
  <2> QED
    BY <1>2, <2>1, <2>2 DEF TableUndone
<1>7. PICK x2 : x2 = InsertAt(x, c, 0)
  OBVIOUS
<1>8. x2 \in Seq(Nat) /\ ColumnsUndone(k, x2, y)
  BY <1>3, <1>4, <1>6, <1>7, ColumnsOfErase
<1>9. WithColumns(h, t, x2) \in GroupSet /\ Undone(k, WithColumns(h, t, x2), g)
  BY <1>1, <1>5, <1>8, ColumnsGoBack
<1>10. ColumnChanges(h, t, p, c)
  BY ApplyColumn
<1>11. Apply(State(h, t, p), Instr("InsertColumn", c, 0)) = State(WithColumns(h, t, x2), t, p)
  BY <1>2, <1>7, <1>10 DEF ColumnChanges, WithColumns
<1> QED
  BY <1>9, <1>11

-----------------------------------------------------------------------------
(* What was logged stays logged, and bars what it bars. *)
LoggedIn(s, ops) == \E n \in DOMAIN s : s[n].op \in ops
Open(s, k) == ~LoggedIn(s, Barred(k))

Grew(s2, s, i) == \A ops : (LoggedIn(s, ops) \/ i.op \in ops) => LoggedIn(s2, ops)

LEMMA OneMoreGrew ==
  ASSUME NEW S, NEW s \in Seq(S), NEW i \in S
  PROVE  Grew(Append(s, i), s, i)
<1>1. PICK more \in Seq(S) : more = Append(s, i)
  BY AppendProperties
<1>2. PICK l \in Nat : l = Len(s)
  OBVIOUS
<1>3. Len(more) = l + 1 /\ more[l + 1] = i /\ \A n \in 1 .. l : more[n] = s[n]
  BY <1>1, <1>2, AppendProperties
<1>4. DOMAIN more = 1 .. l + 1 /\ DOMAIN s = 1 .. l
  BY <1>2, <1>3
<1> SUFFICES ASSUME NEW ops, LoggedIn(s, ops) \/ i.op \in ops PROVE LoggedIn(more, ops)
  BY <1>1 DEF Grew
<1>5. CASE LoggedIn(s, ops)
  <2>1. PICK n \in 1 .. l : s[n].op \in ops
    BY <1>4, <1>5 DEF LoggedIn
  <2>2. n \in 1 .. l + 1 /\ more[n] = s[n]
    BY <1>3
  <2> QED
    BY <1>4, <2>1, <2>2 DEF LoggedIn
<1>6. CASE i.op \in ops
  <2>1. l + 1 \in 1 .. l + 1
    OBVIOUS
  <2> QED
    BY <1>3, <1>4, <1>6, <2>1 DEF LoggedIn
<1> QED
  BY <1>5, <1>6

(* One, two or three instructions of the log, read. *)
LEMMA ParsedOnce ==
  ASSUME log \in Seq(Instructions), NEW i \in Instructions, Log(<<i>>)
  PROVE  /\ Parsed(log') = Reversing(Parsed(log), i)
         /\ Grew(log', log, i)
<1>1. log' = Append(log, i)
  BY AppendIsConcat DEF Log
<1>4. Parsed(log') = Reversing(Parsed(log), i)
  BY <1>1, OneMoreParsed
<1>5. Grew(log', log, i)
  BY <1>1, OneMoreGrew
<1> QED
  BY <1>4, <1>5

LEMMA ParsedTwice ==
  ASSUME log \in Seq(Instructions),
         NEW i \in Instructions, NEW j \in Instructions, Log(<<i>> \o <<j>>)
  PROVE  /\ Parsed(log') = Reversing(Reversing(Parsed(log), i), j)
         /\ Grew(log', log, j)
<1>1. PICK one \in Seq(Instructions) : one = Append(log, i)
  BY AppendProperties
<1>2. one = log \o <<i>>
  BY <1>1, AppendIsConcat
<1>3. <<i>> \in Seq(Instructions) /\ <<j>> \in Seq(Instructions)
  OBVIOUS
<1>4. log' = one \o <<j>>
  BY <1>2, <1>3, ConcatAssociative DEF Log
<1>5. log' = Append(one, j)
  BY <1>4, AppendIsConcat
<1>6. Parsed(one) = Reversing(Parsed(log), i)
  BY <1>1, OneMoreParsed
<1>7. Parsed(log') = Reversing(Parsed(one), j)
  BY <1>5, OneMoreParsed
<1>8. Grew(one, log, i) /\ Grew(log', one, j)
  BY <1>1, <1>5, OneMoreGrew
<1>9. Grew(log', log, j)
  BY <1>8 DEF Grew
<1> QED
  BY <1>6, <1>7, <1>9

LEMMA ParsedThrice ==
  ASSUME log \in Seq(Instructions),
         NEW i \in Instructions, NEW j \in Instructions, NEW k \in Instructions,
         Log(<<i>> \o <<j, k>>)
  PROVE  /\ Parsed(log') = Reversing(Reversing(Reversing(Parsed(log), i), j), k)
         /\ Grew(log', log, k)
<1>1. PICK one \in Seq(Instructions) : one = Append(log, i)
  BY AppendProperties
<1>2. one = log \o <<i>>
  BY <1>1, AppendIsConcat
<1>3. PICK two \in Seq(Instructions) : two = Append(one, j)
  BY AppendProperties
<1>4. two = one \o <<j>>
  BY <1>3, AppendIsConcat
<1>5. /\ <<i>> \in Seq(Instructions) /\ <<j>> \in Seq(Instructions) /\ <<k>> \in Seq(Instructions)
      /\ <<j, k>> \in Seq(Instructions) /\ <<j, k>> = <<j>> \o <<k>>
  <2>1. <<i>> \in Seq(Instructions)
    OBVIOUS
  <2>2. <<j>> \in Seq(Instructions)
    OBVIOUS
  <2>3. <<k>> \in Seq(Instructions)
    OBVIOUS
  <2>4. <<j, k>> \in Seq(Instructions)
    OBVIOUS
  <2>5. <<j, k>> = Append(<<j>>, k)
    OBVIOUS
  <2>6. Append(<<j>>, k) = <<j>> \o <<k>>
    BY <2>2, AppendIsConcat
  <2> QED
    BY <2>1, <2>2, <2>3, <2>4, <2>5, <2>6
<1>6. log' = one \o <<j, k>>
  BY <1>2, <1>5, ConcatAssociative DEF Log
<1>7. log' = two \o <<k>>
  <2>1. one \o (<<j>> \o <<k>>) = (one \o <<j>>) \o <<k>>
    BY <1>5, ConcatAssociative
  <2> QED
    BY <1>4, <1>5, <1>6, <2>1, Zenon
<1>8. log' = Append(two, k)
  BY <1>7, AppendIsConcat
<1>9. Parsed(one) = Reversing(Parsed(log), i)
  BY <1>1, OneMoreParsed
<1>10. Parsed(two) = Reversing(Parsed(one), j)
  BY <1>3, OneMoreParsed
<1>11. Parsed(log') = Reversing(Parsed(two), k)
  BY <1>8, OneMoreParsed
<1>12. Grew(one, log, i) /\ Grew(two, one, j) /\ Grew(log', two, k)
  BY <1>1, <1>3, <1>8, OneMoreGrew
<1>13. Grew(log', log, k)
  BY <1>12 DEF Grew
<1> QED
  BY <1>9, <1>10, <1>11, <1>13

(* The invariant: what was gathered undoes what was logged, and what the     *)
(* encoder's cache says is selected is what the reverser has pending.        *)
CacheReads(c, r, v, s) ==
  /\ c.table # 0 => r.table = <<Instr("SelectTable", c.table, 0)>>
  /\ c.list # 0 => c.table # 0
  /\ Open(s, "links") /\ c.list # 0 =>
       r.list # <<>> /\ v[c.list] = <<c.table, r.list[1].b>>

UndoneFrom(s, r, g) == \A k \in Modes : Open(s, k) => Undoing(k, r, g)

RollInd ==
  /\ LogInd
  /\ ReverserOK(Parsed(log))
  /\ CacheReads(cache, Parsed(log), view, log)
  /\ UndoneFrom(log, Parsed(log), group)

(* How an instruction finds the reverser. *)
Reads(instr, r) ==
  /\ Parsed(log') = Reversing(r, instr) /\ Grew(log', log, instr)
  /\ ReverserOK(r) /\ r.table # <<>>
  /\ CacheReads(cache', r, view, log)
  /\ UndoneFrom(log, r, group)

LEMMA AlwaysOpen == \A s : Open(s, "any")
BY DEF Open, LoggedIn, Barred

LEMMA InitRollInd == LogInit => RollInd
<1> SUFFICES ASSUME LogInit PROVE RollInd
  OBVIOUS
<1>1. LogInd
  BY InitLogInd
<1>2. log = <<>> /\ cache = NoCache /\ group = Before
  BY DEF LogInit
<1>3. PICK r : r = Parsed(log)
  OBVIOUS
<1>4. r = Reverser
  BY <1>2, <1>3, NothingParsed
<1>5. r.out = <<>> /\ r.table = <<>> /\ r.list = <<>> /\ r.descriptor = <<>>
  BY <1>4 DEF Reverser
<1>6. ReverserOK(r)
  <2>1. <<>> \in Seq(Backs)
    BY EmptySeq
  <2> QED
    BY <1>4, <2>1, NothingPending DEF ReverserOK, ReverserSet, Reverser
<1>7. CacheReads(cache, r, view, log)
  BY <1>2 DEF CacheReads, NoCache
<1>8. ASSUME NEW k PROVE Undoing(k, r, group)
  <2>1. ListInPlace(k, r, group)
    BY <1>5 DEF ListInPlace
  <2>2. Undoes(k, <<>>, TablesOf(r), PlacesOf(k, r), group)
    <3> SUFFICES ASSUME NEW h \in GroupSet, NEW t, NEW p, Undone(k, h, group), NEW e,
                        Unwinds(<<>>, State(h, t, p), e)
                 PROVE  BackWhere(k, e.group)
      BY DEF Undoes
    <3>1. e = State(h, t, p)
      BY UnwindsNothing
    <3>2. e.group = h
      BY <3>1 DEF State
    <3> QED
      BY <1>2, <3>2 DEF BackWhere
  <2> QED
    BY <1>5, <2>1, <2>2 DEF Undoing
<1> QED
  BY <1>1, <1>3, <1>6, <1>7, <1>8 DEF RollInd, UndoneFrom

LEMMA TableNowSelected ==
  ASSUME NEW r, ReverserOK(r), NEW t \in Tables, group \in GroupSet,
         UndoneFrom(log, r, group), NEW s, s = Reversing(r, Instr("SelectTable", t, 0))
  PROVE  /\ ReverserOK(s) /\ UndoneFrom(log, s, group)
         /\ s.table = <<Instr("SelectTable", t, 0)>>
<1>1. ASSUME NEW k, Undoing(k, r, group)
      PROVE  /\ ReverserOK(s) /\ Undoing(k, s, group)
             /\ s.table = <<Instr("SelectTable", t, 0)>>
  BY <1>1, TableRead
<1>2. Undoing("any", r, group)
  BY AlwaysOpen DEF UndoneFrom, Modes
<1> QED
  BY <1>1, <1>2 DEF UndoneFrom

LEMMA TableInstructionRead ==
  ASSUME RollInd, NEW t \in Tables, NEW instr \in Instructions, OnTable(t, instr)
  PROVE  \E r : Reads(instr, r) /\ r.table = <<Instr("SelectTable", t, 0)>>
<1>1. PICK r : r = Parsed(log)
  OBVIOUS
<1>2. /\ ReverserOK(r) /\ CacheReads(cache, r, view, log) /\ UndoneFrom(log, r, group)
      /\ log \in Seq(Instructions) /\ group \in GroupSet
  BY <1>1 DEF RollInd, LogInd, LogTypeOK
<1>3. PICK select \in Instructions : select = Instr("SelectTable", t, 0)
  BY DEF Instr, Instructions, Operations
<1>4. t # 0
  BY TransactLogAssumption
<1>5. CASE cache.table = t
  <2>1. cache' = cache
    BY <1>5 DEF OnTable, TableSelected
  <2>2. SelectTable(t) \o <<instr>> = <<instr>>
    BY <1>5 DEF SelectTable
  <2>3. Log(<<instr>>)
    BY <2>2 DEF OnTable
  <2>4. Parsed(log') = Reversing(r, instr) /\ Grew(log', log, instr)
    BY <1>1, <1>2, <2>3, ParsedOnce
  <2>5. r.table = <<Instr("SelectTable", t, 0)>> /\ r.table # <<>>
    <3>1. r.table = <<Instr("SelectTable", t, 0)>>
      BY <1>2, <1>4, <1>5 DEF CacheReads
    <3> QED
      BY <3>1
  <2>6. Reads(instr, r)
    BY <1>2, <2>1, <2>4, <2>5 DEF Reads
  <2> QED
    BY <2>5, <2>6
<1>6. CASE cache.table # t
  <2>1. cache' = [table |-> t, descriptor |-> 0, list |-> 0]
    BY <1>6 DEF OnTable, TableSelected, NoCache
  <2>2. Log(<<select>> \o <<instr>>)
    BY <1>3, <1>6 DEF OnTable, SelectTable
  <2>3. PICK s : s = Reversing(r, select)
    OBVIOUS
  <2>4. Parsed(log') = Reversing(s, instr) /\ Grew(log', log, instr)
    BY <1>1, <1>2, <2>2, <2>3, ParsedTwice
  <2>5. ReverserOK(s) /\ UndoneFrom(log, s, group) /\ s.table = <<Instr("SelectTable", t, 0)>>
    BY <1>2, <1>3, <2>3, TableNowSelected
  <2>6. s.table # <<>>
    BY <2>5
  <2>9. CacheReads(cache', s, view, log)
    BY <2>1, <2>5 DEF CacheReads
  <2>10. Reads(instr, s)
    BY <1>2, <2>4, <2>5, <2>6, <2>9 DEF Reads
  <2> QED
    BY <2>5, <2>10
<1> QED
  BY <1>5, <1>6

LEMMA DescriptorSelected ==
  ASSUME NEW r, ReverserOK(r), NEW t \in Tables, r.table = <<Instr("SelectTable", t, 0)>>,
         group \in GroupSet, UndoneFrom(log, r, group),
         NEW s, s = Reversing(r, Instr("SelectDescriptor", 0, 0))
  PROVE  /\ ReverserOK(s) /\ UndoneFrom(log, s, group) /\ s.table = r.table
<1>1. ASSUME NEW k, Undoing(k, r, group)
      PROVE  ReverserOK(s) /\ Undoing(k, s, group) /\ s.table = r.table
  <2>1. r.table # <<>>
    OBVIOUS
  <2> QED
    BY <1>1, <2>1, DescriptorRead
<1>2. Undoing("any", r, group)
  BY AlwaysOpen DEF UndoneFrom, Modes
<1> QED
  BY <1>1, <1>2 DEF UndoneFrom

LEMMA ListNowSelected ==
  ASSUME NEW r, ReverserOK(r), NEW t \in Tables, r.table = <<Instr("SelectTable", t, 0)>>,
         group \in GroupSet, UndoneFrom(log, r, group),
         NEW c \in Nat, NEW i \in Nat, ListFound(group, t, c, i),
         NEW s, s = Reversing(r, Instr("SelectList", c, i))
  PROVE  /\ ReverserOK(s) /\ UndoneFrom(log, s, group) /\ s.table = r.table
         /\ s.list = <<Instr("SelectList", c, i)>>
<1>1. ASSUME NEW k, Undoing(k, r, group) PROVE ListPends(k, s, r, group, c, i)
  BY <1>1, ListRead
<1>2. Undoing("any", r, group)
  BY AlwaysOpen DEF UndoneFrom, Modes
<1>3. \A k : Undoing(k, r, group) => Undoing(k, s, group)
  BY <1>1 DEF ListPends
<1>4. ReverserOK(s) /\ s.table = r.table /\ s.list = <<Instr("SelectList", c, i)>>
  BY <1>1, <1>2 DEF ListPends
<1> QED
  BY <1>3, <1>4 DEF UndoneFrom

LEMMA DescriptorInstructionRead ==
  ASSUME RollInd, NEW t \in Tables, NEW instr \in Instructions, OnDescriptor(t, instr)
  PROVE  \E r : Reads(instr, r) /\ r.table = <<Instr("SelectTable", t, 0)>>
<1>1. PICK r : r = Parsed(log)
  OBVIOUS
<1>2. /\ ReverserOK(r) /\ CacheReads(cache, r, view, log) /\ UndoneFrom(log, r, group)
      /\ log \in Seq(Instructions) /\ group \in GroupSet
  BY <1>1 DEF RollInd, LogInd, LogTypeOK
<1>3. PICK select \in Instructions : select = Instr("SelectTable", t, 0)
  BY DEF Instr, Instructions, Operations
<1>4. PICK descend \in Instructions : descend = Instr("SelectDescriptor", 0, 0)
  BY DEF Instr, Instructions, Operations
<1>5. t # 0
  BY TransactLogAssumption
<1>6. CASE cache.descriptor = t
  <2>1. cache.table = t
    BY <1>5, <1>6 DEF RollInd, LogInd, Selects, CacheFollows
  <2>2. cache' = cache /\ Log(<<instr>>)
    BY <1>6 DEF OnDescriptor
  <2>3. Parsed(log') = Reversing(r, instr) /\ Grew(log', log, instr)
    BY <1>1, <1>2, <2>2, ParsedOnce
  <2>4. r.table = <<Instr("SelectTable", t, 0)>>
    BY <1>2, <1>5, <2>1 DEF CacheReads
  <2>5. r.table # <<>>
    BY <2>4
  <2>6. Reads(instr, r)
    BY <1>2, <2>2, <2>3, <2>5 DEF Reads
  <2> QED
    BY <2>4, <2>6
<1>7. CASE cache.descriptor # t
  <2>1. cache' = [table |-> t, descriptor |-> t, list |-> 0]
    BY <1>7 DEF OnDescriptor
  <2>2. Log(SelectTable(t) \o <<descend, instr>>)
    BY <1>4, <1>7 DEF OnDescriptor
  <2>3. ASSUME NEW q, ReverserOK(q), UndoneFrom(log, q, group),
               q.table = <<Instr("SelectTable", t, 0)>>,
               Parsed(log') = Reversing(Reversing(q, descend), instr),
               Grew(log', log, instr)
        PROVE  \E s : Reads(instr, s) /\ s.table = <<Instr("SelectTable", t, 0)>>
    <3>1. PICK s : s = Reversing(q, descend)
      OBVIOUS
    <3>2. ReverserOK(s) /\ UndoneFrom(log, s, group) /\ s.table = q.table
      BY <1>2, <1>4, <2>3, <3>1, DescriptorSelected
    <3>3. s.table = <<Instr("SelectTable", t, 0)>>
      BY <2>3, <3>2
    <3>4. s.table # <<>>
      BY <3>3
    <3>5. CacheReads(cache', s, view, log)
      BY <2>1, <3>3 DEF CacheReads
    <3>6. Reads(instr, s)
      BY <2>3, <3>1, <3>2, <3>4, <3>5 DEF Reads
    <3> QED
      BY <3>3, <3>6
  <2>4. CASE cache.table = t
    <3>1. SelectTable(t) \o <<descend, instr>> = <<descend>> \o <<instr>>
      BY <2>4 DEF SelectTable
    <3>2. Log(<<descend>> \o <<instr>>)
      BY <2>2, <3>1
    <3>3. Parsed(log') = Reversing(Reversing(r, descend), instr) /\ Grew(log', log, instr)
      BY <1>1, <1>2, <3>2, ParsedTwice
    <3>4. r.table = <<Instr("SelectTable", t, 0)>>
      BY <1>2, <1>5, <2>4 DEF CacheReads
    <3> QED
      BY <1>2, <2>3, <3>3, <3>4
  <2>5. CASE cache.table # t
    <3>1. Log(<<select>> \o <<descend, instr>>)
      BY <1>3, <2>2, <2>5 DEF SelectTable
    <3>2. PICK q : q = Reversing(r, select)
      OBVIOUS
    <3>3. Parsed(log') = Reversing(Reversing(q, descend), instr) /\ Grew(log', log, instr)
      BY <1>1, <1>2, <3>1, <3>2, ParsedThrice
    <3>4. /\ ReverserOK(q) /\ UndoneFrom(log, q, group)
          /\ q.table = <<Instr("SelectTable", t, 0)>>
      BY <1>2, <1>3, <3>2, TableNowSelected
    <3> QED
      BY <2>3, <3>3, <3>4
  <2> QED
    BY <2>4, <2>5
<1> QED
  BY <1>6, <1>7

(* An instruction for a list finds its list pending, as long as no list had  *)
(* to be found by its place where places have changed.                       *)
LEMMA ListInstructionRead ==
  ASSUME RollInd, NEW a \in Addresses, NEW instr \in Instructions, OnList(a, instr),
         NEW t \in Tables, NEW i \in Nat, view[a] = <<t, i>>
  PROVE  \E r : Reads(instr, r) /\ (Open(log, "links") => PlacesOf("links", r) = {view[a]})
<1>1. PICK r : r = Parsed(log)
  OBVIOUS
<1>2. /\ ReverserOK(r) /\ CacheReads(cache, r, view, log) /\ UndoneFrom(log, r, group)
      /\ log \in Seq(Instructions) /\ group \in GroupSet
      /\ LogTypeOK /\ ListColumns /\ RowsThere
  BY <1>1 DEF RollInd, LogInd, LogTypeOK
<1>3. t # 0 /\ a # 0
  BY TransactLogAssumption
<1>4. PICK select \in Instructions : select = Instr("SelectTable", t, 0)
  BY DEF Instr, Instructions, Operations
<1>5. PICK c \in Nat : /\ c = PlaceOf(t, Links)
                       /\ c \in DOMAIN group[t].columns /\ group[t].columns[c] = Links
  BY <1>2, ListColumnFound DEF GroupSet
<1>6. PICK choose \in Instructions : choose = Instr("SelectList", c, i)
  BY DEF Instr, Instructions, Operations
<1>7. ListFound(group, t, c, i)
  <2>1. Attached(view[a])
    BY <1>3 DEF Attached, None, Detached
  <2>2. i \in 1 .. Len(group[t].rows)
    BY <1>2, <2>1 DEF RowsThere, Count
  <2>3. i \in DOMAIN group[t].rows
    BY <1>2, <2>2 DEF GroupSet
  <2> QED
    BY <1>5, <2>3 DEF ListFound
<1>8. CASE cache.list = a
  <2>1. cache' = cache /\ Log(<<instr>>)
    BY <1>8 DEF OnList
  <2>2. Parsed(log') = Reversing(r, instr) /\ Grew(log', log, instr)
    BY <1>1, <1>2, <2>1, ParsedOnce
  <2>3. r.table = <<Instr("SelectTable", cache.table, 0)>>
    BY <1>2, <1>3, <1>8 DEF CacheReads
  <2>4. r.table # <<>>
    BY <2>3
  <2>5. Reads(instr, r)
    BY <1>2, <2>1, <2>2, <2>4 DEF Reads
  <2>6. r.table[1].a = cache.table
    BY <2>3 DEF Instr
  <2>7. Open(log, "links") => r.list # <<>> /\ view[a] = <<cache.table, r.list[1].b>>
    BY <1>2, <1>3, <1>8 DEF CacheReads
  <2>8. Open(log, "links") => PlacesOf("links", r) = {view[a]}
    BY <2>6, <2>7 DEF PlacesOf
  <2> QED
    BY <2>5, <2>8
<1>9. CASE cache.list # a
  <2>1. cache' = [TableSelected(t) EXCEPT !.list = a]
    BY <1>9 DEF OnList
  <2>2. cache'.table = t /\ cache'.list = a
    <3>1. CASE cache.table = t
      BY <1>2, <2>1, <3>1 DEF TableSelected, LogTypeOK, Caches
    <3>2. CASE cache.table # t
      BY <2>1, <3>2 DEF TableSelected, NoCache
    <3> QED
      BY <3>1, <3>2
  <2>3. Log(SelectTable(t) \o <<choose, instr>>)
    BY <1>5, <1>6, <1>9 DEF OnList
  <2>4. ASSUME NEW q, ReverserOK(q), UndoneFrom(log, q, group),
               q.table = <<Instr("SelectTable", t, 0)>>,
               Parsed(log') = Reversing(Reversing(q, choose), instr),
               Grew(log', log, instr)
        PROVE  \E s : Reads(instr, s) /\ (Open(log, "links") => PlacesOf("links", s) = {view[a]})
    <3>1. PICK s : s = Reversing(q, choose)
      OBVIOUS
    <3>2. /\ ReverserOK(s) /\ UndoneFrom(log, s, group) /\ s.table = q.table
          /\ s.list = <<Instr("SelectList", c, i)>>
      BY <1>2, <1>6, <1>7, <2>4, <3>1, ListNowSelected
    <3>3. s.table = <<Instr("SelectTable", t, 0)>>
      BY <2>4, <3>2
    <3>4. s.table # <<>> /\ s.list # <<>>
      BY <3>2, <3>3
    <3>5. s.table[1].a = t /\ s.list[1].b = i
      BY <3>2, <3>3 DEF Instr
    <3>6. CacheReads(cache', s, view, log)
      BY <1>3, <2>2, <3>3, <3>4, <3>5 DEF CacheReads
    <3>7. Reads(instr, s)
      BY <2>4, <3>1, <3>2, <3>4, <3>6 DEF Reads
    <3>8. PlacesOf("links", s) = {view[a]}
      BY <3>4, <3>5 DEF PlacesOf
    <3> QED
      BY <3>7, <3>8
  <2>5. CASE cache.table = t
    <3>1. SelectTable(t) \o <<choose, instr>> = <<choose>> \o <<instr>>
      BY <2>5 DEF SelectTable
    <3>2. Log(<<choose>> \o <<instr>>)
      BY <2>3, <3>1
    <3>3. Parsed(log') = Reversing(Reversing(r, choose), instr) /\ Grew(log', log, instr)
      BY <1>1, <1>2, <3>2, ParsedTwice
    <3>4. r.table = <<Instr("SelectTable", t, 0)>>
      BY <1>2, <1>3, <2>5 DEF CacheReads
    <3> QED
      BY <1>2, <2>4, <3>3, <3>4
  <2>6. CASE cache.table # t
    <3>1. Log(<<select>> \o <<choose, instr>>)
      BY <1>4, <2>3, <2>6 DEF SelectTable
    <3>2. PICK q : q = Reversing(r, select)
      OBVIOUS
    <3>3. Parsed(log') = Reversing(Reversing(q, choose), instr) /\ Grew(log', log, instr)
      BY <1>1, <1>2, <3>1, <3>2, ParsedThrice
    <3>4. /\ ReverserOK(q) /\ UndoneFrom(log, q, group)
          /\ q.table = <<Instr("SelectTable", t, 0)>>
      BY <1>2, <1>4, <3>2, TableNowSelected
    <3> QED
      BY <2>4, <3>3, <3>4
  <2> QED
    BY <2>5, <2>6
<1> QED
  BY <1>8, <1>9

(* What a modification leaves to show once its instruction is read.          *)
LEMMA RollStep ==
  ASSUME RollInd, LogInd', NEW instr, NEW r, Reads(instr, r),
         NEW s, s = Reversing(r, instr),
         ReverserOK(s), s.table = r.table, s.list = r.list,
         view' = view \/ instr.op \in Barred("links"),
         \A k \in Modes : Open(log, k) /\ Undoing(k, r, group) /\ instr.op \notin Barred(k) =>
                            Undoing(k, s, group')
  PROVE  RollInd'
<1>1. s = Parsed(log')
  BY DEF Reads
<1>2. \A k : Open(log', k) => Open(log, k) /\ instr.op \notin Barred(k)
  BY DEF Reads, Grew, Open
<1>3. UndoneFrom(log', s, group')
  BY <1>2 DEF Reads, UndoneFrom
<1>4. CacheReads(cache', s, view', log')
  <2>1. CacheReads(cache', r, view, log)
    BY DEF Reads
  <2>2. CASE view' = view
    BY <1>2, <2>1, <2>2 DEF CacheReads
  <2>3. CASE instr.op \in Barred("links")
    BY <1>2, <2>1, <2>3 DEF CacheReads
  <2> QED
    BY <2>2, <2>3
<1> QED
  BY <1>1, <1>3, <1>4 DEF RollInd

(* With one instruction for the inverse.                                     *)
GivesBack(k, r, inv) ==
  /\ ListInPlace(k, r, group')
  /\ GoesBack(k, inv, TablesOf(r), PlacesOf(k, r), group', TablesOf(r), PlacesOf(k, r), group)

LEMMA InverseStep ==
  ASSUME RollInd, LogInd', NEW instr, NEW r, Reads(instr, r),
         instr.op \notin Selections, NEW inv \in Backs, InverseOf(instr) = <<inv>>,
         view' = view \/ instr.op \in Barred("links"),
         \A k \in Modes : Open(log, k) /\ Undoing(k, r, group) /\ instr.op \notin Barred(k) =>
                            GivesBack(k, r, inv)
  PROVE  RollInd'
<1>1. ReverserOK(r) /\ r.table # <<>> /\ r \in ReverserSet
  BY DEF Reads, ReverserOK
<1>2. r.out \o <<inv>> = Append(r.out, inv)
  BY <1>1, AppendIsConcat DEF ReverserSet
<1>3. PICK s : s = Gathered(r, inv)
  OBVIOUS
<1>4. Reversing(r, instr) = s
  BY <1>2, <1>3 DEF Reversing, Gathered
<1>5. ReverserOK(s) /\ s.table = r.table /\ s.list = r.list
  <2>1. Append(r.out, inv) \in Seq(Backs)
    BY <1>1, AppendProperties DEF ReverserSet
  <2> QED
    BY <1>1, <1>3, <2>1 DEF ReverserSet, ReverserOK, Gathered
<1>6. ASSUME NEW k \in Modes, Open(log, k), Undoing(k, r, group), instr.op \notin Barred(k)
      PROVE  Undoing(k, s, group')
  <2>1. GivesBack(k, r, inv)
    BY <1>6
  <2> QED
    BY <1>1, <1>3, <1>6, <2>1, InverseRead DEF GivesBack
<1> QED
  BY <1>4, <1>5, <1>6, RollStep

-----------------------------------------------------------------------------
(* The modifications.  A list stays where it is found while rows are added   *)
(* and columns are as they were.                                             *)
NoFewer(g2, g) ==
  \A u \in Tables : g2[u].columns = g[u].columns /\ Len(g[u].rows) <= Len(g2[u].rows)

LEMMA ListStaysInPlace ==
  ASSUME NEW k, NEW r, ReverserOK(r), NEW g \in GroupSet, NEW g2 \in GroupSet,
         ListInPlace(k, r, g), k = "links" => NoFewer(g2, g)
  PROVE  ListInPlace(k, r, g2)
<1> SUFFICES ASSUME k = "links", r.list # <<>> PROVE ListInPlace(k, r, g2)
  BY DEF ListInPlace
<1>1. r.table # <<>> /\ ListFound(g, r.table[1].a, r.list[1].a, r.list[1].b)
  BY DEF ListInPlace
<1>2. PICK t \in Tables : r.table[1].a = t
  BY <1>1, PendingTable
<1>3. PICK i : i = r.list[1].b
  OBVIOUS
<1>4. PICK c : c = r.list[1].a
  OBVIOUS
<1>5. g2[t].columns = g[t].columns /\ Len(g[t].rows) <= Len(g2[t].rows)
  BY DEF NoFewer
<1>6. PICK x \in Seq(RowRecords) : x = g[t].rows
  BY DEF GroupSet
<1>7. PICK x2 \in Seq(RowRecords) : x2 = g2[t].rows
  BY DEF GroupSet
<1>8. i \in DOMAIN x => i \in DOMAIN x2
  BY <1>5, <1>6, <1>7
<1>9. ListFound(g2, t, c, i)
  BY <1>1, <1>2, <1>3, <1>4, <1>5, <1>6, <1>7, <1>8 DEF ListFound
<1> QED
  BY <1>1, <1>2, <1>3, <1>4, <1>9 DEF ListInPlace

HasInverse(instr, inv) ==
  instr.op \notin Selections /\ inv \in Backs /\ InverseOf(instr) = <<inv>>

LEMMA Inverses ==
  ASSUME NEW a \in Nat, NEW b \in Nat
  PROVE  /\ HasInverse(Instr("Set", a, b), Instr("Set", a, b))
         /\ HasInverse(Instr("InsertRow", a, b), Instr("EraseLastRow", a, b + 1))
         /\ b > 0 => HasInverse(Instr("EraseRow", a, b), Instr("InsertUnordered", a, b - 1))
         /\ HasInverse(Instr("Clear", a, b), Instr("Nothing", 0, 0))
         /\ HasInverse(Instr("InsertColumn", a, b), Instr("EraseColumn", a, 0))
         /\ HasInverse(Instr("EraseColumn", a, b), Instr("InsertColumn", a, 0))
         /\ HasInverse(Instr("ListInsert", a, b), Instr("ListErase", a, 0))
         /\ HasInverse(Instr("ListErase", a, b), Instr("ListInsert", a, 0))
<1>1. HasInverse(Instr("Set", a, b), Instr("Set", a, b))
  BY DEF HasInverse, Instr, Selections, InverseOf, Backs, Operations
<1>2. HasInverse(Instr("InsertRow", a, b), Instr("EraseLastRow", a, b + 1))
  BY DEF HasInverse, Instr, Selections, InverseOf, Backs, Operations
<1>3. b > 0 => HasInverse(Instr("EraseRow", a, b), Instr("InsertUnordered", a, b - 1))
  BY DEF HasInverse, Instr, Selections, InverseOf, Backs, Operations
<1>4. HasInverse(Instr("Clear", a, b), Instr("Nothing", 0, 0))
  BY DEF HasInverse, Instr, Selections, InverseOf, Backs, Operations
<1>5. HasInverse(Instr("InsertColumn", a, b), Instr("EraseColumn", a, 0))
  BY DEF HasInverse, Instr, Selections, InverseOf, Backs, Operations
<1>6. HasInverse(Instr("EraseColumn", a, b), Instr("InsertColumn", a, 0))
  BY DEF HasInverse, Instr, Selections, InverseOf, Backs, Operations
<1>7. HasInverse(Instr("ListInsert", a, b), Instr("ListErase", a, 0))
  BY DEF HasInverse, Instr, Selections, InverseOf, Backs, Operations
<1>8. HasInverse(Instr("ListErase", a, b), Instr("ListInsert", a, 0))
  BY DEF HasInverse, Instr, Selections, InverseOf, Backs, Operations
<1> QED
  BY <1>1, <1>2, <1>3, <1>4, <1>5, <1>6, <1>7, <1>8

(* What reads an instruction of a table has the table pending.               *)
PendsTable(r, t) ==
  /\ ReverserOK(r) /\ TablesOf(r) = {t} /\ (r.table # <<>> => r.table[1].a = t)
  /\ \A k : k # "links" => PlacesOf(k, r) = Spots

LEMMA TableReadPends ==
  ASSUME NEW instr, NEW r, Reads(instr, r), NEW t \in Tables,
         r.table = <<Instr("SelectTable", t, 0)>>
  PROVE  PendsTable(r, t)
<1>1. ReverserOK(r) /\ r.table # <<>>
  BY DEF Reads
<1>2. r.table[1].a = t
  BY DEF Instr
<1> QED
  BY <1>1, <1>2 DEF PendsTable, TablesOf, PlacesOf

LEMMA GroupsThen ==
  ASSUME RollInd, LogInd'
  PROVE  /\ group \in GroupSet /\ group' \in GroupSet
         /\ \A t \in Tables : group[t].rows \in Seq(RowRecords) /\ group[t].columns \in Seq(Nat)
<1>1. group \in GroupSet /\ group' \in GroupSet
  BY DEF RollInd, LogInd, LogTypeOK
<1> QED
  BY <1>1 DEF GroupSet

LEMMA SetValueRolls ==
  ASSUME RollInd, LogInd', NEW t \in Tables, NEW i, SetValue(t, i)
  PROVE  RollInd'
<1>1. group \in GroupSet /\ group' \in GroupSet /\ group[t].rows \in Seq(RowRecords)
  BY GroupsThen
<1>2. i \in 1 .. Len(group[t].rows) /\ i \in Nat
  BY <1>1 DEF SetValue, Count
<1>3. PICK instr \in Instructions : instr = Instr("Set", i, 1)
  BY <1>2, InstructionsLogged
<1>4. OnTable(t, instr) /\ view' = view /\ group' = [group EXCEPT ![t].rows[i].value = 1]
  BY <1>3 DEF SetValue
<1>5. PICK r : Reads(instr, r) /\ r.table = <<Instr("SelectTable", t, 0)>>
  BY <1>4, TableInstructionRead
<1>6. PendsTable(r, t)
  BY <1>5, TableReadPends
<1>7. HasInverse(instr, instr)
  BY <1>2, <1>3, Inverses
<1>8. NoFewer(group', group)
  <2>1. PICK g2 : g2 = group'
    OBVIOUS
  <2>2. PICK x \in Seq(RowRecords) : x = group[t].rows
    BY <1>1
  <2>3. g2 = [group EXCEPT ![t].rows = [x EXCEPT ![i].value = 1]]
    BY <1>4, <2>1, <2>2
  <2>4. Len([x EXCEPT ![i].value = 1]) = Len(x) /\ Len(x) \in Nat
    OBVIOUS
  <2>5. ASSUME NEW u \in Tables
        PROVE  g2[u].columns = group[u].columns /\ Len(g2[u].rows) = Len(group[u].rows)
    BY <1>1, <2>2, <2>3, <2>4 DEF GroupSet
  <2>6. \A u \in Tables : Len(group[u].rows) \in Nat
    BY <1>1 DEF GroupSet
  <2>7. NoFewer(g2, group)
    BY <2>5, <2>6 DEF NoFewer
  <2> QED
    BY <2>1, <2>7
<1>9. ASSUME NEW k \in Modes, Undoing(k, r, group) PROVE GivesBack(k, r, instr)
  <2>1. ListInPlace(k, r, group')
    BY <1>1, <1>6, <1>8, <1>9, ListStaysInPlace DEF PendsTable, Undoing
  <2>2. PICK Ps : Ps = PlacesOf(k, r)
    OBVIOUS
  <2>3. GoesBack(k, Instr("Set", i, 1), {t}, Ps, group', {t}, Ps, group)
    BY <1>1, <1>2, <1>4, SetGoesBack
  <2> QED
    BY <1>3, <1>6, <2>1, <2>2, <2>3 DEF GivesBack, PendsTable
<1> QED
  BY <1>4, <1>5, <1>7, <1>9, InverseStep DEF HasInverse

LEMMA InsertRowRolls ==
  ASSUME RollInd, LogInd', NEW t \in Tables, InsertRow(t)
  PROVE  RollInd'
<1>1. group \in GroupSet /\ group' \in GroupSet /\ group[t].rows \in Seq(RowRecords)
  BY GroupsThen
<1>2. PICK rows \in Seq(RowRecords) : rows = group[t].rows
  BY <1>1
<1>3. PICK l \in Nat : l = Len(rows)
  OBVIOUS
<1>4. PICK instr \in Instructions : instr = Instr("InsertRow", l + 1, l)
  BY InstructionsLogged
<1>5. OnTable(t, instr) /\ view' = view /\ group' = WithRows(group, t, Append(rows, NewRow))
  BY <1>2, <1>3, <1>4 DEF InsertRow, Count, WithRows
<1>6. PICK r : Reads(instr, r) /\ r.table = <<Instr("SelectTable", t, 0)>>
  BY <1>5, TableInstructionRead
<1>7. PendsTable(r, t)
  BY <1>6, TableReadPends
<1>8. PICK inv : inv = Instr("EraseLastRow", l + 1, l + 1) /\ HasInverse(instr, inv)
  BY <1>4, Inverses
<1>9. NoFewer(group', group)
  <2>1. PICK more : more = Append(rows, NewRow)
    OBVIOUS
  <2>2. Len(more) = Len(rows) + 1
    BY <2>1
  <2>3. PICK g2 : g2 = WithRows(group, t, more)
    OBVIOUS
  <2>4. g2[t].rows = more /\ g2[t].columns = group[t].columns
        /\ \A u \in Tables : u # t => g2[u] = group[u]
    BY <1>1, <2>3 DEF WithRows, GroupSet
  <2>5. \A u \in Tables : Len(group[u].rows) \in Nat
    BY <1>1 DEF GroupSet
  <2>6. ASSUME NEW u \in Tables
        PROVE  g2[u].columns = group[u].columns /\ Len(group[u].rows) <= Len(g2[u].rows)
    <3>1. CASE u = t
      BY <1>2, <1>3, <2>2, <2>4, <3>1
    <3>2. CASE u # t
      BY <2>4, <2>5, <3>2
    <3> QED
      BY <3>1, <3>2
  <2>7. NoFewer(g2, group)
    BY <2>6 DEF NoFewer
  <2> QED
    BY <1>5, <2>1, <2>3, <2>7
<1>10. ASSUME NEW k \in Modes, Undoing(k, r, group) PROVE GivesBack(k, r, inv)
  <2>1. ListInPlace(k, r, group')
    BY <1>1, <1>7, <1>9, <1>10, ListStaysInPlace DEF PendsTable, Undoing
  <2>2. PICK Ps : Ps = PlacesOf(k, r)
    OBVIOUS
  <2>3. \/ Ps = Spots
        \/ k = "links" /\ \E u \in Tables, j \in Nat :
             Ps = {<<u, j>>} /\ (u = t => j \in 1 .. Len(group[t].rows))
    <3>1. CASE k # "links" \/ r.list = <<>>
      BY <2>2, <3>1 DEF PlacesOf
    <3>2. CASE k = "links" /\ r.list # <<>>
      <4>1. PICK j : j = r.list[1].b
        OBVIOUS
      <4>2. r.table # <<>> /\ r.table[1].a = t /\ j \in Nat
        BY <1>7, <3>2, <4>1, PendingList DEF PendsTable
      <4>3. ListFound(group, t, r.list[1].a, j)
        BY <1>10, <3>2, <4>1, <4>2 DEF Undoing, ListInPlace
      <4>4. j \in 1 .. Len(group[t].rows)
        BY <1>1, <4>3 DEF ListFound
      <4>5. Ps = {<<t, j>>}
        BY <2>2, <3>2, <4>1, <4>2 DEF PlacesOf
      <4> QED
        BY <3>2, <4>2, <4>4, <4>5
    <3> QED
      BY <3>1, <3>2
  <2>4. group' = WithRows(group, t, Append(group[t].rows, NewRow))
    BY <1>2, <1>5
  <2>5. GoesBack(k, Instr("EraseLastRow", l + 1, l + 1), {t}, Ps, group', {t}, Ps, group)
    BY <1>1, <2>3, <2>4, InsertGoesBack
  <2> QED
    BY <1>7, <1>8, <2>1, <2>2, <2>5 DEF GivesBack, PendsTable
<1> QED
  BY <1>5, <1>6, <1>8, <1>10, InverseStep DEF HasInverse

(* What moves rows or columns bars the lists.                                *)
LEMMA BarringStep ==
  ASSUME RollInd, LogInd', NEW t \in Tables, NEW instr, NEW r, Reads(instr, r),
         r.table = <<Instr("SelectTable", t, 0)>>, instr.op \in Barred("links"),
         NEW inv, HasInverse(instr, inv),
         \A k \in Modes : instr.op \notin Barred(k) =>
                            GoesBack(k, inv, {t}, Spots, group', {t}, Spots, group)
  PROVE  RollInd'
<1>1. PendsTable(r, t)
  BY TableReadPends
<1>2. ASSUME NEW k \in Modes, instr.op \notin Barred(k) PROVE GivesBack(k, r, inv)
  <2>1. k # "links"
    BY <1>2
  <2>2. ListInPlace(k, r, group')
    BY <2>1 DEF ListInPlace
  <2>3. TablesOf(r) = {t} /\ PlacesOf(k, r) = Spots
    BY <1>1, <2>1 DEF PendsTable
  <2> QED
    BY <1>2, <2>2, <2>3 DEF GivesBack
<1> QED
  BY <1>2, InverseStep DEF HasInverse

LEMMA EraseRowRolls ==
  ASSUME RollInd, LogInd', NEW t \in Tables, NEW i, EraseRow(t, i)
  PROVE  RollInd'
<1>1. group \in GroupSet /\ group' \in GroupSet /\ group[t].rows \in Seq(RowRecords)
  BY GroupsThen
<1>2. PICK rows \in Seq(RowRecords) : rows = group[t].rows
  BY <1>1
<1>3. PICK l \in Nat : l = Len(rows)
  OBVIOUS
<1>4. i \in 1 .. l /\ i \in Nat /\ l > 0
  BY <1>2, <1>3 DEF EraseRow, Count
<1>5. PICK instr \in Instructions : instr = Instr("EraseRow", i, l)
  BY <1>4, InstructionsLogged
<1>6. OnTable(t, instr)
  BY <1>2, <1>3, <1>5 DEF EraseRow, Count
<1>7. group' = WithRows(group, t, EraseUnordered(group[t].rows, i))
  BY DEF EraseRow, WithRows
<1>8. PICK r : Reads(instr, r) /\ r.table = <<Instr("SelectTable", t, 0)>>
  BY <1>6, TableInstructionRead
<1>9. PICK inv : inv = Instr("InsertUnordered", i, l - 1) /\ HasInverse(instr, inv)
  BY <1>4, <1>5, Inverses
<1>10. instr.op \in Barred("links")
  BY <1>5 DEF Instr, Barred
<1>11. ASSUME NEW k \in Modes, instr.op \notin Barred(k)
       PROVE  GoesBack(k, inv, {t}, Spots, group', {t}, Spots, group)
  <2>1. k # "links"
    BY <1>10, <1>11
  <2>2. i \in 1 .. Len(group[t].rows)
    BY <1>2, <1>3, <1>4
  <2>3. GoesBack(k, Instr("InsertUnordered", i, l - 1), {t}, Spots, group', {t}, Spots, group)
    BY <1>1, <1>7, <2>1, <2>2, EraseGoesBack
  <2> QED
    BY <1>9, <2>3
<1> QED
  BY <1>8, <1>9, <1>10, <1>11, BarringStep

LEMMA ClearTableRolls ==
  ASSUME RollInd, LogInd', NEW t \in Tables, ClearTable(t)
  PROVE  RollInd'
<1>1. group \in GroupSet /\ group' \in GroupSet
  BY GroupsThen
<1>2. PICK instr \in Instructions : instr = Instr("Clear", 0, 0)
  BY InstructionsLogged
<1>3. OnTable(t, instr)
  BY <1>2 DEF ClearTable
<1>4. group' = WithRows(group, t, <<>>)
  BY DEF ClearTable, WithRows
<1>5. PICK r : Reads(instr, r) /\ r.table = <<Instr("SelectTable", t, 0)>>
  BY <1>3, TableInstructionRead
<1>6. PICK inv : inv = Instr("Nothing", 0, 0) /\ HasInverse(instr, inv)
  BY <1>2, Inverses
<1>7. instr.op \in Barred("links") /\ instr.op \in Barred("rows")
  BY <1>2 DEF Instr, Barred
<1>8. ASSUME NEW k \in Modes, instr.op \notin Barred(k)
      PROVE  GoesBack(k, inv, {t}, Spots, group', {t}, Spots, group)
  <2>1. k = "any"
    BY <1>7, <1>8 DEF Modes
  <2>2. GoesBack("any", Instr("Nothing", 0, 0), {t}, Spots, group', {t}, Spots, group)
    BY <1>1, <1>4, ClearGoesBack
  <2> QED
    BY <1>6, <2>1, <2>2
<1> QED
  BY <1>5, <1>6, <1>7, <1>8, BarringStep

LEMMA InsertColumnRolls ==
  ASSUME RollInd, LogInd', NEW t \in Tables, NEW c, InsertColumn(t, c)
  PROVE  RollInd'
<1>1. group \in GroupSet /\ group' \in GroupSet /\ group[t].columns \in Seq(Nat)
  BY GroupsThen
<1>2. c \in 1 .. Len(group[t].columns) + 1 /\ c \in Nat
  BY <1>1 DEF InsertColumn
<1>3. PICK instr \in Instructions : instr = Instr("InsertColumn", c, 0)
  BY <1>2, InstructionsLogged
<1>4. OnDescriptor(t, instr)
  BY <1>3 DEF InsertColumn
<1>5. group' = WithColumns(group, t, InsertAt(group[t].columns, c, 0))
  BY DEF InsertColumn, WithColumns
<1>6. PICK r : Reads(instr, r) /\ r.table = <<Instr("SelectTable", t, 0)>>
  BY <1>4, DescriptorInstructionRead
<1>7. PICK inv : inv = Instr("EraseColumn", c, 0) /\ HasInverse(instr, inv)
  BY <1>2, <1>3, Inverses
<1>8. instr.op \in Barred("links")
  BY <1>3 DEF Instr, Barred
<1>9. ASSUME NEW k \in Modes, instr.op \notin Barred(k)
      PROVE  GoesBack(k, inv, {t}, Spots, group', {t}, Spots, group)
  <2>1. k # "links"
    BY <1>8, <1>9
  <2>2. GoesBack(k, Instr("EraseColumn", c, 0), {t}, Spots, group', {t}, Spots, group)
    BY <1>1, <1>2, <1>5, <2>1, InsertedColumnGoesBack
  <2> QED
    BY <1>7, <2>2
<1> QED
  BY <1>6, <1>7, <1>8, <1>9, BarringStep

LEMMA EraseColumnRolls ==
  ASSUME RollInd, LogInd', NEW t \in Tables, NEW c, EraseColumn(t, c)
  PROVE  RollInd'
<1>1. group \in GroupSet /\ group' \in GroupSet /\ group[t].columns \in Seq(Nat)
  BY GroupsThen
<1>2. c \in 1 .. Len(group[t].columns) /\ c \in Nat
  BY <1>1 DEF EraseColumn
<1>3. PICK instr \in Instructions : instr = Instr("EraseColumn", c, 0)
  BY <1>2, InstructionsLogged
<1>4. OnDescriptor(t, instr)
  BY <1>3 DEF EraseColumn
<1>5. group' = WithColumns(group, t, RemoveAt(group[t].columns, c))
  BY DEF EraseColumn, WithColumns
<1>6. PICK r : Reads(instr, r) /\ r.table = <<Instr("SelectTable", t, 0)>>
  BY <1>4, DescriptorInstructionRead
<1>7. PICK inv : inv = Instr("InsertColumn", c, 0) /\ HasInverse(instr, inv)
  BY <1>2, <1>3, Inverses
<1>8. instr.op \in Barred("links")
  BY <1>3 DEF Instr, Barred
<1>9. ASSUME NEW k \in Modes, instr.op \notin Barred(k)
      PROVE  GoesBack(k, inv, {t}, Spots, group', {t}, Spots, group)
  <2>1. k # "links"
    BY <1>8, <1>9
  <2>2. GoesBack(k, Instr("InsertColumn", c, 0), {t}, Spots, group', {t}, Spots, group)
    BY <1>1, <1>2, <1>5, <2>1, ErasedColumnGoesBack
  <2> QED
    BY <1>7, <2>2
<1> QED
  BY <1>6, <1>7, <1>8, <1>9, BarringStep

(* The links of a list. *)
LEMMA PlacesAreSpots ==
  ASSUME NEW k, NEW r, ReverserOK(r)
  PROVE  PlacesOf(k, r) \subseteq Spots
<1>1. CASE k = "links" /\ r.list # <<>>
  <2>1. r.table # <<>> /\ r.list[1].b \in Nat
    BY <1>1, PendingList
  <2>2. r.table[1].a \in Tables
    BY <2>1, PendingTable
  <2> QED
    BY <1>1, <2>1, <2>2 DEF PlacesOf, Spots
<1>2. CASE ~(k = "links" /\ r.list # <<>>)
  BY <1>2 DEF PlacesOf
<1> QED
  BY <1>1, <1>2

LEMMA LinksKeepRows ==
  ASSUME NEW g \in GroupSet, NEW u \in Tables, NEW j \in 1 .. Len(g[u].rows), NEW m \in Nat
  PROVE  WithLinks(g, u, j, m) \in GroupSet /\ NoFewer(WithLinks(g, u, j, m), g)
<1>1. PICK g2 : g2 = WithLinks(g, u, j, m)
  OBVIOUS
<1>2. j \in Nat
  BY DEF GroupSet
<1>3. g2 \in GroupSet /\ SameShape(g2, g)
  BY <1>1, <1>2, OtherLinks
<1>4. \A v \in Tables : Len(g[v].rows) \in Nat
  BY DEF GroupSet
<1>5. NoFewer(g2, g)
  BY <1>3, <1>4 DEF NoFewer, SameShape, SameRowIds
<1> QED
  BY <1>1, <1>3, <1>5

(* Reading one list instruction after the other: what is gathered for the    *)
(* last one leads from one link less, or more.                               *)
LEMMA LinkGathered ==
  ASSUME NEW k, NEW r, ReverserOK(r), r.table # <<>>, NEW g \in GroupSet, Undoing(k, r, g),
         NEW u \in Tables, NEW j \in 1 .. Len(g[u].rows), NEW m \in Nat,
         NEW op \in {"ListInsert", "ListErase"}, NEW a, g[u].rows[j].links = Undo(op, m),
         k = "links" => PlacesOf("links", r) = {<<u, j>>}
  PROVE  /\ ListInPlace(k, r, WithLinks(g, u, j, m))
         /\ GoesBack(k, Instr(op, a, 0), TablesOf(r), PlacesOf(k, r), WithLinks(g, u, j, m),
                     TablesOf(r), PlacesOf(k, r), g)
<1>1. PICK g2 : g2 = WithLinks(g, u, j, m)
  OBVIOUS
<1>2. g2 \in GroupSet /\ NoFewer(g2, g)
  BY <1>1, LinksKeepRows
<1>3. ListInPlace(k, r, g2)
  BY <1>2, ListStaysInPlace DEF Undoing
<1>4. PICK Ps \in SUBSET Spots : Ps = PlacesOf(k, r)
  BY PlacesAreSpots
<1>5. PICK Ts : Ts = TablesOf(r)
  OBVIOUS
<1>6. k = "links" => Ps = {<<u, j>>}
  BY <1>4
<1>7. GoesBack(k, Instr(op, a, 0), Ts, Ps, WithLinks(g, u, j, m), Ts, Ps, g)
  BY <1>6, LinkGoesBack
<1> QED
  BY <1>1, <1>3, <1>4, <1>5, <1>7

LEMMA LinkStep ==
  ASSUME RollInd, LogInd', NEW a \in Addresses, NEW instr \in Instructions, OnList(a, instr),
         view' = view, NEW u \in Tables, NEW j \in 1 .. Len(group[u].rows), view[a] = <<u, j>>,
         NEW m \in Nat, group' = WithLinks(group, u, j, m),
         NEW op \in {"ListInsert", "ListErase"}, group[u].rows[j].links = Undo(op, m),
         HasInverse(instr, Instr(op, 1, 0))
  PROVE  RollInd'
<1>1. group \in GroupSet /\ j \in Nat
  BY GroupsThen DEF GroupSet
<1>2. PICK r : Reads(instr, r) /\ (Open(log, "links") => PlacesOf("links", r) = {view[a]})
  BY <1>1, ListInstructionRead
<1>3. ReverserOK(r) /\ r.table # <<>>
  BY <1>2 DEF Reads
<1>4. PICK inv : inv = Instr(op, 1, 0)
  OBVIOUS
<1>5. ASSUME NEW k \in Modes, Open(log, k), Undoing(k, r, group) PROVE GivesBack(k, r, inv)
  <2>1. k = "links" => PlacesOf("links", r) = {<<u, j>>}
    BY <1>2, <1>5
  <2>2. ListInPlace(k, r, group')
        /\ GoesBack(k, Instr(op, 1, 0), TablesOf(r), PlacesOf(k, r), group',
                    TablesOf(r), PlacesOf(k, r), group)
    <3>1. /\ ListInPlace(k, r, WithLinks(group, u, j, m))
          /\ GoesBack(k, Instr(op, 1, 0), TablesOf(r), PlacesOf(k, r), WithLinks(group, u, j, m),
                      TablesOf(r), PlacesOf(k, r), group)
      BY <1>1, <1>3, <1>5, <2>1, LinkGathered
    <3> QED
      BY <3>1
  <2> QED
    BY <1>4, <2>2 DEF GivesBack
<1> QED
  BY <1>2, <1>4, <1>5, InverseStep DEF HasInverse

LEMMA ListInsertRolls ==
  ASSUME RollInd, LogInd', NEW a \in Addresses, ListInsert(a)
  PROVE  RollInd'
<1>1. Attached(view[a]) /\ ChangeList(a, "ListInsert", LinksOf(a) + 1) /\ LogInd
  BY DEF ListInsert, RollInd
<1>2. PICK u \in Tables, j \in Nat :
        /\ view[a] = <<u, j>> /\ j \in 1 .. Len(group[u].rows)
        /\ group[u].rows[j].links \in Nat /\ LinksOf(a) = group[u].rows[j].links
  BY <1>1, AttachedPlace
<1>3. PICK m \in Nat : m = group[u].rows[j].links + 1
  BY <1>2
<1>4. PICK instr \in Instructions : instr = Instr("ListInsert", 1, 0)
  BY InstructionsLogged
<1>5. OnList(a, instr) /\ view' = view /\ group' = WithLinks(group, u, j, m)
  BY <1>1, <1>2, <1>3, <1>4 DEF ChangeList, WithLinks
<1>6. group[u].rows[j].links = Undo("ListErase", m)
  BY <1>2, <1>3 DEF Undo
<1>7. HasInverse(instr, Instr("ListErase", 1, 0))
  BY <1>4, Inverses
<1> QED
  BY <1>2, <1>5, <1>6, <1>7, LinkStep

LEMMA ListEraseRolls ==
  ASSUME RollInd, LogInd', NEW a \in Addresses, ListErase(a)
  PROVE  RollInd'
<1>1. /\ Attached(view[a]) /\ LinksOf(a) > 0 /\ ChangeList(a, "ListErase", LinksOf(a) - 1)
      /\ LogInd
  BY DEF ListErase, RollInd
<1>2. PICK u \in Tables, j \in Nat :
        /\ view[a] = <<u, j>> /\ j \in 1 .. Len(group[u].rows)
        /\ group[u].rows[j].links \in Nat /\ LinksOf(a) = group[u].rows[j].links
  BY <1>1, AttachedPlace
<1>3. PICK m \in Nat : m = group[u].rows[j].links - 1
  BY <1>1, <1>2
<1>4. PICK instr \in Instructions : instr = Instr("ListErase", 1, 0)
  BY InstructionsLogged
<1>5. OnList(a, instr) /\ view' = view /\ group' = WithLinks(group, u, j, m)
  BY <1>1, <1>2, <1>3, <1>4 DEF ChangeList, WithLinks
<1>6. group[u].rows[j].links = Undo("ListInsert", m)
  BY <1>2, <1>3 DEF Undo
<1>7. HasInverse(instr, Instr("ListInsert", 1, 0))
  BY <1>4, Inverses
<1> QED
  BY <1>2, <1>5, <1>6, <1>7, LinkStep

(* Clearing a list: its links come back one at a time.                       *)
LEMMA LinksAsTheyWere ==
  ASSUME NEW g \in GroupSet, NEW u \in Tables, NEW j \in 1 .. Len(g[u].rows)
  PROVE  WithLinks(g, u, j, g[u].rows[j].links) = g
<1>1. PICK rows \in Seq(RowRecords) : rows = g[u].rows
  BY DEF GroupSet
<1>2. PICK x \in RowRecords : x = rows[j]
  BY <1>1
<1>3. [x EXCEPT !.links = x.links] = x
  BY DEF RowRecords
<1>4. [rows EXCEPT ![j] = x] = rows
  BY <1>1, <1>2
<1>5. PICK table : table = g[u]
  OBVIOUS
<1>6. table \in [rows : Seq(RowRecords), columns : Seq(Nat)]
  BY <1>5 DEF GroupSet
<1>7. [table EXCEPT !.rows = rows] = table
  BY <1>1, <1>5, <1>6
<1>8. [g EXCEPT ![u] = table] = g
  BY <1>5 DEF GroupSet
<1>9. WithLinks(g, u, j, x.links) = [g EXCEPT ![u] = [table EXCEPT !.rows = [rows EXCEPT ![j] = x]]]
  BY <1>1, <1>2, <1>3, <1>5 DEF WithLinks
<1> QED
  BY <1>1, <1>2, <1>4, <1>7, <1>8, <1>9

LEMMA LinksTwice ==
  ASSUME NEW g \in GroupSet, NEW u \in Tables, NEW j \in 1 .. Len(g[u].rows),
         NEW m \in Nat, NEW n
  PROVE  /\ WithLinks(WithLinks(g, u, j, m), u, j, n) = WithLinks(g, u, j, n)
         /\ WithLinks(g, u, j, m)[u].rows[j].links = m
         /\ j \in 1 .. Len(WithLinks(g, u, j, m)[u].rows)
<1>1. PICK rows \in Seq(RowRecords) : rows = g[u].rows
  BY DEF GroupSet
<1>2. PICK x \in RowRecords : x = rows[j]
  BY <1>1
<1>3. PICK y : y = [x EXCEPT !.links = m]
  OBVIOUS
<1>4. y.links = m /\ [y EXCEPT !.links = n] = [x EXCEPT !.links = n]
  BY <1>3 DEF RowRecords
<1>5. PICK new : new = [rows EXCEPT ![j] = y]
  OBVIOUS
<1>6. new[j] = y /\ Len(new) = Len(rows)
  BY <1>1, <1>5
<1>7. \A z : [new EXCEPT ![j] = z] = [rows EXCEPT ![j] = z]
  BY <1>5
<1>8. PICK g2 : g2 = WithLinks(g, u, j, m)
  OBVIOUS
<1>9. PICK table : table = g[u]
  OBVIOUS
<1>10. table \in [rows : Seq(RowRecords), columns : Seq(Nat)]
  BY <1>9 DEF GroupSet
<1>11. PICK table2 : table2 = [table EXCEPT !.rows = new]
  OBVIOUS
<1>12. g2 = [g EXCEPT ![u] = table2]
  BY <1>1, <1>2, <1>3, <1>5, <1>8, <1>9, <1>11 DEF WithLinks
<1>13. g2[u] = table2 /\ \A z : [g2 EXCEPT ![u] = z] = [g EXCEPT ![u] = z]
  BY <1>12 DEF GroupSet
<1>14. table2.rows = new /\ \A z : [table2 EXCEPT !.rows = z] = [table EXCEPT !.rows = z]
  BY <1>10, <1>11
<1>15. WithLinks(g2, u, j, n)
         = [g2 EXCEPT ![u] = [table2 EXCEPT !.rows = [new EXCEPT ![j] = [y EXCEPT !.links = n]]]]
  BY <1>6, <1>13, <1>14 DEF WithLinks
<1>16. WithLinks(g, u, j, n)
         = [g EXCEPT ![u] = [table EXCEPT !.rows = [rows EXCEPT ![j] = [x EXCEPT !.links = n]]]]
  BY <1>1, <1>2, <1>9 DEF WithLinks
<1>17. WithLinks(g2, u, j, n) = WithLinks(g, u, j, n)
  <2>1. PICK z : z = [x EXCEPT !.links = n]
    OBVIOUS
  <2>2. PICK w : w = [rows EXCEPT ![j] = z]
    OBVIOUS
  <2>3. PICK v : v = [table EXCEPT !.rows = w]
    OBVIOUS
  <2>4. WithLinks(g, u, j, n) = [g EXCEPT ![u] = v]
    BY <1>16, <2>1, <2>2, <2>3
  <2>5. [new EXCEPT ![j] = [y EXCEPT !.links = n]] = w
    BY <1>4, <1>7, <2>1, <2>2
  <2>6. WithLinks(g2, u, j, n) = [g2 EXCEPT ![u] = [table2 EXCEPT !.rows = w]]
    BY <1>15, <2>5
  <2>7. [table2 EXCEPT !.rows = w] = v
    BY <1>14, <2>3
  <2> QED
    BY <1>13, <2>4, <2>6, <2>7
<1> QED
  BY <1>1, <1>4, <1>6, <1>8, <1>13, <1>14, <1>17

AppendsBehind(x, y, e) == Append(x \o y, e) = x \o Append(y, e)

LEMMA AppendedBehind ==
  ASSUME NEW S, NEW x \in Seq(S), NEW y \in Seq(S), NEW e \in S
  PROVE  AppendsBehind(x, y, e)
<1>1. <<e>> \in Seq(S) /\ x \o y \in Seq(S)
  OBVIOUS
<1>2. PICK one \in Seq(S) : one = <<e>>
  BY <1>1
<1>3. (x \o y) \o one = x \o (y \o one)
  BY ConcatAssociative
<1>4. Append(x \o y, e) = (x \o y) \o one
  BY <1>1, <1>2, AppendIsConcat
<1>5. Append(y, e) = y \o one
  BY <1>2, AppendIsConcat
<1> QED
  BY <1>3, <1>4, <1>5 DEF AppendsBehind

LEMMA GatheredBehind ==
  ASSUME NEW r \in ReverserSet, NEW ins \in Seq(Backs), NEW i \in Backs
  PROVE  Gathered([r EXCEPT !.out = @ \o ins], i) = [r EXCEPT !.out = @ \o Append(ins, i)]
<1>1. PICK out \in Seq(Backs) : out = r.out
  BY DEF ReverserSet
<1>2. Append(out \o ins, i) = out \o Append(ins, i)
  <2>1. AppendsBehind(out, ins, i)
    BY AppendedBehind
  <2> QED
    BY <2>1, Zenon DEF AppendsBehind
<1>3. PICK s : s = [r EXCEPT !.out = out \o ins]
  OBVIOUS
<1>4. s.out = out \o ins
  BY <1>3 DEF ReverserSet
<1>5. [s EXCEPT !.out = Append(s.out, i)] = [r EXCEPT !.out = Append(out \o ins, i)]
  BY <1>3, <1>4 DEF ReverserSet
<1> QED
  BY <1>1, <1>2, <1>3, <1>5 DEF Gathered

Inserts(old, n) == [m \in 1 .. n |-> Instr("ListInsert", old + 1 - m, 0)]

LEMMA InsertsGrow ==
  ASSUME NEW old \in Nat, NEW n \in Nat, n <= old
  PROVE  /\ Inserts(old, n) \in Seq(Backs)
         /\ n + 1 <= old =>
              Inserts(old, n + 1) = Append(Inserts(old, n), Instr("ListInsert", old - n, 0))
<1>1. \A m \in 1 .. n : Instr("ListInsert", old + 1 - m, 0) \in Backs
  BY DEF Instr, Backs, Operations
<1>2. PICK ins : ins = Inserts(old, n)
  OBVIOUS
<1>3. ins \in Seq(Backs)
  BY <1>1, <1>2, IsASeq DEF Inserts
<1>4. DOMAIN ins = 1 .. n /\ \A m \in 1 .. n : ins[m] = Instr("ListInsert", old + 1 - m, 0)
  BY <1>2 DEF Inserts
<1>5. Len(ins) = n
  BY <1>3, <1>4
<1>6. ASSUME n + 1 <= old
      PROVE  Inserts(old, n + 1) = Append(ins, Instr("ListInsert", old - n, 0))
  <2>0. old - n \in Nat
    BY <1>6
  <2>1. PICK last \in Backs : last = Instr("ListInsert", old - n, 0)
    BY <2>0 DEF Instr, Backs, Operations
  <2>2. Append(ins, last) = [m \in 1 .. n + 1 |-> IF m = n + 1 THEN last ELSE ins[m]]
    <3>1. PICK more \in Seq(Backs) : more = Append(ins, last)
      BY <1>3, AppendProperties
    <3>2. /\ Len(more) = n + 1 /\ more[n + 1] = last
          /\ \A m \in 1 .. n : more[m] = ins[m]
      BY <1>3, <1>5, <3>1, AppendProperties
    <3>3. more = [m \in 1 .. n + 1 |-> more[m]]
      BY <3>2
    <3>4. \A m \in 1 .. n + 1 : more[m] = IF m = n + 1 THEN last ELSE ins[m]
      <4>1. \A m \in 1 .. n + 1 : m # n + 1 => m \in 1 .. n
        OBVIOUS
      <4> QED
        BY <3>2, <4>1
    <3> QED
      BY <3>1, <3>3, <3>4
  <2>3. ASSUME NEW m \in 1 .. n + 1
        PROVE  Instr("ListInsert", old + 1 - m, 0) = IF m = n + 1 THEN last ELSE ins[m]
    <3>1. CASE m = n + 1
      <4>1. old + 1 - m = old - n
        BY <3>1
      <4> QED
        BY <2>1, <3>1, <4>1
    <3>2. CASE m # n + 1
      <4>1. m \in 1 .. n
        BY <3>2
      <4> QED
        BY <1>4, <3>2, <4>1
    <3> QED
      BY <3>1, <3>2
  <2> QED
    BY <2>1, <2>2, <2>3 DEF Inserts
<1> QED
  BY <1>2, <1>3, <1>6

WithInserts(r, old, n) == [r EXCEPT !.out = @ \o Inserts(old, n)]

ComesBack(k, r, s, g) ==
  ReverserOK(s) /\ Undoing(k, s, g) /\ s.table = r.table /\ s.list = r.list

LEMMA LinksComeBack ==
  ASSUME NEW k, NEW r, ReverserOK(r), r.table # <<>>, NEW g \in GroupSet, Undoing(k, r, g),
         NEW u \in Tables, NEW j \in 1 .. Len(g[u].rows), NEW old \in Nat,
         old = g[u].rows[j].links,
         k = "links" => PlacesOf("links", r) = {<<u, j>>}
  PROVE  ComesBack(k, r, WithInserts(r, old, old), WithLinks(g, u, j, 0))
<1>1. PICK K : K = {n \in Nat : n <= old =>
                      ComesBack(k, r, WithInserts(r, old, n), WithLinks(g, u, j, old - n))}
  OBVIOUS
<1>2. r \in ReverserSet /\ r.out \in Seq(Backs)
  BY DEF ReverserOK, ReverserSet
<1>3. 0 \in K
  <2>1. PICK none : none = Inserts(old, 0)
    OBVIOUS
  <2>2. none = <<>>
    <3>1. none \in Seq(Backs) /\ DOMAIN none = 1 .. 0
      BY <2>1, InsertsGrow DEF Inserts
    <3>2. Len(none) = 0
      BY <3>1
    <3> QED
      BY <3>1, <3>2, EmptySeq
  <2>3. r.out \o <<>> = r.out
    BY <1>2, ConcatEmptySeq
  <2>4. WithInserts(r, old, 0) = r
    BY <1>2, <2>1, <2>2, <2>3 DEF WithInserts, ReverserSet
  <2>5. WithLinks(g, u, j, old) = g
    BY LinksAsTheyWere
  <2>6. old - 0 = old
    OBVIOUS
  <2>7. ComesBack(k, r, WithInserts(r, old, 0), WithLinks(g, u, j, old - 0))
    BY <2>4, <2>5, <2>6 DEF ComesBack
  <2> QED
    BY <1>1, <2>7
<1>4. ASSUME NEW n \in Nat, n \in K PROVE n + 1 \in K
  <2> SUFFICES ASSUME n + 1 <= old
               PROVE  ComesBack(k, r, WithInserts(r, old, n + 1),
                                WithLinks(g, u, j, old - (n + 1)))
    BY <1>1
  <2>1. PICK s : s = WithInserts(r, old, n)
    OBVIOUS
  <2>2. PICK h : h = WithLinks(g, u, j, old - n)
    OBVIOUS
  <2>3. ReverserOK(s) /\ Undoing(k, s, h) /\ s.table = r.table /\ s.list = r.list
    BY <1>1, <1>4, <2>1, <2>2 DEF ComesBack
  <2>4. PICK m \in Nat : m = old - (n + 1)
    OBVIOUS
  <2>5. PICK m1 \in Nat : m1 = old - n /\ m1 = m + 1
    BY <2>4, SMTT(40)
  <2>6. h \in GroupSet
    BY <2>2, <2>5, LinksKeepRows
  <2>7. h[u].rows[j].links = m1 /\ j \in 1 .. Len(h[u].rows)
        /\ WithLinks(h, u, j, m) = WithLinks(g, u, j, m)
    <3>1. h = WithLinks(g, u, j, m1)
      BY <2>2, <2>5
    <3>2. /\ WithLinks(WithLinks(g, u, j, m1), u, j, m) = WithLinks(g, u, j, m)
          /\ WithLinks(g, u, j, m1)[u].rows[j].links = m1
          /\ j \in 1 .. Len(WithLinks(g, u, j, m1)[u].rows)
      BY LinksTwice
    <3> QED
      BY <3>1, <3>2
  <2>8. h[u].rows[j].links = Undo("ListInsert", m)
    BY <2>5, <2>7 DEF Undo
  <2>9. k = "links" => PlacesOf("links", s) = {<<u, j>>}
    BY <2>3 DEF PlacesOf
  <2>10. PICK last \in Backs : last = Instr("ListInsert", old - n, 0)
    BY <2>5 DEF Instr, Backs, Operations
  <2>11. PICK h2 : h2 = WithLinks(h, u, j, m)
    OBVIOUS
  <2>12. s.table # <<>>
    BY <2>3
  <2>13. /\ ListInPlace(k, s, h2)
         /\ GoesBack(k, last, TablesOf(s), PlacesOf(k, s), h2, TablesOf(s), PlacesOf(k, s), h)
    <3>1. /\ ListInPlace(k, s, WithLinks(h, u, j, m))
          /\ GoesBack(k, Instr("ListInsert", old - n, 0), TablesOf(s), PlacesOf(k, s),
                      WithLinks(h, u, j, m), TablesOf(s), PlacesOf(k, s), h)
      BY <2>3, <2>6, <2>7, <2>8, <2>9, <2>12, LinkGathered
    <3> QED
      BY <2>10, <2>11, <3>1
  <2>14. PICK s2 : s2 = Gathered(s, last)
    OBVIOUS
  <2>15. ReverserOK(s2) /\ Undoing(k, s2, h2) /\ s2.table = s.table /\ s2.list = s.list
    BY <2>3, <2>12, <2>13, <2>14, InverseRead
  <2>16. s2 = WithInserts(r, old, n + 1)
    <3>0. n <= old
      OBVIOUS
    <3>1. PICK ins \in Seq(Backs) : ins = Inserts(old, n)
      BY <3>0, InsertsGrow
    <3>2. Inserts(old, n + 1) = Append(ins, last)
      BY <2>10, <3>0, <3>1, InsertsGrow
    <3>3. s = [r EXCEPT !.out = @ \o ins]
      BY <2>1, <3>1 DEF WithInserts
    <3>4. Gathered([r EXCEPT !.out = @ \o ins], last) = [r EXCEPT !.out = @ \o Append(ins, last)]
      BY <1>2, GatheredBehind
    <3> QED
      BY <2>14, <3>2, <3>3, <3>4 DEF WithInserts
  <2>17. h2 = WithLinks(g, u, j, old - (n + 1))
    BY <2>4, <2>7, <2>11
  <2> QED
    BY <2>3, <2>15, <2>16, <2>17 DEF ComesBack
<1>5. old \in K
  BY <1>3, <1>4, SetInduction
<1>6. old - old = 0
  OBVIOUS
<1> QED
  BY <1>1, <1>5, <1>6

LEMMA ListClearRolls ==
  ASSUME RollInd, LogInd', NEW a \in Addresses, ListClear(a)
  PROVE  RollInd'
<1>1. Attached(view[a]) /\ ChangeList(a, "ListClear", 0) /\ LogInd
  BY DEF ListClear, RollInd
<1>2. PICK u \in Tables, j \in Nat :
        /\ view[a] = <<u, j>> /\ j \in 1 .. Len(group[u].rows)
        /\ group[u].rows[j].links \in Nat /\ LinksOf(a) = group[u].rows[j].links
  BY <1>1, AttachedPlace
<1>3. PICK old \in Nat : old = group[u].rows[j].links
  BY <1>2
<1>4. PICK instr \in Instructions : instr = Instr("ListClear", old, 0)
  BY InstructionsLogged
<1>5. OnList(a, instr) /\ view' = view /\ group' = WithLinks(group, u, j, 0)
  BY <1>1, <1>2, <1>3, <1>4 DEF ChangeList, WithLinks
<1>6. PICK r : Reads(instr, r) /\ (Open(log, "links") => PlacesOf("links", r) = {view[a]})
  BY <1>2, <1>5, ListInstructionRead
<1>7. ReverserOK(r) /\ r.table # <<>>
  BY <1>6 DEF Reads
<1>8. PICK s : s = Reversing(r, instr)
  OBVIOUS
<1>9. s = WithInserts(r, old, old)
  <2>1. instr.op = "ListClear" /\ instr.a = old
    BY <1>4 DEF Instr
  <2>2. InverseOf(instr) = Inserts(old, old)
    BY <2>1 DEF InverseOf, Inserts
  <2> QED
    BY <1>8, <2>1, <2>2 DEF Reversing, Selections, WithInserts
<1>10. group \in GroupSet
  BY GroupsThen
<1>11. ASSUME NEW k \in Modes, Open(log, k), Undoing(k, r, group)
       PROVE  ComesBack(k, r, s, group')
  <2>1. k = "links" => PlacesOf("links", r) = {<<u, j>>}
    BY <1>2, <1>6, <1>11
  <2>2. ComesBack(k, r, WithInserts(r, old, old), WithLinks(group, u, j, 0))
    BY <1>2, <1>3, <1>7, <1>10, <1>11, <2>1, LinksComeBack
  <2> QED
    BY <1>5, <1>9, <2>2
<1>12. ReverserOK(s) /\ s.table = r.table /\ s.list = r.list
  <2>1. Open(log, "any") /\ "any" \in Modes
    BY AlwaysOpen DEF Modes
  <2>2. Undoing("any", r, group)
    BY <1>6, <2>1 DEF Reads, UndoneFrom
  <2> QED
    BY <1>11, <2>1, <2>2 DEF ComesBack
<1>13. \A k \in Modes : Open(log, k) /\ Undoing(k, r, group) /\ instr.op \notin Barred(k) =>
                          Undoing(k, s, group')
  BY <1>11 DEF ComesBack
<1> QED
  BY <1>5, <1>6, <1>8, <1>12, <1>13, RollStep

(* Accessors: nothing is logged.                                             *)
LEMMA AccessorRolls ==
  ASSUME RollInd, LogInd', UNCHANGED <<group, log>>,
         cache'.table = cache.table,
         cache'.list # 0 => /\ cache'.list = cache.list
                            /\ view[cache.list] # None => view'[cache.list] = view[cache.list]
  PROVE  RollInd'
<1>1. PICK r : r = Parsed(log)
  OBVIOUS
<1>2. r = Parsed(log') /\ log' = log /\ group' = group
  BY <1>1
<1>3. CacheReads(cache, r, view, log)
  BY <1>1 DEF RollInd
<1>4. ASSUME Open(log, "links"), cache'.list # 0 PROVE view'[cache'.list] = view[cache.list]
  <2>1. cache.list # 0 /\ cache'.list = cache.list
    BY <1>4
  <2>2. cache.table # 0 /\ view[cache.list] = <<cache.table, r.list[1].b>>
    BY <1>3, <1>4, <2>1 DEF CacheReads
  <2>3. view[cache.list] # None
    BY <2>2 DEF None
  <2> QED
    BY <2>1, <2>3
<1>5. CacheReads(cache', r, view', log')
  BY <1>2, <1>3, <1>4 DEF CacheReads
<1>6. ReverserOK(r) /\ UndoneFrom(log', r, group')
  BY <1>1, <1>2 DEF RollInd
<1> QED
  BY <1>2, <1>5, <1>6 DEF RollInd

LEMMA OpenListRolls ==
  ASSUME RollInd, LogInd', NEW a \in Addresses, NEW t \in Tables, NEW i, OpenList(a, t, i)
  PROVE  RollInd'
<1>1. /\ view[a] = None /\ view' = [view EXCEPT ![a] = <<t, i>>]
      /\ UNCHANGED <<group, cache, log>>
  BY DEF OpenList
<1>2. cache.list \in Addresses \union {0} /\ DOMAIN view = Addresses
  BY DEF RollInd, LogInd, LogTypeOK, Caches
<1>3. ASSUME cache.list # 0, view[cache.list] # None
      PROVE  view'[cache.list] = view[cache.list]
  BY <1>1, <1>2, <1>3
<1> QED
  BY <1>1, <1>3, AccessorRolls

LEMMA DestroyListRolls ==
  ASSUME RollInd, LogInd', NEW a \in Addresses, DestroyList(a)
  PROVE  RollInd'
<1>1. /\ view' = [view EXCEPT ![a] = None] /\ cache' = OnListDestroyed(a)
      /\ UNCHANGED <<group, log>>
  BY DEF DestroyList
<1>2. cache \in Caches /\ DOMAIN view = Addresses
  BY DEF RollInd, LogInd, LogTypeOK
<1>3. /\ cache'.table = cache.table
      /\ cache'.list # 0 => cache'.list = cache.list /\ cache.list # a /\ cache.list \in Addresses
  BY <1>1, <1>2 DEF OnListDestroyed, Caches
<1>4. cache'.list # 0 => view'[cache.list] = view[cache.list]
  BY <1>1, <1>2, <1>3
<1> QED
  BY <1>1, <1>3, <1>4, AccessorRolls

-----------------------------------------------------------------------------
LEMMA NextRollInd ==
  ASSUME RollInd, LogNext \/ UNCHANGED logVars
  PROVE  RollInd'
<1>1. LogInd'
  BY NextLogInd DEF RollInd
<1>2. CASE LogNext
  <2>1. ASSUME NEW t \in Tables, InsertRow(t) \/ ClearTable(t) PROVE RollInd'
    BY <1>1, <2>1, InsertRowRolls, ClearTableRolls
  <2>2. ASSUME NEW t \in Tables, NEW i, SetValue(t, i) \/ EraseRow(t, i) PROVE RollInd'
    BY <1>1, <2>2, SetValueRolls, EraseRowRolls
  <2>3. ASSUME NEW t \in Tables, NEW c, InsertColumn(t, c) \/ EraseColumn(t, c) PROVE RollInd'
    BY <1>1, <2>3, InsertColumnRolls, EraseColumnRolls
  <2>4. ASSUME NEW t \in Tables, NEW a \in Addresses, NEW i, OpenList(a, t, i) PROVE RollInd'
    BY <1>1, <2>4, OpenListRolls
  <2>5. ASSUME NEW a \in Addresses, ListInsert(a) \/ ListErase(a) PROVE RollInd'
    BY <1>1, <2>5, ListInsertRolls, ListEraseRolls
  <2>6. ASSUME NEW a \in Addresses, ListClear(a) \/ DestroyList(a) PROVE RollInd'
    BY <1>1, <2>6, ListClearRolls, DestroyListRolls
  <2> QED
    BY <1>2, <2>1, <2>2, <2>3, <2>4, <2>5, <2>6 DEF LogNext
<1>3. CASE UNCHANGED logVars
  <2>1. group' = group /\ view' = view /\ cache' = cache /\ log' = log
    BY <1>3 DEF logVars
  <2> QED
    BY <1>1, <2>1, AccessorRolls
<1> QED
  BY <1>2, <1>3

(* What the reversed log makes of what the transaction made.                 *)
LEMMA BackFromGroup ==
  ASSUME RollInd, NEW k \in Modes, Open(log, k)
  PROVE  BackWhere(k, RolledBack)
<1>1. group \in GroupSet
  BY DEF RollInd, LogInd, LogTypeOK
<1>2. PICK r : r = Parsed(log)
  OBVIOUS
<1>3. ReverserOK(r) /\ Undoing(k, r, group)
  BY <1>2 DEF RollInd, UndoneFrom
<1>4. PICK out : out = SyncTable(r).out
  OBVIOUS
<1>5. Undoes(k, out, Tables \union {0}, Spots, group) /\ out \in Seq(Backs)
  <2>1. /\ Undoes(k, SyncTable(r).out, Tables \union {0}, Spots, group)
        /\ SyncTable(r) \in ReverserSet
    BY <1>1, <1>3, TableSynced
  <2> QED
    BY <1>4, <2>1 DEF ReverserSet
<1>6. PICK e : e = After(Reverse(out), group)
  OBVIOUS
<1>7. Unwinds(out, Start(group), e)
  BY <1>5, <1>6, ReversedUnwinds
<1>8. Start(group) = State(group, 0, None) /\ None \in Spots
  BY DEF Start, State, None, Spots
<1>9. Undone(k, group, group)
  <2>1. \A t \in Tables : TableUndone(k, group[t], group[t])
    BY DEF TableUndone, RowsUndone, RowUndone, ColumnsUndone
  <2> QED
    BY <2>1 DEF Undone
<1>10. BackWhere(k, e.group)
  BY <1>1, <1>5, <1>7, <1>8, <1>9 DEF Undoes
<1>11. RolledBack = e.group
  BY <1>2, <1>4, <1>6 DEF RolledBack, Applied, Reversed
<1> QED
  BY <1>10, <1>11

LEMMA TableBack ==
  ASSUME NEW k, NEW g, BackWhere(k, g), NEW t \in Tables
  PROVE  /\ DOMAIN g[t].rows = 1 .. Len(g[t].rows) /\ Len(g[t].rows) \in Nat
         /\ DOMAIN g[t].columns = 1 .. Len(g[t].columns)
         /\ RowsUndone(k, g[t].rows, Before[t].rows)
         /\ ColumnsUndone(k, g[t].columns, Before[t].columns)
<1>1. g[t].rows \in Seq(RowRecords) /\ g[t].columns \in Seq(Nat)
  BY DEF BackWhere, GroupSet
<1>2. TableUndone(k, g[t], Before[t])
  BY DEF BackWhere, Undone
<1> QED
  BY <1>1, <1>2 DEF TableUndone

LEMMA BeforeTable ==
  ASSUME NEW t \in Tables
  PROVE  /\ Len(Before[t].rows) = RowsAtStart
         /\ \A i \in 1 .. RowsAtStart : Before[t].rows[i].id = i
         /\ Len(Before[t].columns) = 2
         /\ Before[t].columns[1] = 1 /\ Before[t].columns[2] = 2
<1>1. PICK rows : rows = [i \in 1 .. RowsAtStart |-> [id |-> i, value |-> 0, links |-> 1]]
  OBVIOUS
<1>2. Before[t] = [rows |-> rows, columns |-> <<1, Links>>]
  BY <1>1 DEF Before
<1>3. rows \in Seq(RowRecords)
  <2>1. \A i \in 1 .. RowsAtStart : [id |-> i, value |-> 0, links |-> 1] \in RowRecords
    BY TransactLogAssumption DEF RowRecords
  <2> QED
    BY <1>1, <2>1, TransactLogAssumption, IsASeq
<1>4. Len(rows) = RowsAtStart
  BY <1>1, <1>3, TransactLogAssumption
<1>5. \A i \in 1 .. RowsAtStart : rows[i].id = i
  BY <1>1
<1>6. Before[t].rows = rows /\ Before[t].columns = <<1, 2>>
  BY <1>2 DEF Links
<1> QED
  BY <1>4, <1>5, <1>6

LEMMA RollIndRestores ==
  ASSUME RollInd
  PROVE  RollbackRestores
<1>1. PICK back : back = RolledBack
  OBVIOUS
<1>2. \A ops : Logged(ops) <=> LoggedIn(log, ops)
  BY DEF Logged, LoggedIn
<1>3. BackWhere("any", back)
  BY <1>1, AlwaysOpen, BackFromGroup DEF Modes
<1>4. ~Logged({"Clear"}) => BackWhere("rows", back)
  <2>1. Barred("rows") = {"Clear"}
    BY DEF Barred
  <2> QED
    BY <1>1, <1>2, <2>1, BackFromGroup DEF Modes, Open
<1>5. ~Logged({"EraseRow", "Clear", "InsertColumn", "EraseColumn"}) => BackWhere("links", back)
  <2>1. Barred("links") = {"EraseRow", "Clear", "InsertColumn", "EraseColumn"}
    BY DEF Barred
  <2> QED
    BY <1>1, <1>2, <2>1, BackFromGroup DEF Modes, Open
<1>6. ASSUME NEW t \in Tables, ~Logged({"Clear"}) PROVE Len(back[t].rows) = RowsAtStart
  <2>1. RowsUndone("rows", back[t].rows, Before[t].rows)
    BY <1>4, <1>6, TableBack
  <2> QED
    BY <2>1, BeforeTable DEF RowsUndone
<1>7. ASSUME NEW t \in Tables, NEW i \in DOMAIN back[t].rows PROVE back[t].rows[i].id \in {0, i}
  <2>1. RowsUndone("any", back[t].rows, Before[t].rows) /\ i \in 1 .. Len(back[t].rows)
    BY <1>3, <1>7, TableBack
  <2> QED
    BY <2>1, BeforeTable DEF RowsUndone, RowUndone
<1>8. ASSUME NEW t \in Tables, NEW c \in DOMAIN back[t].columns
      PROVE  back[t].columns[c] \in {0, c}
  <2>1. ColumnsUndone("any", back[t].columns, Before[t].columns) /\ c \in 1 .. Len(back[t].columns)
    BY <1>3, <1>8, TableBack
  <2>2. c \in 1 .. 2 /\ (back[t].columns[c] = Before[t].columns[c] \/ back[t].columns[c] = 0)
    BY <2>1, BeforeTable DEF ColumnsUndone
  <2>3. c = 1 \/ c = 2
    BY <2>2
  <2> QED
    BY <2>2, <2>3, BeforeTable
<1>9. PlacesRestored
  <2>1. ASSUME NEW t \in Tables PROVE Len(back[t].columns) = Len(Before[t].columns)
    BY <1>3, TableBack DEF ColumnsUndone
  <2> QED
    BY <1>1, <1>6, <1>7, <1>8, <2>1 DEF PlacesRestored
<1>10. ASSUME ~Logged({"EraseRow", "Clear", "InsertColumn", "EraseColumn"}), NEW t \in Tables,
              NEW i \in DOMAIN Before[t].rows
       PROVE  back[t].rows[i].id = i /\ back[t].rows[i].links = Before[t].rows[i].links
  <2>1. RowsUndone("links", back[t].rows, Before[t].rows)
    BY <1>5, <1>10, TableBack
  <2>2. Len(back[t].rows) = RowsAtStart
    BY <2>1, BeforeTable DEF RowsUndone
  <2>3. i \in 1 .. RowsAtStart
    BY <1>10 DEF Before
  <2>4. Before[t].rows[i].id = i
    BY <2>3, BeforeTable
  <2> QED
    BY <2>1, <2>2, <2>3, <2>4 DEF RowsUndone, RowUndone
<1>11. ListsRestored
  BY <1>1, <1>10 DEF ListsRestored
<1> QED
  BY <1>9, <1>11 DEF RollbackRestores

(* Whatever a transaction modifies, its reversed log (TransactReverser and   *)
(* ReversedNoCopyInputStream, transact_log.hpp:1891-2262), applied when the  *)
(* transaction is cancelled, brings no row or column to the place of another *)
(* (one may come back as a new one), and gives back every row itself, with   *)
(* its links, where the transaction erased no row and moved no column: a     *)
(* selection is gathered behind all that was done under it, so that in       *)
(* reverse it comes before it, and no inverse goes to a table or a list that *)
(* was selected for another.                                                 *)
THEOREM RollbackGivesBack == LogSpec => []RollbackRestores
<1>1. LogInit => RollInd
  BY InitRollInd
<1>2. RollInd /\ [LogNext]_logVars => RollInd'
  BY NextRollInd
<1>3. RollInd => RollbackRestores
  BY RollIndRestores
<1> QED
  BY <1>1, <1>2, <1>3, PTL DEF LogSpec

-----------------------------------------------------------------------------
(* The numbers of a log: powers of two, the bytes of one number, the reader  *)
(* of one number, and then a log of several.                                 *)
LEMMA PowerSteps ==
  /\ Power \in [Nat -> Nat \ {0}] /\ Power[0] = 1
  /\ \A n \in Nat : Power[n + 1] = 2 * Power[n]
<1>1. PICK S : S = Nat \ {0}
  OBVIOUS
<1>2. PICK step : step = [n \in Nat |-> [s \in S |-> 2 * s]]
  OBVIOUS
<1>3. \A L \in Nat : StaysIn(S, L, step)
  <2> SUFFICES ASSUME NEW L \in Nat, NEW n \in 1 .. L, NEW s \in S
               PROVE  step[n][s] \in S
    BY DEF StaysIn
  <2>1. n \in Nat /\ 2 * s \in S
    BY <1>1
  <2> QED
    BY <1>2, <2>1
<1>4. HasIterationForever(S, 1, step)
  BY <1>1, <1>3, IteratedForever
<1>5. PICK f \in [Nat -> S] : f[0] = 1 /\ \A n \in Nat : f[n + 1] = step[n + 1][f[n]]
  BY <1>4 DEF HasIterationForever
<1>6. ASSUME NEW n \in Nat PROVE f[n] \in Nat /\ f[n + 1] = 2 * f[n]
  <2>1. PICK m \in Nat : m = n + 1
    OBVIOUS
  <2>2. f[m] = step[m][f[n]] /\ f[n] \in S
    BY <1>5, <2>1
  <2>3. step[m][f[n]] = 2 * f[n]
    BY <1>2, <2>2
  <2> QED
    BY <1>1, <2>1, <2>2, <2>3
<1>7. f = [n \in Nat |-> IF n = 0 THEN 1 ELSE 2 * f[n - 1]]
  <2>1. ASSUME NEW n \in Nat PROVE f[n] = IF n = 0 THEN 1 ELSE 2 * f[n - 1]
    <3>1. CASE n = 0
      BY <1>5, <3>1
    <3>2. CASE n # 0
      <4>1. n - 1 \in Nat /\ (n - 1) + 1 = n
        BY <3>2
      <4> QED
        BY <1>6, <3>2, <4>1
    <3> QED
      BY <3>1, <3>2
  <2>2. f = [n \in Nat |-> f[n]]
    BY <1>5
  <2> QED
    BY <2>1, <2>2
<1>8. Power = [n \in Nat |-> IF n = 0 THEN 1 ELSE 2 * Power[n - 1]]
  BY <1>7 DEF Power
<1>9. ASSUME NEW n \in Nat PROVE Power[n + 1] = 2 * Power[n]
  <2>1. n + 1 \in Nat /\ n + 1 # 0 /\ (n + 1) - 1 = n
    OBVIOUS
  <2> QED
    BY <1>8, <2>1
<1>10. Power[0] = 1
  BY <1>8
<1>11. \A n \in Nat : Power[n] \in Nat \ {0}
  <2>1. PICK K : K = {n \in Nat : Power[n] \in Nat \ {0}}
    OBVIOUS
  <2>2. 0 \in K /\ \A n \in Nat : n \in K => n + 1 \in K
    BY <1>9, <1>10, <2>1
  <2>3. \A n \in Nat : n \in K
    BY <2>2, SetInduction
  <2> QED
    BY <2>1, <2>3
<1>12. Power \in [Nat -> Nat \ {0}]
  BY <1>8, <1>11
<1> QED
  BY <1>9, <1>10, <1>12

LEMMA PowersGrow ==
  ASSUME NEW a \in Nat, NEW b \in Nat, a <= b
  PROVE  Power[a] <= Power[b]
<1>1. PICK K : K = {n \in Nat : Power[a] <= Power[a + n]}
  OBVIOUS
<1>2. Power[a + 0] = Power[a] /\ Power[a] \in Nat
  BY PowerSteps
<1>3. ASSUME NEW n \in Nat, n \in K PROVE n + 1 \in K
  <2>1. PICK m \in Nat : m = a + n /\ a + (n + 1) = m + 1
    OBVIOUS
  <2>2. Power[m + 1] = 2 * Power[m] /\ Power[m] \in Nat
    BY PowerSteps
  <2> QED
    BY <1>1, <1>2, <1>3, <2>1, <2>2
<1>4. \A n \in Nat : n \in K
  <2>1. 0 \in K
    BY <1>1, <1>2
  <2>2. \A n \in Nat : n \in K => n + 1 \in K
    BY <1>3
  <2> QED
    BY <2>1, <2>2, SetInduction
<1>5. b - a \in Nat /\ a + (b - a) = b
  OBVIOUS
<1> QED
  BY <1>1, <1>4, <1>5

LEMMA SevenShifts ==
  ASSUME NEW i \in Nat
  PROVE  Power[7 * i + 6] = 64 * Power[7 * i] /\ Power[7 * (i + 1)] = 128 * Power[7 * i]
<1>1. PICK n \in Nat : n = 7 * i
  OBVIOUS
<1>2. /\ Power[n + 1] = 2 * Power[n] /\ Power[n + 2] = 2 * Power[n + 1]
      /\ Power[n + 3] = 2 * Power[n + 2] /\ Power[n + 4] = 2 * Power[n + 3]
      /\ Power[n + 5] = 2 * Power[n + 4] /\ Power[n + 6] = 2 * Power[n + 5]
      /\ Power[n + 7] = 2 * Power[n + 6] /\ Power[n] \in Nat
  <2>1. \A m \in Nat : Power[m + 1] = 2 * Power[m]
    BY PowerSteps
  <2>2. /\ n + 1 \in Nat /\ n + 2 \in Nat /\ n + 3 \in Nat
        /\ n + 4 \in Nat /\ n + 5 \in Nat /\ n + 6 \in Nat
        /\ (n + 1) + 1 = n + 2 /\ (n + 2) + 1 = n + 3 /\ (n + 3) + 1 = n + 4
        /\ (n + 4) + 1 = n + 5 /\ (n + 5) + 1 = n + 6 /\ (n + 6) + 1 = n + 7
    OBVIOUS
  <2>3. Power[n] \in Nat
    BY PowerSteps
  <2> QED
    BY <2>1, <2>2, <2>3
<1>3. 7 * (i + 1) = n + 7
  BY <1>1
<1> QED
  BY <1>1, <1>2, <1>3

(* The bytes of a number: what is left of it after each of them, and which   *)
(* is the last.                                                              *)
Folded(v) == IF v < 0 THEN -(v + 1) ELSE v

Rests(rest, m, last) ==
  rest \in [0 .. last -> Nat] /\ rest[0] = m /\ \A i \in 1 .. last : rest[i] = rest[i - 1] \div 128

CodeOf(v, rest, last) ==
  [i \in 1 .. last + 1 |->
     IF i <= last THEN 128 + (rest[i - 1] % 128)
     ELSE IF v < 0 THEN 64 + rest[last] ELSE rest[last]]

TurnsEnd(T, rest) ==
  {i \in 0 .. max_bytes(T) : FitsLastByte(rest[i]) \/ i = max_bytes(T)}

HowEncoded(T, v) ==
  \E rest : /\ Rests(rest, Folded(v), max_bytes(T))
            /\ encode_int(T, v) = CodeOf(v, rest, Min(TurnsEnd(T, rest)))

LEMMA InRangeFolds ==
  ASSUME NEW T \in Types, NEW v \in Int, InRange(T, v)
  PROVE  Folded(v) \in Nat /\ Folded(v) < Power[T.digits]
<1>1. PICK p \in Nat : p = Power[T.digits]
  BY PowerSteps, TransactLogIntsAssumption
<1> QED
  BY <1>1 DEF InRange, Lowest, Highest, Folded

LEMMA Turns ==
  ASSUME NEW T \in Types
  PROVE  /\ max_bytes(T) \in Nat \ {0}
         /\ T.digits \in Nat /\ T.digits <= 7 * (max_bytes(T) - 1) + 6
         /\ 7 * (max_bytes(T) - 1) <= T.digits
<1>1. PICK d \in Nat : d = T.digits
  BY TransactLogIntsAssumption
<1> QED
  BY <1>1 DEF max_bytes

LEMMA EncodedBySteps ==
  ASSUME NEW T \in Types, NEW v \in Int
  PROVE  HowEncoded(T, v)
<1>1. PICK L \in Nat : L = max_bytes(T)
  BY Turns
<1>2. PICK m \in Nat : m = IF v < 0 THEN -(v + 1) ELSE v
  OBVIOUS
<1>3. PICK step : step = [n \in 1 .. L |-> [s \in Nat |-> s \div 128]]
  OBVIOUS
<1>4. StaysIn(Nat, L, step)
  BY <1>3 DEF StaysIn
<1>5. HasIteration(Nat, L, m, step)
  BY <1>4, Iterated
<1>6. PICK f \in [0 .. L -> Nat] : f[0] = m /\ \A n \in 1 .. L : f[n] = step[n][f[n - 1]]
  BY <1>5 DEF HasIteration
<1>7. ASSUME NEW n \in 1 .. L PROVE f[n] = f[n - 1] \div 128
  <2>1. n - 1 \in 0 .. L
    OBVIOUS
  <2>2. f[n - 1] \in Nat
    BY <1>6, <2>1
  <2> QED
    BY <1>3, <1>6, <2>2
<1>8. f = [i \in 0 .. L |-> IF i = 0 THEN m ELSE f[i - 1] \div 128]
  <2>1. ASSUME NEW i \in 0 .. L PROVE f[i] = IF i = 0 THEN m ELSE f[i - 1] \div 128
    BY <1>6, <1>7
  <2>2. f = [i \in 0 .. L |-> f[i]]
    BY <1>6
  <2> QED
    BY <2>1, <2>2
<1> DEFINE rest == CHOOSE g : g = [i \in 0 .. L |-> IF i = 0 THEN m ELSE g[i - 1] \div 128]
<1>9. rest = [i \in 0 .. L |-> IF i = 0 THEN m ELSE rest[i - 1] \div 128]
  BY <1>8
<1>10. encode_int(T, v) = CodeOf(v, rest, Min(TurnsEnd(T, rest)))
  BY <1>1, <1>2 DEF encode_int, CodeOf, TurnsEnd
<1> HIDE DEF rest
<1>11. Rests(rest, m, L)
  <2>1. rest[0] = m
    BY <1>9
  <2>2. ASSUME NEW i \in 1 .. L PROVE rest[i] = rest[i - 1] \div 128
    BY <1>9
  <2>3. \A i \in 0 .. L : rest[i] \in Nat
    <3>1. PICK K : K = {i \in Nat : i <= L => rest[i] \in Nat}
      OBVIOUS
    <3>2. 0 \in K
      BY <2>1, <3>1
    <3>3. ASSUME NEW i \in Nat, i \in K PROVE i + 1 \in K
      <4>1. SUFFICES ASSUME i + 1 <= L PROVE rest[i + 1] \in Nat
        BY <3>1
      <4>2. i + 1 \in 1 .. L /\ (i + 1) - 1 = i
        BY <4>1
      <4>3. rest[i] \in Nat
        BY <3>1, <3>3, <4>1
      <4> QED
        BY <2>2, <4>2, <4>3
    <3>4. \A i \in Nat : i \in K
      BY <3>2, <3>3, SetInduction
    <3> QED
      BY <3>1, <3>4
  <2>4. rest \in [0 .. L -> Nat]
    BY <1>9, <2>3
  <2> QED
    BY <2>1, <2>2, <2>4 DEF Rests
<1> QED
  BY <1>1, <1>2, <1>10, <1>11 DEF HowEncoded, Folded

(* What is left, shifted back, with the bits of the bytes before it, is the   *)
(* number.                                                                   *)
AddsUp(low, rest, last) ==
  /\ low \in [0 .. last -> Nat] /\ low[0] = 0
  /\ \A i \in 1 .. last : low[i] = low[i - 1] + (rest[i - 1] % 128) * Power[7 * (i - 1)]

LEMMA BytesAddUp ==
  ASSUME NEW last \in Nat, NEW m \in Nat, NEW rest, Rests(rest, m, last),
         NEW low, AddsUp(low, rest, last)
  PROVE  \A i \in 0 .. last : low[i] + rest[i] * Power[7 * i] = m
<1>1. PICK K : K = {i \in Nat : i <= last => low[i] + rest[i] * Power[7 * i] = m}
  OBVIOUS
<1>2. 0 \in K
  <2>1. low[0] = 0 /\ rest[0] = m /\ Power[7 * 0] = 1
    BY PowerSteps DEF AddsUp, Rests
  <2> QED
    BY <1>1, <2>1
<1>3. ASSUME NEW i \in Nat, i \in K PROVE i + 1 \in K
  <2>1. SUFFICES ASSUME i + 1 <= last
                 PROVE  low[i + 1] + rest[i + 1] * Power[7 * (i + 1)] = m
    BY <1>1
  <2>2. i + 1 \in 1 .. last /\ (i + 1) - 1 = i /\ i \in 0 .. last
    BY <2>1
  <2>3. PICK v \in Nat : v = rest[i]
    BY <2>2 DEF Rests
  <2>4. PICK a \in Nat : a = low[i]
    BY <2>2 DEF AddsUp
  <2>5. PICK x \in Nat : x = Power[7 * i]
    BY PowerSteps
  <2>6. a + v * x = m
    BY <1>1, <1>3, <2>1, <2>3, <2>4, <2>5
  <2>7. rest[i + 1] = v \div 128
    BY <2>2, <2>3 DEF Rests
  <2>8. low[i + 1] = a + (v % 128) * x
    BY <2>2, <2>3, <2>4, <2>5 DEF AddsUp
  <2>9. Power[7 * (i + 1)] = 128 * x
    BY <2>5, SevenShifts
  <2>10. (a + (v % 128) * x) + (v \div 128) * (128 * x) = a + v * x
    OBVIOUS
  <2> QED
    BY <2>6, <2>7, <2>8, <2>9, <2>10
<1>4. \A i \in Nat : i \in K
  BY <1>2, <1>3, SetInduction
<1> QED
  BY <1>1, <1>4

(* There are such bits.                                                      *)
LEMMA BitsBelow ==
  ASSUME NEW last \in Nat, NEW rest \in [0 .. last -> Nat]
  PROVE  \E low : AddsUp(low, rest, last)
<1>1. PICK step : step = [i \in 1 .. last |->
                            [s \in Nat |-> s + (rest[i - 1] % 128) * Power[7 * (i - 1)]]]
  OBVIOUS
<1>2. ASSUME NEW i \in 1 .. last, NEW s \in Nat
      PROVE  /\ step[i][s] = s + (rest[i - 1] % 128) * Power[7 * (i - 1)]
             /\ step[i][s] \in Nat
  <2>1. i - 1 \in 0 .. last /\ 7 * (i - 1) \in Nat
    OBVIOUS
  <2>2. PICK r \in Nat : r = rest[i - 1] % 128
    BY <2>1
  <2>3. PICK x \in Nat : x = Power[7 * (i - 1)]
    BY <2>1, PowerSteps
  <2>4. s + r * x \in Nat
    OBVIOUS
  <2> QED
    BY <1>1, <2>2, <2>3, <2>4
<1>3. StaysIn(Nat, last, step)
  BY <1>2 DEF StaysIn
<1>4. HasIteration(Nat, last, 0, step)
  BY <1>3, Iterated
<1>5. PICK low \in [0 .. last -> Nat] :
        low[0] = 0 /\ \A i \in 1 .. last : low[i] = step[i][low[i - 1]]
  BY <1>4 DEF HasIteration
<1>6. ASSUME NEW i \in 1 .. last
      PROVE  low[i] = low[i - 1] + (rest[i - 1] % 128) * Power[7 * (i - 1)]
  <2>1. low[i - 1] \in Nat
    BY <1>5
  <2> QED
    BY <1>2, <1>5, <2>1
<1> QED
  BY <1>5, <1>6 DEF AddsUp

LEMMA RestsFit ==
  ASSUME NEW last \in Nat, NEW m \in Nat, NEW rest, Rests(rest, m, last)
  PROVE  \A i \in 0 .. last : rest[i] * Power[7 * i] <= m
<1>1. PICK low : AddsUp(low, rest, last)
  BY BitsBelow DEF Rests
<1>2. ASSUME NEW i \in 0 .. last PROVE rest[i] * Power[7 * i] <= m
  <2>1. low[i] \in Nat
    BY <1>1 DEF AddsUp
  <2>2. PICK v \in Nat : v = rest[i]
    BY DEF Rests
  <2>3. PICK x \in Nat : x = Power[7 * i]
    BY PowerSteps
  <2>4. v * x \in Nat
    OBVIOUS
  <2>5. low[i] + v * x = m
    BY <1>1, <2>2, <2>3, BytesAddUp
  <2> QED
    BY <2>1, <2>2, <2>3, <2>4, <2>5
<1> QED
  BY <1>2

(* A number of d bits leaves less than 64 where 7 bits more than d are gone, *)
(* and leaves 64 only where more than 6 are left.                            *)
LEMMA FitsAtTheEnd ==
  ASSUME NEW i \in Nat, NEW d \in Nat, d <= 7 * i + 6, NEW v \in Nat, NEW m \in Nat,
         v * Power[7 * i] <= m, m < Power[d]
  PROVE  v < 64
<1>1. PICK x \in Nat \ {0} : x = Power[7 * i]
  BY PowerSteps
<1>2. Power[d] <= 64 * x
  <2>1. 7 * i + 6 \in Nat
    OBVIOUS
  <2> QED
    BY <1>1, <2>1, PowersGrow, SevenShifts
<1>3. PICK y \in Nat : y = Power[d]
  BY PowerSteps
<1>4. v * x < 64 * x
  BY <1>1, <1>2, <1>3
<1> QED
  BY <1>4

LEMMA MoreToCome ==
  ASSUME NEW i \in Nat, NEW d \in Nat, NEW v \in Nat, v >= 64, NEW m \in Nat,
         v * Power[7 * i] <= m, m < Power[d]
  PROVE  7 * i + 6 < d
<1>1. PICK x \in Nat \ {0} : x = Power[7 * i]
  BY PowerSteps
<1>2. SUFFICES ASSUME d <= 7 * i + 6 PROVE FALSE
  OBVIOUS
<1>3. v < 64
  BY <1>2, FitsAtTheEnd
<1> QED
  BY <1>3

(* What the bytes of a number are, whatever type they were written from.     *)
IsCode(v, rest, last, code) ==
  /\ Rests(rest, Folded(v), last)
  /\ \A i \in 0 .. last - 1 : rest[i] >= 64
  /\ rest[last] < 64
  /\ code = CodeOf(v, rest, last)

Encoded(v, code) == \E last \in Nat : \E rest : IsCode(v, rest, last, code)

LEMMA EncodeInt ==
  ASSUME NEW T \in Types, NEW v \in Int, InRange(T, v)
  PROVE  Encoded(v, encode_int(T, v))
<1>1. PICK rest : /\ Rests(rest, Folded(v), max_bytes(T))
                  /\ encode_int(T, v) = CodeOf(v, rest, Min(TurnsEnd(T, rest)))
  BY EncodedBySteps DEF HowEncoded
<1>2. PICK m \in Nat : m = Folded(v) /\ m < Power[T.digits]
  BY InRangeFolds
<1>3. PICK L \in Nat \ {0} : L = max_bytes(T)
  BY Turns
<1>4. PICK E : E = TurnsEnd(T, rest)
  OBVIOUS
<1>5. \A i \in 0 .. L : rest[i] \in Nat /\ (i \in E <=> rest[i] < 64 \/ i = L)
  <2> SUFFICES ASSUME NEW i \in 0 .. L
               PROVE  rest[i] \in Nat /\ (i \in E <=> rest[i] < 64 \/ i = L)
    OBVIOUS
  <2>1. PICK r \in Nat : r = rest[i]
    BY <1>1, <1>3 DEF Rests
  <2>2. r \div 64 = 0 <=> r < 64
    OBVIOUS
  <2> QED
    BY <1>3, <1>4, <2>1, <2>2 DEF TurnsEnd, FitsLastByte
<1>6. L - 1 \in E
  <2>1. PICK i \in 0 .. L : i = L - 1
    OBVIOUS
  <2>2. PICK r \in Nat : r = rest[i]
    BY <1>5
  <2>3. r * Power[7 * i] <= m
    BY <1>1, <1>2, <1>3, <2>2, RestsFit
  <2>4. PICK d \in Nat : d = T.digits /\ d <= 7 * i + 6
    BY <1>3, <2>1, Turns
  <2>5. m < Power[d]
    BY <1>2, <2>4
  <2>6. i \in Nat
    OBVIOUS
  <2>7. r < 64
    BY <2>3, <2>4, <2>5, <2>6, FitsAtTheEnd
  <2> QED
    BY <1>5, <2>1, <2>2, <2>7
<1>7. E \subseteq 0 .. L
  BY <1>3, <1>4 DEF TurnsEnd
<1>8. PICK last \in E : last = Min(E) /\ \A i \in E : last <= i
  <2>1. E \subseteq Nat /\ E # {}
    BY <1>6, <1>7
  <2> QED
    BY <2>1, Smallest
<1>9. last \in Nat /\ last <= L - 1
  BY <1>6, <1>7, <1>8
<1>10. PICK left : left = [i \in 0 .. last |-> rest[i]]
  OBVIOUS
<1>11. \A i \in 0 .. last : i \in 0 .. L /\ left[i] = rest[i]
  BY <1>9, <1>10
<1>12. Rests(left, Folded(v), last)
  <2>1. left \in [0 .. last -> Nat]
    BY <1>5, <1>10, <1>11
  <2>2. ASSUME NEW i \in 1 .. last PROVE left[i] = left[i - 1] \div 128
    <3>1. i \in 1 .. L /\ i \in 0 .. last /\ i - 1 \in 0 .. last
      BY <1>9
    <3> QED
      BY <1>1, <1>3, <1>11, <3>1 DEF Rests
  <2>3. left[0] = Folded(v)
    BY <1>1, <1>9, <1>11 DEF Rests
  <2> QED
    BY <2>1, <2>2, <2>3 DEF Rests
<1>13. ASSUME NEW i \in 0 .. last - 1 PROVE left[i] >= 64
  <2>1. i \in 0 .. last /\ i \in 0 .. L /\ i < last
    BY <1>9
  <2>2. i \notin E
    BY <1>8, <1>9, <2>1
  <2> QED
    BY <1>5, <1>11, <2>1, <2>2
<1>14. left[last] < 64
  BY <1>5, <1>8, <1>9, <1>11
<1>15. CodeOf(v, rest, last) = CodeOf(v, left, last)
  <2>1. \A i \in 1 .. last + 1 : i <= last => rest[i - 1] = left[i - 1]
    BY <1>9, <1>11
  <2>2. rest[last] = left[last]
    BY <1>9, <1>11
  <2> QED
    BY <2>1, <2>2 DEF CodeOf
<1>16. IsCode(v, left, last, encode_int(T, v))
  BY <1>1, <1>4, <1>8, <1>12, <1>13, <1>14, <1>15 DEF IsCode
<1> QED
  BY <1>9, <1>16 DEF Encoded

LEMMA CodeShape ==
  ASSUME NEW v \in Int, NEW last \in Nat, NEW rest, NEW code, IsCode(v, rest, last, code)
  PROVE  /\ code \in Seq(Nat) /\ Len(code) = last + 1
         /\ \A i \in 0 .. last - 1 : code[i + 1] = 128 + (rest[i] % 128) /\ code[i + 1] >= 128
         /\ code[last + 1] = IF v < 0 THEN 64 + rest[last] ELSE rest[last]
         /\ rest[last] \in 0 .. 63
<1>1. \A i \in 0 .. last : rest[i] \in Nat
  BY DEF IsCode, Rests
<1>2. rest[last] \in 0 .. 63
  BY <1>1 DEF IsCode
<1>3. ASSUME NEW i \in 0 .. last - 1
      PROVE  code[i + 1] = 128 + (rest[i] % 128) /\ code[i + 1] >= 128
  <2>1. i + 1 \in 1 .. last + 1 /\ i + 1 <= last /\ (i + 1) - 1 = i /\ i \in 0 .. last
    OBVIOUS
  <2>2. code[i + 1] = 128 + (rest[i] % 128)
    BY <2>1 DEF IsCode, CodeOf
  <2>3. rest[i] % 128 \in 0 .. 127
    BY <1>1, <2>1
  <2> QED
    BY <2>2, <2>3
<1>4. code[last + 1] = IF v < 0 THEN 64 + rest[last] ELSE rest[last]
  BY DEF IsCode, CodeOf
<1>5. code \in [1 .. last + 1 -> Nat]
  <2>1. DOMAIN code = 1 .. last + 1 /\ code = [i \in 1 .. last + 1 |-> code[i]]
    BY DEF IsCode, CodeOf
  <2>2. ASSUME NEW i \in 1 .. last + 1 PROVE code[i] \in Nat
    <3>1. CASE i <= last
      <4>1. PICK k \in 0 .. last - 1 : i = k + 1 /\ k \in 0 .. last
        BY <3>1
      <4>2. rest[k] % 128 \in Nat
        BY <1>1, <4>1
      <4> QED
        BY <1>3, <4>1, <4>2
    <3>2. CASE i = last + 1
      BY <1>2, <1>4, <3>2
    <3> QED
      BY <3>1, <3>2
  <2> QED
    BY <2>1, <2>2
<1>6. code \in Seq(Nat) /\ Len(code) = last + 1
  <2>1. last + 1 \in Nat
    OBVIOUS
  <2> QED
    BY <1>5, <2>1
<1> QED
  BY <1>2, <1>3, <1>4, <1>6

(* The reader: where it ends, and what it has by then.                       *)
Ends(T, s, start) ==
  {i \in 0 .. max_bytes(T) - 1 : start + i <= Len(s) /\ s[start + i] < 128}

Parts(s, start, last) == [i \in 0 .. last |-> s[start + i]]

Finished(T, byte, low, last, after) ==
  LET p == Converted(T, byte % 64)
      value == low + p * Power[7 * last]
  IN IF ShiftOverflows(T, p, 7 * last) THEN Bad
     ELSE IF byte < 64 THEN Read(value, after)
     ELSE IF SubtractOverflows(T, Negated(T, value)) THEN Bad
     ELSE Read(Converted(T, Negated(T, value) - 1), after)

HowRead(T, s, start, last) ==
  \E low : /\ AddsUp(low, Parts(s, start, last), last)
           /\ read_int(T, s, start)
                = Finished(T, s[start + last], low[last], last, start + last + 1)

LEMMA ReadBySteps ==
  ASSUME NEW T \in Types, NEW s \in Seq(Nat), NEW start \in Nat \ {0}, NEW last \in Nat,
         Ends(T, s, start) # {}, last = Min(Ends(T, s, start)), start + last <= Len(s)
  PROVE  HowRead(T, s, start, last)
<1>1. PICK parts : parts = Parts(s, start, last)
  OBVIOUS
<1>2. ASSUME NEW i \in 0 .. last PROVE parts[i] = s[start + i] /\ parts[i] \in Nat
  <2>1. start + i \in 1 .. Len(s)
    OBVIOUS
  <2> QED
    BY <1>1, <2>1 DEF Parts
<1>3. parts \in [0 .. last -> Nat]
  BY <1>1, <1>2 DEF Parts
<1>4. PICK f : AddsUp(f, parts, last)
  BY <1>3, BitsBelow
<1>5. f = [i \in 0 .. last |->
            IF i = 0 THEN 0
            ELSE f[i - 1] + (s[start + (i - 1)] % 128) * Power[7 * (i - 1)]]
  <2>1. ASSUME NEW i \in 0 .. last
        PROVE  f[i] = IF i = 0 THEN 0
                      ELSE f[i - 1] + (s[start + (i - 1)] % 128) * Power[7 * (i - 1)]
    <3>1. CASE i = 0
      BY <1>4, <3>1 DEF AddsUp
    <3>2. CASE i # 0
      <4>1. i \in 1 .. last /\ i - 1 \in 0 .. last
        BY <3>2
      <4> QED
        BY <1>2, <1>4, <3>2, <4>1 DEF AddsUp
    <3> QED
      BY <3>1, <3>2
  <2>2. f = [i \in 0 .. last |-> f[i]]
    BY <1>4 DEF AddsUp
  <2> QED
    BY <2>1, <2>2, ZenonT(40)
<1> DEFINE low == CHOOSE g : g = [i \in 0 .. last |->
                    IF i = 0 THEN 0
                    ELSE g[i - 1] + (s[start + (i - 1)] % 128) * Power[7 * (i - 1)]]
<1>6. low = [i \in 0 .. last |->
              IF i = 0 THEN 0
              ELSE low[i - 1] + (s[start + (i - 1)] % 128) * Power[7 * (i - 1)]]
  BY <1>5, ZenonT(40)
<1>7. read_int(T, s, start) = Finished(T, s[start + last], low[last], last, start + last + 1)
  BY SMTT(40) DEF read_int, Finished, Ends
<1> HIDE DEF low
<1>8. low[0] = 0
  BY <1>6
<1>9. ASSUME NEW i \in 1 .. last
      PROVE  low[i] = low[i - 1] + (parts[i - 1] % 128) * Power[7 * (i - 1)]
  <2>1. i \in 0 .. last /\ i # 0 /\ i - 1 \in 0 .. last
    OBVIOUS
  <2>2. low[i] = low[i - 1] + (s[start + (i - 1)] % 128) * Power[7 * (i - 1)]
    BY <1>6, <2>1, ZenonT(40)
  <2>3. parts[i - 1] = s[start + (i - 1)]
    BY <1>2, <2>1
  <2> QED
    BY <2>2, <2>3, Zenon
<1>10. \A i \in 0 .. last : low[i] \in Nat
  <2>1. PICK K : K = {i \in Nat : i <= last => low[i] \in Nat}
    OBVIOUS
  <2>2. 0 \in K
    BY <1>8, <2>1
  <2>3. ASSUME NEW i \in Nat, i \in K PROVE i + 1 \in K
    <3>1. SUFFICES ASSUME i + 1 <= last PROVE low[i + 1] \in Nat
      BY <2>1
    <3>2. i + 1 \in 1 .. last /\ (i + 1) - 1 = i /\ i \in 0 .. last
      BY <3>1
    <3>3. PICK a \in Nat : a = low[i]
      BY <2>1, <2>3, <3>1
    <3>4. PICK q \in Nat : q = parts[i]
      BY <1>2, <3>2
    <3>5. PICK r \in Nat : r = q % 128
      OBVIOUS
    <3>6. PICK n \in Nat : n = 7 * i
      OBVIOUS
    <3>7. PICK x \in Nat : x = Power[n]
      BY PowerSteps
    <3>8. low[i + 1] = a + r * x
      BY <1>9, <3>2, <3>3, <3>4, <3>5, <3>6, <3>7
    <3> QED
      BY <3>8
  <2>4. \A i \in Nat : i \in K
    BY <2>2, <2>3, SetInduction
  <2> QED
    BY <2>1, <2>4
<1>11. low \in [0 .. last -> Nat]
  BY <1>6, <1>10
<1>12. AddsUp(low, parts, last)
  BY <1>8, <1>9, <1>11 DEF AddsUp
<1> QED
  BY <1>1, <1>7, <1>12 DEF HowRead

LEMMA ConvertedInRange ==
  ASSUME NEW T \in Types, NEW m \in Nat, m < Power[T.digits]
  PROVE  Converted(T, m) = m
<1>1. PICK d \in Nat : d = T.digits
  BY TransactLogIntsAssumption
<1>2. PICK p \in Nat \ {0} : p = Power[d]
  BY PowerSteps
<1>3. m % p = m
  BY <1>1, <1>2
<1>4. d = 1 => m = 0 \/ m = 1
  <2>1. Power[0 + 1] = 2 * Power[0] /\ Power[0] = 1
    BY PowerSteps
  <2> QED
    BY <1>1, <2>1
<1> QED
  BY <1>1, <1>2, <1>3, <1>4 DEF Converted

(* A type that holds a number reads it back, and ends where it ends.         *)
LEMMA ReadInt ==
  ASSUME NEW T \in Types, NEW v \in Int, InRange(T, v),
         NEW s \in Seq(Nat), NEW start \in Nat \ {0},
         NEW code, Encoded(v, code), start + Len(code) <= Len(s) + 1,
         \A j \in 1 .. Len(code) : s[start + (j - 1)] = code[j]
  PROVE  read_int(T, s, start) = Read(v, start + Len(code))
<1>0. PICK last \in Nat : \E r : IsCode(v, r, last, code)
  BY DEF Encoded
<1>1. PICK rest : IsCode(v, rest, last, code)
  BY <1>0
<1>2. PICK m \in Nat : m = Folded(v) /\ m < Power[T.digits]
  BY InRangeFolds
<1>3. PICK d \in Nat : d = T.digits /\ m < Power[d]
  BY <1>2, Turns
<1>4. Rests(rest, m, last)
  BY <1>1, <1>2 DEF IsCode
<1>5. PICK u \in 0 .. 63 : u = rest[last]
  BY <1>1, CodeShape
<1>6. /\ Len(code) = last + 1
      /\ \A i \in 0 .. last - 1 : code[i + 1] = 128 + (rest[i] % 128) /\ code[i + 1] >= 128
      /\ code[last + 1] = IF v < 0 THEN 64 + u ELSE u
  <2>1. Len(code) = last + 1
    BY <1>1, CodeShape
  <2>2. code[last + 1] = IF v < 0 THEN 64 + rest[last] ELSE rest[last]
    BY <1>1, CodeShape
  <2>3. ASSUME NEW i \in 0 .. last - 1
        PROVE  code[i + 1] = 128 + (rest[i] % 128) /\ code[i + 1] >= 128
    BY <1>1, CodeShape, ZenonT(40)
  <2> QED
    BY <1>5, <2>1, <2>2, <2>3
<1>7. ASSUME NEW i \in 0 .. last PROVE s[start + i] = code[i + 1] /\ start + i <= Len(s)
  <2>1. i + 1 \in 1 .. Len(code) /\ (i + 1) - 1 = i
    BY <1>6
  <2> QED
    BY <1>6, <2>1
<1>8. PICK L \in Nat \ {0} : /\ L = max_bytes(T) /\ d <= 7 * (L - 1) + 6
  BY <1>3, Turns
<1>9. last <= L - 1
  <2>1. CASE last = 0
    BY <1>8, <2>1
  <2>2. CASE last # 0
    <3>1. PICK i \in 0 .. last - 1 : i = last - 1
      BY <2>2
    <3>2. PICK r \in Nat : r = rest[i]
      BY <1>4, <3>1 DEF Rests
    <3>3. r >= 64
      BY <1>1, <3>1, <3>2 DEF IsCode
    <3>4. i \in 0 .. last /\ i \in Nat
      OBVIOUS
    <3>5. r * Power[7 * i] <= m
      BY <1>4, <3>2, <3>4, RestsFit
    <3>6. 7 * i + 6 < d
      BY <1>3, <3>3, <3>4, <3>5, MoreToCome
    <3> QED
      BY <1>8, <3>1, <3>6
  <2> QED
    BY <2>1, <2>2
<1>10. PICK E : E = Ends(T, s, start)
  OBVIOUS
<1>11. last \in E
  <2>1. last \in 0 .. last
    OBVIOUS
  <2>2. s[start + last] = code[last + 1] /\ start + last <= Len(s)
    BY <1>7, <2>1
  <2>3. code[last + 1] < 128
    BY <1>6
  <2>4. last \in 0 .. L - 1
    BY <1>9
  <2> QED
    BY <1>8, <1>10, <2>2, <2>3, <2>4 DEF Ends
<1>12. E \subseteq Nat
  BY <1>8, <1>10 DEF Ends
<1>13. \A i \in E : last <= i
  <2>1. SUFFICES ASSUME NEW i \in E, i < last PROVE FALSE
    BY <1>12
  <2>2. i \in 0 .. L - 1 /\ s[start + i] < 128
    BY <1>8, <1>10 DEF Ends
  <2>3. i \in 0 .. last - 1 /\ i \in 0 .. last
    BY <2>1, <2>2
  <2>4. s[start + i] = code[i + 1]
    BY <1>7, <2>3
  <2>5. code[i + 1] >= 128 /\ code[i + 1] \in Int
    <3>1. rest[i] \in Nat
      BY <1>4, <2>3 DEF Rests
    <3>2. PICK q \in 0 .. 127 : q = rest[i] % 128
      <4>1. PICK n \in Nat : n = rest[i]
        BY <3>1
      <4>2. n % 128 \in 0 .. 127
        OBVIOUS
      <4> QED
        BY <4>1, <4>2
    <3> QED
      BY <1>6, <2>3, <3>2
  <2> QED
    BY <2>2, <2>4, <2>5
<1>14. last = Min(E)
  <2>1. PICK k \in E : k = Min(E) /\ \A i \in E : k <= i
    BY <1>11, <1>12, Smallest
  <2>2. k \in Nat /\ k <= last /\ last <= k
    BY <1>11, <1>12, <1>13, <2>1
  <2> QED
    BY <2>1, <2>2
<1>15. last \in 0 .. last /\ start + last <= Len(s)
  BY <1>7
<1>16. HowRead(T, s, start, last)
  BY <1>10, <1>11, <1>14, <1>15, ReadBySteps
<1>17. PICK low : /\ AddsUp(low, Parts(s, start, last), last)
                  /\ read_int(T, s, start)
                       = Finished(T, s[start + last], low[last], last, start + last + 1)
  BY <1>16 DEF HowRead
<1>18. AddsUp(low, rest, last)
  <2>1. ASSUME NEW i \in 1 .. last
        PROVE  low[i] = low[i - 1] + (rest[i - 1] % 128) * Power[7 * (i - 1)]
    <3>1. PICK k \in 0 .. last - 1 : k = i - 1 /\ k \in 0 .. last
      OBVIOUS
    <3>2. PICK r \in Nat : r = rest[k]
      BY <1>4, <3>1 DEF Rests
    <3>3. (128 + (r % 128)) % 128 = r % 128
      OBVIOUS
    <3>4. Parts(s, start, last)[k] = 128 + (r % 128)
      <4>1. s[start + k] = code[k + 1]
        BY <1>7, <3>1
      <4>2. code[k + 1] = 128 + (r % 128)
        BY <1>6, <3>2
      <4> QED
        BY <3>1, <4>1, <4>2 DEF Parts
    <3> QED
      BY <1>17, <3>1, <3>2, <3>3, <3>4 DEF AddsUp
  <2> QED
    BY <1>17, <2>1 DEF AddsUp
<1>19. PICK a \in Nat : a = low[last]
  BY <1>18 DEF AddsUp
<1>20. PICK n \in Nat : n = 7 * last
  OBVIOUS
<1>21. PICK x \in Nat \ {0} : x = Power[n]
  BY PowerSteps
<1>22. a + u * x = m
  <2>1. low[last] + rest[last] * Power[7 * last] = m
    BY <1>4, <1>15, <1>18, BytesAddUp
  <2> QED
    BY <1>5, <1>19, <1>20, <1>21, <2>1
<1>23. u \in Nat /\ u * x \in Nat /\ u <= u * x /\ u * x <= m
  BY <1>22
<1>24. PICK h \in Nat : h = Highest(T) /\ m <= h
  <2>1. PICK p \in Nat \ {0} : p = Power[d]
    BY PowerSteps
  <2> QED
    BY <1>3, <2>1 DEF Highest
<1>25. Converted(T, u) = u
  <2>1. u \in Nat /\ u < Power[T.digits]
    <3>1. PICK p \in Nat : p = Power[d]
      BY PowerSteps
    <3> QED
      <4>1. u <= m
        <5>1. PICK w \in Nat : w = u * x
          BY <1>23
        <5> QED
          BY <1>23, <5>1
      <4>2. m < p
        BY <1>3, <3>1
      <4>3. u < p
        BY <1>23, <4>1, <4>2
      <4> QED
        BY <1>3, <1>23, <3>1, <4>3
  <2> QED
    BY <2>1, ConvertedInRange
<1>26. ~ShiftOverflows(T, u, n)
  <2>1. u <= h \div x
    <3>1. u * x <= h
      BY <1>23, <1>24
    <3> QED
      BY <1>23, <3>1
  <2>2. h \div x \in Nat
    OBVIOUS
  <2> QED
    BY <1>21, <1>24, <2>1, <2>2 DEF ShiftOverflows
<1>27. PICK byte \in Nat : byte = s[start + last]
  BY <1>6, <1>7
<1>28. byte % 64 = u /\ (byte < 64 <=> v >= 0)
  <2>1. byte = IF v < 0 THEN 64 + u ELSE u
    BY <1>6, <1>7, <1>27
  <2>2. u % 64 = u /\ (64 + u) % 64 = u
    OBVIOUS
  <2> QED
    BY <2>1, <2>2
<1>29. PICK after : after = start + Len(code) /\ after = start + last + 1
  BY <1>6
<1>30. read_int(T, s, start) = Finished(T, byte, a, last, after)
  BY <1>17, <1>19, <1>27, <1>29
<1>31. Finished(T, byte, a, last, after) =
         IF byte < 64 THEN Read(m, after)
         ELSE IF SubtractOverflows(T, Negated(T, m)) THEN Bad
         ELSE Read(Converted(T, Negated(T, m) - 1), after)
  BY <1>20, <1>21, <1>22, <1>25, <1>26, <1>28 DEF Finished
<1>32. CASE v >= 0
  <2>1. m = v
    BY <1>2, <1>32 DEF Folded
  <2>2. byte < 64
    BY <1>28, <1>32
  <2>3. Finished(T, byte, a, last, after) = Read(v, after)
    BY <1>31, <2>1, <2>2, Zenon
  <2> QED
    BY <1>29, <1>30, <2>3
<1>33. CASE v < 0
  <2>1. m = -(v + 1)
    BY <1>2, <1>33 DEF Folded
  <2>2. T.signed
    BY <1>33, TransactLogIntsAssumption DEF InRange, Lowest
  <2>3. ~SubtractOverflows(T, Negated(T, m))
    BY <2>2 DEF SubtractOverflows
  <2>4. Converted(T, Negated(T, m) - 1) = -m - 1
    BY <2>2 DEF Converted, Negated
  <2>5. -m - 1 = v
    BY <2>1
  <2>6. ~(byte < 64)
    BY <1>28, <1>33
  <2>7. Finished(T, byte, a, last, after) = Read(v, after)
    BY <1>31, <2>3, <2>4, <2>5, <2>6, Zenon
  <2> QED
    BY <1>29, <1>30, <2>7
<1> QED
  BY <1>32, <1>33

(* A log of several numbers: where each of them starts, with what bytes, and  *)
(* that the reader, as long as its types hold the numbers, is at a start.     *)
LEMMA CodeIsSeq ==
  ASSUME NEW v \in Int, NEW code, Encoded(v, code)
  PROVE  code \in Seq(Nat) /\ Len(code) \in Nat
<1>0. PICK last \in Nat : \E r : IsCode(v, r, last, code)
  BY DEF Encoded
<1>1. PICK rest : IsCode(v, rest, last, code)
  BY <1>0
<1>2. code \in Seq(Nat) /\ Len(code) = last + 1
  BY <1>1, CodeShape
<1> QED
  BY <1>2

WrittenSet == [type : Types, value : Int]

CodeAt(start, after, v) ==
  \E code : /\ Encoded(v, code) /\ after = start + Len(code) /\ after <= Len(stream) + 1
            /\ \A j \in 1 .. Len(code) : stream[start + (j - 1)] = code[j]

LaidOut(starts) ==
  /\ starts \in [1 .. Len(written) + 1 -> Nat \ {0}]
  /\ starts[1] = 1 /\ starts[Len(written) + 1] = Len(stream) + 1
  /\ \A k \in 1 .. Len(written) : CodeAt(starts[k], starts[k + 1], written[k].value)

AllHeld == \A k \in 1 .. Len(taken) : Holds(k)

IntsInd ==
  /\ written \in Seq(WrittenSet) /\ stream \in Seq(Nat)
  /\ \E V : taken \in Seq(V)
  /\ Len(taken) <= Len(written)
  /\ \E starts : LaidOut(starts) /\ (AllHeld => inputBegin = starts[Len(taken) + 1])
  /\ ReadsBack

LEMMA IntsInitInd == IntsInit => IntsInd
<1> SUFFICES ASSUME IntsInit PROVE IntsInd
  OBVIOUS
<1>1. written = <<>> /\ stream = <<>> /\ inputBegin = 1 /\ taken = <<>>
  BY DEF IntsInit
<1>2. Len(written) = 0 /\ Len(stream) = 0 /\ Len(taken) = 0 /\ taken \in Seq({})
  BY <1>1
<1>3. written \in Seq(WrittenSet) /\ stream \in Seq(Nat)
  BY <1>1
<1>4. PICK starts : starts = [k \in 1 .. 1 |-> 1]
  OBVIOUS
<1>5. LaidOut(starts)
  BY <1>2, <1>4 DEF LaidOut
<1>6. inputBegin = starts[Len(taken) + 1]
  BY <1>1, <1>2, <1>4
<1>7. ReadsBack
  BY <1>1 DEF ReadsBack
<1> QED
  BY <1>2, <1>3, <1>5, <1>6, <1>7 DEF IntsInd

LEMMA WriteInd ==
  ASSUME IntsInd, NEW T \in Types, NEW v \in Values, Write(T, v)
  PROVE  IntsInd'
<1>1. v \in Int /\ InRange(T, v)
  BY TransactLogIntsAssumption DEF Write
<1>2. PICK code : code = encode_int(T, v) /\ Encoded(v, code)
  BY <1>1, EncodeInt
<1>3. code \in Seq(Nat) /\ Len(code) \in Nat
  BY <1>1, <1>2, CodeIsSeq
<1>4. PICK n \in Nat : n = Len(written)
  BY DEF IntsInd
<1>5. PICK one \in WrittenSet : one = [type |-> T, value |-> v]
  BY <1>1 DEF WrittenSet
<1>6. written' = Append(written, one) /\ stream' = stream \o code
  BY <1>2, <1>5 DEF Write
<1>7. taken = <<>> /\ taken' = <<>> /\ inputBegin' = inputBegin
  BY DEF Write
<1>8. /\ written' \in Seq(WrittenSet) /\ Len(written') = n + 1
      /\ written'[n + 1] = one /\ \A k \in 1 .. n : written'[k] = written[k]
  BY <1>4, <1>5, <1>6, AppendProperties DEF IntsInd
<1>9. PICK l \in Nat : l = Len(stream)
  BY DEF IntsInd
<1>10. /\ stream' \in Seq(Nat) /\ Len(stream') = l + Len(code)
       /\ \A k \in 1 .. l : stream'[k] = stream[k]
       /\ \A j \in 1 .. Len(code) : stream'[(l + 1) + (j - 1)] = code[j]
  <2>1. stream \in Seq(Nat)
    BY DEF IntsInd
  <2>2. /\ stream' \in Seq(Nat) /\ Len(stream') = l + Len(code)
        /\ \A k \in 1 .. l + Len(code) :
             stream'[k] = IF k <= l THEN stream[k] ELSE code[k - l]
    BY <1>3, <1>6, <1>9, <2>1, ConcatProperties
  <2>3. ASSUME NEW j \in 1 .. Len(code) PROVE stream'[(l + 1) + (j - 1)] = code[j]
    <3>1. (l + 1) + (j - 1) = l + j /\ l + j \in 1 .. l + Len(code)
          /\ ~(l + j <= l) /\ (l + j) - l = j
      BY <1>3
    <3> QED
      BY <2>2, <3>1
  <2>4. ASSUME NEW k \in 1 .. l PROVE stream'[k] = stream[k]
    <3>1. k \in 1 .. l + Len(code) /\ k <= l
      BY <1>3
    <3> QED
      BY <2>2, <3>1
  <2> QED
    BY <2>2, <2>3, <2>4
<1>11. PICK starts : LaidOut(starts) /\ (AllHeld => inputBegin = starts[Len(taken) + 1])
  BY DEF IntsInd
<1>12. PICK more : more = [k \in 1 .. n + 2 |-> IF k = n + 2 THEN l + Len(code) + 1 ELSE starts[k]]
  OBVIOUS
<1>13. /\ more \in [1 .. n + 2 -> Nat \ {0}] /\ more[n + 2] = l + Len(code) + 1
       /\ \A k \in 1 .. n + 1 : more[k] = starts[k]
  <2>1. starts \in [1 .. n + 1 -> Nat \ {0}]
    BY <1>4, <1>11 DEF LaidOut
  <2>2. PICK e \in Nat \ {0} : e = l + Len(code) + 1
    BY <1>3
  <2>3. ASSUME NEW k \in 1 .. n + 1 PROVE k \in 1 .. n + 2 /\ k # n + 2
    OBVIOUS
  <2>4. \A k \in 1 .. n + 2 : k = n + 2 \/ k \in 1 .. n + 1
    OBVIOUS
  <2>5. n + 2 \in 1 .. n + 2
    OBVIOUS
  <2> QED
    BY <1>12, <2>1, <2>2, <2>3, <2>4, <2>5
<1>14. more[1] = 1 /\ more[n + 1] = l + 1
  BY <1>4, <1>9, <1>11, <1>13 DEF LaidOut
<1>15. ASSUME NEW k \in 1 .. n PROVE CodeAt(more[k], more[k + 1], written[k].value)'
  <2>1. CodeAt(starts[k], starts[k + 1], written[k].value)
    BY <1>4, <1>11 DEF LaidOut
  <2>2. PICK c : /\ Encoded(written[k].value, c) /\ starts[k + 1] = starts[k] + Len(c)
                 /\ starts[k + 1] <= l + 1
                 /\ \A j \in 1 .. Len(c) : stream[starts[k] + (j - 1)] = c[j]
    BY <1>9, <2>1 DEF CodeAt
  <2>3. PICK a \in Nat \ {0} : a = starts[k]
    BY <1>4, <1>11 DEF LaidOut
  <2>4. Len(c) \in Nat
    <3>1. written \in Seq(WrittenSet)
      BY DEF IntsInd
    <3>2. written[k] \in WrittenSet
      BY <1>4, <3>1
    <3>3. written[k].value \in Int
      BY <3>2 DEF WrittenSet
    <3> QED
      BY <2>2, <3>3, CodeIsSeq
  <2>5. ASSUME NEW j \in 1 .. Len(c) PROVE stream'[a + (j - 1)] = c[j]
    <3>1. a + (j - 1) \in 1 .. l
      BY <2>2, <2>3, <2>4
    <3> QED
      BY <1>10, <2>2, <2>3, <3>1
  <2>6. more[k] = a /\ more[k + 1] = a + Len(c) /\ more[k + 1] <= Len(stream') + 1
    BY <1>3, <1>10, <1>13, <2>2, <2>3, <2>4
  <2>7. written'[k].value = written[k].value
    BY <1>8
  <2> QED
    BY <2>2, <2>5, <2>6, <2>7 DEF CodeAt
<1>16. CodeAt(more[n + 1], more[n + 2], written[n + 1].value)'
  <2>1. written'[n + 1].value = v
    BY <1>5, <1>8
  <2>2. more[n + 2] = more[n + 1] + Len(code) /\ more[n + 2] <= Len(stream') + 1
    BY <1>3, <1>10, <1>13, <1>14
  <2>3. more[n + 1] = l + 1
    BY <1>14
  <2>4. \A j \in 1 .. Len(code) : stream'[more[n + 1] + (j - 1)] = code[j]
    BY <1>10, <2>3
  <2> QED
    BY <1>2, <2>1, <2>2, <2>4, Zenon DEF CodeAt
<1>17. LaidOut(more)'
  <2>1. ASSUME NEW k \in 1 .. n + 1 PROVE CodeAt(more[k], more[k + 1], written[k].value)'
    <3>1. CASE k = n + 1
      <4>1. k + 1 = n + 2
        BY <3>1
      <4> QED
        BY <1>16, <3>1, <4>1
    <3>2. CASE k # n + 1
      <4>1. k \in 1 .. n
        BY <3>2
      <4> QED
        BY <1>15, <4>1
    <3> QED
      BY <3>1, <3>2
  <2>2. Len(written') + 1 = n + 2 /\ more[n + 2] = Len(stream') + 1
    BY <1>3, <1>8, <1>10, <1>13
  <2> QED
    BY <1>8, <1>13, <1>14, <2>1, <2>2 DEF LaidOut
<1>18. inputBegin' = more[Len(taken') + 1]
  <2>1. AllHeld /\ Len(taken) = 0
    BY <1>7 DEF AllHeld
  <2>2. inputBegin = starts[1]
    BY <1>11, <2>1
  <2> QED
    BY <1>7, <1>11, <1>14, <2>2 DEF LaidOut
<1>19. ReadsBack' /\ Len(taken') <= Len(written')
  BY <1>7, <1>8 DEF ReadsBack
<1>20. \E V : taken' \in Seq(V)
  BY <1>7
<1> QED
  BY <1>8, <1>10, <1>17, <1>18, <1>19, <1>20 DEF IntsInd

LEMMA ReadInd ==
  ASSUME IntsInd, NEW T \in Types, ReadAs(T)
  PROVE  IntsInd'
<1>1. PICK one : one = read_int(T, stream, inputBegin)
  OBVIOUS
<1>2. PICK got : got = [type |-> T, ok |-> one.ok, value |-> one.value]
  OBVIOUS
<1>3. /\ Len(taken) < Len(written) /\ taken' = Append(taken, got) /\ inputBegin' = one.next
      /\ written' = written /\ stream' = stream
  BY <1>1, <1>2 DEF ReadAs
<1>4. PICK V : taken \in Seq(V)
  BY DEF IntsInd
<1>5. PICK n \in Nat : n = Len(taken)
  BY <1>4
<1>6. PICK W : W = V \union {got}
  OBVIOUS
<1>7. taken \in Seq(W) /\ got \in W
  BY <1>4, <1>6
<1>8. /\ taken' \in Seq(W) /\ Len(taken') = n + 1
      /\ taken'[n + 1] = got /\ \A k \in 1 .. n : taken'[k] = taken[k]
  BY <1>3, <1>5, <1>7, AppendProperties
<1>9. DOMAIN taken' = 1 .. n + 1 /\ DOMAIN taken = 1 .. n
  BY <1>5, <1>7, <1>8
<1>10. PICK starts : LaidOut(starts) /\ (AllHeld => inputBegin = starts[Len(taken) + 1])
  BY DEF IntsInd
<1>11. \A k \in 1 .. n : Holds(k)' <=> Holds(k)
  BY <1>3, <1>8 DEF Holds
<1>12. PICK m \in Nat : m = Len(written) /\ n + 1 \in 1 .. m
  BY <1>3, <1>5 DEF IntsInd
<1>13. ASSUME \A k \in 1 .. n + 1 : Holds(k)'
       PROVE  one = Read(written[n + 1].value, starts[n + 2])
  <2>1. AllHeld
    <3>1. ASSUME NEW k \in 1 .. n PROVE Holds(k)
      <4>1. k \in 1 .. n + 1
        OBVIOUS
      <4> QED
        BY <1>11, <1>13, <4>1
    <3> QED
      BY <1>5, <3>1 DEF AllHeld
  <2>2. PICK start \in Nat \ {0} : start = starts[n + 1]
    <3>1. n + 1 \in 1 .. m + 1
      BY <1>12
    <3> QED
      BY <1>10, <1>12, <3>1 DEF LaidOut
  <2>3. inputBegin = start
    BY <1>5, <1>10, <2>1, <2>2
  <2>4. PICK v \in Int : v = written[n + 1].value
    <3>1. written[n + 1] \in WrittenSet
      BY <1>12 DEF IntsInd
    <3> QED
      BY <3>1 DEF WrittenSet
  <2>5. InRange(T, v)
    <3>1. n + 1 \in 1 .. n + 1
      OBVIOUS
    <3>2. Holds(n + 1)'
      BY <1>13, <3>1
    <3>3. taken'[n + 1].type = T
      BY <1>2, <1>8
    <3> QED
      BY <1>3, <2>4, <3>2, <3>3 DEF Holds
  <2>6. (n + 1) + 1 = n + 2
    OBVIOUS
  <2>7. CodeAt(start, starts[n + 2], v)
    BY <1>10, <1>12, <2>2, <2>4, <2>6 DEF LaidOut
  <2>8. PICK code : /\ Encoded(v, code) /\ starts[n + 2] = start + Len(code)
                    /\ starts[n + 2] <= Len(stream) + 1
                    /\ \A j \in 1 .. Len(code) : stream[start + (j - 1)] = code[j]
    BY <2>7 DEF CodeAt
  <2>9. stream \in Seq(Nat)
    BY DEF IntsInd
  <2>10. start + Len(code) <= Len(stream) + 1
    BY <2>8
  <2>11. read_int(T, stream, start) = Read(v, start + Len(code))
    BY <2>5, <2>8, <2>9, <2>10, ReadInt
  <2> QED
    BY <1>1, <2>3, <2>4, <2>8, <2>11
<1>14. AllHeld' => inputBegin' = starts[Len(taken') + 1]
  <2>1. SUFFICES ASSUME AllHeld' PROVE inputBegin' = starts[Len(taken') + 1]
    OBVIOUS
  <2>2. \A k \in 1 .. n + 1 : Holds(k)'
    BY <1>8, <2>1 DEF AllHeld
  <2>3. one.next = starts[n + 2]
    BY <1>13, <2>2 DEF Read
  <2>4. Len(taken') + 1 = n + 2
    BY <1>8
  <2> QED
    BY <1>3, <2>3, <2>4
<1>15. ReadsBack'
  <2>1. SUFFICES ASSUME NEW i \in 1 .. n + 1, \A k \in 1 .. i : Holds(k)'
                 PROVE  taken'[i].ok /\ taken'[i].value = written'[i].value
    BY <1>9 DEF ReadsBack
  <2>2. CASE i = n + 1
    <3>1. one = Read(written[n + 1].value, starts[n + 2])
      BY <1>13, <2>1, <2>2
    <3>2. got.ok /\ got.value = written[n + 1].value
      BY <1>2, <3>1 DEF Read
    <3> QED
      BY <1>3, <1>8, <2>2, <3>2
  <2>3. CASE i # n + 1
    <3>1. i \in 1 .. n
      BY <2>3
    <3>2. ASSUME NEW k \in 1 .. i PROVE Holds(k)
      <4>1. k \in 1 .. n
        BY <3>1
      <4> QED
        BY <1>11, <2>1, <4>1
    <3>3. taken[i].ok /\ taken[i].value = written[i].value
      BY <1>9, <3>1, <3>2 DEF IntsInd, ReadsBack
    <3> QED
      BY <1>3, <1>8, <3>1, <3>3
  <2> QED
    BY <2>2, <2>3
<1>16. LaidOut(starts)'
  BY <1>3, <1>10 DEF LaidOut, CodeAt
<1>17. Len(taken') <= Len(written')
  BY <1>3, <1>5, <1>8, <1>12
<1>18. \E U : taken' \in Seq(U)
  BY <1>8
<1> QED
  BY <1>3, <1>14, <1>15, <1>16, <1>17, <1>18 DEF IntsInd

LEMMA IntsNextInd == IntsInd /\ [IntsNext]_intVars => IntsInd'
<1> SUFFICES ASSUME IntsInd, [IntsNext]_intVars PROVE IntsInd'
  OBVIOUS
<1>1. CASE UNCHANGED intVars
  <2>1. written' = written /\ stream' = stream /\ inputBegin' = inputBegin /\ taken' = taken
    BY <1>1 DEF intVars
  <2>2. PICK starts : LaidOut(starts) /\ (AllHeld => inputBegin = starts[Len(taken) + 1])
    BY DEF IntsInd
  <2>3. LaidOut(starts)'
    BY <2>1, <2>2 DEF LaidOut, CodeAt
  <2>4. (AllHeld' <=> AllHeld) /\ (ReadsBack' <=> ReadsBack)
    BY <2>1 DEF AllHeld, ReadsBack, Holds
  <2> QED
    BY <2>1, <2>2, <2>3, <2>4 DEF IntsInd
<1>2. CASE IntsNext
  <2>1. PICK T \in Types : (\E v \in Values : Write(T, v)) \/ ReadAs(T)
    BY <1>2 DEF IntsNext
  <2> QED
    BY <2>1, WriteInd, ReadInd
<1> QED
  BY <1>1, <1>2

(* The numbers of a log: whoever reads them with types that hold them takes   *)
(* what was written, for types of any width, signed or not, and any number   *)
(* of numbers (transact_log.hpp:566-602 against 1680-1715).                  *)
THEOREM NumbersReadBack == IntsSpec => []ReadsBack
<1>1. IntsInit => IntsInd
  BY IntsInitInd
<1>2. IntsInd /\ [IntsNext]_intVars => IntsInd'
  BY IntsNextInd
<1>3. IntsInd => ReadsBack
  BY DEF IntsInd
<1> QED
  BY <1>1, <1>2, <1>3, PTL DEF IntsSpec

=============================================================================
