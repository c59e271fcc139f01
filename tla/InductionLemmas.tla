---------------------------- MODULE InductionLemmas ----------------------------
(***************************************************************************)
(* Induction and recursion over the numbers, for the proofs about the      *)
(* recursive functions of the specifications.  A set of numbers stands for *)
(* the predicate, and a function of steps for the body of the recursion.   *)
(* And what sequences with one element more or less are, place by place.   *)
(***************************************************************************)
EXTENDS Integers, SequencesExt, FiniteSetsExt, FiniteSetTheorems, SequenceTheorems,
        TLAPS

(* Induction over the numbers, for a set in place of a predicate: among the *)
(* intervals 0 .. n with n outside of S none is the smallest.               *)
LEMMA SetInduction ==
  ASSUME NEW S, 0 \in S, \A n \in Nat : n \in S => n + 1 \in S
  PROVE  \A n \in Nat : n \in S
<1> SUFFICES ASSUME NEW k \in Nat, k \notin S PROVE FALSE
  OBVIOUS
<1>1. PICK F : F = {0 .. n : n \in Nat \ S}
  OBVIOUS
<1>2. PICK R : R = StrictSubsetOrdering(Nat)
  OBVIOUS
<1>3. PICK G : G = FiniteSubsetsOf(Nat)
  OBVIOUS
<1>4. IsWellFoundedOn(R, G)
  BY <1>2, <1>3, FS_StrictSubsetOrderingWellFounded
<1>5. F \subseteq G
  <2> SUFFICES ASSUME NEW n \in Nat PROVE 0 .. n \in FiniteSubsetsOf(Nat)
    BY <1>1, <1>3
  <2>1. IsFiniteSet(0 .. n)
    BY FS_Interval
  <2>2. 0 .. n \subseteq Nat
    OBVIOUS
  <2> QED
    BY <2>1, <2>2 DEF FiniteSubsetsOf
<1>6. 0 .. k \in F
  BY <1>1
<1>7. PICK X \in F : \A Y \in F : ~(<<Y, X>> \in R)
  BY <1>4, <1>5, <1>6, WFMin
<1>8. PICK x \in Nat : x \notin S /\ X = 0 .. x
  BY <1>1
<1>9. x # 0
  BY <1>8
<1>10. PICK y \in Nat : x = y + 1
  BY <1>8, <1>9
<1>11. y \notin S
  BY <1>8, <1>10
<1>12. 0 .. y \in F
  BY <1>1, <1>11
<1>13. PICK Y : Y = 0 .. y
  OBVIOUS
<1>14. Y \subseteq X /\ Y # X /\ Y \subseteq Nat /\ X \subseteq Nat
  BY <1>8, <1>10, <1>13
<1>15. <<Y, X>> \in R
  BY <1>2, <1>5, <1>7, <1>12, <1>13, <1>14, <1>3 DEF StrictSubsetOrdering, FiniteSubsetsOf
<1> QED
  BY <1>7, <1>12, <1>13, <1>15

(* A set of numbers has a smallest one. *)
LEMMA Smallest ==
  ASSUME NEW S, S \subseteq Nat, S # {}
  PROVE  Min(S) \in S /\ \A y \in S : Min(S) <= y
<1>1. \E m \in S : \A y \in S : m <= y
  <2> SUFFICES ASSUME \A m \in S : \E y \in S : y < m PROVE FALSE
    OBVIOUS
  <2>1. PICK K : K = {k \in Nat : \A y \in S : k <= y}
    OBVIOUS
  <2>2. 0 \in K
    BY <2>1
  <2>3. \A k \in Nat : k \in K => k + 1 \in K
    BY <2>1
  <2>4. \A k \in Nat : k \in K
    BY <2>2, <2>3, SetInduction
  <2>5. PICK y \in S : y \in Nat
    OBVIOUS
  <2>6. y + 1 \in K
    BY <2>4, <2>5
  <2> QED
    BY <2>1, <2>5, <2>6
<1> QED
  BY <1>1 DEF Min

(* A recursive function over the numbers up to L: there is one, if each of  *)
(* its steps stays in a set.                                                *)
StaysIn(S, L, step) == \A n \in 1 .. L, s \in S : step[n][s] \in S

HasIteration(S, L, base, step) ==
  \E f \in [0 .. L -> S] : f[0] = base /\ \A n \in 1 .. L : f[n] = step[n][f[n - 1]]

LEMMA Iterated ==
  ASSUME NEW S, NEW L \in Nat, NEW base \in S, NEW step, StaysIn(S, L, step)
  PROVE  HasIteration(S, L, base, step)
<1> DEFINE Follows(f, n) == f[n] = IF n = 0 THEN base ELSE step[n][f[n - 1]]
           Built(k) == k <= L => \E f \in [0 .. k -> S] : \A n \in 0 .. k : Follows(f, n)
<1>1. Built(0)
  <2>1. PICK f : f = [n \in 0 .. 0 |-> base]
    OBVIOUS
  <2>2. f \in [0 .. 0 -> S] /\ \A n \in 0 .. 0 : Follows(f, n)
    BY <2>1
  <2> QED
    BY <2>2
<1>2. ASSUME NEW k \in Nat, Built(k) PROVE Built(k + 1)
  <2>1. SUFFICES ASSUME k + 1 <= L
                 PROVE  \E h \in [0 .. (k + 1) -> S] : \A n \in 0 .. (k + 1) : Follows(h, n)
    OBVIOUS
  <2>2. PICK f \in [0 .. k -> S] : \A n \in 0 .. k : Follows(f, n)
    <3>1. k <= L
      BY <2>1
    <3> HIDE DEF Follows
    <3> QED
      BY <1>2, <3>1
  <2>3. PICK last \in S : last = step[k + 1][f[k]]
    <3>1. k \in 0 .. k /\ k + 1 \in 1 .. L
      BY <2>1
    <3>2. PICK a \in S : a = f[k]
      BY <2>2, <3>1
    <3> QED
      BY <3>1, <3>2 DEF StaysIn
  <2>4. PICK h : h = [n \in 0 .. (k + 1) |-> IF n = k + 1 THEN last ELSE f[n]]
    OBVIOUS
  <2>5. h \in [0 .. (k + 1) -> S]
    BY <2>4
  <2>6. Follows(h, k + 1)
    BY <2>3, <2>4
  <2>7. ASSUME NEW n \in 0 .. k PROVE Follows(h, n)
    <3>1. h[n] = f[n] /\ (n # 0 => h[n - 1] = f[n - 1])
      BY <2>4
    <3> QED
      BY <2>2, <3>1
  <2>8. \A n \in 0 .. (k + 1) : n = k + 1 \/ n \in 0 .. k
    OBVIOUS
  <2> HIDE DEF Follows
  <2>9. \A n \in 0 .. (k + 1) : Follows(h, n)
    BY <2>6, <2>7, <2>8
  <2> QED
    BY <2>5, <2>9
<1> HIDE DEF Built
<1>3. Built(L)
  <2>1. PICK K : K = {k \in Nat : Built(k)}
    OBVIOUS
  <2>2. 0 \in K /\ \A k \in Nat : k \in K => k + 1 \in K
    BY <1>1, <1>2, <2>1
  <2>3. \A k \in Nat : k \in K
    BY <2>2, SetInduction
  <2> QED
    BY <2>1, <2>3
<1>4. PICK f \in [0 .. L -> S] : \A n \in 0 .. L : Follows(f, n)
  BY <1>3 DEF Built
<1>5. f[0] = base /\ \A n \in 1 .. L : f[n] = step[n][f[n - 1]]
  <2>1. 0 \in 0 .. L /\ \A n \in 1 .. L : n \in 0 .. L /\ n # 0
    OBVIOUS
  <2> QED
    BY <1>4, <2>1
<1> QED
  BY <1>5 DEF HasIteration

(* The same over all numbers. *)
HasIterationForever(S, base, step) ==
  \E f \in [Nat -> S] : f[0] = base /\ \A n \in Nat : f[n + 1] = step[n + 1][f[n]]

LEMMA IteratedForever ==
  ASSUME NEW S, NEW base \in S, NEW step, \A L \in Nat : StaysIn(S, L, step)
  PROVE  HasIterationForever(S, base, step)
<1> DEFINE Is(f, L) == /\ f \in [0 .. L -> S] /\ f[0] = base
                       /\ \A n \in 1 .. L : f[n] = step[n][f[n - 1]]
<1>1. \A L \in Nat : \E f : Is(f, L)
  <2> SUFFICES ASSUME NEW L \in Nat PROVE \E f : Is(f, L)
    OBVIOUS
  <2>1. HasIteration(S, L, base, step)
    BY Iterated
  <2> QED
    BY <2>1 DEF HasIteration
<1>2. PICK up : up = [L \in Nat |-> CHOOSE f : Is(f, L)]
  OBVIOUS
<1>3. \A L \in Nat : Is(up[L], L)
  <2> SUFFICES ASSUME NEW L \in Nat PROVE Is(up[L], L)
    OBVIOUS
  <2>1. PICK f : Is(f, L)
    BY <1>1
  <2>2. up[L] = CHOOSE g : Is(g, L)
    BY <1>2
  <2> HIDE DEF Is
  <2> QED
    BY <2>1, <2>2
<1>4. \A L \in Nat : \A n \in 0 .. L : up[L + 1][n] = up[L][n]
  <2> SUFFICES ASSUME NEW L \in Nat PROVE \A n \in 0 .. L : up[L + 1][n] = up[L][n]
    OBVIOUS
  <2>1. PICK K : K = {n \in Nat : n <= L => up[L + 1][n] = up[L][n]}
    OBVIOUS
  <2>2. Is(up[L], L) /\ Is(up[L + 1], L + 1)
    BY <1>3
  <2>3. 0 \in K
    BY <2>1, <2>2
  <2>4. ASSUME NEW n \in Nat, n \in K PROVE n + 1 \in K
    <3> SUFFICES ASSUME n + 1 <= L PROVE up[L + 1][n + 1] = up[L][n + 1]
      BY <2>1
    <3>1. n + 1 \in 1 .. L /\ n + 1 \in 1 .. L + 1 /\ (n + 1) - 1 = n
      OBVIOUS
    <3>2. up[L + 1][n] = up[L][n]
      BY <2>1, <2>4
    <3> QED
      BY <2>2, <3>1, <3>2
  <2>5. \A n \in Nat : n \in K
    BY <2>3, <2>4, SetInduction
  <2> QED
    BY <2>1, <2>5
<1>5. PICK f : f = [n \in Nat |-> up[n][n]]
  OBVIOUS
<1>6. f \in [Nat -> S] /\ f[0] = base
  <2>1. \A n \in Nat : n \in 0 .. n /\ up[n] \in [0 .. n -> S]
    BY <1>3
  <2>2. \A n \in Nat : up[n][n] \in S
    BY <2>1
  <2>3. up[0][0] = base
    BY <1>3
  <2> QED
    BY <1>5, <2>2, <2>3
<1>7. ASSUME NEW n \in Nat PROVE f[n + 1] = step[n + 1][f[n]]
  <2>1. n + 1 \in Nat /\ n + 1 \in 1 .. n + 1 /\ (n + 1) - 1 = n /\ n \in 0 .. n
    OBVIOUS
  <2>2. up[n + 1][n + 1] = step[n + 1][up[n + 1][n]]
    <3>1. Is(up[n + 1], n + 1)
      BY <1>3, <2>1
    <3> QED
      BY <2>1, <3>1
  <2>3. up[n + 1][n] = up[n][n]
    BY <1>4, <2>1
  <2>4. f[n] = up[n][n] /\ f[n + 1] = up[n + 1][n + 1]
    BY <1>5, <2>1
  <2> QED
    BY <2>2, <2>3, <2>4
<1> QED
  BY <1>6, <1>7 DEF HasIterationForever

-----------------------------------------------------------------------------
(* Sequences with one element more or less, place by place.                *)
HasOneMore(more, s, i, e) ==
  /\ Len(more) = Len(s) + 1 /\ more[i] = e
  /\ \A k \in 1 .. Len(s) : more[IF k < i THEN k ELSE k + 1] = s[k]
  /\ \A k \in 1 .. Len(s) + 1 :
       more[k] = IF k < i THEN s[k] ELSE IF k = i THEN e ELSE s[k - 1]

HasOneLess(less, s, i) ==
  /\ Len(less) + 1 = Len(s)
  /\ \A k \in 1 .. Len(less) : less[k] = IF k < i THEN s[k] ELSE s[k + 1]

LEMMA OneMore ==
  ASSUME NEW S, NEW s \in Seq(S), NEW i \in 1 .. Len(s) + 1, NEW e \in S
  PROVE  InsertAt(s, i, e) \in Seq(S) /\ HasOneMore(InsertAt(s, i, e), s, i, e)
<1>1. PICK n \in Nat : n = Len(s)
  OBVIOUS
<1>10. PICK left : left = SubSeq(s, 1, i - 1)
  OBVIOUS
<1>2. left \in Seq(S) /\ Len(left) = i - 1 /\ \A k \in 1 .. (i - 1) : left[k] = s[k]
  <2>1. \A k \in 1 .. (i - 1) : s[k] \in S
    BY <1>1
  <2>2. 1 \in Int /\ i - 1 \in Int
    BY <1>1
  <2>3. /\ left \in Seq(S)
        /\ Len(left) = IF 1 <= i - 1 THEN (i - 1) - 1 + 1 ELSE 0
        /\ \A k \in 1 .. (i - 1) - 1 + 1 : left[k] = s[1 + k - 1]
    BY <1>10, <2>1, <2>2, SubSeqProperties
  <2>4. (i - 1) - 1 + 1 = i - 1 /\ \A k \in 1 .. (i - 1) : 1 + k - 1 = k
    BY <1>1
  <2> QED
    BY <1>1, <2>3, <2>4
<1>11. PICK right : right = SubSeq(s, i, n)
  OBVIOUS
<1>3. /\ right \in Seq(S) /\ Len(right) = n - i + 1
      /\ \A k \in 1 .. n - i + 1 : right[k] = s[i + k - 1]
  <2>1. \A k \in i .. n : s[k] \in S
    BY <1>1
  <2>2. i \in Int /\ n \in Int
    BY <1>1
  <2>3. /\ right \in Seq(S)
        /\ Len(right) = IF i <= n THEN n - i + 1 ELSE 0
        /\ \A k \in 1 .. n - i + 1 : right[k] = s[i + k - 1]
    BY <1>11, <2>1, <2>2, SubSeqProperties
  <2> QED
    BY <1>1, <2>3
<1>14. PICK middle : middle = <<e>>
  OBVIOUS
<1>4. middle \in Seq(S) /\ Len(middle) = 1 /\ middle[1] = e
  BY <1>14
<1>12. PICK first : first = left \o middle
  OBVIOUS
<1>5. /\ first \in Seq(S) /\ Len(first) = i
      /\ \A k \in 1 .. i : first[k] = IF k < i THEN s[k] ELSE e
  <2>1. /\ first \in Seq(S) /\ Len(first) = Len(left) + Len(middle)
        /\ \A k \in 1 .. Len(left) + Len(middle) :
             first[k] = IF k <= Len(left) THEN left[k] ELSE middle[k - Len(left)]
    BY <1>2, <1>4, <1>12, ConcatProperties
  <2>2. (i - 1) + 1 = i /\ \A k \in 1 .. i :
          IF k < i THEN k <= i - 1 /\ k \in 1 .. (i - 1) ELSE ~(k <= i - 1) /\ k - (i - 1) = 1
    BY <1>1
  <2> QED
    BY <1>1, <1>2, <1>4, <2>1, <2>2, SMTT(40)
<1>13. PICK all : all = first \o right
  OBVIOUS
<1>6. /\ all \in Seq(S) /\ Len(all) = n + 1
      /\ \A k \in 1 .. n + 1 : all[k] = IF k <= i THEN first[k] ELSE right[k - i]
  <2>1. /\ all \in Seq(S) /\ Len(all) = Len(first) + Len(right)
        /\ \A k \in 1 .. Len(first) + Len(right) :
             all[k] = IF k <= Len(first) THEN first[k] ELSE right[k - Len(first)]
    BY <1>3, <1>5, <1>13, ConcatProperties
  <2>2. i + (n - i + 1) = n + 1
    BY <1>1
  <2> QED
    BY <1>3, <1>5, <2>1, <2>2
<1>7. all = InsertAt(s, i, e)
  BY <1>1, <1>10, <1>11, <1>12, <1>13, <1>14, Zenon DEF InsertAt
<1>8. ASSUME NEW k \in 1 .. n + 1
      PROVE  all[k] = IF k < i THEN s[k] ELSE IF k = i THEN e ELSE s[k - 1]
  <2>1. CASE k <= i
    <3>1. k \in 1 .. i
      BY <1>1, <2>1
    <3> QED
      BY <1>1, <1>5, <1>6, <2>1, <3>1
  <2>2. CASE k > i
    <3>1. ~(k <= i) /\ k - i \in 1 .. n - i + 1 /\ i + (k - i) - 1 = k - 1 /\ ~(k < i) /\ k # i
      BY <1>1, <2>2
    <3>2. all[k] = right[k - i]
      BY <1>6, <3>1
    <3>3. right[k - i] = s[k - 1]
      BY <1>3, <3>1
    <3> QED
      BY <3>1, <3>2, <3>3
  <2> QED
    BY <1>1, <2>1, <2>2
<1>9. ASSUME NEW k \in 1 .. n PROVE all[IF k < i THEN k ELSE k + 1] = s[k]
  <2>1. k \in 1 .. n + 1 /\ k + 1 \in 1 .. n + 1 /\ (k + 1) - 1 = k
        /\ (~(k < i) => ~(k + 1 < i) /\ k + 1 # i)
    BY <1>1
  <2> QED
    BY <1>8, <2>1
<1>15. i \in 1 .. n + 1 /\ ~(i < i)
  BY <1>1
<1>16. all[i] = e
  BY <1>8, <1>15
<1> QED
  BY <1>1, <1>6, <1>7, <1>8, <1>9, <1>16 DEF HasOneMore

LEMMA OneLess ==
  ASSUME NEW S, NEW s \in Seq(S), NEW i \in 1 .. Len(s)
  PROVE  RemoveAt(s, i) \in Seq(S) /\ HasOneLess(RemoveAt(s, i), s, i)
<1>1. PICK n \in Nat : n = Len(s)
  OBVIOUS
<1>10. PICK left : left = SubSeq(s, 1, i - 1)
  OBVIOUS
<1>2. left \in Seq(S) /\ Len(left) = i - 1 /\ \A k \in 1 .. (i - 1) : left[k] = s[k]
  <2>1. \A k \in 1 .. (i - 1) : s[k] \in S
    BY <1>1
  <2>2. 1 \in Int /\ i - 1 \in Int
    BY <1>1
  <2>3. /\ left \in Seq(S)
        /\ Len(left) = IF 1 <= i - 1 THEN (i - 1) - 1 + 1 ELSE 0
        /\ \A k \in 1 .. (i - 1) - 1 + 1 : left[k] = s[1 + k - 1]
    BY <1>10, <2>1, <2>2, SubSeqProperties
  <2>4. (i - 1) - 1 + 1 = i - 1 /\ \A k \in 1 .. (i - 1) : 1 + k - 1 = k
    BY <1>1
  <2> QED
    BY <1>1, <2>3, <2>4
<1>11. PICK right : right = SubSeq(s, i + 1, n)
  OBVIOUS
<1>3. /\ right \in Seq(S) /\ Len(right) = n - i
      /\ \A k \in 1 .. n - i : right[k] = s[i + k]
  <2>1. \A k \in i + 1 .. n : s[k] \in S
    BY <1>1
  <2>2. i + 1 \in Int /\ n \in Int
    BY <1>1
  <2>3. /\ right \in Seq(S)
        /\ Len(right) = IF i + 1 <= n THEN n - (i + 1) + 1 ELSE 0
        /\ \A k \in 1 .. n - (i + 1) + 1 : right[k] = s[(i + 1) + k - 1]
    BY <1>11, <2>1, <2>2, SubSeqProperties
  <2>4. n - (i + 1) + 1 = n - i /\ \A k \in 1 .. n - i : (i + 1) + k - 1 = i + k
    BY <1>1
  <2> QED
    BY <1>1, <2>3, <2>4
<1>12. PICK all : all = left \o right
  OBVIOUS
<1>4. /\ all \in Seq(S) /\ Len(all) = n - 1
      /\ \A k \in 1 .. n - 1 : all[k] = IF k <= i - 1 THEN left[k] ELSE right[k - (i - 1)]
  <2>1. /\ all \in Seq(S) /\ Len(all) = Len(left) + Len(right)
        /\ \A k \in 1 .. Len(left) + Len(right) :
             all[k] = IF k <= Len(left) THEN left[k] ELSE right[k - Len(left)]
    BY <1>2, <1>3, <1>12, ConcatProperties
  <2>2. (i - 1) + (n - i) = n - 1
    BY <1>1
  <2> QED
    BY <1>2, <1>3, <2>1, <2>2
<1>5. all = RemoveAt(s, i)
  BY <1>1, <1>10, <1>11, <1>12, Zenon DEF RemoveAt
<1>6. ASSUME NEW k \in 1 .. n - 1 PROVE all[k] = IF k < i THEN s[k] ELSE s[k + 1]
  <2>1. CASE k < i
    <3>1. k \in 1 .. (i - 1) /\ k <= i - 1
      BY <1>1, <2>1
    <3> QED
      BY <1>2, <1>4, <2>1, <3>1
  <2>2. CASE ~(k < i)
    <3>1. ~(k <= i - 1) /\ k - (i - 1) \in 1 .. n - i /\ i + (k - (i - 1)) = k + 1
      BY <1>1, <2>2
    <3>2. all[k] = right[k - (i - 1)]
      BY <1>4, <3>1
    <3>3. right[k - (i - 1)] = s[k + 1]
      BY <1>3, <3>1
    <3> QED
      BY <2>2, <3>2, <3>3
  <2> QED
    BY <2>1, <2>2
<1>7. (n - 1) + 1 = n
  BY <1>1
<1> QED
  BY <1>1, <1>4, <1>5, <1>6, <1>7 DEF HasOneLess

=============================================================================
