-------------------------- MODULE AlgorithmsProofs --------------------------
(***************************************************************************)
(* What extract_thumbnail, the histogram of durations, split_sql and       *)
(* json_get compute, for inputs of every length.  A recursive function is  *)
(* first shown to exist, and then followed along its argument; every       *)
(* induction is the absence of a least counterexample.                     *)
(***************************************************************************)
EXTENDS Algorithms, SequenceTheorems, NaturalsInduction, WellFoundedInduction,
        FiniteSetTheorems, TLAPS

-----------------------------------------------------------------------------
(* Induction, as the absence of a least counterexample.                    *)

LEMMA Least == ASSUME NEW S \in SUBSET Nat, S # {} PROVE \E n \in S : \A m \in S : n <= m
<1> DEFINE R == OpToRel(<, Nat)
<1>1. IsWellFoundedOn(R, Nat)
  BY NatLessThanWellFounded
<1>2. \A x, y \in Nat : x < y => <<x, y>> \in R
  BY DEF OpToRel
<1> HIDE DEF R
<1>3. PICK x \in S : \A y \in S : ~(<<y, x>> \in R)
  BY <1>1, WFMin
<1>4. \A y \in S : ~(y < x)
  BY <1>2, <1>3
<1>5. \A y \in S : x <= y
  BY <1>4
<1> QED
  BY <1>5

LEMMA MinOf == ASSUME NEW S \in SUBSET Nat, S # {} PROVE Min(S) \in S /\ \A m \in S : Min(S) <= m
  BY Least DEF Min

LEMMA MinIs ==
  ASSUME NEW S \in SUBSET Nat, NEW x \in S, \A y \in S : x <= y PROVE Min(S) = x
<1>1. Min(S) \in S /\ Min(S) <= x
  BY MinOf
<1>2. Min(S) \in Nat /\ x \in Nat /\ x <= Min(S)
  BY <1>1
<1> QED
  BY <1>1, <1>2

(* Induction on an interval, from its upper end.                           *)
LEMMA Downward ==
  ASSUME NEW n \in Nat, NEW S,
         \A i \in 1..n : (\A j \in (i + 1)..n : j \in S) => i \in S
  PROVE  1..n \subseteq S
<1> DEFINE Bad == {k \in 0..n : n - k \in (1..n) \ S}
<1>1. SUFFICES ASSUME NEW i \in 1..n, i \notin S PROVE FALSE
  OBVIOUS
<1>2. n - i \in Bad
  <2>1. n - i \in 0..n /\ n - (n - i) = i
    BY <1>1
  <2> QED
    BY <1>1, <2>1
<1>3. PICK k \in Bad : \A m \in Bad : k <= m
  <2>1. Bad \in SUBSET Nat /\ Bad # {}
    BY <1>2
  <2> HIDE DEF Bad
  <2> QED
    BY <2>1, Least
<1>4. \A j \in ((n - k) + 1)..n : j \in S
  <2> SUFFICES ASSUME NEW j \in ((n - k) + 1)..n, j \notin S PROVE FALSE
    OBVIOUS
  <2>1. n - j \in Bad /\ n - j < k
    BY <1>3
  <2> QED
    BY <1>3, <2>1
<1> QED
  BY <1>3, <1>4

(* ... and from its lower end.                                             *)
LEMMA Upward ==
  ASSUME NEW n \in Nat, NEW S,
         \A k \in 0..n : k = 0 \/ k - 1 \in S => k \in S
  PROVE  0..n \subseteq S
<1> DEFINE Bad == (0..n) \ S
<1>1. SUFFICES ASSUME Bad # {} PROVE FALSE
  OBVIOUS
<1>2. PICK k \in Bad : \A m \in Bad : k <= m
  <2>1. Bad \in SUBSET Nat
    OBVIOUS
  <2> HIDE DEF Bad
  <2> QED
    BY <1>1, <2>1, Least
<1>3. k # 0 => k - 1 \in 0..n /\ k - 1 \notin Bad
  BY <1>2
<1> QED
  BY <1>2, <1>3

LEMMA MaxOf ==
  ASSUME NEW n \in Nat, NEW t \in SUBSET (1..n), t # {}
  PROVE  Max(t) \in t /\ \A m \in t : m <= Max(t)
<1> DEFINE R == {k \in 0..n : n - k \in t}
<1>1. R \in SUBSET Nat /\ R # {}
  <2>1. PICK m \in t : TRUE
    OBVIOUS
  <2>2. m \in 1..n
    BY <2>1
  <2>3. n - m \in 0..n /\ n - (n - m) = m
    BY <2>2
  <2>4. n - m \in R
    BY <2>1, <2>3
  <2>5. R \in SUBSET Nat
    OBVIOUS
  <2> HIDE DEF R
  <2> QED
    BY <2>4, <2>5
<1>2. PICK k \in R : \A m \in R : k <= m
  <2> HIDE DEF R
  <2> QED
    BY <1>1, Least
<1>3. n - k \in t /\ \A m \in t : m <= n - k
  <2>1. \A m \in t : n - m \in 0..n /\ n - (n - m) = m
    OBVIOUS
  <2>2. \A m \in t : n - m \in R
    BY <2>1
  <2> QED
    BY <1>2, <2>2
<1>4. \E x \in t : \A m \in t : x >= m
  BY <1>3
<1>5. Max(t) \in t /\ \A m \in t : Max(t) >= m
  BY <1>4 DEF Max
<1> QED
  BY <1>5

-----------------------------------------------------------------------------
(* extract_thumbnail (pipeline.cpp:134-166).                               *)
(*                                                                         *)
(* A segment goes from its start marker to the first end marker behind it. *)
LEMMA Ends ==
  ASSUME NEW B, NEW s \in Seq(B), NEW i \in 1..Len(s), EndsAfter(s, i) # {}
  PROVE  /\ Len(s) \in Nat
         /\ Min(EndsAfter(s, i)) \in (i + 2)..(Len(s) - 1) /\ EOI(s, Min(EndsAfter(s, i)))
         /\ \A j \in EndsAfter(s, i) : Min(EndsAfter(s, i)) <= j
         /\ Len(Segment(s, i)) = Min(EndsAfter(s, i)) + 2 - i
<1>1. Len(s) \in Nat
  BY LenProperties
<1>2. EndsAfter(s, i) \in SUBSET Nat
  BY <1>1 DEF EndsAfter
<1>3. /\ Min(EndsAfter(s, i)) \in EndsAfter(s, i)
      /\ \A j \in EndsAfter(s, i) : Min(EndsAfter(s, i)) <= j
  BY <1>2, MinOf
<1>4. Min(EndsAfter(s, i)) \in (i + 2)..(Len(s) - 1) /\ EOI(s, Min(EndsAfter(s, i)))
  BY <1>3 DEF EndsAfter
<1>5. PICK e \in (i + 2)..(Len(s) - 1) : e = Min(EndsAfter(s, i))
  BY <1>4
<1>6. Len(SubSeq(s, i, e + 1)) = e + 2 - i
  <2>1. i \in 1..(Len(s) + 1) /\ e + 1 \in (i - 1)..Len(s)
    BY <1>1
  <2>2. Len(SubSeq(s, i, e + 1)) = (e + 1) - i + 1
    BY <2>1, SubSeqProperties
  <2> QED
    BY <1>1, <2>2
<1> QED
  BY <1>1, <1>3, <1>4, <1>5, <1>6 DEF Segment

(* The search from every position is well defined: it only looks behind    *)
(* itself.                                                                 *)
Solves(s, f) == f = [i \in 1..(Len(s) + 1) |-> BestAt(s, f, i)]

LEMMA BestAgrees ==
  ASSUME NEW B, NEW s \in Seq(B), NEW f, NEW g, NEW i \in 1..(Len(s) + 1),
         \A j \in (i + 1)..(Len(s) + 1) : f[j] = g[j]
  PROVE  BestAt(s, f, i) = BestAt(s, g, i)
<1>1. Len(s) \in Nat
  BY LenProperties
<1>2. CASE i >= Len(s)
  BY <1>2 DEF BestAt
<1>3. CASE i < Len(s)
  <2>1. i \in 1..Len(s) /\ i + 1 \in (i + 1)..(Len(s) + 1)
    BY <1>1, <1>3
  <2>2. EndsAfter(s, i) # {} => Min(EndsAfter(s, i)) + 2 \in (i + 1)..(Len(s) + 1)
    <3> SUFFICES ASSUME EndsAfter(s, i) # {}
                 PROVE Min(EndsAfter(s, i)) + 2 \in (i + 1)..(Len(s) + 1)
      OBVIOUS
    <3>1. Min(EndsAfter(s, i)) \in (i + 2)..(Len(s) - 1)
      BY <2>1, Ends
    <3> QED
      BY <1>1, <3>1
  <2> QED
    BY <2>1, <2>2 DEF BestAt
<1> QED
  BY <1>1, <1>2, <1>3

LEMMA Solvable == ASSUME NEW B, NEW s \in Seq(B) PROVE \E f : Solves(s, f)
<1> DEFINE n == Len(s) + 1
           Solved(f, k) == f = [i \in 1..n |-> f[i]] /\ \A i \in k..n : f[i] = BestAt(s, f, i)
           S == {k \in 1..n : \E f : Solved(f, k)}
<1>1. n \in Nat /\ 1 \in 1..n
  BY LenProperties
<1>2. ASSUME NEW k \in 1..n, \A j \in (k + 1)..n : j \in S PROVE k \in S
  <2>1. PICK f : f = [i \in 1..n |-> f[i]] /\ \A i \in (k + 1)..n : f[i] = BestAt(s, f, i)
    <3>1. CASE k = n
      <4>1. PICK f : f = [i \in 1..n |-> << >>]
        OBVIOUS
      <4>2. f = [i \in 1..n |-> f[i]]
        BY <4>1
      <4> QED
        BY <1>1, <3>1, <4>2
    <3>2. CASE k # n
      <4>1. k + 1 \in S
        BY <1>1, <1>2, <3>2
      <4> QED
        BY <4>1
    <3> QED
      BY <3>1, <3>2
  <2>2. PICK g : g = [i \in 1..n |-> IF i = k THEN BestAt(s, f, k) ELSE f[i]]
    OBVIOUS
  <2>3. \A i \in 1..n : g[i] = IF i = k THEN BestAt(s, f, k) ELSE f[i]
    BY <2>2
  <2>4. g = [i \in 1..n |-> g[i]]
    BY <2>2
  <2>5. ASSUME NEW i \in k..n PROVE g[i] = BestAt(s, g, i)
    <3>1. i \in 1..n /\ \A j \in (i + 1)..n : j \in 1..n /\ j # k
      BY <1>1
    <3>2. \A j \in (i + 1)..n : f[j] = g[j]
      BY <2>3, <3>1
    <3>3. BestAt(s, f, i) = BestAt(s, g, i)
      BY <3>1, <3>2, BestAgrees
    <3>4. i = k \/ i \in (k + 1)..n
      BY <1>1
    <3> QED
      BY <2>1, <2>3, <3>1, <3>3, <3>4
  <2> QED
    BY <2>4, <2>5
<1>3. 1..n \subseteq S
  <2> HIDE DEF S, n
  <2> QED
    BY <1>1, <1>2, Downward
<1>4. PICK f : f = [i \in 1..n |-> f[i]] /\ \A i \in 1..n : f[i] = BestAt(s, f, i)
  BY <1>1, <1>3
<1>5. f = [i \in 1..n |-> BestAt(s, f, i)]
  BY <1>4
<1> QED
  BY <1>5 DEF Solves

LEMMA BestSolves == ASSUME NEW B, NEW s \in Seq(B) PROVE Solves(s, BestFrom(s))
<1>1. \E f : f = [i \in 1..(Len(s) + 1) |-> BestAt(s, f, i)]
  BY Solvable DEF Solves
<1> QED
  BY <1>1, Zenon DEF BestFrom, Solves

From(s, i) == {Segment(s, j) : j \in {k \in Starts(s) : k >= i}}

IsBest(seg, s, i) ==
  IF From(s, i) = {} THEN seg = << >>
  ELSE seg \in From(s, i) /\ \A other \in From(s, i) : Len(other) <= Len(seg)

(* No segment but the one found starts before its end marker is over, or   *)
(* it ends at the same marker and is shorter.                              *)
LEMMA Inside ==
  ASSUME NEW B, NEW s \in Seq(B), NEW i \in Starts(s), NEW j \in Starts(s), j > i,
         j < Min(EndsAfter(s, i)) + 2
  PROVE  Len(Segment(s, j)) <= Len(Segment(s, i))
<1>1. /\ Len(s) \in Nat /\ i \in 1..Len(s) /\ j \in 1..Len(s) /\ SOI(s, j)
      /\ EndsAfter(s, i) # {} /\ EndsAfter(s, j) # {}
  BY LenProperties DEF Starts
<1>2. PICK e \in (i + 2)..(Len(s) - 1) : e = Min(EndsAfter(s, i)) /\ EOI(s, e)
  BY <1>1, Ends
<1>3. /\ s[j] = "FF" /\ s[j + 1] = "D8"
      /\ s[e] = "FF" /\ s[e + 1] = "D9"
  BY <1>1, <1>2 DEF SOI, EOI
<1>4. j # e /\ j # e + 1 /\ j + 1 # e
  BY <1>3
<1>5. e \in EndsAfter(s, j)
  BY <1>1, <1>2, <1>4 DEF EndsAfter
<1>6. PICK d \in (j + 2)..(Len(s) - 1) : d = Min(EndsAfter(s, j)) /\ d <= e
  BY <1>1, <1>5, Ends
<1>7. Len(Segment(s, j)) = d + 2 - j /\ Len(Segment(s, i)) = e + 2 - i
  BY <1>1, <1>2, <1>6, Ends
<1> QED
  BY <1>1, <1>6, <1>7

(* From every position on, the search finds the largest segment.           *)
LEMMA BestIsBest ==
  ASSUME NEW B, NEW s \in Seq(B), NEW i \in 1..(Len(s) + 1) PROVE IsBest(BestFrom(s)[i], s, i)
<1> DEFINE n == Len(s) + 1
           S == {k \in 1..n : IsBest(BestFrom(s)[k], s, k)}
<1>1. n \in Nat /\ Len(s) \in Nat
  BY LenProperties
<1>2. ASSUME NEW k \in 1..n, \A j \in (k + 1)..n : j \in S PROVE k \in S
  <2>1. BestFrom(s)[k] = BestAt(s, BestFrom(s), k)
    BY BestSolves DEF Solves
  <2>2. CASE k >= Len(s)
    <3>1. From(s, k) = {}
      BY <1>1, <2>2 DEF From, Starts
    <3> QED
      BY <2>1, <2>2, <3>1 DEF BestAt, IsBest
  <2>3. CASE k < Len(s) /\ k \notin Starts(s)
    <3>1. BestFrom(s)[k] = BestFrom(s)[k + 1]
      BY <1>1, <2>1, <2>3 DEF BestAt, Starts
    <3>2. {j \in Starts(s) : j >= k} = {j \in Starts(s) : j >= k + 1}
      BY <1>1, <2>3 DEF Starts
    <3>3. From(s, k) = From(s, k + 1)
      BY <3>2 DEF From
    <3>4. k + 1 \in (k + 1)..n
      BY <1>1, <2>3
    <3>5. IsBest(BestFrom(s)[k + 1], s, k + 1)
      BY <1>2, <3>4
    <3> QED
      BY <3>1, <3>3, <3>5 DEF IsBest
  <2>4. CASE k \in Starts(s)
    <3>1. /\ k \in 1..Len(s) /\ k < Len(s) /\ SOI(s, k) /\ EndsAfter(s, k) # {}
      BY <1>1, <2>4 DEF Starts
    <3>2. PICK e \in (k + 2)..(Len(s) - 1) : e = Min(EndsAfter(s, k))
      BY <3>1, Ends
    <3>3. Len(Segment(s, k)) = e + 2 - k
      BY <3>1, <3>2, Ends
    <3>4. BestFrom(s)[k] = Larger(Segment(s, k), BestFrom(s)[e + 2])
      BY <1>1, <2>1, <3>1, <3>2 DEF BestAt
    <3>5. e + 2 \in (k + 1)..n
      BY <1>1, <3>2
    <3>6. IsBest(BestFrom(s)[e + 2], s, e + 2)
      BY <1>2, <3>5
    <3>7. Segment(s, k) \in From(s, k) /\ From(s, e + 2) \subseteq From(s, k)
      BY <1>1, <2>4, <3>2 DEF From, Starts
    <3>8. \A seg \in From(s, k) : seg \in From(s, e + 2) \/ Len(seg) <= Len(Segment(s, k))
      <4> SUFFICES ASSUME NEW j \in Starts(s), j >= k
                   PROVE  Segment(s, j) \in From(s, e + 2)
                          \/ Len(Segment(s, j)) <= Len(Segment(s, k))
        BY DEF From
      <4>1. j \in Nat
        BY <1>1 DEF Starts
      <4>2. CASE j = k
        BY <3>3, <4>2, <3>2
      <4>3. CASE j > k /\ j < e + 2
        BY <2>4, <3>2, <4>3, Inside
      <4>4. CASE j >= e + 2
        BY <4>4 DEF From
      <4> QED
        BY <3>2, <4>1, <4>2, <4>3, <4>4
    <3>9. \A seg \in From(s, k) : Len(seg) \in Nat
      <4> SUFFICES ASSUME NEW j \in Starts(s) PROVE Len(Segment(s, j)) \in Nat
        BY DEF From
      <4>1. j \in 1..Len(s) /\ EndsAfter(s, j) # {}
        BY <1>1 DEF Starts
      <4>2. PICK d \in (j + 2)..(Len(s) - 1) : d = Min(EndsAfter(s, j))
        BY <4>1, Ends
      <4>3. Len(Segment(s, j)) = d + 2 - j
        BY <4>1, <4>2, Ends
      <4> QED
        BY <1>1, <4>1, <4>2, <4>3
    <3>10. CASE From(s, e + 2) = {}
      <4>1. BestFrom(s)[e + 2] = << >> /\ Len(<< >>) = 0
        BY <3>6, <3>10, EmptySeq DEF IsBest
      <4>2. BestFrom(s)[k] = Segment(s, k)
        BY <3>4, <3>7, <3>9, <4>1 DEF Larger
      <4> QED
        BY <3>7, <3>8, <3>10, <4>2 DEF IsBest
    <3>11. CASE From(s, e + 2) # {}
      <4>1. /\ BestFrom(s)[e + 2] \in From(s, e + 2)
            /\ \A seg \in From(s, e + 2) : Len(seg) <= Len(BestFrom(s)[e + 2])
        BY <3>6, <3>11 DEF IsBest
      <4>2. /\ BestFrom(s)[k] \in {Segment(s, k), BestFrom(s)[e + 2]}
            /\ Len(Segment(s, k)) <= Len(BestFrom(s)[k])
            /\ Len(BestFrom(s)[e + 2]) <= Len(BestFrom(s)[k])
        BY <3>4, <3>7, <3>9, <4>1 DEF Larger
      <4>3. BestFrom(s)[k] \in From(s, k)
        BY <3>7, <4>1, <4>2
      <4>4. \A seg \in From(s, k) : Len(seg) <= Len(BestFrom(s)[k])
        BY <3>7, <3>8, <3>9, <4>1, <4>2, <4>3
      <4> QED
        BY <3>7, <4>3, <4>4 DEF IsBest
    <3> QED
      BY <3>10, <3>11
  <2> QED
    BY <1>1, <2>2, <2>3, <2>4
<1>3. 1..n \subseteq S
  <2> HIDE DEF S, n
  <2> QED
    BY <1>1, <1>2, Downward
<1> QED
  BY <1>3

(* The search, which goes on behind the end of every segment it finds,     *)
(* misses none that is larger: it returns the largest segment of any       *)
(* sequence of bytes, or nothing if that is shorter than the least size    *)
(* (pipeline.cpp:134-166).                                                 *)
THEOREM ThumbnailSearch ==
  ASSUME NEW B, NEW s \in Seq(B), NEW least \in Nat
  PROVE  IsLargest(extract_thumbnail(s, least), s, least)
<1>1. 1 \in 1..(Len(s) + 1) /\ Len(s) \in Nat
  BY LenProperties
<1>2. IsBest(BestFrom(s)[1], s, 1)
  BY <1>1, BestIsBest
<1>3. From(s, 1) = Segments(s)
  BY <1>1 DEF From, Segments, Starts
<1>4. \A seg \in Segments(s) : Len(seg) \in Nat
  <2> SUFFICES ASSUME NEW j \in Starts(s) PROVE Len(Segment(s, j)) \in Nat
    BY DEF Segments
  <2>1. j \in 1..Len(s) /\ EndsAfter(s, j) # {}
    BY <1>1 DEF Starts
  <2>2. PICK d \in (j + 2)..(Len(s) - 1) : d = Min(EndsAfter(s, j))
    BY <2>1, Ends
  <2>3. Len(Segment(s, j)) = d + 2 - j
    BY <2>1, <2>2, Ends
  <2> QED
    BY <1>1, <2>1, <2>2, <2>3
<1>5. PICK best : best = BestFrom(s)[1]
  OBVIOUS
<1>6. CASE Segments(s) = {}
  BY <1>2, <1>3, <1>5, <1>6, EmptySeq DEF IsLargest, extract_thumbnail, IsBest
<1>7. CASE Segments(s) # {}
  BY <1>2, <1>3, <1>4, <1>5, <1>7 DEF IsLargest, extract_thumbnail, IsBest
<1> QED
  BY <1>6, <1>7

-----------------------------------------------------------------------------
(* The two folds of the module, over durations and over the text of a      *)
(* migration.  A fold is a recursive function on the sets of positions; it *)
(* is followed along the intervals from 1.                                 *)

NoBuckets == [b \in 1..10 |-> 0]
NoText    == [out |-> << >>, cur |-> << >>, quote |-> Unquoted, escaped |-> FALSE]

Base(fold) == IF fold = "sql" THEN NoText ELSE NoBuckets
Step(fold, acc, x) == IF fold = "sql" THEN Scanned(acc, x) ELSE observe(acc, x)

Folded(fold, s, F, t) ==
  IF t = {} THEN Base(fold) ELSE Step(fold, F[t \ {Max(t)}], s[Max(t)])

IsFold(fold, s, F) == F = [t \in SUBSET DOMAIN s |-> Folded(fold, s, F, t)]

LEMMA FoldSolvable ==
  ASSUME NEW fold, NEW B, NEW s \in Seq(B) PROVE \E F : IsFold(fold, s, F)
<1>1. PICK n \in Nat : n = Len(s) /\ DOMAIN s = 1..n
  BY LenProperties
<1> DEFINE Solved(F, k) == /\ F = [t \in SUBSET (1..n) |-> F[t]]
                           /\ \A t \in SUBSET (1..k) : F[t] = Folded(fold, s, F, t)
           S == {k \in 0..n : \E F : Solved(F, k)}
<1>2. ASSUME NEW k \in 0..n, NEW t \in SUBSET (1..k), t # {}
      PROVE  Max(t) \in t /\ t \ {Max(t)} \in SUBSET (1..(k - 1)) /\ k # 0
  <2>1. PICK x : x = Max(t)
    OBVIOUS
  <2>2. x \in t /\ \A m \in t : m <= x
    <3>1. k \in Nat
      OBVIOUS
    <3> QED
      BY <1>2, <2>1, <3>1, MaxOf
  <2>3. \A m \in t \ {x} : m \in 1..(k - 1)
    <3> SUFFICES ASSUME NEW m \in t, m # x PROVE m \in 1..(k - 1)
      OBVIOUS
    <3>1. m \in 1..k /\ x \in 1..k /\ m <= x
      BY <2>2
    <3> QED
      BY <3>1
  <2>4. k # 0
    <3>1. x \in 1..k
      BY <2>2
    <3> QED
      BY <3>1
  <2>5. t \ {x} \in SUBSET (1..(k - 1))
    BY <2>3
  <2> QED
    BY <2>1, <2>2, <2>4, <2>5
<1>3. ASSUME NEW k \in 0..n, k = 0 \/ k - 1 \in S PROVE k \in S
  <2>1. PICK F : F = [t \in SUBSET (1..n) |-> F[t]]
                 /\ (k # 0 => \A t \in SUBSET (1..(k - 1)) : F[t] = Folded(fold, s, F, t))
    <3>1. CASE k = 0
      <4>1. PICK F : F = [t \in SUBSET (1..n) |-> << >>]
        OBVIOUS
      <4>2. F = [t \in SUBSET (1..n) |-> F[t]]
        BY <4>1
      <4> QED
        BY <3>1, <4>2
    <3>2. CASE k # 0
      BY <1>3, <3>2
    <3> QED
      BY <3>1, <3>2
  <2>2. PICK G : G = [t \in SUBSET (1..n) |->
                       IF k # 0 /\ t \in SUBSET (1..(k - 1)) THEN F[t] ELSE Folded(fold, s, F, t)]
    OBVIOUS
  <2>3. G = [t \in SUBSET (1..n) |-> G[t]]
    BY <2>2
  <2>4. \A t \in SUBSET (1..n) :
          G[t] = IF k # 0 /\ t \in SUBSET (1..(k - 1)) THEN F[t] ELSE Folded(fold, s, F, t)
    BY <2>2
  <2>5. ASSUME NEW t \in SUBSET (1..k) PROVE G[t] = Folded(fold, s, G, t)
    <3>1. t \in SUBSET (1..n)
      BY <1>1
    <3>2. Folded(fold, s, G, t) = Folded(fold, s, F, t)
      <4>1. CASE t = {}
        BY <4>1 DEF Folded
      <4>2. CASE t # {}
        <5>1. t \ {Max(t)} \in SUBSET (1..(k - 1)) /\ k # 0
          BY <1>2, <4>2
        <5>2. t \ {Max(t)} \in SUBSET (1..n)
          BY <3>1
        <5>3. G[t \ {Max(t)}] = F[t \ {Max(t)}]
          BY <2>4, <5>1, <5>2
        <5> QED
          BY <4>2, <5>3 DEF Folded
      <4> QED
        BY <4>1, <4>2
    <3> QED
      BY <2>1, <2>4, <3>1, <3>2
  <2> QED
    BY <2>3, <2>5
<1>4. n \in S
  <2>1. 0..n \subseteq S
    <3> HIDE DEF S
    <3> QED
      BY <1>3, Upward
  <2>2. n \in 0..n
    OBVIOUS
  <2> QED
    BY <2>1, <2>2
<1>5. PICK F : /\ F = [t \in SUBSET (1..n) |-> F[t]]
               /\ \A t \in SUBSET (1..n) : F[t] = Folded(fold, s, F, t)
  BY <1>4
<1>6. F = [t \in SUBSET (1..n) |-> Folded(fold, s, F, t)]
  BY <1>5
<1> QED
  BY <1>1, <1>6 DEF IsFold

(* A fold from the left takes the sequence one element after the other.    *)
LEMMA FoldSteps ==
  ASSUME NEW fold, NEW B, NEW s \in Seq(B), NEW F, IsFold(fold, s, F)
  PROVE  \E G : /\ F[DOMAIN s] = G[Len(s)] /\ G[0] = Base(fold)
                /\ \A k \in 1..Len(s) : G[k] = Step(fold, G[k - 1], s[k])
<1>1. PICK n \in Nat : n = Len(s) /\ DOMAIN s = 1..n
  BY LenProperties
<1>2. F = [t \in SUBSET DOMAIN s |-> Folded(fold, s, F, t)]
  BY DEF IsFold
<1>3. PICK G : G = [k \in 0..n |-> F[1..k]]
  OBVIOUS
<1>4. \A k \in 0..n : G[k] = F[1..k] /\ F[1..k] = Folded(fold, s, F, 1..k)
  <2>1. \A k \in 0..n : 1..k \in SUBSET DOMAIN s
    BY <1>1
  <2> QED
    BY <1>2, <1>3, <2>1
<1>5. G[0] = Base(fold)
  <2>1. 0 \in 0..n /\ 1..0 = {}
    BY <1>1
  <2> QED
    BY <1>4, <2>1 DEF Folded
<1>6. ASSUME NEW k \in 1..n PROVE G[k] = Step(fold, G[k - 1], s[k])
  <2>1. k \in 0..n /\ k - 1 \in 0..n /\ k \in 1..k /\ k \in Nat
    OBVIOUS
  <2>2. Max(1..k) = k
    <3>1. PICK x : x = Max(1..k)
      OBVIOUS
    <3>2. 1..k \in SUBSET (1..k) /\ 1..k # {}
      BY <2>1
    <3>3. x \in 1..k /\ \A m \in 1..k : m <= x
      BY <2>1, <3>1, <3>2, MaxOf
    <3> QED
      BY <2>1, <3>1, <3>3
  <2>3. (1..k) \ {k} = 1..(k - 1)
    BY <2>1
  <2> QED
    <3>1. G[k] = Folded(fold, s, F, 1..k) /\ G[k - 1] = F[1..(k - 1)] /\ 1..k # {}
      BY <1>4, <2>1
    <3> QED
      BY <2>2, <2>3, <3>1 DEF Folded
<1>7. F[DOMAIN s] = G[n]
  <2>1. n \in 0..n
    OBVIOUS
  <2> QED
    BY <1>1, <1>2, <1>4, <2>1
<1> QED
  BY <1>1, <1>5, <1>6, <1>7

-----------------------------------------------------------------------------
(* The histogram (metrics.cpp:25-33, 118-126).                             *)

LEMMA HistogramFolds ==
  ASSUME NEW B, NEW s \in Seq(B)
  PROVE  \E G : /\ Histogram(s) = G[Len(s)] /\ G[0] = [b \in 1..10 |-> 0]
                /\ \A k \in 1..Len(s) : G[k] = observe(G[k - 1], s[k])
<1> DEFINE Fills(F) == F = [t \in SUBSET DOMAIN s |->
            IF t = {} THEN [b \in 1..10 |-> 0] ELSE observe(F[t \ {Max(t)}], s[Max(t)])]
<1>1. \A t, F : Folded("durations", s, F, t) =
               IF t = {} THEN [b \in 1..10 |-> 0] ELSE observe(F[t \ {Max(t)}], s[Max(t)])
  BY DEF Folded, Base, Step, NoBuckets
<1>2. \A F : IsFold("durations", s, F) <=> Fills(F)
  BY <1>1 DEF IsFold
<1>3. PICK F : Fills(F) /\ Histogram(s) = F[DOMAIN s]
  <2>1. \E F : IsFold("durations", s, F)
    BY FoldSolvable
  <2>2. \E F : Fills(F)
    BY <1>2, <2>1
  <2> QED
    BY <2>2, Zenon DEF Histogram, FoldLeft, MapThenFoldSet
<1>4. PICK G : /\ F[DOMAIN s] = G[Len(s)] /\ G[0] = Base("durations")
               /\ \A k \in 1..Len(s) : G[k] = Step("durations", G[k - 1], s[k])
  <2>1. IsFold("durations", s, F)
    BY <1>2, <1>3
  <2> QED
    BY <2>1, FoldSteps
<1>5. /\ Base("durations") = [b \in 1..10 |-> 0]
      /\ \A b, x : Step("durations", b, x) = observe(b, x)
  BY DEF Base, Step, NoBuckets
<1>6. Histogram(s) = G[Len(s)] /\ G[0] = [b \in 1..10 |-> 0]
  BY <1>3, <1>4, <1>5, Zenon
<1>7. \A k \in 1..Len(s) : G[k] = observe(G[k - 1], s[k])
  BY <1>4, <1>5, Zenon
<1> QED
  BY <1>6, <1>7, Zenon

(* Render adds the buckets up, FlattenSeq joins the statements: each value *)
(* comes from the one before it.                                           *)
Sums(b, c) == c = [i \in 0..10 |-> IF i = 0 THEN 0 ELSE c[i - 1] + b[i]]

First(what) == IF what = "sums" THEN 0 ELSE 1
Along(what, d, f, i) == IF what = "sums" THEN IF i = 0 THEN 0 ELSE f[i - 1] + d[i]
                        ELSE IF i = 1 THEN d[i] ELSE f[i - 1] \o d[i]

IsAlong(what, d, n, f) == f = [i \in First(what)..n |-> Along(what, d, f, i)]

LEMMA AlongExists ==
  ASSUME NEW what, NEW d, NEW n \in Nat PROVE \E f : IsAlong(what, d, n, f)
<1> DEFINE At(f, i) == Along(what, d, f, i)
<1>1. PICK lo \in {0, 1} : lo = First(what)
  BY DEF First
<1>2. \A f, g, i : (i # lo => f[i - 1] = g[i - 1]) => At(f, i) = At(g, i)
  BY <1>1 DEF First, Along
<1> DEFINE S == {k \in 0..n : \E f : /\ f = [i \in lo..n |-> f[i]]
                                   /\ \A i \in lo..k : f[i] = At(f, i)}
<1> HIDE DEF At
<1>3. ASSUME NEW k \in 0..n, k = 0 \/ k - 1 \in S PROVE k \in S
  <2>1. PICK f : f = [i \in lo..n |-> f[i]] /\ (k # 0 => \A i \in lo..(k - 1) : f[i] = At(f, i))
    <3>1. CASE k = 0
      <4>1. PICK f : f = [i \in lo..n |-> 0]
        OBVIOUS
      <4>2. f = [i \in lo..n |-> f[i]]
        BY <4>1
      <4> QED
        BY <3>1, <4>2
    <3>2. CASE k # 0
      BY <1>3, <3>2
    <3> QED
      BY <3>1, <3>2
  <2>2. PICK g : g = [i \in lo..n |-> IF i = k THEN At(f, k) ELSE f[i]]
    OBVIOUS
  <2>3. g = [i \in lo..n |-> g[i]]
    BY <2>2
  <2>4. \A i \in lo..k : g[i] = At(g, i)
    <3>1. \A i \in lo..k : i # lo => i - 1 \in lo..n /\ i - 1 # k
      OBVIOUS
    <3>2. \A i \in lo..k : i # lo => g[i - 1] = f[i - 1]
      BY <2>2, <3>1
    <3>3. \A i \in lo..k : At(g, i) = At(f, i)
      BY <1>2, <3>2
    <3>4. \A i \in lo..k : i \in lo..n /\ (i = k \/ (k # 0 /\ i \in lo..(k - 1)))
      OBVIOUS
    <3> QED
      BY <2>1, <2>2, <3>3, <3>4
  <2> QED
    BY <2>3, <2>4
<1>4. n \in S
  <2>1. n \in 0..n
    OBVIOUS
  <2> HIDE DEF S
  <2> QED
    BY <1>3, <2>1, Upward
<1>5. PICK f : f = [i \in lo..n |-> f[i]] /\ \A i \in lo..n : f[i] = At(f, i)
  BY <1>4
<1>6. f = [i \in lo..n |-> At(f, i)]
  BY <1>5
<1> QED
  BY <1>1, <1>6 DEF At, IsAlong

LEMMA SumsExist == ASSUME NEW b PROVE \E c : Sums(b, c)
<1>1. PICK c : IsAlong("sums", b, 10, c)
  BY AlongExists
<1> QED
  BY <1>1 DEF Sums, IsAlong, First, Along

LEMMA RenderSums ==
  ASSUME NEW b PROVE \E c : Sums(b, c) /\ Render(b) = [i \in 1..10 |-> c[i]]
<1>1. \E c : c = [i \in 0..10 |-> IF i = 0 THEN 0 ELSE c[i - 1] + b[i]]
  BY SumsExist DEF Sums
<1> QED
  BY <1>1, Zenon DEF Render, Sums

(* The bucket of a duration is the first whose edge it does not pass.      *)
Rows == 1..10

Counts(i, x) == i = 10 \/ x <= Edges[i]

LEMMA BucketIsFirst ==
  ASSUME NEW x \in Nat
  PROVE  Bucket(x) \in 1..10 /\ \A i \in 1..10 : Counts(i, x) <=> i >= Bucket(x)
<1> DEFINE T == {b \in 1..10 : Counts(b, x)}
<1>1. Bucket(x) = Min(T)
  BY DEF Bucket, Reaches, Counts
<1>2. 10 \in T /\ T \in SUBSET Nat
  BY DEF Counts
<1>3. Min(T) \in T /\ \A m \in T : Min(T) <= m
  <2> HIDE DEF T
  <2> QED
    BY <1>2, MinOf
<1>4. \A i \in 1..9 : Edges[i] \in Nat /\ (i # 9 => Edges[i] <= Edges[i + 1])
  BY DEF Edges
<1>5. \A i, j \in 1..9 : i <= j => Edges[i] <= Edges[j]
  BY DEF Edges
<1>6. \A i, j \in 1..10 : i <= j /\ Counts(i, x) => Counts(j, x)
  BY <1>4, <1>5 DEF Counts
<1> QED
  BY <1>1, <1>3, <1>6

(* One more duration adds one to each line of the output that counts it.   *)
LEMMA ObserveAdds ==
  ASSUME NEW b \in [Rows -> Nat], NEW x \in Nat, NEW c, NEW d,
         Sums(b, c), Sums(observe(b, x), d)
  PROVE  /\ observe(b, x) \in [Rows -> Nat]
         /\ \A i \in Rows : /\ Counts(i, x) => d[i] = c[i] + 1
                            /\ ~Counts(i, x) => d[i] = c[i]
<1>0. b \in [1..10 -> Nat]
  BY DEF Rows
<1>1. PICK m \in 1..10 : m = Bucket(x)
  BY BucketIsFirst
<1>2. observe(b, x) = [b EXCEPT ![m] = b[m] + 1]
  BY <1>1 DEF observe
<1>3. observe(b, x) \in [1..10 -> Nat]
  BY <1>0, <1>2
<1>4. PICK a \in [1..10 -> Nat] : a = observe(b, x)
  BY <1>3
<1>5. \A i \in 1..10 : a[i] = IF i = m THEN b[i] + 1 ELSE b[i]
  BY <1>0, <1>2, <1>4
<1> DEFINE S == {i \in 0..10 : c[i] \in Nat /\ d[i] = IF i >= m THEN c[i] + 1 ELSE c[i]}
<1>6. /\ c[0] = 0 /\ d[0] = 0
      /\ \A i \in 1..10 : c[i] = c[i - 1] + b[i] /\ d[i] = d[i - 1] + a[i]
  BY <1>4 DEF Sums
<1>7. ASSUME NEW i \in 0..10, i = 0 \/ i - 1 \in S PROVE i \in S
  <2>1. CASE i = 0
    BY <1>6, <2>1
  <2>2. CASE i # 0
    <3>1. /\ i \in 1..10 /\ b[i] \in Nat /\ c[i - 1] \in Nat
          /\ d[i - 1] = IF i - 1 >= m THEN c[i - 1] + 1 ELSE c[i - 1]
      BY <1>0, <1>7, <2>2
    <3>2. c[i] = c[i - 1] + b[i] /\ d[i] = d[i - 1] + a[i]
      BY <1>6, <3>1
    <3>3. a[i] = IF i = m THEN b[i] + 1 ELSE b[i]
      BY <1>5, <3>1
    <3> QED
      BY <3>1, <3>2, <3>3
  <2> QED
    BY <2>1, <2>2
<1>8. 0..10 \subseteq S
  <2>1. 10 \in Nat
    OBVIOUS
  <2> HIDE DEF S
  <2> QED
    BY <1>7, <2>1, Upward
<1>9. \A i \in 1..10 : i \in S /\ (i >= m <=> Counts(i, x))
  BY <1>1, <1>8, BucketIsFirst
<1> QED
  BY <1>3, <1>9 DEF Rows

Upto(s, k, i) == {j \in 1..k : Counts(i, s[j])}

LEMMA CountOneMore ==
  ASSUME NEW s, NEW k \in Nat, NEW i
  PROVE  /\ Cardinality(Upto(s, k, i)) \in Nat
         /\ Cardinality(Upto(s, k + 1, i)) =
              IF Counts(i, s[k + 1]) THEN Cardinality(Upto(s, k, i)) + 1
                                     ELSE Cardinality(Upto(s, k, i))
<1>1. IsFiniteSet(1..k)
  BY FS_Interval
<1>2. IsFiniteSet(Upto(s, k, i)) /\ Cardinality(Upto(s, k, i)) \in Nat
  BY <1>1, FS_Subset, FS_CardinalityType DEF Upto
<1>3. Upto(s, k + 1, i) = IF Counts(i, s[k + 1]) THEN Upto(s, k, i) \cup {k + 1} ELSE Upto(s, k, i)
  <2>1. \A j : j \in 1..(k + 1) <=> j \in 1..k \/ j = k + 1
    OBVIOUS
  <2> QED
    BY <2>1 DEF Upto
<1>4. k + 1 \notin Upto(s, k, i)
  BY DEF Upto
<1> QED
  BY <1>2, <1>3, <1>4, FS_AddElement

(* What is exported are the counts that the labels say, for every sequence *)
(* of durations (metrics.cpp:25-33, 118-126).                              *)
THEOREM HistogramCounts ==
  ASSUME NEW s \in Seq(Nat) PROVE CountsAsLabelled(Render(Histogram(s)), s)
<1>1. PICK n \in Nat : n = Len(s) /\ DOMAIN s = 1..n /\ \A k \in 1..n : s[k] \in Nat
  BY LenProperties, ElementOfSeq
<1>2. PICK F : /\ Histogram(s) = F[n] /\ F[0] = [b \in 1..10 |-> 0]
               /\ \A k \in 1..n : F[k] = observe(F[k - 1], s[k])
  BY <1>1, HistogramFolds
<1> DEFINE Right(k) == /\ F[k] \in [Rows -> Nat]
                       /\ \A c : Sums(F[k], c) =>
                            \A i \in Rows : c[i] = Cardinality(Upto(s, k, i))
           S == {k \in 0..n : Right(k)}
<1>3. Right(0)
  <2>1. \A i : Cardinality(Upto(s, 0, i)) = 0
    BY FS_EmptySet DEF Upto
  <2>2. ASSUME NEW c, Sums([b \in 1..10 |-> 0], c) PROVE \A i \in 0..10 : c[i] = 0
    <3> DEFINE Z == {i \in 0..10 : c[i] = 0}
    <3>1. ASSUME NEW i \in 0..10, i = 0 \/ i - 1 \in Z PROVE i \in Z
      BY <2>2, <3>1 DEF Sums
    <3>2. 10 \in Nat
      OBVIOUS
    <3> HIDE DEF Z
    <3>3. 0..10 \subseteq Z
      BY <3>1, <3>2, Upward
    <3> QED
      BY <3>3 DEF Z
  <2>3. F[0] \in [Rows -> Nat]
    BY <1>2 DEF Rows
  <2>4. \A i \in Rows : i \in 0..10
    BY DEF Rows
  <2> QED
    BY <1>2, <2>1, <2>2, <2>3, <2>4
<1>4. ASSUME NEW k \in 1..n, Right(k - 1) PROVE Right(k)
  <2>1. /\ F[k - 1] \in [Rows -> Nat] /\ s[k] \in Nat
        /\ F[k] = observe(F[k - 1], s[k]) /\ k - 1 \in Nat
    BY <1>1, <1>2, <1>4
  <2>2. PICK c : Sums(F[k - 1], c)
    BY SumsExist
  <2>3. \A i \in Rows : c[i] = Cardinality(Upto(s, k - 1, i))
    BY <1>4, <2>2
  <2>4. ASSUME NEW d, Sums(F[k], d), NEW i \in Rows PROVE d[i] = Cardinality(Upto(s, k, i))
    <3>1. /\ Counts(i, s[k]) => d[i] = c[i] + 1
          /\ ~Counts(i, s[k]) => d[i] = c[i]
      <4>1. Sums(observe(F[k - 1], s[k]), d)
        BY <2>1, <2>4
      <4>2. PICK b \in [Rows -> Nat], x \in Nat : b = F[k - 1] /\ x = s[k]
        BY <2>1
      <4>3. Sums(b, c) /\ Sums(observe(b, x), d)
        BY <2>2, <4>1, <4>2
      <4>4. /\ Counts(i, x) => d[i] = c[i] + 1
            /\ ~Counts(i, x) => d[i] = c[i]
        BY <4>3, ObserveAdds
      <4> QED
        BY <4>2, <4>4
    <3>2. (k - 1) + 1 = k
      BY <1>1
    <3>3. Cardinality(Upto(s, k, i)) = IF Counts(i, s[k]) THEN Cardinality(Upto(s, k - 1, i)) + 1
                                       ELSE Cardinality(Upto(s, k - 1, i))
      BY <2>1, <3>2, CountOneMore
    <3> QED
      BY <2>3, <3>1, <3>3
  <2>5. F[k] \in [Rows -> Nat]
    <3>1. PICK d : Sums(F[k], d)
      BY SumsExist
    <3>2. Sums(observe(F[k - 1], s[k]), d)
      BY <2>1, <3>1
    <3>3. observe(F[k - 1], s[k]) \in [Rows -> Nat]
      BY <2>1, <2>2, <3>2, ObserveAdds
    <3> QED
      BY <2>1, <3>3
  <2> QED
    BY <2>4, <2>5
<1>5. Right(n)
  <2>1. \A k \in 0..n : k = 0 \/ k - 1 \in S => k \in S
    <3> SUFFICES ASSUME NEW k \in 0..n, k = 0 \/ k - 1 \in S PROVE Right(k)
      OBVIOUS
    <3>1. k # 0 => k \in 1..n /\ k - 1 \in S
      OBVIOUS
    <3>2. k # 0 => Right(k - 1)
      BY <3>1
    <3> HIDE DEF Right
    <3> QED
      BY <1>3, <1>4, <3>1, <3>2
  <2>2. 0..n \subseteq S
    <3> HIDE DEF S
    <3> QED
      BY <2>1, Upward
  <2>3. n \in 0..n
    OBVIOUS
  <2>4. n \in S
    BY <2>2, <2>3
  <2> QED
    BY <2>4
<1>6. PICK c : Sums(F[n], c) /\ Render(F[n]) = [i \in 1..10 |-> c[i]]
  BY RenderSums
<1>7. \A i \in Rows : Render(F[n])[i] = Cardinality(Upto(s, n, i))
  BY <1>5, <1>6 DEF Rows
<1>8. Render(F[n])[10] = n
  <2>1. Upto(s, n, 10) = 1..n
    BY DEF Upto, Counts
  <2>2. Cardinality(1..n) = n
    <3>1. 1 \in Int /\ n \in Int
      OBVIOUS
    <3>2. Cardinality(1..n) = IF 1 > n THEN 0 ELSE n - 1 + 1
      BY <3>1, FS_Interval
    <3> QED
      BY <3>2
  <2>3. Render(F[n])[10] = Cardinality(Upto(s, n, 10))
    <3>1. 10 \in Rows
      BY DEF Rows
    <3> QED
      BY <1>7, <3>1
  <2> QED
    BY <2>1, <2>2, <2>3
<1>9. ASSUME NEW b \in 1..9
      PROVE  Render(F[n])[b] = Cardinality({i \in DOMAIN s : s[i] <= Labels[b]})
  <2>1. Upto(s, n, b) = {i \in DOMAIN s : s[i] <= Labels[b]}
    BY <1>1 DEF Upto, Counts, Edges, Labels
  <2>2. b \in Rows
    BY DEF Rows
  <2> QED
    BY <1>7, <2>1, <2>2
<1> QED
  BY <1>1, <1>2, <1>8, <1>9 DEF CountsAsLabelled

-----------------------------------------------------------------------------
(* How split_sql gets over a piece of text (util.cpp:130-173).             *)

Chars == {"a", Semi, Escape, Blank} \cup QuoteMarks

(* The scanner goes from one state to another over the text.               *)
Runs(a, s, b) ==
  \E G : /\ G[0] = a /\ G[Len(s)] = b
         /\ \A k \in 1..Len(s) : G[k] = Scanned(G[k - 1], s[k])

LEMMA RunsNothing == ASSUME NEW a PROVE Runs(a, << >>, a)
<1>1. PICK G : G = [k \in 0..0 |-> a]
  OBVIOUS
<1>2. Len(<< >>) = 0
  BY EmptySeq
<1> QED
  BY <1>1, <1>2 DEF Runs

LEMMA RunsOn ==
  ASSUME NEW s \in Seq(Chars), NEW x \in Chars, NEW a, NEW b, Runs(a, s, b)
  PROVE  Runs(a, Append(s, x), Scanned(b, x))
<1>1. PICK n \in Nat : n = Len(s)
  BY LenProperties
<1>2. PICK G : /\ G[0] = a /\ G[n] = b
               /\ \A k \in 1..n : G[k] = Scanned(G[k - 1], s[k])
  BY <1>1 DEF Runs
<1>3. PICK r : r = Append(s, x)
  OBVIOUS
<1>4. Len(r) = n + 1 /\ r[n + 1] = x /\ \A k \in 1..n : r[k] = s[k]
  BY <1>1, <1>3, AppendProperties
<1>5. PICK H : H = [k \in 0..(n + 1) |-> IF k = n + 1 THEN Scanned(b, x) ELSE G[k]]
  OBVIOUS
<1>6. \A k \in 0..n : H[k] = G[k]
  BY <1>5
<1>7. H[0] = a /\ H[n + 1] = Scanned(b, x)
  BY <1>2, <1>5
<1>8. ASSUME NEW k \in 1..(n + 1) PROVE H[k] = Scanned(H[k - 1], r[k])
  <2>1. CASE k = n + 1
    BY <1>2, <1>4, <1>6, <1>7, <2>1
  <2>2. CASE k # n + 1
    <3>1. k \in 1..n /\ k \in 0..n /\ k - 1 \in 0..n
      BY <2>2
    <3> QED
      BY <1>2, <1>4, <1>6, <3>1
  <2> QED
    BY <2>1, <2>2
<1> QED
  BY <1>3, <1>4, <1>7, <1>8 DEF Runs

LEMMA RunsConcat ==
  ASSUME NEW s \in Seq(Chars), NEW t \in Seq(Chars), NEW a, NEW b, NEW c,
         Runs(a, s, b), Runs(b, t, c)
  PROVE  Runs(a, s \o t, c)
<1>1. PICK n \in Nat : n = Len(s)
  BY LenProperties
<1>2. PICK m \in Nat : m = Len(t)
  BY LenProperties
<1>3. PICK G : /\ G[0] = a /\ G[n] = b
               /\ \A k \in 1..n : G[k] = Scanned(G[k - 1], s[k])
  BY <1>1 DEF Runs
<1>4. PICK H : /\ H[0] = b /\ H[m] = c
               /\ \A k \in 1..m : H[k] = Scanned(H[k - 1], t[k])
  BY <1>2 DEF Runs
<1>5. PICK r : r = s \o t
  OBVIOUS
<1>6. Len(r) = n + m /\ \A k \in 1..(n + m) : r[k] = IF k <= n THEN s[k] ELSE t[k - n]
  BY <1>1, <1>2, <1>5, ConcatProperties
<1>7. PICK J : J = [k \in 0..(n + m) |-> IF k <= n THEN G[k] ELSE H[k - n]]
  OBVIOUS
<1>8. \A k \in 0..n : J[k] = G[k]
  BY <1>7
<1>9. \A k \in n..(n + m) : J[k] = H[k - n]
  <2> SUFFICES ASSUME NEW k \in n..(n + m) PROVE J[k] = H[k - n]
    OBVIOUS
  <2>1. CASE k = n
    BY <1>3, <1>4, <1>7, <2>1
  <2>2. CASE k # n
    BY <1>7, <2>2
  <2> QED
    BY <2>1, <2>2
<1>10. J[0] = a /\ J[n + m] = c
  BY <1>3, <1>4, <1>8, <1>9
<1>11. ASSUME NEW k \in 1..(n + m) PROVE J[k] = Scanned(J[k - 1], r[k])
  <2>1. CASE k <= n
    <3>1. k \in 1..n /\ k \in 0..n /\ k - 1 \in 0..n
      BY <2>1
    <3> QED
      BY <1>3, <1>6, <1>8, <2>1, <3>1
  <2>2. CASE ~(k <= n)
    <3>1. k \in n..(n + m) /\ k - 1 \in n..(n + m) /\ k - n \in 1..m /\ (k - 1) - n = (k - n) - 1
      BY <2>2
    <3>2. r[k] = t[k - n] /\ J[k] = H[k - n] /\ J[k - 1] = H[(k - n) - 1]
      BY <1>6, <1>9, <2>2, <3>1
    <3> QED
      BY <1>4, <3>1, <3>2
  <2> QED
    BY <2>1, <2>2
<1> QED
  BY <1>5, <1>6, <1>10, <1>11 DEF Runs

(* The fold is such a run.                                                 *)
LEMMA SplitRuns ==
  ASSUME NEW s \in Seq(Chars), NEW b, Runs(NoText, s, b)
  PROVE  split_sql(s) = Flushed(b)
<1> DEFINE Solution(F) == F = [t \in SUBSET DOMAIN s |->
            IF t = {} THEN [out |-> << >>, cur |-> << >>, quote |-> Unquoted, escaped |-> FALSE]
            ELSE Scanned(F[t \ {Max(t)}], s[Max(t)])]
<1>1. PICK n \in Nat : n = Len(s)
  BY LenProperties
<1>2. \A t, F : Folded("sql", s, F, t) =
            IF t = {} THEN [out |-> << >>, cur |-> << >>, quote |-> Unquoted, escaped |-> FALSE]
            ELSE Scanned(F[t \ {Max(t)}], s[Max(t)])
  BY DEF Folded, Base, Step, NoText
<1>3. \A F : IsFold("sql", s, F) <=> Solution(F)
  BY <1>2 DEF IsFold
<1>4. PICK F : Solution(F) /\ split_sql(s) = Flushed(F[DOMAIN s])
  <2>1. \E F : IsFold("sql", s, F)
    BY FoldSolvable
  <2>2. \E F : Solution(F)
    BY <1>3, <2>1
  <2> QED
    BY <2>2, Zenon DEF split_sql, FoldLeft, MapThenFoldSet
<1>5. PICK G : /\ F[DOMAIN s] = G[n] /\ G[0] = NoText
               /\ \A k \in 1..n : G[k] = Scanned(G[k - 1], s[k])
  <2>1. IsFold("sql", s, F)
    BY <1>3, <1>4
  <2>2. \E G : /\ F[DOMAIN s] = G[Len(s)] /\ G[0] = Base("sql")
               /\ \A k \in 1..Len(s) : G[k] = Step("sql", G[k - 1], s[k])
    BY <2>1, FoldSteps
  <2> QED
    BY <1>1, <2>2 DEF Base, Step
<1>6. PICK H : /\ H[0] = NoText /\ H[n] = b
               /\ \A k \in 1..n : H[k] = Scanned(H[k - 1], s[k])
  BY <1>1 DEF Runs
<1> DEFINE Same == {k \in 0..n : G[k] = H[k]}
<1>7. ASSUME NEW k \in 0..n, k = 0 \/ k - 1 \in Same PROVE k \in Same
  <2>1. CASE k = 0
    BY <1>5, <1>6, <2>1
  <2>2. CASE k # 0
    <3>1. k \in 1..n /\ G[k - 1] = H[k - 1]
      BY <1>7, <2>2
    <3> QED
      BY <1>5, <1>6, <3>1
  <2> QED
    BY <2>1, <2>2
<1>8. n \in Same
  <2>1. n \in 0..n
    OBVIOUS
  <2>2. 0..n \subseteq Same
    <3> HIDE DEF Same
    <3> QED
      BY <1>7, Upward
  <2> QED
    BY <2>1, <2>2
<1> QED
  BY <1>4, <1>5, <1>6, <1>8

-----------------------------------------------------------------------------
(* Tuples as sequences that were appended to.                              *)

LEMMA IsAppend ==
  ASSUME NEW S, NEW s \in Seq(S), NEW x \in S, NEW r \in Seq(S),
         Len(r) = Len(s) + 1, r[Len(s) + 1] = x, \A i \in 1..Len(s) : r[i] = s[i]
  PROVE  Append(s, x) = r
<1>1. PICK n \in Nat : n = Len(s)
  BY LenProperties
<1>2. PICK t : t = Append(s, x)
  OBVIOUS
<1>3. t \in Seq(S) /\ Len(t) = n + 1 /\ t[n + 1] = x /\ \A i \in 1..n : t[i] = s[i]
  BY <1>1, <1>2, AppendProperties
<1>4. \A i \in 1..(n + 1) : t[i] = r[i]
  <2>1. \A i \in 1..(n + 1) : i = n + 1 \/ i \in 1..n
    OBVIOUS
  <2> QED
    BY <1>1, <1>3, <2>1
<1>5. Len(t) = Len(r) /\ \A i \in 1..Len(t) : t[i] = r[i]
  BY <1>1, <1>3, <1>4
<1> QED
  BY <1>2, <1>3, <1>5, SeqEqual

LEMMA AppendTuples ==
  /\ \A a \in Chars : Append(<< >>, a) = <<a>>
  /\ \A a, b \in Chars : Append(<<a>>, b) = <<a, b>>
  /\ \A a, b, c \in Chars : Append(<<a, b>>, c) = <<a, b, c>>
  /\ \A a, b, c, d \in Chars : Append(<<a, b, c>>, d) = <<a, b, c, d>>
  /\ \A a, b, c, d, e \in Chars : Append(<<a, b, c, d>>, e) = <<a, b, c, d, e>>
<1>1. ASSUME NEW a \in Chars
      PROVE  Append(<< >>, a) = <<a>>
  <2>1. PICK s : s = << >>
    OBVIOUS
  <2>2. PICK r : r = <<a>>
    OBVIOUS
  <2>3. s \in Seq(Chars) /\ Len(s) = 0 /\ r \in Seq(Chars)
    BY <2>1, <2>2
  <2>4. Len(r) = Len(s) + 1 /\ r[Len(s) + 1] = a
    BY <2>2, <2>3
  <2>5. \A i \in 1..Len(s) : r[i] = s[i]
    BY <2>1, <2>2, <2>3
  <2>6. Append(s, a) = r
    BY <2>3, <2>4, <2>5, IsAppend
  <2> QED
    BY <2>1, <2>2, <2>6
<1>2. ASSUME NEW a \in Chars, NEW b \in Chars
      PROVE  Append(<<a>>, b) = <<a, b>>
  <2>1. PICK s : s = <<a>>
    OBVIOUS
  <2>2. PICK r : r = <<a, b>>
    OBVIOUS
  <2>3. s \in Seq(Chars) /\ Len(s) = 1 /\ r \in Seq(Chars)
    BY <2>1, <2>2
  <2>4. Len(r) = Len(s) + 1 /\ r[Len(s) + 1] = b
    BY <2>2, <2>3
  <2>5. \A i \in 1..Len(s) : r[i] = s[i]
    BY <2>1, <2>2, <2>3
  <2>6. Append(s, b) = r
    BY <2>3, <2>4, <2>5, IsAppend
  <2> QED
    BY <2>1, <2>2, <2>6
<1>3. ASSUME NEW a \in Chars, NEW b \in Chars, NEW c \in Chars
      PROVE  Append(<<a, b>>, c) = <<a, b, c>>
  <2>1. PICK s : s = <<a, b>>
    OBVIOUS
  <2>2. PICK r : r = <<a, b, c>>
    OBVIOUS
  <2>3. s \in Seq(Chars) /\ Len(s) = 2 /\ r \in Seq(Chars)
    BY <2>1, <2>2
  <2>4. Len(r) = Len(s) + 1 /\ r[Len(s) + 1] = c
    BY <2>2, <2>3
  <2>5. \A i \in 1..Len(s) : r[i] = s[i]
    BY <2>1, <2>2, <2>3
  <2>6. Append(s, c) = r
    BY <2>3, <2>4, <2>5, IsAppend
  <2> QED
    BY <2>1, <2>2, <2>6
<1>4. ASSUME NEW a \in Chars, NEW b \in Chars, NEW c \in Chars, NEW d \in Chars
      PROVE  Append(<<a, b, c>>, d) = <<a, b, c, d>>
  <2>1. PICK s : s = <<a, b, c>>
    OBVIOUS
  <2>2. PICK r : r = <<a, b, c, d>>
    OBVIOUS
  <2>3. s \in Seq(Chars) /\ Len(s) = 3 /\ r \in Seq(Chars)
    BY <2>1, <2>2
  <2>4. Len(r) = Len(s) + 1 /\ r[Len(s) + 1] = d
    BY <2>2, <2>3
  <2>5. \A i \in 1..Len(s) : r[i] = s[i]
    BY <2>1, <2>2, <2>3
  <2>6. Append(s, d) = r
    BY <2>3, <2>4, <2>5, IsAppend
  <2> QED
    BY <2>1, <2>2, <2>6
<1>5. ASSUME NEW a \in Chars, NEW b \in Chars, NEW c \in Chars, NEW d \in Chars, NEW e \in Chars
      PROVE  Append(<<a, b, c, d>>, e) = <<a, b, c, d, e>>
  <2>1. PICK s : s = <<a, b, c, d>>
    OBVIOUS
  <2>2. PICK r : r = <<a, b, c, d, e>>
    OBVIOUS
  <2>3. s \in Seq(Chars) /\ Len(s) = 4 /\ r \in Seq(Chars)
    BY <2>1, <2>2
  <2>4. Len(r) = Len(s) + 1 /\ r[Len(s) + 1] = e
    BY <2>2, <2>3
  <2>5. \A i \in 1..Len(s) : r[i] = s[i]
    BY <2>1, <2>2, <2>3
  <2>6. Append(s, e) = r
    BY <2>3, <2>4, <2>5, IsAppend
  <2> QED
    BY <2>1, <2>2, <2>6
<1> QED
  BY <1>1, <1>2, <1>3, <1>4, <1>5

-----------------------------------------------------------------------------
(* A string that opens and closes its quotes leaves the scanner where it   *)
(* was, with the string kept.                                              *)

NotEscaped == FALSE
IsEscaped  == TRUE

ScanAt(out, cur, quote, escaped) ==
  [out |-> out, cur |-> cur, quote |-> quote, escaped |-> escaped]

Leads(s, quote, escaped) ==
  /\ s \in Seq(Chars)
  /\ \A out : \A cur \in Seq(Chars) :
       Runs(ScanAt(out, cur, Unquoted, NotEscaped), s, ScanAt(out, cur \o s, quote, escaped))

LEMMA EscapedOrNot == ~NotEscaped /\ IsEscaped
  BY DEF NotEscaped, IsEscaped

LEMMA CharsAre ==
  /\ "a" \in Chars /\ Semi \in Chars /\ Escape \in Chars /\ Blank \in Chars
  /\ QuoteMarks \subseteq Chars
  /\ Unquoted \notin QuoteMarks /\ Semi \notin QuoteMarks /\ Escape \notin QuoteMarks
  /\ "a" \notin QuoteMarks /\ Blank \notin QuoteMarks
  /\ Escape # Semi /\ Escape # "a" /\ Escape # Blank /\ Semi # "a" /\ Semi # Blank /\ "a" # Blank
  BY DEF Chars, Semi, Escape, Blank, QuoteMarks, Unquoted

LEMMA LeadsOn ==
  ASSUME NEW s, NEW quote, NEW escaped, NEW x \in Chars, NEW quote2, NEW escaped2,
         Leads(s, quote, escaped),
         \A out, cur : Scanned(ScanAt(out, cur, quote, escaped), x) =
                       ScanAt(out, Append(cur, x), quote2, escaped2)
  PROVE  Leads(Append(s, x), quote2, escaped2)
<1>1. s \in Seq(Chars) /\ Append(s, x) \in Seq(Chars)
  BY AppendProperties DEF Leads
<1>2. ASSUME NEW out, NEW cur \in Seq(Chars)
      PROVE  Runs(ScanAt(out, cur, Unquoted, NotEscaped), Append(s, x),
                  ScanAt(out, cur \o Append(s, x), quote2, escaped2))
  <2>1. Runs(ScanAt(out, cur, Unquoted, NotEscaped), s, ScanAt(out, cur \o s, quote, escaped))
    BY DEF Leads
  <2>2. Runs(ScanAt(out, cur, Unquoted, NotEscaped), Append(s, x),
             Scanned(ScanAt(out, cur \o s, quote, escaped), x))
    BY <1>1, <2>1, RunsOn
  <2>3. Scanned(ScanAt(out, cur \o s, quote, escaped), x) =
          ScanAt(out, Append(cur \o s, x), quote2, escaped2)
    OBVIOUS
  <2>4. Append(cur \o s, x) = cur \o Append(s, x)
    <3>1. cur \o s \in Seq(Chars) /\ <<x>> \in Seq(Chars)
      BY <1>1, ConcatProperties
    <3>2. Append(cur \o s, x) = (cur \o s) \o <<x>> /\ Append(s, x) = s \o <<x>>
      BY <1>1, <3>1, AppendIsConcat
    <3> QED
      BY <1>1, <3>1, <3>2, ConcatAssociative
  <2> QED
    BY <2>2, <2>3, <2>4
<1> QED
  BY <1>1, <1>2 DEF Leads

LEMMA LeadsNowhere == Leads(<< >>, Unquoted, NotEscaped)
<1>1. << >> \in Seq(Chars) /\ \A cur \in Seq(Chars) : cur \o << >> = cur
  BY EmptySeq
<1> QED
  BY <1>1, RunsNothing DEF Leads

LEMMA LeadsBoth ==
  ASSUME NEW s, NEW t, Leads(s, Unquoted, NotEscaped), Leads(t, Unquoted, NotEscaped)
  PROVE  Leads(s \o t, Unquoted, NotEscaped)
<1>1. s \in Seq(Chars) /\ t \in Seq(Chars) /\ s \o t \in Seq(Chars)
  BY ConcatProperties DEF Leads
<1>2. ASSUME NEW out, NEW cur \in Seq(Chars)
      PROVE  Runs(ScanAt(out, cur, Unquoted, NotEscaped), s \o t,
                  ScanAt(out, cur \o (s \o t), Unquoted, NotEscaped))
  <2>1. cur \o s \in Seq(Chars) /\ (cur \o s) \o t = cur \o (s \o t)
    BY <1>1, ConcatProperties, ConcatAssociative
  <2>2. Runs(ScanAt(out, cur, Unquoted, NotEscaped), s, ScanAt(out, cur \o s, Unquoted, NotEscaped))
    BY DEF Leads
  <2>3. Runs(ScanAt(out, cur \o s, Unquoted, NotEscaped), t,
             ScanAt(out, (cur \o s) \o t, Unquoted, NotEscaped))
    BY <2>1 DEF Leads
  <2> QED
    BY <1>1, <2>1, <2>2, <2>3, RunsConcat
<1> QED
  BY <1>1, <1>2 DEF Leads

(* The branches of the scanner that keep the character.                    *)
LEMMA LeadsOut ==
  ASSUME NEW s, NEW x \in {"a", Blank}, Leads(s, Unquoted, NotEscaped)
  PROVE  Leads(Append(s, x), Unquoted, NotEscaped)
<1>1. x \in Chars /\ x # Semi /\ x # Escape /\ x \notin QuoteMarks
  BY CharsAre
<1>2. \A out, cur :
        Scanned(ScanAt(out, cur, Unquoted, NotEscaped), x) =
          ScanAt(out, Append(cur, x), Unquoted, NotEscaped)
  BY <1>1, EscapedOrNot DEF Scanned, ScanAt
<1> QED
  BY <1>1, <1>2, LeadsOn

LEMMA LeadsIn ==
  ASSUME NEW s, NEW x \in QuoteMarks, Leads(s, Unquoted, NotEscaped)
  PROVE  Leads(Append(s, x), x, NotEscaped)
<1>1. \A out, cur :
        Scanned(ScanAt(out, cur, Unquoted, NotEscaped), x) =
          ScanAt(out, Append(cur, x), x, NotEscaped)
  BY CharsAre, EscapedOrNot DEF Scanned, ScanAt
<1> QED
  BY <1>1, CharsAre, LeadsOn

LEMMA ScansQuoted ==
  ASSUME NEW out, NEW cur, NEW q, NEW x, NEW next, q # Unquoted, x # Escape,
         next = IF x = q THEN Unquoted ELSE q
  PROVE  Scanned(ScanAt(out, cur, q, NotEscaped), x) =
           ScanAt(out, Append(cur, x), next, NotEscaped)
<1>1. PICK st : st = ScanAt(out, cur, q, NotEscaped)
  OBVIOUS
<1>2. ~st.escaped /\ st.quote # Unquoted
  BY <1>1, EscapedOrNot DEF ScanAt
<1>3. PICK kept : kept = [st EXCEPT !.cur = Append(@, x)]
  OBVIOUS
<1>4. kept = ScanAt(out, Append(cur, x), q, NotEscaped)
  BY <1>1, <1>3 DEF ScanAt
<1>5. Scanned(st, x) = [kept EXCEPT !.quote = IF ClosingMark(x, @) THEN Unquoted ELSE @]
  BY <1>2, <1>3, Zenon DEF Scanned
<1>6. kept.quote = q
  BY <1>4 DEF ScanAt
<1>7. next = IF ClosingMark(x, kept.quote) THEN Unquoted ELSE kept.quote
  BY <1>6 DEF ClosingMark
<1>8. Scanned(st, x) = [kept EXCEPT !.quote = next]
  BY <1>5, <1>7, Zenon
<1>9. [kept EXCEPT !.quote = next] = ScanAt(out, Append(cur, x), next, NotEscaped)
  <2>1. PICK c : c = Append(cur, x)
    OBVIOUS
  <2>2. PICK e : e = NotEscaped
    OBVIOUS
  <2>3. kept = ScanAt(out, c, q, e)
    BY <1>4, <2>1, <2>2
  <2>4. [kept EXCEPT !.quote = next] = ScanAt(out, c, next, e)
    BY <2>3 DEF ScanAt
  <2> QED
    BY <2>1, <2>2, <2>4, Zenon
<1> QED
  BY <1>1, <1>8, <1>9, Zenon

LEMMA LeadsWithin ==
  ASSUME NEW s, NEW q \in QuoteMarks, NEW x \in Chars \ {q, Escape}, Leads(s, q, NotEscaped)
  PROVE  Leads(Append(s, x), q, NotEscaped)
<1>1. q # Unquoted /\ x # Escape /\ q = IF x = q THEN Unquoted ELSE q
  BY CharsAre
<1>2. ASSUME NEW out, NEW cur
      PROVE  Scanned(ScanAt(out, cur, q, NotEscaped), x) =
               ScanAt(out, Append(cur, x), q, NotEscaped)
  BY <1>1, ScansQuoted
<1> QED
  BY <1>2, LeadsOn

LEMMA LeadsClosing ==
  ASSUME NEW s, NEW q \in QuoteMarks, Leads(s, q, NotEscaped)
  PROVE  Leads(Append(s, q), Unquoted, NotEscaped)
<1>1. q # Unquoted /\ q # Escape /\ q \in Chars /\ Unquoted = IF q = q THEN Unquoted ELSE q
  BY CharsAre
<1>2. ASSUME NEW out, NEW cur
      PROVE  Scanned(ScanAt(out, cur, q, NotEscaped), q) =
               ScanAt(out, Append(cur, q), Unquoted, NotEscaped)
  BY <1>1, ScansQuoted
<1> QED
  BY <1>1, <1>2, LeadsOn

LEMMA LeadsEscaped ==
  ASSUME NEW s, NEW q \in QuoteMarks, NEW x \in Chars, Leads(s, q, NotEscaped)
  PROVE  Leads(Append(Append(s, Escape), x), q, NotEscaped)
<1>1. \A out, cur :
        Scanned(ScanAt(out, cur, q, NotEscaped), Escape) =
          ScanAt(out, Append(cur, Escape), q, IsEscaped)
  BY CharsAre, EscapedOrNot DEF Scanned, ScanAt
<1>2. ASSUME NEW out, NEW cur
      PROVE  Scanned(ScanAt(out, cur, q, IsEscaped), x) =
               ScanAt(out, Append(cur, x), q, NotEscaped)
  <2>1. PICK st : st = ScanAt(out, cur, q, IsEscaped)
    OBVIOUS
  <2>2. st.escaped /\ st.cur = cur
    BY <2>1, EscapedOrNot DEF ScanAt
  <2>3. PICK kept : kept = [st EXCEPT !.cur = Append(@, x)]
    OBVIOUS
  <2>4. kept = ScanAt(out, Append(cur, x), q, IsEscaped)
    BY <2>1, <2>3 DEF ScanAt
  <2>5. Scanned(st, x) = [kept EXCEPT !.escaped = FALSE]
    BY <2>2, <2>3, Zenon DEF Scanned
  <2>6. [kept EXCEPT !.escaped = FALSE] = ScanAt(out, Append(cur, x), q, NotEscaped)
    <3>1. PICK c : c = Append(cur, x)
      OBVIOUS
    <3>2. PICK e : e = NotEscaped
      OBVIOUS
    <3>3. kept = ScanAt(out, c, q, IsEscaped)
      BY <2>4, <3>1
    <3>4. [kept EXCEPT !.escaped = e] = ScanAt(out, c, q, e)
      BY <3>3 DEF ScanAt
    <3>5. [kept EXCEPT !.escaped = FALSE] = [kept EXCEPT !.escaped = e]
      BY <3>2, Zenon DEF NotEscaped
    <3> QED
      BY <3>1, <3>2, <3>4, <3>5, Zenon
  <2> QED
    BY <2>1, <2>5, <2>6, Zenon
<1>3. Leads(Append(s, Escape), q, IsEscaped)
  BY <1>1, CharsAre, LeadsOn
<1> QED
  BY <1>2, <1>3, LeadsOn

-----------------------------------------------------------------------------
(* A statement is cut out whole if it begins and ends with something, and  *)
(* closes its quotes.                                                      *)

Whole(p) == /\ p # << >> /\ p[1] # Blank /\ p[Len(p)] # Blank
            /\ Leads(p, Unquoted, NotEscaped)

(* Strings with a semicolon, with another quote, with a quote escaped or   *)
(* doubled.                                                                *)
LEMMA StringsLead ==
  ASSUME NEW q \in QuoteMarks, NEW r \in QuoteMarks, r # q, NEW c, c = Semi, NEW e, e = Escape
  PROVE  /\ Leads(<<q, c, q>>, Unquoted, NotEscaped)
         /\ Leads(<<q, e, q, c, q>>, Unquoted, NotEscaped)
         /\ Leads(<<q, r, c, q>>, Unquoted, NotEscaped)
         /\ Leads(<<q, c, r, q>>, Unquoted, NotEscaped)
         /\ Leads(<<q, q, q, c, q>>, Unquoted, NotEscaped)
<1>1. q \in Chars /\ r \in Chars /\ c \in Chars /\ e \in Chars
  BY CharsAre
<1>2. c \in Chars \ {q, Escape} /\ r \in Chars \ {q, Escape}
  BY CharsAre
<1>3. Leads(<<q>>, q, NotEscaped)
  <2>1. Leads(Append(<< >>, q), q, NotEscaped)
    BY LeadsNowhere, LeadsIn
  <2>2. Append(<< >>, q) = <<q>>
    BY <1>1, AppendTuples
  <2> QED
    BY <2>1, <2>2
<1>4. Leads(<<q, c>>, q, NotEscaped)
  <2>1. Append(<<q>>, c) = <<q, c>>
    BY <1>1, AppendTuples
  <2> QED
    BY <1>2, <1>3, <2>1, LeadsWithin
<1>5. Leads(<<q, c, q>>, Unquoted, NotEscaped)
  <2>1. Append(<<q, c>>, q) = <<q, c, q>>
    BY <1>1, AppendTuples
  <2> QED
    BY <1>4, <2>1, LeadsClosing
<1>6. Leads(<<q, e, q, c, q>>, Unquoted, NotEscaped)
  <2>1. Append(<<q>>, e) = <<q, e>> /\ Append(<<q, e>>, q) = <<q, e, q>>
    BY <1>1, AppendTuples
  <2>2. Append(<<q, e, q>>, c) = <<q, e, q, c>> /\ Append(<<q, e, q, c>>, q) = <<q, e, q, c, q>>
    BY <1>1, AppendTuples
  <2>3. Leads(<<q, e, q>>, q, NotEscaped)
    <3>1. Leads(Append(Append(<<q>>, Escape), q), q, NotEscaped)
      BY <1>1, <1>3, LeadsEscaped
    <3> QED
      BY <2>1, <3>1
  <2>4. Leads(<<q, e, q, c>>, q, NotEscaped)
    BY <1>2, <2>2, <2>3, LeadsWithin
  <2> QED
    BY <2>2, <2>4, LeadsClosing
<1>7. Leads(<<q, r, c, q>>, Unquoted, NotEscaped)
  <2>1. Append(<<q>>, r) = <<q, r>> /\ Append(<<q, r>>, c) = <<q, r, c>>
    BY <1>1, AppendTuples
  <2>2. Append(<<q, r, c>>, q) = <<q, r, c, q>>
    BY <1>1, AppendTuples
  <2>3. Leads(<<q, r>>, q, NotEscaped)
    BY <1>2, <1>3, <2>1, LeadsWithin
  <2>4. Leads(<<q, r, c>>, q, NotEscaped)
    BY <1>2, <2>1, <2>3, LeadsWithin
  <2> QED
    BY <2>2, <2>4, LeadsClosing
<1>8. Leads(<<q, c, r, q>>, Unquoted, NotEscaped)
  <2>1. Append(<<q, c>>, r) = <<q, c, r>> /\ Append(<<q, c, r>>, q) = <<q, c, r, q>>
    BY <1>1, AppendTuples
  <2>2. Leads(<<q, c, r>>, q, NotEscaped)
    BY <1>2, <1>4, <2>1, LeadsWithin
  <2> QED
    BY <2>1, <2>2, LeadsClosing
<1>9. Leads(<<q, q, q, c, q>>, Unquoted, NotEscaped)
  <2>1. Append(<<q>>, q) = <<q, q>> /\ Append(<<q, q>>, q) = <<q, q, q>>
    BY <1>1, AppendTuples
  <2>2. Append(<<q, q, q>>, c) = <<q, q, q, c>> /\ Append(<<q, q, q, c>>, q) = <<q, q, q, c, q>>
    BY <1>1, AppendTuples
  <2>3. Leads(<<q, q>>, Unquoted, NotEscaped)
    BY <1>3, <2>1, LeadsClosing
  <2>4. Leads(<<q, q, q>>, q, NotEscaped)
    BY <2>1, <2>3, LeadsIn
  <2>5. Leads(<<q, q, q, c>>, q, NotEscaped)
    BY <1>2, <2>2, <2>4, LeadsWithin
  <2> QED
    BY <2>2, <2>5, LeadsClosing
<1> QED
  BY <1>5, <1>6, <1>7, <1>8, <1>9

LEMMA TokensLead == \A t \in SqlTokens : Leads(t, Unquoted, NotEscaped)
<1>1. /\ "'" \in QuoteMarks /\ "\"" \in QuoteMarks /\ "back" \in QuoteMarks
      /\ "'" # "\"" /\ "\"" # "back"
  BY DEF QuoteMarks
<1>2. ";" = Semi /\ "\\" = Escape
  BY DEF Escape, Semi
<1>3. Leads(<<"a">>, Unquoted, NotEscaped)
  <2>1. Leads(Append(<< >>, "a"), Unquoted, NotEscaped)
    BY LeadsNowhere, LeadsOut
  <2>2. Append(<< >>, "a") = <<"a">>
    BY CharsAre, AppendTuples
  <2> QED
    BY <2>1, <2>2
<1>4. /\ Leads(<<"'", ";", "'">>, Unquoted, NotEscaped)
      /\ Leads(<<"'", "\\", "'", ";", "'">>, Unquoted, NotEscaped)
      /\ Leads(<<"'", "'", "'", ";", "'">>, Unquoted, NotEscaped)
  BY <1>1, <1>2, StringsLead
<1>5. Leads(<<"\"", "'", ";", "\"">>, Unquoted, NotEscaped)
  BY <1>1, <1>2, StringsLead
<1>6. Leads(<<"back", ";", "\"", "back">>, Unquoted, NotEscaped)
  BY <1>1, <1>2, StringsLead
<1> QED
  BY <1>3, <1>4, <1>5, <1>6 DEF SqlTokens

LEMMA TokensEnds ==
  \A t \in SqlTokens : /\ t # << >> /\ t \in Seq(Chars)
                       /\ t[1] # Blank /\ t[Len(t)] # Blank
<1>1. ASSUME NEW t \in SqlTokens PROVE t # << >> /\ t[1] # Blank /\ t[Len(t)] # Blank
  <2>1. CASE t = <<"a">>
    BY <2>1 DEF Blank
  <2>2. CASE t = <<"'", ";", "'">>
    BY <2>2 DEF Blank
  <2>3. CASE t = <<"'", "\\", "'", ";", "'">>
    BY <2>3 DEF Blank
  <2>4. CASE t = <<"\"", "'", ";", "\"">>
    BY <2>4 DEF Blank
  <2>5. CASE t = <<"back", ";", "\"", "back">>
    BY <2>5 DEF Blank
  <2>6. CASE t = <<"'", "'", "'", ";", "'">>
    BY <2>6 DEF Blank
  <2> QED
    BY <2>1, <2>2, <2>3, <2>4, <2>5, <2>6 DEF SqlTokens
<1> QED
  BY <1>1, TokensLead DEF Leads

LEMMA ConcatEnds ==
  ASSUME NEW v \in Seq(Chars), NEW u \in Seq(Chars), v # << >>, u # << >>
  PROVE  /\ v \o u \in Seq(Chars) /\ v \o u # << >>
         /\ (v \o u)[1] = v[1] /\ (v \o u)[Len(v \o u)] = u[Len(u)]
<1>1. PICK n \in Nat \ {0} : n = Len(v)
  BY EmptySeq
<1>2. PICK m \in Nat \ {0} : m = Len(u)
  BY EmptySeq
<1>3. PICK p : p = v \o u
  OBVIOUS
<1>4. /\ p \in Seq(Chars) /\ Len(p) = n + m
      /\ \A i \in 1..(n + m) : p[i] = IF i <= n THEN v[i] ELSE u[i - n]
  BY <1>1, <1>2, <1>3, ConcatProperties
<1>5. /\ 1 \in 1..(n + m) /\ 1 <= n /\ n + m \in 1..(n + m)
      /\ ~(n + m <= n) /\ (n + m) - n = m
  OBVIOUS
<1>6. p[1] = v[1] /\ p[n + m] = u[(n + m) - n]
  BY <1>4, <1>5
<1>7. p # << >>
  BY <1>4, <1>5, EmptySeq
<1> QED
  BY <1>2, <1>3, <1>4, <1>5, <1>6, <1>7

LEMMA StatementsAreWhole == \A p \in Statements : Whole(p)
<1>1. ASSUME NEW t \in SqlTokens PROVE Whole(t)
  BY TokensLead, TokensEnds DEF Whole
<1>2. ASSUME NEW t \in SqlTokens, NEW u \in SqlTokens PROVE Whole(t \o <<Blank>> \o u)
  <2>1. PICK p : p = (t \o <<Blank>>) \o u
    OBVIOUS
  <2>2. <<Blank>> \in Seq(Chars) /\ t \in Seq(Chars) /\ u \in Seq(Chars)
    BY CharsAre, TokensEnds
  <2>3. Leads(<<Blank>>, Unquoted, NotEscaped)
    <3>1. Leads(Append(<< >>, Blank), Unquoted, NotEscaped)
      BY LeadsNowhere, LeadsOut
    <3>2. Append(<< >>, Blank) = <<Blank>>
      BY CharsAre, AppendTuples
    <3> QED
      BY <3>1, <3>2
  <2>4. Leads(p, Unquoted, NotEscaped)
    BY <2>1, <2>3, TokensLead, LeadsBoth
  <2>5. PICK v : v = t \o <<Blank>>
    OBVIOUS
  <2>6. v \in Seq(Chars) /\ v # << >> /\ v[1] = t[1]
    <3>1. <<Blank>> # << >> /\ t # << >>
      BY TokensEnds
    <3> QED
      BY <2>2, <2>5, <3>1, ConcatEnds
  <2>7. p = v \o u
    BY <2>1, <2>5, Zenon
  <2>8. p # << >> /\ p[1] = v[1] /\ p[Len(p)] = u[Len(u)]
    <3>1. u # << >>
      BY TokensEnds
    <3>2. /\ v \o u # << >> /\ (v \o u)[1] = v[1]
          /\ (v \o u)[Len(v \o u)] = u[Len(u)]
      BY <2>2, <2>6, <3>1, ConcatEnds
    <3> QED
      BY <2>7, <3>2, Zenon
  <2>9. p # << >> /\ p[1] # Blank /\ p[Len(p)] # Blank
    BY <2>6, <2>8, TokensEnds
  <2> QED
    BY <2>1, <2>4, <2>9 DEF Whole
<1> DEFINE Joined(t, u) == t \o <<Blank>> \o u
<1>3. Statements = SqlTokens \cup {Joined(t, u) : t, u \in SqlTokens}
  BY DEF Statements
<1>4. \A t, u \in SqlTokens : Whole(Joined(t, u))
  BY <1>2
<1> HIDE DEF Joined
<1> QED
  BY <1>1, <1>3, <1>4

LEMMA TrimNothing == trim(<< >>) = << >> /\ trim(<<Blank>>) = << >>
<1>1. {i \in DOMAIN << >> : << >>[i] # Blank} = {}
  OBVIOUS
<1>2. {i \in DOMAIN <<Blank>> : <<Blank>>[i] # Blank} = {}
  OBVIOUS
<1> QED
  BY <1>1, <1>2 DEF trim

LEMMA TrimWhole ==
  ASSUME NEW p, Whole(p), NEW lead \in {<< >>, <<Blank>>} PROVE trim(lead \o p) = p
<1>1. p \in Seq(Chars) /\ lead \in Seq(Chars)
  <2>1. <<Blank>> \in Seq(Chars) /\ << >> \in Seq(Chars)
    BY CharsAre, EmptySeq
  <2> QED
    BY <2>1 DEF Whole, Leads
<1>2. PICK n \in Nat \ {0} : n = Len(p)
  BY <1>1, EmptySeq DEF Whole
<1>3. PICK l \in {0, 1} : l = Len(lead) /\ \A i \in 1..l : lead[i] = Blank
  <2>1. Len(<< >>) = 0 /\ Len(<<Blank>>) = 1 /\ <<Blank>>[1] = Blank
    OBVIOUS
  <2>2. CASE lead = << >>
    BY <2>1, <2>2
  <2>3. CASE lead = <<Blank>>
    BY <2>1, <2>3
  <2> QED
    BY <2>2, <2>3
<1>4. PICK s : s = lead \o p
  OBVIOUS
<1>5. /\ s \in Seq(Chars) /\ Len(s) = l + n
      /\ \A i \in 1..(l + n) : s[i] = IF i <= l THEN lead[i] ELSE p[i - l]
  BY <1>1, <1>2, <1>3, <1>4, ConcatProperties
<1>6. DOMAIN s = 1..(l + n)
  BY <1>5, LenProperties
<1>7. PICK solid : solid = {i \in DOMAIN s : s[i] # Blank}
  OBVIOUS
<1>8. solid \in SUBSET (1..(l + n)) /\ solid \in SUBSET Nat
  BY <1>6, <1>7
<1>9. l + 1 \in solid /\ l + n \in solid /\ \A i \in solid : l + 1 <= i
  <2>1. s[l + 1] = p[1] /\ s[l + n] = p[n]
    <3>1. l + 1 \in 1..(l + n) /\ ~(l + 1 <= l) /\ (l + 1) - l = 1
      BY <1>3
    <3>2. l + n \in 1..(l + n) /\ ~(l + n <= l) /\ (l + n) - l = n
      BY <1>3
    <3>3. s[l + 1] = p[(l + 1) - l] /\ s[l + n] = p[(l + n) - l]
      BY <1>5, <3>1, <3>2
    <3> QED
      BY <3>1, <3>2, <3>3
  <2>2. p[1] # Blank /\ p[n] # Blank
    BY <1>2 DEF Whole
  <2>3. \A i \in 1..(l + n) : i <= l => s[i] = Blank
    BY <1>3, <1>5
  <2> QED
    BY <1>2, <1>6, <1>7, <2>1, <2>2, <2>3
<1>10. Min(solid) = l + 1
  <2>1. PICK x : x = Min(solid)
    OBVIOUS
  <2>2. x \in solid /\ \A m \in solid : x <= m
    BY <1>8, <1>9, <2>1, MinOf
  <2>3. x \in Nat /\ x <= l + 1 /\ l + 1 <= x
    BY <1>8, <1>9, <2>2
  <2> QED
    BY <2>1, <2>3
<1>11. Max(solid) = l + n
  <2>1. PICK x : x = Max(solid)
    OBVIOUS
  <2>2. l + n \in Nat
    OBVIOUS
  <2>3. x \in solid /\ \A m \in solid : m <= x
    BY <1>8, <1>9, <2>1, <2>2, MaxOf
  <2>4. x \in 1..(l + n) /\ l + n <= x
    BY <1>8, <1>9, <2>3
  <2> QED
    BY <2>1, <2>4
<1>12. trim(s) = SubSeq(s, l + 1, l + n)
  BY <1>7, <1>9, <1>10, <1>11 DEF trim
<1>13. SubSeq(s, l + 1, l + n) = p
  <2>1. SubSeq(s, l + 1, l + n) = SubSeq(p, 1, n)
    <3>1. /\ l + 1 \in (Len(lead) + 1)..(Len(lead) + Len(p))
          /\ l + n \in (Len(lead) + 1)..(Len(lead) + Len(p))
          /\ (l + 1) - Len(lead) = 1 /\ (l + n) - Len(lead) = n
      BY <1>2, <1>3
    <3>2. SubSeq(lead \o p, l + 1, l + n) =
            SubSeq(p, (l + 1) - Len(lead), (l + n) - Len(lead))
      BY <1>1, <3>1, SubSeqOfConcat2
    <3> QED
      BY <1>4, <3>1, <3>2
  <2> QED
    BY <1>1, <1>2, <2>1, SubSeqFull
<1> QED
  BY <1>4, <1>12, <1>13

(* One statement, behind what is left of the line before: it goes to out.  *)
LEMMA CutOut ==
  ASSUME NEW p, Whole(p), NEW lead \in {<< >>, <<Blank>>}, NEW out
  PROVE  Runs(ScanAt(out, lead, Unquoted, NotEscaped), p \o <<Semi, Blank>>,
              ScanAt(Append(out, p), <<Blank>>, Unquoted, NotEscaped))
<1>1. /\ p \in Seq(Chars) /\ lead \in Seq(Chars) /\ lead \o p \in Seq(Chars)
      /\ Semi \in Chars /\ Blank \in Chars
  <2>1. <<Blank>> \in Seq(Chars) /\ << >> \in Seq(Chars)
    BY CharsAre, EmptySeq
  <2>2. p \in Seq(Chars)
    BY DEF Whole, Leads
  <2> QED
    BY <2>1, <2>2, CharsAre, ConcatProperties
<1>2. Runs(ScanAt(out, lead, Unquoted, NotEscaped), p, ScanAt(out, lead \o p, Unquoted, NotEscaped))
  BY <1>1 DEF Whole, Leads
<1>3. Scanned(ScanAt(out, lead \o p, Unquoted, NotEscaped), Semi) =
        ScanAt(Append(out, p), << >>, Unquoted, NotEscaped)
  <2>1. PICK cur : cur = lead \o p
    OBVIOUS
  <2>2. trim(cur) = p /\ p # << >>
    BY <2>1, TrimWhole DEF Whole
  <2>3. Flushed(ScanAt(out, cur, Unquoted, NotEscaped)) = Append(out, p)
    BY <2>2 DEF Flushed, ScanAt
  <2>4. Scanned(ScanAt(out, cur, Unquoted, NotEscaped), Semi) =
          [ScanAt(out, cur, Unquoted, NotEscaped) EXCEPT
             !.out = Flushed(ScanAt(out, cur, Unquoted, NotEscaped)), !.cur = << >>]
    BY CharsAre, EscapedOrNot DEF Scanned, ScanAt
  <2> HIDE DEF ScanAt
  <2>5. Scanned(ScanAt(out, cur, Unquoted, NotEscaped), Semi) =
          [ScanAt(out, cur, Unquoted, NotEscaped) EXCEPT !.out = Append(out, p), !.cur = << >>]
    BY <2>3, <2>4
  <2> QED
    BY <2>1, <2>5 DEF ScanAt
<1>4. Scanned(ScanAt(Append(out, p), << >>, Unquoted, NotEscaped), Blank) =
        ScanAt(Append(out, p), <<Blank>>, Unquoted, NotEscaped)
  <2>1. Append(<< >>, Blank) = <<Blank>>
    BY <1>1, AppendTuples
  <2>2. \A o, cur : Scanned(ScanAt(o, cur, Unquoted, NotEscaped), Blank) =
                    ScanAt(o, Append(cur, Blank), Unquoted, NotEscaped)
    BY CharsAre, EscapedOrNot DEF Scanned, ScanAt
  <2> QED
    BY <2>1, <2>2
<1>5. Runs(ScanAt(out, lead, Unquoted, NotEscaped), Append(Append(p, Semi), Blank),
           ScanAt(Append(out, p), <<Blank>>, Unquoted, NotEscaped))
  <2>1. Runs(ScanAt(out, lead, Unquoted, NotEscaped), Append(p, Semi),
             ScanAt(Append(out, p), << >>, Unquoted, NotEscaped))
    BY <1>1, <1>2, <1>3, RunsOn
  <2>2. Append(p, Semi) \in Seq(Chars)
    BY <1>1, AppendProperties
  <2> QED
    BY <1>1, <1>4, <2>1, <2>2, RunsOn
<1>6. Append(Append(p, Semi), Blank) = p \o <<Semi, Blank>>
  <2>1. Append(Append(p, Semi), Blank) = (p \o <<Semi>>) \o <<Blank>>
    BY <1>1, AppendProperties, AppendIsConcat
  <2>2. <<Semi>> \in Seq(Chars) /\ <<Blank>> \in Seq(Chars)
    BY <1>1
  <2>3. (p \o <<Semi>>) \o <<Blank>> = p \o (<<Semi>> \o <<Blank>>)
    BY <1>1, <2>2, ConcatAssociative
  <2>4. <<Semi>> \o <<Blank>> = <<Semi, Blank>>
    <3>1. PICK s : s = <<Semi>>
      OBVIOUS
    <3>2. Append(s, Blank) = s \o <<Blank>>
      BY <1>1, <2>2, <3>1, AppendIsConcat
    <3>3. Append(<<Semi>>, Blank) = <<Semi, Blank>>
      BY <1>1, AppendTuples
    <3> QED
      BY <3>1, <3>2, <3>3, Zenon
  <2> QED
    BY <2>1, <2>3, <2>4, Zenon
<1> QED
  BY <1>5, <1>6

Lines(parts) == [i \in DOMAIN parts |-> parts[i] \o <<Semi, Blank>>]

(* Two sequences joined, by the positions of each.                         *)
Joined(C, u, s, k, t, l) ==
  /\ u \in Seq(C) /\ Len(u) = k + l
  /\ \A i \in 1..k : u[i] = s[i]
  /\ \A i \in 1..l : u[k + i] = t[i]

LEMMA Joins ==
  ASSUME NEW C, NEW s \in Seq(C), NEW t \in Seq(C), NEW k \in Nat, NEW l \in Nat,
         k = Len(s), l = Len(t), NEW u, u = s \o t
  PROVE  Joined(C, u, s, k, t, l)
<1>1. /\ u \in Seq(C) /\ Len(u) = k + l
      /\ \A i \in 1..(k + l) : u[i] = IF i <= k THEN s[i] ELSE t[i - k]
  BY ConcatProperties
<1>2. ASSUME NEW i \in 1..l PROVE u[k + i] = t[i]
  <2>1. k + i \in 1..(k + l) /\ ~(k + i <= k) /\ (k + i) - k = i
    OBVIOUS
  <2> QED
    BY <1>1, <2>1
<1>3. ASSUME NEW i \in 1..k PROVE u[i] = s[i]
  BY <1>1
<1> QED
  BY <1>1, <1>2, <1>3 DEF Joined

(* Joining sequences, one after the other.                                 *)
Grows(C, lines, n, f) ==
  /\ f[0] = << >> /\ f[n] = FlattenSeq(lines)
  /\ \A k \in 0..n : f[k] \in Seq(C)
  /\ \A k \in 1..n : f[k] = f[k - 1] \o lines[k]

LEMMA FlattenGrows ==
  ASSUME NEW C, NEW lines \in Seq(Seq(C)), NEW n \in Nat, n = Len(lines)
  PROVE  \E f : Grows(C, lines, n, f)
<1>1. \A k \in 1..n : lines[k] \in Seq(C)
  BY ElementOfSeq
<1>2. PICK f : /\ f = [i \in 1..n |-> IF i = 1 THEN lines[i] ELSE f[i - 1] \o lines[i]]
               /\ FlattenSeq(lines) = IF n = 0 THEN lines ELSE f[n]
  <2>1. \E f : f = [i \in 1..n |-> IF i = 1 THEN lines[i] ELSE f[i - 1] \o lines[i]]
    <3>1. PICK f : IsAlong("lines", lines, n, f)
      BY AlongExists
    <3> QED
      BY <3>1 DEF IsAlong, First, Along
  <2> QED
    BY <2>1, Zenon DEF FlattenSeq
<1>3. PICK g : g = [i \in 0..n |-> IF i = 0 THEN << >> ELSE f[i]]
  OBVIOUS
<1>4. g[0] = << >> /\ \A k \in 1..n : g[k] = f[k]
  BY <1>3
<1>5. g[n] = FlattenSeq(lines)
  <2>1. CASE n = 0
    <3>1. lines = << >>
      BY <2>1, EmptySeq
    <3> QED
      BY <1>2, <1>4, <2>1, <3>1
  <2>2. CASE n # 0
    <3>1. n \in 1..n
      BY <2>2
    <3> QED
      BY <1>2, <1>4, <2>2, <3>1
  <2> QED
    BY <2>1, <2>2
<1>6. ASSUME NEW k \in 1..n PROVE g[k] = g[k - 1] \o lines[k]
  <2>1. CASE k = 1
    <3>1. g[1] = lines[1]
      <4>1. 1 \in 1..n
        BY <2>1
      <4>2. f[1] = lines[1]
        BY <1>2, <4>1
      <4> QED
        BY <1>4, <4>1, <4>2
    <3>2. << >> \o lines[1] = lines[1]
      BY <1>1, <2>1, ConcatEmptySeq
    <3>3. g[k - 1] = << >>
      BY <1>4, <2>1
    <3> QED
      BY <2>1, <3>1, <3>2, <3>3, Zenon
  <2>2. CASE k # 1
    <3>1. k - 1 \in 1..n
      BY <2>2
    <3>2. f[k] = f[k - 1] \o lines[k]
      BY <1>2, <2>2
    <3> QED
      BY <1>4, <3>1, <3>2
  <2> QED
    BY <2>1, <2>2
<1>7. \A k \in 0..n : g[k] \in Seq(C)
  <2> DEFINE S == {k \in 0..n : g[k] \in Seq(C)}
  <2>1. ASSUME NEW k \in 0..n, k = 0 \/ k - 1 \in S PROVE k \in S
    <3>1. CASE k = 0
      BY <1>4, <3>1, EmptySeq
    <3>2. CASE k # 0
      <4>1. k \in 1..n /\ g[k - 1] \in Seq(C) /\ lines[k] \in Seq(C)
        BY <1>1, <2>1, <3>2
      <4>2. g[k - 1] \o lines[k] \in Seq(C)
        BY <4>1, ConcatProperties
      <4> QED
        BY <1>6, <4>1, <4>2
    <3> QED
      BY <3>1, <3>2
  <2> HIDE DEF S
  <2>2. 0..n \subseteq S
    BY <2>1, Upward
  <2> QED
    BY <2>2 DEF S
<1> QED
  BY <1>4, <1>5, <1>6, <1>7 DEF Grows

LEMMA ScriptGrows ==
  ASSUME NEW parts \in Seq(Seq(Chars))
  PROVE  \E f : /\ f[0] = << >> /\ f[Len(parts)] = Script(parts)
                /\ \A k \in 1..Len(parts) : f[k] = f[k - 1] \o (parts[k] \o <<Semi, Blank>>)
<1>1. PICK n \in Nat : /\ n = Len(parts) /\ DOMAIN parts = 1..n
                      /\ \A k \in 1..n : parts[k] \in Seq(Chars)
  BY LenProperties, ElementOfSeq
<1>2. PICK lines : lines = Lines(parts)
  OBVIOUS
<1>3. \A k \in 1..n : lines[k] = parts[k] \o <<Semi, Blank>> /\ lines[k] \in Seq(Chars)
  <2>1. <<Semi, Blank>> \in Seq(Chars)
    BY CharsAre
  <2>2. \A k \in 1..n : lines[k] = parts[k] \o <<Semi, Blank>>
    BY <1>1, <1>2 DEF Lines
  <2> QED
    BY <1>1, <2>1, <2>2, ConcatProperties
<1>4. lines \in Seq(Seq(Chars)) /\ Len(lines) = n
  <2>1. lines \in [1..n -> Seq(Chars)]
    BY <1>1, <1>2, <1>3 DEF Lines
  <2> QED
    BY <2>1, IsASeq
<1>5. PICK f : Grows(Chars, lines, n, f)
  BY <1>4, FlattenGrows
<1>6. Script(parts) = FlattenSeq(lines)
  BY <1>2 DEF Script, Lines
<1> QED
  BY <1>1, <1>3, <1>5, <1>6 DEF Grows

(* A migration of any number of statements, which hold any strings that    *)
(* are closed, is cut between them and nowhere else (util.cpp:130-173).    *)
THEOREM SplitCuts ==
  ASSUME NEW parts \in Seq(Seq(Chars)), \A k \in 1..Len(parts) : Whole(parts[k])
  PROVE  split_sql(Script(parts)) = parts
<1>1. PICK n \in Nat : n = Len(parts) /\ \A k \in 1..n : parts[k] \in Seq(Chars) /\ Whole(parts[k])
  BY LenProperties, ElementOfSeq
<1>2. PICK f : /\ f[0] = << >> /\ f[n] = Script(parts)
               /\ \A k \in 1..n : f[k] = f[k - 1] \o (parts[k] \o <<Semi, Blank>>)
  BY <1>1, ScriptGrows
<1> DEFINE Cut(k, lead) ==
             Runs(NoText, f[k], ScanAt(SubSeq(parts, 1, k), lead, Unquoted, NotEscaped))
           S == {k \in 0..n : f[k] \in Seq(Chars) /\ \E lead \in {<< >>, <<Blank>>} : Cut(k, lead)}
<1>3. 0 \in S
  <2>1. NoText = ScanAt(<< >>, << >>, Unquoted, NotEscaped)
    BY DEF NoText, ScanAt, NotEscaped
  <2>2. SubSeq(parts, 1, 0) = << >>
    BY SubSeqEmpty
  <2>3. f[0] \in Seq(Chars)
    BY <1>2, EmptySeq
  <2>4. Cut(0, << >>)
    BY <1>2, <2>1, <2>2, RunsNothing
  <2> HIDE DEF Cut
  <2> QED
    BY <2>3, <2>4
<1>4. ASSUME NEW k \in 1..n, k - 1 \in S PROVE k \in S
  <2>1. PICK lead \in {<< >>, <<Blank>>} : Cut(k - 1, lead)
    BY <1>4
  <2>2. PICK line : line = parts[k] \o <<Semi, Blank>>
    OBVIOUS
  <2>3. line \in Seq(Chars) /\ f[k - 1] \in Seq(Chars)
    <3>1. <<Semi, Blank>> \in Seq(Chars)
      BY CharsAre
    <3> QED
      BY <1>1, <1>4, <2>2, <3>1, ConcatProperties
  <2>4. PICK out : out = SubSeq(parts, 1, k - 1)
    OBVIOUS
  <2>5. Runs(ScanAt(out, lead, Unquoted, NotEscaped), line,
             ScanAt(Append(out, parts[k]), <<Blank>>, Unquoted, NotEscaped))
    BY <1>1, <2>2, CutOut
  <2>6. Append(out, parts[k]) = SubSeq(parts, 1, k)
    <3>1. out \in Seq(Seq(Chars))
      <4>1. 1 \in Int /\ k - 1 \in Int /\ \A i \in 1..(k - 1) : parts[i] \in Seq(Chars)
        BY <1>1
      <4> QED
        BY <2>4, <4>1, SubSeqProperties
    <3>2. Append(out, parts[k]) = out \o <<parts[k]>>
      BY <1>1, <3>1, AppendIsConcat
    <3>3. SubSeq(parts, 1, k) = SubSeq(parts, 1, k - 1) \o <<parts[k]>>
      <4>1. 1 \in 1..Len(parts) /\ k \in 1..Len(parts)
        BY <1>1
      <4> QED
        BY <4>1, SubSeqRecursiveSecond
    <3> QED
      BY <2>4, <3>2, <3>3
  <2>7. Runs(NoText, f[k - 1] \o line, ScanAt(SubSeq(parts, 1, k), <<Blank>>, Unquoted, NotEscaped))
    BY <2>1, <2>3, <2>4, <2>5, <2>6, RunsConcat
  <2>8. f[k] = f[k - 1] \o line /\ f[k] \in Seq(Chars)
    BY <1>2, <2>2, <2>3, ConcatProperties
  <2>9. Cut(k, <<Blank>>)
    BY <2>7, <2>8
  <2> HIDE DEF Cut
  <2>10. \E left \in {<< >>, <<Blank>>} : Cut(k, left)
    BY <2>9, Zenon
  <2>11. k \in 0..n /\ f[k] \in Seq(Chars)
    BY <2>8
  <2> QED
    BY <2>10, <2>11, Zenon
<1>5. n \in S
  <2>1. \A k \in 0..n : k = 0 \/ k - 1 \in S => k \in S
    <3> HIDE DEF S
    <3> QED
      BY <1>3, <1>4
  <2>2. n \in 0..n
    OBVIOUS
  <2> HIDE DEF S
  <2> QED
    BY <2>1, <2>2, Upward
<1>6. PICK lead \in {<< >>, <<Blank>>} : Cut(n, lead)
  BY <1>5
<1>7. SubSeq(parts, 1, n) = parts
  BY <1>1, SubSeqFull
<1>8. split_sql(Script(parts)) = Flushed(ScanAt(parts, lead, Unquoted, NotEscaped))
  <2>1. f[n] \in Seq(Chars)
    BY <1>5
  <2> QED
    BY <1>2, <1>6, <1>7, <2>1, SplitRuns
<1>9. trim(lead) = << >>
  BY TrimNothing
<1> QED
  BY <1>8, <1>9 DEF Flushed, ScanAt

-----------------------------------------------------------------------------
(* json_get (api.cpp:126-141).  In a body laid out field by field a name   *)
(* with its quotes and its colon stands only where its own field starts,   *)
(* because no string holds a quote.                                        *)
NameMarks == {"k", "v", "w"}

LEMMA MarksDiffer ==
  /\ Quote # Comma /\ Quote # Opening /\ Quote # Closing /\ Quote # Blank /\ Quote # ":"
  /\ ":" # Comma /\ ":" # Closing
  /\ \A c \in NameMarks : c # Quote /\ c # Comma /\ c # Closing /\ c # ":"
  /\ \A c \in {"1", "2"} : c # Quote /\ c # Comma /\ c # Closing /\ c # Blank
<1>1. /\ Quote # Comma /\ Quote # Opening /\ Quote # Closing /\ Quote # Blank /\ Quote # ":"
      /\ ":" # Comma /\ ":" # Closing
  BY Zenon DEF Quote, Comma, Opening, Closing, Blank
<1>2. \A c \in NameMarks : c # Quote /\ c # Comma /\ c # Closing /\ c # ":"
  BY Zenon DEF NameMarks, Quote, Comma, Closing
<1>3. \A c \in {"1", "2"} : c # Quote /\ c # Comma /\ c # Closing /\ c # Blank
  BY Zenon DEF Quote, Comma, Closing, Blank
<1> QED
  BY <1>1, <1>2, <1>3, Zenon

Pattern(key) == <<Quote, key, Quote, ":">>

Found(body, key, p) ==
  body[p] = Quote /\ body[p + 1] = key /\ body[p + 2] = Quote /\ body[p + 3] = ":"

LEMMA PatternIs ==
  ASSUME NEW C, NEW s \in Seq(C), NEW key, Len(s) = 4
  PROVE  s = Pattern(key) <=> s[1] = Quote /\ s[2] = key /\ s[3] = Quote /\ s[4] = ":"
<1> DEFINE All == C \cup {Quote, key, ":"}
<1>1. s \in Seq(All)
  BY SeqMonotonic
<1>2. PICK q : q = Pattern(key)
  OBVIOUS
<1>3. q \in Seq(All) /\ Len(q) = 4 /\ q[1] = Quote /\ q[2] = key /\ q[3] = Quote /\ q[4] = ":"
  BY <1>2 DEF Pattern
<1> HIDE DEF All
<1>4. ASSUME s[1] = Quote, s[2] = key, s[3] = Quote, s[4] = ":" PROVE s = q
  <2>1. \A i \in 1..4 : i = 1 \/ i = 2 \/ i = 3 \/ i = 4
    OBVIOUS
  <2>2. Len(s) = Len(q) /\ \A i \in 1..Len(s) : s[i] = q[i]
    BY <1>3, <1>4, <2>1
  <2> QED
    BY <1>1, <1>3, <2>2, SeqEqual
<1> QED
  BY <1>2, <1>3, <1>4

LEMMA MatchIs ==
  ASSUME NEW C, NEW body \in Seq(C), NEW key, NEW n \in Nat, n = Len(body)
  PROVE  Matches(body, Pattern(key)) = {p \in 1..(n - 3) : Found(body, key, p)}
<1>1. Len(Pattern(key)) = 4
  BY DEF Pattern
<1>2. Matches(body, Pattern(key)) = {p \in 1..(n - 3) : SubSeq(body, p, p + 3) = Pattern(key)}
  BY <1>1 DEF Matches
<1>3. ASSUME NEW p \in 1..(n - 3)
      PROVE  SubSeq(body, p, p + 3) = Pattern(key) <=> Found(body, key, p)
  <2>1. \A i \in p..(p + 3) : body[i] \in C
    BY ElementOfSeq
  <2>2. PICK s : s = SubSeq(body, p, p + 3)
    OBVIOUS
  <2>3. p \in Int /\ p + 3 \in Int /\ p <= p + 3 /\ (p + 3) - p + 1 = 4
    OBVIOUS
  <2>4. s \in Seq(C) /\ Len(s) = 4 /\ \A i \in 1..4 : s[i] = body[p + i - 1]
    BY <2>1, <2>2, <2>3, SubSeqProperties
  <2>5. s[1] = body[p] /\ s[2] = body[p + 1] /\ s[3] = body[p + 2] /\ s[4] = body[p + 3]
    BY <2>4
  <2>6. s = Pattern(key) <=> s[1] = Quote /\ s[2] = key /\ s[3] = Quote /\ s[4] = ":"
    BY <2>4, PatternIs
  <2> QED
    BY <2>2, <2>5, <2>6 DEF Found
<1> QED
  BY <1>2, <1>3

LEMMA NumbersAre ==
  ASSUME NEW v \in Numbers
  PROVE  /\ v \in Seq({"1", "2"}) /\ Len(v) \in {1, 2} /\ v[1] = "1"
         /\ \A j \in 1..Len(v) : v[j] \in {"1", "2"}
<1>1. CASE v = <<"1">>
  BY <1>1
<1>2. CASE v = <<"1", "2">>
  BY <1>2
<1> QED
  BY <1>1, <1>2 DEF Numbers

(* A field in a body, from the quote before its name to the mark behind it: *)
(* with a bare value or with a quoted one, of m characters.                 *)
NameAt(body, n, o, key, e) ==
  /\ o \in 1..n /\ e \in 1..n /\ body[e] \in {Comma, Closing}
  /\ body[o] = Quote /\ body[o + 1] = key /\ body[o + 2] = Quote
  /\ body[o + 3] = ":" /\ body[o + 4] = Blank

BareAt(body, n, o, key, v, m, e) ==
  /\ NameAt(body, n, o, key, e)
  /\ m # 0 /\ e = o + 5 + m /\ \A j \in 1..m : body[o + 4 + j] = v[j]

QuotedAt(body, n, o, key, v, m, e) ==
  /\ NameAt(body, n, o, key, e)
  /\ e = o + 7 + m /\ body[o + 5] = Quote /\ body[o + 6 + m] = Quote
  /\ \A j \in 1..m : body[o + 5 + j] = v[j]

LEMMA NameMatches ==
  ASSUME NEW n \in Nat, NEW o \in Nat, NEW e, NEW p \in Nat,
         NEW body, NEW name \in NameMarks, NEW key \in NameMarks,
         NameAt(body, n, o, name, e), Found(body, key, p)
  PROVE  /\ p # o + 1 /\ p # o + 2 /\ p # o + 3 /\ p # o + 4 /\ (p = o => key = name)
         /\ key # Quote /\ body[e] # Quote /\ body[e] # key /\ body[e] # ":"
<1>1. name # Quote /\ key # ":" /\ ":" # Quote /\ Blank # Quote /\ key # Quote
  BY MarksDiffer
<1>2. /\ body[o] = Quote /\ body[o + 1] = name /\ body[o + 2] = Quote
      /\ body[o + 3] = ":" /\ body[o + 4] = Blank
  BY DEF NameAt
<1>3. body[p] = Quote /\ body[p + 1] = key
  BY DEF Found
<1>4. p # o + 2
  <2> SUFFICES ASSUME p = o + 2 PROVE FALSE
    OBVIOUS
  <2>1. p + 1 = o + 3
    OBVIOUS
  <2> QED
    BY <1>1, <1>2, <1>3, <2>1
<1>5. body[e] # Quote /\ body[e] # key /\ body[e] # ":"
  BY MarksDiffer DEF NameAt
<1> QED
  BY <1>1, <1>2, <1>3, <1>4, <1>5

LEMMA BareMatches ==
  ASSUME NEW n \in Nat, NEW m \in Nat, NEW o \in Nat, NEW e \in Nat, NEW p \in o..e,
         NEW body, NEW v, NEW name \in NameMarks, NEW key \in NameMarks,
         BareAt(body, n, o, name, v, m, e), Found(body, key, p), \A j \in 1..m : v[j] # Quote
  PROVE  p = o /\ key = name
<1>1. body[p] = Quote /\ body[e] # Quote
  BY NameMatches DEF BareAt, Found
<1>2. p # o + 1 /\ p # o + 2 /\ p # o + 3 /\ p # o + 4 /\ (p = o => key = name)
  BY NameMatches DEF BareAt
<1>3. ~(p >= o + 5 /\ p <= o + 4 + m)
  <2> SUFFICES ASSUME p >= o + 5, p <= o + 4 + m PROVE FALSE
    OBVIOUS
  <2>1. p - (o + 4) \in 1..m /\ o + 4 + (p - (o + 4)) = p
    OBVIOUS
  <2> QED
    BY <1>1, <2>1 DEF BareAt
<1>4. e = o + 5 + m
  BY DEF BareAt
<1>5. p = o
  BY <1>1, <1>2, <1>3, <1>4
<1> QED
  BY <1>2, <1>5

LEMMA QuotedMatches ==
  ASSUME NEW n \in Nat, NEW m \in Nat, NEW o \in Nat, NEW e \in Nat, NEW p \in o..e,
         NEW body, NEW v, NEW name \in NameMarks, NEW key \in NameMarks,
         QuotedAt(body, n, o, name, v, m, e), Found(body, key, p), \A j \in 1..m : v[j] # Quote
  PROVE  p = o /\ key = name
<1>0. NameAt(body, n, o, name, e) /\ body[p] = Quote
  BY DEF QuotedAt, Found
<1>1. body[e] # Quote /\ body[e] # key /\ body[e] # ":" /\ key # Quote
  BY <1>0, NameMatches
<1>2. p # o + 1 /\ p # o + 2 /\ p # o + 3 /\ p # o + 4 /\ (p = o => key = name)
  BY NameMatches DEF QuotedAt
<1>3. ASSUME NEW q \in (o + 6)..(o + 5 + m) PROVE body[q] # Quote
  <2>1. q - (o + 5) \in 1..m /\ o + 5 + (q - (o + 5)) = q
    OBVIOUS
  <2> QED
    BY <2>1 DEF QuotedAt
<1>4. e = o + 7 + m /\ body[o + 5] = Quote /\ body[o + 6 + m] = Quote
  BY DEF QuotedAt
<1>5. p # o + 6 + m
  BY <1>1, <1>4 DEF Found
<1>6. p # o + 5
  <2> SUFFICES ASSUME p = o + 5 PROVE FALSE
    OBVIOUS
  <2>1. body[o + 6] = key /\ body[o + 7] = Quote /\ body[o + 8] = ":"
    BY DEF Found
  <2>2. m # 0
    BY <1>1, <1>4, <2>1
  <2>3. m # 1
    BY <1>1, <1>4, <2>1
  <2>4. ~(m >= 2)
    BY <1>3, <2>1
  <2> QED
    BY <2>2, <2>3, <2>4
<1>7. p = o
  BY <1>0, <1>1, <1>2, <1>3, <1>4, <1>5, <1>6
<1> QED
  BY <1>2, <1>7

UpToMark(body, lead, marks) == UpTo(body, lead + 1, marks, FALSE)
UpToEnd(body, lead, marks)  == UpTo(body, lead + 1, marks, TRUE)

(* Behind a position stands a value of m characters, and then a mark.      *)
Stands(body, n, lead, v, m, marks) ==
  /\ n = Len(body) /\ m = Len(v) /\ lead + m + 1 \in 1..n /\ body[lead + m + 1] \in marks
  /\ \A j \in 1..m : body[lead + j] = v[j]
  /\ \A j \in 1..m : v[j] \notin marks

(* The value is what stands before the first of the marks.                 *)
LEMMA CutAt ==
  ASSUME NEW C, NEW body \in Seq(C), NEW n \in Nat, NEW v \in Seq(C), NEW m \in Nat,
         NEW lead \in Nat, NEW marks, Stands(body, n, lead, v, m, marks)
  PROVE  UpToMark(body, lead, marks) = v /\ UpToEnd(body, lead, marks) = v
<1> DEFINE from == lead + 1
           to   == lead + m + 1
           ends == {i \in from..n : body[i] \in marks}
<1>0. /\ n = Len(body) /\ m = Len(v) /\ to \in 1..n /\ body[to] \in marks
      /\ \A j \in 1..m : body[lead + j] = v[j]
      /\ \A j \in 1..m : v[j] \notin marks
  BY DEF Stands
<1>1. to \in ends
  BY <1>0
<1>2. \A i \in ends : to <= i
  <2> SUFFICES ASSUME NEW i \in from..n, body[i] \in marks, i < to PROVE FALSE
    BY <1>0
  <2>1. i - lead \in 1..m /\ lead + (i - lead) = i
    OBVIOUS
  <2> QED
    BY <1>0, <2>1
<1>3. PICK s : s = SubSeq(body, from, lead + m)
  OBVIOUS
<1>4. \A i \in from..(lead + m) : body[i] \in C
  BY <1>0, ElementOfSeq
<1>5. s \in Seq(C) /\ Len(s) = m /\ \A j \in 1..m : s[j] = body[lead + j]
  <2>1. from \in Int /\ lead + m \in Int
        /\ (IF from <= lead + m THEN (lead + m) - from + 1 ELSE 0) = m
    OBVIOUS
  <2>2. s \in Seq(C) /\ Len(s) = m /\ \A j \in 1..m : s[j] = body[from + j - 1]
    BY <1>3, <1>4, <2>1, SubSeqProperties
  <2> QED
    BY <2>2
<1>6. s = v
  <2>1. Len(s) = Len(v) /\ \A j \in 1..Len(s) : s[j] = v[j]
    BY <1>0, <1>5
  <2> QED
    BY <1>5, <2>1, SeqEqual
<1>7. ASSUME NEW S \in SUBSET Nat, to \in S, \A i \in S : to <= i
      PROVE  (IF S = {} THEN << >> ELSE SubSeq(body, from, Min(S) - 1)) = v
  <2>1. Min(S) = to
    BY <1>7, MinIs
  <2>2. to - 1 = lead + m
    OBVIOUS
  <2> QED
    BY <1>3, <1>6, <1>7, <2>1, <2>2
<1>8. UpTo(body, from, marks, FALSE) = v
  <2>1. UpTo(body, from, marks, FALSE) =
          IF ends = {} THEN << >> ELSE SubSeq(body, from, Min(ends) - 1)
    <3>1. ends \cup {} = ends
      OBVIOUS
    <3> QED
      BY <1>0, <3>1 DEF UpTo
  <2>2. ends \in SUBSET Nat
    OBVIOUS
  <2> QED
    BY <1>1, <1>2, <1>7, <2>1, <2>2
<1>9. UpTo(body, from, marks, TRUE) = v
  <2> DEFINE orEnd == ends \cup {n + 1}
  <2>1. UpTo(body, from, marks, TRUE) =
          IF orEnd = {} THEN << >> ELSE SubSeq(body, from, Min(orEnd) - 1)
    BY <1>0 DEF UpTo
  <2>2. orEnd \in SUBSET Nat /\ to \in orEnd /\ \A i \in orEnd : to <= i
    BY <1>1, <1>2
  <2> QED
    BY <1>7, <2>1, <2>2
<1> QED
  BY <1>8, <1>9 DEF UpToMark, UpToEnd

(* The first field of that name is read back.                              *)
LEMMA FirstRead ==
  ASSUME NEW C, NEW body \in Seq(C), NEW n \in Nat, n = Len(body), NEW key,
         NEW o \in Nat, o \in Matches(body, Pattern(key)),
         \A p \in Matches(body, Pattern(key)) : p = o,
         body[o + 4] = Blank, o + 5 \in 1..n, body[o + 5] # Blank
  PROVE  json_get(body, key) =
           IF body[o + 5] = Quote THEN UpTo(body, (o + 5) + 1, QuotedEnds, FALSE)
           ELSE UpTo(body, o + 5, BareEnds, TRUE)
<1> DEFINE at    == Matches(body, Pattern(key))
           solid == {i \in (o + 4)..n : body[i] # Blank}
<1>1. at = {o}
  OBVIOUS
<1>2. Min(at) = o
  BY <1>1, MinOf
<1>3. Len(Pattern(key)) = 4
  BY DEF Pattern
<1>4. o + 5 \in solid /\ solid \in SUBSET Nat /\ \A i \in solid : o + 5 <= i
  OBVIOUS
<1>5. json_get(body, key) =
        IF at = {} THEN << >> ELSE IF solid = {} THEN << >>
        ELSE IF body[Min(solid)] = Quote THEN UpTo(body, Min(solid) + 1, QuotedEnds, FALSE)
        ELSE UpTo(body, Min(solid), BareEnds, TRUE)
  BY <1>2, <1>3 DEF json_get, Pattern
<1> HIDE DEF solid
<1>6. Min(solid) = o + 5
  <2>1. PICK x \in solid : x = o + 5
    BY <1>4
  <2>2. \A y \in solid : x <= y
    BY <1>4, <2>1
  <2> QED
    BY <1>4, <2>1, <2>2, MinIs
<1> QED
  BY <1>1, <1>4, <1>5, <1>6

LEMMA BareRead ==
  ASSUME NEW C, NEW body \in Seq(C), NEW n \in Nat, n = Len(body), NEW key,
         NEW o \in Nat, o \in Matches(body, Pattern(key)),
         \A p \in Matches(body, Pattern(key)) : p = o,
         NEW v \in Seq(C), NEW m \in Nat, m = Len(v), NEW e \in Nat,
         BareAt(body, n, o, key, v, m, e), \A j \in 1..m : v[j] \notin BareEnds \cup {Quote}
  PROVE  json_get(body, key) = v
<1>1. /\ o \in 1..n /\ e \in 1..n /\ body[e] \in BareEnds /\ body[o + 4] = Blank
      /\ m # 0 /\ e = o + 5 + m /\ \A j \in 1..m : body[o + 4 + j] = v[j]
  BY DEF BareAt, NameAt, BareEnds
<1>2. o + 5 \in 1..n /\ body[o + 5] = v[1] /\ 1 \in 1..m
  <2>1. 1 \in 1..m /\ o + 4 + 1 = o + 5
    BY <1>1
  <2> QED
    BY <1>1, <2>1
<1>3. body[o + 5] # Blank /\ body[o + 5] # Quote
  BY <1>2 DEF BareEnds
<1>4. UpTo(body, o + 5, BareEnds, TRUE) = v
  <2>1. PICK lead \in Nat : lead = o + 4
    OBVIOUS
  <2>2. lead + m + 1 = e /\ lead + 1 = o + 5
    BY <1>1, <2>1
  <2>3. (\A j \in 1..m : body[lead + j] = v[j]) /\ (\A j \in 1..m : v[j] \notin BareEnds)
    BY <1>1, <2>1
  <2>4. Stands(body, n, lead, v, m, BareEnds)
    BY <1>1, <2>2, <2>3 DEF Stands
  <2>5. UpToEnd(body, lead, BareEnds) = v
    BY <2>4, CutAt
  <2> QED
    BY <2>2, <2>5 DEF UpToEnd
<1>5. body[o + 4] = Blank /\ o + 5 \in 1..n /\ body[o + 5] # Blank
  BY <1>1, <1>2, <1>3
<1>6. json_get(body, key) =
        IF body[o + 5] = Quote THEN UpTo(body, (o + 5) + 1, QuotedEnds, FALSE)
        ELSE UpTo(body, o + 5, BareEnds, TRUE)
  BY <1>5, FirstRead
<1> QED
  BY <1>3, <1>4, <1>6

LEMMA QuotedRead ==
  ASSUME NEW C, NEW body \in Seq(C), NEW n \in Nat, n = Len(body), NEW key,
         NEW o \in Nat, o \in Matches(body, Pattern(key)),
         \A p \in Matches(body, Pattern(key)) : p = o,
         NEW v \in Seq(C), NEW m \in Nat, m = Len(v), NEW e \in Nat,
         QuotedAt(body, n, o, key, v, m, e), \A j \in 1..m : v[j] # Quote
  PROVE  json_get(body, key) = v
<1>1. /\ o \in 1..n /\ e \in 1..n /\ body[o + 4] = Blank /\ e = o + 7 + m
      /\ body[o + 5] = Quote /\ body[o + 6 + m] = Quote
      /\ \A j \in 1..m : body[o + 5 + j] = v[j]
  BY DEF QuotedAt, NameAt
<1>2. o + 5 \in 1..n /\ o + 6 \in 1..n /\ (o + 6) + m \in 1..n
  BY <1>1
<1>3. Quote # Blank
  BY MarksDiffer
<1>4. UpTo(body, (o + 5) + 1, QuotedEnds, FALSE) = v
  <2>1. PICK lead \in Nat : lead = o + 5
    OBVIOUS
  <2>2. lead + m + 1 = o + 6 + m /\ lead + 1 = (o + 5) + 1 /\ o + 6 + m \in 1..n
    BY <1>2, <2>1
  <2>3. (\A j \in 1..m : body[lead + j] = v[j]) /\ (\A j \in 1..m : v[j] \notin QuotedEnds)
    BY <1>1, <2>1 DEF QuotedEnds
  <2>4. Stands(body, n, lead, v, m, QuotedEnds)
    BY <1>1, <2>2, <2>3 DEF Stands, QuotedEnds
  <2>5. UpToMark(body, lead, QuotedEnds) = v
    BY <2>4, CutAt
  <2> QED
    BY <2>2, <2>5 DEF UpToMark
<1>5. json_get(body, key) =
        IF body[o + 5] = Quote THEN UpTo(body, (o + 5) + 1, QuotedEnds, FALSE)
        ELSE UpTo(body, o + 5, BareEnds, TRUE)
  BY <1>1, <1>2, <1>3, FirstRead
<1> QED
  BY <1>1, <1>4, <1>5

(* What a body is made of, if the strings are.                             *)
BodyChars(Text) == Text \cup {Quote, Comma, ":", Blank, Opening, Closing, "k", "v", "w", "1", "2"}

(* The encoding w of a value v, of l and m characters.                     *)
EncodedHas(C, v, m, w, l) ==
  /\ v \in Seq(C) /\ w \in Seq(C) /\ m = Len(v) /\ l = Len(w)
  /\ v \in Numbers => w = v /\ l = m /\ m # 0
  /\ v \notin Numbers => /\ l = m + 2 /\ w[1] = Quote /\ w[m + 2] = Quote
                         /\ \A j \in 1..m : w[1 + j] = v[j]

LEMMA EncodedIs ==
  ASSUME NEW Text, NEW v \in Numbers \cup Seq(Text)
  PROVE  \E m \in Nat, l \in Nat : EncodedHas(BodyChars(Text), v, m, Encoded(v), l)
<1> DEFINE C == BodyChars(Text)
<1>1. v \in Seq(C) /\ (v \in Numbers => Len(v) # 0)
  <2>1. CASE v \in Numbers
    <3>1. {"1", "2"} \subseteq C
      BY DEF BodyChars
    <3>2. v \in Seq({"1", "2"}) /\ Len(v) # 0
      BY <2>1, NumbersAre
    <3> HIDE DEF C
    <3> QED
      BY <3>1, <3>2, SeqMonotonic
  <2>2. CASE v \notin Numbers
    <3>1. Text \subseteq C
      BY DEF BodyChars
    <3> HIDE DEF C
    <3> QED
      BY <2>2, <3>1, SeqMonotonic
  <2> QED
    BY <2>1, <2>2
<1>2. Quote \in C
  BY DEF BodyChars
<1> HIDE DEF C
<1>3. PICK m \in Nat : m = Len(v)
  BY <1>1, LenProperties
<1>4. CASE v \in Numbers
  <2>1. Encoded(v) = v
    BY <1>4 DEF Encoded
  <2> QED
    BY <1>1, <1>3, <1>4, <2>1 DEF EncodedHas, C
<1>5. CASE v \notin Numbers
  <2>1. PICK q : q = <<Quote>>
    OBVIOUS
  <2>2. q \in Seq(C) /\ Len(q) = 1 /\ q[1] = Quote
    BY <1>2, <2>1
  <2>3. PICK one \in Nat : one = 1
    OBVIOUS
  <2>4. PICK s : s = q \o v
    OBVIOUS
  <2>5. Joined(C, s, q, one, v, m)
    BY <1>1, <1>3, <2>2, <2>3, <2>4, Joins
  <2>6. PICK k \in Nat : k = m + 1
    OBVIOUS
  <2>7. s \in Seq(C) /\ k = Len(s)
    BY <2>3, <2>5, <2>6 DEF Joined
  <2>8. PICK t : t = s \o q
    OBVIOUS
  <2>9. Joined(C, t, s, k, q, one)
    BY <2>2, <2>3, <2>7, <2>8, Joins
  <2>10. PICK l \in Nat : l = m + 2
    OBVIOUS
  <2>11. t \in Seq(C) /\ Len(t) = l
    BY <2>3, <2>6, <2>9, <2>10 DEF Joined
  <2>12. t[1] = Quote
    <3>1. 1 \in 1..k /\ 1 \in 1..one
      BY <2>3, <2>6
    <3>2. t[1] = s[1]
      BY <2>9, <3>1 DEF Joined
    <3>3. s[1] = q[1]
      BY <2>5, <3>1 DEF Joined
    <3> QED
      BY <2>2, <3>2, <3>3
  <2>13. t[m + 2] = Quote
    <3>1. 1 \in 1..one /\ k + 1 = m + 2
      BY <2>3, <2>6
    <3>2. t[k + 1] = q[1]
      BY <2>9, <3>1 DEF Joined
    <3> QED
      BY <2>2, <3>1, <3>2
  <2>14. ASSUME NEW j \in 1..m PROVE t[1 + j] = v[j]
    <3>1. 1 + j \in 1..k /\ 1 + j = one + j
      BY <2>3, <2>6
    <3>2. t[1 + j] = s[1 + j]
      BY <2>9, <3>1 DEF Joined
    <3>3. s[one + j] = v[j]
      BY <2>5 DEF Joined
    <3> QED
      BY <3>1, <3>2, <3>3
  <2>15. Encoded(v) = t
    BY <1>5, <2>1, <2>4, <2>8 DEF Encoded
  <2>16. EncodedHas(C, v, m, t, l)
    BY <1>1, <1>3, <1>5, <2>10, <2>11, <2>12, <2>13, <2>14 DEF EncodedHas
  <2> QED
    BY <2>15, <2>16 DEF C
<1> QED
  BY <1>4, <1>5

(* One field: a comma before all but the first, the name, the value.       *)
Lead(i) == IF i = 1 THEN 0 ELSE 1

FieldHas(C, s, key, c, w, l) ==
  /\ s \in Seq(C) /\ Len(s) = c + 5 + l /\ (c = 1 => s[1] = Comma)
  /\ s[c + 1] = Quote /\ s[c + 2] = key /\ s[c + 3] = Quote /\ s[c + 4] = ":" /\ s[c + 5] = Blank
  /\ \A j \in 1..l : s[c + 5 + j] = w[j]

LEMMA FieldIs ==
  ASSUME NEW Text, NEW i \in 1..3, NEW v, NEW w \in Seq(BodyChars(Text)), w = Encoded(v),
         NEW l \in Nat, l = Len(w)
  PROVE  FieldHas(BodyChars(Text), Field(i, v), Keys[i], Lead(i), w, l)
<1> DEFINE C == BodyChars(Text)
<1>1. Keys[i] \in C /\ {Quote, Comma, ":", Blank} \subseteq C
  <2>1. Keys[1] = "k" /\ Keys[2] = "v" /\ Keys[3] = "w" /\ (i = 1 \/ i = 2 \/ i = 3)
    BY DEF Keys
  <2> QED
    BY <2>1 DEF BodyChars
<1>2. w \in Seq(C)
  OBVIOUS
<1> HIDE DEF C
<1>3. PICK c \in {0, 1} : c = Lead(i)
  BY DEF Lead
<1>4. PICK lead : lead = IF i = 1 THEN << >> ELSE <<Comma>>
  OBVIOUS
<1>5. lead \in Seq(C) /\ c = Len(lead) /\ (c = 1 => lead[1] = Comma)
  <2>1. CASE i = 1
    BY <1>3, <1>4, <2>1, EmptySeq DEF Lead
  <2>2. CASE i # 1
    BY <1>1, <1>3, <1>4, <2>2 DEF Lead
  <2> QED
    BY <2>1, <2>2
<1>6. PICK name : name = <<Quote, Keys[i], Quote, ":", Blank>>
  OBVIOUS
<1>7. PICK five \in Nat : five = 5
  OBVIOUS
<1>8. /\ name \in Seq(C) /\ five = Len(name)
      /\ name[1] = Quote /\ name[2] = Keys[i] /\ name[3] = Quote
      /\ name[4] = ":" /\ name[5] = Blank
  BY <1>1, <1>6, <1>7
<1>9. PICK h : h = lead \o name
  OBVIOUS
<1>10. c \in Nat
  BY <1>3
<1>11. Joined(C, h, lead, c, name, five)
  BY <1>5, <1>8, <1>9, <1>10, Joins
<1>12. PICK d \in Nat : d = c + 5
  BY <1>10
<1>13. h \in Seq(C) /\ d = Len(h)
  BY <1>7, <1>11, <1>12 DEF Joined
<1>14. PICK s : s = h \o w
  OBVIOUS
<1>15. Joined(C, s, h, d, w, l)
  BY <1>2, <1>13, <1>14, Joins
<1>16. s = Field(i, v)
  BY <1>4, <1>6, <1>9, <1>14 DEF Field
<1>17. ASSUME NEW j \in 1..5 PROVE s[c + j] = name[j]
  <2>1. c + j \in 1..d /\ j \in 1..five
    BY <1>7, <1>10, <1>12
  <2>2. s[c + j] = h[c + j]
    BY <1>15, <2>1 DEF Joined
  <2>3. h[c + j] = name[j]
    BY <1>11, <2>1 DEF Joined
  <2> QED
    BY <2>2, <2>3
<1>18. c = 1 => s[1] = Comma
  <2> SUFFICES ASSUME c = 1 PROVE s[1] = Comma
    OBVIOUS
  <2>1. 1 \in 1..d /\ 1 \in 1..c
    BY <1>12
  <2>2. s[1] = h[1]
    BY <1>15, <2>1 DEF Joined
  <2>3. h[1] = lead[1]
    BY <1>11, <2>1 DEF Joined
  <2> QED
    BY <1>5, <2>2, <2>3
<1>19. /\ s[c + 1] = Quote /\ s[c + 2] = Keys[i] /\ s[c + 3] = Quote
       /\ s[c + 4] = ":" /\ s[c + 5] = Blank
  <2>1. 1 \in 1..5 /\ 2 \in 1..5 /\ 3 \in 1..5 /\ 4 \in 1..5 /\ 5 \in 1..5
    OBVIOUS
  <2>2. /\ s[c + 1] = name[1] /\ s[c + 2] = name[2] /\ s[c + 3] = name[3]
        /\ s[c + 4] = name[4] /\ s[c + 5] = name[5]
    BY <1>17, <2>1
  <2> QED
    BY <1>8, <2>2
<1>20. \A j \in 1..l : s[c + 5 + j] = w[j]
  BY <1>12, <1>15 DEF Joined
<1>21. s \in Seq(C) /\ Len(s) = c + 5 + l
  BY <1>12, <1>15 DEF Joined
<1>22. FieldHas(C, s, Keys[i], c, w, l)
  BY <1>18, <1>19, <1>20, <1>21 DEF FieldHas
<1> QED
  BY <1>3, <1>16, <1>22 DEF C

(* A body laid out: field k goes from the quote before its name to the     *)
(* mark behind its value, e[k], where the next one starts.                 *)
StartOf(e, k) == IF k = 1 THEN 2 ELSE e[k - 1] + 1

FieldAt(body, N, o, key, v, m, end) ==
  IF v \in Numbers THEN BareAt(body, N, o, key, v, m, end)
                   ELSE QuotedAt(body, N, o, key, v, m, end)

Laid(body, N, parts, n, e) ==
  /\ body[1] = Opening /\ body[N] = Closing
  /\ N \in Nat \ {0, 1} /\ (n = 0 => N = 2) /\ (n # 0 => e[n] = N)
  /\ \A k \in 1..n : /\ e[k] \in Nat /\ StartOf(e, k) \in Nat
                     /\ FieldAt(body, N, StartOf(e, k), Keys[k], parts[k], Len(parts[k]), e[k])

Copies(body, p, s, t) == \A j \in 1..t : body[p + j] = s[j]

LEMMA CopyAt ==
  ASSUME NEW body, NEW p \in Nat, NEW s, NEW t \in Nat, Copies(body, p, s, t),
         NEW j \in 1..t, NEW q, q = p + j
  PROVE  body[q] = s[j]
BY DEF Copies

LEMMA LineIs ==
  ASSUME NEW Text, NEW k \in 1..3, NEW v \in Numbers \cup Seq(Text)
  PROVE  /\ Field(k, v) \in Seq(BodyChars(Text)) /\ Len(Field(k, v)) \in Nat \ {0}
         /\ k # 1 => Field(k, v)[1] = Comma
<1>1. PICK w : w = Encoded(v)
  OBVIOUS
<1>2. PICK l \in Nat : w \in Seq(BodyChars(Text)) /\ l = Len(w)
  BY <1>1, EncodedIs DEF EncodedHas
<1>3. FieldHas(BodyChars(Text), Field(k, v), Keys[k], Lead(k), w, l)
  BY <1>1, <1>2, FieldIs
<1>4. Lead(k) \in Nat /\ (k # 1 => Lead(k) = 1)
  BY DEF Lead
<1> QED
  BY <1>3, <1>4 DEF FieldHas

LEMMA FieldStands ==
  ASSUME NEW Text, NEW k \in 1..3, NEW v \in Numbers \cup Seq(Text),
         NEW t \in Nat, t = Len(Field(k, v)), NEW b \in Nat, NEW a \in Nat, a = 1 + b,
         NEW body, Copies(body, a, Field(k, v), t),
         NEW N \in Nat, NEW end \in 1..N, end = a + t + 1, body[end] \in {Comma, Closing}
  PROVE  FieldAt(body, N, a + Lead(k) + 1, Keys[k], v, Len(v), end)
<1>1. PICK w : w = Encoded(v)
  OBVIOUS
<1>2. PICK m \in Nat, l \in Nat : EncodedHas(BodyChars(Text), v, m, w, l)
  BY <1>1, EncodedIs
<1>3. w \in Seq(BodyChars(Text)) /\ l = Len(w) /\ m = Len(v)
  BY <1>2 DEF EncodedHas
<1>4. PICK c \in Nat : c = Lead(k)
  BY DEF Lead
<1>5. PICK s : s = Field(k, v)
  OBVIOUS
<1>6. FieldHas(BodyChars(Text), s, Keys[k], c, w, l)
  BY <1>1, <1>3, <1>4, <1>5, FieldIs
<1>7. t = c + 5 + l /\ Copies(body, a, s, t)
  BY <1>5, <1>6 DEF FieldHas
<1>8. PICK o \in Nat : o = a + c + 1
  OBVIOUS
<1>9. end = o + 5 + l /\ o \in 1..N
  BY <1>7, <1>8
<1>10. ASSUME NEW j \in 1..(5 + l), NEW q, q = o + (j - 1) PROVE body[q] = s[c + j]
  <2>1. c + j \in 1..t /\ q = a + (c + j)
    BY <1>7, <1>8, <1>10
  <2> QED
    BY <1>7, <2>1, CopyAt
<1>11. /\ body[o] = Quote /\ body[o + 1] = Keys[k] /\ body[o + 2] = Quote
       /\ body[o + 3] = ":" /\ body[o + 4] = Blank
  <2>1. 1 \in 1..(5 + l) /\ 2 \in 1..(5 + l) /\ 3 \in 1..(5 + l) /\ 4 \in 1..(5 + l) /\ 5 \in 1..(5 + l)
    OBVIOUS
  <2>2. o = o + (1 - 1) /\ o + 1 = o + (2 - 1) /\ o + 2 = o + (3 - 1) /\ o + 3 = o + (4 - 1)
        /\ o + 4 = o + (5 - 1)
    OBVIOUS
  <2>3. body[o] = s[c + 1]
    BY <1>10, <2>1, <2>2
  <2>4. body[o + 1] = s[c + 2]
    BY <1>10, <2>1, <2>2
  <2>5. body[o + 2] = s[c + 3]
    BY <1>10, <2>1, <2>2
  <2>6. body[o + 3] = s[c + 4]
    BY <1>10, <2>1, <2>2
  <2>7. body[o + 4] = s[c + 5]
    BY <1>10, <2>1, <2>2
  <2> QED
    BY <1>6, <2>3, <2>4, <2>5, <2>6, <2>7 DEF FieldHas
<1>12. ASSUME NEW j \in 1..l, NEW q, q = o + 4 + j PROVE body[q] = w[j]
  <2>1. 5 + j \in 1..(5 + l) /\ q = o + ((5 + j) - 1) /\ c + (5 + j) = c + 5 + j
    BY <1>12
  <2>2. body[q] = s[c + (5 + j)]
    BY <1>10, <2>1
  <2>3. s[c + 5 + j] = w[j]
    BY <1>6 DEF FieldHas
  <2> QED
    BY <2>1, <2>2, <2>3
<1>13. NameAt(body, N, o, Keys[k], end)
  BY <1>9, <1>11 DEF NameAt
<1>14. CASE v \in Numbers
  <2>1. w = v /\ l = m /\ m # 0
    BY <1>2, <1>14 DEF EncodedHas
  <2>2. \A j \in 1..m : body[o + 4 + j] = v[j]
    BY <1>12, <2>1
  <2>3. BareAt(body, N, o, Keys[k], v, m, end)
    BY <1>9, <1>13, <2>1, <2>2 DEF BareAt
  <2> QED
    BY <1>3, <1>4, <1>8, <1>14, <2>3 DEF FieldAt
<1>15. CASE v \notin Numbers
  <2>1. l = m + 2 /\ w[1] = Quote /\ w[m + 2] = Quote /\ \A j \in 1..m : w[1 + j] = v[j]
    BY <1>2, <1>15 DEF EncodedHas
  <2>2. body[o + 5] = Quote
    <3>1. 1 \in 1..l /\ o + 5 = o + 4 + 1
      BY <2>1
    <3> QED
      BY <1>12, <2>1, <3>1
  <2>3. body[o + 6 + m] = Quote
    <3>1. m + 2 \in 1..l /\ o + 6 + m = o + 4 + (m + 2)
      BY <2>1
    <3> QED
      BY <1>12, <2>1, <3>1
  <2>4. ASSUME NEW j \in 1..m PROVE body[o + 5 + j] = v[j]
    <3>1. 1 + j \in 1..l /\ o + 5 + j = o + 4 + (1 + j)
      BY <2>1
    <3>2. body[o + 5 + j] = w[1 + j]
      BY <1>12, <3>1
    <3> QED
      BY <2>1, <3>2
  <2>5. end = o + 7 + m
    BY <1>9, <2>1
  <2>6. QuotedAt(body, N, o, Keys[k], v, m, end)
    BY <1>13, <2>2, <2>3, <2>4, <2>5 DEF QuotedAt
  <2> QED
    BY <1>3, <1>4, <1>8, <1>15, <2>6 DEF FieldAt
<1> QED
  BY <1>14, <1>15

BodyHas(C, body, x, l) ==
  /\ body \in Seq(C) /\ Len(body) = l + 2 /\ body[1] = Opening /\ body[l + 2] = Closing
  /\ Copies(body, 1, x, l)

LEMMA BodyIs ==
  ASSUME NEW C, NEW x \in Seq(C), NEW l \in Nat, l = Len(x), Opening \in C, Closing \in C,
         NEW body, body = <<Opening>> \o x \o <<Closing>>
  PROVE  BodyHas(C, body, x, l)
<1>1. PICK p : p = <<Opening>>
  OBVIOUS
<1>2. PICK q : q = <<Closing>>
  OBVIOUS
<1>3. PICK one \in Nat : one = 1
  OBVIOUS
<1>4. p \in Seq(C) /\ one = Len(p) /\ p[1] = Opening /\ q \in Seq(C) /\ one = Len(q) /\ q[1] = Closing
  BY <1>1, <1>2, <1>3
<1>5. PICK h : h = p \o x
  OBVIOUS
<1>6. Joined(C, h, p, one, x, l)
  BY <1>4, <1>5, Joins
<1>7. PICK d \in Nat : d = 1 + l
  OBVIOUS
<1>8. h \in Seq(C) /\ d = Len(h)
  BY <1>3, <1>6, <1>7 DEF Joined
<1>9. body = h \o q
  BY <1>1, <1>2, <1>5
<1>10. Joined(C, body, h, d, q, one)
  BY <1>4, <1>8, <1>9, Joins
<1>11. body[1] = Opening
  <2>1. 1 \in 1..one /\ 1 \in 1..d
    BY <1>3, <1>7
  <2>2. body[1] = h[1]
    BY <1>10, <2>1 DEF Joined
  <2>3. h[1] = p[1]
    BY <1>6, <2>1 DEF Joined
  <2> QED
    BY <1>4, <2>2, <2>3
<1>12. body[l + 2] = Closing
  <2>1. 1 \in 1..one /\ d + 1 = l + 2
    BY <1>3, <1>7
  <2>2. body[d + 1] = q[1]
    BY <1>10, <2>1 DEF Joined
  <2> QED
    BY <1>4, <2>1, <2>2
<1>13. ASSUME NEW j \in 1..l PROVE body[1 + j] = x[j]
  <2>1. 1 + j \in 1..d /\ 1 + j = one + j
    BY <1>3, <1>7
  <2>2. body[1 + j] = h[1 + j]
    BY <1>10, <2>1 DEF Joined
  <2>3. h[one + j] = x[j]
    BY <1>6 DEF Joined
  <2> QED
    BY <2>1, <2>2, <2>3
<1>14. body \in Seq(C) /\ Len(body) = l + 2
  BY <1>3, <1>7, <1>10 DEF Joined
<1> QED
  BY <1>11, <1>12, <1>13, <1>14 DEF BodyHas, Copies

LEMMA LaidOut ==
  ASSUME NEW Text, NEW n \in 0..3, NEW parts \in Seq(Numbers \cup Seq(Text)), n = Len(parts)
  PROVE  \E e, N : /\ Body(parts) \in Seq(BodyChars(Text)) /\ N = Len(Body(parts))
                   /\ Laid(Body(parts), N, parts, n, e)
<1> DEFINE C == BodyChars(Text)
<1>1. Opening \in C /\ Closing \in C
  BY DEF BodyChars
<1>2. DOMAIN parts = 1..n /\ \A k \in 1..n : k \in 1..3 /\ parts[k] \in Numbers \cup Seq(Text)
  BY ElementOfSeq
<1>3. PICK lines : lines = [k \in 1..n |-> Field(k, parts[k])]
  OBVIOUS
<1>4. ASSUME NEW k \in 1..n
      PROVE  /\ lines[k] = Field(k, parts[k]) /\ lines[k] \in Seq(C)
             /\ Len(lines[k]) \in Nat \ {0} /\ (k # 1 => lines[k][1] = Comma)
  BY <1>2, <1>3, LineIs
<1> HIDE DEF C
<1>5. lines \in Seq(Seq(C)) /\ Len(lines) = n /\ n \in Nat
  <2>1. lines \in [1..n -> Seq(C)]
    BY <1>3, <1>4
  <2>2. n \in Nat
    OBVIOUS
  <2> QED
    BY <2>1, <2>2, IsASeq
<1>6. PICK f : /\ f[0] = << >> /\ f[n] = FlattenSeq(lines)
               /\ \A k \in 0..n : f[k] \in Seq(C)
               /\ \A k \in 1..n : f[k] = f[k - 1] \o lines[k]
  <2>1. PICK f : Grows(C, lines, n, f)
    BY <1>5, FlattenGrows
  <2> QED
    BY <2>1 DEF Grows
<1>7. PICK a : a = [k \in 0..n |-> Len(f[k])]
  OBVIOUS
<1>8. a[0] = 0 /\ \A k \in 0..n : a[k] \in Nat /\ a[k] = Len(f[k])
  <2>1. \A k \in 0..n : a[k] \in Nat /\ a[k] = Len(f[k])
    BY <1>6, <1>7, LenProperties
  <2>2. 0 \in 0..n /\ Len(<< >>) = 0
    BY <1>5, EmptySeq
  <2> QED
    BY <1>6, <2>1, <2>2
<1>9. PICK top \in Nat : top = a[n]
  BY <1>5, <1>8
<1>10. PICK body : body = Body(parts)
  OBVIOUS
<1>11. BodyHas(C, body, f[n], top)
  <2>1. PICK x \in Seq(C) : x = f[n]
    BY <1>5, <1>6
  <2>2. top = Len(x)
    BY <1>5, <1>8, <1>9, <2>1
  <2>3. body = <<Opening>> \o x \o <<Closing>>
    BY <1>2, <1>3, <1>6, <1>10, <2>1 DEF Body
  <2>4. BodyHas(C, body, x, top)
    BY <1>1, <2>2, <2>3, BodyIs DEF C
  <2> QED
    BY <2>1, <2>4
<1>12. PICK N \in Nat : N = top + 2
  OBVIOUS
<1>13. ASSUME NEW k \in 1..n
       PROVE  \E t \in Nat \ {0}, b \in Nat :
                /\ t = Len(lines[k]) /\ b = a[k - 1] /\ a[k] = b + t
                /\ Joined(C, f[k], f[k - 1], b, lines[k], t)
  <2>1. k - 1 \in 0..n /\ k \in 0..n
    OBVIOUS
  <2>2. PICK s \in Seq(C) : s = f[k - 1]
    BY <1>6, <2>1
  <2>3. PICK x \in Seq(C) : x = lines[k]
    BY <1>4
  <2>4. PICK b \in Nat : b = a[k - 1] /\ b = Len(s)
    BY <1>8, <2>1, <2>2
  <2>5. PICK t \in Nat \ {0} : t = Len(x)
    BY <1>4, <2>3
  <2>6. PICK u : u = s \o x
    OBVIOUS
  <2>7. Joined(C, u, s, b, x, t)
    BY <2>4, <2>5, <2>6, Joins
  <2>8. f[k] = u
    BY <1>6, <2>2, <2>3, <2>6
  <2>9. a[k] = b + t
    <3>1. a[k] = Len(u)
      BY <1>8, <2>1, <2>8
    <3> QED
      BY <2>7, <3>1 DEF Joined
  <2> QED
    BY <2>2, <2>3, <2>4, <2>5, <2>7, <2>8, <2>9
<1> DEFINE S == {k \in 1..n : a[k] <= top /\ Copies(body, 1, f[k], a[k])}
<1>14. ASSUME NEW k \in 1..n, \A i \in (k + 1)..n : i \in S PROVE k \in S
  <2>1. CASE k = n
    <3>1. a[k] <= top /\ Copies(body, 1, f[k], a[k])
      BY <1>9, <1>11, <2>1 DEF BodyHas
    <3> QED
      BY <3>1
  <2>2. CASE k # n
    <3>1. PICK i \in 1..n : i = k + 1 /\ i \in S /\ i - 1 = k
      <4>1. k + 1 \in (k + 1)..n /\ k + 1 \in 1..n /\ (k + 1) - 1 = k
        BY <2>2
      <4> HIDE DEF S
      <4> QED
        BY <1>14, <4>1
    <3>2. PICK t \in Nat \ {0}, b \in Nat : /\ b = a[k] /\ a[i] = b + t
                                           /\ Joined(C, f[i], f[k], b, lines[i], t)
      BY <1>13, <3>1
    <3>3. PICK d \in Nat : d = a[i] /\ d = b + t /\ d <= top /\ Copies(body, 1, f[i], d)
      BY <3>1, <3>2
    <3>4. b <= top
      BY <3>3
    <3>5. ASSUME NEW j \in 1..b PROVE body[1 + j] = f[k][j]
      <4>1. j \in 1..d
        BY <3>3
      <4>2. body[1 + j] = f[i][j]
        BY <3>3, <4>1 DEF Copies
      <4>3. f[i][j] = f[k][j]
        BY <3>2 DEF Joined
      <4> QED
        BY <4>2, <4>3
    <3>6. Copies(body, 1, f[k], b)
      BY <3>5 DEF Copies
    <3> QED
      BY <3>2, <3>4, <3>6
  <2> QED
    BY <2>1, <2>2
<1>15. ASSUME NEW k \in 1..n PROVE a[k] <= top /\ Copies(body, 1, f[k], a[k])
  <2>1. 1..n \subseteq S
    <3> HIDE DEF S
    <3> QED
      BY <1>5, <1>14, Downward
  <2> QED
    BY <2>1
<1> HIDE DEF S
<1>16. ASSUME NEW k \in 1..n
       PROVE  \E t \in Nat \ {0}, b \in Nat, p \in Nat :
                /\ t = Len(lines[k]) /\ b = a[k - 1] /\ a[k] = b + t /\ b + t <= top
                /\ p = 1 + b /\ Copies(body, p, lines[k], t)
  <2>1. PICK t \in Nat \ {0}, b \in Nat :
                /\ t = Len(lines[k]) /\ b = a[k - 1] /\ a[k] = b + t
                /\ Joined(C, f[k], f[k - 1], b, lines[k], t)
    BY <1>13
  <2>2. PICK d \in Nat : d = b + t /\ d <= top /\ Copies(body, 1, f[k], d)
    BY <1>15, <2>1
  <2>3. PICK p \in Nat : p = 1 + b
    OBVIOUS
  <2>4. ASSUME NEW j \in 1..t PROVE body[p + j] = lines[k][j]
    <3>1. b + j \in 1..d /\ p + j = 1 + (b + j)
      BY <2>2, <2>3
    <3>2. body[1 + (b + j)] = f[k][b + j]
      BY <2>2, <3>1 DEF Copies
    <3>3. f[k][b + j] = lines[k][j]
      BY <2>1 DEF Joined
    <3> QED
      BY <3>1, <3>2, <3>3
  <2>5. Copies(body, p, lines[k], t)
    BY <2>4 DEF Copies
  <2> QED
    BY <2>1, <2>2, <2>3, <2>5
<1>17. PICK e : e = [k \in 1..n |-> a[k] + 2]
  OBVIOUS
<1>18. ASSUME NEW k \in 1..n PROVE e[k] \in 1..N /\ body[e[k]] \in {Comma, Closing}
  <2>1. PICK d \in Nat : d = a[k] /\ d <= top /\ e[k] = d + 2
    BY <1>8, <1>15, <1>17
  <2>2. e[k] \in 1..N
    BY <1>12, <2>1
  <2>3. CASE k = n
    <3>1. e[k] = top + 2
      BY <1>9, <2>1, <2>3
    <3> QED
      BY <1>11, <2>2, <3>1 DEF BodyHas
  <2>4. CASE k # n
    <3>1. PICK i \in 1..n : i - 1 = k /\ i # 1
      <4>1. k + 1 \in 1..n /\ (k + 1) - 1 = k /\ k + 1 # 1
        BY <2>4
      <4> QED
        BY <4>1
    <3>2. PICK t \in Nat \ {0}, p \in Nat : p = 1 + d /\ Copies(body, p, lines[i], t)
      BY <1>16, <2>1, <3>1
    <3>3. 1 \in 1..t /\ d + 2 = p + 1
      BY <3>2
    <3>4. body[d + 2] = lines[i][1]
      BY <3>2, <3>3, CopyAt
    <3> QED
      BY <1>4, <2>1, <2>2, <3>1, <3>4
  <2> QED
    BY <2>3, <2>4
<1>19. ASSUME NEW k \in 1..n
       PROVE  /\ e[k] \in Nat /\ StartOf(e, k) \in Nat
              /\ FieldAt(body, N, StartOf(e, k), Keys[k], parts[k], Len(parts[k]), e[k])
  <2>1. PICK t \in Nat, b \in Nat, p \in Nat :
                /\ t = Len(lines[k]) /\ b = a[k - 1] /\ a[k] = b + t
                /\ p = 1 + b /\ Copies(body, p, lines[k], t)
    BY <1>16
  <2>2. PICK end \in 1..N : end = e[k] /\ end = p + t + 1 /\ body[end] \in {Comma, Closing}
    <3>1. e[k] = a[k] + 2
      BY <1>17
    <3>2. e[k] = (b + t) + 2
      BY <2>1, <3>1
    <3>3. p = 1 + b
      BY <2>1
    <3>4. (b + t) + 2 = p + t + 1
      BY <3>3
    <3> QED
      BY <1>18, <3>2, <3>4
  <2>3. StartOf(e, k) = p + Lead(k) + 1 /\ Lead(k) \in {0, 1}
    <3>1. CASE k = 1
      <4>1. b = 0
        BY <1>8, <2>1, <3>1
      <4> QED
        BY <2>1, <3>1, <4>1 DEF StartOf, Lead
    <3>2. CASE k # 1
      <4>1. k - 1 \in 1..n
        BY <3>2
      <4>2. e[k - 1] = b + 2
        BY <1>17, <2>1, <4>1
      <4> QED
        BY <2>1, <3>2, <4>2 DEF StartOf, Lead
    <3> QED
      BY <3>1, <3>2
  <2>4. PICK v \in Numbers \cup Seq(Text) : v = parts[k] /\ lines[k] = Field(k, v) /\ k \in 1..3
    BY <1>2, <1>4
  <2>5. t = Len(Field(k, v)) /\ Copies(body, p, Field(k, v), t)
    BY <2>1, <2>4
  <2>6. FieldAt(body, N, p + Lead(k) + 1, Keys[k], v, Len(v), end)
    BY <2>1, <2>2, <2>4, <2>5, FieldStands
  <2> QED
    BY <2>2, <2>3, <2>4, <2>6
<1>20. Laid(body, N, parts, n, e)
  <2>1. N \in Nat \ {0, 1}
    BY <1>12
  <2>2. n = 0 => N = 2
    BY <1>8, <1>9, <1>12
  <2>3. n # 0 => e[n] = N
    <3> SUFFICES ASSUME n # 0 PROVE e[n] = N
      OBVIOUS
    <3>1. n \in 1..n
      OBVIOUS
    <3> QED
      BY <1>9, <1>12, <1>17, <3>1
  <2>4. body[1] = Opening /\ body[N] = Closing
    BY <1>11, <1>12 DEF BodyHas
  <2> QED
    BY <1>19, <2>1, <2>2, <2>3, <2>4 DEF Laid
<1>21. body \in Seq(C) /\ N = Len(body)
  BY <1>11, <1>12 DEF BodyHas
<1> QED
  BY <1>10, <1>20, <1>21 DEF C

LEMMA KeysDiffer ==
  /\ \A i \in 1..3 : Keys[i] \in NameMarks
  /\ \A i, j \in 1..3 : Keys[i] = Keys[j] => i = j
<1>1. Keys[1] = "k" /\ Keys[2] = "v" /\ Keys[3] = "w"
  BY DEF Keys
<1>2. \A i \in 1..3 : i = 1 \/ i = 2 \/ i = 3
  OBVIOUS
<1> QED
  BY <1>1, <1>2 DEF NameMarks

LEMMA NoMarks ==
  ASSUME NEW Text, Quote \notin Text, NEW v \in Numbers \cup Seq(Text), NEW m \in Nat, m = Len(v)
  PROVE  /\ \A j \in 1..m : v[j] # Quote
         /\ v \in Numbers => \A j \in 1..m : v[j] \notin BareEnds \cup {Quote}
<1>1. CASE v \in Numbers
  <2>1. \A j \in 1..m : v[j] \in {"1", "2"}
    BY <1>1, NumbersAre
  <2> QED
    BY <2>1, MarksDiffer DEF BareEnds
<1>2. CASE v \notin Numbers
  BY <1>2, ElementOfSeq
<1> QED
  BY <1>1, <1>2

(* A name with its colon stands only where its own field starts.           *)
Begins(e, n, p, key) == \E k \in 1..n : p = StartOf(e, k) /\ key = Keys[k]

LEMMA OwnField ==
  ASSUME NEW Text, Quote \notin Text,
         NEW n \in 0..3, NEW parts \in Seq(Numbers \cup Seq(Text)), n = Len(parts),
         NEW body, NEW N, NEW e, Laid(body, N, parts, n, e),
         NEW key \in NameMarks, NEW p \in 1..N, Found(body, key, p)
  PROVE  Begins(e, n, p, key)
<1>1. /\ body[1] = Opening /\ body[N] = Closing /\ N \in Nat \ {0, 1}
      /\ n = 0 => N = 2
      /\ n # 0 => e[n] = N
      /\ \A k \in 1..n : /\ e[k] \in Nat /\ StartOf(e, k) \in Nat
                         /\ FieldAt(body, N, StartOf(e, k), Keys[k], parts[k], Len(parts[k]), e[k])
  BY DEF Laid
<1>2. p # 1 /\ p # N
  BY <1>1, MarksDiffer DEF Found
<1>3. n # 0
  BY <1>1, <1>2
<1> DEFINE S == {k \in 1..n : p <= e[k]}
<1>4. PICK k \in S : \A i \in S : k <= i
  <2>1. n \in S /\ S \in SUBSET Nat
    BY <1>1, <1>3
  <2> HIDE DEF S
  <2> QED
    BY <2>1, Least
<1>5. k \in 1..n /\ p <= e[k] /\ e[k] \in Nat
  BY <1>1
<1>6. PICK o \in Nat : o = StartOf(e, k)
  BY <1>1, <1>5
<1>7. o <= p
  <2>1. CASE k = 1
    BY <1>2, <1>6, <2>1 DEF StartOf
  <2>2. CASE k # 1
    <3>1. k - 1 \in 1..n /\ k - 1 \notin S
      BY <1>4, <1>5, <2>2
    <3>2. e[k - 1] \in Nat /\ ~(p <= e[k - 1])
      BY <1>1, <3>1
    <3> QED
      BY <1>6, <2>2, <3>2 DEF StartOf
  <2> QED
    BY <2>1, <2>2
<1>8. PICK end \in Nat : end = e[k]
  BY <1>5
<1>9. p \in o..end
  BY <1>5, <1>7, <1>8
<1>10. PICK v \in Numbers \cup Seq(Text) : v = parts[k]
  BY <1>5, ElementOfSeq
<1>11. PICK m \in Nat : m = Len(v)
  <2>1. Numbers \subseteq Seq({"1", "2"})
    BY NumbersAre
  <2> QED
    BY <2>1, LenProperties
<1>12. PICK name \in NameMarks : name = Keys[k]
  <2>1. k \in 1..3
    BY <1>5
  <2> QED
    BY <2>1, KeysDiffer
<1>13. FieldAt(body, N, o, name, v, m, end)
  BY <1>1, <1>5, <1>6, <1>8, <1>10, <1>11, <1>12
<1>14. \A j \in 1..m : v[j] # Quote
  BY <1>11, NoMarks
<1>15. N \in Nat
  BY <1>1
<1>16. p = o /\ key = name
  <2>1. CASE v \in Numbers
    <3>1. BareAt(body, N, o, name, v, m, end)
      BY <1>13, <2>1 DEF FieldAt
    <3> QED
      BY <1>9, <1>14, <1>15, <3>1, BareMatches
  <2>2. CASE v \notin Numbers
    <3>1. QuotedAt(body, N, o, name, v, m, end)
      BY <1>13, <2>2 DEF FieldAt
    <3> QED
      BY <1>9, <1>14, <1>15, <3>1, QuotedMatches
  <2> QED
    BY <2>1, <2>2
<1> QED
  BY <1>5, <1>6, <1>12, <1>16 DEF Begins

(* A body of at most three fields is read back as it was sent, whatever    *)
(* the strings hold but a quote: names, colons, commas or braces, of any   *)
(* length; a field that was not sent is read as nothing                    *)
(* (api.cpp:126-141).                                                      *)
THEOREM FieldsReadBack ==
  ASSUME NEW Text, Quote \notin Text,
         NEW n \in 0..3, NEW parts \in Seq(Numbers \cup Seq(Text)), n = Len(parts), NEW i \in 1..3
  PROVE  json_get(Body(parts), Keys[i]) = IF i <= n THEN parts[i] ELSE << >>
<1>1. PICK e, N : /\ Body(parts) \in Seq(BodyChars(Text)) /\ N = Len(Body(parts))
                  /\ Laid(Body(parts), N, parts, n, e)
  BY LaidOut
<1>2. PICK body \in Seq(BodyChars(Text)) : body = Body(parts)
  BY <1>1
<1>3. N \in Nat /\ N = Len(body) /\ Laid(body, N, parts, n, e)
  BY <1>1, <1>2, LenProperties
<1>4. PICK key \in NameMarks : key = Keys[i]
  BY KeysDiffer
<1>5. PICK at : at = Matches(body, Pattern(key))
  OBVIOUS
<1>6. at = {p \in 1..(N - 3) : Found(body, key, p)}
  BY <1>3, <1>5, MatchIs
<1>7. ASSUME NEW p \in at PROVE i <= n /\ p = StartOf(e, i)
  <2>1. p \in 1..N /\ Found(body, key, p)
    BY <1>3, <1>6
  <2>2. Begins(e, n, p, key)
    BY <1>3, <2>1, OwnField
  <2>3. PICK k \in 1..n : p = StartOf(e, k) /\ key = Keys[k]
    BY <2>2 DEF Begins
  <2>4. k \in 1..3 /\ Keys[k] = Keys[i]
    BY <1>4, <2>3
  <2>5. k = i
    BY <2>4, KeysDiffer
  <2> QED
    BY <2>3, <2>5
<1>8. CASE ~(i <= n)
  <2>1. at = {}
    BY <1>7, <1>8
  <2>2. json_get(body, key) = << >>
    BY <1>5, <2>1 DEF json_get, Pattern
  <2> QED
    BY <1>2, <1>4, <1>8, <2>2
<1>9. CASE i <= n
  <2>1. i \in 1..n
    BY <1>9
  <2>2. /\ e[i] \in Nat /\ StartOf(e, i) \in Nat
        /\ FieldAt(body, N, StartOf(e, i), Keys[i], parts[i], Len(parts[i]), e[i])
    BY <1>3, <2>1 DEF Laid
  <2>3. PICK o \in Nat, end \in Nat : o = StartOf(e, i) /\ end = e[i]
    BY <2>2
  <2>4. PICK v \in Numbers \cup Seq(Text) : v = parts[i]
    BY <2>1, ElementOfSeq
  <2>5. PICK m \in Nat : m = Len(v)
    <3>1. Numbers \subseteq Seq({"1", "2"})
      BY NumbersAre
    <3> QED
      BY <3>1, LenProperties
  <2>6. FieldAt(body, N, o, key, v, m, end)
    BY <1>4, <2>2, <2>3, <2>4, <2>5
  <2>7. NameAt(body, N, o, key, end) /\ o + 5 <= end
    BY <2>6 DEF FieldAt, BareAt, QuotedAt
  <2>8. o \in at
    <3>1. o \in 1..(N - 3)
      BY <1>3, <2>7 DEF NameAt
    <3>2. Found(body, key, o)
      BY <2>7 DEF NameAt, Found
    <3> QED
      BY <1>6, <3>1, <3>2
  <2>9. o \in Matches(body, Pattern(key)) /\ \A p \in Matches(body, Pattern(key)) : p = o
    BY <1>5, <1>7, <2>3, <2>8
  <2>10. v \in Seq(BodyChars(Text))
    BY EncodedIs DEF EncodedHas
  <2>11. /\ \A j \in 1..m : v[j] # Quote
         /\ v \in Numbers => \A j \in 1..m : v[j] \notin BareEnds \cup {Quote}
    BY <2>5, NoMarks
  <2>12. json_get(body, key) = v
    <3>1. CASE v \in Numbers
      <4>1. BareAt(body, N, o, key, v, m, end)
        BY <2>6, <3>1 DEF FieldAt
      <4> QED
        BY <1>3, <2>5, <2>9, <2>10, <2>11, <3>1, <4>1, BareRead
    <3>2. CASE v \notin Numbers
      <4>1. QuotedAt(body, N, o, key, v, m, end)
        BY <2>6, <3>2 DEF FieldAt
      <4> QED
        BY <1>3, <2>5, <2>9, <2>10, <2>11, <4>1, QuotedRead
    <3> QED
      BY <3>1, <3>2
  <2> QED
    BY <1>2, <1>4, <1>9, <2>4, <2>12
<1> QED
  BY <1>8, <1>9

-----------------------------------------------------------------------------
(* The inputs that TLC enumerates are sequences of their parts.            *)
LEMMA InputType == Spec => [](kind \in DOMAIN Parts /\ input \in Seq(Parts[kind]))
<1> DEFINE Inv == kind \in DOMAIN Parts /\ input \in Seq(Parts[kind])
<1>1. Init => Inv
  BY EmptySeq DEF Init
<1>2. Inv /\ [Next]_<<kind, input>> => Inv'
  <2> SUFFICES ASSUME Inv, [Next]_<<kind, input>> PROVE Inv'
    OBVIOUS
  <2>1. CASE UNCHANGED <<kind, input>>
    BY <2>1
  <2>2. ASSUME NEW part \in Parts[kind], Grow(part) PROVE Inv'
    <3>1. PICK B : B = Parts[kind]
      OBVIOUS
    <3>2. input' \in Seq(B) /\ kind' = kind
      BY <2>2, <3>1, AppendProperties DEF Grow
    <3> QED
      BY <3>1, <3>2
  <2> QED
    BY <2>1, <2>2 DEF Next
<1> QED
  BY <1>1, <1>2, PTL DEF Spec

(* The preview that is cut out of a DNG is its largest segment, for inputs *)
(* of every length (pipeline.cpp:134-166).                                 *)
THEOREM ThumbnailsAreLargest == Spec => []ThumbnailIsLargest
<1>1. ASSUME kind \in DOMAIN Parts /\ input \in Seq(Parts[kind]) PROVE ThumbnailIsLargest
  BY <1>1, ThumbnailSearch DEF ThumbnailIsLargest
<1> QED
  BY <1>1, InputType, PTL

(* The exported histogram is right however many durations were observed    *)
(* (metrics.cpp:25-33, 118-126).                                           *)
THEOREM BucketsAlwaysCount == Spec => []BucketsCount
<1>1. Parts["durations"] \subseteq Nat
  BY DEF Parts
<1>2. ASSUME kind \in DOMAIN Parts, input \in Seq(Parts[kind]), kind = "durations"
      PROVE  input \in Seq(Nat)
  BY <1>1, <1>2
<1>3. kind \in DOMAIN Parts /\ input \in Seq(Parts[kind]) => BucketsCount
  BY <1>2, HistogramCounts DEF BucketsCount
<1> QED
  BY <1>3, InputType, PTL

(* However many statements the migration has, it is cut between them       *)
(* (util.cpp:130-173, db.cpp:219-228).                                     *)
THEOREM MigrationsAreCut == Spec => []SplitBetweenStatements
<1>1. Statements \subseteq Seq(Chars)
  BY StatementsAreWhole DEF Whole, Leads
<1>2. ASSUME kind \in DOMAIN Parts, input \in Seq(Parts[kind]), kind = "sql"
      PROVE  input \in Seq(Seq(Chars)) /\ \A k \in 1..Len(input) : Whole(input[k])
  <2>1. input \in Seq(Statements)
    BY <1>2 DEF Parts
  <2>2. \A k \in 1..Len(input) : input[k] \in Statements
    BY <2>1, ElementOfSeq
  <2>3. input \in Seq(Seq(Chars))
    BY <1>1, <2>1
  <2> QED
    BY <2>2, <2>3, StatementsAreWhole
<1>3. kind \in DOMAIN Parts /\ input \in Seq(Parts[kind]) => SplitBetweenStatements
  BY <1>2, SplitCuts DEF SplitBetweenStatements
<1> QED
  BY <1>3, InputType, PTL

(* Every body the plugin sends is read as it was sent, as long as it has   *)
(* no more fields than there are names (api.cpp:126-141,                   *)
(* betterembeds.lua:436-439).                                              *)
THEOREM BodiesAreRead == Spec => []FieldsAreRead
<1> DEFINE Inv == kind = "json" => Len(input) <= MaxParts["json"]
<1>1. MaxParts["json"] \in 0..3
  <2>1. Len(Keys) = 3 /\ "json" \in DOMAIN Parts
    BY DEF Keys, Parts
  <2> QED
    BY <2>1, PartsAssumption
<1>2. Init => Inv
  BY <1>1, EmptySeq DEF Init
<1>3. /\ kind \in DOMAIN Parts /\ input \in Seq(Parts[kind]) /\ Inv
      /\ [Next]_<<kind, input>>
      => Inv'
  <2> SUFFICES ASSUME kind \in DOMAIN Parts, input \in Seq(Parts[kind]), Inv,
                      [Next]_<<kind, input>>
               PROVE  Inv'
    OBVIOUS
  <2>1. CASE UNCHANGED <<kind, input>>
    BY <2>1
  <2>2. ASSUME NEW part \in Parts[kind], Grow(part) PROVE Inv'
    <3>1. PICK n \in Nat : n = Len(input)
      BY LenProperties
    <3>2. n < MaxParts[kind] /\ Len(input') = n + 1 /\ kind' = kind
      BY <2>2, <3>1, AppendProperties DEF Grow
    <3> QED
      BY <1>1, <3>2
  <2> QED
    BY <2>1, <2>2 DEF Next
<1>4. ASSUME kind \in DOMAIN Parts, input \in Seq(Parts[kind]), Inv, kind = "json",
             NEW i \in DOMAIN Keys
      PROVE  json_get(Body(input), Keys[i]) = IF i <= Len(input) THEN input[i] ELSE << >>
  <2> DEFINE Text == {"k", "v", ":", Comma, Closing, Blank}
  <2>1. Quote \notin Text
    BY MarksDiffer DEF NameMarks
  <2>2. input \in Seq(Numbers \cup Seq(Text))
    <3>1. ASSUME NEW s \in Strings PROVE s \in Seq(Text)
      <4>1. Strings = UNION {[1..m -> Text] : m \in 0..2}
        BY DEF Strings, SeqOf
      <4> HIDE DEF Text
      <4>2. PICK m \in 0..2 : s \in [1..m -> Text]
        BY <4>1
      <4>3. m \in Nat
        OBVIOUS
      <4> QED
        BY <4>2, <4>3, IsASeq
    <3>2. input \in Seq(Numbers \cup Strings)
      BY <1>4 DEF Parts
    <3>3. Numbers \cup Strings \subseteq Numbers \cup Seq(Text)
      BY <3>1
    <3> HIDE DEF Text
    <3> QED
      BY <3>2, <3>3, SeqMonotonic
  <2>3. PICK n \in 0..3 : n = Len(input)
    <3>1. PICK l \in Nat : l = Len(input)
      BY <1>4, LenProperties
    <3>2. PICK most \in 0..3 : most = MaxParts["json"]
      BY <1>1
    <3>3. l <= most
      BY <1>4, <3>1, <3>2
    <3>4. l \in 0..3
      BY <3>3
    <3> QED
      BY <3>1, <3>4
  <2>4. i \in 1..3
    BY DEF Keys
  <2> HIDE DEF Text
  <2> QED
    BY <2>1, <2>2, <2>3, <2>4, FieldsReadBack
<1>5. kind \in DOMAIN Parts /\ input \in Seq(Parts[kind]) /\ Inv => FieldsAreRead
  BY <1>4 DEF FieldsAreRead
<1> HIDE DEF Inv
<1> QED
  BY <1>2, <1>3, <1>5, InputType, PTL DEF Spec

=============================================================================
