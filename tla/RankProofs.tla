----------------------------- MODULE RankProofs -----------------------------
(***************************************************************************)
(* What rankBetween promises (packages/types/src/rank.ts), for every base  *)
(* and ranks of every length.                                              *)
(***************************************************************************)
EXTENDS Rank, FiniteSets, TLAPS, FiniteSetTheorems, WellFoundedInduction

\* A rank: digits, the last of which is not zero.
Ranks == {s \in Seq(Digit) : s # <<>> /\ s[Len(s)] # 0}

LEMMA Least ==
  ASSUME NEW S \in SUBSET Nat, S # {}
  PROVE  \E n \in S : \A m \in S : n <= m
<1>1. \E n \in S : \A m \in S : ~(<<m, n>> \in OpToRel(<, Nat))
  BY NatLessThanWellFounded, WFMin
<1>2. PICK n \in S : \A m \in S : ~(<<m, n>> \in OpToRel(<, Nat))
  BY <1>1
<1>3. ASSUME NEW m \in S, m < n
      PROVE  FALSE
  <2>1. <<m, n>> \in OpToRel(<, Nat)
    BY <1>3 DEF OpToRel
  <2> QED
    BY <1>2, <2>1
<1> QED
  BY <1>3

\* The loop ends: there is a first position that leaves room.
LEMMA LoopEnds ==
  ASSUME NEW a \in Seq(Digit) \cup {None}, NEW b \in Seq(Digit) \cup {None}
  PROVE  \E i \in 1 .. Length(a) + Length(b) + 1 :
           Stops(a, b, i) /\ \A j \in 1 .. i - 1 : ~Stops(a, b, j)
<1> DEFINE n == Length(a) + Length(b) + 1
           S == {i \in 1 .. n : Stops(a, b, i)}
<1>1. Length(a) \in Nat /\ Length(b) \in Nat
  BY DEF Length
<1>2. LowerDigit(a, n) = 0 /\ UpperDigit(a, b, n) = Base
  BY <1>1 DEF LowerDigit, UpperDigit, CeilingDigit
<1>3. Stops(a, b, n)
  BY <1>2, BaseAssumption DEF Stops, HasRoom, Middle
<1>4. n \in S /\ S \in SUBSET Nat
  BY <1>1, <1>3
<1>5. PICK i \in S : \A j \in S : i <= j
  BY <1>4, Least
<1> QED
  BY <1>1, <1>5

LEMMA DigitsAreRead ==
  ASSUME NEW a \in Seq(Digit) \cup {None}, NEW b \in Seq(Digit) \cup {None}, NEW i \in Nat \ {0}
  PROVE  LowerDigit(a, i) \in Digit /\ UpperDigit(a, b, i) \in 0 .. Base
<1>1. LowerDigit(a, i) \in Digit
  BY BaseAssumption DEF LowerDigit, Length, Digit
<1>2. CeilingDigit(b, i) \in 0 .. Base
  BY BaseAssumption DEF CeilingDigit, Length, Digit
<1> QED
  BY <1>1, <1>2, BaseAssumption DEF UpperDigit

LEMMA MiddleIsBetween ==
  ASSUME NEW da \in Digit, NEW db \in 0 .. Base, HasRoom(da, db)
  PROVE  Middle(da, db) \in Digit /\ da < Middle(da, db) /\ Middle(da, db) < db
BY BaseAssumption DEF HasRoom, Middle, Digit

\* What the loop returns: a's digits, then one in the middle.
LEMMA RankIsBuilt ==
  ASSUME NEW a \in Seq(Digit) \cup {None}, NEW b \in Seq(Digit) \cup {None}
  PROVE  \E i \in Nat \ {0} :
           /\ Len(RankBetween(a, b)) = i /\ RankBetween(a, b) \in Seq(Digit)
           /\ \A k \in 1 .. i - 1 : RankBetween(a, b)[k] = LowerDigit(a, k)
           /\ RankBetween(a, b)[i] = Middle(LowerDigit(a, i), UpperDigit(a, b, i))
           /\ Stops(a, b, i) /\ \A j \in 1 .. i - 1 : ~Stops(a, b, j)
<1> DEFINE Last(i) == Stops(a, b, i) /\ \A j \in 1 .. i - 1 : ~Stops(a, b, j)
           last == CHOOSE i \in 1 .. Length(a) + Length(b) + 1 : Last(i)
           rank == [k \in 1 .. last |-> IF k < last THEN LowerDigit(a, k)
                                        ELSE Middle(LowerDigit(a, k), UpperDigit(a, b, k))]
<1>1. Length(a) \in Nat /\ Length(b) \in Nat
  BY DEF Length
<1>2. last \in 1 .. Length(a) + Length(b) + 1 /\ Last(last)
  BY LoopEnds
<1>3. RankBetween(a, b) = rank
  BY DEF RankBetween
<1> HIDE DEF last
<1>4. last \in Nat \ {0}
  BY <1>1, <1>2
<1>5. \A k \in 1 .. last : rank[k] \in Digit
  <2> SUFFICES ASSUME NEW k \in 1 .. last
               PROVE  rank[k] \in Digit
    OBVIOUS
  <2> k \in Nat \ {0}
    BY <1>4
  <2>1. LowerDigit(a, k) \in Digit /\ UpperDigit(a, b, k) \in 0 .. Base
    BY DigitsAreRead
  <2>2. CASE k < last
    BY <1>4, <2>1, <2>2
  <2>3. CASE k = last
    BY <1>2, <1>4, <2>1, <2>3, MiddleIsBetween DEF Stops
  <2> QED
    BY <1>4, <2>2, <2>3
<1>6. rank \in Seq(Digit) /\ Len(rank) = last
  BY <1>4, <1>5
<1>7. /\ \A k \in 1 .. last - 1 : rank[k] = LowerDigit(a, k)
      /\ rank[last] = Middle(LowerDigit(a, last), UpperDigit(a, b, last))
  BY <1>4
<1> QED
  BY <1>2, <1>3, <1>4, <1>6, <1>7

\* Whatever it is asked, rankBetween answers with a rank.
THEOREM RankBetweenIsARank ==
  ASSUME NEW a \in Seq(Digit) \cup {None}, NEW b \in Seq(Digit) \cup {None}
  PROVE  RankBetween(a, b) \in Ranks
<1>1. PICK i \in Nat \ {0} :
        /\ Len(RankBetween(a, b)) = i /\ RankBetween(a, b) \in Seq(Digit)
        /\ RankBetween(a, b)[i] = Middle(LowerDigit(a, i), UpperDigit(a, b, i))
        /\ Stops(a, b, i)
  BY RankIsBuilt
<1>2. LowerDigit(a, i) \in Digit /\ UpperDigit(a, b, i) \in 0 .. Base
  BY DigitsAreRead
<1>3. RankBetween(a, b)[i] \in Digit /\ RankBetween(a, b)[i] > LowerDigit(a, i)
  BY <1>1, <1>2, MiddleIsBetween DEF Stops
<1> QED
  BY <1>1, <1>2, <1>3, BaseAssumption DEF Ranks, Digit

THEOREM FirstRankIsARank == FirstRank \in Ranks
BY BaseAssumption DEF FirstRank, Ranks, Digit

\* The answer sorts after the lower neighbour.
LEMMA AboveTheLower ==
  ASSUME NEW a \in Seq(Digit), NEW b \in Seq(Digit) \cup {None}
  PROVE  Less(a, RankBetween(a, b))
<1> DEFINE r == RankBetween(a, b)
<1>1. PICK i \in Nat \ {0} :
        /\ Len(r) = i
        /\ \A k \in 1 .. i - 1 : r[k] = LowerDigit(a, k)
        /\ r[i] = Middle(LowerDigit(a, i), UpperDigit(a, b, i))
        /\ Stops(a, b, i)
  BY RankIsBuilt
<1>2. a # None /\ Length(a) = Len(a) /\ Len(a) \in Nat
  BY NoneAssumption DEF Length
<1>3. r[i] > LowerDigit(a, i)
  BY <1>1, DigitsAreRead, MiddleIsBetween DEF Stops
<1> SUFFICES Less(a, r)
  OBVIOUS
<1> HIDE DEF r
<1>4. CASE i <= Len(a)
  <2>1. a[i] < r[i] /\ \A j \in 1 .. i - 1 : a[j] = r[j]
    BY <1>1, <1>2, <1>3, <1>4 DEF LowerDigit, Digit
  <2> QED
    BY <1>1, <1>2, <1>4, <2>1 DEF Less
<1>5. CASE i > Len(a)
  <2> DEFINE k == Len(a) + 1
  <2>1. k \in 1 .. Len(r) /\ k = Len(a) + 1
    BY <1>1, <1>2, <1>5
  <2>2. \A j \in 1 .. k - 1 : a[j] = r[j]
    BY <1>1, <1>2, <1>5 DEF LowerDigit
  <2> HIDE DEF k
  <2> QED
    BY <2>1, <2>2 DEF Less
<1> QED
  BY <1>1, <1>2, <1>4, <1>5

\* The upper neighbour has a digit that is above the lower one's, and up to there
\* they agree: it does not end in a zero.
LEMMA CeilingIsMet ==
  ASSUME NEW a \in Seq(Digit) \cup {None}, NEW b \in Ranks, Ordered(a, b)
  PROVE  \E j \in 1 .. Len(b) : /\ b[j] > LowerDigit(a, j)
                                /\ \A k \in 1 .. j - 1 : b[k] = LowerDigit(a, k)
<1>1. b \in Seq(Digit) /\ b # None /\ Len(b) \in Nat \ {0} /\ b[Len(b)] > 0
  BY NoneAssumption, BaseAssumption DEF Ranks, Digit
<1>2. ASSUME NEW n \in Nat, n < Len(b), \A k \in 1 .. n : b[k] = LowerDigit(a, k),
             \A k \in n + 1 .. Len(b) : LowerDigit(a, k) = 0
      PROVE  \E j \in 1 .. Len(b) : /\ b[j] > LowerDigit(a, j)
                                    /\ \A k \in 1 .. j - 1 : b[k] = LowerDigit(a, k)
  <2> DEFINE S == {k \in n + 1 .. Len(b) : b[k] > 0}
  <2>1. Len(b) \in S /\ S \in SUBSET Nat
    BY <1>1, <1>2
  <2>2. PICK j \in S : \A k \in S : j <= k
    BY <2>1, Least
  <2>3. \A k \in n + 1 .. j - 1 : b[k] = 0
    <3> SUFFICES ASSUME NEW k \in n + 1 .. j - 1
                 PROVE  b[k] = 0
      OBVIOUS
    <3>1. k \in n + 1 .. Len(b) /\ k \notin S
      BY <1>1, <1>2, <2>2
    <3>2. b[k] \in Nat
      BY <1>1, <1>2, <3>1, BaseAssumption DEF Digit
    <3> QED
      BY <3>1, <3>2
  <2>4. \A k \in 1 .. j - 1 : b[k] = LowerDigit(a, k)
    BY <1>1, <1>2, <2>2, <2>3
  <2> QED
    BY <1>1, <1>2, <2>2, <2>4
<1>3. CASE a = None
  <2>1. \A k \in 1 .. Len(b) : LowerDigit(a, k) = 0
    BY <1>3 DEF LowerDigit, Length
  <2> QED
    BY <1>1, <1>2, <2>1
<1>4. CASE a # None
  <2>1. PICK n \in 1 .. Len(b) : /\ n = Len(a) + 1 \/ (n <= Len(a) /\ a[n] < b[n])
                                 /\ \A j \in 1 .. n - 1 : a[j] = b[j]
    BY <1>1, <1>4 DEF Ordered, Less
  <2>2. a \in Seq(Digit) /\ Length(a) = Len(a) /\ Len(a) \in Nat
    BY <1>4 DEF Length
  <2>3. \A k \in 1 .. n - 1 : b[k] = LowerDigit(a, k)
    BY <1>1, <2>1, <2>2 DEF LowerDigit
  <2>4. CASE n <= Len(a) /\ a[n] < b[n]
    BY <1>1, <2>1, <2>2, <2>3, <2>4 DEF LowerDigit
  <2>5. CASE n = Len(a) + 1
    <3>1. n - 1 \in Nat /\ n - 1 < Len(b)
      BY <1>1, <2>1
    <3>2. \A k \in n .. Len(b) : LowerDigit(a, k) = 0
      BY <1>1, <2>1, <2>2, <2>5 DEF LowerDigit
    <3> HIDE DEF LowerDigit
    <3> QED
      BY <1>1, <1>2, <2>1, <2>3, <3>1, <3>2
  <2> QED
    BY <2>1, <2>4, <2>5
<1> QED
  BY <1>3, <1>4

\* The answer sorts before the upper neighbour.
LEMMA BelowTheUpper ==
  ASSUME NEW a \in Seq(Digit) \cup {None}, NEW b \in Ranks, Ordered(a, b)
  PROVE  Less(RankBetween(a, b), b)
<1> DEFINE r == RankBetween(a, b)
<1>1. b \in Seq(Digit) /\ b # None /\ Length(b) = Len(b) /\ Len(b) \in Nat
  BY NoneAssumption DEF Ranks, Length
<1>2. PICK i \in Nat \ {0} :
        /\ Len(r) = i
        /\ \A k \in 1 .. i - 1 : r[k] = LowerDigit(a, k)
        /\ r[i] = Middle(LowerDigit(a, i), UpperDigit(a, b, i))
        /\ Stops(a, b, i)
  BY <1>1, RankIsBuilt
<1>3. PICK j \in 1 .. Len(b) : /\ b[j] > LowerDigit(a, j)
                               /\ \A k \in 1 .. j - 1 : b[k] = LowerDigit(a, k)
  BY CeilingIsMet
<1>4. LowerDigit(a, i) \in Digit /\ UpperDigit(a, b, i) \in 0 .. Base
  BY <1>1, DigitsAreRead
<1>5. r[i] \in Digit /\ r[i] < UpperDigit(a, b, i) /\ LowerDigit(a, i) < r[i]
  BY <1>2, <1>4, MiddleIsBetween DEF Stops
<1> HIDE DEF r
<1>6. i <= j => UpperDigit(a, b, i) = b[i]
  <2> SUFFICES ASSUME i <= j
               PROVE  UpperDigit(a, b, i) = b[i]
    OBVIOUS
  <2>1. \A k \in 1 .. i - 1 : CeilingDigit(b, k) = LowerDigit(a, k)
    BY <1>1, <1>3 DEF CeilingDigit
  <2>2. \A k \in 1 .. i - 1 : LowerDigit(a, k) \in Digit
    BY <1>1, DigitsAreRead
  <2>3. ~UpperOpen(a, b, i)
    BY <2>1, <2>2, BaseAssumption DEF UpperOpen, Digit
  <2> QED
    BY <1>1, <1>3, <2>3 DEF UpperDigit, CeilingDigit
<1>7. i >= j
  <2> SUFFICES ASSUME i < j
               PROVE  FALSE
    OBVIOUS
  <2>1. b[i] = LowerDigit(a, i)
    BY <1>1, <1>3
  <2> QED
    BY <1>2, <1>4, <1>5, <1>6, <2>1, BaseAssumption DEF Digit
<1>8. r[j] < b[j]
  <2>1. CASE i = j
    BY <1>5, <1>6, <2>1
  <2>2. CASE i > j
    BY <1>1, <1>2, <1>3, <2>2
  <2> QED
    BY <1>1, <1>7, <2>1, <2>2
<1>9. \A k \in 1 .. j - 1 : r[k] = b[k]
  BY <1>1, <1>2, <1>3, <1>7
<1>10. Less(r, b)
  BY <1>1, <1>2, <1>3, <1>7, <1>8, <1>9 DEF Less
<1> QED
  BY <1>10 DEF r

\* rankBetween keeps its promise: between two neighbours that are in order, and at
\* the ends of a column, its answer sorts strictly between them, and it can be a
\* neighbour in turn ("we compute a string that sorts strictly between them").
THEOREM StrictlyBetween ==
  ASSUME NEW a \in Ranks \cup {None}, NEW b \in Ranks \cup {None}, Ordered(a, b)
  PROVE  /\ RankBetween(a, b) \in Ranks
         /\ a # None => Less(a, RankBetween(a, b))
         /\ b # None => Less(RankBetween(a, b), b)
<1>1. a \in Seq(Digit) \cup {None} /\ b \in Seq(Digit) \cup {None}
  BY DEF Ranks
<1> QED
  BY <1>1, RankBetweenIsARank, AboveTheLower, BelowTheUpper

LEMMA LessIsTransitive ==
  ASSUME NEW a \in Seq(Digit), NEW b \in Seq(Digit), NEW c \in Seq(Digit), Less(a, b), Less(b, c)
  PROVE  Less(a, c)
<1>1. PICK k \in 1 .. Len(b) : /\ k = Len(a) + 1 \/ (k <= Len(a) /\ a[k] < b[k])
                               /\ \A j \in 1 .. k - 1 : a[j] = b[j]
  BY DEF Less
<1>2. PICK m \in 1 .. Len(c) : /\ m = Len(b) + 1 \/ (m <= Len(b) /\ b[m] < c[m])
                               /\ \A j \in 1 .. m - 1 : b[j] = c[j]
  BY DEF Less
<1>3. ASSUME NEW x \in Seq(Digit), NEW j \in 1 .. Len(x)
      PROVE  x[j] \in Int
  <2>1. x[j] \in Digit
    OBVIOUS
  <2> QED
    BY <2>1, BaseAssumption DEF Digit
<1>4. CASE k < m
  <2>1. k \in 1 .. Len(c) /\ b[k] = c[k] /\ \A j \in 1 .. k - 1 : a[j] = c[j]
    BY <1>1, <1>2, <1>4
  <2> QED
    BY <1>1, <2>1 DEF Less
<1>5. CASE k >= m
  <2>1. m <= Len(b) /\ b[m] < c[m] /\ \A j \in 1 .. m - 1 : a[j] = c[j]
    BY <1>1, <1>2, <1>5
  <2>2. m = Len(a) + 1 \/ (m <= Len(a) /\ a[m] < c[m])
    <3>1. CASE k = m
      BY <1>1, <1>2, <1>3, <2>1, <3>1
    <3>2. CASE k > m
      BY <1>1, <1>2, <1>3, <2>1, <3>2
    <3> QED
      BY <1>5, <3>1, <3>2
  <2> QED
    BY <1>2, <2>1, <2>2 DEF Less
<1> QED
  BY <1>4, <1>5

LEMMA LessIsIrreflexive ==
  ASSUME NEW a \in Seq(Digit)
  PROVE  ~Less(a, a)
<1> SUFFICES ASSUME NEW k \in 1 .. Len(a), a[k] < a[k]
             PROVE  FALSE
  BY DEF Less
<1>1. a[k] \in Digit
  OBVIOUS
<1> QED
  BY <1>1, BaseAssumption DEF Digit

LEMMA LessIsTotal ==
  ASSUME NEW a \in Seq(Digit), NEW b \in Seq(Digit), a # b
  PROVE  Less(a, b) \/ Less(b, a)
<1> DEFINE Differ(k) == k > Len(a) \/ k > Len(b) \/ a[k] # b[k]
           S == {k \in Nat \ {0} : Differ(k)}
<1>1. Len(a) \in Nat /\ Len(b) \in Nat
  OBVIOUS
<1>2. Len(a) + 1 \in S /\ S \in SUBSET Nat
  BY <1>1
<1>3. PICK k \in S : \A j \in S : k <= j
  BY <1>2, Least
<1>4. k \in Nat \ {0} /\ Differ(k)
  BY <1>3
<1>5. \A j \in 1 .. k - 1 : j <= Len(a) /\ j <= Len(b) /\ a[j] = b[j]
  <2> SUFFICES ASSUME NEW j \in 1 .. k - 1
               PROVE  ~Differ(j)
    BY <1>1, <1>4
  <2>1. j \in Nat \ {0} /\ ~(k <= j)
    BY <1>4
  <2> QED
    BY <1>3, <2>1
<1>6. k - 1 <= Len(a) /\ k - 1 <= Len(b)
  <2>1. k = 1 \/ k - 1 \in 1 .. k - 1
    BY <1>4
  <2> QED
    BY <1>1, <1>5, <2>1
<1>7. CASE k <= Len(a) /\ k <= Len(b)
  <2>1. a[k] # b[k] /\ k \in 1 .. Len(a) /\ k \in 1 .. Len(b)
    BY <1>1, <1>4, <1>7
  <2>2. a[k] \in Digit /\ b[k] \in Digit
    BY <2>1
  <2>3. a[k] < b[k] \/ b[k] < a[k]
    BY <2>1, <2>2, BaseAssumption DEF Digit
  <2> QED
    BY <1>5, <1>7, <2>1, <2>3 DEF Less
<1>8. CASE k > Len(a) /\ k <= Len(b)
  <2>1. k = Len(a) + 1 /\ k \in 1 .. Len(b)
    BY <1>1, <1>4, <1>6, <1>8
  <2> QED
    BY <1>5, <2>1 DEF Less
<1>9. CASE k <= Len(a) /\ k > Len(b)
  <2>1. k = Len(b) + 1 /\ k \in 1 .. Len(a)
    BY <1>1, <1>4, <1>6, <1>9
  <2> QED
    BY <1>5, <2>1 DEF Less
<1>10. CASE k > Len(a) /\ k > Len(b)
  <2>1. Len(a) = k - 1 /\ Len(b) = k - 1
    BY <1>1, <1>4, <1>6, <1>10
  <2>2. \A j \in 1 .. Len(a) : a[j] = b[j]
    BY <1>5, <2>1
  <2>3. a = b
    BY <2>1, <2>2
  <2> QED
    BY <2>3
<1> QED
  BY <1>1, <1>4, <1>7, <1>8, <1>9, <1>10

\* Of finitely many cards one is below all the others.
LEMMA FiniteHasLast ==
  ASSUME NEW W, NEW rank, IsFiniteSet(W), W # {}, \A i \in W : rank[i] \in Seq(Digit)
  PROVE  \E i \in W : \A j \in W : ~Less(rank[i], rank[j])
<1> DEFINE NoLast(T) == /\ T \subseteq W /\ IsFiniteSet(T) /\ T # {}
                        /\ \A i \in T : \E j \in T : Less(rank[i], rank[j])
           S == {n \in Nat : \E T : NoLast(T) /\ Cardinality(T) = n}
<1> SUFFICES ASSUME NoLast(W)
             PROVE  FALSE
  OBVIOUS
<1>1. S # {}
  BY FS_CardinalityType
<1>2. PICK m \in S : \A n \in S : m <= n
  BY <1>1, Least
<1>3. PICK T : NoLast(T) /\ Cardinality(T) = m /\ m \in Nat
  BY <1>2
<1>4. PICK x \in T : TRUE
  BY <1>3
<1>5. /\ IsFiniteSet(T \ {x}) /\ Cardinality(T \ {x}) = m - 1 /\ Cardinality(T \ {x}) \in Nat
      /\ T \ {x} \subseteq W
  BY <1>3, <1>4, FS_RemoveElement, FS_CardinalityType
<1>6. ~NoLast(T \ {x})
  <2>1. m - 1 \in Nat /\ Cardinality(T \ {x}) = m - 1
    BY <1>5
  <2>2. m - 1 \notin S
    <3> HIDE DEF S
    <3> QED
      BY <1>2, <1>3, <2>1
  <2> QED
    BY <2>1, <2>2
<1>7. PICK y \in T : Less(rank[x], rank[y])
  BY <1>3, <1>4
<1>8. y # x
  BY <1>3, <1>4, <1>7, LessIsIrreflexive
<1>9. PICK i \in T \ {x} : \A j \in T \ {x} : ~Less(rank[i], rank[j])
  BY <1>5, <1>6, <1>7, <1>8
<1>10. Less(rank[i], rank[x])
  BY <1>3, <1>9
<1>11. Less(rank[i], rank[y])
  BY <1>3, <1>4, <1>7, <1>9, <1>10, LessIsTransitive
<1> QED
  BY <1>7, <1>8, <1>9, <1>11
=============================================================================
