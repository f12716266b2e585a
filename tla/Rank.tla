-------------------------------- MODULE Rank --------------------------------
(***************************************************************************)
(* Fractional ranking (packages/types/src/rank.ts): the order of the cards *)
(* of a board column.  A rank is the digits of its string, most            *)
(* significant first; the strings of the code compare as these sequences   *)
(* do, since the code's digits are in the order of their character codes.  *)
(***************************************************************************)
EXTENDS Integers, Sequences

CONSTANTS Base,   \* number of digits: 62 in the code
          None    \* an open end of the column (null)

ASSUME BaseAssumption == Base \in Nat /\ Base >= 2

Digit == 0 .. Base - 1

ASSUME NoneAssumption == None \notin Seq(Digit)

\* String comparison, as JavaScript and Postgres (C collation) do it: at the first
\* place where they differ, a has ended or has the smaller digit.
Less(a, b) ==
  \E k \in 1 .. Len(b) : /\ k = Len(a) + 1 \/ (k <= Len(a) /\ a[k] < b[k])
                         /\ \A j \in 1 .. k - 1 : a[j] = b[j]

\* rankBetween throws unless the lower bound sorts before the upper one.
Ordered(a, b) == a = None \/ b = None \/ Less(a, b)

\* digit(a[i]) and digit(b[i]): what is missing of a (null, or too short) reads as
\* 0, what is missing of b as Base.
Length(x) == IF x = None THEN 0 ELSE Len(x)
LowerDigit(a, i) == IF i <= Length(a) THEN a[i] ELSE 0
CeilingDigit(b, i) == IF i <= Length(b) THEN b[i] ELSE Base

\* upperOpen, before position i: an earlier digit of a is below that of b, so b
\* bounds the rest no longer.
UpperOpen(a, b, i) == \E j \in 1 .. i - 1 : CeilingDigit(b, j) > LowerDigit(a, j)
UpperDigit(a, b, i) == IF UpperOpen(a, b, i) THEN Base ELSE CeilingDigit(b, i)

\* The digit half-way between two digits, and whether it leaves the lower one.
Middle(da, db) == (da + db) \div 2
HasRoomOrTouches(da, db) == Middle(da, db) >= da  \* a mistake: off by one
HasRoom(da, db) == Middle(da, db) > da

\* rankBetween: the loop copies a's digits up to the first position that leaves
\* room for a digit in the middle, and puts the middle there.  Past both bounds
\* there always is room.
Stops(a, b, i) == HasRoom(LowerDigit(a, i), UpperDigit(a, b, i))
RankBetween(a, b) ==
  LET last == CHOOSE i \in 1 .. Length(a) + Length(b) + 1 :
                Stops(a, b, i) /\ \A j \in 1 .. i - 1 : ~Stops(a, b, j)
  IN  [k \in 1 .. last |-> IF k < last THEN LowerDigit(a, k)
                           ELSE Middle(LowerDigit(a, k), UpperDigit(a, b, k))]

FirstRank == <<Base \div 2>>
=============================================================================
