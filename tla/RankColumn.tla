----------------------------- MODULE RankColumn -----------------------------
(***************************************************************************)
(* One column of the board, as its users arrange it: the cards from top to *)
(* bottom, each with the rank the server stored for it.  The board draws   *)
(* the cards in the order of their ranks, so the arrangement is kept only  *)
(* as long as the ranks ascend.  Requests come one at a time; the module   *)
(* Issues has them overlap, and has the edits that bring a card into a     *)
(* column with the rank it had in another.                                 *)
(***************************************************************************)
EXTENDS Rank, SequencesExt

CONSTANTS MaxCards,  \* bound of a run: cards in the column
          MaxLen     \* bound of a run: digits of a rank

VARIABLE column  \* the ranks of the cards, top to bottom

Init == column = <<>>

\* The gap above the k-th card of a list and its ends; an end has no neighbour.
Above(list, k) == IF k = 1 THEN None ELSE list[k - 1]
Below(list, k) == IF k > Len(list) THEN None ELSE list[k]

\* IssuesService.create: a new card goes to the bottom.
CreateCard ==
  LET rank == IF column = <<>> THEN FirstRank ELSE RankBetween(Last(column), None)
  IN  /\ Len(column) < MaxCards /\ Len(rank) <= MaxLen
      /\ column' = Append(column, rank)

\* IssuesService.move: a card dropped above the k-th of the others gets a rank
\* between its neighbours.  The board sends no drop that has no neighbour.
Drop(others, k) ==
  LET rank == RankBetween(Above(others, k), Below(others, k))
  IN  /\ others # <<>> /\ Len(rank) <= MaxLen
      /\ column' = InsertAt(others, k, rank)

\* A card comes from another column, or changes its place in this one.
MoveIn == Len(column) < MaxCards /\ \E k \in 1 .. Len(column) + 1 : Drop(column, k)
MoveWithin ==
  \E j \in 1 .. Len(column), k \in 1 .. Len(column) : Drop(RemoveAt(column, j), k)

\* A card is deleted, or moved to another column.
Leave == \E j \in 1 .. Len(column) : column' = RemoveAt(column, j)

Next == CreateCard \/ MoveIn \/ MoveWithin \/ Leave

Spec == Init /\ [][Next]_column

-----------------------------------------------------------------------------
\* A rank is a nonempty string of digits that does not end in the digit zero.
\* A rank that did would have no room below it: between "1" and "10" there is
\* no string, and rankBetween would answer with one that is not in between.
TypeOK ==
  \A k \in 1 .. Len(column) :
    column[k] \in Seq(Digit) /\ column[k] # <<>> /\ Last(column[k]) # 0

\* However often cards are dropped in one and the same gap, the ranks ascend the
\* way the users arranged the cards, so no drop has to renumber another card
\* (rank.ts, "a string that sorts strictly between them").
InOrder == \A j, k \in 1 .. Len(column) : j < k => Less(column[j], column[k])
=============================================================================
