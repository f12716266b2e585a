----------------------------- MODULE BoardProofs -----------------------------
(***************************************************************************)
(* Theorems about the parts that MCBoard runs side by side: the ranks of a *)
(* column (RankColumn), files between two stores (Attachments), issue      *)
(* numbers drawn from three sides (Seeding), the plan that Stripe's events *)
(* set (Billing), the query cache behind the pages (Pages) and the list of *)
(* issues behind a board (BoardCache).  They share no variable, so each has *)
(* an invariant of its own, and what is proved of one holds when MCBoard   *)
(* runs it.  The bounds of the runs are arbitrary numbers here.            *)
(***************************************************************************)
EXTENDS MCBoard, RankProofs, SequenceTheorems

-----------------------------------------------------------------------------
(* RankColumn.                                                             *)

ColumnInv == column \in Seq(Ranks) /\ InOrder

\* A list of cards whose ranks ascend.
Ascends(list) == \A j, k \in 1 .. Len(list) : j < k => Less(list[j], list[k])

LEMMA Concatenated ==
  ASSUME NEW S, NEW s \in Seq(S), NEW t \in Seq(S)
  PROVE  /\ s \o t \in Seq(S) /\ Len(s \o t) = Len(s) + Len(t)
         /\ \A j \in 1 .. Len(s) + Len(t) :
              (s \o t)[j] = IF j <= Len(s) THEN s[j] ELSE t[j - Len(s)]
  OBVIOUS

LEMMA InsertedAt ==
  ASSUME NEW S, NEW s \in Seq(S), NEW k \in 1 .. Len(s) + 1, NEW e \in S
  PROVE  /\ InsertAt(s, k, e) \in Seq(S) /\ Len(InsertAt(s, k, e)) = Len(s) + 1
         /\ \A j \in 1 .. Len(s) + 1 :
              InsertAt(s, k, e)[j] = IF j < k THEN s[j] ELSE IF j = k THEN e ELSE s[j - 1]
<1> DEFINE front == SubSeq(s, 1, k - 1)
           back == SubSeq(s, k, Len(s))
<1>1. front \in Seq(S) /\ Len(front) = k - 1 /\ \A j \in 1 .. k - 1 : front[j] = s[j]
  OBVIOUS
<1>2. /\ back \in Seq(S) /\ Len(back) = Len(s) - k + 1
      /\ \A j \in 1 .. Len(s) - k + 1 : back[j] = s[k + j - 1]
  OBVIOUS
<1>3. InsertAt(s, k, e) = (front \o <<e>>) \o back
  BY DEF InsertAt
<1> HIDE DEF front, back
<1>4. /\ front \o <<e>> \in Seq(S) /\ Len(front \o <<e>>) = k
      /\ \A j \in 1 .. k : (front \o <<e>>)[j] = IF j < k THEN s[j] ELSE e
  BY <1>1
<1> DEFINE head == front \o <<e>>
<1>5. InsertAt(s, k, e) = head \o back /\ head \in Seq(S) /\ Len(head) = k
  BY <1>3, <1>4
<1>6. \A j \in 1 .. k : head[j] = IF j < k THEN s[j] ELSE e
  BY <1>4
<1> HIDE DEF head
<1>7. /\ InsertAt(s, k, e) \in Seq(S) /\ Len(InsertAt(s, k, e)) = Len(s) + 1
      /\ \A j \in 1 .. Len(s) + 1 :
           InsertAt(s, k, e)[j] = IF j <= k THEN head[j] ELSE back[j - k]
  <2>1. /\ back \in Seq(S) /\ Len(back) = Len(s) - k + 1
        /\ Len(head) + Len(back) = Len(s) + 1
    BY <1>2, <1>5
  <2>2. /\ head \o back \in Seq(S) /\ Len(head \o back) = Len(head) + Len(back)
        /\ \A j \in 1 .. Len(head) + Len(back) :
             (head \o back)[j] = IF j <= Len(head) THEN head[j] ELSE back[j - Len(head)]
    BY <1>5, <2>1, Concatenated
  <2> QED
    BY <1>5, <2>1, <2>2
<1>8. ASSUME NEW j \in 1 .. Len(s) + 1
      PROVE  InsertAt(s, k, e)[j] = IF j < k THEN s[j] ELSE IF j = k THEN e ELSE s[j - 1]
  <2>1. CASE j <= k
    <3>1. j \in 1 .. k
      BY <2>1
    <3> QED
      BY <1>6, <1>7, <2>1, <3>1
  <2>2. CASE j > k
    <3>1. j - k \in 1 .. Len(s) - k + 1 /\ k + (j - k) - 1 = j - 1
      BY <2>2
    <3>2. back[j - k] = s[j - 1]
      BY <1>2, <3>1
    <3> QED
      BY <1>7, <2>2, <3>2
  <2> QED
    BY <2>1, <2>2
<1> QED
  BY <1>7, <1>8

LEMMA RemovedAt ==
  ASSUME NEW S, NEW s \in Seq(S), NEW k \in 1 .. Len(s)
  PROVE  /\ RemoveAt(s, k) \in Seq(S) /\ Len(RemoveAt(s, k)) = Len(s) - 1
         /\ \A j \in 1 .. Len(s) - 1 : RemoveAt(s, k)[j] = IF j < k THEN s[j] ELSE s[j + 1]
<1> DEFINE front == SubSeq(s, 1, k - 1)
           back == SubSeq(s, k + 1, Len(s))
<1>1. front \in Seq(S) /\ Len(front) = k - 1 /\ \A j \in 1 .. k - 1 : front[j] = s[j]
  OBVIOUS
<1>2. /\ back \in Seq(S) /\ Len(back) = Len(s) - k
      /\ \A j \in 1 .. Len(s) - k : back[j] = s[k + j]
  OBVIOUS
<1>3. RemoveAt(s, k) = front \o back
  BY DEF RemoveAt
<1> HIDE DEF front, back
<1>4. /\ front \o back \in Seq(S) /\ Len(front \o back) = Len(s) - 1
      /\ \A j \in 1 .. Len(s) - 1 : (front \o back)[j] = IF j <= k - 1 THEN front[j] ELSE back[j - (k - 1)]
  <2>1. Len(front) + Len(back) = Len(s) - 1
    BY <1>1, <1>2
  <2>2. /\ front \o back \in Seq(S) /\ Len(front \o back) = Len(front) + Len(back)
        /\ \A j \in 1 .. Len(front) + Len(back) :
             (front \o back)[j] = IF j <= Len(front) THEN front[j] ELSE back[j - Len(front)]
    BY <1>1, <1>2, Concatenated
  <2> QED
    BY <1>1, <2>1, <2>2
<1>5. ASSUME NEW j \in 1 .. Len(s) - 1
      PROVE  (front \o back)[j] = IF j < k THEN s[j] ELSE s[j + 1]
  <2>1. CASE j < k
    BY <1>1, <1>4, <2>1
  <2>2. CASE ~ (j < k)
    <3>1. j - (k - 1) \in 1 .. Len(s) - k /\ k + (j - (k - 1)) = j + 1
      BY <2>2
    <3>2. (front \o back)[j] = back[j - (k - 1)]
      BY <1>4, <2>2
    <3>3. back[j - (k - 1)] = s[k + (j - (k - 1))]
      BY <1>2, <3>1
    <3> QED
      BY <2>2, <3>1, <3>2, <3>3
  <2> QED
    BY <2>1, <2>2
<1> QED
  BY <1>3, <1>4, <1>5

LEMMA InsertKeepsOrder ==
  ASSUME NEW s \in Seq(Ranks), Ascends(s), NEW k \in 1 .. Len(s) + 1, NEW e \in Ranks,
         k > 1 => Less(s[k - 1], e), k <= Len(s) => Less(e, s[k])
  PROVE  InsertAt(s, k, e) \in Seq(Ranks) /\ Ascends(InsertAt(s, k, e))
<1> DEFINE t == InsertAt(s, k, e)
<1>1. /\ t \in Seq(Ranks) /\ Len(t) = Len(s) + 1
      /\ \A j \in 1 .. Len(s) + 1 :
           t[j] = IF j < k THEN s[j] ELSE IF j = k THEN e ELSE s[j - 1]
  BY InsertedAt
<1> HIDE DEF t
<1>2. e \in Seq(Digit) /\ \A j \in 1 .. Len(s) : s[j] \in Seq(Digit)
  BY DEF Ranks
<1>3. \A j \in 1 .. Len(s) : j < k => Less(s[j], e)
  <2> SUFFICES ASSUME NEW j \in 1 .. Len(s), j < k, j # k - 1
               PROVE  Less(s[j], e)
    OBVIOUS
  <2>1. k - 1 \in 1 .. Len(s) /\ Less(s[j], s[k - 1]) /\ Less(s[k - 1], e)
    BY DEF Ascends
  <2> QED
    BY <1>2, <2>1, LessIsTransitive
<1>4. \A j \in 1 .. Len(s) : j >= k => Less(e, s[j])
  <2> SUFFICES ASSUME NEW j \in 1 .. Len(s), j >= k, j # k
               PROVE  Less(e, s[j])
    OBVIOUS
  <2>1. k \in 1 .. Len(s) /\ Less(e, s[k]) /\ Less(s[k], s[j])
    BY DEF Ascends
  <2> QED
    BY <1>2, <2>1, LessIsTransitive
<1>5. ASSUME NEW i \in 1 .. Len(t), NEW j \in 1 .. Len(t), i < j
      PROVE  Less(t[i], t[j])
  <2>1. CASE j < k
    BY <1>1, <1>5, <2>1 DEF Ascends
  <2>2. CASE j = k
    BY <1>1, <1>3, <1>5, <2>2
  <2>3. CASE j > k /\ i < k
    <3>1. i \in 1 .. Len(s) /\ j - 1 \in 1 .. Len(s) /\ i < j - 1
      BY <1>1, <1>5, <2>3
    <3>2. t[i] = s[i] /\ t[j] = s[j - 1]
      BY <1>1, <2>3
    <3> QED
      BY <3>1, <3>2 DEF Ascends
  <2>4. CASE j > k /\ i = k
    <3>1. j - 1 \in 1 .. Len(s) /\ j - 1 >= k /\ t[i] = e /\ t[j] = s[j - 1]
      BY <1>1, <1>5, <2>4
    <3> QED
      BY <1>4, <3>1
  <2>5. CASE i > k
    <3>1. i - 1 \in 1 .. Len(s) /\ j - 1 \in 1 .. Len(s) /\ i - 1 < j - 1
      BY <1>1, <1>5, <2>5
    <3>2. t[i] = s[i - 1] /\ t[j] = s[j - 1]
      BY <1>1, <1>5, <2>5
    <3> QED
      BY <3>1, <3>2 DEF Ascends
  <2> QED
    BY <1>1, <1>5, <2>1, <2>2, <2>3, <2>4, <2>5
<1> QED
  BY <1>1, <1>5 DEF Ascends, t

LEMMA RemoveKeepsOrder ==
  ASSUME NEW s \in Seq(Ranks), Ascends(s), NEW k \in 1 .. Len(s)
  PROVE  RemoveAt(s, k) \in Seq(Ranks) /\ Ascends(RemoveAt(s, k))
<1> DEFINE t == RemoveAt(s, k)
           from(j) == IF j < k THEN j ELSE j + 1
<1>1. /\ t \in Seq(Ranks) /\ Len(t) = Len(s) - 1
      /\ \A j \in 1 .. Len(s) - 1 : t[j] = IF j < k THEN s[j] ELSE s[j + 1]
  BY RemovedAt
<1>2. \A j \in 1 .. Len(t) : from(j) \in 1 .. Len(s) /\ t[j] = s[from(j)]
  <2> HIDE DEF t
  <2> QED
    BY <1>1
<1>3. \A i, j \in 1 .. Len(t) : i < j => from(i) < from(j)
  <2> HIDE DEF t
  <2> QED
    BY <1>1
<1> HIDE DEF t, from
<1>4. Ascends(t)
  BY <1>2, <1>3 DEF Ascends
<1> QED
  BY <1>1, <1>4 DEF t

\* A card that is dropped keeps the column in order.
LEMMA DropKeepsOrder ==
  ASSUME NEW rest \in Seq(Ranks), Ascends(rest), NEW k \in 1 .. Len(rest) + 1,
         Drop(rest, k)
  PROVE  column' \in Seq(Ranks) /\ Ascends(column')
<1> DEFINE a == Above(rest, k)
           b == Below(rest, k)
<1>1. column' = InsertAt(rest, k, RankBetween(a, b))
  BY DEF Drop
<1>2. /\ a \in Ranks \cup {None} /\ (k > 1 => a = rest[k - 1] /\ a \in Ranks)
      /\ b \in Ranks \cup {None} /\ (k <= Len(rest) => b = rest[k] /\ b \in Ranks)
      /\ k = 1 => a = None
      /\ k > Len(rest) => b = None
  BY DEF Above, Below
<1>3. None \notin Ranks
  BY NoneAssumption DEF Ranks
<1>4. k > 1 /\ k <= Len(rest) => Less(rest[k - 1], rest[k])
  BY DEF Ascends
<1>5. Ordered(a, b)
  BY <1>2, <1>4 DEF Ordered
<1> HIDE DEF a, b
<1>6. /\ RankBetween(a, b) \in Ranks
      /\ a # None => Less(a, RankBetween(a, b))
      /\ b # None => Less(RankBetween(a, b), b)
  BY <1>2, <1>5, StrictlyBetween
<1>7. k > 1 => Less(rest[k - 1], RankBetween(a, b))
  BY <1>2, <1>3, <1>6
<1>8. k <= Len(rest) => Less(RankBetween(a, b), rest[k])
  BY <1>2, <1>3, <1>6
<1> QED
  BY <1>1, <1>6, <1>7, <1>8, InsertKeepsOrder

LEMMA CreateKeepsOrder ==
  ASSUME ColumnInv, CreateCard
  PROVE  column' \in Seq(Ranks) /\ Ascends(column')
<1> DEFINE rank == IF column = <<>> THEN FirstRank ELSE RankBetween(Last(column), None)
           n == Len(column) + 1
<1>1. column' = Append(column, rank) /\ column \in Seq(Ranks) /\ Ascends(column)
  BY DEF CreateCard, ColumnInv, InOrder, Ascends
<1>2. rank \in Ranks /\ (n > 1 => Less(column[n - 1], rank))
  <2>1. CASE column = <<>>
    BY <2>1, FirstRankIsARank
  <2>2. CASE column # <<>>
    <3>1. Last(column) = column[n - 1] /\ Last(column) \in Ranks
      BY <1>1, <2>2 DEF Last
    <3>2. Last(column) # None
      BY <3>1, NoneAssumption DEF Ranks
    <3> QED
      BY <2>2, <3>1, <3>2, StrictlyBetween DEF Ordered
  <2> QED
    BY <2>1, <2>2
<1> HIDE DEF rank
<1>3. column' = InsertAt(column, n, rank)
  BY <1>1 DEF InsertAt
<1> QED
  BY <1>1, <1>2, <1>3, InsertKeepsOrder

\* A column stays in the order its users gave it, whatever its length and wherever
\* cards are dropped, created, taken out and moved: every rank that a drop needs
\* exists, and no other card is renumbered (IssuesService.move, rank.ts).
THEOREM ColumnStaysInOrder == Spec => []ColumnInv
<1>1. Init => ColumnInv
  BY DEF Init, ColumnInv, InOrder
<1>2. ColumnInv /\ [Next]_column => ColumnInv'
  <2> SUFFICES ASSUME ColumnInv, Next
               PROVE  column' \in Seq(Ranks) /\ Ascends(column')
    BY DEF ColumnInv, InOrder, Ascends
  <2>1. column \in Seq(Ranks) /\ Ascends(column)
    BY DEF ColumnInv, InOrder, Ascends
  <2>2. CASE CreateCard
    BY <2>2, CreateKeepsOrder
  <2>3. CASE MoveIn
    BY <2>1, <2>3, DropKeepsOrder DEF MoveIn
  <2>4. CASE MoveWithin
    <3>1. PICK j \in 1 .. Len(column), k \in 1 .. Len(column) : Drop(RemoveAt(column, j), k)
      BY <2>4 DEF MoveWithin
    <3>2. RemoveAt(column, j) \in Seq(Ranks) /\ Ascends(RemoveAt(column, j))
          /\ Len(RemoveAt(column, j)) = Len(column) - 1
      BY <2>1, RemoveKeepsOrder, RemovedAt
    <3>3. k \in 1 .. Len(RemoveAt(column, j)) + 1
      BY <2>1, <3>2
    <3> QED
      BY <3>1, <3>2, <3>3, DropKeepsOrder
  <2>5. CASE Leave
    BY <2>1, <2>5, RemoveKeepsOrder DEF Leave
  <2> QED
    BY <2>2, <2>3, <2>4, <2>5 DEF Next
<1> QED
  BY <1>1, <1>2, PTL DEF Spec

\* The invariant the run checks: the ranks of a column ascend from top to bottom.
THEOREM RanksAscend == Spec => []InOrder
<1>1. ColumnInv => InOrder
  BY DEF ColumnInv
<1> QED
  BY <1>1, ColumnStaysInOrder, PTL

-----------------------------------------------------------------------------
(* Attachments.                                                            *)

\* A removal that has deleted a row holds it, alone, and the row is still listed for
\* everybody else; once it has emptied the store, the object is gone or was left behind.
HeldIsListed ==
  /\ \A u \in Uploads : \A r \in Removals :
       holder[u] = r => removal[r].of = u /\ removal[r].at \in {"deleted", "emptied"}
  /\ \A r \in Removals : removal[r].at \in {"found", "deleted", "emptied", "late"} =>
       removal[r].of \in Uploads
  /\ \A r \in Removals : removal[r].at \in {"deleted", "emptied"} => removal[r].of \in rows
  /\ \A r \in Emptied : removal[r].of \notin stored \/ removal[r].of \in left

\* An upload has its object before it has a row, and a row only when it is done, as
\* it was for a handler that deletes its object late.
UploadsInOrder ==
  /\ \A u \in Uploads : up[u] \in {"put", "inserted"} => u \in stored
  /\ \A u \in rows : up[u] = "done"
  /\ \A r \in Removals : removal[r].at = "late" => up[removal[r].of] = "done"

FilesInv ==
  FilesTypeOK /\ HeldIsListed /\ UploadsInOrder /\ ListedCanBeFetched /\ NoOtherOrphans

LEMMA FilesInvInit == FilesInit => FilesInv
  BY FilesAssumption DEF FilesInit, FilesInv, FilesTypeOK, HeldIsListed, UploadsInOrder, ListedCanBeFetched,
     NoOtherOrphans, Emptied

\* The steps of an upload.
LEMMA UploadsKeepIt ==
  ASSUME FilesInv, NEW u \in Uploads,
         Presign(u) \/ Put(u) \/ Abandon(u) \/ Confirm(u) \/ EndConfirm(u)
  PROVE  FilesInv'
<1> USE DEF FilesInv, FilesTypeOK, HeldIsListed, UploadsInOrder, ListedCanBeFetched,
            NoOtherOrphans, Emptied
<1>1. CASE Presign(u) BY <1>1 DEF Presign
<1>2. CASE Put(u) BY <1>2 DEF Put
<1>3. CASE Abandon(u) BY <1>3 DEF Abandon
<1>4. CASE Confirm(u) BY <1>4 DEF Confirm, MayConfirm
<1>5. CASE EndConfirm(u) BY <1>5 DEF EndConfirm
<1>6. QED BY <1>1, <1>2, <1>3, <1>4, <1>5

\* The steps of a removal.
LEMMA RemovalsKeepIt ==
  ASSUME FilesInv, NEW r \in Removals,
         \/ Find(r) \/ DeleteRow(r) \/ DeleteObject(r)
         \/ CommitRemoval(r) \/ RollBack(r) \/ DeleteLate(r)
  PROVE  FilesInv'
<1> USE FilesAssumption DEF FilesInv, FilesTypeOK, HeldIsListed, UploadsInOrder,
            ListedCanBeFetched, NoOtherOrphans, Emptied
<1>1. CASE Find(r) BY <1>1 DEF Find
<1>2. CASE DeleteRow(r)
  <2>1. CASE removal[r].of \in rows
    <3>1. /\ removal' = [removal EXCEPT ![r].at = "deleted"]
          /\ holder' = [holder EXCEPT ![removal[r].of] = r]
          /\ holder[removal[r].of] = Nobody /\ removal[r].at = "found"
          /\ UNCHANGED <<stored, rows, issue, up, undone, left>>
      BY <1>2, <2>1 DEF DeleteRow, Go
    <3>2. removal'[r] = [at |-> "deleted", of |-> removal[r].of]
      BY <3>1
    <3>3. \A q \in Removals : q # r => removal'[q] = removal[q]
      BY <3>1
    <3>4. removal[r].of \in Uploads /\ Nobody \notin Removals
      BY <3>1
    <3>5. \A q \in Removals : removal[q].at \in {"deleted", "emptied"} => removal[q].of # removal[r].of
      BY <3>1, <3>4
    <3>6. FilesTypeOK'
      BY <3>1, <3>2, <3>3, <3>4, <3>5
    <3>7. HeldIsListed' /\ UploadsInOrder'
      BY <2>1, <3>1, <3>2, <3>3, <3>4, <3>5
    <3>8. ListedCanBeFetched' /\ NoOtherOrphans'
      BY <3>1, <3>2, <3>3
    <3>9. QED BY <3>6, <3>7, <3>8
  <2>2. CASE removal[r].of \notin rows
    BY SMTT(30), <1>2, <2>2 DEF DeleteRow, Go
  <2>3. QED BY <2>1, <2>2
<1>3. CASE DeleteObject(r) BY <1>3 DEF DeleteObject, Go
<1>4. CASE CommitRemoval(r) BY <1>4 DEF CommitRemoval, Go, Release
<1>5. CASE RollBack(r)
  <2>1. CASE Go(r, "ended") BY <1>5, <2>1 DEF RollBack, Go, Release
  <2>2. CASE removal[r].at = "deleted" /\ Go(r, "late") BY <1>5, <2>2 DEF RollBack, Go, Release
  <2>3. QED BY <1>5, <2>1, <2>2 DEF RollBack
<1>6. CASE DeleteLate(r) BY <1>6 DEF DeleteLate, Go
<1>7. QED BY <1>1, <1>2, <1>3, <1>4, <1>5, <1>6

\* The deletion of the issue, whose cascade waits for the removals.
LEMMA DeletionKeepsIt ==
  ASSUME FilesInv, DeleteIssue \/ Cascade
  PROVE  FilesInv'
<1> USE FilesAssumption DEF FilesInv, FilesTypeOK, HeldIsListed, UploadsInOrder,
            ListedCanBeFetched, NoOtherOrphans, Emptied
<1>1. CASE DeleteIssue BY <1>1 DEF DeleteIssue
<1>2. CASE Cascade BY <1>2 DEF Cascade
<1>3. QED BY <1>1, <1>2

\* However uploads, removals and the deletion of the issue overlap and fail, the
\* store and the table stay in the relation that FilesInv describes.
THEOREM FilesStayTogether == FilesSpec => []FilesInv
<1>1. FilesInv /\ [FilesNext]_filesVars => FilesInv'
  <2> SUFFICES ASSUME FilesInv, [FilesNext]_filesVars PROVE FilesInv' OBVIOUS
  <2>1. CASE \E u \in Uploads : Presign(u) \/ Put(u) \/ Abandon(u) \/ Confirm(u) \/ EndConfirm(u)
    BY <2>1, UploadsKeepIt
  <2>2. CASE \E r \in Removals : \/ Find(r) \/ DeleteRow(r) \/ DeleteObject(r)
                                 \/ CommitRemoval(r) \/ RollBack(r) \/ DeleteLate(r)
    BY <2>2, RemovalsKeepIt
  <2>3. CASE DeleteIssue \/ Cascade
    BY <2>3, DeletionKeepsIt
  <2>4. CASE UNCHANGED filesVars
    BY <2>4 DEF filesVars, FilesInv, FilesTypeOK, HeldIsListed, UploadsInOrder,
                ListedCanBeFetched, NoOtherOrphans, Emptied
  <2>5. QED BY <2>1, <2>2, <2>3, <2>4 DEF FilesNext
<1>2. QED BY FilesInvInit, <1>1, PTL DEF FilesSpec

\* For any number of uploads and removals, a listed file can be fetched unless its
\* removal has emptied the store and not committed, or was rolled back, and its handler
\* had the object deleted before the roll-back or after it.
THEOREM ListedHaveObjects == FilesSpec => []ListedCanBeFetched
  BY FilesStayTogether, PTL DEF FilesInv

\* For any number of uploads and removals, an object without a row belongs to an
\* upload under way or is one the code gives up.
THEOREM OrphansAreKnown == FilesSpec => []NoOtherOrphans
  BY FilesStayTogether, PTL DEF FilesInv

-----------------------------------------------------------------------------
(* Seeding.                                                                *)

Drawers == Creates \cup Ticks
Holds(d) == draw[d].at \in {"drawn", "inserted"}

\* One creation at a time holds the project's row, and the counter waits for it.
OneCreator ==
  /\ \A q, r \in Creates : Holds(q) /\ Holds(r) => q = r
  /\ \A r \in Creates : Holds(r) => draw[r].n = counter + 1
  /\ \A t \in Ticks : draw[t].at # "inserted"

\* Once a run has set the counter it is at the seeded issues or above.
CounterIsPast ==
  /\ seed # Idle => runs > 0
  /\ counted => counter >= Seeds

\* A number of a seeded issue that is drawn was drawn early.
DrawnEarly == \A d \in Drawers : Holds(d) /\ draw[d].n <= Seeds => draw[d].n \in early

\* As long as the script set nothing back and nobody was early, a number is drawn once.
DrawnOnce ==
  ~setBack /\ early = {} =>
    /\ clashed = {}
    /\ \A n \in Numbers : card[n] # "none" => n <= Seeds \/ n <= counter
    /\ \A t \in Ticks : Holds(t) => draw[t].n <= counter /\ card[draw[t].n] = "none"
    /\ \A s, t \in Ticks : Holds(s) /\ Holds(t) /\ draw[s].n = draw[t].n => s = t

\* A creation or tick that holds a number holds one.
HeldIsNumber == \A d \in Drawers : Holds(d) => draw[d].n \in Numbers

SeedingInv ==
  /\ SeedingTypeOK /\ HeldIsNumber /\ OneCreator /\ CounterIsPast
  /\ DrawnEarly /\ SeedNumbersAreSeeds /\ DrawnOnce

LEMMA SeedingInvInit == SeedingInit => SeedingInv
<1> SUFFICES ASSUME SeedingInit PROVE SeedingInv OBVIOUS
<1> USE SeedingAssumption DEF SeedingInit
<1>1. \A d \in Drawers : draw[d] = [at |-> "new", n |-> 0]
  BY DEF Drawers
<1>2. HeldIsNumber /\ OneCreator /\ DrawnEarly
  BY <1>1 DEF HeldIsNumber, OneCreator, DrawnEarly, Holds, Drawers
<1>3. DrawnOnce
  BY <1>1 DEF DrawnOnce, Holds, Drawers
<1>4. CounterIsPast /\ SeedNumbersAreSeeds
  BY DEF CounterIsPast, SeedNumbersAreSeeds, Numbers, Idle
<1>5. SeedingTypeOK
  <2>1. draw \in [Creates \cup Ticks -> [at : {"new", "drawn", "inserted", "done", "failed"},
                                        n : {0} \cup Numbers]]
    OBVIOUS
  <2>2. card \in [Numbers -> {"none", "user", "tick", "seed"}]
    OBVIOUS
  <2>3. counter \in 0 .. MaxNumber /\ seed \in 0 .. Seeds + 1 /\ runs \in 0 .. MaxRuns
    BY DEF Idle
  <2>4. counted \in BOOLEAN /\ setBack \in BOOLEAN
    OBVIOUS
  <2>5. QED BY <2>1, <2>2, <2>3, <2>4 DEF SeedingTypeOK
<1>6. QED BY <1>2, <1>3, <1>4, <1>5 DEF SeedingInv

\* A number is drawn: above the counter, and recorded if it is early.
LEMMA IncrementKeepsIt ==
  ASSUME SeedingInv, NEW d \in Drawers, Increment(d),
         \/ d \in Creates /\ UNCHANGED counter
         \/ d \in Ticks /\ counter' = counter + 1
  PROVE  SeedingInv'
<1> USE SeedingAssumption DEF SeedingInv
<1>1. /\ runs > 0 /\ draw[d].at = "new" /\ RowIsFree /\ counter < MaxNumber
      /\ draw' = [draw EXCEPT ![d] = [at |-> "drawn", n |-> counter + 1]]
      /\ early' = IF counted THEN early ELSE early \cup {counter + 1}
      /\ UNCHANGED <<card, seed, runs, clashed, counted, setBack>>
  BY DEF Increment
<1>2. counter \in 0 .. MaxNumber /\ counter + 1 \in Numbers /\ counter' \in {counter, counter + 1}
  BY <1>1 DEF SeedingTypeOK, Numbers
<1>3. /\ draw'[d] = [at |-> "drawn", n |-> counter + 1]
      /\ \A e \in Drawers : e # d => draw'[e] = draw[e]
  BY <1>1 DEF SeedingTypeOK, Drawers
<1>4. SeedingTypeOK'
  BY <1>1, <1>2 DEF SeedingTypeOK, Numbers, Drawers
<1>5. HeldIsNumber'
  BY <1>2, <1>3 DEF HeldIsNumber, Holds, Numbers
<1>6. OneCreator'
  BY <1>1, <1>3 DEF OneCreator, Holds, RowIsFree, Drawers
<1>7. CounterIsPast'
  BY <1>1, <1>2 DEF CounterIsPast
<1>8. DrawnEarly'
  BY <1>1, <1>2, <1>3 DEF DrawnEarly, CounterIsPast, Holds
<1>9. SeedNumbersAreSeeds'
  BY <1>1 DEF SeedNumbersAreSeeds
<1>10. DrawnOnce'
  <2> SUFFICES ASSUME ~setBack, early' = {} PROVE DrawnOnce'
    BY <1>1 DEF DrawnOnce
  <2>1. early = {} /\ counted /\ counter >= Seeds
    BY <1>1 DEF CounterIsPast
  <2>2. \A n \in Numbers : card[n] # "none" => n <= counter
    BY <2>1, <1>2 DEF DrawnOnce, Numbers
  <2>3. card[counter + 1] = "none"
    BY <2>2, <1>2
  <2>4. \A t \in Ticks : t # d /\ Holds(t)' => /\ Holds(t) /\ draw'[t] = draw[t]
                                              /\ draw[t].n <= counter /\ card[draw[t].n] = "none"
    BY <2>1, <1>3 DEF DrawnOnce, Holds, Drawers
  <2>5. \A t \in Ticks : Holds(t)' => draw'[t].n <= counter' /\ card'[draw'[t].n] = "none"
    <3> SUFFICES ASSUME NEW t \in Ticks, Holds(t)'
                 PROVE  draw'[t].n <= counter' /\ card'[draw'[t].n] = "none"
      OBVIOUS
    <3>1. CASE t = d BY <3>1, <1>1, <1>2, <1>3, <2>3
    <3>2. CASE t # d
      <4>1. draw[t].n \in Numbers BY <3>2, <2>4 DEF HeldIsNumber, Drawers
      <4>2. QED BY <3>2, <4>1, <1>1, <1>2, <2>4 DEF Numbers
    <3>3. QED BY <3>1, <3>2
  <2>6. \A s, t \in Ticks : Holds(s)' /\ Holds(t)' /\ draw'[s].n = draw'[t].n => s = t
    <3> SUFFICES ASSUME NEW s \in Ticks, NEW t \in Ticks, Holds(s)', Holds(t)',
                        draw'[s].n = draw'[t].n, s # t
                 PROVE  FALSE
      OBVIOUS
    <3>1. CASE s # d /\ t # d BY <3>1, <2>1, <2>4 DEF DrawnOnce
    <3>2. CASE s = d
      <4>1. draw[t].n \in Numbers /\ draw[t].n <= counter /\ draw[t].n = counter + 1
        BY <3>2, <1>3, <2>4 DEF HeldIsNumber, Drawers
      <4>2. QED BY <4>1, <1>2 DEF Numbers
    <3>3. CASE t = d
      <4>1. draw[s].n \in Numbers /\ draw[s].n <= counter /\ draw[s].n = counter + 1
        BY <3>3, <1>3, <2>4 DEF HeldIsNumber, Drawers
      <4>2. QED BY <4>1, <1>2 DEF Numbers
    <3>4. QED BY <3>1, <3>2, <3>3
  <2>7. clashed' = {} BY <1>1, <2>1 DEF DrawnOnce
  <2>8. \A n \in Numbers : card'[n] # "none" => n <= Seeds \/ n <= counter'
    BY <1>1, <1>2, <2>2 DEF Numbers
  <2>9. QED BY <2>5, <2>6, <2>7, <2>8 DEF DrawnOnce
<1>11. QED BY <1>4, <1>5, <1>6, <1>7, <1>8, <1>9, <1>10

\* A number that is drawn in peace, once the counter was set, is free.
LEMMA DrawnIsFree ==
  ASSUME SeedingInv, NEW d \in Drawers, Holds(d), ~setBack, early = {}
  PROVE  card[draw[d].n] = "none" /\ draw[d].n > Seeds
<1> USE SeedingAssumption DEF SeedingInv
<1>1. draw[d].n \in Numbers /\ draw[d].n > Seeds
  BY DEF HeldIsNumber, DrawnEarly, Numbers
<1>2. CASE d \in Ticks BY <1>1, <1>2 DEF DrawnOnce
<1>3. CASE d \in Creates
  <2>1. draw[d].n = counter + 1 /\ counter \in Nat BY <1>3 DEF OneCreator, SeedingTypeOK
  <2>2. QED BY <1>1, <2>1 DEF DrawnOnce, Numbers
<1>4. QED BY <1>2, <1>3 DEF Drawers

\* What follows an increment in a creation.
LEMMA CreateKeepsIt ==
  ASSUME SeedingInv, NEW r \in Creates, CreateInsert(r) \/ CreateCommit(r) \/ CreateRollback(r)
  PROVE  SeedingInv'
<1> USE SeedingAssumption DEF SeedingInv
<1>1. r \in Drawers /\ Holds(r) /\ draw[r].n \in Numbers /\ draw[r].n = counter + 1
  BY DEF CreateInsert, CreateCommit, CreateRollback, Holds, Drawers, HeldIsNumber, OneCreator
<1>2. PICK place \in {"inserted", "done", "failed"} : GoOn(r, place)
  BY DEF CreateInsert, CreateCommit, CreateRollback
<1>3. /\ draw'[r] = [at |-> place, n |-> draw[r].n]
      /\ \A e \in Drawers : e # r => draw'[e] = draw[e]
      /\ draw' \in [Drawers -> [at : {"new", "drawn", "inserted", "done", "failed"},
                                n : {0} \cup Numbers]]
  BY <1>1, <1>2 DEF GoOn, SeedingTypeOK, Drawers
<1>4. r \notin Ticks /\ UNCHANGED <<seed, runs, counted, setBack, early>> /\ counter \in Nat
  BY DEF CreateInsert, CreateCommit, CreateRollback, SeedingTypeOK
<1>5. \A e \in Drawers : Holds(e)' => Holds(e) /\ draw'[e].n = draw[e].n
  BY <1>1, <1>3 DEF Holds
<1>6. HeldIsNumber' /\ DrawnEarly'
  BY <1>4, <1>5 DEF HeldIsNumber, DrawnEarly, Numbers
<1>7. CASE CreateCommit(r)
  <2>1. /\ counter' = counter + 1 /\ card' = [card EXCEPT ![counter + 1] = "user"]
        /\ UNCHANGED clashed /\ ~Holds(r)'
    BY <1>1, <1>3, <1>7 DEF CreateCommit, GoOn, Holds, SeedingTypeOK
  <2>2. SeedingTypeOK'
    BY <1>1, <1>3, <1>4, <2>1 DEF SeedingTypeOK, Numbers, Drawers
  <2>3. OneCreator'
    <3>1. \A q \in Creates : ~Holds(q)'
      BY <1>1, <1>5, <2>1 DEF OneCreator, Drawers
    <3>2. QED BY <1>3, <1>4, <3>1 DEF OneCreator, Drawers
  <2>4. CounterIsPast'
    BY <1>4, <2>1 DEF CounterIsPast, SeedingTypeOK
  <2>5. SeedNumbersAreSeeds'
    BY <1>1, <1>4, <2>1 DEF SeedNumbersAreSeeds, DrawnEarly, SeedingTypeOK, Numbers
  <2>6. DrawnOnce'
    <3> SUFFICES ASSUME ~setBack, early = {} PROVE DrawnOnce'
      BY <1>4 DEF DrawnOnce
    <3>1. \A n \in Numbers : card'[n] # "none" => n <= Seeds \/ n <= counter'
      BY <1>1, <2>1 DEF DrawnOnce, SeedingTypeOK, Numbers
    <3>2. \A t \in Ticks : Holds(t)' => draw'[t].n <= counter' /\ card'[draw'[t].n] = "none"
      <4> SUFFICES ASSUME NEW t \in Ticks, Holds(t)'
                   PROVE  draw'[t].n <= counter' /\ card'[draw'[t].n] = "none"
        OBVIOUS
      <4>1. /\ draw'[t].n = draw[t].n /\ draw[t].n \in Numbers
            /\ draw[t].n <= counter /\ card[draw[t].n] = "none"
        BY <1>5 DEF DrawnOnce, HeldIsNumber, Drawers
      <4>2. QED BY <2>1, <4>1, <1>4 DEF Numbers, SeedingTypeOK
    <3>3. \A s, t \in Ticks : Holds(s)' /\ Holds(t)' /\ draw'[s].n = draw'[t].n => s = t
      BY <1>5 DEF DrawnOnce, Drawers
    <3>4. QED BY <2>1, <3>1, <3>2, <3>3 DEF DrawnOnce
  <2>7. QED BY <1>6, <2>2, <2>3, <2>4, <2>5, <2>6
<1>8. CASE CreateInsert(r) \/ CreateRollback(r)
  <2>1. UNCHANGED <<counter, card>> /\ clashed' \subseteq clashed \cup {r}
    BY <1>8 DEF CreateInsert, CreateRollback
  <2>2. ~setBack /\ early = {} => clashed' = clashed
    BY <1>1, <1>8, DrawnIsFree DEF CreateInsert, CreateRollback
  <2>3. SeedingTypeOK'
    BY <1>3, <1>4, <2>1 DEF SeedingTypeOK, Drawers
  <2>4. OneCreator'
    BY <1>3, <1>4, <1>5, <2>1 DEF OneCreator, Drawers
  <2>5. CounterIsPast' /\ SeedNumbersAreSeeds'
    BY <1>4, <2>1 DEF CounterIsPast, SeedNumbersAreSeeds
  <2>6. DrawnOnce'
    BY <1>4, <1>5, <2>1, <2>2 DEF DrawnOnce, Drawers
  <2>7. QED BY <1>6, <2>3, <2>4, <2>5, <2>6
<1>9. QED BY <1>7, <1>8

\* What follows an increment in a tick.
LEMMA TickKeepsIt ==
  ASSUME SeedingInv, NEW t \in Ticks, TickInsert(t) \/ TickDies(t)
  PROVE  SeedingInv'
<1> USE SeedingAssumption DEF SeedingInv
<1>1. t \in Drawers /\ Holds(t) /\ draw[t].n \in Numbers
  BY DEF TickInsert, TickDies, Holds, Drawers, HeldIsNumber
<1>2. PICK place \in {"done", "failed"} : GoOn(t, place)
  BY DEF TickInsert, TickDies
<1>3. /\ draw'[t] = [at |-> place, n |-> draw[t].n]
      /\ \A e \in Drawers : e # t => draw'[e] = draw[e]
      /\ draw' \in [Drawers -> [at : {"new", "drawn", "inserted", "done", "failed"},
                                n : {0} \cup Numbers]]
  BY <1>1, <1>2 DEF GoOn, SeedingTypeOK, Drawers
<1>4. UNCHANGED <<counter, seed, runs, counted, setBack, early>> /\ counter \in Nat
  BY DEF TickInsert, TickDies, SeedingTypeOK
<1>5. \A e \in Drawers : Holds(e)' => e # t /\ Holds(e) /\ draw'[e] = draw[e]
  BY <1>1, <1>3 DEF Holds
<1>6. HeldIsNumber' /\ DrawnEarly' /\ CounterIsPast'
  BY <1>4, <1>5 DEF HeldIsNumber, DrawnEarly, CounterIsPast, Numbers
<1>7. OneCreator'
  BY <1>3, <1>4, <1>5 DEF OneCreator, Drawers
<1>8. /\ \/ UNCHANGED card
         \/ card' = [card EXCEPT ![draw[t].n] = "tick"]
      /\ clashed' \subseteq clashed \cup {t}
  BY DEF TickInsert, TickDies
<1>9. SeedingTypeOK'
  BY <1>1, <1>3, <1>4, <1>8 DEF SeedingTypeOK, Drawers
<1>10. SeedNumbersAreSeeds'
  BY <1>1, <1>4, <1>8 DEF SeedNumbersAreSeeds, DrawnEarly, SeedingTypeOK, Numbers
<1>11. DrawnOnce'
  <2> SUFFICES ASSUME ~setBack, early = {} PROVE DrawnOnce'
    BY <1>4 DEF DrawnOnce
  <2>1. clashed' = {}
    BY <1>1, DrawnIsFree DEF TickInsert, TickDies, DrawnOnce
  <2>2. draw[t].n <= counter
    BY <1>1 DEF DrawnOnce
  <2>3. \A n \in Numbers : n # draw[t].n => card'[n] = card[n]
    BY <1>8 DEF SeedingTypeOK
  <2>4. \A s \in Ticks : Holds(s)' => /\ draw'[s] = draw[s] /\ draw[s].n # draw[t].n
                                     /\ draw[s].n \in Numbers /\ draw[s].n <= counter
                                     /\ card[draw[s].n] = "none"
    BY <1>1, <1>5 DEF DrawnOnce, HeldIsNumber, Drawers
  <2>5. \A n \in Numbers : card'[n] # "none" => n <= Seeds \/ n <= counter'
    BY <1>4, <2>2, <2>3 DEF DrawnOnce
  <2>6. \A s \in Ticks : Holds(s)' => draw'[s].n <= counter' /\ card'[draw'[s].n] = "none"
    BY <1>4, <2>3, <2>4
  <2>7. \A s, e \in Ticks : Holds(s)' /\ Holds(e)' /\ draw'[s].n = draw'[e].n => s = e
    BY <1>5 DEF DrawnOnce, Drawers
  <2>8. QED BY <2>1, <2>5, <2>6, <2>7 DEF DrawnOnce
<1>12. QED BY <1>6, <1>7, <1>9, <1>10, <1>11

\* The seed script, and deletions.
LEMMA ScriptKeepsIt ==
  ASSUME SeedingInv, SeedStart \/ SeedUpsert \/ SeedCounter \/ SeedDies \/ DeleteCard
  PROVE  SeedingInv'
<1> USE SeedingAssumption DEF SeedingInv
<1>1. UNCHANGED <<draw, clashed, early>>
  BY DEF SeedStart, SeedUpsert, SeedCounter, SeedDies, DeleteCard
<1>2. \A d : Holds(d)' <=> Holds(d)
  BY <1>1 DEF Holds
<1>3. HeldIsNumber' /\ DrawnEarly'
  BY <1>1, <1>2 DEF HeldIsNumber, DrawnEarly
<1>4. CASE SeedStart
  BY <1>3, <1>2, <1>4
  DEF SeedStart, SeedingTypeOK, OneCreator, CounterIsPast, SeedNumbersAreSeeds,
      DrawnOnce, Idle
<1>5. CASE SeedUpsert
  <2>1. /\ seed \in 1 .. Seeds /\ seed \in Numbers /\ seed' = seed + 1 /\ UNCHANGED <<counter, runs, counted, setBack>>
        /\ card' = IF card[seed] = "none" THEN [card EXCEPT ![seed] = "seed"] ELSE card
    BY <1>5 DEF SeedUpsert, Numbers
  <2>2. SeedingTypeOK' /\ CounterIsPast'
    BY <1>1, <2>1 DEF SeedingTypeOK, CounterIsPast, Idle
  <2>3. OneCreator'
    BY <1>1, <1>2, <2>1 DEF OneCreator
  <2>4. SeedNumbersAreSeeds'
    BY <1>1, <2>1 DEF SeedNumbersAreSeeds, SeedingTypeOK
  <2>5. DrawnOnce'
    <3> SUFFICES ASSUME ~setBack, early = {} PROVE DrawnOnce'
      BY <1>1, <2>1 DEF DrawnOnce
    <3>1. \A t \in Ticks : Holds(t) => draw[t].n \in Numbers /\ draw[t].n # seed
      BY <2>1, DrawnIsFree DEF Drawers, HeldIsNumber, Numbers
    <3>2. \A n \in Numbers : n # seed => card'[n] = card[n]
      BY <2>1 DEF SeedingTypeOK
    <3>3. \A n \in Numbers : card'[n] # "none" => n <= Seeds \/ n <= counter'
      BY <2>1, <3>2 DEF DrawnOnce
    <3>4. QED BY <1>1, <1>2, <2>1, <3>1, <3>2, <3>3 DEF DrawnOnce
  <2>6. QED BY <1>3, <2>2, <2>3, <2>4, <2>5
<1>6. CASE SeedCounter
  <2>1. /\ RowIsFree /\ counter' = Seeds /\ seed' = Idle /\ counted' = TRUE
        /\ UNCHANGED <<card, runs>>
        /\ setBack' = (setBack \/ \E n \in InUse : n > Seeds)
    BY <1>6 DEF SeedCounter, NewCounter
  <2>2. SeedingTypeOK' /\ CounterIsPast' /\ SeedNumbersAreSeeds'
    BY <1>1, <2>1 DEF SeedingTypeOK, CounterIsPast, SeedNumbersAreSeeds, Idle
  <2>3. OneCreator'
    BY <1>1, <1>2, <2>1 DEF OneCreator, RowIsFree, Holds
  <2>4. DrawnOnce'
    <3> SUFFICES ASSUME ~setBack', early = {} PROVE DrawnOnce'
      BY <1>1 DEF DrawnOnce
    <3>1. ~setBack /\ \A n \in InUse : ~(n > Seeds)
      BY <2>1
    <3>2. \A n \in Numbers : card[n] # "none" => n <= Seeds
      BY <3>1 DEF InUse, Numbers
    <3>3. \A t \in Ticks : ~Holds(t)
      <4> SUFFICES ASSUME NEW t \in Ticks, Holds(t) PROVE FALSE OBVIOUS
      <4>1. draw[t].at = "drawn" BY DEF Holds, OneCreator
      <4>2. draw[t].n \in InUse BY <4>1 DEF InUse
      <4>3. draw[t].n > Seeds BY <3>1, DrawnIsFree DEF Drawers
      <4>4. QED BY <3>1, <4>2, <4>3
    <3>4. QED BY <1>1, <1>2, <2>1, <3>1, <3>2, <3>3 DEF DrawnOnce
  <2>5. QED BY <1>3, <2>2, <2>3, <2>4
<1>7. CASE DeleteCard
  <2>1. PICK n \in Numbers : card' = [card EXCEPT ![n] = "none"]
    BY <1>7 DEF DeleteCard
  <2>2. UNCHANGED <<counter, seed, runs, counted, setBack>>
    BY <1>7 DEF DeleteCard
  <2>3. \A k \in Numbers : card'[k] = IF k = n THEN "none" ELSE card[k]
    BY <2>1 DEF SeedingTypeOK
  <2>4. SeedingTypeOK' /\ CounterIsPast' /\ OneCreator'
    BY <1>1, <1>2, <2>1, <2>2 DEF SeedingTypeOK, CounterIsPast, OneCreator
  <2>5. SeedNumbersAreSeeds'
    BY <1>1, <2>3 DEF SeedNumbersAreSeeds, Numbers
  <2>6. DrawnOnce'
    BY <1>1, <1>2, <2>2, <2>3 DEF DrawnOnce, HeldIsNumber, Drawers
  <2>7. QED BY <1>3, <2>4, <2>5, <2>6
<1>8. CASE SeedDies
  BY <1>3, <1>2, <1>8
  DEF SeedDies, SeedingTypeOK, OneCreator, CounterIsPast, SeedNumbersAreSeeds, DrawnOnce, Idle
<1>9. QED BY <1>4, <1>5, <1>6, <1>7, <1>8

\* For any number of creations, ticks and runs of the script, dead or not, the counter, the
\* cards and the drawn numbers stay in the relation that SeedingInv describes.
THEOREM NumbersStayApart == SeedingSpec => []SeedingInv
<1>1. SeedingInv /\ [SeedingNext]_seedingVars => SeedingInv'
  <2> SUFFICES ASSUME SeedingInv, [SeedingNext]_seedingVars PROVE SeedingInv' OBVIOUS
  <2>1. CASE UNCHANGED seedingVars
    BY <2>1 DEF seedingVars, SeedingInv, SeedingTypeOK, HeldIsNumber, OneCreator, CounterIsPast,
                DrawnEarly, SeedNumbersAreSeeds, DrawnOnce, Holds
  <2>2. ASSUME NEW r \in Creates, \/ CreateIncrement(r) \/ CreateInsert(r)
                                  \/ CreateCommit(r) \/ CreateRollback(r)
        PROVE  SeedingInv'
    BY <2>2, IncrementKeepsIt, CreateKeepsIt DEF CreateIncrement, Drawers
  <2>3. ASSUME NEW t \in Ticks, TickIncrement(t) \/ TickInsert(t) \/ TickDies(t)
        PROVE  SeedingInv'
    BY <2>3, IncrementKeepsIt, TickKeepsIt DEF TickIncrement, Drawers
  <2>4. CASE SeedStart \/ SeedUpsert \/ SeedCounter \/ SeedDies \/ DeleteCard
    BY <2>4, ScriptKeepsIt
  <2>5. QED BY <2>1, <2>2, <2>3, <2>4 DEF SeedingNext
<1>2. QED BY SeedingInvInit, <1>1, PTL DEF SeedingSpec

\* For any number of creations, ticks, seeded issues and runs, nobody draws a number
\* that an issue has unless the script set the counter back, or numbers were drawn
\* before any run had set it.
THEOREM OnlySeedingClashes == SeedingSpec => []ClashNeedsSeed
<1>1. SeedingInv => ClashNeedsSeed
  BY DEF SeedingInv, DrawnOnce, ClashNeedsSeed, SeedingTypeOK
<1>2. QED BY NumbersStayApart, <1>1, PTL

\* For any number of them, dead runs included, the script never takes an issue that
\* was drawn after a run had set the counter for one of its own.
THEOREM SeededStaySeeded == SeedingSpec => []SeedNumbersAreSeeds
  BY NumbersStayApart, PTL DEF SeedingInv

-----------------------------------------------------------------------------
(* Billing.                                                                *)

Paid(c) == checkout[c].at = "paid"

\* What Stripe tells: events of subscriptions that were paid for, numbered, the
\* last of them "deleted" if the subscription has ended.
Told ==
  /\ \A e \in events : Paid(e.sub) /\ e.customer = checkout[e.sub].with
  /\ \A e \in events : e.k = "deleted" <=> e.status = "canceled"
  /\ \A c \in Checkouts : Paid(c) =>
       \E e \in events : e.sub = c /\ \A d \in events : d.sub = c => d.n <= e.n
  /\ \A d, e \in events : d.sub = e.sub /\ d.n = e.n => d = e

\* Whoever can pay does so as a customer the row has, or had before it was overwritten.
CustomersAreStored ==
  \A c \in Checkouts :
    /\ checkout[c].at = "created" => checkout[c].with = c
    /\ checkout[c].at \in {"session", "paid"} =>
         /\ checkout[c].with \in Checkouts
         /\ checkout[c].with = record.customer \/ checkout[c].with \in replaced

\* An event is on its way, or being handled, or written (it or a newer one), or its
\* customer was overwritten.
NoneIsLost ==
  \A e \in events :
    e \in due \/ (\E h \in Handlers : doing[h] = e) \/ e.customer \in replaced \/ e.n <= last[e.sub]

\* The row says what the event written last said.
RowIsLastWritten ==
  /\ \A c \in Checkouts : last[c] > 0 => record.sub # Missing
  /\ record.sub # Missing =>
       \E e \in events : /\ e.sub = record.sub /\ record.status = StatusOf(e.status)
                         /\ record.plan = PlanOf(e)
                         /\ e.n = last[e.sub] \/ e.sub \in stale

BillingInv ==
  /\ BillingTypeOK /\ Told /\ CustomersAreStored /\ NoneIsLost /\ RowIsLastWritten
  /\ UnmatchedWasReplaced

LEMMA BillingInvInit == BillingInit => BillingInv
  BY BillingAssumption
  DEF BillingInit, BillingInv, BillingTypeOK, Told, CustomersAreStored, NoneIsLost,
      RowIsLastWritten, UnmatchedWasReplaced, Paid

\* A subscription that was paid for has a newest event.
LEMMA NewestIs ==
  ASSUME BillingInv, NEW c \in Checkouts, Paid(c)
  PROVE  /\ Newest(c) \in events /\ Newest(c).sub = c
         /\ \A d \in events : d.sub = c => d.n <= Newest(c).n
<1>1. \E e \in events : e.sub = c /\ \A d \in events : d.sub = c => d.n <= e.n
  BY DEF BillingInv, Told
<1>2. QED BY <1>1 DEF Newest

\* The steps of a checkout before it is paid for.
LEMMA CheckoutKeepsIt ==
  ASSUME BillingInv, NEW c \in Checkouts, ReadCustomer(c) \/ StoreCustomer(c)
  PROVE  BillingInv'
<1> USE BillingAssumption DEF BillingInv
<1>1. UNCHANGED <<events, due, doing, repeats, last, stale, unmatched>>
  BY DEF ReadCustomer, StoreCustomer, told
<1>2. ~Paid(c) /\ UNCHANGED <<record.sub, record.plan, record.status>> /\ replaced \subseteq replaced'
  BY DEF ReadCustomer, StoreCustomer, told, Paid, BillingTypeOK
<1>3. /\ checkout'[c].at \in {"created", "session"} /\ checkout'[c].with \in Checkouts
      /\ checkout'[c].at = "created" => checkout'[c].with = c
      /\ checkout'[c].at = "session" => checkout'[c].with = record'.customer
      /\ \A d \in Checkouts : d # c => checkout'[d] = checkout[d]
      /\ checkout' \in [Checkouts -> [at : {"new", "created", "session", "paid"},
                                      with : Checkouts \cup {Missing}]]
  <2>1. CASE ReadCustomer(c)
    BY <2>1 DEF ReadCustomer, BillingTypeOK
  <2>2. CASE StoreCustomer(c)
    <3>1. checkout[c].at = "created" /\ checkout[c].with = c
      BY <2>2 DEF StoreCustomer, CustomersAreStored
    <3>2. checkout'[c] = [at |-> "session", with |-> c] /\ record'.customer = c
      BY <2>2, <3>1 DEF StoreCustomer, BillingTypeOK
    <3>3. QED BY <2>2, <3>2 DEF StoreCustomer, BillingTypeOK
  <2>3. QED BY <2>1, <2>2
<1>4. BillingTypeOK'
  <2>1. record' \in [customer : Checkouts \cup {Missing}, sub : Checkouts \cup {Missing},
                     plan : {"FREE", "PRO", "BUSINESS"},
                     status : {"ACTIVE", "TRIALING", "PAST_DUE", "CANCELED", "INCOMPLETE"}]
    BY DEF ReadCustomer, StoreCustomer, BillingTypeOK
  <2>2. replaced' \subseteq Checkouts
    BY DEF ReadCustomer, StoreCustomer, told, BillingTypeOK
  <2>3. QED BY <1>1, <1>3, <2>1, <2>2 DEF BillingTypeOK
<1>5. \A e \in events : e.sub \in Checkouts /\ e.sub # c
  BY <1>2 DEF Told, BillingTypeOK, StripeEvent
<1>6. \A d \in Checkouts : Paid(d)' <=> Paid(d)
  BY <1>2, <1>3 DEF Paid
<1>7. Told'
  BY <1>1, <1>3, <1>5, <1>6 DEF Told
<1>8. CustomersAreStored'
  <2>1. record'.customer = record.customer \/ record.customer \in replaced' \cup {Missing}
    BY DEF ReadCustomer, StoreCustomer, BillingTypeOK
  <2>2. \A d \in Checkouts : checkout[d].at \in {"session", "paid"} =>
          checkout[d].with = record'.customer \/ checkout[d].with \in replaced'
    BY <1>2, <2>1 DEF CustomersAreStored
  <2>3. QED BY <1>3, <2>2 DEF CustomersAreStored
<1>9. NoneIsLost' /\ RowIsLastWritten' /\ UnmatchedWasReplaced'
  BY <1>1, <1>2 DEF NoneIsLost, RowIsLastWritten, UnmatchedWasReplaced, PlanOf
<1>10. QED BY <1>4, <1>7, <1>8, <1>9

\* An event is added: the newest of its subscription.
LEMMA TellKeepsIt ==
  ASSUME BillingInv, NEW c \in Checkouts, NEW e \in StripeEvent, Tell(e), e.sub = c,
         e.customer = checkout[c].with, e.k = "deleted" <=> e.status = "canceled",
         \A d \in events : d.sub = c => d.n < e.n,
         checkout[c].at \in {"session", "paid"},
         checkout' = [checkout EXCEPT ![c].at = "paid"],
         UNCHANGED <<record, doing, repeats, told>>
  PROVE  BillingInv'
<1> USE BillingAssumption DEF BillingInv
<1>1. events' = events \cup {e} /\ due' = due \cup {e} /\ UNCHANGED <<replaced, last, stale, unmatched>>
  BY DEF Tell, told
<1>2. /\ checkout'[c] = [at |-> "paid", with |-> checkout[c].with]
      /\ \A d \in Checkouts : d # c => checkout'[d] = checkout[d]
      /\ checkout' \in [Checkouts -> [at : {"new", "created", "session", "paid"},
                                      with : Checkouts \cup {Missing}]]
  BY DEF BillingTypeOK
<1>3. BillingTypeOK'
  BY <1>1, <1>2 DEF BillingTypeOK
<1>4. \A d \in events : d.sub \in Checkouts /\ d.n \in Nat
  BY DEF BillingTypeOK, StripeEvent
<1>5. e.n \in Nat
  BY DEF StripeEvent
<1>6. Told'
  <2>1. ASSUME NEW d \in events' PROVE Paid(d.sub)' /\ d.customer = checkout'[d.sub].with
    <3>1. CASE d.sub = c /\ d \in events
      <4>1. d.customer = checkout[d.sub].with BY <3>1 DEF Told
      <4>2. d.customer = checkout[c].with BY <3>1, <4>1
      <4>3. checkout'[c].at = "paid" /\ checkout'[c].with = checkout[c].with BY <1>2
      <4>4. QED BY <3>1, <4>2, <4>3 DEF Paid
    <3>2. CASE d = e BY <3>2, <1>2 DEF Paid
    <3>3. CASE d.sub # c /\ d \in events BY <3>3, <1>2, <1>4 DEF Told, Paid
    <3>4. QED BY <1>1, <3>1, <3>2, <3>3
  <2>2. \A d \in events' : d.k = "deleted" <=> d.status = "canceled"
    BY <1>1 DEF Told
  <2>3. \A b \in Checkouts : Paid(b)' =>
          \E g \in events' : g.sub = b /\ \A d \in events' : d.sub = b => d.n <= g.n
    <3> SUFFICES ASSUME NEW b \in Checkouts, Paid(b)'
                 PROVE  \E g \in events' : g.sub = b /\ \A d \in events' : d.sub = b => d.n <= g.n
      OBVIOUS
    <3>1. CASE b = c BY <3>1, <1>1, <1>4, <1>5
    <3>2. CASE b # c BY <3>2, <1>1, <1>2 DEF Told, Paid
    <3>3. QED BY <3>1, <3>2
  <2>4. \A d, g \in events' : d.sub = g.sub /\ d.n = g.n => d = g
    BY <1>1, <1>4, <1>5 DEF Told
  <2>5. QED BY <2>1, <2>2, <2>3, <2>4 DEF Told
<1>7. CustomersAreStored'
  <2>1. \A d \in Checkouts : /\ checkout'[d].with = checkout[d].with
                            /\ checkout'[d].at # checkout[d].at => d = c /\ checkout'[d].at = "paid"
    BY <1>2
  <2> QED
    BY <1>1, <2>1 DEF CustomersAreStored
<1>8. NoneIsLost' /\ RowIsLastWritten' /\ UnmatchedWasReplaced'
  BY <1>1 DEF NoneIsLost, RowIsLastWritten, UnmatchedWasReplaced
<1>9. QED BY <1>3, <1>6, <1>7, <1>8

LEMMA PayKeepsIt ==
  ASSUME BillingInv, NEW c \in Checkouts, Pay(c)
  PROVE  BillingInv'
<1>1. PICK p \in DOMAIN Prices, s \in {"active", "incomplete"} :
        Tell([k |-> "created", sub |-> c, customer |-> checkout[c].with, n |-> 1,
              status |-> s, price |-> p])
  BY DEF Pay, Sold
<1> DEFINE e == [k |-> "created", sub |-> c, customer |-> checkout[c].with, n |-> 1,
                 status |-> s, price |-> p]
<1>2. checkout[c].at = "session" /\ checkout[c].with \in Checkouts
  BY DEF Pay, HasSession, BillingInv, CustomersAreStored
<1>3. e \in StripeEvent
  BY <1>2, BillingAssumption DEF StripeEvent, Statuses
<1>4. \A d \in events : d.sub # c
  BY <1>2 DEF BillingInv, Told, Paid
<1>5. QED BY <1>1, <1>2, <1>3, <1>4, TellKeepsIt DEF Pay

LEMMA ChangeKeepsIt ==
  ASSUME BillingInv, NEW c \in Checkouts, ChangeSubscription(c)
  PROVE  BillingInv'
<1> DEFINE o == Newest(c)
<1>1. Paid(c) /\ o.n < MaxEvents /\ o.status \notin {"canceled", "incomplete_expired"}
  BY DEF ChangeSubscription, Paid
<1>2. /\ o \in StripeEvent /\ o.sub = c /\ o.customer = checkout[c].with
      /\ \A d \in events : d.sub = c => d.n < o.n + 1
  <2>1. o \in events /\ o.sub = c /\ \A d \in events : d.sub = c => d.n <= o.n
    BY <1>1, NewestIs
  <2>2. \A d \in events : d \in StripeEvent /\ d.n \in Nat
    BY DEF BillingInv, BillingTypeOK, StripeEvent
  <2>3. QED BY <2>1, <2>2 DEF BillingInv, Told
<1>3. PICK k \in {"updated", "deleted"}, s \in Statuses, p \in DOMAIN Prices :
        Tell(After(o, k, s, p)) /\ (k = "deleted" <=> s = "canceled")
  <2>1. o.status \in Statuses /\ o.price \in DOMAIN Prices
    BY <1>2 DEF StripeEvent
  <2>2. {"active", "past_due", "incomplete_expired", "canceled"} \subseteq Statuses
    BY DEF Statuses
  <2>3. QED BY <1>1, <2>1, <2>2 DEF ChangeSubscription
<1>4. /\ After(o, k, s, p) \in StripeEvent /\ After(o, k, s, p).sub = c
      /\ After(o, k, s, p).customer = checkout[c].with /\ After(o, k, s, p).n = o.n + 1
      /\ After(o, k, s, p).k = k /\ After(o, k, s, p).status = s
  BY <1>1, <1>2, BillingAssumption DEF StripeEvent, After
<1>5. checkout' = [checkout EXCEPT ![c].at = "paid"] /\ UNCHANGED <<record, doing, repeats, told>>
  BY <1>1 DEF ChangeSubscription, Paid, BillingInv, BillingTypeOK
<1>6. QED BY <1>1, <1>2, <1>3, <1>4, <1>5, TellKeepsIt DEF Paid

\* An event is delivered again, found to have a row or none, written, or failed.
LEMMA RepeatKeepsIt ==
  ASSUME BillingInv, NEW e \in events, Repeat(e)
  PROVE  BillingInv'
  BY BillingAssumption
  DEF Repeat, told, BillingInv, BillingTypeOK, Told, CustomersAreStored, NoneIsLost,
      RowIsLastWritten, UnmatchedWasReplaced, Paid

LEMMA FindKeepsIt ==
  ASSUME BillingInv, NEW h \in Handlers, NEW e \in due, FindRecord(h, e)
  PROVE  BillingInv'
<1> USE BillingAssumption DEF BillingInv
<1>1. e \in events /\ e \in StripeEvent /\ e.k \in Reconciled /\ due' = due \ {e}
  BY DEF BillingTypeOK, StripeEvent, Reconciled, FindRecord
<1>2. /\ doing[h] = Missing
      /\ UNCHANGED <<record, checkout, events, repeats, replaced, last, stale>>
  BY DEF FindRecord
<1>3. Told' /\ CustomersAreStored' /\ RowIsLastWritten'
  BY <1>2 DEF Told, CustomersAreStored, RowIsLastWritten, Paid, PlanOf
<1>4. e.customer = record.customer \/ e.customer \in replaced
  BY <1>1 DEF Told, CustomersAreStored, Paid, StripeEvent
<1>5. CASE record.customer = e.customer
  <2>1. doing' = [doing EXCEPT ![h] = e] /\ UNCHANGED unmatched
    BY <1>1, <1>5 DEF FindRecord
  <2>2. BillingTypeOK' /\ UnmatchedWasReplaced'
    BY <1>1, <1>2, <2>1 DEF BillingTypeOK, UnmatchedWasReplaced
  <2>3. NoneIsLost'
    <3> SUFFICES ASSUME NEW d \in events
                 PROVE  \/ d \in due' \/ (\E g \in Handlers : doing'[g] = d)
                        \/ d.customer \in replaced \/ d.n <= last[d.sub]
      BY <1>2 DEF NoneIsLost
    <3>1. CASE d = e BY <3>1, <2>1 DEF BillingTypeOK
    <3>2. CASE d # e
      <4>1. \A g \in Handlers : doing[g] = d => doing'[g] = d
        BY <1>1, <1>2, <2>1 DEF BillingTypeOK, StripeEvent
      <4>2. QED BY <3>2, <4>1, <1>1 DEF NoneIsLost
    <3>3. QED BY <3>1, <3>2
  <2>4. QED BY <1>3, <2>2, <2>3
<1>6. CASE record.customer # e.customer
  <2>1. UNCHANGED doing /\ unmatched' = unmatched \cup {e.customer} /\ e.customer \in replaced
    BY <1>1, <1>4, <1>6 DEF FindRecord
  <2>2. BillingTypeOK' /\ UnmatchedWasReplaced' /\ NoneIsLost'
    BY <1>1, <1>2, <2>1 DEF BillingTypeOK, UnmatchedWasReplaced, NoneIsLost
  <2>3. QED BY <1>3, <2>2
<1>7. QED BY <1>5, <1>6

\* Two handlers may hold the same event, which was delivered twice.
LEMMA WriteKeepsIt ==
  ASSUME BillingInv, NEW h \in Handlers, WriteRecord(h)
  PROVE  BillingInv'
<1> USE BillingAssumption DEF BillingInv
<1> DEFINE e == doing[h]
<1>1. /\ e \in events /\ e \in StripeEvent /\ e.sub \in Checkouts /\ e.n \in 1 .. MaxEvents
      /\ UNCHANGED <<checkout, events, due, repeats, replaced, unmatched>>
      /\ doing' = [doing EXCEPT ![h] = Missing]
  BY DEF WriteRecord, BillingTypeOK, StripeEvent
<1>2. /\ record'.customer = record.customer /\ record'.sub = e.sub
      /\ record'.plan = PlanOf(e) /\ record'.status = StatusOf(e.status)
      /\ record' = Written(e)
  BY DEF WriteRecord, Written, BillingTypeOK
<1>3. /\ stale' = IF e.n < last[e.sub] THEN stale \cup {e.sub} ELSE stale
      /\ last' = [last EXCEPT ![e.sub] = IF e.n < last[e.sub] THEN last[e.sub] ELSE e.n]
  BY DEF WriteRecord
<1>4. last \in [Checkouts -> 0 .. MaxEvents] /\ last[e.sub] \in 0 .. MaxEvents
  BY <1>1 DEF BillingTypeOK
<1>5. PlanOf(e) \in {"FREE", "PRO", "BUSINESS"}
  BY <1>1 DEF PlanOf, StripeEvent
<1>6. StatusOf(e.status) \in {"ACTIVE", "TRIALING", "PAST_DUE", "CANCELED", "INCOMPLETE"}
  BY DEF StatusOf
<1>7. record' \in [customer : Checkouts \cup {Missing}, sub : Checkouts \cup {Missing},
                   plan : {"FREE", "PRO", "BUSINESS"},
                   status : {"ACTIVE", "TRIALING", "PAST_DUE", "CANCELED", "INCOMPLETE"}]
  BY <1>1, <1>2, <1>5, <1>6 DEF Written, BillingTypeOK
<1>8. BillingTypeOK'
  BY <1>1, <1>3, <1>4, <1>7 DEF BillingTypeOK
<1>9. Told' /\ CustomersAreStored' /\ UnmatchedWasReplaced'
  BY <1>1, <1>2 DEF Told, CustomersAreStored, UnmatchedWasReplaced, Paid
<1>10. \A c \in Checkouts : last'[c] \in 0 .. MaxEvents /\ last[c] \in 0 .. MaxEvents /\ last[c] <= last'[c]
  BY <1>1, <1>3, <1>4
<1>11. e.n <= last'[e.sub]
  BY <1>1, <1>3, <1>4
<1>12. NoneIsLost'
  <2> SUFFICES ASSUME NEW d \in events
               PROVE  \/ d \in due \/ (\E g \in Handlers : doing'[g] = d)
                      \/ d.customer \in replaced \/ d.n <= last'[d.sub]
    BY <1>1 DEF NoneIsLost
  <2>1. CASE d = e BY <2>1, <1>11
  <2>2. CASE d # e
    <3>1. \A g \in Handlers : doing[g] = d => doing'[g] = d
      BY <2>2, <1>1 DEF BillingTypeOK
    <3>2. d.sub \in Checkouts /\ d.n \in Nat
      BY DEF BillingTypeOK, StripeEvent
    <3>3. d.n <= last[d.sub] => d.n <= last'[d.sub]
      BY <1>10, <3>2
    <3>4. QED BY <3>1, <3>3 DEF NoneIsLost
  <2>3. QED BY <2>1, <2>2
<1>13. RowIsLastWritten'
  <2>1. record'.sub # Missing
    BY <1>1, <1>2
  <2>2. e.n = last'[e.sub] \/ e.sub \in stale'
    BY <1>1, <1>3, <1>4
  <2>3. /\ e \in events' /\ e.sub = record'.sub /\ record'.status = StatusOf(e.status)
        /\ record'.plan = PlanOf(e)
    BY <1>1, <1>2
  <2>4. \E d \in events' : /\ d.sub = record'.sub /\ record'.status = StatusOf(d.status)
                           /\ record'.plan = PlanOf(d)
                           /\ d.n = last'[d.sub] \/ d.sub \in stale'
    BY <2>2, <2>3
  <2>5. QED BY <2>1, <2>4 DEF RowIsLastWritten, PlanOf
<1>14. QED BY <1>8, <1>9, <1>12, <1>13

LEMMA FailKeepsIt ==
  ASSUME BillingInv, NEW h \in Handlers, FailWebhook(h)
  PROVE  BillingInv'
<1> USE BillingAssumption DEF BillingInv
<1>1. /\ doing[h] # Missing /\ due' = due \cup {doing[h]} /\ doing' = [doing EXCEPT ![h] = Missing]
      /\ UNCHANGED <<record, checkout, events, repeats, replaced, last, stale, unmatched>>
  BY DEF FailWebhook, told
<1>2. BillingTypeOK'
  BY <1>1 DEF BillingTypeOK
<1>3. NoneIsLost'
  BY <1>1 DEF NoneIsLost, BillingTypeOK
<1>4. Told' /\ CustomersAreStored' /\ UnmatchedWasReplaced' /\ RowIsLastWritten'
  BY <1>1 DEF Told, CustomersAreStored, UnmatchedWasReplaced, RowIsLastWritten, Paid, PlanOf
<1>5. QED BY <1>2, <1>3, <1>4

\* For any number of checkouts, handlers and events the row and the events stay in
\* the relation that BillingInv describes.
THEOREM EventsAreAccountedFor == BillingSpec => []BillingInv
<1>1. BillingInv /\ [BillingNext]_billingVars => BillingInv'
  <2> SUFFICES ASSUME BillingInv, [BillingNext]_billingVars PROVE BillingInv' OBVIOUS
  <2>1. CASE UNCHANGED billingVars
    BY <2>1 DEF billingVars, BillingInv, BillingTypeOK, Told, CustomersAreStored, NoneIsLost,
                RowIsLastWritten, UnmatchedWasReplaced, Paid, PlanOf
  <2>2. ASSUME NEW c \in Checkouts,
               ReadCustomer(c) \/ StoreCustomer(c) \/ Pay(c) \/ ChangeSubscription(c)
        PROVE  BillingInv'
    BY <2>2, CheckoutKeepsIt, PayKeepsIt, ChangeKeepsIt
  <2>3. ASSUME NEW e \in events, Repeat(e) PROVE BillingInv'
    BY <2>3, RepeatKeepsIt
  <2>4. ASSUME NEW h \in Handlers, \/ WriteRecord(h) \/ FailWebhook(h)
                                   \/ \E e \in due : FindRecord(h, e)
        PROVE  BillingInv'
    BY <2>4, WriteKeepsIt, FailKeepsIt, FindKeepsIt
  <2>5. QED BY <2>1, <2>2, <2>3, <2>4 DEF BillingNext
<1>2. QED BY BillingInvInit, <1>1, PTL DEF BillingSpec

\* For any number of checkouts and deliveries, an event finds no row only if the
\* customer it is about was overwritten.
THEOREM UnmatchedAreReplaced == BillingSpec => []UnmatchedWasReplaced
  BY EventsAreAccountedFor, PTL DEF BillingInv

\* For any number of checkouts, handlers, events and repeated deliveries, the row of
\* an organization with one subscription follows it once every event is handled.
THEOREM RowFollows == BillingSpec => []RowFollowsStripe
<1>1. BillingInv => RowFollowsStripe
  <2> SUFFICES ASSUME BillingInv, NEW c \in Checkouts, Subscriptions = {c}, due = {},
                      \A h \in Handlers : doing[h] = Missing, stale = {},
                      checkout[c].with \notin replaced
               PROVE  /\ record.sub = c
                      /\ record.status = StatusOf(Newest(c).status)
                      /\ record.plan = IF Newest(c).k = "deleted" THEN "FREE"
                                                               ELSE Prices[Newest(c).price]
    BY DEF RowFollowsStripe
  <2>1. Paid(c) /\ \A d \in Checkouts : Paid(d) => d = c
    BY DEF Subscriptions, Paid
  <2>2. /\ Newest(c) \in events /\ Newest(c).sub = c
        /\ \A d \in events : d.sub = c => d.n <= Newest(c).n
    BY <2>1, NewestIs
  <2>3. \A d \in events : d \in StripeEvent /\ d.n \in Nat /\ d.n >= 1 /\ d.sub = c /\ d # Missing
    BY <2>1, BillingAssumption DEF BillingInv, BillingTypeOK, StripeEvent, Told
  <2>4. Newest(c).n <= last[c] /\ last[c] \in Nat
    <3>1. Newest(c).customer = checkout[c].with /\ Newest(c) # Missing
      BY <2>2, <2>3 DEF BillingInv, Told
    <3>2. QED BY <2>2, <2>3, <3>1 DEF BillingInv, NoneIsLost, BillingTypeOK
  <2>5. PICK e \in events : /\ e.sub = record.sub /\ record.status = StatusOf(e.status)
                            /\ record.plan = PlanOf(e) /\ e.n = last[e.sub]
    BY <2>2, <2>3, <2>4 DEF BillingInv, RowIsLastWritten
  <2>6. e = Newest(c)
    BY <2>2, <2>3, <2>4, <2>5 DEF BillingInv, Told
  <2>7. QED BY <2>2, <2>5, <2>6 DEF BillingInv, Told, PlanOf
<1>2. QED BY EventsAreAccountedFor, <1>1, PTL

-----------------------------------------------------------------------------
(* Pages: the tables.                                                     *)

LEMMA AsksWith ==
  ASSUME NEW A, NEW O, NEW S, NEW x
  PROVE  /\ x \in With(A, O, S).asks <=> x \in A \/ \E c \in S : x \in c.asks
         /\ x \in With(A, O, S).offers <=> x \in O \/ \E c \in S : x \in c.offers
  BY DEF With

LEMMA Leaves ==
  /\ CreateOrgDialog.asks = {} /\ CreateOrgDialog.offers = {"CreateOrg"}
  /\ CreateProjectDialog.asks = {} /\ CreateProjectDialog.offers = {"CreateProject"}
  /\ NotificationsMenu.asks = {"notifications"}
  /\ NotificationsMenu.offers = {"MarkRead", "MarkAllRead"}
  /\ LabelPicker.asks = {"labels"} /\ LabelPicker.offers = {"CreateLabel"}
  /\ AttachmentsSection.asks = {"attachments"}
  /\ AttachmentsSection.offers = {"UploadAttachment", "DeleteAttachment"}
  /\ ActivitySection.asks = {"activity"} /\ ActivitySection.offers = {"CreateComment"}
  /\ DashboardStatCards.asks = {"stats"} /\ DashboardStatCards.offers = {}
  /\ BoardPreview.asks = {"projects", "issues", "members"} /\ BoardPreview.offers = {}
  /\ ActivityFeed.asks = {"feed"} /\ ActivityFeed.offers = {}
  /\ TasksPanel.asks = {"mywork"} /\ TasksPanel.offers = {}
  /\ TeamPanel.asks = {"members"} /\ TeamPanel.offers = {}
  /\ CalendarWidget.asks = {"calendar"} /\ CalendarWidget.offers = {}
  /\ MembersPanel.asks = {"members", "me", "invites"}
  /\ MembersPanel.offers = {"InviteMember", "UpdateMemberRole", "RemoveMember"}
  /\ NotificationPrefsPanel.asks = {"prefs"} /\ NotificationPrefsPanel.offers = {"UpdatePrefs"}
  BY DEF With, CreateOrgDialog, CreateProjectDialog, NotificationsMenu, LabelPicker,
         AttachmentsSection, ActivitySection, DashboardStatCards, BoardPreview, ActivityFeed,
         TasksPanel, TeamPanel, CalendarWidget, MembersPanel, NotificationPrefsPanel
LEMMA Trees ==
  /\ SidebarContent.asks = {"me", "orgs", "notifications"}
  /\ SidebarContent.offers = {"MarkRead", "MarkAllRead", "CreateOrg"}
  /\ AppShell.asks = {"projects"} /\ AppShell.offers = {"CreateProject"}
  /\ NewIssueModal.asks = {"labels"} /\ NewIssueModal.offers = {"CreateIssue", "CreateLabel"}
  /\ IssueDetailModal.asks = {"labels", "attachments", "activity"}
  /\ IssueDetailModal.offers = {"UpdateIssue", "DeleteIssue", "CreateLabel", "UploadAttachment",
                                "DeleteAttachment", "CreateComment"}
  /\ Board.asks = {"issues", "members", "labels"} /\ Board.offers = {"MoveIssue"}
  /\ OrgHomePage.asks = {"me", "projects", "members", "stats", "issues", "feed", "mywork",
                         "calendar"}
  /\ OrgHomePage.offers = {}
  /\ InboxPage.asks = {"notifications"} /\ InboxPage.offers = {"MarkRead", "MarkAllRead"}
  /\ MyWorkPage.asks = {"mywork"} /\ MyWorkPage.offers = {}
  /\ ProjectsPage.asks = {"projects"} /\ ProjectsPage.offers = {}
  /\ SearchView.asks = {"search"} /\ SearchView.offers = {}
  /\ OrgSettingsPage.asks = {"members", "me", "invites", "prefs"}
  /\ OrgSettingsPage.offers = {"InviteMember", "UpdateMemberRole", "RemoveMember", "UpdatePrefs"}
  /\ HomePage.asks = {"orgs"} /\ HomePage.offers = {}
  /\ AcceptInvitePage.asks = {} /\ AcceptInvitePage.offers = {"AcceptInvite"}
<1>1. /\ SidebarContent.asks = {"me", "orgs", "notifications"}
      /\ SidebarContent.offers = {"MarkRead", "MarkAllRead", "CreateOrg"}
  BY Leaves, AsksWith DEF SidebarContent
<1>2. AppShell.asks = {"projects"} /\ AppShell.offers = {"CreateProject"}
  BY Leaves, AsksWith DEF AppShell
<1>3. NewIssueModal.asks = {"labels"} /\ NewIssueModal.offers = {"CreateIssue", "CreateLabel"}
  BY Leaves, AsksWith DEF NewIssueModal
<1>4. /\ IssueDetailModal.asks = {"labels", "attachments", "activity"}
      /\ IssueDetailModal.offers = {"UpdateIssue", "DeleteIssue", "CreateLabel",
                                    "UploadAttachment", "DeleteAttachment", "CreateComment"}
  BY Leaves, AsksWith DEF IssueDetailModal
<1>5. /\ Board.asks = {"issues", "members", "labels"} /\ Board.offers = {"MoveIssue"}
      /\ InboxPage.asks = {"notifications"} /\ InboxPage.offers = {"MarkRead", "MarkAllRead"}
      /\ MyWorkPage.asks = {"mywork"} /\ MyWorkPage.offers = {}
      /\ ProjectsPage.asks = {"projects"} /\ ProjectsPage.offers = {}
      /\ SearchView.asks = {"search"} /\ SearchView.offers = {}
      /\ HomePage.asks = {"orgs"} /\ HomePage.offers = {}
      /\ AcceptInvitePage.asks = {} /\ AcceptInvitePage.offers = {"AcceptInvite"}
  BY DEF With, Board, InboxPage, MyWorkPage, ProjectsPage, SearchView, HomePage, AcceptInvitePage
<1>6. /\ OrgHomePage.asks = {"me", "projects", "members", "stats", "issues", "feed", "mywork",
                             "calendar"}
      /\ OrgHomePage.offers = {}
  BY Leaves, AsksWith DEF OrgHomePage
<1>7. /\ OrgSettingsPage.asks = {"members", "me", "invites", "prefs"}
      /\ OrgSettingsPage.offers = {"InviteMember", "UpdateMemberRole", "RemoveMember",
                                   "UpdatePrefs"}
  BY Leaves, AsksWith DEF OrgSettingsPage
<1> QED
  BY <1>1, <1>2, <1>3, <1>4, <1>5, <1>6, <1>7

Names == {"rail", "workspace", "dashboard", "board", "card", "new", "inbox", "mywork",
          "projects", "search", "settings", "home", "bar", "accept", "login"}

LEMMA ComponentsAre ==
  /\ Component["rail"] = SidebarContent /\ Component["workspace"] = AppShell
  /\ Component["dashboard"] = OrgHomePage /\ Component["board"] = Board
  /\ Component["card"] = IssueDetailModal /\ Component["new"] = NewIssueModal
  /\ Component["inbox"] = InboxPage /\ Component["mywork"] = MyWorkPage
  /\ Component["projects"] = ProjectsPage /\ Component["search"] = SearchView
  /\ Component["settings"] = OrgSettingsPage /\ Component["home"] = HomePage
  /\ Component["accept"] = AcceptInvitePage /\ Component["login"] = With({}, {}, {})
  /\ Component["bar"] = With({}, {}, {AppBar, CreateOrgDialog})
  BY DEF Component

\* Where the queries and mutations occur whose hooks leave something out.
LEMMA WhoAsks ==
  ASSUME NEW c \in Names
  PROVE  /\ "members" \in Asks(c) => c \in {"board", "dashboard", "settings"}
         /\ "invites" \in Asks(c) => c = "settings"
         /\ "search" \in Asks(c) => c = "search"
         /\ "mywork" \in Asks(c) => c \in {"dashboard", "mywork"}
         /\ "stats" \in Asks(c) \/ "feed" \in Asks(c) \/ "calendar" \in Asks(c) => c = "dashboard"
         /\ "activity" \in Asks(c) => c = "card"
         /\ Asks("login") = {}
<1>1. Asks("login") = {}
  BY ComponentsAre DEF Asks, With
<1>2. \A x \in Asks("bar") : x \in {"me", "notifications"}
  <2>1. \A x \in AppBar.asks : x \in {"me", "notifications"}
    BY Leaves, AsksWith DEF AppBar
  <2> QED
    BY <2>1, Leaves, AsksWith, ComponentsAre DEF Asks
<1> QED
  BY <1>1, <1>2, Trees, ComponentsAre DEF Asks, Names

LEMMA WhoOffers ==
  ASSUME NEW c \in Names
  PROVE  /\ "AcceptInvite" \in Component[c].offers => c = "accept"
         /\ "CreateIssue" \in Component[c].offers => c = "new"
         /\ "DeleteIssue" \in Component[c].offers \/ "UpdateIssue" \in Component[c].offers
              => c = "card"
         /\ "MoveIssue" \in Component[c].offers => c = "board"
<1>1. \A x \in Component["bar"].offers : x \in {"MarkRead", "MarkAllRead", "CreateOrg"}
  <2>1. \A x \in AppBar.offers : x \in {"MarkRead", "MarkAllRead"}
    BY Leaves, AsksWith DEF AppBar
  <2> QED
    BY <2>1, Leaves, AsksWith, ComponentsAre
<1>2. Component["login"].offers = {}
  BY ComponentsAre DEF With
<1> QED
  BY <1>1, <1>2, Trees, ComponentsAre DEF Names

LEMMA PagesAre ==
  /\ {"rail"} \in PageSet /\ {"login"} \in PageSet /\ {"home"} \in PageSet
  /\ \A p \in PageSet :
       /\ p \subseteq Names
       /\ "accept" \in p => p = {"accept"}
       /\ "new" \in p => "search" \notin p
       /\ "card" \in p => p = {"rail", "workspace", "board", "card"}
       /\ "board" \in p => p \cap {"search", "mywork", "dashboard"} = {}
       /\ p \ {"card"} \in PageSet
<1>1. /\ {"rail"} \in PageSet /\ {"login"} \in PageSet /\ {"home"} \in PageSet
      /\ {"rail", "workspace", "board"} \in PageSet
  <2>1. {"rail", "workspace", "board"} = {"rail", "workspace"} \cup {"board"} /\ {"board"} \in Inside
    BY DEF Inside
  <2> QED
    BY <2>1 DEF PageSet
<1>2. ASSUME NEW p \in PageSet
      PROVE  /\ p \subseteq Names
             /\ "accept" \in p => p = {"accept"}
             /\ "new" \in p => "search" \notin p
             /\ "card" \in p => p = {"rail", "workspace", "board", "card"}
             /\ "board" \in p => p \cap {"search", "mywork", "dashboard"} = {}
  <2>1. CASE \E i \in Inside : p = {"rail", "workspace"} \cup i
    BY <2>1 DEF Inside, Names
  <2>2. CASE p \in {{"rail"}, {"home"}, {"home", "bar"}, {"accept"}, {"login"}}
    BY <2>2 DEF Names
  <2> QED
    BY <2>1, <2>2 DEF PageSet
<1>3. ASSUME NEW p \in PageSet
      PROVE  p \ {"card"} \in PageSet
  <2>1. CASE "card" \in p
    <3>1. p \ {"card"} = {"rail", "workspace", "board"}
      BY <1>2, <2>1
    <3> QED
      BY <1>1, <3>1
  <2>2. CASE "card" \notin p
    <3>1. p \ {"card"} = p
      BY <2>2
    <3> QED
      BY <3>1
  <2> QED
    BY <2>1, <2>2
<1> QED
  BY <1>1, <1>2, <1>3

\* Which entries miss a mutation, by what it writes.
LEMMA WhoReads ==
  ASSUME NEW q, NEW x, <<q, x>> \in Reads
  PROVE  /\ x = "own" => q \in {"me", "orgs"}
         /\ x = "organization" => q \in {"me", "orgs"}
         /\ x = "project" => q \in {"orgs", "search", "projects"}
         /\ x = "belonging" => q = "orgs"
         /\ x = "membership" => q = "members"
         /\ x = "invite" => q = "invites"
         /\ x = "label" => q = "labels"
         /\ x = "issue" => q \in {"search", "mywork", "issues", "stats", "feed", "calendar"}
         /\ x = "count" => q = "projects"
         /\ x = "history" => q \in {"stats", "feed"}
         /\ x = "timeline" => q = "activity"
         /\ x = "comment" => q = "activity"
         /\ x = "file" => q = "attachments"
         /\ x = "inbox" => q = "notifications"
         /\ x = "prefs" => q = "prefs"
<1>1. CASE <<q, x>> \in MeReads \cup OrgReads \cup SearchReads \cup MyWorkReads \cup MemberReads
                          \cup InviteReads
  BY <1>1 DEF MeReads, OrgReads, SearchReads, MyWorkReads, MemberReads, InviteReads
<1>2. CASE <<q, x>> \in ProjectReads \cup LabelReads \cup IssueReads \cup FileReads
                          \cup ActivityReads \cup DashboardReads \cup InboxReads
  BY <1>2 DEF ProjectReads, LabelReads, IssueReads, FileReads, ActivityReads, DashboardReads,
              InboxReads
<1> QED
  BY <1>1, <1>2 DEF Reads

LEMMA WhoMisses ==
  ASSUME NEW m, NEW q, <<m, q>> \in Altered
  PROVE  \/ <<m, q>> \in Invalidates \cup Unnoticed
         \/ m = "AcceptInvite" /\ q \in {"members", "invites"}
         \/ m = "CreateIssue" /\ q = "search"
         \/ m \in {"DeleteIssue", "UpdateIssue"} /\ q \in {"search", "mywork", "stats", "feed", "calendar"}
         \/ m = "MoveIssue" /\ q \in {"search", "mywork", "stats", "feed", "calendar", "activity"}
<1> PICK w \in Writes : w[1] = m /\ <<q, w[2]>> \in Reads
  BY DEF Altered
<1> DEFINE x == w[2]
<1>0. w[1] = m /\ <<q, x>> \in Reads
  OBVIOUS
<1> HIDE DEF x
<1>1. CASE w \in OrgWrites
  <2>1. m = "CreateOrg" /\ q \in {"me", "orgs"}
    BY <1>0, <1>1, WhoReads DEF OrgWrites, x
  <2> QED
    BY <2>1 DEF Invalidates, OrgHooks
<1>2. CASE w \in MemberWrites
  <2>1. \/ m = "InviteMember" /\ q \in {"me", "members", "orgs", "invites"}
        \/ m = "UpdateMemberRole" /\ q = "members"
        \/ m = "RemoveMember" /\ q \in {"members", "orgs"}
        \/ m = "AcceptInvite" /\ q \in {"me", "orgs", "members", "invites"}
    BY <1>0, <1>2, WhoReads DEF MemberWrites, x
  <2>2. /\ {<<"InviteMember", "members">>, <<"InviteMember", "invites">>,
             <<"UpdateMemberRole", "members">>, <<"RemoveMember", "members">>,
             <<"AcceptInvite", "me">>, <<"AcceptInvite", "orgs">>} \subseteq Invalidates
        /\ {<<"InviteMember", "me">>, <<"InviteMember", "orgs">>, <<"RemoveMember", "orgs">>} \subseteq Unnoticed
    BY DEF Invalidates, MemberHooks, AcceptHooks, Unnoticed
  <2> QED
    BY <2>1, <2>2
<1>3. CASE w \in ProjectWrites \cup LabelWrites
  <2>1. \/ m = "CreateProject" /\ q \in {"orgs", "search", "projects"}
        \/ m = "CreateLabel" /\ q = "labels"
    BY <1>0, <1>3, WhoReads DEF ProjectWrites, LabelWrites, x
  <2>2. /\ {<<"CreateProject", "projects">>, <<"CreateLabel", "labels">>} \subseteq Invalidates
        /\ {<<"CreateProject", "orgs">>, <<"CreateProject", "search">>} \subseteq Unnoticed
    BY DEF Invalidates, ProjectHooks, LabelHooks, Unnoticed
  <2> QED
    BY <2>1, <2>2
<1>4. CASE w \in IssueWrites
  <2>1. \/ /\ m \in {"CreateIssue", "DeleteIssue"}
           /\ q \in {"search", "mywork", "issues", "stats", "feed", "calendar", "projects"}
        \/ /\ m \in {"MoveIssue", "UpdateIssue"}
           /\ q \in {"search", "mywork", "issues", "stats", "feed", "calendar", "activity"}
    BY <1>0, <1>4, WhoReads DEF IssueWrites, x
  <2>2. /\ \A i \in {"CreateIssue", "MoveIssue", "UpdateIssue", "DeleteIssue"} :
             <<i, "issues">> \in Invalidates
        /\ \A k \in {"projects", "stats", "feed", "calendar", "mywork"} :
             <<"CreateIssue", k>> \in Unnoticed
        /\ <<"DeleteIssue", "projects">> \in Unnoticed
        /\ <<"UpdateIssue", "activity">> \in Unnoticed
    BY DEF Invalidates, IssueHooks, Unnoticed
  <2> QED
    BY <2>1, <2>2
<1>5. CASE w \in FileWrites \cup CommentWrites \cup InboxWrites
  <2>1. \/ m \in {"UploadAttachment", "DeleteAttachment"} /\ q = "attachments"
        \/ m = "CreateComment" /\ q = "activity"
        \/ m \in {"MarkRead", "MarkAllRead"} /\ q = "notifications"
        \/ m = "UpdatePrefs" /\ q = "prefs"
    BY <1>0, <1>5, WhoReads DEF FileWrites, CommentWrites, InboxWrites, x
  <2> QED
    BY <2>1 DEF Invalidates, FileHooks, CommentHooks, InboxHooks, PrefsHooks
<1> QED
  BY <1>1, <1>2, <1>3, <1>4, <1>5 DEF Writes

\* No page offers a mutation and shows what no hook refreshes, but for those that
\* are known.
LEMMA PagesNotice ==
  ASSUME NEW p \in PageSet, NEW m \in OffersOf(p), NEW q \in AsksOf(p), <<m, q>> \in Altered
  PROVE  <<m, q>> \in Invalidates \cup Unnoticed
<1>1. PICK c \in p : m \in Component[c].offers
  BY DEF OffersOf
<1>2. PICK d \in p : q \in Asks(d)
  BY DEF AsksOf
<1>3. c \in Names /\ d \in Names
  BY PagesAre
<1>4. m = "MoveIssue" => p \cap {"card", "new"} = {}
  BY DEF OffersOf
<1>5. CASE m = "AcceptInvite" /\ q \in {"members", "invites"}
  <2>1. c = "accept" /\ d \in {"board", "dashboard", "settings"}
    BY <1>1, <1>2, <1>3, <1>5, WhoOffers, WhoAsks
  <2> QED
    BY <2>1, PagesAre
<1>6. CASE m = "CreateIssue" /\ q = "search"
  <2>1. c = "new" /\ d = "search"
    BY <1>1, <1>2, <1>3, <1>6, WhoOffers, WhoAsks
  <2> QED
    BY <2>1, PagesAre
<1>7. CASE m \in {"DeleteIssue", "UpdateIssue"} /\ q \in {"search", "mywork", "stats", "feed", "calendar"}
  <2>1. c = "card" /\ d \in {"search", "mywork", "dashboard"}
    BY <1>1, <1>2, <1>3, <1>7, WhoOffers, WhoAsks
  <2> QED
    BY <2>1, PagesAre
<1>8. CASE m = "MoveIssue" /\ q \in {"search", "mywork", "stats", "feed", "calendar", "activity"}
  <2>1. c = "board" /\ d \in {"search", "mywork", "dashboard", "card"}
    BY <1>1, <1>2, <1>3, <1>8, WhoOffers, WhoAsks
  <2> QED
    BY <1>4, <1>8, <2>1, PagesAre
<1> QED
  BY <1>5, <1>6, <1>7, <1>8, WhoMisses

LEMMA PatchesAreHooked == Patches \subseteq Invalidates
  BY DEF Patches, Invalidates, IssueHooks, PrefsHooks

LEMMA LoginShowsNothing == ~Shows({"login"})
<1>1. Asks("login") = {}
  BY WhoAsks DEF Names
<1> QED
  BY <1>1 DEF Shows, AsksOf

-----------------------------------------------------------------------------
(* Pages: the invariant.                                                   *)

PageEntry == [has : BOOLEAN, of : Accounts \cup {NoAccount}, old : BOOLEAN, kept : BOOLEAN,
              misses : SUBSET Mutable]
PageAsk == {NotAsked} \cup
           [at : {"asked", "read"}, of : Accounts, late : SUBSET Mutable, shared : BOOLEAN]
PageMutation == {NoMutation} \cup
                [at : {"sent", "stored"}, m : Mutable, left : BOOLEAN, saved : PageEntry]

PageTypes ==
  /\ query \in Keys /\ page \in PageSet /\ account \in Accounts \cup {NoAccount}
  /\ entry \in PageEntry /\ ask \in PageAsk /\ mutation \in PageMutation
  /\ deeds \in 0 .. MaxDeeds /\ crossed \subseteq Mutable /\ unanswered \subseteq Mutable

\* Nobody is signed in: the page shows nothing, and a mutation has been left.
OutIsBlank == account = NoAccount => ~Shows(page) /\ (NoneSent \/ mutation.left)

\* What is shown, and an answer that will be, are of this account and miss
\* nothing but what they may, or what a hook is about to refresh.  An entry that
\* was patched is asked for again.
Patching == mutation.at # "none" /\ <<mutation.m, query>> \in Patches
Coming(m) == mutation.at = "stored" /\ mutation.m = m /\ <<m, query>> \in Invalidates
MayMiss(m) == \/ m \in unanswered \/ <<m, query>> \in Unnoticed
              \/ m \in crossed /\ <<m, query>> \notin Invalidates
Good(of, misses) == of = account /\ \A m \in misses : MayMiss(m) \/ Coming(m)
EntryIsGood == Shows(page) /\ entry.has /\ ~entry.kept /\ ask = NotAsked /\ ~Patching
                 => Good(entry.of, entry.misses)
AnswerIsGood == ask # NotAsked /\ Shows(page) /\ ~ask.shared => Good(ask.of, ask.late)

\* A mutation whose page is still there was offered on it.
WasOffered == NoneSent \/ mutation.left
                \/ \E p \in PageSet : mutation.m \in OffersOf(p) /\ page \subseteq p

PagesInv == PageTypes /\ OutIsBlank /\ EntryIsGood /\ AnswerIsGood /\ WasOffered

\* Whoever comes to see the entry asks for it, or sees it as something older.
LEMMA AppearsAsOld ==
  ASSUME PageTypes, NEW p \in PageSet, NEW a \in Accounts, Appear(p, a)
  PROVE  /\ entry' \in PageEntry /\ ask' \in PageAsk
         /\ Shows(p) /\ entry'.has /\ ~entry'.kept /\ ask' = NotAsked =>
              Shows(page) /\ entry.has /\ ~entry.kept /\ ask = NotAsked
                /\ entry'.of = entry.of /\ entry'.misses = entry.misses
         /\ Shows(p) /\ ask' # NotAsked /\ ~ask'.shared =>
              \/ ask'.of = a /\ ask'.late = {}
              \/ /\ Shows(page) /\ ask # NotAsked /\ ~ask.shared
                 /\ ask'.of = ask.of /\ ask'.late = ask.late
<1> DEFINE young == entry.has /\ ~entry.old
           first == ~Shows(page)
<1>0. entry \in PageEntry /\ ask \in PageAsk
  BY DEF PageTypes
<1>1. CASE ~ \E c \in p \ page : query \in Asks(c)
  <2>1. Shows(p) => Shows(page)
    BY <1>1 DEF Shows, AsksOf
  <2>2. entry' = entry /\ ask' = ask
    BY <1>1 DEF Appear
  <2> QED
    BY <1>0, <2>1, <2>2
<1>2. CASE (\E c \in p \ page : query \in Asks(c)) /\ ask = NotAsked /\ ~young
  <2>1. ask' = AskFor(a) /\ entry' = entry
    BY <1>2 DEF Appear
  <2>2. AskFor(a) \in PageAsk /\ AskFor(a) # NotAsked /\ AskFor(a).of = a /\ AskFor(a).late = {}
    BY DEF AskFor, PageAsk, NotAsked
  <2> QED
    BY <1>0, <2>1, <2>2
<1>3. CASE (\E c \in p \ page : query \in Asks(c)) /\ ~(ask = NotAsked /\ ~young)
  <2>1. /\ entry' = [entry EXCEPT !.kept = @ \/ (first /\ entry.has)]
        /\ ask' = IF ask = NotAsked THEN ask ELSE [ask EXCEPT !.shared = @ \/ first]
    BY <1>3 DEF Appear
  <2>2. /\ entry' \in PageEntry /\ entry'.has = entry.has /\ entry'.of = entry.of
        /\ entry'.misses = entry.misses
        /\ entry'.kept <=> (entry.kept \/ (first /\ entry.has))
    BY <1>0, <2>1, Zenon DEF PageEntry
  <2>3. CASE ask = NotAsked
    BY <1>0, <2>1, <2>2, <2>3
  <2>4. CASE ask # NotAsked
    <3>1. /\ ask' \in PageAsk /\ ask' # NotAsked /\ ask'.of = ask.of /\ ask'.late = ask.late
          /\ ask'.shared <=> (ask.shared \/ first)
      BY <1>0, <2>1, <2>4, Zenon DEF PageAsk, NotAsked
    <3> QED
      BY <2>2, <2>4, <3>1
  <2> QED
    BY <2>3, <2>4
<1> QED
  BY <1>1, <1>2, <1>3

LEMMA PagesInvInit == PagesInit => PagesInv
<1> SUFFICES ASSUME PagesInit
             PROVE  PagesInv
  OBVIOUS
<1>1. account \in Accounts /\ account # NoAccount
  BY PagesAssumption DEF PagesInit
<1>2. /\ Nothing \in PageEntry /\ ~Nothing.has /\ NotAsked \in PageAsk
      /\ NoMutation \in PageMutation /\ NoMutation.at = "none"
  BY DEF Nothing, PageEntry, PageAsk, PageMutation, NoMutation
<1>3. /\ Fresh \in PageAsk /\ Fresh.of = account /\ Fresh.late = {}
  BY <1>1 DEF Fresh, AskFor, PageAsk
<1>4. PageTypes
  BY <1>1, <1>2, <1>3, PagesAre, PagesAssumption DEF PagesInit, PageTypes
<1>5. AnswerIsGood
  BY <1>3 DEF PagesInit, AnswerIsGood, Good
<1> QED
  BY <1>1, <1>2, <1>4, <1>5
  DEF PagesInit, PagesInv, OutIsBlank, EntryIsGood, WasOffered, NoneSent

\* A mutation that is left behind.
LEMMA LeftBehind ==
  ASSUME PageTypes, mutation' = IF NoneSent THEN mutation ELSE [mutation EXCEPT !.left = TRUE]
  PROVE  /\ mutation' \in PageMutation /\ mutation'.at = mutation.at
         /\ NoneSent => mutation' = mutation
         /\ ~NoneSent => mutation'.left /\ mutation'.m = mutation.m
<1>1. CASE NoneSent
  BY <1>1 DEF PageTypes
<1>2. CASE ~NoneSent
  <2>1. mutation \in [at : {"sent", "stored"}, m : Mutable, left : BOOLEAN, saved : PageEntry]
    BY <1>2 DEF PageTypes, PageMutation, NoMutation, NoneSent
  <2>2. mutation' = [mutation EXCEPT !.left = TRUE]
    BY <1>2
  <2>3. /\ mutation' \in [at : {"sent", "stored"}, m : Mutable, left : BOOLEAN, saved : PageEntry]
        /\ mutation'.at = mutation.at /\ mutation'.left /\ mutation'.m = mutation.m
    BY <2>1, <2>2
  <2> QED
    BY <1>2, <2>3 DEF PageMutation
<1> QED
  BY <1>1, <1>2

LEMMA VisitKeeps ==
  ASSUME PagesInv, NEW p \in Worth[query], Visit(p)
  PROVE  PagesInv'
<1>0. p \in PageSet /\ account \in Accounts
  BY PagesAre DEF Worth, PagesInv, PageTypes, Visit
<1>1. /\ entry' \in PageEntry /\ ask' \in PageAsk
      /\ Shows(p) /\ entry'.has /\ ~entry'.kept /\ ask' = NotAsked =>
           Shows(page) /\ entry.has /\ ~entry.kept /\ ask = NotAsked
             /\ entry'.of = entry.of /\ entry'.misses = entry.misses
      /\ Shows(p) /\ ask' # NotAsked /\ ~ask'.shared =>
           \/ ask'.of = account /\ ask'.late = {}
           \/ /\ Shows(page) /\ ask # NotAsked /\ ~ask.shared
              /\ ask'.of = ask.of /\ ask'.late = ask.late
  BY <1>0, AppearsAsOld DEF PagesInv, Visit
<1>3. /\ mutation' \in PageMutation /\ mutation'.at = mutation.at
      /\ NoneSent => mutation' = mutation
      /\ ~NoneSent => mutation'.left /\ mutation'.m = mutation.m
  BY LeftBehind DEF PagesInv, Visit
<1>4. /\ page' = p /\ query' = query /\ account' = account /\ deeds' = deeds
      /\ crossed' = crossed /\ unanswered' = unanswered
  BY DEF Visit
<1>5. PageTypes' /\ OutIsBlank' /\ WasOffered'
  BY <1>0, <1>1, <1>3, <1>4, PagesAssumption
  DEF PagesInv, PageTypes, OutIsBlank, WasOffered, NoneSent
<1>6. Shows(page)' <=> Shows(p)
  BY <1>4 DEF Shows
<1>7. /\ Patching' <=> Patching
      /\ \A m : (MayMiss(m)' <=> MayMiss(m)) /\ (Coming(m)' <=> Coming(m))
  <2>1. CASE NoneSent
    <3>1. mutation' = mutation
      BY <1>3, <2>1
    <3> QED
      BY <1>4, <3>1 DEF MayMiss, Coming, Patching
  <2>2. CASE ~NoneSent
    <3>1. mutation'.m = mutation.m /\ mutation'.at = mutation.at
      BY <1>3, <2>2
    <3> QED
      BY <1>4, <3>1 DEF MayMiss, Coming, Patching
  <2> QED
    BY <2>1, <2>2
<1>8. EntryIsGood'
  BY <1>1, <1>4, <1>6, <1>7 DEF PagesInv, EntryIsGood, Good
<1>9. AnswerIsGood'
  BY <1>1, <1>4, <1>6, <1>7 DEF PagesInv, AnswerIsGood, Good
<1> QED
  BY <1>5, <1>8, <1>9 DEF PagesInv

LEMMA SignInKeeps ==
  ASSUME PagesInv, NEW a \in Accounts, NEW p \in Worth[query], SignIn(a, p)
  PROVE  PagesInv'
<1>0. p \in PageSet /\ ~Shows(page) /\ (NoneSent \/ mutation.left)
  BY PagesAre DEF Worth, PagesInv, PageTypes, OutIsBlank, SignIn
<1>1. /\ entry' \in PageEntry /\ ask' \in PageAsk
      /\ ~(Shows(p) /\ entry'.has /\ ~entry'.kept /\ ask' = NotAsked)
      /\ Shows(p) /\ ask' # NotAsked /\ ~ask'.shared => ask'.of = a /\ ask'.late = {}
  BY <1>0, AppearsAsOld DEF PagesInv, SignIn
<1>2. /\ page' = p /\ account' = a /\ query' = query /\ mutation' = mutation
      /\ crossed' = crossed /\ unanswered' = unanswered /\ deeds < MaxDeeds /\ deeds' = deeds + 1
  BY DEF SignIn, Deed
<1>3. PageTypes'
  BY <1>0, <1>1, <1>2, PagesAssumption DEF PagesInv, PageTypes
<1>4. OutIsBlank' /\ WasOffered'
  BY <1>0, <1>2, PagesAssumption DEF OutIsBlank, WasOffered, NoneSent
<1>5. Shows(page)' <=> Shows(p)
  BY <1>2 DEF Shows
<1>6. EntryIsGood' /\ AnswerIsGood'
  BY <1>1, <1>2, <1>5 DEF EntryIsGood, AnswerIsGood, Good
<1> QED
  BY <1>3, <1>4, <1>6 DEF PagesInv

LEMMA LeavingKeeps ==
  ASSUME PagesInv, SignOut \/ Load
  PROVE  PagesInv'
<1>0. PageTypes /\ query' = query
  BY DEF PagesInv, SignOut, Load
<1>1. ~Shows({"login"}) /\ {"login"} \in PageSet
  BY LoginShowsNothing, PagesAre
<1>2. CASE SignOut
  <2>1. /\ page' = {"login"} /\ account' = NoAccount /\ entry' = entry /\ ask' = ask
        /\ deeds' = deeds /\ crossed' = crossed /\ unanswered' = unanswered
        /\ mutation' = IF NoneSent THEN mutation ELSE [mutation EXCEPT !.left = TRUE]
    BY <1>2 DEF SignOut
  <2>2. mutation' \in PageMutation /\ (NoneSent' \/ mutation'.left)
    BY <1>0, <2>1, LeftBehind DEF NoneSent
  <2>3. ~Shows(page)'
    BY <1>0, <1>1, <2>1 DEF Shows
  <2> QED
    BY <1>0, <1>1, <2>1, <2>2, <2>3
    DEF PagesInv, PageTypes, OutIsBlank, EntryIsGood, AnswerIsGood, WasOffered
<1>3. CASE Load
  <2>1. /\ entry' = Nothing /\ mutation' = NoMutation /\ deeds' = deeds /\ account # NoAccount
        /\ crossed' = {} /\ unanswered' = {}
    BY <1>3 DEF Load
  <2>2. /\ Nothing \in PageEntry /\ ~Nothing.has /\ NotAsked \in PageAsk
        /\ NoMutation \in PageMutation /\ NoMutation.at = "none"
    BY DEF Nothing, PageEntry, PageAsk, PageMutation, NoMutation
  <2>3. /\ Fresh \in PageAsk /\ Fresh.of = account /\ Fresh.late = {}
    BY <1>0, <2>1 DEF Fresh, AskFor, PageAsk, PageTypes
  <2>4. EntryIsGood' /\ WasOffered'
    BY <2>1, <2>2 DEF EntryIsGood, WasOffered, NoneSent
  <2>5. CASE page' = {"login"} /\ account' = NoAccount /\ ask' = NotAsked
    <3>1. ~Shows(page)'
      BY <1>0, <1>1, <2>5 DEF Shows
    <3>2. PageTypes'
      BY <1>0, <1>1, <2>1, <2>2, <2>5 DEF PageTypes
    <3> QED
      BY <2>1, <2>2, <2>4, <2>5, <3>1, <3>2
      DEF PagesInv, OutIsBlank, AnswerIsGood, NoneSent
  <2>6. CASE page' = page /\ account' = account /\ ask' = IF Shows(page) THEN Fresh ELSE NotAsked
    <3>1. AnswerIsGood'
      BY <2>3, <2>6 DEF AnswerIsGood, Good
    <3>2. PageTypes'
      BY <1>0, <2>1, <2>2, <2>3, <2>6 DEF PageTypes
    <3>3. OutIsBlank'
      BY <1>0, <2>1, <2>6 DEF OutIsBlank
    <3> QED
      BY <2>4, <3>1, <3>2, <3>3 DEF PagesInv
  <2> QED
    BY <1>3, <2>5, <2>6 DEF Load
<1> QED
  BY <1>2, <1>3

\* The entry and the query in flight change, and nothing else.
LEMMA EntryChanges ==
  ASSUME PagesInv, entry' \in PageEntry, ask' \in PageAsk, deeds' \in 0 .. MaxDeeds,
         UNCHANGED <<query, page, account, mutation, crossed, unanswered>>,
         Shows(page) /\ entry'.has /\ ~entry'.kept /\ ask' = NotAsked /\ ~Patching =>
           Good(entry'.of, entry'.misses),
         Shows(page) /\ ask' # NotAsked /\ ~ask'.shared => Good(ask'.of, ask'.late)
  PROVE  PagesInv'
<1>1. (Shows(page)' <=> Shows(page)) /\ (Patching' <=> Patching)
  BY DEF Shows, Patching
<1>2. \A m : (MayMiss(m)' <=> MayMiss(m)) /\ (Coming(m)' <=> Coming(m))
  BY DEF MayMiss, Coming
<1>3. PageTypes' /\ OutIsBlank' /\ WasOffered'
  BY <1>1 DEF PagesInv, PageTypes, OutIsBlank, WasOffered, NoneSent
<1>4. EntryIsGood' /\ AnswerIsGood'
  BY <1>1, <1>2 DEF EntryIsGood, AnswerIsGood, Good
<1> QED
  BY <1>3, <1>4 DEF PagesInv

LEMMA FreshIsGood ==
  ASSUME PagesInv, Shows(page)
  PROVE  /\ Fresh \in PageAsk /\ Fresh # NotAsked /\ Fresh.of = account /\ Fresh.late = {}
         /\ Good(Fresh.of, Fresh.late) /\ account \in Accounts
<1>1. account \in Accounts
  BY DEF PagesInv, PageTypes, OutIsBlank
<1> QED
  BY <1>1 DEF Fresh, AskFor, PageAsk, NotAsked, Good

LEMMA TimeKeeps ==
  ASSUME PagesInv, Age \/ Collect \/ Poll \/ ReadAll \/ Answered \/ Failed
  PROVE  PagesInv'
<1>0. /\ entry \in PageEntry /\ ask \in PageAsk /\ deeds \in 0 .. MaxDeeds /\ MaxDeeds \in Nat
      /\ UNCHANGED <<query, page, account, mutation, crossed, unanswered>>
      /\ deeds' \in 0 .. MaxDeeds
  BY PagesAssumption DEF PagesInv, PageTypes, Age, Collect, Poll, ReadAll, Answered, Failed, Deed
<1>1. /\ Nothing \in PageEntry /\ ~Nothing.has /\ NotAsked \in PageAsk
  BY DEF Nothing, PageEntry, PageAsk
<1>2. CASE Age
  <2>1. /\ entry' \in PageEntry /\ entry'.has = entry.has /\ entry'.kept = entry.kept
        /\ entry'.of = entry.of /\ entry'.misses = entry.misses /\ ask' = ask
    BY <1>0, <1>2 DEF Age, PageEntry
  <2> QED
    BY <1>0, <2>1, EntryChanges DEF PagesInv, EntryIsGood, AnswerIsGood
<1>3. CASE Collect
  <2>1. entry' = Nothing /\ ask' = NotAsked
    BY <1>3 DEF Collect
  <2> QED
    BY <1>0, <1>1, <2>1, EntryChanges
<1>4. CASE Poll
  <2>1. ask' = Fresh /\ entry' = entry /\ Shows(page)
    BY <1>4 DEF Poll
  <2> QED
    BY <1>0, <2>1, FreshIsGood, EntryChanges
<1>5. CASE ReadAll
  <2>1. ask \in [at : {"asked", "read"}, of : Accounts, late : SUBSET Mutable, shared : BOOLEAN]
    BY <1>0, <1>5 DEF ReadAll, PageAsk, NotAsked
  <2>2. ask' = [ask EXCEPT !.at = "read"] /\ entry' = entry
    BY <1>5 DEF ReadAll
  <2>3. /\ ask' \in PageAsk /\ ask'.of = ask.of /\ ask'.late = ask.late /\ ask # NotAsked
        /\ ask'.shared = ask.shared /\ ask' # NotAsked
    BY <2>1, <2>2 DEF PageAsk, NotAsked
  <2> QED
    BY <1>0, <2>2, <2>3, EntryChanges DEF PagesInv, AnswerIsGood
<1>6. CASE Answered
  <2>1. ask \in [at : {"asked", "read"}, of : Accounts, late : SUBSET Mutable, shared : BOOLEAN]
    BY <1>0, <1>6 DEF Answered, PageAsk, NotAsked
  <2>2. /\ entry' = [has |-> TRUE, of |-> ask.of, old |-> FALSE, kept |-> ask.shared,
                     misses |-> ask.late]
        /\ ask' = NotAsked /\ ask.at = "read"
    BY <1>6 DEF Answered
  <2>3. /\ entry' \in PageEntry /\ entry'.kept = ask.shared /\ entry'.of = ask.of
        /\ entry'.misses = ask.late /\ ask # NotAsked
    BY <2>1, <2>2 DEF PageEntry, NotAsked
  <2> QED
    BY <1>0, <1>1, <2>2, <2>3, EntryChanges DEF PagesInv, AnswerIsGood
<1>7. CASE Failed
  <2>1. entry' = [entry EXCEPT !.kept = entry.has, !.old = entry.has] /\ ask' = NotAsked
    BY <1>7 DEF Failed
  <2>2. entry' \in PageEntry /\ entry'.has = entry.has /\ entry'.kept = entry.has
    BY <1>0, <2>1 DEF PageEntry
  <2> QED
    BY <1>0, <1>1, <2>1, <2>2, EntryChanges
<1> QED
  BY <1>2, <1>3, <1>4, <1>5, <1>6, <1>7

LEMMA MutateKeeps ==
  ASSUME PagesInv, NEW m \in Mutable, Mutate(m)
  PROVE  PagesInv'
<1>0. /\ PageTypes /\ query' = query /\ account' = account /\ account # NoAccount
      /\ crossed' = crossed /\ unanswered' = unanswered /\ NoneSent /\ m \in OffersOf(page)
      /\ deeds' = deeds + 1 /\ deeds < MaxDeeds
  BY DEF PagesInv, Mutate, Deed
<1>1. /\ page' \subseteq page /\ page' \in PageSet
  BY <1>0, PagesAre DEF PageTypes, Mutate
<1>2. Shows(page)' => Shows(page)
  BY <1>0, <1>1 DEF Shows, AsksOf
<1>3. mutation' = [at |-> "sent", m |-> m, left |-> FALSE,
                   saved |-> IF <<m, query>> \in Patches THEN entry ELSE Nothing]
  BY DEF Mutate
<1>4. /\ mutation' \in PageMutation /\ mutation'.at = "sent" /\ mutation'.m = m /\ ~mutation'.left
  <2>1. Nothing \in PageEntry /\ entry \in PageEntry
    BY <1>0 DEF Nothing, PageEntry, PageTypes
  <2>2. (IF <<m, query>> \in Patches THEN entry ELSE Nothing) \in PageEntry
    BY <2>1
  <2> QED
    BY <1>3, <2>2 DEF PageMutation
<1>5. WasOffered' /\ OutIsBlank'
  BY <1>0, <1>1, <1>4 DEF WasOffered, OutIsBlank, PageTypes
<1>6. /\ entry' \in PageEntry /\ ask' \in PageAsk
      /\ \/ <<m, query>> \in Patches /\ ask' = NotAsked
         \/ <<m, query>> \notin Patches /\ ask' = ask /\ entry' = entry
  <2>1. CASE <<m, query>> \in Patches
    <3>1. entry' = [entry EXCEPT !.old = FALSE] /\ ask' = NotAsked
      BY <2>1 DEF Mutate
    <3> QED
      BY <1>0, <2>1, <3>1 DEF PageTypes, PageEntry, PageAsk
  <2>2. CASE <<m, query>> \notin Patches
    BY <1>0, <2>2 DEF PageTypes, Mutate
  <2> QED
    BY <2>1, <2>2
<1>7. PageTypes'
  BY <1>0, <1>1, <1>4, <1>6, PagesAssumption DEF PageTypes
<1>8. CASE <<m, query>> \in Patches
  <2>1. Patching' /\ ask' = NotAsked
    BY <1>0, <1>4, <1>6, <1>8 DEF Patching
  <2> QED
    BY <1>5, <1>7, <2>1 DEF PagesInv, EntryIsGood, AnswerIsGood
<1>9. CASE <<m, query>> \notin Patches
  <2>1. ask' = ask /\ entry' = entry /\ ~Patching
    BY <1>0, <1>6, <1>9 DEF Patching, NoneSent
  <2>2. \A n : ~Coming(n) /\ (MayMiss(n)' <=> MayMiss(n))
    BY <1>0 DEF Coming, NoneSent, MayMiss
  <2>3. EntryIsGood' /\ AnswerIsGood'
    BY <1>0, <1>2, <2>1, <2>2 DEF PagesInv, EntryIsGood, AnswerIsGood, Good
  <2> QED
    BY <1>5, <1>7, <2>3 DEF PagesInv
<1> QED
  BY <1>8, <1>9

LEMMA Sent ==
  ASSUME PageTypes, mutation.at # "none"
  PROVE  /\ mutation \in [at : {"sent", "stored"}, m : Mutable, left : BOOLEAN, saved : PageEntry]
         /\ mutation.m \in Mutable /\ mutation.saved \in PageEntry /\ ~NoneSent
  BY DEF PageTypes, PageMutation, NoMutation, NoneSent

LEMMA StoreKeeps ==
  ASSUME PagesInv, Store
  PROVE  PagesInv'
<1> DEFINE m == mutation.m
<1>0. /\ PageTypes /\ UNCHANGED <<query, page, account, deeds, unanswered>>
      /\ mutation.at = "sent" /\ m \in Mutable /\ ~NoneSent
      /\ mutation \in [at : {"sent", "stored"}, m : Mutable, left : BOOLEAN, saved : PageEntry]
      /\ mutation' = [mutation EXCEPT !.at = "stored"]
  BY Sent DEF PagesInv, Store
<1>1. /\ mutation' \in PageMutation /\ mutation'.at = "stored" /\ mutation'.m = m
      /\ mutation'.left = mutation.left
  BY <1>0 DEF PageMutation
<1>2. PICK c : c = m
  OBVIOUS
<1>3. /\ entry' = IF <<c, query>> \in Altered /\ entry.has
                    THEN [entry EXCEPT !.misses = @ \cup {c}] ELSE entry
      /\ ask' = IF <<c, query>> \in Altered /\ ask.at = "read"
                  THEN [ask EXCEPT !.late = @ \cup {c}] ELSE ask
      /\ crossed' = IF mutation.left THEN crossed \cup {c} ELSE crossed
  BY <1>2 DEF Store
<1> HIDE DEF m
<1>4. /\ entry' \in PageEntry /\ entry'.has = entry.has /\ entry'.kept = entry.kept
      /\ entry'.of = entry.of
      /\ \A n \in entry'.misses : n \in entry.misses \/ (n = c /\ <<c, query>> \in Altered)
  BY <1>0, <1>2, <1>3 DEF PageTypes, PageEntry
<1>5. /\ ask' \in PageAsk /\ (ask' = NotAsked <=> ask = NotAsked)
      /\ ask # NotAsked =>
           /\ ask'.of = ask.of /\ ask'.shared = ask.shared
           /\ \A n \in ask'.late : n \in ask.late \/ (n = c /\ <<c, query>> \in Altered)
  <2>1. CASE ask = NotAsked
    <3>1. ask' = ask
      BY <1>3, <2>1 DEF NotAsked
    <3> QED
      BY <1>0, <2>1, <3>1 DEF PageTypes
  <2>2. CASE ask # NotAsked
    <3>1. ask \in [at : {"asked", "read"}, of : Accounts, late : SUBSET Mutable, shared : BOOLEAN]
      BY <1>0, <2>2 DEF PageTypes, PageAsk
    <3>2. /\ ask' \in [at : {"asked", "read"}, of : Accounts, late : SUBSET Mutable,
                       shared : BOOLEAN]
          /\ ask'.of = ask.of /\ ask'.shared = ask.shared
          /\ \A n \in ask'.late : n \in ask.late \/ (n = c /\ <<c, query>> \in Altered)
      BY <1>0, <1>2, <1>3, <3>1
    <3> QED
      BY <2>2, <3>2 DEF PageAsk, NotAsked
  <2> QED
    BY <2>1, <2>2
<1>6. PageTypes' /\ OutIsBlank' /\ WasOffered'
  <2>1. PageTypes'
    BY <1>0, <1>1, <1>2, <1>3, <1>4, <1>5 DEF PageTypes
  <2>2. ~Shows(page)' <=> ~Shows(page)
    BY <1>0 DEF Shows
  <2>3. OutIsBlank'
    BY <1>0, <1>1, <2>2 DEF PagesInv, OutIsBlank
  <2>4. WasOffered'
    BY <1>0, <1>1 DEF PagesInv, WasOffered, m
  <2> QED
    BY <2>1, <2>3, <2>4
<1>7. (Shows(page)' <=> Shows(page)) /\ (Patching' <=> Patching)
  BY <1>0, <1>1 DEF Shows, Patching, m
<1>8. \A n : ~Coming(n) /\ (MayMiss(n) => MayMiss(n)')
  BY <1>0, <1>3 DEF Coming, MayMiss
\* What was just stored is not shown, or its hook will run, or it may be missed.
<1>9. ASSUME Shows(page), <<c, query>> \in Altered
      PROVE  MayMiss(c)' \/ Coming(c)'
  <2>1. CASE <<c, query>> \in Invalidates
    BY <1>0, <1>1, <1>2, <2>1 DEF Coming
  <2>2. CASE <<c, query>> \notin Invalidates /\ mutation.left
    BY <1>0, <1>3, <2>2 DEF MayMiss
  <2>3. CASE <<c, query>> \notin Invalidates /\ ~mutation.left
    <3>1. PICK p \in PageSet : c \in OffersOf(p) /\ page \subseteq p
      BY <1>0, <1>2, <2>3 DEF PagesInv, WasOffered, m
    <3>2. query \in AsksOf(p)
      BY <1>9, <3>1 DEF Shows, AsksOf
    <3>3. <<c, query>> \in Unnoticed
      BY <1>9, <2>3, <3>1, <3>2, PagesNotice
    <3> QED
      BY <1>0, <3>3 DEF MayMiss
  <2> QED
    BY <2>1, <2>2, <2>3
<1>10. EntryIsGood'
  BY <1>0, <1>4, <1>5, <1>7, <1>8, <1>9 DEF PagesInv, EntryIsGood, Good
<1>11. AnswerIsGood'
  BY <1>0, <1>5, <1>7, <1>8, <1>9 DEF PagesInv, AnswerIsGood, Good
<1> QED
  BY <1>6, <1>10, <1>11 DEF PagesInv

LEMMA OutdateKeeps ==
  ASSUME PagesInv, NEW m, Outdate(m)
  PROVE  /\ entry' \in PageEntry /\ ask' \in PageAsk
         /\ entry'.has = entry.has /\ entry'.kept = entry.kept /\ entry'.of = entry.of
         /\ entry'.misses = entry.misses
         /\ <<m, query>> \notin Invalidates => entry' = entry /\ ask' = ask
         /\ <<m, query>> \in Invalidates =>
              /\ Shows(page) /\ entry.has => ask' # NotAsked
              /\ Shows(page) /\ ask' # NotAsked =>
                   ask'.shared \/ (ask'.of = account /\ ask'.late = {})
<1>0. entry \in PageEntry /\ ask \in PageAsk
  BY DEF PagesInv, PageTypes
<1>1. CASE <<m, query>> \notin Invalidates
  BY <1>0, <1>1 DEF Outdate
<1>2. CASE <<m, query>> \in Invalidates
  <2> DEFINE joined == [ask EXCEPT !.shared = TRUE]
         older == [entry EXCEPT !.old = @ \/ entry.has]
  <2>0. /\ entry' = older
        /\ ask' = IF ask # NotAsked /\ (~entry.has \/ ~Shows(page)) THEN joined
                  ELSE IF Shows(page) THEN Fresh ELSE ask
    BY <1>2 DEF Outdate
  <2> HIDE DEF joined, older
  <2>1. /\ ask # NotAsked /\ (~entry.has \/ ~Shows(page)) => ask' = joined
        /\ ask = NotAsked /\ ~Shows(page) => ask' = ask
        /\ Shows(page) /\ ~(ask # NotAsked /\ ~entry.has) => ask' = Fresh
    BY <2>0
  <2>2. /\ entry' \in PageEntry /\ entry'.has = entry.has /\ entry'.kept = entry.kept
        /\ entry'.of = entry.of /\ entry'.misses = entry.misses
    BY <1>0, <2>0, Zenon DEF PageEntry, older
  <2>3. CASE ask # NotAsked /\ (~entry.has \/ ~Shows(page))
    <3>1. ask' = joined
      BY <2>1, <2>3
    <3>2. ask' \in PageAsk /\ ask'.shared /\ ask' # NotAsked
      <4>1. ask \in [at : {"asked", "read"}, of : Accounts, late : SUBSET Mutable,
                     shared : BOOLEAN]
        BY <1>0, <2>3 DEF PageAsk
      <4>2. /\ ask' \in [at : {"asked", "read"}, of : Accounts, late : SUBSET Mutable,
                         shared : BOOLEAN]
            /\ ask'.shared
        BY <3>1, <4>1 DEF joined
      <4> QED
        BY <4>2 DEF PageAsk, NotAsked
    <3> QED
      BY <1>2, <2>2, <2>3, <3>2
  <2>4. CASE ask = NotAsked /\ ~Shows(page)
    BY <1>0, <1>2, <2>1, <2>2, <2>4
  <2>5. CASE Shows(page) /\ ~(ask # NotAsked /\ ~entry.has)
    <3>1. ask' = Fresh
      BY <2>1, <2>5
    <3> QED
      BY <1>2, <2>2, <2>5, <3>1, FreshIsGood
  <2> QED
    BY <2>3, <2>4, <2>5
<1> QED
  BY <1>1, <1>2

LEMMA SucceededKeeps ==
  ASSUME PagesInv, Succeeded
  PROVE  PagesInv'
<1>0. PICK m : m = mutation.m
  OBVIOUS
<1>1. /\ PageTypes /\ UNCHANGED <<query, page, account, deeds, crossed, unanswered>>
      /\ mutation.at = "stored" /\ mutation' = NoMutation /\ Outdate(m)
      /\ NoMutation \in PageMutation /\ NoMutation.at = "none"
  BY <1>0 DEF PagesInv, Succeeded, PageMutation, NoMutation
<1>2. /\ entry' \in PageEntry /\ ask' \in PageAsk
      /\ entry'.has = entry.has /\ entry'.kept = entry.kept /\ entry'.of = entry.of
      /\ entry'.misses = entry.misses
      /\ <<m, query>> \notin Invalidates => entry' = entry /\ ask' = ask
      /\ <<m, query>> \in Invalidates =>
           /\ Shows(page) /\ entry.has => ask' # NotAsked
           /\ Shows(page) /\ ask' # NotAsked =>
                ask'.shared \/ (ask'.of = account /\ ask'.late = {})
  BY <1>1, OutdateKeeps
<1>3. Shows(page)' <=> Shows(page)
  BY <1>1 DEF Shows
<1>4. PageTypes' /\ OutIsBlank' /\ WasOffered'
  BY <1>1, <1>2, <1>3 DEF PagesInv, PageTypes, OutIsBlank, WasOffered, NoneSent
<1>5. \A n : MayMiss(n)' <=> MayMiss(n)
  BY <1>1 DEF MayMiss
<1>6. CASE <<m, query>> \in Invalidates
  BY <1>1, <1>2, <1>3, <1>4, <1>6 DEF PagesInv, EntryIsGood, AnswerIsGood, Good
<1>7. CASE <<m, query>> \notin Invalidates
  <2>1. ~Patching /\ \A n : ~Coming(n)
    BY <1>0, <1>7, PatchesAreHooked DEF Patching, Coming
  <2>2. EntryIsGood' /\ AnswerIsGood'
    BY <1>1, <1>2, <1>3, <1>5, <1>7, <2>1 DEF PagesInv, EntryIsGood, AnswerIsGood, Good
  <2> QED
    BY <1>4, <2>2 DEF PagesInv
<1> QED
  BY <1>6, <1>7

LEMMA GivenUpKeeps ==
  ASSUME PagesInv, GivenUp
  PROVE  PagesInv'
<1>0. PICK m : m = mutation.m
  OBVIOUS
<1>1. /\ PageTypes /\ UNCHANGED <<query, page, account, crossed>>
      /\ mutation.at # "none" /\ mutation' = NoMutation
      /\ NoMutation \in PageMutation /\ NoMutation.at = "none"
      /\ mutation.saved \in PageEntry /\ m \in Mutable
      /\ deeds < MaxDeeds /\ deeds' = deeds + 1
      /\ unanswered' = IF mutation.at = "stored" THEN unanswered \cup {m} ELSE unanswered
      /\ IF <<m, query>> \in Patches
           THEN /\ entry' = [mutation.saved EXCEPT !.old = TRUE, !.kept = TRUE]
                /\ ask' = IF Shows(page) THEN Fresh
                          ELSE IF ask = NotAsked THEN ask ELSE [ask EXCEPT !.shared = TRUE]
           ELSE UNCHANGED <<entry, ask>>
  BY <1>0, Sent DEF PagesInv, GivenUp, PageMutation, NoMutation, Deed
<1>2. Shows(page)' <=> Shows(page)
  BY <1>1 DEF Shows
<1>3. /\ entry' \in PageEntry /\ ask' \in PageAsk
      /\ <<m, query>> \in Patches => entry'.kept /\ (Shows(page) => ask' = Fresh)
      /\ <<m, query>> \notin Patches => entry' = entry /\ ask' = ask
  <2>1. CASE <<m, query>> \in Patches
    <3>1. entry' = [mutation.saved EXCEPT !.old = TRUE, !.kept = TRUE]
      BY <1>1, <2>1
    <3>2. entry' \in PageEntry /\ entry'.kept
      <4>1. PICK r \in PageEntry : r = mutation.saved
        BY <1>1
      <4> QED
        BY <3>1, <4>1 DEF PageEntry
    <3>3. CASE Shows(page)
      BY <1>1, <2>1, <3>2, <3>3, FreshIsGood
    <3>4. CASE ~Shows(page)
      <4>1. ask' = IF ask = NotAsked THEN ask ELSE [ask EXCEPT !.shared = TRUE]
        BY <1>1, <2>1, <3>4
      <4>2. CASE ask = NotAsked
        BY <1>1, <2>1, <3>2, <3>4, <4>1, <4>2 DEF PageTypes
      <4>3. CASE ask # NotAsked
        <5>1. ask \in [at : {"asked", "read"}, of : Accounts, late : SUBSET Mutable,
                       shared : BOOLEAN]
          BY <1>1, <4>3 DEF PageTypes, PageAsk
        <5>2. ask' = [ask EXCEPT !.shared = TRUE]
          BY <4>1, <4>3
        <5>3. ask' \in PageAsk
          BY <5>1, <5>2 DEF PageAsk
        <5> QED
          BY <2>1, <3>2, <3>4, <5>3
      <4> QED
        BY <4>2, <4>3
    <3> QED
      BY <3>3, <3>4
  <2>2. CASE <<m, query>> \notin Patches
    BY <1>1, <2>2 DEF PageTypes
  <2> QED
    BY <2>1, <2>2
<1>4. PageTypes' /\ OutIsBlank' /\ WasOffered'
  BY <1>1, <1>2, <1>3, PagesAssumption
  DEF PagesInv, PageTypes, OutIsBlank, WasOffered, NoneSent
<1>5. \A n : (MayMiss(n) => MayMiss(n)') /\ (Coming(n) => MayMiss(n)')
  BY <1>0, <1>1 DEF MayMiss, Coming
<1>6. CASE <<m, query>> \in Patches
  <2>1. AnswerIsGood'
    BY <1>1, <1>2, <1>3, <1>6, FreshIsGood DEF AnswerIsGood, Good
  <2> QED
    BY <1>3, <1>4, <1>6, <2>1 DEF PagesInv, EntryIsGood
<1>7. CASE <<m, query>> \notin Patches
  <2>1. ~Patching
    BY <1>0, <1>7 DEF Patching
  <2>2. EntryIsGood' /\ AnswerIsGood'
    BY <1>1, <1>2, <1>3, <1>5, <1>7, <2>1 DEF PagesInv, EntryIsGood, AnswerIsGood, Good
  <2> QED
    BY <1>4, <2>2 DEF PagesInv
<1> QED
  BY <1>6, <1>7

LEMMA PagesInvNext == PagesInv /\ [PagesNext]_pagesVars => PagesInv'
<1> SUFFICES ASSUME PagesInv, [PagesNext]_pagesVars
             PROVE  PagesInv'
  OBVIOUS
<1>1. CASE UNCHANGED pagesVars
  BY <1>1 DEF pagesVars, PagesInv, PageTypes, OutIsBlank, EntryIsGood, AnswerIsGood, WasOffered,
              Good, MayMiss, Coming, Patching, Shows, NoneSent
<1>2. CASE PagesNext
  BY <1>2, VisitKeeps, SignInKeeps, LeavingKeeps, TimeKeeps, MutateKeeps, StoreKeeps,
     SucceededKeeps, GivenUpKeeps DEF PagesNext
<1> QED
  BY <1>1, <1>2

\* What a page shows, what it waits for and what it has sent stay consistent, for
\* any accounts and any number of deeds.
THEOREM PagesAreKept == PagesSpec => []PagesInv
  BY PagesInvInit, PagesInvNext, PTL DEF PagesSpec

\* The entry, the query in flight, the mutation and the account keep their types.
THEOREM PagesTypesHold == PagesSpec => []PagesTypeOK
<1>1. PagesInv => PagesTypeOK
  BY DEF PagesInv, PageTypes, PagesTypeOK, PageEntry, PageAsk, PageMutation, NotAsked, NoMutation
<1> QED
  BY <1>1, PagesAreKept, PTL

\* Once the query and the mutation are done, a page shows nothing that was fetched
\* for an account other than the one signed in (providers.tsx: one cache for all
\* who sign in with this tab).
THEOREM NobodySeesOthersData == PagesSpec => []NobodyElsesData
<1>1. PagesInv => NobodyElsesData
  BY DEF PagesInv, EntryIsGood, Good, Patching, NobodyElsesData, Settled, NoneSent
<1> QED
  BY <1>1, PagesAreKept, PTL

\* ... and nothing from before a change this browser has made, but where a hook of
\* hooks.ts leaves it out.
THEOREM ChangesShow == PagesSpec => []OwnChangesShow
<1>1. PagesInv => OwnChangesShow
  BY DEF PagesInv, EntryIsGood, Good, Patching, MayMiss, Coming, OwnChangesShow, Settled, NoneSent
<1> QED
  BY <1>1, PagesAreKept, PTL

-----------------------------------------------------------------------------
(* BoardCache: what has to hold of it.                                     *)

CallRec == [ui : {"pending", "succeeded", "failed"},
            server : {"sent", "announced", "done", "refused"},
            op : {"create", "move", "update", "label", "delete", Absent}, card : Cards \cup {Absent},
            row : Row \cup {Absent}, previous : List \cup {Absent}, early : BOOLEAN]
IdleCall == [ui |-> "idle"]
Answers == [st : {"answered"}, at : Nat, list : List]

BoardTypes ==
  /\ log \in Seq(Change) /\ committed \in 0 .. Len(log) /\ heard \in 0 .. Len(log)
  /\ cache \in List \cup {Absent} /\ seen \in 0 .. committed
  /\ fetch \in {NoFetch, Asked} \cup Answers
  /\ fetch.st = "answered" => fetch.at <= committed
  /\ call \in [Mutations -> CallRec \cup {IdleCall}]
  /\ gap \in BOOLEAN /\ rolledBack \in BOOLEAN /\ failed \in BOOLEAN

\* What a call has kept is what it still needs.
CallOK(m) ==
  /\ call[m].ui # "idle" /\ call[m].server = "sent" =>
       /\ call[m].op \in {"create", "move", "update", "label", "delete"}
       /\ call[m].op # "create" => call[m].card \in Cards
       /\ call[m].op # "delete" => call[m].row \in Row
  /\ call[m].ui = "pending" =>
       /\ call[m].op \in {"create", "move", "update", "label", "delete"}
       /\ call[m].op # "create" => call[m].previous # Absent
       /\ cache = Absent => call[m].early
  /\ call[m].ui = "succeeded" => call[m].server = "done"

\* Every change of this browser has one call, which the server has done when the
\* change is committed.
Recorded ==
  /\ \A i \in 1 .. Len(log) :
       LET m == log[i].by IN
         m # Absent => /\ m \in Mutations /\ call[m].ui # "idle"
                       /\ call[m].server = IF i > committed THEN "announced"
                                           ELSE IF log[i].void THEN "refused" ELSE "done"
  /\ \A i, j \in 1 .. Len(log) : log[i].by # Absent /\ log[i].by = log[j].by => i = j
RowsAreSent == \A i \in 1 .. Len(log) : IF log[i].k = "deleted" THEN log[i].row = Absent
                                                               ELSE log[i].row \in Row

\* The row r of the card c, in a list that reflects n changes, differs from the
\* table only in what one of the later changes will put right, or one of "ops";
\* changes that are undone put nothing right.
Later(n, c, kinds) ==
  \E i \in n + 1 .. Len(log) : log[i].card = c /\ log[i].k \in kinds /\ ~log[i].void
Agrees(r, n, c, ops) ==
  /\ r = Absent /\ Latest[c] # Absent => Later(n, c, {"created"}) \/ "delete" \in ops
  /\ r # Absent /\ Latest[c] = Absent => Later(n, c, {"deleted"})
  /\ r # Absent /\ Latest[c] # Absent =>
       /\ \/ r.place = Latest[c].place \/ "move" \in ops
          \/ Later(n, c, {"moved", "updated", "deleted"})
       /\ \/ r.text = Latest[c].text \/ "update" \in ops
          \/ Later(n, c, {"updated", "deleted"})
       /\ r.labels = Latest[c].labels \/ Later(n, c, {"labelled", "deleted"})

TablesAgree ==
  \A n \in 0 .. Len(log) : Table(n) \in List /\ \A c \in Cards : Agrees(Table(n)[c], n, c, {})

Pends(m) == call[m].ui = "pending"
Edits(m) == Pends(m) /\ call[m].op # "create"
Awaited(c) ==
  {op \in {"move", "update", "delete"} :
     \E m \in Mutations : Pends(m) /\ call[m].server = "sent" /\ call[m].op = op /\ call[m].card = c}
Undone(m) == \E i \in 1 .. Len(log) : log[i].by = m /\ log[i].void
Doomed == \E m \in Mutations : Edits(m) /\ (call[m].server = "refused" \/ Undone(m))
CacheAgrees ==
  /\ cache = Absent => gap
  /\ ~gap => Doomed \/ \A c \in Cards : Agrees(cache[c], heard, c, Awaited(c))

Editing == \E m \in Mutations : Edits(m)
Refetched ==
  /\ rolledBack => failed \/ fetch # NoFetch \/ Editing
  /\ \A i \in 1 .. Len(log) :
       LET m == log[i].by IN
         m # Absent /\ call[m].ui = "succeeded" /\ ~call[m].early =>
           /\ fetch.st = "answered" => fetch.at >= i
           /\ fetch = NoFetch /\ ~failed /\ ~Editing => seen >= i

CacheInv ==
  /\ BoardTypes /\ (\A m \in Mutations : CallOK(m)) /\ Recorded /\ RowsAreSent
  /\ TablesAgree /\ CacheAgrees /\ Refetched

-----------------------------------------------------------------------------
(* BoardCache: the table.                                                  *)

LEMMA MaxIs ==
  ASSUME NEW S \in SUBSET Nat, NEW x \in S, \A y \in S : x >= y
  PROVE  Max(S) = x
<1>1. PICK z : z = CHOOSE w \in S : \A y \in S : w >= y
  OBVIOUS
<1>2. z \in S /\ \A y \in S : z >= y
  BY <1>1
<1>3. z = x
  <2>1. z \in Nat /\ x \in Nat /\ z >= x /\ x >= z
    BY <1>2
  <2> QED
    BY <2>1
<1> QED
  BY <1>1, <1>3, Zenon DEF Max

LEMMA MaxExists ==
  ASSUME NEW n \in Nat, NEW S \in SUBSET (1 .. n), S # {}
  PROVE  Max(S) \in S /\ \A y \in S : Max(S) >= y
<1> DEFINE T == {n - i : i \in S}
<1>1. \A i \in S : i \in 1 .. n /\ n - i \in Nat
  OBVIOUS
<1>2. T \in SUBSET Nat /\ T # {}
  BY <1>1
<1>3. PICK x \in T : \A y \in T : x <= y
  BY <1>2, Least
<1>4. PICK i \in S : x = n - i
  OBVIOUS
<1>5. ASSUME NEW j \in S
      PROVE  i >= j
  BY <1>1, <1>3, <1>4
<1>6. S \in SUBSET Nat
  BY <1>1
<1>7. Max(S) = i
  BY <1>5, <1>6, MaxIs
<1> QED
  BY <1>5, <1>7

LEMMA StartIsList == Start \in List
<1>1. (CHOOSE r \in NewRows : TRUE) \in Row
  BY BoardAssumption
<1> QED
  BY <1>1 DEF Start, List

LEMMA FirstTable == log = <<>> => Table(0) = Start
<1>1. \A c \in Cards : {i \in 1 .. 0 : log[i].card = c /\ ~log[i].void} = {}
  OBVIOUS
<1> QED
  BY <1>1 DEF Table, Start

LEMMA FirstIsList ==
  ASSUME NEW t \in List
  PROVE  FirstOf(t) \subseteq List
<1> DEFINE cut(first) == [c \in Cards |-> IF c \in first THEN t[c] ELSE Absent]
<1>1. ASSUME NEW first
      PROVE  cut(first) \in List
  BY DEF List
<1>2. ASSUME NEW l \in FirstOf(t)
      PROVE  l = t \/ \E first : l = cut(first)
  BY DEF FirstOf
<1> QED
  BY <1>1, <1>2

LEMMA NotBorn ==
  ASSUME log \in Seq(Change), NEW c \in Cards, c \notin Born
  PROVE  Latest[c] = Absent
<1>1. {i \in 1 .. Len(log) : log[i].card = c /\ ~log[i].void} = {}
  BY DEF Born
<1> QED
  BY <1>1 DEF Latest, Table, Start, Born

LEMMA TableGrows ==
  ASSUME log \in Seq(Change), NEW e \in Change, log' = Append(log, e)
  PROVE  /\ log' \in Seq(Change) /\ Len(log)' = Len(log) + 1 /\ Len(log) \in Nat
         /\ log'[Len(log) + 1] = e /\ \A i \in 1 .. Len(log) : log'[i] = log[i]
         /\ \A n \in 0 .. Len(log) : Table(n)' = Table(n)
         /\ \A c \in Cards : Latest'[c] = IF c = e.card /\ ~e.void THEN e.row ELSE Latest[c]
<1>1. /\ log' \in Seq(Change) /\ Len(log)' = Len(log) + 1 /\ Len(log) \in Nat
      /\ log'[Len(log) + 1] = e /\ \A i \in 1 .. Len(log) : log'[i] = log[i]
  OBVIOUS
<1>2. ASSUME NEW n \in 0 .. Len(log)
      PROVE  Table(n)' = Table(n)
  <2>1. \A c : {i \in 1 .. n : log'[i].card = c /\ ~log'[i].void} = {i \in 1 .. n : log[i].card = c /\ ~log[i].void}
    BY <1>1
  <2>2. \A c \in Cards : {i \in 1 .. n : log[i].card = c /\ ~log[i].void} # {} =>
          log'[Max({i \in 1 .. n : log[i].card = c /\ ~log[i].void})] = log[Max({i \in 1 .. n : log[i].card = c /\ ~log[i].void})]
    <3> SUFFICES ASSUME NEW c \in Cards, {i \in 1 .. n : log[i].card = c /\ ~log[i].void} # {}
                 PROVE  log'[Max({i \in 1 .. n : log[i].card = c /\ ~log[i].void})]
                          = log[Max({i \in 1 .. n : log[i].card = c /\ ~log[i].void})]
      OBVIOUS
    <3> DEFINE S == {i \in 1 .. n : log[i].card = c /\ ~log[i].void}
    <3>1. S \in SUBSET (1 .. n) /\ n \in Nat /\ S # {}
      BY <1>1
    <3>2. Max(S) \in 1 .. n
      BY <3>1, MaxExists
    <3> QED
      BY <1>1, <3>2
  <2>3. Start' = Start
    BY DEF Start
  <2> QED
    BY <2>1, <2>2, <2>3 DEF Table
<1>3. ASSUME NEW c \in Cards, c = e.card, ~e.void
      PROVE  Latest'[c] = e.row
  <2> DEFINE S == {i \in 1 .. Len(log) + 1 : log'[i].card = c /\ ~log'[i].void}
  <2>1. Len(log) + 1 \in S /\ S \subseteq Nat /\ \A i \in S : Len(log) + 1 >= i
    BY <1>1, <1>3
  <2>2. Max(S) = Len(log) + 1 /\ S # {}
    BY <2>1, MaxIs
  <2>3. Latest'[c] = IF S = {} THEN Start'[c] ELSE log'[Max(S)].row
    BY <1>1 DEF Latest, Table
  <2> QED
    BY <1>1, <2>2, <2>3
<1>4. ASSUME NEW c \in Cards, c # e.card \/ e.void
      PROVE  Latest'[c] = Latest[c]
  <2> DEFINE S == {i \in 1 .. Len(log) : log[i].card = c /\ ~log[i].void}
  <2>1. S = {i \in 1 .. Len(log) + 1 : log'[i].card = c /\ ~log'[i].void}
    BY <1>1, <1>4
  <2>2. Latest'[c] = IF S = {} THEN Start'[c] ELSE log'[Max(S)].row
    BY <1>1, <2>1 DEF Latest, Table
  <2>3. Latest[c] = IF S = {} THEN Start[c] ELSE log[Max(S)].row
    BY DEF Latest, Table
  <2>4. S # {} => log'[Max(S)] = log[Max(S)]
    BY <1>1, MaxExists
  <2>5. Start' = Start
    BY DEF Start
  <2> QED
    BY <2>2, <2>3, <2>4, <2>5
<1> QED
  BY <1>1, <1>2, <1>3, <1>4

Makes(e, op, c, row) ==
  /\ op = "create" => e.k = "created" /\ e.row = row /\ c \notin Born
  /\ op = "move" => /\ e.k = "moved" /\ e.row \in Row /\ Latest[c] \in Row
                    /\ e.row.text = Latest[c].text /\ e.row.labels = Latest[c].labels
  /\ op = "update" => /\ e.k = "updated" /\ e.row \in Row /\ Latest[c] \in Row
                      /\ e.row.place = Latest[c].place /\ e.row.labels = Latest[c].labels
  /\ op = "label" => /\ e.k = "labelled" /\ e.row \in Row /\ Latest[c] \in Row
                     /\ e.row.place = Latest[c].place /\ e.row.text = Latest[c].text
  /\ op = "delete" => e.k = "deleted" /\ e.row = Absent /\ Latest[c] \in Row

LEMMA ChangesAre ==
  ASSUME NEW op \in {"create", "move", "update", "label", "delete"}, NEW c \in Cards, NEW row,
         NEW m \in Mutations \cup {Absent}, NEW void \in BOOLEAN, op # "delete" => row \in Row,
         Latest \in List, Allowed(op, c), NEW e, e = ChangeOf(op, c, row, m, void)
  PROVE  e \in Change /\ e.card = c /\ e.by = m /\ e.void = void /\ Makes(e, op, c, row)
<1> PICK old : old = Latest[c]
  OBVIOUS
<1> PICK new : new = RowOf(op, old, row)
  OBVIOUS
<1>1. /\ old \in Row \cup {Absent} /\ (op # "create" => old \in Row)
      /\ op = "create" => c \notin Born
  BY DEF List, Allowed
<1>2. /\ op = "create" => new = row
      /\ op = "move" => new = [old EXCEPT !.place = row.place]
      /\ op = "update" => new = [old EXCEPT !.text = row.text]
      /\ op = "label" => new = [old EXCEPT !.labels = row.labels]
      /\ op = "delete" => new = Absent
  BY DEF RowOf
<1>3. /\ op = "create" => new \in Row
      /\ op = "move" => new \in Row /\ new.text = old.text /\ new.labels = old.labels
      /\ op = "update" => new \in Row /\ new.place = old.place /\ new.labels = old.labels
      /\ op = "label" => new \in Row /\ new.place = old.place /\ new.text = old.text
  BY <1>1, <1>2 DEF Row
<1> PICK kind : kind = KindOf[op]
  OBVIOUS
<1>4. /\ kind \in {"created", "updated", "labelled", "moved", "deleted"}
      /\ op = "create" => kind = "created"
      /\ op = "move" => kind = "moved"
      /\ op = "update" => kind = "updated"
      /\ op = "label" => kind = "labelled"
      /\ op = "delete" => kind = "deleted"
  BY DEF KindOf
<1>5. e = [k |-> kind, card |-> c, row |-> new, by |-> m, void |-> void]
  BY DEF ChangeOf
<1>6. new \in Row \cup {Absent}
  BY <1>2, <1>3
<1>7. e \in Change /\ e.card = c /\ e.by = m /\ e.void = void /\ e.k = kind /\ e.row = new
  BY <1>4, <1>5, <1>6 DEF Change
<1>8. Makes(e, op, c, row)
  BY <1>1, <1>2, <1>3, <1>4, <1>7 DEF Makes
<1> QED
  BY <1>7, <1>8

\* A change that the server announces puts right what it concerns.
Grown(op, c0, m, void) ==
  /\ log' \in Seq(Change) /\ Len(log)' = Len(log) + 1 /\ Len(log) \in Nat
  /\ log'[Len(log) + 1].by = m /\ log'[Len(log) + 1].void = void
  /\ \A i \in 1 .. Len(log) : log'[i] = log[i]
  /\ \A n \in 0 .. Len(log) : Table(n)' = Table(n)
  /\ TablesAgree' /\ RowsAreSent'
  /\ \A r \in Row \cup {Absent}, n \in 0 .. Len(log), c \in Cards : \A ops :
       Agrees(r, n, c, ops) => Agrees(r, n, c, IF c = c0 /\ ~void THEN ops \ {op} ELSE ops)'

LEMMA Announced ==
  ASSUME log \in Seq(Change), TablesAgree, RowsAreSent,
         NEW op \in {"create", "move", "update", "label", "delete"}, NEW c0 \in Cards, NEW row,
         NEW m \in Mutations \cup {Absent}, NEW void \in BOOLEAN, op # "delete" => row \in Row,
         Allowed(op, c0), Announce(op, c0, row, m, void)
  PROVE  Grown(op, c0, m, void)
<1>0. Latest \in List /\ Len(log) \in Nat
  BY DEF TablesAgree, Latest
<1> PICK e : e = ChangeOf(op, c0, row, m, void)
  OBVIOUS
<1>1. /\ e \in Change /\ e.card = c0 /\ e.by = m /\ e.void = void
      /\ op = "create" => e.k = "created" /\ e.row = row /\ Latest[c0] = Absent
      /\ op = "move" => /\ e.k = "moved" /\ e.row \in Row /\ Latest[c0] \in Row
                        /\ e.row.text = Latest[c0].text /\ e.row.labels = Latest[c0].labels
      /\ op = "update" => /\ e.k = "updated" /\ e.row \in Row /\ Latest[c0] \in Row
                          /\ e.row.place = Latest[c0].place
                          /\ e.row.labels = Latest[c0].labels
      /\ op = "label" => /\ e.k = "labelled" /\ e.row \in Row /\ Latest[c0] \in Row
                         /\ e.row.place = Latest[c0].place /\ e.row.text = Latest[c0].text
      /\ op = "delete" => e.k = "deleted" /\ e.row = Absent /\ Latest[c0] \in Row
  <2>1. c0 \notin Born => Latest[c0] = Absent
    BY NotBorn
  <2>2. e \in Change /\ e.card = c0 /\ e.by = m /\ e.void = void /\ Makes(e, op, c0, row)
    BY <1>0, ChangesAre
  <2> QED
    BY <2>1, <2>2 DEF Makes
<1>2. /\ log' \in Seq(Change) /\ Len(log)' = Len(log) + 1 /\ Len(log) \in Nat
      /\ log'[Len(log) + 1] = e /\ \A i \in 1 .. Len(log) : log'[i] = log[i]
      /\ \A n \in 0 .. Len(log) : Table(n)' = Table(n)
      /\ \A c \in Cards : Latest'[c] = IF c = c0 /\ ~void THEN e.row ELSE Latest[c]
  <2>1. log' = Append(log, e)
    BY DEF Announce
  <2> QED
    BY <1>1, <2>1, TableGrows
<1>3. ASSUME NEW n \in 0 .. Len(log), NEW c \in Cards, NEW kinds
      PROVE  /\ Later(n, c, kinds) => Later(n, c, kinds)'
             /\ c = c0 /\ ~void /\ e.k \in kinds => Later(n, c, kinds)'
  <2>1. n + 1 .. Len(log) \subseteq n + 1 .. Len(log)' /\ Len(log) + 1 \in n + 1 .. Len(log)'
    BY <1>2
  <2>2. \A i \in n + 1 .. Len(log) : i \in 1 .. Len(log)
    BY <1>2
  <2> QED
    BY <1>1, <1>2, <2>1, <2>2 DEF Later
<1>4. ASSUME NEW r \in Row \cup {Absent}, NEW n \in 0 .. Len(log), NEW c \in Cards, NEW ops,
             Agrees(r, n, c, ops)
      PROVE  Agrees(r, n, c, IF c = c0 /\ ~void THEN ops \ {op} ELSE ops)'
  <2>0. /\ Later(n, c, {"created"}) => Later(n, c, {"created"})'
        /\ Later(n, c, {"deleted"}) => Later(n, c, {"deleted"})'
        /\ Later(n, c, {"moved", "updated", "deleted"})
             => Later(n, c, {"moved", "updated", "deleted"})'
        /\ Later(n, c, {"updated", "deleted"}) => Later(n, c, {"updated", "deleted"})'
        /\ Later(n, c, {"labelled", "deleted"}) => Later(n, c, {"labelled", "deleted"})'
    BY <1>3
  <2>1. CASE c # c0 \/ void
    BY <1>2, <1>4, <2>0, <2>1 DEF Agrees
  <2>2. CASE c = c0 /\ ~void /\ op = "create"
    <3>1. /\ Latest[c] = Absent /\ Latest'[c] = row /\ row # Absent
          /\ Later(n, c, {"created"})'
          /\ r # Absent => Later(n, c, {"deleted"})
      BY <1>1, <1>2, <1>3, <1>4, <2>2, BoardAssumption DEF Agrees
    <3>2. r # Absent => /\ Later(n, c, {"deleted"})'
                        /\ Later(n, c, {"moved", "updated", "deleted"})'
                        /\ Later(n, c, {"updated", "deleted"})'
                        /\ Later(n, c, {"labelled", "deleted"})'
      <4>1. Later(n, c, {"deleted"}) => /\ Later(n, c, {"moved", "updated", "deleted"})
                                        /\ Later(n, c, {"updated", "deleted"})
                                        /\ Later(n, c, {"labelled", "deleted"})
        BY DEF Later
      <4> QED
        BY <2>0, <3>1, <4>1
    <3> QED
      BY <2>2, <3>1, <3>2 DEF Agrees
  <2>3. CASE c = c0 /\ ~void /\ op = "move"
    <3>1. /\ Latest[c] # Absent /\ Latest'[c] = e.row /\ e.row # Absent
          /\ e.row.text = Latest[c].text /\ e.row.labels = Latest[c].labels
          /\ Later(n, c, {"moved", "updated", "deleted"})'
      BY <1>1, <1>2, <1>3, <2>3, BoardAssumption
    <3> QED
      BY <1>4, <2>0, <2>3, <3>1 DEF Agrees
  <2>4. CASE c = c0 /\ ~void /\ op = "update"
    <3>1. /\ Latest[c] # Absent /\ Latest'[c] = e.row /\ e.row # Absent
          /\ e.row.labels = Latest[c].labels
          /\ Later(n, c, {"moved", "updated", "deleted"})' /\ Later(n, c, {"updated", "deleted"})'
      BY <1>1, <1>2, <1>3, <2>4, BoardAssumption
    <3> QED
      BY <1>4, <2>0, <2>4, <3>1 DEF Agrees
  <2>5. CASE c = c0 /\ ~void /\ op = "label"
    <3>1. /\ Latest[c] # Absent /\ Latest'[c] = e.row /\ e.row # Absent
          /\ e.row.place = Latest[c].place /\ e.row.text = Latest[c].text
          /\ Later(n, c, {"labelled", "deleted"})'
      BY <1>1, <1>2, <1>3, <2>5, BoardAssumption
    <3> QED
      BY <1>4, <2>0, <2>5, <3>1 DEF Agrees
  <2>6. CASE c = c0 /\ ~void /\ op = "delete"
    <3>1. Latest'[c] = Absent /\ Later(n, c, {"deleted"})'
      BY <1>1, <1>2, <1>3, <2>6
    <3> QED
      BY <2>6, <3>1 DEF Agrees
  <2> QED
    BY <2>1, <2>2, <2>3, <2>4, <2>5, <2>6
<1>5. TablesAgree'
  <2>1. ASSUME NEW n \in 0 .. Len(log)
        PROVE  Table(n)' \in List /\ \A c \in Cards : Agrees(Table(n)[c], n, c, {})'
    <3>1. Table(n) \in List /\ Table(n)' = Table(n)
      BY <1>2 DEF TablesAgree
    <3>2. ASSUME NEW c \in Cards
          PROVE  Agrees(Table(n)[c], n, c, {})'
      <4>1. PICK r : r = Table(n)[c]
        OBVIOUS
      <4>2. r \in Row \cup {Absent} /\ Agrees(r, n, c, {}) /\ Table(n)'[c] = r
        BY <3>1, <4>1 DEF TablesAgree, List
      <4>3. Agrees(r, n, c, IF c = c0 /\ ~void THEN {} \ {op} ELSE {})'
        BY <1>4, <4>2
      <4>4. Agrees(r, n, c, {})'
        BY <4>3 DEF Agrees
      <4> QED
        BY <4>2, <4>4 DEF Agrees
    <3> QED
      BY <3>1, <3>2
  <2>2. Table(Len(log))' \in List /\ \A c \in Cards : Agrees(Table(Len(log))[c], Len(log), c, {})'
    <3>1. Table(Len(log))' = Latest'
      BY DEF Latest
    <3>2. Latest' \in List
      <4>1. \A c \in Cards : Latest'[c] \in Row \cup {Absent}
        BY <1>0, <1>1, <1>2, BoardAssumption DEF List
      <4>2. Latest' = [c \in Cards |-> Latest'[c]]
        BY DEF Latest, Table
      <4> QED
        BY <4>1, <4>2 DEF List
    <3>3. \A c \in Cards : Agrees(Table(Len(log))[c], Len(log), c, {})'
      BY DEF Agrees, Latest
    <3> QED
      BY <3>1, <3>2, <3>3
  <2>3. \A n \in 0 .. Len(log)' : n \in 0 .. Len(log) \/ n = Len(log)'
    BY <1>2
  <2> QED
    BY <2>1, <2>2, <2>3 DEF TablesAgree
<1>6. RowsAreSent'
  <2>1. IF e.k = "deleted" THEN e.row = Absent ELSE e.row \in Row
    BY <1>1
  <2>2. \A i \in 1 .. Len(log)' : i \in 1 .. Len(log) \/ i = Len(log) + 1
    BY <1>2
  <2> QED
    BY <1>2, <2>1, <2>2 DEF RowsAreSent
<1>7. log'[Len(log) + 1].by = m /\ log'[Len(log) + 1].void = void
  BY <1>1, <1>2
<1> QED
  BY <1>2, <1>4, <1>5, <1>6, <1>7 DEF Grown

\* The handler of an event that does not mislead makes what it says of a list that
\* agrees otherwise.
LEMMA Applied ==
  ASSUME log \in Seq(Change), TablesAgree, RowsAreSent,
         NEW h \in 0 .. Len(log), h < Len(log), NEW l \in List
  PROVE  /\ Apply(l, log[h + 1]) \in List
         /\ ~Misleads(log[h + 1]) =>
              \A c \in Cards : \A ops :
                Agrees(l[c], h, c, ops) => Agrees(Apply(l, log[h + 1])[c], h + 1, c, ops)
<1> PICK e : e = log[h + 1]
  OBVIOUS
<1>0. /\ Len(log) \in Nat /\ h + 1 \in 1 .. Len(log) /\ e \in Change
      /\ IF e.k = "deleted" THEN e.row = Absent ELSE e.row \in Row
      /\ e.card \in Cards /\ e.k \in {"created", "updated", "labelled", "moved", "deleted"}
  <2>1. Len(log) \in Nat /\ h + 1 \in 1 .. Len(log)
    OBVIOUS
  <2>2. e \in Change
    BY <2>1
  <2>3. IF e.k = "deleted" THEN e.row = Absent ELSE e.row \in Row
    BY <2>1 DEF RowsAreSent
  <2> QED
    BY <2>1, <2>2, <2>3 DEF Change
<1>1. ~e.void => Table(h + 1)[e.card] = e.row
  <2> SUFFICES ASSUME ~e.void
               PROVE  Table(h + 1)[e.card] = e.row
    OBVIOUS
  <2> DEFINE S == {i \in 1 .. h + 1 : log[i].card = e.card /\ ~log[i].void}
  <2>1. h + 1 \in S /\ S \in SUBSET Nat /\ \A i \in S : h + 1 >= i
    BY <1>0
  <2>2. S # {} /\ Max(S) = h + 1
    BY <2>1, MaxIs
  <2> HIDE DEF S
  <2>3. Table(h + 1)[e.card] = IF S = {} THEN Start[e.card] ELSE log[Max(S)].row
    BY <1>0 DEF Table, S
  <2> QED
    BY <2>2, <2>3
<1>2. ~e.void => Agrees(e.row, h + 1, e.card, {})
  BY <1>0, <1>1 DEF TablesAgree
<1>3. l[e.card] \in Row \cup {Absent} /\ \A r \in Row : r # Absent
  BY <1>0, BoardAssumption DEF List
<1>4. ASSUME NEW kinds, NEW c \in Cards
      PROVE  /\ c # e.card \/ e.k \notin kinds => (Later(h, c, kinds) => Later(h + 1, c, kinds))
             /\ Later(h + 1, c, kinds) => Later(h, c, kinds)
  <2>1. \A i \in h + 1 .. Len(log) : i = h + 1 \/ i \in (h + 1) + 1 .. Len(log)
    BY <1>0
  <2>2. \A i \in (h + 1) + 1 .. Len(log) : i \in h + 1 .. Len(log)
    BY <1>0
  <2> QED
    BY <1>0, <2>1, <2>2 DEF Later
<1> PICK m : m = Apply(l, e)
  OBVIOUS
<1>5. /\ \A c \in Cards \ {e.card} : m[c] = l[c]
      /\ m \in List
      /\ e.k = "created" =>
           IF l[e.card] = Absent THEN m[e.card] = [e.row EXCEPT !.labels = Unlabelled]
           ELSE m[e.card] = l[e.card]
      /\ e.k \in {"updated", "labelled"} =>
           IF l[e.card] = Absent THEN m[e.card] = Absent
           ELSE /\ m[e.card] \in Row /\ m[e.card].place = e.row.place
                /\ m[e.card].text = e.row.text /\ m[e.card].labels = l[e.card].labels
      /\ e.k = "moved" =>
           IF l[e.card] = Absent THEN m[e.card] = Absent
           ELSE /\ m[e.card] \in Row /\ m[e.card].place = e.row.place
                /\ m[e.card].text = l[e.card].text /\ m[e.card].labels = l[e.card].labels
      /\ e.k = "deleted" => m[e.card] = Absent
  <2>0. e.k # "deleted" => m = Patch(l, e)
    BY DEF Apply
  <2>1. CASE e.k = "created"
    <3>1. PICK s : s = [e.row EXCEPT !.labels = Unlabelled]
      OBVIOUS
    <3>2. s \in Row
      BY <1>0, <2>1, <3>1, BoardAssumption DEF Row
    <3>3. m = IF l[e.card] = Absent THEN [l EXCEPT ![e.card] = s] ELSE l
      BY <2>0, <2>1, <3>1 DEF Patch
    <3> QED
      BY <1>0, <2>1, <3>1, <3>2, <3>3 DEF List
  <2>2. CASE e.k \in {"updated", "labelled"}
    <3>1. CASE l[e.card] = Absent
      <4>1. m = l
        BY <2>0, <2>2, <3>1 DEF Patch
      <4> QED
        BY <2>2, <3>1, <4>1
    <3>2. CASE l[e.card] # Absent
      <4>1. PICK r \in Row : r = l[e.card]
        BY <1>3, <3>2
      <4>2. PICK s : s = [e.row EXCEPT !.labels = r.labels]
        OBVIOUS
      <4>3. s \in Row /\ s.place = e.row.place /\ s.text = e.row.text /\ s.labels = r.labels
        BY <1>0, <2>2, <4>2 DEF Row
      <4>4. m = [l EXCEPT ![e.card] = s]
        BY <2>0, <2>2, <3>2, <4>1, <4>2 DEF Patch
      <4> QED
        BY <1>0, <2>2, <3>2, <4>1, <4>3, <4>4 DEF List
    <3> QED
      BY <3>1, <3>2
  <2>3. CASE e.k = "moved"
    <3>1. CASE l[e.card] = Absent
      <4>1. m = l
        BY <2>0, <2>3, <3>1 DEF Patch
      <4> QED
        BY <2>3, <3>1, <4>1
    <3>2. CASE l[e.card] # Absent
      <4>1. m = [l EXCEPT ![e.card].place = e.row.place]
        BY <2>0, <2>3, <3>2 DEF Patch
      <4>2. m = [l EXCEPT ![e.card] = [l[e.card] EXCEPT !.place = e.row.place]]
        BY <4>1
      <4>3. PICK r \in Row : r = l[e.card]
        BY <1>3, <3>2
      <4>4. PICK s : s = [r EXCEPT !.place = e.row.place]
        OBVIOUS
      <4>5. s \in Row /\ s.place = e.row.place /\ s.text = r.text /\ s.labels = r.labels
        BY <1>0, <2>3, <4>4 DEF Row
      <4>6. m = [l EXCEPT ![e.card] = s]
        BY <4>2, <4>3, <4>4
      <4> QED
        BY <1>0, <2>3, <3>2, <4>3, <4>5, <4>6 DEF List
    <3> QED
      BY <3>1, <3>2
  <2>4. CASE e.k = "deleted"
    <3>1. m = [l EXCEPT ![e.card] = Absent]
      BY <2>4 DEF Apply
    <3> QED
      BY <1>0, <2>4, <3>1 DEF List
  <2> QED
    BY <1>0, <2>1, <2>2, <2>3, <2>4
<1>6. ASSUME ~Misleads(e), NEW c \in Cards, NEW ops, Agrees(l[c], h, c, ops)
      PROVE  Agrees(m[c], h + 1, c, ops)
  <2>0. /\ ~e.void /\ e.k # "labelled" /\ (e.k = "created" => e.row.labels = Unlabelled)
        /\ Agrees(e.row, h + 1, e.card, {})
    BY <1>2, <1>6 DEF Misleads
  <2>1. CASE c # e.card
    BY <1>4, <1>5, <1>6, <2>1 DEF Agrees
  <2>2. CASE c = e.card /\ e.k = "created"
    <3>1. CASE l[c] = Absent
      <4>1. m[c] = [e.row EXCEPT !.labels = Unlabelled] /\ e.row \in Row
        BY <1>0, <1>5, <2>2, <3>1
      <4>2. m[c] = e.row
        BY <2>0, <2>2, <4>1 DEF Row
      <4> QED
        BY <1>3, <2>0, <2>2, <4>1, <4>2 DEF Agrees
    <3>2. CASE l[c] # Absent
      BY <1>4, <1>5, <1>6, <2>2, <3>2 DEF Agrees
    <3> QED
      BY <3>1, <3>2
  <2>3. CASE c = e.card /\ e.k = "updated"
    <3>1. CASE l[c] = Absent
      BY <1>4, <1>5, <1>6, <2>3, <3>1 DEF Agrees
    <3>2. CASE l[c] # Absent
      <4>1. /\ m[c] # Absent /\ m[c].place = e.row.place /\ m[c].text = e.row.text
            /\ m[c].labels = l[c].labels /\ e.row # Absent
        BY <1>0, <1>3, <1>5, <2>3, <3>2
      <4>2. /\ Later(h, c, {"deleted"}) => Later(h + 1, c, {"deleted"})
            /\ Later(h, c, {"labelled", "deleted"}) => Later(h + 1, c, {"labelled", "deleted"})
        BY <1>4, <2>3
      <4> QED
        BY <1>6, <2>0, <2>3, <3>2, <4>1, <4>2 DEF Agrees
    <3> QED
      BY <3>1, <3>2
  <2>4. CASE c = e.card /\ e.k = "moved"
    <3>1. CASE l[c] = Absent
      BY <1>4, <1>5, <1>6, <2>4, <3>1 DEF Agrees
    <3>2. CASE l[c] # Absent
      <4>1. /\ m[c] # Absent /\ m[c].place = e.row.place /\ m[c].text = l[c].text
            /\ m[c].labels = l[c].labels /\ e.row # Absent
        BY <1>0, <1>3, <1>5, <2>4, <3>2
      <4>2. /\ Later(h, c, {"deleted"}) => Later(h + 1, c, {"deleted"})
            /\ Later(h, c, {"updated", "deleted"}) => Later(h + 1, c, {"updated", "deleted"})
            /\ Later(h, c, {"labelled", "deleted"}) => Later(h + 1, c, {"labelled", "deleted"})
        BY <1>4, <2>4
      <4> QED
        BY <1>6, <2>0, <2>4, <3>2, <4>1, <4>2 DEF Agrees
    <3> QED
      BY <3>1, <3>2
  <2>5. CASE c = e.card /\ e.k = "deleted"
    BY <1>0, <2>0, <1>5, <2>5 DEF Agrees
  <2> QED
    BY <1>0, <2>0, <2>1, <2>2, <2>3, <2>4, <2>5
<1> QED
  BY <1>5, <1>6
-----------------------------------------------------------------------------
(* BoardCache: calls.                                                      *)

LEMMA WhatIsKept ==
  ASSUME NEW c \in CallRec
  PROVE  /\ Kept(c) \in CallRec /\ Kept(c).ui = c.ui /\ Kept(c).server = c.server
         /\ Kept(c).op = IF c.ui = "pending" \/ c.server = "sent" THEN c.op ELSE Absent
         /\ Kept(c).card = IF c.server = "sent" THEN c.card ELSE Absent
         /\ Kept(c).row = IF c.server = "sent" THEN c.row ELSE Absent
         /\ Kept(c).previous = IF c.ui = "pending" THEN c.previous ELSE Absent
         /\ Kept(c).early = (c.early /\ c.ui # "failed")
<1> DEFINE op == IF c.ui = "pending" \/ c.server = "sent" THEN c.op ELSE Absent
           target == IF c.server = "sent" THEN c.card ELSE Absent
           row == IF c.server = "sent" THEN c.row ELSE Absent
           previous == IF c.ui = "pending" THEN c.previous ELSE Absent
           soon == c.early /\ c.ui # "failed"
<1>1. /\ op \in {"create", "move", "update", "label", "delete", Absent} /\ target \in Cards \cup {Absent}
      /\ row \in Row \cup {Absent} /\ previous \in List \cup {Absent} /\ soon \in BOOLEAN
  BY DEF CallRec
<1>2. Kept(c) = [c EXCEPT !.op = op, !.card = target, !.row = row, !.previous = previous,
                          !.early = soon]
  BY DEF Kept
<1> HIDE DEF op, target, row, previous, soon
<1>3. /\ Kept(c) \in CallRec /\ Kept(c).ui = c.ui /\ Kept(c).server = c.server
      /\ Kept(c).op = op /\ Kept(c).card = target /\ Kept(c).row = row
      /\ Kept(c).previous = previous /\ Kept(c).early = soon
  BY <1>1, <1>2 DEF CallRec
<1> QED
  BY <1>3 DEF op, target, row, previous, soon

LEMMA Decided ==
  ASSUME BoardTypes, NEW m \in Mutations, call[m].ui # "idle",
         NEW verdict \in {"announced", "refused"}, Decide(m, verdict)
  PROVE  /\ call' \in [Mutations -> CallRec \cup {IdleCall}]
         /\ \A k \in Mutations \ {m} : call'[k] = call[k]
         /\ call[m] \in CallRec /\ call'[m] \in CallRec
         /\ call'[m].ui = call[m].ui /\ call'[m].server = verdict
         /\ call'[m].ui = "pending" => /\ call'[m].op = call[m].op
                                       /\ call'[m].previous = call[m].previous
                                       /\ call'[m].early = call[m].early
         /\ call'[m].early => call[m].early
         /\ call'[m].ui # "failed" => call'[m].early = call[m].early
<1> PICK c : c = [call[m] EXCEPT !.server = verdict]
  OBVIOUS
<1> PICK r : r = call[m]
  OBVIOUS
<1>1. r \in CallRec
  BY DEF BoardTypes, IdleCall
<1>2. c = [r EXCEPT !.server = verdict]
  OBVIOUS
<1>3. /\ c \in CallRec /\ c.ui = r.ui /\ c.server = verdict /\ c.op = r.op
      /\ c.previous = r.previous /\ c.early = r.early /\ r.early \in BOOLEAN
  BY <1>1, <1>2 DEF CallRec
<1>4. call' = [call EXCEPT ![m] = Kept(c)]
  BY DEF Decide
<1>5. /\ Kept(c) \in CallRec /\ Kept(c).ui = c.ui /\ Kept(c).server = c.server
      /\ Kept(c).op = IF c.ui = "pending" \/ c.server = "sent" THEN c.op ELSE Absent
      /\ Kept(c).previous = IF c.ui = "pending" THEN c.previous ELSE Absent
      /\ Kept(c).early = (c.early /\ c.ui # "failed")
  BY <1>3, WhatIsKept
<1> PICK k : k = Kept(c)
  OBVIOUS
<1>6. /\ call' \in [Mutations -> CallRec \cup {IdleCall}] /\ call'[m] = k
      /\ \A j \in Mutations \ {m} : call'[j] = call[j]
  BY <1>4, <1>5 DEF BoardTypes
<1> QED
  BY <1>1, <1>3, <1>5, <1>6

LEMMA Ended ==
  ASSUME BoardTypes, NEW m \in Mutations, call[m].ui = "pending",
         NEW ui \in {"succeeded", "failed"}, EndCall(m, ui)
  PROVE  /\ call' \in [Mutations -> CallRec \cup {IdleCall}]
         /\ \A k \in Mutations \ {m} : call'[k] = call[k]
         /\ call[m] \in CallRec /\ call'[m] \in CallRec
         /\ call'[m].ui = ui /\ call'[m].server = call[m].server
         /\ call[m].server = "sent" => /\ call'[m].op = call[m].op /\ call'[m].card = call[m].card
                                       /\ call'[m].row = call[m].row
         /\ call'[m].early = (call[m].early /\ ui # "failed")
<1> PICK c : c = [call[m] EXCEPT !.ui = ui]
  OBVIOUS
<1> PICK r : r = call[m]
  OBVIOUS
<1>1. r \in CallRec
  BY DEF BoardTypes, IdleCall
<1>2. c = [r EXCEPT !.ui = ui]
  OBVIOUS
<1>3. /\ c \in CallRec /\ c.ui = ui /\ c.server = r.server /\ c.op = r.op
      /\ c.card = r.card /\ c.row = r.row /\ c.early = r.early
  BY <1>1, <1>2 DEF CallRec
<1>4. call' = [call EXCEPT ![m] = Kept(c)]
  BY DEF EndCall
<1>5. /\ Kept(c) \in CallRec /\ Kept(c).ui = c.ui /\ Kept(c).server = c.server
      /\ Kept(c).op = IF c.ui = "pending" \/ c.server = "sent" THEN c.op ELSE Absent
      /\ Kept(c).card = IF c.server = "sent" THEN c.card ELSE Absent
      /\ Kept(c).row = IF c.server = "sent" THEN c.row ELSE Absent
      /\ Kept(c).early = (c.early /\ c.ui # "failed")
  BY <1>3, WhatIsKept
<1> PICK k : k = Kept(c)
  OBVIOUS
<1>6. /\ call' \in [Mutations -> CallRec \cup {IdleCall}] /\ call'[m] = k
      /\ \A j \in Mutations \ {m} : call'[j] = call[j]
  BY <1>4, <1>5 DEF BoardTypes
<1> QED
  BY <1>1, <1>3, <1>5, <1>6

-----------------------------------------------------------------------------
(* BoardCache: every step keeps the invariant.                            *)

LEMMA Fetches ==
  ASSUME BoardTypes
  PROVE  /\ fetch.st = "none" <=> fetch = NoFetch
         /\ fetch.st = "asked" <=> fetch = Asked
         /\ fetch.st = "answered" <=> fetch \in Answers
         /\ fetch.st \in {"none", "asked", "answered"}
         /\ fetch.st = "answered" => fetch.at \in 0 .. committed /\ fetch.list \in List
<1>1. /\ NoFetch.st = "none" /\ Asked.st = "asked"
      /\ \A f \in Answers : f.st = "answered" /\ f.at \in Nat /\ f.list \in List
  BY DEF NoFetch, Asked, Answers
<1>2. fetch = NoFetch \/ fetch = Asked \/ fetch \in Answers
  BY DEF BoardTypes
<1>3. committed \in Nat /\ (fetch.st = "answered" => fetch.at <= committed)
  BY DEF BoardTypes
<1> QED
  BY <1>1, <1>2, <1>3

LEMMA AgreesMore ==
  ASSUME NEW r, NEW n \in Nat, NEW k \in Nat, k <= n, NEW c, NEW ops, NEW more,
         ops \subseteq more, Agrees(r, n, c, ops), Len(log) \in Nat
  PROVE  Agrees(r, k, c, more)
<1>1. ASSUME NEW kinds, Later(n, c, kinds)
      PROVE  Later(k, c, kinds)
  <2>1. \A i \in n + 1 .. Len(log) : i \in k + 1 .. Len(log)
    OBVIOUS
  <2> QED
    BY <1>1, <2>1 DEF Later
<1> QED
  BY <1>1 DEF Agrees

LEMMA SameLog ==
  ASSUME log' = log
  PROVE  /\ RowsAreSent => RowsAreSent'
         /\ TablesAgree => TablesAgree'
         /\ \A n : Table(n)' = Table(n)
         /\ \A r, n, c, ops : Agrees(r, n, c, ops) => Agrees(r, n, c, ops)'
<1>1. \A n : Table(n)' = Table(n)
  BY DEF Table, Start
<1>2. Latest' = Latest
  BY DEF Latest, Table, Start
<1>3. \A n, c, kinds : Later(n, c, kinds) => Later(n, c, kinds)'
  BY DEF Later
<1>4. \A r, n, c, ops : Agrees(r, n, c, ops) => Agrees(r, n, c, ops)'
  BY <1>2, <1>3 DEF Agrees
<1>5. RowsAreSent => RowsAreSent'
  BY DEF RowsAreSent
<1>6. TablesAgree => TablesAgree'
  <2> SUFFICES ASSUME TablesAgree
               PROVE  TablesAgree'
    OBVIOUS
  <2>1. ASSUME NEW n \in 0 .. Len(log)
        PROVE  Table(n)' \in List /\ \A c \in Cards : Agrees(Table(n)[c], n, c, {})'
    <3>1. PICK t : t = Table(n)
      OBVIOUS
    <3>2. t \in List /\ Table(n)' = t /\ \A c \in Cards : Agrees(t[c], n, c, {})
      BY <1>1, <3>1 DEF TablesAgree
    <3>3. \A c \in Cards : Agrees(t[c], n, c, {})'
      BY <1>4, <3>2
    <3> QED
      BY <3>2, <3>3 DEF Agrees
  <2> QED
    BY <2>1 DEF TablesAgree
<1> QED
  BY <1>1, <1>4, <1>5, <1>6

LEMMA CacheInvInit == BoardInit => CacheInv
<1> SUFFICES ASSUME BoardInit
             PROVE  CacheInv
  OBVIOUS
<1> USE DEF BoardInit
<1>1. log = <<>> /\ Len(log) = 0
  OBVIOUS
<1>2. BoardTypes
  <2>1. fetch \in {NoFetch, Asked} \cup Answers /\ fetch.st = "asked"
    BY DEF Asked
  <2>2. log \in Seq(Change) /\ committed \in 0 .. Len(log) /\ heard \in 0 .. Len(log)
    BY <1>1
  <2>3. call \in [Mutations -> CallRec \cup {IdleCall}]
    BY DEF IdleCall
  <2>4. cache \in List \cup {Absent} /\ seen \in 0 .. committed
    OBVIOUS
  <2>5. gap \in BOOLEAN /\ rolledBack \in BOOLEAN /\ failed \in BOOLEAN
    OBVIOUS
  <2> QED
    BY <2>1, <2>2, <2>3, <2>4, <2>5, Zenon DEF BoardTypes
<1>3. \A m \in Mutations : CallOK(m) /\ ~Pends(m) /\ call[m].ui = "idle"
  BY DEF CallOK, Pends
<1>4. Recorded /\ RowsAreSent
  BY <1>1 DEF Recorded, RowsAreSent
<1>5. Table(0) = Start /\ Start \in List
  BY FirstTable, StartIsList
<1>6. TablesAgree
  <2>1. \A n \in 0 .. Len(log) : n = 0
    BY <1>1
  <2>2. Latest = Table(0)
    BY <1>1 DEF Latest
  <2>3. \A c \in Cards : Agrees(Table(0)[c], 0, c, {})
    BY <2>2 DEF Agrees
  <2> QED
    BY <1>5, <2>1, <2>3 DEF TablesAgree
<1>7. CacheAgrees
  BY DEF CacheAgrees, Asked
<1>8. Refetched
  BY <1>1 DEF Refetched
<1> QED
  BY <1>2, <1>3, <1>4, <1>6, <1>7, <1>8 DEF CacheInv

LEMMA CacheInvRead == CacheInv /\ Read => CacheInv'
<1> SUFFICES ASSUME CacheInv, Read
             PROVE  CacheInv'
  OBVIOUS
<1> USE DEF serverState, history
<1>1. /\ BoardTypes /\ (\A m \in Mutations : CallOK(m)) /\ Recorded /\ RowsAreSent
      /\ TablesAgree /\ CacheAgrees /\ Refetched
  BY DEF CacheInv
<1>2. /\ \E list \in FirstOf(Table(committed)) :
           fetch' = [st |-> "answered", at |-> committed, list |-> list]
      /\ log' = log /\ committed' = committed /\ heard' = heard /\ cache' = cache
      /\ seen' = seen /\ call' = call /\ gap' = gap /\ rolledBack' = rolledBack /\ failed' = failed
  BY DEF Read
<1>3. FirstOf(Table(committed)) \subseteq List /\ committed \in Nat
  BY <1>1, FirstIsList DEF BoardTypes, TablesAgree
<1>4. /\ fetch' \in Answers /\ fetch'.st = "answered" /\ fetch'.at = committed
      /\ fetch' # NoFetch
  BY <1>2, <1>3 DEF Answers, NoFetch
<1>5. BoardTypes'
  BY <1>1, <1>2, <1>3, <1>4 DEF BoardTypes
<1>6. RowsAreSent' /\ TablesAgree' /\ \A n : Table(n)' = Table(n)
  BY <1>1, <1>2, SameLog
<1>7. (\A m \in Mutations : CallOK(m))' /\ Recorded'
  BY <1>1, <1>2 DEF CallOK, Recorded
<1>9. CacheAgrees'
  <2>1. \A r, n, c, ops : Agrees(r, n, c, ops) => Agrees(r, n, c, ops)'
    BY <1>2, SameLog
  <2>2. Doomed' = Doomed /\ \A c : Awaited(c)' = Awaited(c)
    BY <1>2 DEF Doomed, Awaited, Edits, Pends, Undone
  <2> QED
    BY <1>1, <1>2, <2>1, <2>2 DEF CacheAgrees, Agrees
<1>10. Refetched'
  <2>1. ASSUME NEW i \in 1 .. Len(log), log[i].by # Absent, call[log[i].by].ui = "succeeded"
        PROVE  committed >= i
    BY <1>1, <1>3, <2>1 DEF Recorded, CallOK, BoardTypes
  <2> QED
    BY <1>2, <1>4, <2>1 DEF Refetched
<1> QED
  BY <1>5, <1>6, <1>7, <1>9, <1>10 DEF CacheInv

LEMMA CacheInvArrive == CacheInv /\ Arrive => CacheInv'
<1> SUFFICES ASSUME CacheInv, Arrive
             PROVE  CacheInv'
  OBVIOUS
<1> USE DEF serverState, history
<1>1. /\ BoardTypes /\ (\A m \in Mutations : CallOK(m)) /\ Recorded /\ RowsAreSent
      /\ TablesAgree /\ CacheAgrees /\ Refetched
  BY DEF CacheInv
<1>2. /\ fetch.st = "answered" /\ cache' = fetch.list /\ seen' = fetch.at /\ fetch' = NoFetch
      /\ gap' = (fetch.at < heard \/ fetch.list # Table(fetch.at)) /\ rolledBack' = FALSE /\ failed' = FALSE
      /\ log' = log /\ committed' = committed /\ heard' = heard /\ call' = call
  BY DEF Arrive, Cancel
<1>3. /\ fetch.at \in 0 .. committed /\ fetch.list \in List
      /\ committed \in 0 .. Len(log) /\ heard \in 0 .. Len(log) /\ Len(log) \in Nat
  BY <1>1, <1>2, Fetches DEF BoardTypes
<1>4. fetch'.st = "none" /\ cache' # Absent
  BY <1>2, <1>3, BoardAssumption DEF NoFetch
<1>5. BoardTypes'
  <2>0. gap' = TRUE \/ gap' = FALSE
    <3>1. CASE fetch.at < heard \/ fetch.list # Table(fetch.at)
      BY <1>2, <3>1
    <3>2. CASE ~(fetch.at < heard \/ fetch.list # Table(fetch.at))
      BY <1>2, <3>2
    <3> QED
      BY <3>1, <3>2
  <2>1. gap' \in BOOLEAN /\ rolledBack' \in BOOLEAN /\ failed' \in BOOLEAN
    BY <1>2, <2>0, Zenon
  <2>2. /\ cache' \in List \cup {Absent} /\ seen' \in 0 .. committed'
        /\ fetch' \in {NoFetch, Asked} \cup Answers
    BY <1>2, <1>3
  <2>3. /\ log' \in Seq(Change) /\ committed' \in 0 .. Len(log') /\ heard' \in 0 .. Len(log')
        /\ call' \in [Mutations -> CallRec \cup {IdleCall}]
    BY <1>1, <1>2 DEF BoardTypes
  <2>4. fetch'.st # "answered"
    BY <1>4
  <2> QED
    BY <2>1, <2>2, <2>3, <2>4, Zenon DEF BoardTypes
<1>6. RowsAreSent' /\ TablesAgree'
  BY <1>1, <1>2, SameLog
<1>7. (\A m \in Mutations : CallOK(m))' /\ Recorded'
  BY <1>1, <1>2, <1>4 DEF CallOK, Recorded
<1>9. CacheAgrees'
  <2> SUFFICES ASSUME ~(fetch.at < heard), fetch.list = Table(fetch.at), NEW c \in Cards
               PROVE  Agrees(cache[c], heard, c, Awaited(c))'
    BY <1>2, <1>4 DEF CacheAgrees
  <2> PICK r : r = fetch.list[c]
    OBVIOUS
  <2>1. Agrees(r, fetch.at, c, {})
    BY <1>1, <1>3 DEF TablesAgree
  <2> PICK a : a = Awaited(c)
    OBVIOUS
  <2> PICK h : h = heard
    OBVIOUS
  <2>2. Agrees(r, h, c, a)
    BY <1>3, <2>1, AgreesMore
  <2>3. Agrees(r, h, c, a)'
    BY <1>2, <2>2, SameLog
  <2>4. Awaited(c)' = a /\ cache'[c] = r /\ heard' = h
    BY <1>2 DEF Awaited, Pends
  <2> QED
    BY <2>3, <2>4 DEF Agrees
<1>10. Refetched'
  BY <1>1, <1>2, <1>3, <1>4 DEF Refetched
<1> QED
  BY <1>5, <1>6, <1>7, <1>9, <1>10 DEF CacheInv

LEMMA CacheInvFetchFails == CacheInv /\ FetchFails => CacheInv'
<1> SUFFICES ASSUME CacheInv, FetchFails
             PROVE  CacheInv'
  OBVIOUS
<1> USE DEF serverState, history
<1>1. /\ BoardTypes /\ (\A m \in Mutations : CallOK(m)) /\ Recorded /\ RowsAreSent
      /\ TablesAgree /\ CacheAgrees /\ Refetched
  BY DEF CacheInv
<1>2. /\ fetch' = NoFetch /\ failed' = TRUE
      /\ log' = log /\ committed' = committed /\ heard' = heard /\ cache' = cache
      /\ seen' = seen /\ call' = call /\ gap' = gap /\ rolledBack' = rolledBack
  BY DEF FetchFails, Cancel
<1>3. fetch'.st = "none"
  BY <1>2 DEF NoFetch
<1>4. BoardTypes'
  BY <1>1, <1>2, <1>3 DEF BoardTypes
<1>5. RowsAreSent' /\ TablesAgree' /\ \A r, n, c, ops : Agrees(r, n, c, ops) => Agrees(r, n, c, ops)'
  BY <1>1, <1>2, SameLog
<1>6. (\A m \in Mutations : CallOK(m))' /\ Recorded'
  BY <1>1, <1>2 DEF CallOK, Recorded
<1>8. CacheAgrees'
  <2>1. Doomed' = Doomed /\ \A c : Awaited(c)' = Awaited(c)
    BY <1>2 DEF Doomed, Awaited, Edits, Pends, Undone
  <2> QED
    BY <1>1, <1>2, <1>5, <2>1 DEF CacheAgrees, Agrees
<1>9. Refetched'
  BY <1>2, <1>3 DEF Refetched
<1> QED
  BY <1>4, <1>5, <1>6, <1>8, <1>9 DEF CacheInv

LEMMA CacheInvHear == CacheInv /\ Hear => CacheInv'
<1> SUFFICES ASSUME CacheInv, Hear
             PROVE  CacheInv'
  OBVIOUS
<1> USE DEF serverState, history
<1>1. /\ BoardTypes /\ (\A m \in Mutations : CallOK(m)) /\ Recorded /\ RowsAreSent
      /\ TablesAgree /\ CacheAgrees /\ Refetched
  BY DEF CacheInv
<1>2. /\ heard < Len(log) /\ heard' = heard + 1 /\ cache' = Apply(Shown, log[heard + 1])
      /\ log' = log /\ committed' = committed /\ fetch' = fetch
      /\ seen' = seen /\ call' = call /\ gap' = (gap \/ Misleads(log[heard + 1])) /\ rolledBack' = rolledBack /\ failed' = failed
  BY DEF Hear
<1>3. heard \in 0 .. Len(log) /\ Len(log) \in Nat /\ log \in Seq(Change)
  BY <1>1 DEF BoardTypes
<1>4. Shown \in List /\ (cache # Absent => Shown = cache)
  BY <1>1 DEF Shown, BoardTypes, List
<1>5. PICK l : l = Shown
  OBVIOUS
<1>6. PICK h : h = heard
  OBVIOUS
<1>7. /\ Apply(l, log[h + 1]) \in List
      /\ ~Misleads(log[h + 1]) =>
           \A c \in Cards : \A ops :
             Agrees(l[c], h, c, ops) => Agrees(Apply(l, log[h + 1])[c], h + 1, c, ops)
  BY <1>1, <1>2, <1>3, <1>4, <1>5, <1>6, Applied
<1>8. cache' \in List /\ cache' # Absent /\ cache' = Apply(l, log[h + 1])
  BY <1>2, <1>5, <1>6, <1>7, BoardAssumption
<1>9. BoardTypes'
  <2>1. heard' \in 0 .. Len(log')
    BY <1>2, <1>3
  <2> QED
    <3>1. gap' = TRUE \/ gap' = FALSE
      <4>1. CASE gap \/ Misleads(log[heard + 1])
        BY <1>2, <4>1
      <4>2. CASE ~(gap \/ Misleads(log[heard + 1]))
        BY <1>2, <4>2
      <4> QED
        BY <4>1, <4>2
    <3>2. gap' \in BOOLEAN
      BY <3>1, Zenon
    <3> QED
      BY <1>1, <1>2, <1>8, <2>1, <3>2 DEF BoardTypes
<1>10. /\ RowsAreSent' /\ TablesAgree' /\ (\A n : Table(n)' = Table(n))
       /\ \A r, n, c, ops : Agrees(r, n, c, ops) => Agrees(r, n, c, ops)'
  BY <1>1, <1>2, SameLog
<1>11. (\A m \in Mutations : CallOK(m))' /\ Recorded'
  BY <1>1, <1>2, <1>8 DEF CallOK, Recorded
<1>13. CacheAgrees'
  <2>1. Doomed' = Doomed /\ \A c : Awaited(c)' = Awaited(c)
    BY <1>2 DEF Doomed, Awaited, Edits, Pends, Undone
  <2> SUFFICES ASSUME ~gap, ~Misleads(log[h + 1]), ~Doomed, NEW c \in Cards
               PROVE  Agrees(cache[c], heard, c, Awaited(c))'
    BY <1>2, <1>6, <1>8, <2>1 DEF CacheAgrees
  <2>2. PICK a : a = Awaited(c)
    OBVIOUS
  <2>3. Agrees(l[c], h, c, a)
    BY <1>1, <1>4, <1>5, <1>6, <2>2 DEF CacheAgrees
  <2>4. PICK r : r = Apply(l, log[h + 1])[c]
    OBVIOUS
  <2>5. Agrees(r, h + 1, c, a)'
    BY <1>7, <1>10, <2>3, <2>4
  <2>6. cache'[c] = r /\ heard' = h + 1 /\ Awaited(c)' = a
    BY <1>2, <1>6, <1>8, <2>1, <2>2, <2>4
  <2> QED
    BY <2>5, <2>6 DEF Agrees
<1>14. Refetched'
  BY <1>1, <1>2 DEF Refetched, Editing, Edits, Pends
<1> QED
  BY <1>9, <1>10, <1>11, <1>13, <1>14 DEF CacheInv

LEMMA CacheInvMiss == CacheInv /\ Miss => CacheInv'
<1> SUFFICES ASSUME CacheInv, Miss
             PROVE  CacheInv'
  OBVIOUS
<1> USE DEF serverState, history
<1>1. /\ BoardTypes /\ (\A m \in Mutations : CallOK(m)) /\ Recorded /\ RowsAreSent
      /\ TablesAgree /\ CacheAgrees /\ Refetched
  BY DEF CacheInv
<1>2. /\ heard < Len(log) /\ heard' = heard + 1 /\ gap' = TRUE
      /\ log' = log /\ committed' = committed /\ fetch' = fetch /\ cache' = cache
      /\ seen' = seen /\ call' = call /\ rolledBack' = rolledBack /\ failed' = failed
  BY DEF Miss
<1>3. BoardTypes'
  <2>1. heard' \in 0 .. Len(log')
    BY <1>1, <1>2 DEF BoardTypes
  <2> QED
    BY <1>1, <1>2, <2>1 DEF BoardTypes
<1>4. RowsAreSent' /\ TablesAgree' /\ \A n : Table(n)' = Table(n)
  BY <1>1, <1>2, SameLog
<1>5. (\A m \in Mutations : CallOK(m))' /\ Recorded'
  BY <1>1, <1>2 DEF CallOK, Recorded
<1>7. CacheAgrees'
  BY <1>2 DEF CacheAgrees
<1>8. Refetched'
  BY <1>1, <1>2 DEF Refetched, Editing, Edits, Pends
<1> QED
  BY <1>3, <1>4, <1>5, <1>7, <1>8 DEF CacheInv

LEMMA CacheInvOtherChange == CacheInv /\ OtherChange => CacheInv'
<1> SUFFICES ASSUME CacheInv, OtherChange
             PROVE  CacheInv'
  OBVIOUS
<1> USE DEF serverState, history
<1>1. /\ BoardTypes /\ (\A m \in Mutations : CallOK(m)) /\ Recorded /\ RowsAreSent
      /\ TablesAgree /\ CacheAgrees /\ Refetched
  BY DEF CacheInv
<1>2. /\ committed' = committed /\ fetch' = fetch /\ cache' = cache /\ heard' = heard
      /\ seen' = seen /\ call' = call /\ gap' = gap /\ rolledBack' = rolledBack /\ failed' = failed
  BY DEF OtherChange
<1>3. PICK op \in {"create", "move", "update", "label", "delete"}, c0 \in Cards, row \in Row,
           void \in BOOLEAN :
        Allowed(op, c0) /\ Announce(op, c0, row, Absent, void)
  BY DEF OtherChange
<1>4. log \in Seq(Change) /\ Len(log) \in Nat /\ committed \in 0 .. Len(log) /\ heard \in 0 .. Len(log)
  BY <1>1 DEF BoardTypes
<1>0. Grown(op, c0, Absent, void)
  BY <1>1, <1>3, <1>4, Announced
<1>5. /\ log' \in Seq(Change) /\ Len(log)' = Len(log) + 1
      /\ log'[Len(log) + 1].by = Absent /\ (\A i \in 1 .. Len(log) : log'[i] = log[i])
      /\ (\A n \in 0 .. Len(log) : Table(n)' = Table(n))
      /\ TablesAgree' /\ RowsAreSent'
      /\ \A r \in Row \cup {Absent}, n \in 0 .. Len(log), c \in Cards : \A ops :
           Agrees(r, n, c, ops) => Agrees(r, n, c, IF c = c0 /\ ~void THEN ops \ {op} ELSE ops)'
  BY <1>0 DEF Grown
<1>6. BoardTypes'
  <2>1. committed' \in 0 .. Len(log') /\ heard' \in 0 .. Len(log')
    BY <1>2, <1>4, <1>5
  <2> QED
    BY <1>1, <1>2, <1>5, <2>1 DEF BoardTypes
<1>7. \A i \in 1 .. Len(log)' : i \in 1 .. Len(log) \/ i = Len(log) + 1
  BY <1>4, <1>5
<1>8. (\A m \in Mutations : CallOK(m))'
  BY <1>1, <1>2 DEF CallOK
<1>9. Recorded'
  <2>1. ASSUME NEW i \in 1 .. Len(log)', log'[i].by # Absent
        PROVE  /\ i \in 1 .. Len(log) /\ log'[i] = log[i]
               /\ log'[i].by \in Mutations /\ call[log'[i].by].ui # "idle"
               /\ call[log'[i].by].server = IF i > committed THEN "announced"
                                            ELSE IF log'[i].void THEN "refused" ELSE "done"
    <3>1. i \in 1 .. Len(log) /\ log'[i] = log[i]
      BY <1>5, <1>7, <2>1
    <3> QED
      BY <1>1, <2>1, <3>1 DEF Recorded
  <2>2. ASSUME NEW i \in 1 .. Len(log)', NEW j \in 1 .. Len(log)',
               log'[i].by # Absent, log'[i].by = log'[j].by
        PROVE  i = j
    BY <1>1, <2>1, <2>2 DEF Recorded
  <2> QED
    BY <1>2, <2>1, <2>2 DEF Recorded
<1>10. ASSUME NEW m \in Mutations
       PROVE  Undone(m)' <=> Undone(m)
  <2>1. ASSUME NEW i \in 1 .. Len(log)', log'[i].by = m /\ log'[i].void
        PROVE  Undone(m)
    <3>1. i \in 1 .. Len(log) /\ log'[i] = log[i]
      BY <1>5, <1>7, <2>1, BoardAssumption
    <3> QED
      BY <2>1, <3>1 DEF Undone
  <2>2. ASSUME NEW i \in 1 .. Len(log), log[i].by = m /\ log[i].void
        PROVE  Undone(m)'
    <3>1. i \in 1 .. Len(log)' /\ log'[i] = log[i]
      BY <1>4, <1>5
    <3> QED
      BY <2>2, <3>1 DEF Undone
  <2> QED
    BY <2>1, <2>2 DEF Undone
<1>11. CacheAgrees'
  <2>1. Doomed' = Doomed /\ \A c : Awaited(c)' = Awaited(c)
    BY <1>2, <1>10 DEF Doomed, Awaited, Edits, Pends
  <2>2. cache = Absent => gap
    BY <1>1 DEF CacheAgrees
  <2> SUFFICES ASSUME ~gap, ~Doomed, NEW c \in Cards
               PROVE  Agrees(cache[c], heard, c, Awaited(c))'
    BY <1>2, <2>1, <2>2 DEF CacheAgrees
  <2>3. PICK a : a = Awaited(c)
    OBVIOUS
  <2>4. PICK r : r = cache[c]
    OBVIOUS
  <2>5. PICK h : h = heard
    OBVIOUS
  <2>6. Agrees(r, h, c, a) /\ r \in Row \cup {Absent} /\ h \in 0 .. Len(log)
    BY <1>1, <1>4, <2>2, <2>3, <2>4, <2>5 DEF CacheAgrees, BoardTypes, List
  <2>7. Agrees(r, h, c, IF c = c0 /\ ~void THEN a \ {op} ELSE a)'
    BY <1>5, <2>6
  <2>8. cache'[c] = r /\ heard' = h /\ Awaited(c)' = a
    BY <1>2, <2>1, <2>3, <2>4, <2>5
  <2> QED
    BY <2>7, <2>8 DEF Agrees
<1>12. Refetched'
  BY <1>1, <1>2, <1>5, <1>7 DEF Refetched, Editing, Edits, Pends
<1> QED
  BY <1>5, <1>6, <1>8, <1>9, <1>11, <1>12 DEF CacheInv

LEMMA CacheInvEnd == CacheInv /\ End => CacheInv'
<1> SUFFICES ASSUME CacheInv, End
             PROVE  CacheInv'
  OBVIOUS
<1> USE DEF serverState, history
<1>1. /\ BoardTypes /\ (\A m \in Mutations : CallOK(m)) /\ Recorded /\ RowsAreSent
      /\ TablesAgree /\ CacheAgrees /\ Refetched
  BY DEF CacheInv
<1>2. /\ committed < Len(log) /\ committed' = committed + 1
      /\ log' = log /\ fetch' = fetch /\ cache' = cache /\ heard' = heard
      /\ seen' = seen /\ gap' = gap /\ rolledBack' = rolledBack /\ failed' = failed
  BY DEF End
<1> PICK b : b = log[committed + 1].by
  OBVIOUS
<1> PICK verdict : verdict = IF log[committed + 1].void THEN "refused" ELSE "done"
  OBVIOUS
<1>3. call' = IF b = Absent THEN call ELSE [call EXCEPT ![b].server = verdict]
  BY <1>2 DEF End
<1>4. /\ log \in Seq(Change) /\ Len(log) \in Nat /\ committed \in 0 .. Len(log)
      /\ committed + 1 \in 1 .. Len(log)
  BY <1>1, <1>2 DEF BoardTypes
<1>5. b # Absent => /\ b \in Mutations /\ call[b].ui # "idle" /\ call[b].server = "announced"
                    /\ call[b] \in CallRec
  <2>1. b # Absent => b \in Mutations /\ call[b].ui # "idle" /\ call[b].server = "announced"
    BY <1>1, <1>4 DEF Recorded
  <2> QED
    BY <1>1, <2>1 DEF BoardTypes, IdleCall
<1>6. /\ call' \in [Mutations -> CallRec \cup {IdleCall}]
      /\ \A k \in Mutations \ {b} : call'[k] = call[k]
      /\ b # Absent =>
           /\ call'[b] \in CallRec /\ call'[b].server = verdict
           /\ call'[b].ui = call[b].ui /\ call'[b].op = call[b].op /\ call'[b].card = call[b].card
           /\ call'[b].previous = call[b].previous /\ call'[b].early = call[b].early
  <2>1. CASE b = Absent
    BY <1>1, <1>3, <2>1 DEF BoardTypes
  <2>2. CASE b # Absent
    <3>1. PICK r : r = call[b]
      OBVIOUS
    <3>2. PICK d : d = [r EXCEPT !.server = verdict]
      OBVIOUS
    <3>3. call' = [call EXCEPT ![b] = d]
      BY <1>3, <2>2, <3>1, <3>2
    <3>4. /\ d \in CallRec /\ d.server = verdict /\ d.ui = r.ui /\ d.op = r.op /\ d.card = r.card
          /\ d.previous = r.previous /\ d.early = r.early
      BY <1>5, <2>2, <3>1, <3>2 DEF CallRec
    <3>5. /\ call' \in [Mutations -> CallRec \cup {IdleCall}] /\ call'[b] = d
          /\ \A k \in Mutations \ {b} : call'[k] = call[k]
      BY <1>1, <1>5, <2>2, <3>3, <3>4 DEF BoardTypes
    <3> QED
      BY <3>1, <3>4, <3>5
  <2> QED
    BY <2>1, <2>2
<1>7. BoardTypes'
  <2>1. committed' \in 0 .. Len(log') /\ seen' \in 0 .. committed'
    BY <1>1, <1>2, <1>4 DEF BoardTypes
  <2>2. fetch'.st = "answered" => fetch'.at <= committed'
    BY <1>1, <1>2, <1>4, Fetches
  <2> QED
    BY <1>1, <1>2, <1>6, <2>1, <2>2 DEF BoardTypes
<1>8. /\ RowsAreSent' /\ TablesAgree' /\ (\A n : Table(n)' = Table(n))
      /\ \A r, n, c, ops : Agrees(r, n, c, ops) => Agrees(r, n, c, ops)'
  BY <1>1, <1>2, SameLog
<1>9. (\A m \in Mutations : CallOK(m))'
  <2> SUFFICES ASSUME NEW m \in Mutations
               PROVE  CallOK(m)'
    OBVIOUS
  <2>1. CallOK(m)
    BY <1>1
  <2>2. CASE m # b
    BY <1>2, <1>6, <2>1, <2>2 DEF CallOK
  <2>3. CASE m = b
    BY <1>2, <1>5, <1>6, <2>1, <2>3, BoardAssumption DEF CallOK
  <2> QED
    BY <2>2, <2>3
<1>10. Recorded'
  <2>1. ASSUME NEW i \in 1 .. Len(log), log[i].by # Absent
        PROVE  /\ log[i].by \in Mutations /\ call'[log[i].by].ui # "idle"
               /\ call'[log[i].by].server = IF i > committed + 1 THEN "announced"
                                            ELSE IF log[i].void THEN "refused" ELSE "done"
    <3>1. /\ log[i].by \in Mutations /\ call[log[i].by].ui # "idle"
          /\ call[log[i].by].server = IF i > committed THEN "announced"
                                      ELSE IF log[i].void THEN "refused" ELSE "done"
      BY <1>1, <2>1 DEF Recorded
    <3>2. CASE i = committed + 1
      BY <1>4, <1>5, <1>6, <2>1, <3>1, <3>2
    <3>3. CASE i # committed + 1
      <4>1. log[i].by # b
        BY <1>1, <1>4, <2>1, <3>3 DEF Recorded
      <4>2. call'[log[i].by] = call[log[i].by]
        BY <1>6, <3>1, <4>1
      <4> QED
        BY <1>4, <3>1, <3>3, <4>2
    <3> QED
      BY <3>2, <3>3
  <2> QED
    BY <1>1, <1>2, <2>1 DEF Recorded
<1>12. /\ Editing' <=> Editing
       /\ Doomed => Doomed'
       /\ \A c : Awaited(c)' = Awaited(c)
  <2>1. ASSUME NEW m \in Mutations
        PROVE  /\ Pends(m)' <=> Pends(m)
               /\ Edits(m)' <=> Edits(m)
               /\ call[m].server = "refused" => call'[m].server = "refused"
               /\ call'[m].server = "sent" <=> call[m].server = "sent"
               /\ Pends(m) => call'[m].op = call[m].op /\ call'[m].card = call[m].card
    <3>1. CASE m = b
      <4>1. verdict # "sent" /\ b # Absent
        BY <3>1, BoardAssumption
      <4> QED
        BY <1>5, <1>6, <3>1, <4>1 DEF Pends, Edits
    <3>2. CASE m # b
      BY <1>6, <3>2 DEF Pends, Edits
    <3> QED
      BY <3>1, <3>2
  <2>2. Editing' <=> Editing
    BY <2>1 DEF Editing
  <2>3. \A m \in Mutations : Undone(m)' <=> Undone(m)
    BY <1>2 DEF Undone
  <2>4. Doomed => Doomed'
    BY <2>1, <2>3 DEF Doomed
  <2>5. \A c : Awaited(c)' = Awaited(c)
    BY <2>1 DEF Awaited
  <2> QED
    BY <2>2, <2>4, <2>5
<1>13. CacheAgrees'
  BY <1>1, <1>2, <1>8, <1>12 DEF CacheAgrees, Agrees
<1>14. Refetched'
  <2>1. ASSUME NEW i \in 1 .. Len(log), log[i].by # Absent,
               call'[log[i].by].ui = "succeeded", ~call'[log[i].by].early
        PROVE  call[log[i].by].ui = "succeeded" /\ ~call[log[i].by].early
    <3>1. log[i].by \in Mutations
      BY <1>1, <2>1 DEF Recorded
    <3>2. CASE log[i].by = b
      BY <1>6, <2>1, <3>2
    <3>3. CASE log[i].by # b
      BY <1>6, <2>1, <3>1, <3>3
    <3> QED
      BY <3>2, <3>3
  <2> QED
    BY <1>1, <1>2, <1>12, <2>1 DEF Refetched
<1> QED
  BY <1>7, <1>8, <1>9, <1>10, <1>13, <1>14 DEF CacheInv

LEMMA CacheInvBegin ==
  ASSUME CacheInv, NEW m \in Mutations, NEW op \in {"create", "move", "update", "label", "delete"},
         NEW c \in Cards \cup {Absent}, NEW row \in Row \cup {Absent}, Begin(m, op, c, row),
         op # "delete" => row \in Row,
         op # "create" => c \in Cards /\ Shown[c] # Absent,
         op = "move" => row.text = Shown[c].text /\ row.labels = Shown[c].labels,
         op = "update" => row.place = Shown[c].place /\ row.labels = Shown[c].labels
  PROVE  CacheInv'
<1> USE DEF serverState, history
<1>1. /\ BoardTypes /\ (\A k \in Mutations : CallOK(k)) /\ Recorded /\ RowsAreSent
      /\ TablesAgree /\ CacheAgrees /\ Refetched
  BY DEF CacheInv
<1> PICK b : b = [ui |-> "pending", server |-> "sent", op |-> op, card |-> c, row |-> row,
                  previous |-> cache, early |-> cache = Absent]
  OBVIOUS
<1>2. /\ call[m].ui = "idle" /\ call' = [call EXCEPT ![m] = b]
      /\ log' = log /\ committed' = committed /\ heard' = heard
      /\ seen' = seen /\ gap' = gap /\ rolledBack' = rolledBack /\ failed' = failed
      /\ op = "create" => cache' = cache /\ fetch' = fetch
      /\ op # "create" => cache' = Patched(op, c, row) /\ fetch' = NoFetch
  BY DEF Begin, Cancel
<1>3. /\ b \in CallRec /\ b.ui = "pending" /\ b.server = "sent" /\ b.op = op /\ b.card = c
      /\ b.row = row /\ b.previous = cache /\ (cache = Absent => b.early)
  <2>1. cache \in List \cup {Absent}
    BY <1>1 DEF BoardTypes
  <2> QED
    BY <2>1 DEF CallRec
<1>4. /\ call' \in [Mutations -> CallRec \cup {IdleCall}] /\ call'[m] = b
      /\ \A k \in Mutations \ {m} : call'[k] = call[k]
  BY <1>1, <1>2, <1>3 DEF BoardTypes
<1>5. Shown \in List /\ (cache # Absent => Shown = cache)
  BY <1>1 DEF Shown, BoardTypes, List
<1>6. op # "create" => /\ cache # Absent /\ Shown = cache /\ Shown[c] \in Row
                       /\ cache' \in List /\ cache' # Absent
                       /\ cache'[c] = IF op = "delete" THEN Absent
                                      ELSE IF op = "label" THEN cache[c] ELSE row
                       /\ \A k \in Cards \ {c} : cache'[k] = cache[k]
  <2> SUFFICES ASSUME op # "create"
               PROVE  /\ cache # Absent /\ Shown = cache /\ Shown[c] \in Row
                      /\ cache' \in List /\ cache' # Absent
                      /\ cache'[c] = IF op = "delete" THEN Absent
                                     ELSE IF op = "label" THEN cache[c] ELSE row
                      /\ \A k \in Cards \ {c} : cache'[k] = cache[k]
    OBVIOUS
  <2>1. c \in Cards /\ Shown[c] # Absent /\ Shown[c] \in Row
    BY <1>5 DEF List
  <2>2. cache # Absent /\ Shown = cache
    BY <1>5, <2>1 DEF Shown
  <2>3. cache' = [Shown EXCEPT ![c] = IF op = "delete" THEN Absent
                                      ELSE IF op = "label" THEN Shown[c] ELSE row]
    <3>1. CASE op = "label"
      BY <1>2, <1>5, <3>1 DEF Patched, List
    <3>2. CASE op # "label"
      BY <1>2, <3>2 DEF Patched
    <3> QED
      BY <3>1, <3>2
  <2>4. cache' \in List
    BY <1>5, <2>1, <2>3 DEF List
  <2>5. /\ cache'[c] = IF op = "delete" THEN Absent
                       ELSE IF op = "label" THEN cache[c] ELSE row
        /\ \A k \in Cards \ {c} : cache'[k] = cache[k]
    BY <1>5, <2>1, <2>2, <2>3 DEF List
  <2> QED
    BY <2>1, <2>2, <2>4, <2>5, BoardAssumption
<1>7. NoFetch.st = "none"
  BY DEF NoFetch
<1>8. BoardTypes'
  <2>1. cache' \in List \cup {Absent} /\ fetch' \in {NoFetch, Asked} \cup Answers
    BY <1>1, <1>2, <1>6 DEF BoardTypes
  <2>2. fetch'.st = "answered" => fetch'.at <= committed'
    BY <1>1, <1>2, <1>7 DEF BoardTypes
  <2>3. /\ log' \in Seq(Change) /\ committed' \in 0 .. Len(log') /\ heard' \in 0 .. Len(log')
        /\ seen' \in 0 .. committed'
        /\ gap' \in BOOLEAN /\ rolledBack' \in BOOLEAN /\ failed' \in BOOLEAN
    BY <1>1, <1>2 DEF BoardTypes
  <2> QED
    BY <1>4, <2>1, <2>2, <2>3, Zenon DEF BoardTypes
<1>9. /\ RowsAreSent' /\ TablesAgree' /\ (\A n : Table(n)' = Table(n))
      /\ \A r, n, k, ops : Agrees(r, n, k, ops) => Agrees(r, n, k, ops)'
  BY <1>1, <1>2, SameLog
<1>10. (\A k \in Mutations : CallOK(k))'
  <2> SUFFICES ASSUME NEW k \in Mutations
               PROVE  CallOK(k)'
    OBVIOUS
  <2>1. CASE k # m
    <3>1. CallOK(k) /\ call'[k] = call[k] /\ (cache' = Absent => cache = Absent)
      BY <1>1, <1>2, <1>4, <1>6, <2>1
    <3> QED
      BY <3>1 DEF CallOK
  <2>2. CASE k = m
    BY <1>2, <1>3, <1>4, <1>6, <2>2 DEF CallOK
  <2> QED
    BY <2>1, <2>2
<1>11. \A i \in 1 .. Len(log) : log[i].by # Absent => /\ log[i].by # m
                                                      /\ call'[log[i].by] = call[log[i].by]
  BY <1>1, <1>2, <1>4 DEF Recorded
<1>12. Recorded'
  BY <1>1, <1>2, <1>11 DEF Recorded
<1>14. /\ Doomed => Doomed'
       /\ \A k : Awaited(k) \subseteq Awaited(k)'
       /\ op # "create" => (op = "label" \/ op \in Awaited(c)') /\ Editing'
       /\ Editing => Editing'
  <2>1. \A k \in Mutations : Pends(k) => call'[k] = call[k]
    BY <1>2, <1>4 DEF Pends
  <2>0. \A k \in Mutations : Undone(k)' <=> Undone(k)
    BY <1>2 DEF Undone
  <2>2. (Doomed => Doomed') /\ (Editing => Editing')
    BY <2>0, <2>1 DEF Doomed, Editing, Edits, Pends
  <2>3. \A k : Awaited(k) \subseteq Awaited(k)'
    BY <2>1 DEF Awaited, Pends
  <2>4. op # "create" => (op = "label" \/ op \in Awaited(c)') /\ Editing'
    BY <1>3, <1>4 DEF Awaited, Editing, Edits, Pends
  <2> QED
    BY <2>2, <2>3, <2>4
<1>15. CacheAgrees'
  <2>1. cache' = Absent => gap'
    BY <1>1, <1>2, <1>6 DEF CacheAgrees
  <2> SUFFICES ASSUME ~gap, ~Doomed, NEW k \in Cards
               PROVE  Agrees(cache[k], heard, k, Awaited(k))'
    BY <1>2, <1>14, <2>1 DEF CacheAgrees
  <2>2. Agrees(cache[k], heard, k, Awaited(k)) /\ heard \in Nat /\ Len(log) \in Nat
    BY <1>1 DEF CacheAgrees, BoardTypes
  <2>3. PICK a : a = Awaited(k)'
    OBVIOUS
  <2>4. PICK r : r = cache[k]
    OBVIOUS
  <2>5. PICK h : h = heard
    OBVIOUS
  <2>6. PICK s : s = cache'[k]
    OBVIOUS
  <2>7. Agrees(r, h, k, a)
    BY <1>14, <2>2, <2>3, <2>4, <2>5, AgreesMore
  <2>8. Agrees(s, h, k, a)
    <3>1. CASE op = "create" \/ k # c
      <4>1. s = r
        BY <1>2, <1>6, <2>4, <2>6, <3>1
      <4> QED
        BY <2>7, <4>1
    <3>2. CASE op = "delete" /\ k = c
      BY <1>6, <1>14, <2>3, <2>6, <3>2 DEF Agrees
    <3>3. CASE op = "move" /\ k = c
      <4>1. s = row /\ s.text = r.text /\ s.labels = r.labels /\ r # Absent /\ s # Absent /\ "move" \in a
        BY <1>6, <1>14, <2>3, <2>4, <2>6, <3>3, BoardAssumption
      <4> QED
        BY <2>7, <4>1 DEF Agrees
    <3>4. CASE op = "update" /\ k = c
      <4>1. s = row /\ s.place = r.place /\ s.labels = r.labels /\ r # Absent /\ s # Absent /\ "update" \in a
        BY <1>6, <1>14, <2>3, <2>4, <2>6, <3>4, BoardAssumption
      <4> QED
        BY <2>7, <4>1 DEF Agrees
    <3>5. CASE op = "label" /\ k = c
      <4>1. s = r
        BY <1>6, <2>4, <2>6, <3>5
      <4> QED
        BY <2>7, <4>1
    <3> QED
      BY <3>1, <3>2, <3>3, <3>4, <3>5
  <2>9. Agrees(s, h, k, a)'
    BY <1>9, <2>8
  <2> QED
    BY <1>2, <2>3, <2>5, <2>6, <2>9 DEF Agrees
<1>16. Refetched'
  <2>1. CASE op = "create"
    BY <1>1, <1>2, <1>11, <1>14, <2>1 DEF Refetched
  <2>2. CASE op # "create"
    BY <1>2, <1>7, <1>14, <2>2 DEF Refetched
  <2> QED
    BY <2>1, <2>2
<1> QED
  BY <1>8, <1>9, <1>10, <1>12, <1>15, <1>16 DEF CacheInv

LEMMA CacheInvEdit ==
  ASSUME CacheInv, NEW m \in Mutations, Create(m) \/ Drag(m) \/ Delete(m) \/ Blur(m) \/ Label(m)
  PROVE  CacheInv'
<1>1. Shown \in List
  BY DEF CacheInv, BoardTypes, Shown, List
<1>2. CASE Create(m)
  <2>1. PICK row \in Row : Begin(m, "create", Absent, row)
    BY <1>2, BoardAssumption DEF Create
  <2> QED
    BY <2>1, CacheInvBegin
<1>3. CASE Drag(m)
  <2>1. PICK c \in Cards, p \in Places : /\ Shown[c] # Absent
                                         /\ Begin(m, "move", c, [Shown[c] EXCEPT !.place = p])
    BY <1>3 DEF Drag
  <2>2. PICK r : r = Shown[c]
    OBVIOUS
  <2>3. PICK s : s = [r EXCEPT !.place = p]
    OBVIOUS
  <2>4. r \in Row
    BY <1>1, <2>1, <2>2 DEF List
  <2>5. s \in Row /\ s.text = r.text /\ s.labels = r.labels
    BY <2>3, <2>4 DEF Row
  <2> QED
    BY <2>1, <2>2, <2>3, <2>5, CacheInvBegin
<1>4. CASE Blur(m)
  <2>1. PICK c \in Cards, v \in Texts : /\ Shown[c] # Absent
                                        /\ Begin(m, "update", c, [Shown[c] EXCEPT !.text = v])
    BY <1>4 DEF Blur
  <2>2. PICK r : r = Shown[c]
    OBVIOUS
  <2>3. PICK s : s = [r EXCEPT !.text = v]
    OBVIOUS
  <2>4. r \in Row
    BY <1>1, <2>1, <2>2 DEF List
  <2>5. s \in Row /\ s.place = r.place /\ s.labels = r.labels
    BY <2>3, <2>4 DEF Row
  <2> QED
    BY <2>1, <2>2, <2>3, <2>5, CacheInvBegin
<1>5. CASE Delete(m)
  <2>1. PICK c \in Cards : Shown[c] # Absent /\ Begin(m, "delete", c, Absent)
    BY <1>5 DEF Delete
  <2> QED
    BY <2>1, CacheInvBegin
<1>6. CASE Label(m)
  <2>1. PICK c \in Cards, ls \in Labels : /\ Shown[c] # Absent
                                          /\ Begin(m, "label", c, [Shown[c] EXCEPT !.labels = ls])
    BY <1>6 DEF Label
  <2>2. PICK r : r = Shown[c]
    OBVIOUS
  <2>3. PICK s : s = [r EXCEPT !.labels = ls]
    OBVIOUS
  <2>4. r \in Row
    BY <1>1, <2>1, <2>2 DEF List
  <2>5. s \in Row
    BY <2>3, <2>4 DEF Row
  <2> QED
    BY <2>1, <2>2, <2>3, <2>5, CacheInvBegin
<1> QED
  BY <1>2, <1>3, <1>4, <1>5, <1>6

LEMMA CacheInvHandle ==
  ASSUME CacheInv, NEW m \in Mutations, Handle(m)
  PROVE  CacheInv'
<1> USE DEF serverState, history
<1>1. /\ BoardTypes /\ (\A k \in Mutations : CallOK(k)) /\ Recorded /\ RowsAreSent
      /\ TablesAgree /\ CacheAgrees /\ Refetched
  BY DEF CacheInv
<1>2. /\ call[m].ui # "idle" /\ call[m].server = "sent" /\ Decide(m, "announced")
      /\ committed' = committed /\ fetch' = fetch /\ cache' = cache /\ heard' = heard
      /\ seen' = seen /\ gap' = gap /\ rolledBack' = rolledBack /\ failed' = failed
  BY DEF Handle
<1> PICK op : op = call[m].op
  OBVIOUS
<1> PICK row : row = call[m].row
  OBVIOUS
<1>3. /\ op \in {"create", "move", "update", "label", "delete"} /\ (op # "delete" => row \in Row)
      /\ op # "create" => call[m].card \in Cards
  BY <1>1, <1>2 DEF CallOK
<1>4. PICK c0 \in Cards, void \in BOOLEAN :
        /\ op # "create" => c0 = call[m].card
        /\ Allowed(op, c0) /\ Announce(op, c0, row, m, void)
  BY <1>2, <1>3 DEF Handle
<1>5. log \in Seq(Change) /\ Len(log) \in Nat /\ committed \in 0 .. Len(log) /\ heard \in 0 .. Len(log)
  BY <1>1 DEF BoardTypes
<1>0. Grown(op, c0, m, void)
  BY <1>1, <1>3, <1>4, <1>5, Announced
<1>6. /\ log' \in Seq(Change) /\ Len(log)' = Len(log) + 1
      /\ log'[Len(log) + 1].by = m /\ log'[Len(log) + 1].void = void
      /\ (\A i \in 1 .. Len(log) : log'[i] = log[i])
      /\ (\A n \in 0 .. Len(log) : Table(n)' = Table(n))
      /\ TablesAgree' /\ RowsAreSent'
      /\ \A r \in Row \cup {Absent}, n \in 0 .. Len(log), c \in Cards : \A ops :
           Agrees(r, n, c, ops) => Agrees(r, n, c, IF c = c0 /\ ~void THEN ops \ {op} ELSE ops)'
  BY <1>0 DEF Grown
<1>7. /\ call' \in [Mutations -> CallRec \cup {IdleCall}]
      /\ \A k \in Mutations \ {m} : call'[k] = call[k]
      /\ call'[m].ui = call[m].ui /\ call'[m].server = "announced"
      /\ call'[m].ui = "pending" => /\ call'[m].op = call[m].op
                                    /\ call'[m].previous = call[m].previous
                                    /\ call'[m].early = call[m].early
  BY <1>1, <1>2, Decided
<1>8. BoardTypes'
  <2>1. committed' \in 0 .. Len(log') /\ heard' \in 0 .. Len(log')
    BY <1>2, <1>5, <1>6
  <2> QED
    BY <1>1, <1>2, <1>6, <1>7, <2>1 DEF BoardTypes
<1>9. \A i \in 1 .. Len(log)' : i \in 1 .. Len(log) \/ i = Len(log) + 1
  BY <1>5, <1>6
<1>10. (\A k \in Mutations : CallOK(k))'
  <2> SUFFICES ASSUME NEW k \in Mutations
               PROVE  CallOK(k)'
    OBVIOUS
  <2>1. CallOK(k)
    BY <1>1
  <2>2. CASE k # m
    <3>1. call'[k] = call[k]
      BY <1>7, <2>2
    <3> QED
      BY <1>2, <2>1, <3>1 DEF CallOK
  <2>3. CASE k = m
    BY <1>2, <1>7, <2>1, <2>3 DEF CallOK
  <2> QED
    BY <2>2, <2>3
<1>11. \A i \in 1 .. Len(log) : log[i].by # Absent => /\ log[i].by # m
                                                      /\ call'[log[i].by] = call[log[i].by]
  <2> SUFFICES ASSUME NEW i \in 1 .. Len(log), log[i].by # Absent
               PROVE  log[i].by # m /\ call'[log[i].by] = call[log[i].by]
    OBVIOUS
  <2>1. /\ log[i].by \in Mutations
        /\ call[log[i].by].server = IF i > committed THEN "announced"
                                    ELSE IF log[i].void THEN "refused" ELSE "done"
    BY <1>1 DEF Recorded
  <2>2. log[i].by # m
    BY <1>2, <2>1
  <2> QED
    BY <1>7, <2>1, <2>2
<1>12. Recorded'
  <2>1. ASSUME NEW i \in 1 .. Len(log)', log'[i].by # Absent
        PROVE  /\ log'[i].by \in Mutations /\ call'[log'[i].by].ui # "idle"
               /\ call'[log'[i].by].server = IF i > committed' THEN "announced"
                                             ELSE IF log'[i].void THEN "refused" ELSE "done"
    <3>1. CASE i = Len(log) + 1
      <4>1. i > committed' /\ log'[i].by = m
        BY <1>2, <1>5, <1>6, <3>1
      <4> QED
        BY <1>2, <1>7, <4>1
    <3>2. CASE i \in 1 .. Len(log)
      <4>1. log'[i] = log[i] /\ call'[log[i].by] = call[log[i].by]
        BY <1>6, <1>11, <2>1, <3>2
      <4> QED
        BY <1>1, <1>2, <2>1, <3>2, <4>1 DEF Recorded
    <3> QED
      BY <1>9, <3>1, <3>2
  <2>2. ASSUME NEW i \in 1 .. Len(log)', NEW j \in 1 .. Len(log)',
               log'[i].by # Absent, log'[i].by = log'[j].by
        PROVE  i = j
    BY <1>1, <1>6, <1>9, <1>11, <2>2 DEF Recorded
  <2> QED
    BY <2>1, <2>2 DEF Recorded
<1>14. /\ Doomed => Doomed'
       /\ Editing' => Editing
       /\ Editing => Editing'
       /\ void /\ Edits(m) => Doomed'
       /\ ~(void /\ Edits(m)) =>
            \A c \in Cards : (IF c = c0 /\ ~void THEN Awaited(c) \ {op} ELSE Awaited(c))
                               \subseteq Awaited(c)'
  <2>1. \A k \in Mutations : /\ Pends(k)' <=> Pends(k)
                             /\ Pends(k) => call'[k].op = call[k].op
    BY <1>7 DEF Pends
  <2>2. (Editing' => Editing) /\ (Editing => Editing')
    BY <2>1 DEF Editing, Edits
  <2>3. Doomed => Doomed'
    <3>1. \A k \in Mutations : call[k].server = "refused" => call'[k] = call[k]
      BY <1>2, <1>7
    <3>2. \A k \in Mutations : Undone(k) => Undone(k)'
      BY <1>5, <1>6 DEF Undone
    <3> QED
      BY <2>1, <3>1, <3>2 DEF Doomed, Edits, Pends
  <2>4. ASSUME NEW c \in Cards, NEW o \in Awaited(c), ~(void /\ Edits(m)),
               o # op \/ c # c0 \/ void
        PROVE  o \in Awaited(c)'
    <3>1. PICK k \in Mutations : /\ Pends(k) /\ call[k].server = "sent" /\ call[k].op = o
                                 /\ call[k].card = c /\ o \in {"move", "update", "delete"}
      BY DEF Awaited
    <3>2. k # m
      BY <1>4, <2>4, <3>1 DEF Edits
    <3>3. call'[k] = call[k]
      BY <1>7, <3>2
    <3> QED
      BY <3>1, <3>3 DEF Awaited, Pends
  <2>5. ~(void /\ Edits(m)) =>
          \A c \in Cards : (IF c = c0 /\ ~void THEN Awaited(c) \ {op} ELSE Awaited(c))
                             \subseteq Awaited(c)'
    BY <2>4
  <2>6. void /\ Edits(m) => Doomed'
    <3>1. Len(log) + 1 \in 1 .. Len(log)'
      BY <1>5, <1>6
    <3>2. void => Undone(m)'
      BY <1>6, <3>1 DEF Undone
    <3> QED
      BY <2>1, <3>2 DEF Doomed, Edits
  <2> QED
    BY <2>2, <2>3, <2>5, <2>6
<1>15. CacheAgrees'
  <2>1. cache = Absent => gap
    BY <1>1 DEF CacheAgrees
  <2> SUFFICES ASSUME ~gap, ~Doomed, ~(void /\ Edits(m)), NEW c \in Cards
               PROVE  Agrees(cache[c], heard, c, Awaited(c))'
    BY <1>2, <1>14, <2>1 DEF CacheAgrees
  <2>2. PICK a : a = IF c = c0 /\ ~void THEN Awaited(c) \ {op} ELSE Awaited(c)
    OBVIOUS
  <2>3. PICK w : w = Awaited(c)
    OBVIOUS
  <2>4. PICK r : r = cache[c]
    OBVIOUS
  <2>5. PICK h : h = heard
    OBVIOUS
  <2>6. Agrees(r, h, c, w) /\ r \in Row \cup {Absent} /\ h \in 0 .. Len(log)
    BY <1>1, <1>5, <2>1, <2>3, <2>4, <2>5 DEF CacheAgrees, BoardTypes, List
  <2>7. Agrees(r, h, c, IF c = c0 /\ ~void THEN w \ {op} ELSE w)'
    BY <1>6, <2>6
  <2>8. Agrees(r, h, c, a)'
    BY <2>2, <2>3, <2>7 DEF Agrees
  <2>9. cache'[c] = r /\ heard' = h /\ a \subseteq Awaited(c)'
    BY <1>2, <1>14, <2>2, <2>4, <2>5
  <2> QED
    BY <2>8, <2>9 DEF Agrees
<1>16. Refetched'
  <2>1. ASSUME NEW i \in 1 .. Len(log)', log'[i].by # Absent, call'[log'[i].by].ui = "succeeded"
        PROVE  i \in 1 .. Len(log)
    <3>1. call'[m].ui # "succeeded"
      BY <1>1, <1>2, <1>7 DEF CallOK
    <3> QED
      BY <1>6, <1>9, <2>1, <3>1
  <2> QED
    BY <1>1, <1>2, <1>6, <1>11, <1>14, <2>1 DEF Refetched
<1> QED
  BY <1>6, <1>8, <1>10, <1>12, <1>15, <1>16 DEF CacheInv

LEMMA CacheInvRefuse ==
  ASSUME CacheInv, NEW m \in Mutations, Refuse(m)
  PROVE  CacheInv'
<1> USE DEF serverState, history
<1>1. /\ BoardTypes /\ (\A k \in Mutations : CallOK(k)) /\ Recorded /\ RowsAreSent
      /\ TablesAgree /\ CacheAgrees /\ Refetched
  BY DEF CacheInv
<1>2. /\ call[m].ui # "idle" /\ call[m].server = "sent" /\ Decide(m, "refused")
      /\ log' = log /\ committed' = committed /\ fetch' = fetch /\ cache' = cache /\ heard' = heard
      /\ seen' = seen /\ gap' = gap /\ rolledBack' = rolledBack /\ failed' = failed
  BY DEF Refuse
<1>3. /\ call' \in [Mutations -> CallRec \cup {IdleCall}]
      /\ \A k \in Mutations \ {m} : call'[k] = call[k]
      /\ call'[m].ui = call[m].ui /\ call'[m].server = "refused"
      /\ call'[m].ui = "pending" => /\ call'[m].op = call[m].op
                                    /\ call'[m].previous = call[m].previous
                                    /\ call'[m].early = call[m].early
  BY <1>1, <1>2, Decided
<1>4. BoardTypes'
  BY <1>1, <1>2, <1>3 DEF BoardTypes
<1>5. /\ RowsAreSent' /\ TablesAgree' /\ (\A n : Table(n)' = Table(n))
      /\ \A r, n, c, ops : Agrees(r, n, c, ops) => Agrees(r, n, c, ops)'
  BY <1>1, <1>2, SameLog
<1>6. (\A k \in Mutations : CallOK(k))'
  <2> SUFFICES ASSUME NEW k \in Mutations
               PROVE  CallOK(k)'
    OBVIOUS
  <2>1. CallOK(k)
    BY <1>1
  <2>2. CASE k # m
    <3>1. call'[k] = call[k]
      BY <1>3, <2>2
    <3> QED
      BY <1>2, <2>1, <3>1 DEF CallOK
  <2>3. CASE k = m
    BY <1>2, <1>3, <2>1, <2>3 DEF CallOK
  <2> QED
    BY <2>2, <2>3
<1>7. \A i \in 1 .. Len(log) : log[i].by # Absent => call'[log[i].by] = call[log[i].by]
  <2> SUFFICES ASSUME NEW i \in 1 .. Len(log), log[i].by # Absent
               PROVE  call'[log[i].by] = call[log[i].by]
    OBVIOUS
  <2>1. /\ log[i].by \in Mutations
        /\ call[log[i].by].server = IF i > committed THEN "announced"
                                    ELSE IF log[i].void THEN "refused" ELSE "done"
    BY <1>1 DEF Recorded
  <2>2. log[i].by # m
    BY <1>2, <2>1
  <2> QED
    BY <1>3, <2>1, <2>2
<1>8. Recorded'
  BY <1>1, <1>2, <1>7 DEF Recorded
<1>10. \A k \in Mutations : /\ Pends(k)' <=> Pends(k)
                            /\ Pends(k) => call'[k].op = call[k].op
  BY <1>3 DEF Pends
<1>11. (Editing' => Editing) /\ (Editing => Editing')
  BY <1>10 DEF Editing, Edits
<1>12. CacheAgrees'
  <2>1. cache = Absent => gap
    BY <1>1 DEF CacheAgrees
  <2>2. Edits(m) => Doomed'
    BY <1>3, <1>10 DEF Doomed, Edits
  <2>3. Doomed => Doomed'
    <3>1. \A k \in Mutations : call[k].server = "refused" => call'[k] = call[k]
      BY <1>2, <1>3
    <3> QED
      BY <1>2, <1>10, <3>1 DEF Doomed, Edits, Pends, Undone
  <2>4. ~Edits(m) => \A c : Awaited(c) \subseteq Awaited(c)'
    <3> SUFFICES ASSUME ~Edits(m), NEW c, NEW o \in Awaited(c)
                 PROVE  o \in Awaited(c)'
      OBVIOUS
    <3>1. PICK k \in Mutations : /\ Pends(k) /\ call[k].server = "sent" /\ call[k].op = o
                                 /\ call[k].card = c /\ o \in {"move", "update", "delete"}
      BY DEF Awaited
    <3>2. k # m
      BY <3>1 DEF Edits
    <3>3. call'[k] = call[k]
      BY <1>3, <3>2
    <3> QED
      BY <3>1, <3>3 DEF Awaited, Pends
  <2> SUFFICES ASSUME ~gap, ~Doomed, ~Edits(m), NEW c \in Cards
               PROVE  Agrees(cache[c], heard, c, Awaited(c))'
    BY <1>2, <2>1, <2>2, <2>3 DEF CacheAgrees
  <2>5. PICK a : a = Awaited(c)
    OBVIOUS
  <2>6. PICK r : r = cache[c]
    OBVIOUS
  <2>7. PICK h : h = heard
    OBVIOUS
  <2>8. Agrees(r, h, c, a)
    BY <1>1, <2>5, <2>6, <2>7 DEF CacheAgrees
  <2>9. Agrees(r, h, c, a)' /\ cache'[c] = r /\ heard' = h /\ a \subseteq Awaited(c)'
    BY <1>2, <1>5, <2>4, <2>5, <2>6, <2>7, <2>8
  <2> QED
    BY <2>9 DEF Agrees
<1>13. Refetched'
  BY <1>1, <1>2, <1>7, <1>11 DEF Refetched
<1> QED
  BY <1>4, <1>5, <1>6, <1>8, <1>12, <1>13 DEF CacheInv

LEMMA CacheInvSucceed ==
  ASSUME CacheInv, NEW m \in Mutations, Succeed(m)
  PROVE  CacheInv'
<1> USE DEF serverState, history
<1>1. /\ BoardTypes /\ (\A k \in Mutations : CallOK(k)) /\ Recorded /\ RowsAreSent
      /\ TablesAgree /\ CacheAgrees /\ Refetched
  BY DEF CacheInv
<1>2. /\ call[m].ui = "pending" /\ call[m].server = "done" /\ EndCall(m, "succeeded")
      /\ fetch' = IF cache = Absent /\ fetch # NoFetch THEN fetch ELSE Asked
      /\ log' = log /\ committed' = committed /\ cache' = cache /\ heard' = heard
      /\ seen' = seen /\ gap' = gap /\ rolledBack' = rolledBack /\ failed' = failed
  BY DEF Succeed, Pending, Invalidate
<1>3. /\ call' \in [Mutations -> CallRec \cup {IdleCall}]
      /\ \A k \in Mutations \ {m} : call'[k] = call[k]
      /\ call'[m].ui = "succeeded" /\ call'[m].server = "done"
      /\ call[m].early => call'[m].early
  BY <1>1, <1>2, Ended
<1>4. /\ Asked.st = "asked" /\ Asked # NoFetch /\ fetch' # NoFetch
      /\ fetch'.st = "answered" => fetch' = fetch /\ cache = Absent
  BY <1>2 DEF Asked, NoFetch
<1>5. BoardTypes'
  BY <1>1, <1>2, <1>3, <1>4 DEF BoardTypes
<1>6. /\ RowsAreSent' /\ TablesAgree' /\ (\A n : Table(n)' = Table(n))
      /\ \A r, n, c, ops : Agrees(r, n, c, ops) => Agrees(r, n, c, ops)'
  BY <1>1, <1>2, SameLog
<1>7. (\A k \in Mutations : CallOK(k))'
  <2> SUFFICES ASSUME NEW k \in Mutations
               PROVE  CallOK(k)'
    OBVIOUS
  <2>1. CASE k # m
    BY <1>1, <1>2, <1>3, <2>1 DEF CallOK
  <2>2. CASE k = m
    BY <1>3, <2>2 DEF CallOK
  <2> QED
    BY <2>1, <2>2
<1>8. Recorded'
  <2>1. \A k \in Mutations : call'[k].server = call[k].server /\ (call'[k].ui = "idle" <=> call[k].ui = "idle")
    BY <1>2, <1>3
  <2> QED
    BY <1>1, <1>2, <2>1 DEF Recorded
<1>10. (Doomed => Doomed') /\ \A c : Awaited(c)' = Awaited(c)
  <2>1. ~Undone(m)
    <3> SUFFICES ASSUME NEW i \in 1 .. Len(log), log[i].by = m, log[i].void
                 PROVE  FALSE
      BY DEF Undone
    <3>1. call[m].server = IF i > committed THEN "announced" ELSE "refused"
      BY <1>1, BoardAssumption DEF Recorded
    <3> QED
      BY <1>2, <3>1
  <2>2. \A k \in Mutations : Undone(k)' <=> Undone(k)
    BY <1>2 DEF Undone
  <2>3. Doomed => Doomed'
    BY <1>2, <1>3, <2>1, <2>2 DEF Doomed, Edits, Pends
  <2>4. \A c : Awaited(c)' = Awaited(c)
    BY <1>2, <1>3 DEF Awaited, Pends
  <2> QED
    BY <2>3, <2>4
<1>11. CacheAgrees'
  BY <1>1, <1>2, <1>6, <1>10 DEF CacheAgrees, Agrees
<1>12. Refetched'
  <2> SUFFICES ASSUME NEW i \in 1 .. Len(log), log[i].by # Absent,
                      call'[log[i].by].ui = "succeeded", ~call'[log[i].by].early,
                      fetch'.st = "answered"
               PROVE  fetch'.at >= i
    BY <1>2, <1>4 DEF Refetched
  <2>1. fetch' = fetch /\ cache = Absent
    BY <1>4
  <2>2. log[i].by # m
    BY <1>1, <1>2, <1>3, <2>1 DEF CallOK
  <2>3. call'[log[i].by] = call[log[i].by]
    BY <1>1, <1>3, <2>2 DEF Recorded
  <2> QED
    BY <1>1, <2>1, <2>3 DEF Refetched
<1> QED
  BY <1>5, <1>6, <1>7, <1>8, <1>11, <1>12 DEF CacheInv

LEMMA CacheInvGiveUp ==
  ASSUME CacheInv, NEW m \in Mutations, Pends(m), GiveUp(m)
  PROVE  CacheInv'
<1> USE DEF serverState, history
<1>1. /\ BoardTypes /\ (\A k \in Mutations : CallOK(k)) /\ Recorded /\ RowsAreSent
      /\ TablesAgree /\ CacheAgrees /\ Refetched
  BY DEF CacheInv
<1> PICK p : p = call[m].previous
  OBVIOUS
<1>2. /\ call[m].ui = "pending" /\ EndCall(m, "failed")
      /\ log' = log /\ committed' = committed /\ heard' = heard /\ seen' = seen /\ failed' = failed
      /\ call[m].op = "create" =>
           cache' = cache /\ fetch' = fetch /\ gap' = gap /\ rolledBack' = rolledBack
      /\ call[m].op # "create" =>
           fetch' = IF cache = Absent /\ fetch # NoFetch THEN fetch ELSE Asked
      /\ call[m].op # "create" /\ p # Absent => cache' = p /\ gap' = TRUE /\ rolledBack' = TRUE
  BY DEF GiveUp, Invalidate, Pends
<1>3. /\ call' \in [Mutations -> CallRec \cup {IdleCall}]
      /\ \A k \in Mutations \ {m} : call'[k] = call[k]
      /\ call'[m].ui = "failed" /\ call'[m].server = call[m].server
      /\ call[m].server = "sent" => /\ call'[m].op = call[m].op /\ call'[m].card = call[m].card
                                    /\ call'[m].row = call[m].row
  BY <1>1, <1>2, Ended
<1>4. call[m].op # "create" => /\ p \in List /\ p # Absent
                               /\ cache' = p /\ gap' = TRUE /\ rolledBack' = TRUE
  <2>1. call[m] \in CallRec
    BY <1>1, <1>2, Ended
  <2>2. p \in List \cup {Absent}
    BY <2>1 DEF CallRec
  <2>3. call[m].op # "create" => p # Absent
    BY <1>1, <1>2 DEF CallOK
  <2> QED
    BY <1>2, <2>2, <2>3
<1>5. /\ Asked.st = "asked" /\ Asked # NoFetch
      /\ call[m].op # "create" => fetch' # NoFetch
      /\ fetch'.st = "answered" => fetch' = fetch
      /\ fetch' = NoFetch => fetch = NoFetch
  BY <1>2 DEF Asked, NoFetch
<1>6. BoardTypes'
  <2>1. /\ cache' \in List \cup {Absent} /\ gap' \in BOOLEAN /\ rolledBack' \in BOOLEAN
        /\ fetch' \in {NoFetch, Asked} \cup Answers
    BY <1>1, <1>2, <1>4 DEF BoardTypes
  <2> QED
    BY <1>1, <1>2, <1>3, <1>5, <2>1 DEF BoardTypes
<1>7. /\ RowsAreSent' /\ TablesAgree' /\ (\A n : Table(n)' = Table(n))
      /\ \A r, n, c, ops : Agrees(r, n, c, ops) => Agrees(r, n, c, ops)'
  BY <1>1, <1>2, SameLog
<1>8. (\A k \in Mutations : CallOK(k))'
  <2> SUFFICES ASSUME NEW k \in Mutations
               PROVE  CallOK(k)'
    OBVIOUS
  <2>1. CallOK(k)
    BY <1>1
  <2>2. CASE k # m
    <3>1. call'[k] = call[k] /\ (cache' = Absent => cache = Absent)
      BY <1>2, <1>3, <1>4, <2>2
    <3> QED
      BY <2>1, <3>1 DEF CallOK
  <2>3. CASE k = m
    BY <1>2, <1>3, <2>1, <2>3 DEF CallOK
  <2> QED
    BY <2>2, <2>3
<1>9. Recorded'
  <2>1. \A k \in Mutations : call'[k].server = call[k].server /\ (call'[k].ui = "idle" <=> call[k].ui = "idle")
    BY <1>2, <1>3
  <2> QED
    BY <1>1, <1>2, <2>1 DEF Recorded
<1>11. CacheAgrees'
  <2>1. CASE call[m].op = "create"
    <3>0. \A k \in Mutations : Undone(k)' <=> Undone(k)
      BY <1>2 DEF Undone
    <3>1. Doomed => Doomed'
      BY <1>2, <1>3, <2>1, <3>0 DEF Doomed, Edits, Pends
    <3>2. \A c : Awaited(c)' = Awaited(c)
      BY <1>2, <1>3, <2>1 DEF Awaited, Pends
    <3>3. cache' = cache /\ gap' = gap /\ heard' = heard
      BY <1>2, <2>1
    <3> QED
      BY <1>1, <1>7, <3>1, <3>2, <3>3 DEF CacheAgrees, Agrees
  <2>2. CASE call[m].op # "create"
    BY <1>4, <2>2 DEF CacheAgrees
  <2> QED
    BY <2>1, <2>2
<1>12. Refetched'
  <2>1. \A i \in 1 .. Len(log) :
          log[i].by # Absent /\ call'[log[i].by].ui = "succeeded"
            => call'[log[i].by] = call[log[i].by]
    BY <1>1, <1>3 DEF Recorded
  <2>2. CASE call[m].op = "create"
    <3>1. Editing => Editing'
      BY <1>3, <2>2 DEF Editing, Edits, Pends
    <3> QED
      BY <1>1, <1>2, <2>1, <2>2, <3>1 DEF Refetched
  <2>3. CASE call[m].op # "create"
    BY <1>1, <1>2, <1>5, <2>1, <2>3 DEF Refetched
  <2> QED
    BY <2>2, <2>3
<1> QED
  BY <1>6, <1>7, <1>8, <1>9, <1>11, <1>12 DEF CacheInv

LEMMA CacheInvStutter == CacheInv /\ UNCHANGED boardVars => CacheInv'
<1> SUFFICES ASSUME CacheInv, UNCHANGED boardVars
             PROVE  CacheInv'
  OBVIOUS
<1>1. /\ BoardTypes /\ (\A k \in Mutations : CallOK(k)) /\ Recorded /\ RowsAreSent
      /\ TablesAgree /\ CacheAgrees /\ Refetched
  BY DEF CacheInv
<1>2. /\ log' = log /\ committed' = committed /\ fetch' = fetch /\ cache' = cache
      /\ heard' = heard /\ seen' = seen /\ call' = call /\ gap' = gap
      /\ rolledBack' = rolledBack /\ failed' = failed
  BY DEF boardVars, serverState, history
<1>3. /\ RowsAreSent' /\ TablesAgree' /\ (\A n : Table(n)' = Table(n))
      /\ \A r, n, c, ops : Agrees(r, n, c, ops) => Agrees(r, n, c, ops)'
  BY <1>1, <1>2, SameLog
<1>4. BoardTypes' /\ (\A k \in Mutations : CallOK(k))' /\ Recorded'
  BY <1>1, <1>2 DEF BoardTypes, CallOK, Recorded
<1>6. Editing' = Editing /\ Doomed' = Doomed /\ \A c : Awaited(c)' = Awaited(c)
  BY <1>2 DEF Editing, Doomed, Awaited, Edits, Pends, Undone
<1>7. CacheAgrees'
  BY <1>1, <1>2, <1>3, <1>6 DEF CacheAgrees, Agrees
<1>8. Refetched'
  BY <1>1, <1>2, <1>6 DEF Refetched
<1> QED
  BY <1>3, <1>4, <1>7, <1>8 DEF CacheInv

LEMMA CacheInvNext == CacheInv /\ [BoardNext]_boardVars => CacheInv'
<1> SUFFICES ASSUME CacheInv, [BoardNext]_boardVars
             PROVE  CacheInv'
  OBVIOUS
<1>1. CASE Read \/ Arrive \/ FetchFails \/ Hear \/ Miss \/ OtherChange \/ End
  BY <1>1, CacheInvRead, CacheInvArrive, CacheInvFetchFails, CacheInvHear, CacheInvMiss,
     CacheInvOtherChange, CacheInvEnd
<1>2. ASSUME NEW m \in Mutations,
             \/ Create(m) \/ Drag(m) \/ Delete(m) \/ Blur(m) \/ Label(m)
             \/ Handle(m) \/ Refuse(m) \/ Succeed(m) \/ Fail(m) \/ Lose(m)
      PROVE  CacheInv'
  <2>1. CASE Create(m) \/ Drag(m) \/ Delete(m) \/ Blur(m) \/ Label(m)
    BY <2>1, CacheInvEdit
  <2>2. CASE Handle(m) \/ Refuse(m) \/ Succeed(m)
    BY <2>2, CacheInvHandle, CacheInvRefuse, CacheInvSucceed
  <2>3. CASE Fail(m) \/ Lose(m)
    BY <2>3, CacheInvGiveUp DEF Fail, Lose, Pends, Pending
  <2> QED
    BY <1>2, <2>1, <2>2, <2>3
<1>3. CASE UNCHANGED boardVars
  BY <1>3, CacheInvStutter
<1> QED
  BY <1>1, <1>2, <1>3 DEF BoardNext

\* The log, the tables, the calls and the list stay consistent, for any cards,
\* mutations and bounds.
THEOREM CacheIsKept == BoardSpec => []CacheInv
  BY CacheInvInit, CacheInvNext, PTL DEF BoardSpec

LEMMA CacheTypesImply == CacheInv => BoardTypeOK
<1> SUFFICES ASSUME CacheInv
             PROVE  BoardTypeOK
  OBVIOUS
<1>1. BoardTypes
  BY DEF CacheInv
<1>2. /\ log \in Seq(Change) /\ committed \in 0 .. Len(log) /\ heard \in 0 .. Len(log)
      /\ cache \in List \cup {Absent} /\ seen \in 0 .. committed
      /\ call \in [Mutations -> CallRec \cup {IdleCall}]
  BY <1>1 DEF BoardTypes
<1>3. /\ fetch.st \in {"none", "asked", "answered"}
      /\ fetch.st = "answered" => fetch.at \in 0 .. committed /\ fetch.list \in List
  BY <1>1, Fetches
<1>4. \A m \in Mutations :
        \/ call[m] = [ui |-> "idle"]
        \/ /\ call[m].ui \in {"pending", "succeeded", "failed"}
           /\ call[m].server \in {"sent", "announced", "done", "refused"}
           /\ call[m].previous \in List \cup {Absent}
  <2> SUFFICES ASSUME NEW m \in Mutations, call[m] # [ui |-> "idle"]
               PROVE  /\ call[m].ui \in {"pending", "succeeded", "failed"}
                      /\ call[m].server \in {"sent", "announced", "done", "refused"}
                      /\ call[m].previous \in List \cup {Absent}
    OBVIOUS
  <2>1. call[m] \in CallRec
    BY <1>2 DEF IdleCall
  <2> QED
    BY <2>1 DEF CallRec
<1> QED
  BY <1>2, <1>3, <1>4 DEF BoardTypeOK

LEMMA QuietAgrees == CacheInv => Converges
<1> SUFFICES ASSUME CacheInv, Quiet, cache # Absent, ~gap
             PROVE  cache = Latest
  BY DEF Converges
<1>1. BoardTypes /\ TablesAgree /\ CacheAgrees
  BY DEF CacheInv
<1>2. heard = Len(log) /\ Len(log) \in Nat /\ cache \in List /\ Latest \in List
  BY <1>1 DEF Quiet, BoardTypes, TablesAgree, Latest
<1>3. ~Doomed /\ \A c : Awaited(c) = {}
  BY DEF Quiet, Doomed, Awaited, Edits, Pends
<1>4. \A c, kinds : ~Later(heard, c, kinds)
  BY <1>2 DEF Later
<1>5. ASSUME NEW c \in Cards
      PROVE  cache[c] = Latest[c]
  <2>1. Agrees(cache[c], heard, c, {})
    BY <1>1, <1>3 DEF CacheAgrees
  <2>2. /\ cache[c] = Absent <=> Latest[c] = Absent
        /\ cache[c] # Absent => /\ cache[c].place = Latest[c].place
                                /\ cache[c].text = Latest[c].text
                                /\ cache[c].labels = Latest[c].labels
    BY <1>4, <2>1 DEF Agrees
  <2>3. cache[c] \in Row \cup {Absent} /\ Latest[c] \in Row \cup {Absent}
    BY <1>2 DEF List
  <2>4. \A r, s \in Row : r.place = s.place /\ r.text = s.text /\ r.labels = s.labels => r = s
    BY DEF Row
  <2> QED
    BY <2>2, <2>3, <2>4
<1> QED
  BY <1>2, <1>5 DEF List

LEMMA QuietIsRefetched == CacheInv => SettledIsRefetched
<1> SUFFICES ASSUME CacheInv, Quiet, ~failed
             PROVE  /\ ~rolledBack
                    /\ \A i \in DOMAIN log : LET m == log[i].by IN
                         m # Absent /\ call[m].ui = "succeeded" /\ ~call[m].early => seen >= i
  BY DEF SettledIsRefetched
<1>1. Refetched /\ log \in Seq(Change)
  BY DEF CacheInv, BoardTypes
<1>2. ~Editing /\ fetch = NoFetch
  BY DEF Quiet, Editing, Edits, Pends
<1>3. DOMAIN log = 1 .. Len(log)
  BY <1>1
<1> QED
  BY <1>1, <1>2, <1>3 DEF Refetched

\* The log, the list, the query and the calls keep their types.
THEOREM CacheTypesHold == BoardSpec => []BoardTypeOK
  BY CacheIsKept, CacheTypesImply, PTL

\* When nothing is under way the board shows what the server has, unless a gap was
\* left: by an event that was missed, that is never sent or that misleads, by a
\* snapshot, or by an answer that was late or cut short.
THEOREM BoardsConverge == BoardSpec => []Converges
  BY CacheIsKept, QuietAgrees, PTL

\* When the mutations have ended, an answer from after the last of them has been
\* shown, unless its query failed (onSettled and onSuccess of hooks.ts).
THEOREM SettledBoardsAreRefetched == BoardSpec => []SettledIsRefetched
  BY CacheIsKept, QuietIsRefetched, PTL

-----------------------------------------------------------------------------
(* MCBoard.                                                                *)

\* A column of ranks keeps its type: each is a rank that has room below it.
THEOREM RanksAreRanks == Spec => []TypeOK
<1>1. ColumnInv => TypeOK
  BY DEF ColumnInv, TypeOK, Ranks, Last
<1> QED
  BY <1>1, ColumnStaysInOrder, PTL

\* A behaviour of the six parts is a behaviour of each of them, so what holds of
\* a part holds in the run that puts them side by side.
THEOREM PartsAreParts ==
  PartsSpec => BoardSpec /\ Spec /\ FilesSpec /\ SeedingSpec /\ BillingSpec /\ PagesSpec
<1>1. PartsInit => BoardInit /\ Init /\ FilesInit /\ SeedingInit /\ BillingInit /\ PagesInit
  BY DEF PartsInit
<1> DEFINE all == <<part, boardVars, column, filesVars, seedingVars, billingVars, pagesVars>>
<1>2. [PartsNext]_all => /\ [BoardNext]_boardVars /\ [Next]_column /\ [FilesNext]_filesVars
                         /\ [SeedingNext]_seedingVars /\ [BillingNext]_billingVars
                         /\ [PagesNext]_pagesVars
  <2>1. CASE UNCHANGED all
    BY <2>1
  <2>2. CASE PartsNext
    BY <2>2 DEF PartsNext, InCache, InColumn, InFiles, InNumbers, InBilling, InPages
  <2> QED
    BY <2>1, <2>2
<1> QED
  BY <1>1, <1>2, PTL DEF PartsSpec, BoardSpec, Spec, FilesSpec, SeedingSpec, BillingSpec, PagesSpec

\* Each part keeps the types of its module in the run that puts them side by side.
THEOREM PartsKeepTheirTypes == PartsSpec => []PartsTypeOK
<1>1. PartsSpec => [](part \in Parts)
  <2>1. PartsInit => part \in Parts
    BY DEF PartsInit
  <2>2. /\ part \in Parts
        /\ [PartsNext]_<<part, boardVars, column, filesVars, seedingVars, billingVars, pagesVars>>
        => (part \in Parts)'
    BY DEF PartsNext, Parts, InCache, InColumn, InFiles, InNumbers, InBilling, InPages
  <2> QED
    BY <2>1, <2>2, PTL DEF PartsSpec
<1>2. FilesInv => FilesTypeOK
  BY DEF FilesInv
<1>3. SeedingInv => SeedingTypeOK
  BY DEF SeedingInv
<1>4. BillingInv => BillingTypeOK
  BY DEF BillingInv
<1>5. /\ part \in Parts /\ BoardTypeOK /\ TypeOK /\ FilesTypeOK /\ SeedingTypeOK
      /\ BillingTypeOK /\ PagesTypeOK
      => PartsTypeOK
  BY DEF Parts, PartsTypeOK
<1> QED
  BY <1>1, <1>2, <1>3, <1>4, <1>5, PartsAreParts, CacheTypesHold, RanksAreRanks,
     FilesStayTogether, NumbersStayApart, EventsAreAccountedFor, PagesTypesHold, PTL

=============================================================================
