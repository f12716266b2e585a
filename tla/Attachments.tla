---------------------------- MODULE Attachments ----------------------------
(***************************************************************************)
(* Files of one issue: AttachmentsService between the database, whose      *)
(* transactions roll back, and the object store, which does not; the       *)
(* browser that uploads (uploadAttachment); and the deletion of the issue, *)
(* which cascades to the rows.                                             *)
(*                                                                         *)
(* Every upload has a key of its own (buildKey draws a UUID), so a key     *)
(* stands for the upload, its row and its object.                          *)
(***************************************************************************)
EXTENDS Naturals, FiniteSets

CONSTANTS Uploads,  \* files, by the key presign gives them
          Removals, \* requests that remove an attachment
          Nobody

ASSUME FilesAssumption == Nobody \notin Uploads \cup Removals \cup {"issue"}

VARIABLES stored,   \* objects in the bucket
          rows,     \* attachments of the issue, as committed
          issue,    \* "there", "going" (deleted, not committed) or "gone"
          up,       \* an upload: how far browser and API have come
          removal,  \* a removal: how far it has come, and of what
          holder,   \* the transaction that has deleted a row and not ended
          undone,   \* history: keys whose removal failed, but whose object it deleted
          left      \* history: why an object may have been left behind

filesVars == <<stored, rows, issue, up, removal, holder, undone, left>>

FilesInit ==
  /\ stored = {} /\ rows = {} /\ issue = "there" /\ undone = {} /\ left = {}
  /\ up = [u \in Uploads |-> "new"] /\ holder = [u \in Uploads |-> Nobody]
  /\ removal = [r \in Removals |-> [at |-> "new", of |-> Nobody]]

-----------------------------------------------------------------------------
(* Uploading *)

\* presign: a key and a URL, if the issue is there.
Presign(u) ==
  /\ up[u] = "new" /\ issue # "gone"
  /\ up' = [up EXCEPT ![u] = "presigned"]
  /\ UNCHANGED <<stored, rows, issue, removal, holder, undone, left>>

\* The PUT stores the object; the browser may take it for failed all the same.
Put(u) ==
  /\ up[u] = "presigned" /\ stored' = stored \cup {u}
  /\ \/ up' = [up EXCEPT ![u] = "put"] /\ UNCHANGED left
     \/ up' = [up EXCEPT ![u] = "failed"] /\ left' = left \cup {u}
  /\ UNCHANGED <<rows, issue, removal, holder, undone>>

\* The tab is closed, or the confirmation finds no issue.
Abandon(u) ==
  /\ up[u] = "put" /\ up' = [up EXCEPT ![u] = "failed"] /\ left' = left \cup {u}
  /\ UNCHANGED <<stored, rows, issue, removal, holder, undone>>

\* The browser confirms when the PUT was answered well; nobody looks at the bucket.
WhenPresigned == {"presigned", "put"}  \* a mistake: the answer is not awaited
MayConfirm == {"put"}

\* confirm inserts the row; the foreign key keeps the issue from going meanwhile,
\* and waits for one that may be.
Confirm(u) ==
  /\ up[u] \in MayConfirm /\ issue = "there"
  /\ up' = [up EXCEPT ![u] = "inserted"]
  /\ UNCHANGED <<stored, rows, issue, removal, holder, undone, left>>
EndConfirm(u) ==
  /\ up[u] = "inserted"
  /\ \/ up' = [up EXCEPT ![u] = "done"] /\ rows' = rows \cup {u} /\ UNCHANGED left
     \/ up' = [up EXCEPT ![u] = "failed"] /\ left' = left \cup {u} /\ UNCHANGED rows
  /\ UNCHANGED <<stored, issue, removal, holder, undone>>

-----------------------------------------------------------------------------
(* Removing *)

Go(r, place) == removal' = [removal EXCEPT ![r].at = place]

\* remove finds the attachment as committed.
Find(r) ==
  /\ removal[r].at = "new" /\ issue # "gone"
  /\ \E u \in rows : removal' = [removal EXCEPT ![r] = [at |-> "found", of |-> u]]
  /\ UNCHANGED <<stored, rows, issue, up, holder, undone, left>>

\* The delete waits for who holds the row, and fails if it is gone then.
DeleteRow(r) ==
  /\ removal[r].at = "found" /\ holder[removal[r].of] = Nobody
  /\ IF removal[r].of \in rows
       THEN Go(r, "deleted") /\ holder' = [holder EXCEPT ![removal[r].of] = r]
       ELSE Go(r, "ended") /\ UNCHANGED holder
  /\ UNCHANGED <<stored, rows, issue, up, undone, left>>

DeleteNoObject(r) ==  \* a mistake: the row alone is deleted
  /\ removal[r].at = "deleted" /\ Go(r, "emptied")
  /\ UNCHANGED <<stored, rows, issue, up, holder, undone, left>>

\* The object goes at once; a failure of the store is swallowed.
DeleteObject(r) ==
  /\ removal[r].at = "deleted" /\ Go(r, "emptied")
  /\ \/ stored' = stored \ {removal[r].of} /\ UNCHANGED left
     \/ left' = left \cup {removal[r].of} /\ UNCHANGED stored
  /\ UNCHANGED <<rows, issue, up, holder, undone>>

\* The transaction commits, or is rolled back (time-out, crash, lost connection).
Release(r) == holder' = [holder EXCEPT ![removal[r].of] = Nobody]
CommitRemoval(r) ==
  /\ removal[r].at = "emptied" /\ Go(r, "ended") /\ Release(r)
  /\ rows' = rows \ {removal[r].of}
  /\ UNCHANGED <<stored, issue, up, undone, left>>
RollBack(r) ==
  /\ removal[r].at \in {"deleted", "emptied"} /\ Release(r)
  /\ \/ Go(r, "ended")
     \/ removal[r].at = "deleted" /\ Go(r, "late")
  /\ undone' = IF removal[r].of \in stored THEN undone ELSE undone \cup {removal[r].of}
  /\ UNCHANGED <<stored, rows, issue, up, left>>

\* ... but a time-out stops no handler: one that was about to delete the object does
\* so when the row is there again, and fails at its next statement.
DeleteLate(r) ==
  /\ removal[r].at = "late" /\ Go(r, "ended")
  /\ \/ stored' = stored \ {removal[r].of} /\ undone' = undone \cup {removal[r].of}
     \/ UNCHANGED <<stored, undone>>
  /\ UNCHANGED <<rows, issue, up, holder, left>>

-----------------------------------------------------------------------------
(* IssuesService.remove *)

\* The delete waits for inserts that refer to the issue, its cascade for removals.
DeleteIssue ==
  /\ issue = "there" /\ \A u \in Uploads : up[u] # "inserted"
  /\ issue' = "going"
  /\ UNCHANGED <<stored, rows, up, removal, holder, undone, left>>
Cascade ==
  /\ issue = "going" /\ \A u \in rows : holder[u] = Nobody
  /\ \/ issue' = "gone" /\ rows' = {} /\ left' = left \cup rows
     \/ issue' = "there" /\ UNCHANGED <<rows, left>>
  /\ UNCHANGED <<stored, up, removal, holder, undone>>

FilesNext ==
  \/ \E u \in Uploads : Presign(u) \/ Put(u) \/ Abandon(u) \/ Confirm(u) \/ EndConfirm(u)
  \/ \E r \in Removals : \/ Find(r) \/ DeleteRow(r) \/ DeleteObject(r)
                         \/ CommitRemoval(r) \/ RollBack(r) \/ DeleteLate(r)
  \/ DeleteIssue \/ Cascade

FilesSpec == FilesInit /\ [][FilesNext]_filesVars

-----------------------------------------------------------------------------
(* Properties *)

\* Objects, rows and requests are about uploads; who holds a row has deleted it.
FilesTypeOK ==
  /\ stored \subseteq Uploads /\ rows \subseteq Uploads
  /\ undone \subseteq Uploads /\ left \subseteq Uploads
  /\ issue \in {"there", "going", "gone"}
  /\ up \in [Uploads -> {"new", "presigned", "put", "inserted", "done", "failed"}]
  /\ removal \in [Removals -> [at : {"new", "found", "deleted", "emptied", "late", "ended"},
                               of : Uploads \cup {Nobody}]]
  /\ holder \in [Uploads -> Removals \cup {Nobody}]
  /\ \A r \in Removals :
       removal[r].at \in {"deleted", "emptied"} => holder[removal[r].of] = r

Emptied == {r \in Removals : removal[r].at = "emptied"}

\* A file that is listed can be fetched, unless its removal is about to commit or
\* one was rolled back whose handler had the store delete the object, before the
\* roll-back or after it: two removals, a removal and the deletion of the issue, or
\* an upload and either of them cannot otherwise leave a row without its object
\* (attachments.service.ts:90-109, prisma.service.ts:54).
ListedCanBeFetched == rows \subseteq stored \cup undone \cup {removal[r].of : r \in Emptied}

\* An object that no row refers to belongs to an upload that is under way, or is
\* one of those the code gives up: of an upload that failed or was abandoned
\* after the PUT, of a deleted issue, or one the store would not delete.
NoOtherOrphans ==
  stored \subseteq rows \cup left \cup {u \in Uploads : up[u] \in {"put", "inserted"}}
=============================================================================
