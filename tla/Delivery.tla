------------------------------ MODULE Delivery ------------------------------
(***************************************************************************)
(* From a comment to inboxes and mail: CommentsService.create, which puts  *)
(* jobs on the queue, and NotificationsProcessor, which BullMQ runs until  *)
(* it returns, three failures at most, and once more when a worker died.   *)
(*                                                                         *)
(* One issue.  The queue is external and loses nothing; jobs are put on it *)
(* before the transaction of the comment ends, and stay there if it is     *)
(* rolled back.                                                            *)
(***************************************************************************)
EXTENDS Naturals, FiniteSets

CONSTANTS People, Comments,
          Reporter, \* of the issue
          MaxChanges, \* bound on what changes around the comments
          Nobody

Attempts == 3  \* NotificationsService.enqueue
MaxStalls == 1 \* BullMQ's own limit

Kinds == {"MENTIONED", "COMMENT_CREATED"}
Jobs == Comments \X People \X Kinds
Recipient(j) == j[2]

ASSUME DeliveryAssumption == Reporter \in People /\ Nobody \notin People /\ MaxChanges \in Nat

VARIABLES members,  \* of the organization
          assignee, \* of the issue, as committed
          muted,    \* who wants no mail
          changes,
          comment,  \* a request: where it is, its author, what it was asked and
                    \* has read, what it has to tell
          job,      \* where a job is: "none", "waiting", "row", "user", "mail", "done", "failed"
          failures, \* attempts of a job that failed
          stalls,   \* attempts of a job whose worker died
          rows,     \* inbox rows stored for a job
          mails,    \* mails handed over for a job
          repeated, \* history: attempts that failed or died after their row was stored
          lateDeath, \* history: attempts that died with their mail on its way
          reassigned \* history: comments during which the assignee changed

issueState == <<members, assignee, muted, changes>>
work == <<job, failures, stalls, rows, mails, repeated, lateDeath>>
deliveryVars == <<issueState, comment, work, reassigned>>

NewComment == [at |-> "new", by |-> Nobody, asked |-> {}, assignee |-> Nobody, tell |-> {}]

DeliveryInit ==
  /\ members = People /\ assignee \in People \cup {Nobody} /\ muted = {} /\ changes = 0
  /\ comment = [c \in Comments |-> NewComment]
  /\ job = [j \in Jobs |-> "none"] /\ failures = [j \in Jobs |-> 0]
  /\ stalls = [j \in Jobs |-> 0] /\ rows = [j \in Jobs |-> 0] /\ mails = [j \in Jobs |-> 0]
  /\ repeated = [j \in Jobs |-> 0] /\ lateDeath = [j \in Jobs |-> 0] /\ reassigned = {}

-----------------------------------------------------------------------------
(* The issue and its people *)

Changed == changes < MaxChanges /\ changes' = changes + 1

Reassign ==
  /\ Changed
  /\ \E u \in members \cup {Nobody} : u # assignee /\ assignee' = u
  /\ reassigned' = reassigned \cup {c \in Comments : comment[c].at \in {"resolved", "telling"}}
  /\ UNCHANGED <<members, muted, comment, work>>
Leave(u) ==
  /\ Changed
  /\ members' = members \ {u}
  /\ UNCHANGED <<assignee, muted, comment, work, reassigned>>
SetPrefs(u) ==
  /\ Changed
  /\ muted' = IF u \in muted THEN muted \ {u} ELSE muted \cup {u}
  /\ UNCHANGED <<members, assignee, comment, work, reassigned>>

-----------------------------------------------------------------------------
(* CommentsService.create *)

\* The issue is read, with its reporter and assignee.
Resolve(c) ==
  /\ comment[c].at = "new"
  /\ \E a \in members, asked \in SUBSET People :
       comment' = [comment EXCEPT ![c] = [at |-> "resolved", by |-> a, asked |-> asked,
                                          assignee |-> assignee, tell |-> {}]]
  /\ UNCHANGED <<issueState, work, reassigned>>

\* Who is told what: the members mentioned, and the watchers who are not.
WatchersAsWell(c, mentioned) ==  \* a mistake: a watcher who is mentioned is told twice
  {<<c, u, "MENTIONED">> : u \in mentioned}
    \cup {<<c, u, "COMMENT_CREATED">> : u \in {Reporter, comment[c].assignee} \ {Nobody}}
WatchersNotAsked(c, mentioned) ==  \* a mistake: compared with what was asked for
  {<<c, u, "MENTIONED">> : u \in mentioned}
    \cup {<<c, u, "COMMENT_CREATED">> :
            u \in {Reporter, comment[c].assignee} \ (comment[c].asked \cup {Nobody})}
ToTell(c, mentioned) ==
  {<<c, u, "MENTIONED">> : u \in mentioned}
    \cup {<<c, u, "COMMENT_CREATED">> :
            u \in {Reporter, comment[c].assignee} \ (mentioned \cup {Nobody})}

\* The mentions are filtered, and the comment is inserted and announced.
Insert(c) ==
  /\ comment[c].at = "resolved"
  /\ comment' = [comment EXCEPT ![c].at = "telling", ![c].asked = {}, ![c].assignee = Nobody,
                                ![c].tell = ToTell(c, comment[c].asked \cap members)]
  /\ UNCHANGED <<issueState, work, reassigned>>

\* enqueue; the actor is not told of his own comment.
Enqueue(c, j) ==
  /\ j \in comment[c].tell
  /\ comment' = [comment EXCEPT ![c].tell = @ \ {j}]
  /\ job' = IF Recipient(j) = comment[c].by THEN job ELSE [job EXCEPT ![j] = "waiting"]
  /\ UNCHANGED <<issueState, failures, stalls, rows, mails, repeated, lateDeath, reassigned>>
Commit(c) ==
  /\ comment[c].at = "telling" /\ comment[c].tell = {}
  /\ comment' = [comment EXCEPT ![c].at = "stored"]
  /\ UNCHANGED <<issueState, work, reassigned>>

\* A statement or an enqueue throws, the time is up, the process dies.
Fail(c) ==
  /\ comment[c].at \in {"resolved", "telling"}
  /\ comment' = [comment EXCEPT ![c].at = "failed", ![c].asked = {},
                                ![c].assignee = Nobody, ![c].tell = {}]
  /\ UNCHANGED <<issueState, work, reassigned>>

-----------------------------------------------------------------------------
(* NotificationsProcessor.process *)

Active(j) == job[j] \in {"row", "user", "mail"}
Moves(j, place) == job' = [job EXCEPT ![j] = place]
StoredRow(j) == job[j] \in {"user", "mail"}  \* this attempt has
Repeats(j) == repeated' = [repeated EXCEPT ![j] = IF StoredRow(j) THEN @ + 1 ELSE @]

Start(j) ==
  /\ job[j] = "waiting" /\ Moves(j, "row")
  /\ UNCHANGED <<issueState, comment, failures, stalls, rows, mails, repeated, lateDeath,
                 reassigned>>
StoreRow(j) ==
  /\ job[j] = "row" /\ Moves(j, "user") /\ rows' = [rows EXCEPT ![j] = @ + 1]
  /\ UNCHANGED <<issueState, comment, failures, stalls, mails, repeated, lateDeath, reassigned>>
ReadUser(j) ==
  /\ job[j] = "user" /\ Moves(j, IF Recipient(j) \in muted THEN "done" ELSE "mail")
  /\ UNCHANGED <<issueState, comment, failures, stalls, rows, mails, repeated, lateDeath,
                 reassigned>>

\* An attempt throws: again, after a while, or never.
AgainAndAgain(j) == "waiting"  \* a mistake: attempts are not counted
WhenFailed(j) == IF failures[j] + 1 < Attempts THEN "waiting" ELSE "failed"
Throw(j) ==
  /\ Moves(j, WhenFailed(j)) /\ Repeats(j)
  /\ failures' = [failures EXCEPT ![j] = @ + 1]
AttemptFails(j) ==
  /\ job[j] \in {"row", "user"} /\ Throw(j)
  /\ UNCHANGED <<issueState, comment, stalls, rows, mails, lateDeath, reassigned>>

\* MailService.send: the mail is handed over, or not, or it was and looks as if not.
\* An error is logged, and the job is done.
MailError(j) == Moves(j, "done") /\ UNCHANGED <<failures, repeated, stalls>>
SendMail(j) ==
  /\ job[j] = "mail"
  /\ \/ /\ mails' = [mails EXCEPT ![j] = @ + 1]
        /\ Moves(j, "done") /\ UNCHANGED <<failures, stalls, repeated>>
     \/ /\ mails' \in {mails, [mails EXCEPT ![j] = @ + 1]} /\ MailError(j)
  /\ UNCHANGED <<issueState, comment, rows, lateDeath, reassigned>>

\* The worker dies: the job has stalled, and another worker takes it, once.
LostWhenTaken(j) == "none"  \* a mistake: a job is taken off the queue when it starts
WhenStalled(j) == IF stalls[j] < MaxStalls THEN "waiting" ELSE "failed"
Die(j) ==
  /\ Active(j) /\ Repeats(j)
  /\ stalls' = [stalls EXCEPT ![j] = @ + 1]
  /\ Moves(j, WhenStalled(j))
  /\ \/ UNCHANGED <<mails, lateDeath>>
     \/ /\ job[j] = "mail" /\ mails' = [mails EXCEPT ![j] = @ + 1]
        /\ lateDeath' = [lateDeath EXCEPT ![j] = @ + 1]
  /\ UNCHANGED <<issueState, comment, failures, rows, reassigned>>

Deliver(j) == Start(j) \/ StoreRow(j) \/ ReadUser(j) \/ SendMail(j)

DeliveryNext ==
  \/ Reassign
  \/ \E u \in People : Leave(u) \/ SetPrefs(u)
  \/ \E c \in Comments : \/ Resolve(c) \/ Insert(c) \/ Commit(c) \/ Fail(c)
                         \/ \E j \in Jobs : Enqueue(c, j)
  \/ \E j \in Jobs : Deliver(j) \/ AttemptFails(j) \/ Die(j)

\* The queue goes on with one job or another (fairness: WF of \E j : Deliver(j)).
DeliverySpec == DeliveryInit /\ [][DeliveryNext]_deliveryVars

-----------------------------------------------------------------------------
(* Properties *)

DeliveryTypeOK ==
  /\ members \subseteq People /\ muted \subseteq People /\ assignee \in People \cup {Nobody}
  /\ \A c \in Comments :
       /\ comment[c].at \in {"new", "resolved", "telling", "stored", "failed"}
       /\ comment[c].by \in People \cup {Nobody} /\ comment[c].asked \subseteq People
       /\ comment[c].tell \subseteq Jobs
       /\ comment[c].assignee \in People \cup {Nobody}
  /\ job \in [Jobs -> {"none", "waiting", "row", "user", "mail", "done", "failed"}]
  /\ failures \in [Jobs -> 0 .. Attempts] /\ stalls \in [Jobs -> 0 .. MaxStalls + 1]
  /\ rows \in [Jobs -> Nat] /\ mails \in [Jobs -> Nat] /\ repeated \in [Jobs -> Nat]

\* Everybody is told of a comment once: whether he is mentioned, watches, or
\* both; its author never.  A second inbox row has one cause, an attempt that
\* failed or died after it had stored the first: the row is committed on its own,
\* and nothing recognizes it (notifications.processor.ts:44-53).  A second mail
\* has one, a worker that died while the mail was under way: the send is the
\* last thing an attempt does, and a failed one is not tried again
\* (mail.service.ts:41-54).
ToldOnce ==
  \A c \in Comments, u \in People :
    LET told == {j \in Jobs : j[1] = c /\ j[2] = u /\ rows[j] > 0} IN
    /\ Cardinality(told) <= 1 /\ (u = comment[c].by => told = {})
    /\ \A j \in told : rows[j] <= 1 + repeated[j] /\ mails[j] <= 1 + lateDeath[j]

\* Whoever is the assignee when a comment is stored has been put on the queue for
\* it, unless he became so while it was being made: watchers are those that were
\* read first (comments.service.ts:107-124).
AssigneeIsTold ==
  \A c \in Comments :
    comment[c].at = "telling" /\ comment[c].tell = {} /\ c \notin reassigned
      /\ assignee \notin {Nobody, comment[c].by}
    => \E j \in Jobs : j[1] = c /\ j[2] = assignee /\ job[j] # "none"

\* The queue drains: every job that was put on it ends, whatever fails.
NeverQueued(j) == job[j] = "none" /\ failures[j] + stalls[j] = 0
JobsEnd ==
  (\E j \in Jobs : job[j] = "waiting")
    ~> (\A j \in Jobs : job[j] \in {"done", "failed"} \/ NeverQueued(j))
=============================================================================
