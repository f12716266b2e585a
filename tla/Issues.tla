------------------------------- MODULE Issues -------------------------------
(***************************************************************************)
(* The issues of one project: IssuesService.create, update, move and       *)
(* remove, each inside the transaction that TenantRlsInterceptor opens     *)
(* around the whole handler.  Postgres runs it at READ COMMITTED: a        *)
(* statement sees what is committed when it starts, an UPDATE or DELETE    *)
(* waits for the transaction that holds the row, and nobody else sees a    *)
(* write before the commit, which comes after the handler has returned.    *)
(*                                                                         *)
(* Three effects do not belong to the transaction: the audit row (written  *)
(* through the plain client), the realtime event and the notification job. *)
(* They are done before the commit and stay when it never happens.         *)
(*                                                                         *)
(* A request is made once; its record stays when it is over, so that the   *)
(* properties can speak of what it announced and whether it committed.     *)
(***************************************************************************)
EXTENDS Rank, FiniteSets

CONSTANTS Issues,      \* ids an issue can get
          Statuses,    \* board columns
          Users,       \* members of the organization
          Actors,      \* those of them who make the requests of a run
          Requests,    \* HTTP requests of a run
          Unreliable,  \* requests whose transaction may time out or handler die
          Seed,        \* issues on the board at the start, in the order created
          SeedStatus,  \* their column
          SeedUser,    \* their reporter
          Ops,         \* operations that requests ask for
          MaxOpen,     \* requests that are in progress at the same time
          Filtered     \* whether a client may drag on a filtered board

ASSUME IssuesAssumption ==
  /\ None \notin Issues /\ None \notin Users /\ Actors \subseteq Users
  /\ Unreliable \subseteq Requests
  /\ Seed \in Seq(Issues) /\ \A k, l \in DOMAIN Seed : Seed[k] = Seed[l] => k = l
  /\ SeedStatus \in Statuses /\ SeedUser \in Users
  /\ Ops \subseteq {"create", "update", "move", "remove"}
  /\ MaxOpen \in Nat /\ Filtered \in BOOLEAN

VARIABLES counter,    \* Project.issueCounter, committed
          issue,      \* the Issue table, committed: id -> row
          pc,         \* the statement a request runs next
          tx,         \* its transaction: "none", "open", "committed" or "aborted"
          call,       \* its input and what it has read (None before it starts)
          pending,    \* the row version it has written (None: the row is deleted)
          audited,    \* requests whose audit row is stored
          announced,  \* requests whose realtime event was emitted
          jobs,       \* notification jobs in the queue
          view        \* the board of a client that has applied every event

vars == <<counter, issue, pc, tx, call, pending, audited, announced, jobs, view>>
store == <<counter, issue>>
outside == <<audited, announced, jobs, view>>

Columns == {"number", "status", "rank", "assignee", "reporter"}

\* A row version with the columns of data set: what UPDATE ... SET writes.
Set(data, row) == [c \in Columns |-> IF c \in DOMAIN data THEN data[c] ELSE row[c]]

\* A table with the row version of i in it, and without a row for i.
Put(table, i, version) == [j \in DOMAIN table \cup {i} |-> IF j = i THEN version ELSE table[j]]
Drop(table, i) == [j \in DOMAIN table \ {i} |-> table[j]]

-----------------------------------------------------------------------------
\* Seeded cards are appended one after the other, like created ones.
SeedRank[k \in Nat] == IF k <= 1 THEN FirstRank ELSE RankBetween(SeedRank[k - 1], None)
SeedRow(k) == [number |-> k, status |-> SeedStatus, rank |-> SeedRank[k],
               assignee |-> None, reporter |-> SeedUser]
SeedTable == [i \in {Seed[k] : k \in DOMAIN Seed} |->
                SeedRow(CHOOSE k \in DOMAIN Seed : Seed[k] = i)]

Init ==
  /\ counter = Len(Seed)
  /\ issue = SeedTable
  /\ pc = [r \in Requests |-> "new"]
  /\ tx = [r \in Requests |-> "none"]
  /\ call = [r \in Requests |-> None]
  /\ pending = [r \in Requests |-> None]
  /\ audited = {} /\ announced = {} /\ jobs = {}
  /\ view = SeedTable

-----------------------------------------------------------------------------
\* The committed cards of a column, and the ranks of its ends.
Column(s) == {i \in DOMAIN issue : issue[i].status = s}
LastRank(s) == IF Column(s) = {} THEN None
               ELSE issue[CHOOSE i \in Column(s) :
                            \A j \in Column(s) : ~Less(issue[i].rank, issue[j].rank)].rank

\* Row locks: the counter bump holds the project's row, a written version holds
\* the issue's, until the transaction ends.
HoldsNothing(r) == FALSE  \* a mistake: the counter is read, then written back
HoldsProject(r) == tx[r] = "open" /\ call[r].op = "create"
HoldsIssue(r, i) == tx[r] = "open" /\ call[r].id = i /\ pc[r] \notin {"above", "below", "write"}

InProgress == {r \in Requests : pc[r] \notin {"new", "done"}}

\* TenantRlsInterceptor opens the transaction; the handler runs its first read.
Open(r, label, c) ==
  /\ pc[r] = "new"
  /\ Cardinality(InProgress) < MaxOpen
  /\ c.op \in Ops
  /\ pc' = [pc EXCEPT ![r] = label]
  /\ tx' = [tx EXCEPT ![r] = "open"]
  /\ call' = [call EXCEPT ![r] = c]
  /\ UNCHANGED <<counter, issue, pending, outside>>

Goto(r, label) == pc' = [pc EXCEPT ![r] = label]

\* An exception leaves the handler: the transaction rolls back.
ThrowLeavingItOpen(r) ==  \* a mistake: the transaction is never ended
  /\ pc' = [pc EXCEPT ![r] = "done"]
  /\ UNCHANGED tx
Throw(r) ==
  /\ pc' = [pc EXCEPT ![r] = "done"]
  /\ tx' = [tx EXCEPT ![r] = "aborted"]

-----------------------------------------------------------------------------
\* create: bump the counter, which takes the project's row lock.
CreateCount(r, actor, s, assignee) ==
  /\ \A q \in Requests : ~HoldsProject(q)
  /\ Open(r, "place", [op |-> "create", actor |-> actor, id |-> None, before |-> None,
                       data |-> [number |-> counter + 1, status |-> s, rank |-> None,
                                 assignee |-> assignee, reporter |-> actor],
                       above |-> None, below |-> None, floor |-> None, todo |-> {}])

\* Ids that rows have had: a new row gets another one (cuid()).
Used == {Seed[k] : k \in DOMAIN Seed} \cup {call[q].id : q \in {p \in Requests : pc[p] # "new"}}

\* create: read the last card of the column, insert below it.  The insert is
\* seen by nobody else, so it makes one step with the read.
CreatePlace(r, i) ==
  /\ pc[r] = "place" /\ tx[r] = "open"
  /\ i \notin Used
  /\ LET last == LastRank(call[r].data.status)
         row  == [call[r].data EXCEPT !.rank = IF last = None THEN FirstRank
                                                              ELSE RankBetween(last, None)]
     IN  /\ call' = [call EXCEPT ![r].id = i, ![r].data = row]
         /\ pending' = [pending EXCEPT ![r] = row]
  /\ Goto(r, "audit")
  /\ UNCHANGED <<store, tx, outside>>

\* update: read the row as it is before, then write the columns of the input.
UpdateRead(r, actor, i, data) ==
  /\ i \in DOMAIN issue
  /\ Open(r, "write", [op |-> "update", actor |-> actor, id |-> i, before |-> issue[i],
                       data |-> data, above |-> None, below |-> None, floor |-> None, todo |-> {}])

\* The card next to a drop, when it is still in the target column.
NeighbourRank(n, s) == IF n \in Column(s) THEN issue[n].rank ELSE None

\* What a client sends for a drop of card i in column s, from a board that shows
\* the cards of `shown`: the cards above and below the gap (None at an edge).  A
\* drop with no card on either side, or between cards of one rank, is not sent.
Gaps(i, s) ==
  LET cards == Column(s) \ {i}
      \* cards of `shown` are drawn in the order of their ranks
      gaps(shown) ==
        {g \in (shown \cup {None}) \X (shown \cup {None}) :
           LET a == g[1]  b == g[2]
               between(c) == /\ a # None => Less(issue[a].rank, issue[c].rank)
                             /\ b # None => Less(issue[c].rank, issue[b].rank)
           IN  /\ <<a, b>> # <<None, None>>
               /\ a # None /\ b # None => Less(issue[a].rank, issue[b].rank)
               /\ ~\E c \in shown \ {a, b} : between(c)}
  IN  UNION {gaps(shown) : shown \in IF Filtered THEN SUBSET cards ELSE {cards}}

\* move: read the card.  The gap is what the client saw when it let go of it.
MoveRead(r, actor, i, s) ==
  /\ i \in DOMAIN issue
  /\ \E gap \in Gaps(i, s) :
       Open(r, "above", [op |-> "move", actor |-> actor, id |-> i, before |-> issue[i],
                         data |-> [status |-> s],
                         above |-> gap[1], below |-> gap[2], floor |-> None, todo |-> {}])

\* move: read the neighbour above.
MoveAbove(r) ==
  /\ pc[r] = "above" /\ tx[r] = "open"
  /\ call' = [call EXCEPT ![r].floor = NeighbourRank(call[r].above, call[r].data.status)]
  /\ Goto(r, "below")
  /\ UNCHANGED <<store, tx, pending, outside>>

\* move: read the neighbour below and compute the rank; neighbours that are not
\* in order answer 400.
MoveRank(r) ==
  /\ pc[r] = "below" /\ tx[r] = "open"
  /\ LET s == call[r].data.status
         a == call[r].floor
         b == NeighbourRank(call[r].below, s)
     IN  IF Ordered(a, b)
           THEN /\ call' = [call EXCEPT ![r].data = [status |-> s, rank |-> RankBetween(a, b)]]
                /\ Goto(r, "write")
                /\ UNCHANGED tx
           ELSE Throw(r) /\ UNCHANGED call
  /\ UNCHANGED <<store, pending, outside>>

RemoveRead(r, actor, i) ==
  /\ i \in DOMAIN issue
  /\ Open(r, "write", [op |-> "remove", actor |-> actor, id |-> i, before |-> issue[i],
                       data |-> <<>>, above |-> None, below |-> None, floor |-> None, todo |-> {}])

\* The row version a statement makes of the one committed last.
WrittenWhole(r) ==  \* a mistake: writes back the row that was read first
  IF call[r].op = "remove" THEN None ELSE Set(call[r].data, call[r].before)
Written(r) ==
  IF call[r].op = "remove" THEN None ELSE Set(call[r].data, issue[call[r].id])

\* update, move, remove: the UPDATE or DELETE by id.  It waits for the row, then
\* works on the version committed last; a row that is gone is an error.
Write(r) ==
  LET i == call[r].id
  IN  /\ pc[r] = "write" /\ tx[r] = "open"
      /\ \A q \in Requests : ~HoldsIssue(q, i)
      /\ IF i \in DOMAIN issue
           THEN /\ pending' = [pending EXCEPT ![r] = Written(r)]
                /\ Goto(r, "audit")
                /\ UNCHANGED tx
           ELSE Throw(r) /\ UNCHANGED pending
      /\ UNCHANGED <<store, call, outside>>

\* A statement of a transaction that has timed out throws.
Expired(r) ==
  /\ pc[r] \in {"place", "above", "below", "write", "commit"} /\ tx[r] = "aborted"
  /\ Goto(r, "done")
  /\ UNCHANGED <<store, tx, call, pending, outside>>

-----------------------------------------------------------------------------
\* AuditService.record: on a connection of its own; a failure is swallowed.
Audit(r) ==
  /\ pc[r] = "audit"
  /\ audited' \in {audited, audited \cup {r}}
  /\ Goto(r, "emit")
  /\ UNCHANGED <<store, tx, call, pending, announced, jobs, view>>

\* What the event carries: the row the write returned, or a move's two columns.
PayloadReadFirst(r) ==  \* a mistake: an update's event is made of the row read first
  CASE call[r].op = "create" -> pending[r]
    [] call[r].op = "update" -> Set(call[r].data, call[r].before)
    [] OTHER -> call[r].data
Payload(r) == IF call[r].op \in {"create", "update"} THEN pending[r] ELSE call[r].data

\* What a connected board makes of the event (use-board-realtime.ts).
Applied(r) ==
  LET i == call[r].id
  IN  CASE call[r].op = "create" -> IF i \in DOMAIN view THEN view ELSE Put(view, i, Payload(r))
        [] call[r].op = "remove" -> Drop(view, i)
        [] OTHER -> IF i \in DOMAIN view THEN [view EXCEPT ![i] = Set(Payload(r), @)] ELSE view

\* The recipients among `people`: not nobody, and not the actor.
ToldOrNobody(people, r) == people \ {call[r].actor}  \* a mistake: no check for null
Told(people, r) == people \ {None, call[r].actor}

\* Who is to be told: the assignee of a created issue, the assignee an update
\* sets when the row read before had another, and the watchers of a status that
\* differs from the one read before.
Recipients(r) ==
  LET c == call[r]
      assigned == IF c.op \in {"create", "update"} /\ "assignee" \in DOMAIN c.data
                     /\ (c.op = "update" => c.data.assignee # c.before.assignee)
                    THEN {c.data.assignee} ELSE {}
      watchers == IF c.op = "update" /\ "status" \in DOMAIN c.data
                     /\ c.data.status # c.before.status
                    THEN {c.before.reporter, pending[r].assignee} ELSE {}
  IN  (Told(assigned, r) \X {"ISSUE_ASSIGNED"}) \cup (Told(watchers, r) \X {"ISSUE_STATUS_CHANGED"})

\* RealtimeGateway.emitToProject, then the handler turns to the queue.
Emit(r) ==
  /\ pc[r] = "emit"
  /\ view' = Applied(r)
  /\ announced' = announced \cup {r}
  /\ call' = [call EXCEPT ![r].todo = Recipients(r)]
  /\ Goto(r, IF Recipients(r) = {} THEN "commit" ELSE "notify")
  /\ UNCHANGED <<store, tx, pending, audited, jobs>>

\* NotificationsService.enqueue, one recipient after the other.
Notify(r) ==
  /\ pc[r] = "notify"
  /\ \E n \in call[r].todo :
       /\ n[2] # "ISSUE_ASSIGNED" => ~\E m \in call[r].todo : m[2] = "ISSUE_ASSIGNED"
       /\ jobs' = jobs \cup {[from |-> r, to |-> n[1], kind |-> n[2]]}
       /\ call' = [call EXCEPT ![r].todo = @ \ {n}]
       /\ Goto(r, IF call[r].todo = {n} THEN "commit" ELSE "notify")
  /\ UNCHANGED <<store, tx, pending, audited, announced, view>>

\* The handler has returned: COMMIT makes its writes visible, frees its rows.
Commit(r) ==
  /\ pc[r] = "commit" /\ tx[r] = "open"
  /\ issue' = IF call[r].op = "remove" THEN Drop(issue, call[r].id)
                                        ELSE Put(issue, call[r].id, pending[r])
  /\ counter' = IF call[r].op = "create" THEN call[r].data.number ELSE counter
  /\ tx' = [tx EXCEPT ![r] = "committed"]
  /\ Goto(r, "done")
  /\ UNCHANGED <<call, pending, outside>>

-----------------------------------------------------------------------------
\* The 15 s limit of runWithTenant: the transaction is rolled back under the
\* handler, which goes on until its next statement or its end.
Timeout(r) ==
  /\ r \in Unreliable /\ tx[r] = "open"
  /\ tx' = [tx EXCEPT ![r] = "aborted"]
  /\ UNCHANGED <<store, pc, call, pending, outside>>

\* A statement or an enqueue fails, or the process dies.
Die(r) ==
  /\ r \in Unreliable /\ r \in InProgress
  /\ Throw(r)
  /\ UNCHANGED <<store, call, pending, outside>>

Inputs == [{"assignee"} -> Users \cup {None}] \cup [{"status"} -> Statuses]

\* The steps of a request that has started.
Continue(r) ==
  \/ \E i \in Issues : CreatePlace(r, i)
  \/ MoveAbove(r) \/ MoveRank(r) \/ Write(r) \/ Expired(r)
  \/ Audit(r) \/ Emit(r) \/ Notify(r) \/ Commit(r)

Next ==
  \E r \in Requests :
    \/ \E u \in Actors, s \in Statuses, a \in Users \cup {None} : CreateCount(r, u, s, a)
    \/ \E u \in Actors, i \in Issues, d \in Inputs : UpdateRead(r, u, i, d)
    \/ \E u \in Actors, i \in Issues, s \in Statuses : MoveRead(r, u, i, s)
    \/ \E u \in Actors, i \in Issues : RemoveRead(r, u, i)
    \/ Continue(r)
    \/ Timeout(r)
    \/ Die(r)

Spec == Init /\ [][Next]_vars
FairSpec == Spec /\ \A r \in Requests : WF_vars(Continue(r))

-----------------------------------------------------------------------------
RowOK(row) ==
  /\ row.number \in Nat \ {0} /\ row.status \in Statuses /\ row.rank \in Seq(Digit)
  /\ row.assignee \in Users \cup {None} /\ row.reporter \in Users

TypeOK ==
  /\ counter \in Nat
  /\ DOMAIN issue \subseteq Issues /\ \A i \in DOMAIN issue : RowOK(issue[i])
  /\ DOMAIN view \subseteq Issues /\ \A i \in DOMAIN view : RowOK(view[i])
  /\ pc \in [Requests -> {"new", "place", "above", "below", "write", "audit", "emit",
                          "notify", "commit", "done"}]
  /\ tx \in [Requests -> {"none", "open", "committed", "aborted"}]
  /\ \A r \in Requests : pending[r] = None \/ RowOK(pending[r])
  /\ audited \subseteq Requests /\ announced \subseteq Requests
  /\ jobs \subseteq [from : Requests, to : Users,
                     kind : {"ISSUE_ASSIGNED", "ISSUE_STATUS_CHANGED"}]

\* "Per-project monotonic issue number": of any two issues ever stored one has
\* the larger number, and the number a create has drawn is free until it
\* commits, so that the insert never runs into the unique key (projectId,
\* number), whichever creates roll back in between.
NumbersAreFresh ==
  /\ \A i, j \in DOMAIN issue : issue[i].number = issue[j].number => i = j
  /\ \A r \in Requests, i \in DOMAIN issue :
       HoldsProject(r) => issue[i].number < call[r].data.number

\* A board that applies every event in the order the gateway emits them shows
\* every issue as it is stored, except an issue with an announced change that is
\* not committed yet or was rolled back: the events of one issue are emitted in
\* the order in which its changes commit.
BoardInSync ==
  \A i \in Issues :
    (\A r \in announced : call[r].id = i => tx[r] = "committed")
      => /\ i \in DOMAIN view <=> i \in DOMAIN issue
         /\ i \in DOMAIN view => view[i] = issue[i]

\* Two changes of one issue never overwrite each other's columns: a commit
\* changes the columns its own statement set and leaves the others as the last
\* commit left them, though it read the row long before.
OnlyWrittenColumnsChange ==
  [][\A i \in DOMAIN issue \cap DOMAIN issue' : \A c \in Columns :
        issue'[i][c] # issue[i][c] =>
          \E r \in Requests : /\ tx[r] = "open" /\ tx'[r] = "committed"
                              /\ call[r].id = i /\ c \in DOMAIN call[r].data]_vars

\* Whatever moves, creates and rollbacks did to the column before, a rank that is
\* written fits the place that was read: a new card's is below every card of its
\* column, a dropped card's strictly between the two neighbours, and it can be a
\* neighbour of the next drop (it does not end in the digit zero).
RanksFit ==
  [][\A r \in Requests :
       LET rank == call'[r].data.rank
           a == call[r].floor
           b == NeighbourRank(call[r].below, call[r].data.status)
       IN  /\ pc[r] = "place" /\ pc'[r] = "audit" =>
                \A i \in Column(call[r].data.status) : Less(issue[i].rank, rank)
           /\ pc[r] = "below" /\ pc'[r] = "write" =>
                /\ a # None => Less(a, rank)
                /\ b # None => Less(rank, b)
           /\ pc[r] \in {"place", "below"} /\ pc'[r] \in {"audit", "write"} =>
                rank[Len(rank)] # 0]_vars

\* Every request that was started is answered, whatever the others hold and
\* however many of them roll back: waiting for rows never becomes a deadlock.
RequestsFinish == \A r \in Requests : pc[r] # "new" ~> pc[r] = "done"

\* Between any two cards of a column there is room for a third, so a card can
\* be dropped in every gap: no two cards have the same rank.  (rank.ts: "To move
\* an item between two neighbours we compute a string that sorts strictly
\* between them - no renumbering of the rest of the column".)
EveryGapTakesADrop ==
  \A i, j \in DOMAIN issue :
    issue[i].status = issue[j].status /\ issue[i].rank = issue[j].rank => i = j

\* ARCHITECTURE.md, Realtime board: "after a successful write the service calls
\* gateway.emitToProject(...)".  Then no event is of a change that was rolled back.
AnnouncedIsStored == \A r \in announced : tx[r] # "aborted"

\* IssuesService.update: "Notify the new assignee on (re)assignment".  Then an
\* update whose commit gives an issue another assignee has queued a job for that
\* user, unless it is the user's own doing.
NewAssigneeIsTold ==
  [][\A r \in Requests : \A i \in DOMAIN issue \cap DOMAIN issue' :
        LET new == issue'[i].assignee
        IN  tx[r] = "open" /\ tx'[r] = "committed" /\ call[r].id = i /\ call[r].op = "update"
              /\ new \notin {issue[i].assignee, None, call[r].actor}
              => [from |-> r, to |-> new, kind |-> "ISSUE_ASSIGNED"] \in jobs]_vars
=============================================================================
